--------------------------- MODULE MCLocalAccounts ---------------------------
(***************************************************************************)
(* LocalAccounts for TLC: two user names, one of them with a capital.      *)
(***************************************************************************)
EXTENDS LocalAccounts, TLC

MCLower == "admin" :> "admin" @@ "Erica" :> "erica"
MCNames == DOMAIN MCLower

=============================================================================
