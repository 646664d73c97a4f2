------------------------------ MODULE PinVault ------------------------------
(***************************************************************************)
(* The PIN vault of pin_vault.py: the PINs typed for one signature, kept   *)
(* in the memory of the server process under the id of the attempt they    *)
(* were typed for.  Every operation runs under the vault's own lock, so it *)
(* is one atomic change of the dictionary; the dictionary is the set of    *)
(* its entries, and the PIN itself is of no interest.                      *)
(***************************************************************************)
EXTENDS Naturals

CONSTANTS Jobs,        \* the ids of signature attempts
          ForgetAfter  \* FORGET_AFTER_SECONDS, in ticks of the clock

ASSUME ForgetAfterAssumption == ForgetAfter \in Nat \ {0}

Entry == [job : Jobs, forgetAt : Nat]

\* The entries of other attempts.
Discard(held, j) == {e \in held : e.job # j}

\* What is left once the entries past their time are swept: done on every
\* hold and every take, and at no other moment.
ForgetStale(held, now) == {e \in held : e.forgetAt > now}

Hold(held, now, j) ==
    Discard(ForgetStale(held, now), j)
      \cup {[job |-> j, forgetAt |-> now + ForgetAfter]}

\* take() sweeps, removes the entry, and answers the PIN if there was one.
Take(held, now, j) == Discard(ForgetStale(held, now), j)

TakeAnswersPin(held, now, j) == \E e \in ForgetStale(held, now) : e.job = j
=============================================================================
