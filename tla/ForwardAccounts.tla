---------------------------- MODULE ForwardAccounts ----------------------------
(***************************************************************************)
(* The accounts of Signur behind an authenticating proxy (auth_mode        *)
(* "forward"): whoever the proxy lets through gets an account at the first *)
(* request, and the very first one becomes the administrator.  The row of  *)
(* bootstrap_state says whether that happened, and is the lock under which *)
(* it is decided.  An installation may have run in local mode before, or   *)
(* be switched to it: then the start made the local administrator.         *)
(*                                                                         *)
(* With RowLocks (PostgreSQL) SELECT ... FOR UPDATE keeps the row until    *)
(* the transaction ends; without (SQLite) nobody waits.                    *)
(***************************************************************************)
EXTENDS Naturals, FiniteSets

CONSTANTS People,      \* the identities the proxy forwards
          LocalAdmin,  \* the account named admin of the local authority
          Requests, RowLocks, None

ASSUME ForwardAssumption ==
    /\ RowLocks \in BOOLEAN
    /\ LocalAdmin \notin People
    /\ None \notin People \cup {LocalAdmin} \cup Requests

VARIABLES
    role,       \* users.role, "none" without a row
    bootstrap,  \* bootstrap_state
    holder,     \* the transaction that holds its row
    req,        \* the requests that resolve_user has not answered
    mode,       \* auth_mode since the last start
    granted     \* who was made an administrator by the service itself: history

vars == <<role, bootstrap, holder, req, mode, granted>>

-----------------------------------------------------------------------------

Roles    == {"no_access", "user", "admin"}
Accounts == People \cup {LocalAdmin}

RequestState == [pc : {"idle", "looked", "locked", "absent"},
                 who : People \cup {None}, completed : BOOLEAN]
NoRequest == [pc |-> "idle", who |-> None, completed |-> FALSE]

TypeOK ==
    /\ role \in [Accounts -> Roles \cup {"none"}]
    /\ bootstrap \in [completed : BOOLEAN, admin : Accounts \cup {None}]
    /\ holder \in Requests \cup {None}
    /\ req \in [Requests -> RequestState]
    /\ mode \in {"local", "forward"}
    /\ granted \in SUBSET Accounts

Known(u) == role[u] # "none"
Free     == RowLocks => holder = None

\* Mutant of Release: the session is not closed.
ReleaseNothing(r) == holder' = holder
Release(r) == holder' = IF holder = r THEN None ELSE holder

Answer(r) == req' = [req EXCEPT ![r] = NoRequest] /\ Release(r)

-----------------------------------------------------------------------------
(* resolve_user *)

\* Somebody known is let in as he is; otherwise the request goes on.
Arrive(r, p) ==
    /\ mode = "forward"
    /\ req[r] = NoRequest /\ ~Known(p)
    /\ req' = [req EXCEPT ![r] = [NoRequest EXCEPT !.pc = "looked", !.who = p]]
    /\ UNCHANGED <<role, bootstrap, holder, mode, granted>>

\* Mutant of LockBootstrap: the SELECT has no with_for_update().
ReadBootstrap(r) ==
    /\ req[r].pc = "looked"
    /\ req' = [req EXCEPT ![r].pc = "locked", ![r].completed = bootstrap.completed]
    /\ UNCHANGED <<role, bootstrap, holder, mode, granted>>

LockBootstrap(r) ==
    /\ req[r].pc = "looked"
    /\ Free
    /\ holder' = IF RowLocks THEN r ELSE holder
    /\ req' = [req EXCEPT ![r].pc = "locked", ![r].completed = bootstrap.completed]
    /\ UNCHANGED <<role, bootstrap, mode, granted>>

\* Another request of the same person was first.
FindAgain(r) ==
    /\ req[r].pc = "locked"
    /\ Known(req[r].who)
    /\ Answer(r)
    /\ UNCHANGED <<role, bootstrap, mode, granted>>

FindNobody(r) ==
    /\ req[r].pc = "locked"
    /\ ~Known(req[r].who)
    /\ req' = [req EXCEPT ![r].pc = "absent"]
    /\ UNCHANGED <<role, bootstrap, holder, mode, granted>>

\* The INSERT and the commit; the unique constraint admits one row of a person.
CreateCommit(r) ==
    LET p == req[r].who IN
    /\ req[r].pc = "absent"
    /\ ~Known(p)
    /\ IF req[r].completed
       THEN /\ role' = [role EXCEPT ![p] = "no_access"]
            /\ UNCHANGED <<bootstrap, granted>>
       ELSE /\ role' = [role EXCEPT ![p] = "admin"]
            /\ bootstrap' = [completed |-> TRUE, admin |-> p]
            /\ granted' = granted \cup {p}
    /\ Answer(r)
    /\ UNCHANGED mode

\* A statement or the commit raises; the flush, when the person has a row by then.
Fail(r) ==
    /\ req[r] # NoRequest
    /\ Answer(r)
    /\ UNCHANGED <<role, bootstrap, mode, granted>>

-----------------------------------------------------------------------------
(* Administration, and the start *)

\* update_role takes the row of bootstrap_state too: LocalAccounts has its steps.
UpdateRole(u, new) ==
    /\ Free /\ Known(u)
    /\ \E a \in Accounts \ {u} : role[a] = "admin"
    /\ role' = [role EXCEPT ![u] = new]
    /\ UNCHANGED <<bootstrap, holder, req, mode, granted>>

\* signur-admin users set-role: whatever the role was.
SetRole(u, new) ==
    /\ Known(u)
    /\ role' = [role EXCEPT ![u] = new]
    /\ UNCHANGED <<bootstrap, holder, req, mode, granted>>

\* ensure_bootstrap_admin
EnsureBootstrapAdmin ==
    IF Known(LocalAdmin) THEN UNCHANGED <<role, bootstrap, granted>>
    ELSE /\ role' = [role EXCEPT ![LocalAdmin] = "admin"]
         /\ granted' = granted \cup {LocalAdmin}
         /\ bootstrap' = IF bootstrap.completed THEN bootstrap
                         ELSE [completed |-> TRUE, admin |-> LocalAdmin]

\* The service stops, in whatever it does, and starts again with a mode.
Restart(m) ==
    /\ mode' = m
    /\ req' = [r \in Requests |-> NoRequest]
    /\ holder' = None
    /\ IF m = "local" THEN EnsureBootstrapAdmin ELSE UNCHANGED <<role, bootstrap, granted>>

-----------------------------------------------------------------------------

Init ==
    /\ role = [u \in Accounts |-> "none"]
    /\ bootstrap = [completed |-> FALSE, admin |-> None]
    /\ holder = None
    /\ req = [r \in Requests |-> NoRequest]
    /\ mode = "forward"
    /\ granted = {}

Resolve(r) == LockBootstrap(r) \/ FindAgain(r) \/ FindNobody(r) \/ CreateCommit(r)

Next ==
    \/ \E r \in Requests : Resolve(r) \/ Fail(r) \/ \E p \in People : Arrive(r, p)
    \/ \E u \in Accounts, new \in Roles : UpdateRole(u, new) \/ SetRole(u, new)
    \/ \E m \in {"local", "forward"} : Restart(m)

Spec == Init /\ [][Next]_vars

\* A request's thread runs on, and PostgreSQL hands a row to who waits for it.
FairSpec == Spec /\ \A r \in Requests : SF_vars(Resolve(r))

-----------------------------------------------------------------------------
(* Properties *)

\* However many first requests arrive together, one person becomes administrator
\* by arriving, and bootstrap_state names him (auth.py:87).  Of those whom the
\* service makes by itself, the only other is the local administrator of an
\* installation that changed its mode; he keeps his name here (LocalAccounts has
\* what a start does once he was renamed).
OneFirstAdministrator ==
    /\ bootstrap.completed <=> granted # {}
    /\ bootstrap.completed => bootstrap.admin \in granted
    /\ granted \subseteq {bootstrap.admin, LocalAdmin}

\* Whoever arrives is answered, and nobody keeps the row that all arrivals wait for.
EveryArrivalAnswered == \A r \in Requests : req[r].pc # "idle" ~> req[r].pc = "idle"
=============================================================================
