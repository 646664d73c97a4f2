---------------------------- MODULE LocalAccounts ----------------------------
(***************************************************************************)
(* The accounts of Signur when it authenticates by itself (auth_mode       *)
(* "local"): who exists, with which role and password, the sessions the    *)
(* cookies name, the first-run administrator without a password, and the   *)
(* event streams that stay open for hours.                                 *)
(*                                                                         *)
(* A request is authenticated in one step and acts in later ones, and what *)
(* it read in between may have changed.  An action is what a request does  *)
(* between two points where another transaction can commit.  rows holds    *)
(* the rows a request has selected FOR UPDATE; on PostgreSQL (RowLocks)    *)
(* others wait for them, and so do the foreign keys of an audit event and  *)
(* of a session to the account they name.  On SQLite nobody waits.         *)
(***************************************************************************)
EXTENDS Naturals, FiniteSets

CONSTANTS Accounts, Names, Tokens, Requests, Streams,
          BootstrapName,      \* BOOTSTRAP_USERNAME, "admin"
          BootstrapRow,       \* the row of bootstrap_state
          LowerDb, LowerPy,   \* lower() of the database and of Python
          RowLocks,           \* does SELECT ... FOR UPDATE lock the row?
          Operations,         \* what clients ask for: a bound of the model
          MaxPassword, MaxRestarts,  \* bounds of the model
          None

ASSUME AccountsAssumption ==
    /\ BootstrapName \in Names
    /\ DOMAIN LowerDb = Names /\ DOMAIN LowerPy = Names
    /\ LowerDb[BootstrapName] = LowerPy[BootstrapName]
    /\ RowLocks \in BOOLEAN
    /\ MaxPassword \in Nat /\ MaxRestarts \in Nat
    /\ IsFiniteSet(Accounts)
    /\ BootstrapRow \notin Accounts
    /\ None \notin Accounts \cup Names \cup Tokens

VARIABLES
    account,   \* the users table
    session,   \* the user_sessions table, by token
    req,       \* the requests in progress
    stream,    \* the WebSockets of /events
    restarts   \* bounded by MaxRestarts

vars == <<account, session, req, stream, restarts>>

-----------------------------------------------------------------------------
(* Types *)

Roles == {"no_access", "user", "admin"}

\* A password is the count of the passwords its account has had; 0 is a
\* password_hash of NULL.
AccountRow == [name : Names \cup {None}, role : Roles, password : Nat]
NoAccount  == [name |-> None, role |-> "no_access", password |-> 0]

\* A session that expired answers like one that was deleted: "gone".  under is
\* the password its login was verified against.
SessionRow == [state : {"unused", "live", "gone"},
               user : Accounts \cup {None}, under : Nat]
NoSession  == [state |-> "unused", user |-> None, under |-> 0]

Steps == {"idle", "login_checked", "password_checked", "reset_asked",
          "create_asked", "create_checked",
          "rename_asked", "rename_locked", "rename_checked",
          "role_asked", "role_locked", "role_read", "role_counted"}
RequestState == [pc : Steps, actor : Accounts \cup {None},
                 target : Accounts \cup {None}, name : Names \cup {None},
                 seen : Names \cup {None}, role : Roles, under : Nat,
                 token : Tokens \cup {None},
                 rows : SUBSET (Accounts \cup {BootstrapRow})]
NoRequest == [pc |-> "idle", actor |-> None, target |-> None, name |-> None,
              seen |-> None, role |-> "no_access", under |-> 0, token |-> None, rows |-> {}]

StreamState == [pc : {"closed", "waiting", "refreshed"},
                user : Accounts \cup {None}, token : Tokens \cup {None},
                role : Roles, password : Nat]
NoStream == [pc |-> "closed", user |-> None, token |-> None,
             role |-> "no_access", password |-> 0]

-----------------------------------------------------------------------------
(* What the database answers *)

Existing == {u \in Accounts : account[u].name # None}
Admins   == {u \in Existing : account[u].role = "admin"}
FindLocal(name) == {u \in Existing : LowerDb[account[u].name] = LowerPy[name]}
Live(t)  == t # None /\ session[t].state = "live"

\* Whom a request from this machine is, by its cookie: None is no cookie, and
\* a token nobody was given is in none.  The first-run account is picked when the
\* cookie names no session.
Resolved(t) ==
    IF t = None \/ session[t].state = "gone"
    THEN {u \in FindLocal(BootstrapName) : account[u].password = 0}
    ELSE {session[t].user} \ {None}

\* Ids and tokens are random: a new one is in no row and no other request.
NewIds    == {u \in Accounts \ Existing :
                 \A r \in Requests : ~(req[r].pc = "create_checked" /\ req[r].target = u)}
NewTokens == {t \in Tokens : /\ session[t].state = "unused"
                             /\ \A r \in Requests : req[r].token # t}

Demotes(r) == req[r].role # "admin" /\ account[req[r].target].role = "admin"

\* The rows the next statement of r must have: to select FOR UPDATE, to write,
\* or because a foreign key it inserts points there.
Wants(r) ==
    LET q == req[r] IN
    CASE q.pc = "role_asked" -> {BootstrapRow}
      [] q.pc \in {"role_locked", "rename_asked"} -> {q.target}
      [] q.pc = "role_read" -> Admins
      [] q.pc \in {"login_checked", "password_checked", "reset_asked",
                   "rename_checked", "role_counted", "create_checked"}
             -> {q.actor, q.target} \ {None}
      [] OTHER -> {}

WaitsFor(r, s) == RowLocks /\ r # s /\ Wants(r) \cap req[s].rows # {}
Free(r) == \A s \in Requests : ~WaitsFor(r, s)

\* Mutant of Answer: the session, and with it its locks, stays open.
AnswerAndKeepOpen(r) ==
    req' = [req EXCEPT ![r] = [NoRequest EXCEPT !.rows = req[r].rows]]

\* The handler returns or raises and get_session closes the session.
Answer(r) == req' = [req EXCEPT ![r] = NoRequest]
LiveSession(u, password) == [state |-> "live", user |-> u, under |-> password]
\* revoke_user_sessions
Revoked(u) == [t \in Tokens |->
    IF session[t].state = "live" /\ session[t].user = u
    THEN [session[t] EXCEPT !.state = "gone"] ELSE session[t]]

\* Passwords being set on u: with MaxPassword, a bound.
PasswordsUnderWay(u) ==
    Cardinality({r \in Requests : /\ req[r].pc \in {"password_checked", "reset_asked"}
                                  /\ req[r].target = u})
MayHavePassword(u) == account[u].password + PasswordsUnderWay(u) < MaxPassword

-----------------------------------------------------------------------------
(* api/auth.py *)

\* login(): whoever asks has typed the right password, or is on this machine
\* and the account has none.
Login(r, name) ==
    /\ "login" \in Operations /\ req[r].pc = "idle"
    /\ \E u \in FindLocal(name), t \in NewTokens :
        /\ account[u].role # "no_access"
        /\ req' = [req EXCEPT ![r] = [NoRequest EXCEPT
                       !.pc = "login_checked", !.actor = u, !.token = t,
                       !.under = account[u].password]]
    /\ UNCHANGED <<account, session, stream, restarts>>

LoginCommit(r) ==
    /\ req[r].pc = "login_checked" /\ Free(r)
    /\ session' = [session EXCEPT ![req[r].token] =
                                      LiveSession(req[r].actor, req[r].under)]
    /\ Answer(r)
    /\ UNCHANGED <<account, stream, restarts>>

\* logout() of the request's own session, or its expires_at is reached.
SessionEnds(t) ==
    /\ "logout" \in Operations /\ session[t].state = "live"
    /\ session' = [session EXCEPT ![t].state = "gone"]
    /\ UNCHANGED <<account, req, stream, restarts>>

\* change_password(): the current password is verified against the account as
\* it was when the request was authenticated.
ChangePassword(r, t) ==
    /\ "password" \in Operations /\ req[r].pc = "idle"
    /\ \E u \in Resolved(t), new \in NewTokens :
        /\ MayHavePassword(u)
        /\ req' = [req EXCEPT ![r] = [NoRequest EXCEPT
                       !.pc = "password_checked", !.actor = u, !.target = u,
                       !.token = new]]
    /\ UNCHANGED <<account, session, stream, restarts>>

ChangePasswordCommit(r) ==
    LET u == req[r].actor
        new == account[u].password + 1
    IN  /\ req[r].pc = "password_checked" /\ Free(r)
        /\ account' = [account EXCEPT ![u].password = new]
        /\ session' = [Revoked(u) EXCEPT ![req[r].token] = LiveSession(u, new)]
        /\ Answer(r)
        /\ UNCHANGED <<stream, restarts>>

-----------------------------------------------------------------------------
(* api/admin.py.  AdminUser authenticates before the handler starts. *)

AskAsAdmin(r, t, change) ==
    /\ req[r].pc = "idle"
    /\ \E u \in Resolved(t) :
        /\ account[u].role = "admin"
        /\ req' = [req EXCEPT ![r] = [change EXCEPT !.actor = u,
                                                    !.seen = account[u].name]]
    /\ UNCHANGED <<account, session, stream, restarts>>

ResetPassword(r, t, u) ==
    /\ "reset" \in Operations
    /\ u \in Existing /\ MayHavePassword(u)
    /\ AskAsAdmin(r, t, [NoRequest EXCEPT !.pc = "reset_asked", !.target = u])

ResetPasswordCommit(r) ==
    LET u == req[r].target IN
    /\ req[r].pc = "reset_asked" /\ Free(r)
    /\ account' = [account EXCEPT ![u].password = account[u].password + 1]
    /\ session' = Revoked(u)
    /\ Answer(r)
    /\ UNCHANGED <<stream, restarts>>

CreateUser(r, t, name, role) ==
    /\ "create" \in Operations
    /\ AskAsAdmin(r, t, [NoRequest EXCEPT !.pc = "create_asked", !.name = name,
                                          !.role = role])

CreateUserFind(r) ==
    /\ req[r].pc = "create_asked"
    /\ IF FindLocal(req[r].name) = {}
       THEN \E u \in NewIds : req' = [req EXCEPT ![r].pc = "create_checked",
                                                  ![r].target = u]
       ELSE Answer(r)
    /\ UNCHANGED <<account, session, stream, restarts>>

\* UniqueConstraint("identity_authority", "external_id")
NameIsFree(name, u) == \A v \in Existing \ {u} : account[v].name # name

CreateUserCommit(r) ==
    LET q == req[r] IN
    /\ q.pc = "create_checked" /\ Free(r)
    /\ account' = IF NameIsFree(q.name, q.target)
                  THEN [account EXCEPT ![q.target] =
                           [name |-> q.name, role |-> q.role, password |-> 1]]
                  ELSE account
    /\ Answer(r)
    /\ UNCHANGED <<session, stream, restarts>>

\* update_user(), of which only the name matters here.  seen is the name in the
\* row that was loaded: at authentication if administrators edit themselves.
UpdateUser(r, t, u, name) ==
    /\ "rename" \in Operations /\ u \in Existing
    /\ AskAsAdmin(r, t, [NoRequest EXCEPT !.pc = "rename_asked", !.target = u,
                                          !.name = name])

UpdateUserLock(r) ==
    LET q == req[r] IN
    /\ q.pc = "rename_asked" /\ Free(r)
    /\ req' = [req EXCEPT
           ![r].pc = "rename_locked", ![r].rows = {q.target},
           ![r].seen = IF q.target = q.actor THEN q.seen ELSE account[q.target].name]
    /\ UNCHANGED <<account, session, stream, restarts>>

UpdateUserFind(r) ==
    /\ req[r].pc = "rename_locked"
    /\ LET found == FindLocal(req[r].name) IN
       \/ /\ found = {} \/ req[r].target \in found
          /\ req' = [req EXCEPT ![r].pc = "rename_checked"]
       \/ /\ found \ {req[r].target} # {}
          /\ Answer(r)
    /\ UNCHANGED <<account, session, stream, restarts>>

UpdateUserCommit(r) ==
    LET q == req[r] IN
    /\ q.pc = "rename_checked" /\ Free(r)
    /\ account' = IF q.name # q.seen /\ NameIsFree(q.name, q.target)
                  THEN [account EXCEPT ![q.target].name = q.name]
                  ELSE account
    /\ Answer(r)
    /\ UNCHANGED <<session, stream, restarts>>

UpdateRole(r, t, u, role) ==
    /\ "role" \in Operations /\ u \in Existing
    /\ AskAsAdmin(r, t, [NoRequest EXCEPT !.pc = "role_asked", !.target = u,
                                          !.role = role])

UpdateRoleLock(r) ==
    /\ req[r].pc = "role_asked" /\ Free(r)
    /\ req' = [req EXCEPT ![r].pc = "role_locked", ![r].rows = {BootstrapRow}]
    /\ UNCHANGED <<account, session, stream, restarts>>

\* The target is selected FOR UPDATE.  An administrator's own row is the one
\* loaded at authentication, "admin" then: nothing to change, or forbidden.
UpdateRoleRead(r) ==
    LET q == req[r] IN
    /\ q.pc = "role_locked" /\ Free(r)
    /\ IF q.target = q.actor \/ account[q.target].role = q.role
       THEN Answer(r)
       ELSE req' = [req EXCEPT
                ![r].pc = IF Demotes(r) THEN "role_read" ELSE "role_counted",
                ![r].rows = q.rows \cup {q.target}]
    /\ UNCHANGED <<account, session, stream, restarts>>

\* Mutant of UpdateRoleCount: one administrator is enough.
UpdateRoleCountOne(r) ==
    /\ req[r].pc = "role_read" /\ Free(r)
    /\ IF Cardinality(Admins) < 1
       THEN Answer(r)
       ELSE req' = [req EXCEPT ![r].pc = "role_counted",
                               ![r].rows = req[r].rows \cup Admins]
    /\ UNCHANGED <<account, session, stream, restarts>>

UpdateRoleCount(r) ==
    /\ req[r].pc = "role_read" /\ Free(r)
    /\ IF Cardinality(Admins) <= 1
       THEN Answer(r)
       ELSE req' = [req EXCEPT ![r].pc = "role_counted",
                               ![r].rows = req[r].rows \cup Admins]
    /\ UNCHANGED <<account, session, stream, restarts>>

UpdateRoleCommit(r) ==
    /\ req[r].pc = "role_counted" /\ Free(r)
    /\ account' = [account EXCEPT ![req[r].target].role = req[r].role]
    /\ Answer(r)
    /\ UNCHANGED <<session, stream, restarts>>

-----------------------------------------------------------------------------
(* signur-admin users set-role, PostgreSQL's deadlock detector, a restart *)

SetRole(u, role) ==
    /\ "cli" \in Operations /\ u \in Existing
    /\ RowLocks => \A r \in Requests : u \notin req[r].rows
    /\ account' = [account EXCEPT ![u].role = role]
    /\ UNCHANGED <<session, req, stream, restarts>>

\* Of transactions that all wait for each other one is rolled back.
DeadlockDetected(r) ==
    /\ \E cycle \in SUBSET Requests :
        r \in cycle /\ \A q \in cycle : \E s \in cycle : WaitsFor(q, s)
    /\ Answer(r)
    /\ UNCHANGED <<account, session, stream, restarts>>

\* ensure_bootstrap_admin(), whenever the server starts.
BootstrapAdmin(rows, ids) ==
    {[rows EXCEPT ![u] = [name |-> BootstrapName, role |-> "admin", password |-> 0]] :
        u \in ids}

Restart ==
    /\ "restart" \in Operations /\ restarts < MaxRestarts
    /\ restarts' = restarts + 1
    /\ req' = [r \in Requests |-> NoRequest]
    /\ stream' = [s \in Streams |-> NoStream]
    /\ IF FindLocal(BootstrapName) = {}
       THEN account' \in BootstrapAdmin(account, Accounts \ Existing)
       ELSE account' = account
    /\ UNCHANGED session

-----------------------------------------------------------------------------
(* api/events.py *)

\* The handshake, from this machine.
OpenStream(s, t) ==
    /\ stream[s].pc = "closed"
    /\ \E u \in Resolved(t) :
        /\ account[u].role # "no_access"
        /\ stream' = [stream EXCEPT ![s] = [NoStream EXCEPT
                          !.pc = "waiting", !.user = u, !.token = t]]
    /\ UNCHANGED <<account, session, req, restarts>>

RefreshStream(s) ==
    LET u == stream[s].user IN
    /\ stream[s].pc = "waiting"
    /\ stream' = [stream EXCEPT ![s].pc = "refreshed", ![s].role = account[u].role,
                                ![s].password = account[u].password]
    /\ UNCHANGED <<account, session, req, restarts>>

\* Mutant of StillAuthenticated: a cookie is good for as long as it is there.
AuthenticatedOnce(s) ==
    stream[s].token = None => stream[s].password = 0

\* connection_still_authenticated
StillAuthenticated(s) ==
    IF stream[s].token # None THEN Live(stream[s].token)
                              ELSE stream[s].password = 0

\* The rest of the round: close, or send the snapshot and sleep.
CheckStream(s) ==
    /\ stream[s].pc = "refreshed"
    /\ stream' = [stream EXCEPT ![s] =
           IF StillAuthenticated(s) /\ stream[s].role # "no_access"
           THEN [@ EXCEPT !.pc = "waiting", !.role = "no_access", !.password = 0]
           ELSE NoStream]
    /\ UNCHANGED <<account, session, req, restarts>>

\* The browser goes away.
Disconnect(s) ==
    /\ "disconnect" \in Operations /\ stream[s].pc # "closed"
    /\ stream' = [stream EXCEPT ![s] = NoStream]
    /\ UNCHANGED <<account, session, req, restarts>>

-----------------------------------------------------------------------------
(* The specification *)

\* The server has started for the first time.
Init ==
    /\ account \in BootstrapAdmin([u \in Accounts |-> NoAccount], Accounts)
    /\ session = [t \in Tokens |-> NoSession]
    /\ req = [r \in Requests |-> NoRequest]
    /\ stream = [s \in Streams |-> NoStream]
    /\ restarts = 0

Cookies == Tokens \cup {None}

\* What clients ask for.
Ask(r) ==
    \/ \E name \in Names : Login(r, name)
    \/ \E t \in Cookies :
        \/ ChangePassword(r, t)
        \/ \E u \in Accounts :
            \/ ResetPassword(r, t, u)
            \/ \E name \in Names : UpdateUser(r, t, u, name)
            \/ \E role \in Roles : UpdateRole(r, t, u, role)
        \/ \E name \in Names, role \in Roles : CreateUser(r, t, name, role)

\* What a request does once it was let in.
Step(r) ==
    \/ LoginCommit(r) \/ ChangePasswordCommit(r) \/ ResetPasswordCommit(r)
    \/ CreateUserFind(r) \/ CreateUserCommit(r)
    \/ UpdateUserLock(r) \/ UpdateUserFind(r) \/ UpdateUserCommit(r)
    \/ UpdateRoleLock(r) \/ UpdateRoleRead(r) \/ UpdateRoleCount(r)
    \/ UpdateRoleCommit(r)

StreamRound(s) == RefreshStream(s) \/ CheckStream(s)

Next ==
    \/ \E r \in Requests : Ask(r) \/ Step(r) \/ DeadlockDetected(r)
    \/ \E t \in Tokens : SessionEnds(t)
    \/ \E u \in Accounts, role \in Roles : SetRole(u, role)
    \/ \E s \in Streams :
        \/ \E t \in Cookies : OpenStream(s, t)
        \/ StreamRound(s) \/ Disconnect(s)
    \/ Restart

Spec == Init /\ [][Next]_vars

\* Threads run, row locks are granted in the order they were asked for (strong
\* fairness: others keep taking the row), deadlocks are found within a second,
\* and the event loop gives every stream its round.  Nobody has to ask.
Fairness ==
    /\ \A r \in Requests : SF_vars(Step(r)) /\ WF_vars(DeadlockDetected(r))
    /\ \A s \in Streams : WF_vars(StreamRound(s))

FairSpec == Spec /\ Fairness

-----------------------------------------------------------------------------
(* Properties *)

\* Every variable keeps its shape.
TypeOK ==
    /\ account \in [Accounts -> AccountRow]
    /\ session \in [Tokens -> SessionRow]
    /\ req \in [Requests -> RequestState]
    /\ stream \in [Streams -> StreamState]
    /\ restarts \in 0..MaxRestarts

\* update_role counts the administrators before it takes the role from one
\* (api/admin.py:223-228), while other demotions, renames and signur-admin go
\* on: whatever the API does, somebody can still administer.  Only the command
\* line may leave nobody.
AdminRemains ==
    [][Admins # {} =>
          \/ Admins' # {}
          \/ \E u \in Accounts, role \in Roles : SetRole(u, role)]_vars

\* Why: with row locks, who is about to demote an administrator holds another
\* one, whom nobody else can demote before.
CountHolds ==
    RowLocks => \A r \in Requests :
        req[r].pc = "role_counted" /\ Demotes(r)
            => \E u \in Admins \cap req[r].rows : u # req[r].target

\* The id of an account under way is in no row and no other request.
IdsAreNew ==
    \A r \in Requests : req[r].pc = "create_checked" =>
        /\ req[r].target \in Accounts \ Existing
        /\ \A s \in Requests \ {r} :
               req[s].pc = "create_checked" => req[s].target # req[r].target

\* What a request refers to is there.
RequestsRefer ==
    \A r \in Requests :
        /\ req[r].pc \in {"role_asked", "role_locked", "role_read", "role_counted",
                          "rename_asked", "rename_locked", "rename_checked",
                          "reset_asked"}
             => req[r].target \in Existing
        /\ req[r].pc = "password_checked" => req[r].actor \in Accounts
        /\ req[r].pc \in {"role_read", "role_counted"} => req[r].target \in req[r].rows
        /\ req[r].pc \in {"rename_asked", "rename_locked", "rename_checked",
                          "create_asked", "create_checked"}
             => req[r].name \in Names

\* Inductive.
AccountsInv ==
    /\ account \in [Accounts -> AccountRow]
    /\ session \in [Tokens -> SessionRow]
    /\ req \in [Requests -> RequestState]
    /\ RequestsRefer
    /\ IdsAreNew
    /\ CountHolds

\* Every request is answered: nobody waits for ever for a row (the locks of
\* update_role and update_user against each other and against the foreign keys
\* of the audit events).
EveryRequestAnswered ==
    \A r \in Requests : req[r].pc # "idle" ~> req[r].pc = "idle"

\* The identity behind an open stream is no longer good.
Unwelcome(s) ==
    /\ stream[s].pc # "closed"
    /\ \/ account[stream[s].user].role = "no_access"
       \/ stream[s].token # None /\ ~Live(stream[s].token)
       \/ stream[s].token = None /\ account[stream[s].user].password > 0

\* "the connection must go with it" (auth.py:198-206): a stream whose session
\* was revoked, whose first-run account got a password, or whose owner lost
\* access closes, unless the access comes back first.
StreamsEnd == \A s \in Streams : Unwelcome(s) ~> ~Unwelcome(s)

\* Stated by api/auth.py:130: a password change invalidates every session, so
\* that a live one was opened with the password the account has now.
SessionsFollowPassword ==
    \A t \in Tokens : Live(t) => session[t].under = account[session[t].user].password

=============================================================================
