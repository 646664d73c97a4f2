------------------------ MODULE LocalAccounts_proofs ------------------------
(***************************************************************************)
(* With row locks the API never takes the role from the last               *)
(* administrator.                                                          *)
(***************************************************************************)
EXTENDS LocalAccounts, FiniteSetTheorems, TLAPS

USE DEF Roles, Steps

\* The steps of which AccountsInv only needs that they leave the accounts alone
\* and what they put in req.
Types == /\ account \in [Accounts -> AccountRow]
         /\ session \in [Tokens -> SessionRow]
         /\ req \in [Requests -> RequestState]

\* An answered request refers to nothing.
LEMMA NoRequestType == NoRequest \in RequestState /\ NoRequest.pc = "idle"
BY DEF NoRequest, RequestState

\* Whoever a cookie names is an account with a row or one a session refers to.
LEMMA ResolvedType ==
    ASSUME Types, NEW t \in Cookies, NEW u \in Resolved(t)
    PROVE  u \in Accounts
BY AccountsAssumption
   DEF Types, Resolved, FindLocal, Existing, Cookies, SessionRow

\* A step that leaves the table alone and puts one well-formed request in place
\* keeps the invariant if the new request does.
LEMMA OneRequest ==
    ASSUME AccountsInv, NEW r \in Requests, NEW q \in RequestState,
           req' = [req EXCEPT ![r] = q], UNCHANGED account,
           session' \in [Tokens -> SessionRow],
           q.pc \in {"role_asked", "role_locked", "role_read", "role_counted",
                     "rename_asked", "rename_locked", "rename_checked",
                     "reset_asked"}
               => q.target \in Existing,
           q.pc = "password_checked" => q.actor \in Accounts,
           q.pc \in {"rename_asked", "rename_locked", "rename_checked",
                     "create_asked", "create_checked"} => q.name \in Names,
           q.pc = "create_checked" =>
               /\ q.target \in Accounts \ Existing
               /\ \A s \in Requests \ {r} :
                     req[s].pc = "create_checked" => req[s].target # q.target,
           q.pc \in {"role_read", "role_counted"} => q.target \in q.rows,
           RowLocks /\ q.pc = "role_counted" /\ q.role # "admin"
                    /\ account[q.target].role = "admin" =>
               \E u \in Admins \cap q.rows : u # q.target
    PROVE  AccountsInv'
<1>1. req' \in [Requests -> RequestState] /\ req'[r] = q
      /\ \A s \in Requests \ {r} : req'[s] = req[s]
  BY DEF AccountsInv
<1>2. Existing' = Existing /\ Admins' = Admins
  BY DEF Existing, Admins
<1>3. RequestsRefer'
  BY <1>1, <1>2 DEF AccountsInv, RequestsRefer
<1>4. IdsAreNew'
  BY <1>1, <1>2 DEF AccountsInv, IdsAreNew
<1>5. CountHolds'
  BY <1>1, <1>2 DEF AccountsInv, CountHolds, Demotes
<1>6. QED
  BY <1>1, <1>3, <1>4, <1>5 DEF AccountsInv

\* A step that answers one request and changes nothing in users.
LEMMA Answers ==
    ASSUME AccountsInv, NEW r \in Requests, Answer(r), UNCHANGED account,
           session' \in [Tokens -> SessionRow]
    PROVE  AccountsInv'
BY OneRequest, NoRequestType DEF Answer

\* Names, passwords and new rows: a step that keeps the roles of existing
\* accounts, and that answers a request, keeps the invariant.
LEMMA RowChanges ==
    ASSUME AccountsInv, NEW r \in Requests, Answer(r),
           session' \in [Tokens -> SessionRow],
           account' \in [Accounts -> AccountRow],
           NEW w \in Accounts,
           \A u \in Accounts \ {w} : account'[u] = account[u],
           w \in Existing => w \in Existing' /\ account'[w].role = account[w].role,
           w \notin Existing /\ w \in Existing' => \A s \in Requests \ {r} :
               req[s].pc = "create_checked" => req[s].target # w
    PROVE  AccountsInv'
<1>1. req' \in [Requests -> RequestState] /\ req'[r].pc = "idle"
      /\ \A s \in Requests \ {r} : req'[s] = req[s]
  BY NoRequestType DEF AccountsInv, Answer
<1>2. Existing \subseteq Existing' /\ Existing' \subseteq Existing \cup {w}
  BY DEF Existing
<1>3. Admins \subseteq Admins'
  BY <1>2 DEF Admins, Existing
<1>4. RequestsRefer'
  BY <1>1, <1>2 DEF AccountsInv, RequestsRefer
<1>5. IdsAreNew'
  BY <1>1, <1>2 DEF AccountsInv, IdsAreNew
<1>6. ASSUME NEW s \in Requests, req[s].pc = "role_counted" PROVE
         account'[req[s].target].role = account[req[s].target].role
  BY <1>6 DEF AccountsInv, RequestsRefer, Existing
<1>7. CountHolds'
  BY <1>1, <1>3, <1>6 DEF AccountsInv, CountHolds, Demotes
<1>8. QED
  BY <1>1, <1>4, <1>5, <1>7 DEF AccountsInv

-----------------------------------------------------------------------------
(* What the requests ask for and how they go on *)

LEMMA RevokedType ==
    ASSUME Types, NEW u
    PROVE  Revoked(u) \in [Tokens -> SessionRow]
BY DEF Types, Revoked, SessionRow

\* Requests that arrive: they are authenticated, hold no row and name no new id.
LEMMA AskKeeps ==
    ASSUME AccountsInv, NEW r \in Requests, Ask(r)
    PROVE  AccountsInv'
<1>1. Types
  BY DEF AccountsInv, Types
<1>2. UNCHANGED <<account, session>> /\ session' \in [Tokens -> SessionRow]
  BY <1>1 DEF Ask, Login, ChangePassword, AskAsAdmin, ResetPassword, UpdateUser,
              UpdateRole, CreateUser, Types
<1>3. ASSUME NEW name \in Names, Login(r, name) PROVE AccountsInv'
  <2>1. PICK u \in FindLocal(name), t \in NewTokens :
            req' = [req EXCEPT ![r] = [NoRequest EXCEPT
                        !.pc = "login_checked", !.actor = u, !.token = t,
                        !.under = account[u].password]]
    BY <1>3 DEF Login
  <2>2. u \in Accounts /\ t \in Tokens /\ account[u].password \in Nat
    BY <1>1 DEF FindLocal, Existing, NewTokens, Types, AccountRow
  <2> DEFINE q == [NoRequest EXCEPT !.pc = "login_checked", !.actor = u,
                                    !.token = t, !.under = account[u].password]
  <2>3. q \in RequestState /\ q.pc = "login_checked"
    BY <2>2 DEF NoRequest, RequestState
  <2> HIDE DEF q
  <2>4. QED
    BY <1>2, <2>1, <2>3, OneRequest DEF q
<1>4. ASSUME NEW t \in Cookies, ChangePassword(r, t) PROVE AccountsInv'
  <2>1. PICK u \in Resolved(t), new \in NewTokens :
            req' = [req EXCEPT ![r] = [NoRequest EXCEPT
                        !.pc = "password_checked", !.actor = u, !.target = u,
                        !.token = new]]
    BY <1>4 DEF ChangePassword
  <2>2. u \in Accounts /\ new \in Tokens
    BY <1>1, ResolvedType DEF NewTokens
  <2> DEFINE q == [NoRequest EXCEPT !.pc = "password_checked", !.actor = u,
                                    !.target = u, !.token = new]
  <2>3. q \in RequestState /\ q.pc = "password_checked" /\ q.actor = u
    BY <2>2 DEF NoRequest, RequestState
  <2> HIDE DEF q
  <2>4. QED
    BY <1>2, <2>1, <2>2, <2>3, OneRequest DEF q
<1>5. ASSUME NEW t \in Cookies, NEW c \in RequestState, AskAsAdmin(r, t, c),
             c.pc \in {"reset_asked", "create_asked", "rename_asked", "role_asked"},
             c.pc \in {"role_asked", "rename_asked", "reset_asked"} => c.target \in Existing,
             c.pc \in {"rename_asked", "create_asked"} => c.name \in Names
      PROVE  AccountsInv'
  <2>1. PICK u \in Resolved(t) :
            req' = [req EXCEPT ![r] = [c EXCEPT !.actor = u, !.seen = account[u].name]]
    BY <1>5 DEF AskAsAdmin
  <2>2. u \in Accounts /\ account[u].name \in Names \cup {None}
    BY <1>1, ResolvedType DEF Types, AccountRow
  <2> DEFINE q == [c EXCEPT !.actor = u, !.seen = account[u].name]
  <2>3. /\ q \in RequestState
        /\ q.pc = c.pc /\ q.target = c.target /\ q.name = c.name
    BY <2>2 DEF RequestState
  <2> HIDE DEF q
  <2>4. QED
    BY <1>2, <1>5, <2>1, <2>3, OneRequest DEF q
<1>6. ASSUME NEW t \in Cookies, NEW u \in Accounts, ResetPassword(r, t, u)
      PROVE  AccountsInv'
  <2> DEFINE c == [NoRequest EXCEPT !.pc = "reset_asked", !.target = u]
  <2>1. c \in RequestState /\ c.pc = "reset_asked" /\ c.target = u
    BY DEF NoRequest, RequestState
  <2> HIDE DEF c
  <2>2. QED
    BY <1>5, <1>6, <2>1 DEF ResetPassword, c
<1>7. ASSUME NEW t \in Cookies, NEW u \in Accounts, NEW name \in Names,
             UpdateUser(r, t, u, name)
      PROVE  AccountsInv'
  <2> DEFINE c == [NoRequest EXCEPT !.pc = "rename_asked", !.target = u, !.name = name]
  <2>1. c \in RequestState /\ c.pc = "rename_asked" /\ c.target = u /\ c.name = name
    BY DEF NoRequest, RequestState
  <2> HIDE DEF c
  <2>2. QED
    BY <1>5, <1>7, <2>1 DEF UpdateUser, c
<1>8. ASSUME NEW t \in Cookies, NEW u \in Accounts, NEW role \in Roles,
             UpdateRole(r, t, u, role)
      PROVE  AccountsInv'
  <2> DEFINE c == [NoRequest EXCEPT !.pc = "role_asked", !.target = u, !.role = role]
  <2>1. c \in RequestState /\ c.pc = "role_asked" /\ c.target = u
    BY DEF NoRequest, RequestState
  <2> HIDE DEF c
  <2>2. QED
    BY <1>5, <1>8, <2>1 DEF UpdateRole, c
<1>9. ASSUME NEW t \in Cookies, NEW name \in Names, NEW role \in Roles,
             CreateUser(r, t, name, role)
      PROVE  AccountsInv'
  <2> DEFINE c == [NoRequest EXCEPT !.pc = "create_asked", !.name = name, !.role = role]
  <2>1. c \in RequestState /\ c.pc = "create_asked" /\ c.name = name
    BY DEF NoRequest, RequestState
  <2> HIDE DEF c
  <2>2. QED
    BY <1>5, <1>9, <2>1 DEF CreateUser, c
<1>10. QED
  BY <1>3, <1>4, <1>6, <1>7, <1>8, <1>9 DEF Ask

\* Every step of a request but the commit that gives a role.
LEMMA StepKeeps ==
    ASSUME AccountsInv, NEW r \in Requests, Step(r), ~UpdateRoleCommit(r)
    PROVE  AccountsInv'
<1>1. Types /\ req[r] \in RequestState
  BY DEF AccountsInv, Types
<1>2. CASE LoginCommit(r)
  <2>1. session' \in [Tokens -> SessionRow]
    <3>1. req[r].actor \in Accounts \cup {None} /\ req[r].under \in Nat
      BY <1>1 DEF RequestState
    <3>2. LiveSession(req[r].actor, req[r].under) \in SessionRow
      BY <3>1 DEF LiveSession, SessionRow
    <3>3. QED
      BY <1>1, <1>2, <3>2 DEF LoginCommit, Types
  <2>2. QED
    BY <1>2, <2>1, Answers DEF LoginCommit
<1>3. CASE ChangePasswordCommit(r)
  <2> DEFINE u == req[r].actor
  <2>1. /\ Answer(r)
        /\ account' = [account EXCEPT ![u].password = account[u].password + 1]
        /\ session' = [Revoked(u) EXCEPT ![req[r].token] =
                            LiveSession(u, account[u].password + 1)]
    BY <1>3 DEF ChangePasswordCommit
  <2>2. u \in Accounts
    BY <1>3 DEF ChangePasswordCommit, AccountsInv, RequestsRefer
  <2>3. /\ account[u].password + 1 \in Nat
        /\ account' \in [Accounts -> AccountRow]
    BY <1>1, <2>1, <2>2 DEF Types, AccountRow
  <2>4. LiveSession(u, account[u].password + 1) \in SessionRow
    BY <2>2, <2>3 DEF LiveSession, SessionRow
  <2>5. session' \in [Tokens -> SessionRow]
    BY <1>1, <2>1, <2>4, RevokedType
  <2>6. /\ u \in Existing <=> u \in Existing'
        /\ account'[u].role = account[u].role
    BY <1>1, <2>1, <2>2 DEF Existing, Types, AccountRow
  <2>7. QED
    BY <2>1, <2>2, <2>3, <2>5, <2>6, RowChanges
<1>4. CASE ResetPasswordCommit(r)
  <2> DEFINE u == req[r].target
  <2>1. u \in Existing /\ u \in Accounts
    BY <1>4 DEF ResetPasswordCommit, AccountsInv, RequestsRefer, Existing
  <2>2. /\ Answer(r) /\ session' = Revoked(u)
        /\ account' = [account EXCEPT ![u].password = account[u].password + 1]
    BY <1>4 DEF ResetPasswordCommit
  <2>3. account' \in [Accounts -> AccountRow]
    BY <1>1, <2>1, <2>2 DEF Types, AccountRow
  <2>4. u \in Existing' /\ account'[u].role = account[u].role
    BY <1>1, <2>1, <2>2 DEF Existing, Types, AccountRow
  <2>5. session' \in [Tokens -> SessionRow]
    BY <1>1, <2>2, RevokedType
  <2>6. QED
    BY <2>1, <2>2, <2>3, <2>4, <2>5, RowChanges
<1>5. CASE CreateUserFind(r)
  <2>1. CASE Answer(r)
    BY <1>1, <1>5, <2>1, Answers DEF CreateUserFind, Types
  <2>2. CASE ~Answer(r)
    <3>1. PICK u \in NewIds : req' = [req EXCEPT ![r].pc = "create_checked",
                                                 ![r].target = u]
      BY <1>5, <2>2 DEF CreateUserFind
    <3> DEFINE q == [req[r] EXCEPT !.pc = "create_checked", !.target = u]
    <3>2. u \in Accounts \ Existing /\ q \in RequestState
      BY <1>1 DEF NewIds, RequestState
    <3>3. /\ q.pc = "create_checked" /\ q.target = u /\ q.name = req[r].name
          /\ q.name \in Names
      BY <1>1, <1>5 DEF CreateUserFind, AccountsInv, RequestsRefer, RequestState
    <3>4. req' = [req EXCEPT ![r] = q]
      BY <1>1, <3>1 DEF Types, RequestState
    <3>5. \A s \in Requests : req[s].pc = "create_checked" => req[s].target # u
      BY DEF NewIds
    <3> HIDE DEF q
    <3>6. QED
      BY <1>1, <1>5, <3>2, <3>3, <3>4, <3>5, OneRequest DEF CreateUserFind, Types
  <2>3. QED
    BY <2>1, <2>2
<1>6. CASE CreateUserCommit(r)
  <2> DEFINE w == req[r].target
  <2>1. /\ w \in Accounts \ Existing /\ req[r].name \in Names
        /\ \A s \in Requests \ {r} : req[s].pc = "create_checked" => req[s].target # w
    BY <1>6 DEF CreateUserCommit, AccountsInv, IdsAreNew, RequestsRefer
  <2>2. CASE account' = account
    BY <1>1, <1>6, <2>2, Answers DEF CreateUserCommit, Types
  <2>3. CASE account' = [account EXCEPT ![w] =
                 [name |-> req[r].name, role |-> req[r].role, password |-> 1]]
    <3>1. account' \in [Accounts -> AccountRow]
      BY <1>1, <2>1, <2>3 DEF Types, AccountRow, RequestState
    <3>2. QED
      BY <1>1, <1>6, <2>1, <2>3, <3>1, RowChanges DEF CreateUserCommit, Types
  <2>4. QED
    BY <1>6, <2>2, <2>3 DEF CreateUserCommit
<1>7. CASE UpdateUserLock(r)
  <2> DEFINE q == [req[r] EXCEPT !.pc = "rename_locked", !.rows = {req[r].target},
                       !.seen = IF req[r].target = req[r].actor THEN req[r].seen
                                ELSE account[req[r].target].name]
  <2>1. req[r].target \in Existing /\ req[r].target \in Accounts /\ req[r].name \in Names
    BY <1>7 DEF UpdateUserLock, AccountsInv, RequestsRefer, Existing
  <2>2. q \in RequestState /\ q.pc = "rename_locked"
        /\ q.target = req[r].target /\ q.name = req[r].name
    BY <1>1, <2>1 DEF Types, RequestState, AccountRow
  <2>3. req' = [req EXCEPT ![r] = q]
    BY <1>1, <1>7 DEF UpdateUserLock, Types, RequestState
  <2> HIDE DEF q
  <2>4. QED
    BY <1>1, <1>7, <2>1, <2>2, <2>3, OneRequest DEF UpdateUserLock, Types
<1>8. CASE UpdateUserFind(r)
  <2>1. CASE Answer(r)
    BY <1>1, <1>8, <2>1, Answers DEF UpdateUserFind, Types
  <2>2. CASE ~Answer(r)
    <3> DEFINE q == [req[r] EXCEPT !.pc = "rename_checked"]
    <3>1. req' = [req EXCEPT ![r] = q]
      BY <1>1, <1>8, <2>2 DEF UpdateUserFind, Types, RequestState
    <3>2. q \in RequestState /\ q.pc = "rename_checked"
          /\ q.target = req[r].target /\ q.name = req[r].name
      BY <1>1 DEF RequestState
    <3>3. q.target \in Existing /\ q.name \in Names
      BY <1>8, <3>2 DEF UpdateUserFind, AccountsInv, RequestsRefer
    <3> HIDE DEF q
    <3>4. QED
      BY <1>1, <1>8, <3>1, <3>2, <3>3, OneRequest DEF UpdateUserFind, Types
  <2>3. QED
    BY <2>1, <2>2
<1>9. CASE UpdateUserCommit(r)
  <2> DEFINE u == req[r].target
  <2>1. u \in Existing /\ u \in Accounts /\ req[r].name \in Names
    BY <1>9 DEF UpdateUserCommit, AccountsInv, RequestsRefer, Existing
  <2>2. CASE account' = account
    BY <1>1, <1>9, <2>2, Answers DEF UpdateUserCommit, Types
  <2>3. CASE account' = [account EXCEPT ![u].name = req[r].name]
    <3>1. account' \in [Accounts -> AccountRow]
      BY <1>1, <2>1, <2>3 DEF Types, AccountRow
    <3>2. u \in Existing' /\ account'[u].role = account[u].role
      BY <1>1, <2>1, <2>3, AccountsAssumption DEF Existing, Types, AccountRow
    <3>3. QED
      BY <1>1, <1>9, <2>1, <2>3, <3>1, <3>2, RowChanges DEF UpdateUserCommit, Types
  <2>4. QED
    BY <1>9, <2>2, <2>3 DEF UpdateUserCommit
<1>10. CASE UpdateRoleLock(r)
  <2> DEFINE q == [req[r] EXCEPT !.pc = "role_locked", !.rows = {BootstrapRow}]
  <2>1. req' = [req EXCEPT ![r] = q]
    BY <1>1, <1>10 DEF UpdateRoleLock, Types, RequestState
  <2>2. q \in RequestState /\ q.pc = "role_locked" /\ q.target = req[r].target
    BY <1>1 DEF RequestState
  <2>3. q.target \in Existing
    BY <1>10, <2>2 DEF UpdateRoleLock, AccountsInv, RequestsRefer
  <2> HIDE DEF q
  <2>4. QED
    BY <1>1, <1>10, <2>1, <2>2, <2>3, OneRequest DEF UpdateRoleLock, Types
<1>11. CASE UpdateRoleRead(r)
  <2>1. CASE Answer(r)
    BY <1>1, <1>11, <2>1, Answers DEF UpdateRoleRead, Types
  <2>2. CASE ~Answer(r)
    <3> DEFINE q == [req[r] EXCEPT
               !.pc = IF Demotes(r) THEN "role_read" ELSE "role_counted",
               !.rows = req[r].rows \cup {req[r].target}]
    <3>1. req' = [req EXCEPT ![r] = q]
      BY <1>1, <1>11, <2>2 DEF UpdateRoleRead, Types, RequestState
    <3>2. req[r].target \in Existing /\ req[r].target \in Accounts
      BY <1>11 DEF UpdateRoleRead, AccountsInv, RequestsRefer, Existing
    <3>3. /\ q \in RequestState /\ q.pc \in {"role_read", "role_counted"}
          /\ q.target = req[r].target /\ q.role = req[r].role
          /\ q.target \in q.rows
          /\ (q.pc = "role_counted" => ~Demotes(r))
      BY <1>1, <3>2 DEF RequestState
    <3> HIDE DEF q
    <3>4. QED
      BY <1>1, <1>11, <3>1, <3>2, <3>3, OneRequest DEF UpdateRoleRead, Types, Demotes
  <2>3. QED
    BY <2>1, <2>2
<1>12. CASE UpdateRoleCount(r)
  <2>1. CASE Answer(r)
    BY <1>1, <1>12, <2>1, Answers DEF UpdateRoleCount, Types
  <2>2. CASE ~Answer(r)
    <3> DEFINE q == [req[r] EXCEPT !.pc = "role_counted",
                                   !.rows = req[r].rows \cup Admins]
    <3>1. req' = [req EXCEPT ![r] = q] /\ ~(Cardinality(Admins) <= 1)
      BY <1>1, <1>12, <2>2 DEF UpdateRoleCount, Types, RequestState
    <3>2. req[r].target \in Existing /\ req[r].target \in req[r].rows
      BY <1>12 DEF UpdateRoleCount, AccountsInv, RequestsRefer
    <3>3. Admins \subseteq Accounts
      BY DEF Admins, Existing
    <3>4. /\ q \in RequestState /\ q.pc = "role_counted" /\ q.role = req[r].role
          /\ q.target = req[r].target /\ q.rows = req[r].rows \cup Admins
      BY <1>1, <3>3 DEF RequestState
    <3>5. \E u \in Admins : u # req[r].target
      <4>1. SUFFICES ASSUME Admins \subseteq {req[r].target} PROVE FALSE
        OBVIOUS
      <4>2. IsFiniteSet({req[r].target}) /\ Cardinality({req[r].target}) = 1
        BY FS_Singleton
      <4>3. IsFiniteSet(Admins) /\ Cardinality(Admins) <= 1
        BY <4>1, <4>2, FS_Subset
      <4>4. QED
        BY <3>1, <4>3
    <3> HIDE DEF q
    <3>6. QED
      BY <1>1, <1>12, <3>1, <3>2, <3>4, <3>5, OneRequest DEF UpdateRoleCount, Types
  <2>3. QED
    BY <2>1, <2>2
<1>13. QED
  BY <1>2, <1>3, <1>4, <1>5, <1>6, <1>7, <1>8, <1>9, <1>10, <1>11, <1>12 DEF Step

-----------------------------------------------------------------------------
(* A role changes *)

\* Who commits a demotion waits for the row of its target.
LEMMA CommitWants ==
    ASSUME Types, RowLocks, NEW r \in Requests, UpdateRoleCommit(r),
           req[r].target \in Accounts, NEW s \in Requests \ {r}
    PROVE  req[r].target \notin req[s].rows
<1>1. req[r].pc = "role_counted" /\ ~WaitsFor(r, s)
  BY DEF UpdateRoleCommit, Free
<1>2. Wants(r) = {req[r].actor, req[r].target} \ {None}
  BY <1>1 DEF Wants
<1>3. req[r].target \in Wants(r)
  BY <1>2, AccountsAssumption
<1>4. QED
  BY <1>1, <1>3 DEF WaitsFor

\* A row nobody else holds may get another role.
LEMMA RoleChanges ==
    ASSUME AccountsInv, NEW w \in Existing, NEW role \in Roles,
           account' = [account EXCEPT ![w].role = role],
           session' = session, req' \in [Requests -> RequestState],
           \A s \in Requests : req'[s] = req[s] \/ req'[s].pc = "idle",
           RowLocks => \A s \in Requests : req'[s].pc # "idle" => w \notin req[s].rows
    PROVE  AccountsInv'
<1>1. w \in Accounts /\ account' \in [Accounts -> AccountRow]
  BY DEF Existing, AccountsInv, AccountRow
<1>2. /\ account'[w].name = account[w].name
      /\ \A u \in Accounts \ {w} : account'[u] = account[u]
  BY <1>1 DEF AccountsInv, AccountRow
<1>3. Existing' = Existing
  BY <1>2 DEF Existing
<1>4. RequestsRefer'
  BY <1>3 DEF AccountsInv, RequestsRefer
<1>5. IdsAreNew'
  BY <1>3 DEF AccountsInv, IdsAreNew
<1>6. CountHolds'
  <2> SUFFICES ASSUME RowLocks, NEW s \in Requests,
                      (req[s].pc = "role_counted")', Demotes(s)'
               PROVE  \E u \in Admins' \cap req'[s].rows : u # req'[s].target
    BY DEF CountHolds
  <2>1. req'[s] = req[s] /\ w \notin req[s].rows
    OBVIOUS
  <2>2. req[s].target \in Existing /\ req[s].target # w
    BY <2>1 DEF AccountsInv, RequestsRefer
  <2>3. Demotes(s)
    BY <1>2, <2>1, <2>2 DEF Demotes, Existing
  <2>4. PICK u \in Admins \cap req[s].rows : u # req[s].target
    BY <2>1, <2>3 DEF AccountsInv, CountHolds
  <2>5. u # w /\ u \in Admins'
    BY <1>2, <1>3, <2>1, <2>4 DEF Admins, Existing
  <2>6. QED
    BY <2>1, <2>4, <2>5
<1>7. QED
  BY <1>1, <1>4, <1>5, <1>6 DEF AccountsInv

-----------------------------------------------------------------------------
(* The invariant *)

LEMMA InvInit == Init => AccountsInv
<1> SUFFICES ASSUME Init PROVE AccountsInv
  OBVIOUS
<1>1. PICK u \in Accounts : account = [[v \in Accounts |-> NoAccount] EXCEPT
          ![u] = [name |-> BootstrapName, role |-> "admin", password |-> 0]]
  BY DEF Init, BootstrapAdmin
<1>2. account \in [Accounts -> AccountRow]
  BY <1>1, AccountsAssumption DEF AccountRow, NoAccount
<1>3. session \in [Tokens -> SessionRow]
  BY DEF Init, NoSession, SessionRow
<1>4. /\ req \in [Requests -> RequestState]
      /\ \A r \in Requests : req[r].pc = "idle"
  BY NoRequestType DEF Init
<1>5. QED
  BY <1>2, <1>3, <1>4 DEF AccountsInv, RequestsRefer, IdsAreNew, CountHolds

LEMMA InvNext == AccountsInv /\ [Next]_vars => AccountsInv'
<1> SUFFICES ASSUME AccountsInv, [Next]_vars PROVE AccountsInv'
  OBVIOUS
<1>1. Types
  BY DEF AccountsInv, Types
<1>2. ASSUME UNCHANGED <<account, req>>, session' \in [Tokens -> SessionRow]
      PROVE  AccountsInv'
  BY <1>2 DEF AccountsInv, RequestsRefer, IdsAreNew, CountHolds, Existing, Admins, Demotes
<1>3. CASE UNCHANGED vars
  BY <1>1, <1>2, <1>3 DEF vars, Types
<1>4. ASSUME NEW r \in Requests, Ask(r) PROVE AccountsInv'
  BY <1>4, AskKeeps
<1>5. ASSUME NEW r \in Requests, Step(r) PROVE AccountsInv'
  <2>1. CASE ~UpdateRoleCommit(r)
    BY <1>5, <2>1, StepKeeps
  <2>2. CASE UpdateRoleCommit(r)
    <3>1. req[r].target \in Existing /\ req[r].target \in Accounts /\ req[r].role \in Roles
      BY <1>1, <2>2 DEF UpdateRoleCommit, AccountsInv, RequestsRefer, Existing, RequestState
    <3>2. RowLocks => \A s \in Requests \ {r} : req[r].target \notin req[s].rows
      BY <1>1, <2>2, <3>1, CommitWants
    <3>3. /\ req' \in [Requests -> RequestState] /\ req'[r].pc = "idle"
          /\ \A s \in Requests \ {r} : req'[s] = req[s]
      BY <1>1, <2>2, NoRequestType DEF UpdateRoleCommit, Answer, Types
    <3>4. QED
      BY <2>2, <3>1, <3>2, <3>3, RoleChanges DEF UpdateRoleCommit
  <2>3. QED
    BY <2>1, <2>2
<1>6. ASSUME NEW r \in Requests, DeadlockDetected(r) PROVE AccountsInv'
  BY <1>1, <1>6, Answers DEF DeadlockDetected, Types
<1>7. ASSUME NEW t \in Tokens, SessionEnds(t) PROVE AccountsInv'
  <2>1. session' \in [Tokens -> SessionRow]
    BY <1>1, <1>7 DEF SessionEnds, Types, SessionRow
  <2>2. QED
    BY <1>2, <1>7, <2>1 DEF SessionEnds
<1>8. ASSUME NEW u \in Accounts, NEW role \in Roles, SetRole(u, role) PROVE AccountsInv'
  BY <1>1, <1>8, RoleChanges DEF SetRole, Types
<1>9. ASSUME NEW s \in Streams,
             \/ \E t \in Cookies : OpenStream(s, t)
             \/ StreamRound(s) \/ Disconnect(s)
      PROVE  AccountsInv'
  BY <1>1, <1>2, <1>9 DEF OpenStream, StreamRound, RefreshStream, CheckStream,
                          Disconnect, Types
<1>10. CASE Restart
  <2>1. /\ req' \in [Requests -> RequestState]
        /\ \A r \in Requests : req'[r].pc = "idle"
    BY <1>10, NoRequestType DEF Restart
  <2>2. account' \in [Accounts -> AccountRow] /\ session' = session
    BY <1>1, <1>10, AccountsAssumption DEF Restart, BootstrapAdmin, Types, AccountRow
  <2>3. QED
    BY <1>1, <2>1, <2>2 DEF AccountsInv, RequestsRefer, IdsAreNew, CountHolds, Types
<1>11. QED
  BY <1>3, <1>4, <1>5, <1>6, <1>7, <1>8, <1>9, <1>10 DEF Next

\* The invariant that carries what follows, on either database: whom a request
\* refers to exists, the ids it reserves are free, and where the row locks work
\* a count of the administrators holds until the demotion commits.
THEOREM AccountsSafe == Spec => []AccountsInv
<1>1. QED
  BY InvInit, InvNext, PTL DEF Spec

-----------------------------------------------------------------------------
(* An administrator remains *)

\* Nothing but a change of role takes an administrator away.
LEMMA OthersKeepAdmins ==
    ASSUME AccountsInv, NEW r \in Requests, Step(r), ~UpdateRoleCommit(r)
    PROVE  Admins \subseteq Admins'
<1>1. Types
  BY DEF AccountsInv, Types
<1>2. ASSUME UNCHANGED account PROVE Admins \subseteq Admins'
  BY <1>2 DEF Admins, Existing
<1>3. ASSUME NEW w, \/ ChangePasswordCommit(r) /\ w = req[r].actor
                    \/ ResetPasswordCommit(r) /\ w = req[r].target
      PROVE  Admins \subseteq Admins'
  <2>1. account' = [account EXCEPT ![w].password = account[w].password + 1]
    BY <1>3 DEF ChangePasswordCommit, ResetPasswordCommit
  <2>2. QED
    BY <1>1, <2>1 DEF Admins, Existing, Types, AccountRow
<1>4. CASE CreateUserCommit(r)
  <2>1. req[r].target \in Accounts \ Existing
    BY <1>4 DEF CreateUserCommit, AccountsInv, IdsAreNew
  <2>2. \A u \in Existing : account'[u] = account[u]
    BY <1>1, <1>4, <2>1 DEF CreateUserCommit, Types, Existing
  <2>3. QED
    BY <2>2 DEF Admins, Existing
<1>5. CASE UpdateUserCommit(r)
  <2>1. req[r].name \in Names
    BY <1>5 DEF UpdateUserCommit, AccountsInv, RequestsRefer
  <2>2. CASE UNCHANGED account
    BY <1>2, <2>2
  <2>3. CASE account' = [account EXCEPT ![req[r].target].name = req[r].name]
    BY <1>1, <2>1, <2>3, AccountsAssumption DEF Admins, Existing, Types, AccountRow
  <2>4. QED
    BY <1>5, <2>2, <2>3 DEF UpdateUserCommit
<1>6. QED
  BY <1>2, <1>3, <1>4, <1>5
     DEF Step, LoginCommit, CreateUserFind, UpdateUserLock, UpdateUserFind,
         UpdateRoleLock, UpdateRoleRead, UpdateRoleCount

\* Only requests that were let in, signur-admin and a start write the table.
LEMMA WhoWrites ==
    ASSUME [Next]_vars
    PROVE  \/ UNCHANGED account
           \/ \E r \in Requests : Step(r)
           \/ \E u \in Accounts, role \in Roles : SetRole(u, role)
           \/ Restart
<1>1. ASSUME NEW r \in Requests, Ask(r) PROVE UNCHANGED account
  BY <1>1 DEF Ask, Login, ChangePassword, ResetPassword, UpdateUser, UpdateRole,
              CreateUser, AskAsAdmin
<1>2. ASSUME NEW r \in Requests, DeadlockDetected(r) PROVE UNCHANGED account
  BY <1>2 DEF DeadlockDetected
<1>3. ASSUME NEW t \in Tokens, SessionEnds(t) PROVE UNCHANGED account
  BY <1>3 DEF SessionEnds
<1>4. ASSUME NEW s \in Streams,
             \/ \E t \in Cookies : OpenStream(s, t)
             \/ StreamRound(s) \/ Disconnect(s)
      PROVE  UNCHANGED account
  BY <1>4 DEF OpenStream, StreamRound, RefreshStream, CheckStream, Disconnect
<1>5. CASE UNCHANGED vars
  BY <1>5 DEF vars
<1>6. QED
  BY <1>1, <1>2, <1>3, <1>4, <1>5 DEF Next

LEMMA AdminStep ==
    ASSUME RowLocks, AccountsInv, [Next]_vars, Admins # {},
           ~\E u \in Accounts, role \in Roles : SetRole(u, role)
    PROVE  Admins' # {}
<1>1. Types
  BY DEF AccountsInv, Types
<1>2. ASSUME UNCHANGED account PROVE Admins' # {}
  BY <1>2 DEF Admins, Existing
<1>3. ASSUME NEW r \in Requests, UpdateRoleCommit(r) PROVE Admins' # {}
  <2> DEFINE w == req[r].target
  <2>1. w \in Existing /\ w \in Accounts /\ req[r].pc = "role_counted"
        /\ account' = [account EXCEPT ![w].role = req[r].role]
    BY <1>3 DEF UpdateRoleCommit, AccountsInv, RequestsRefer, Existing
  <2>2. /\ account'[w].role = req[r].role /\ account'[w].name = account[w].name
        /\ \A u \in Accounts \ {w} : account'[u] = account[u]
    BY <1>1, <2>1 DEF Types, AccountRow
  <2>3. CASE req[r].role = "admin"
    BY <2>1, <2>2, <2>3 DEF Admins, Existing
  <2>4. CASE Demotes(r)
    BY <2>1, <2>2, <2>4 DEF AccountsInv, CountHolds, Admins, Existing
  <2>5. CASE req[r].role # "admin" /\ account[w].role # "admin"
    BY <2>2, <2>5 DEF Admins, Existing
  <2>6. QED
    BY <2>3, <2>4, <2>5 DEF Demotes
<1>4. ASSUME NEW r \in Requests, Step(r), ~UpdateRoleCommit(r) PROVE Admins' # {}
  BY <1>4, OthersKeepAdmins
<1>5. CASE Restart
  <2>1. \A u \in Existing : account'[u] = account[u]
    BY <1>1, <1>5 DEF Restart, BootstrapAdmin, Existing, Types
  <2>2. QED
    BY <2>1 DEF Admins, Existing
<1>6. QED
  BY <1>2, <1>3, <1>4, <1>5, WhoWrites

\* update_role with PostgreSQL (api/admin.py:209-232): whatever overlaps, the API
\* leaves an administrator; only signur-admin may take the last one away.
THEOREM AnAdminRemains == RowLocks => (Spec => AdminRemains)
<1>1. ASSUME RowLocks PROVE AccountsInv /\ [Next]_vars =>
          (Admins # {} => \/ Admins' # {}
                          \/ \E u \in Accounts, role \in Roles : SetRole(u, role))
  BY <1>1, AdminStep
<1>2. ASSUME RowLocks PROVE Spec => AdminRemains
  BY <1>1, <1>2, AccountsSafe, PTL DEF Spec, AdminRemains
<1>3. QED
  BY <1>2
=============================================================================
