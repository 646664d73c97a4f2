------------------------ MODULE ForwardAccounts_proofs ------------------------
(***************************************************************************)
(* However many people arrive at once, one of them becomes administrator   *)
(* by arriving.  What makes it so is that a request decides under the row  *)
(* of bootstrap_state: what it read there is still so when it commits.     *)
(***************************************************************************)
EXTENDS ForwardAccounts, TLAPS

USE DEF Roles, Accounts

\* Between its SELECT ... FOR UPDATE and its answer a request holds the row, so
\* that nobody else is there and the row is as it was read.
Deciding(r) == req[r].pc \in {"locked", "absent"}
DecidesAlone ==
    \A r \in Requests : Deciding(r) =>
       /\ holder = r
       /\ req[r].completed = bootstrap.completed

\* Whoever is not answered yet is somebody the proxy named.
SomebodyAsks == \A r \in Requests : req[r].pc # "idle" => req[r].who \in People

BootstrapInv == TypeOK /\ SomebodyAsks /\ DecidesAlone /\ OneFirstAdministrator

LEMMA BootstrapInit == Init => BootstrapInv
<1> SUFFICES ASSUME Init PROVE BootstrapInv
  OBVIOUS
<1>1. TypeOK
  BY DEF Init, TypeOK, RequestState, NoRequest
<1>2. DecidesAlone
  BY DEF Init, DecidesAlone, Deciding, NoRequest
<1>3. OneFirstAdministrator /\ SomebodyAsks
  BY DEF Init, OneFirstAdministrator, SomebodyAsks, NoRequest
<1> QED
  BY <1>1, <1>2, <1>3 DEF BootstrapInv

\* An answered request leaves every other one where it was.
LEMMA AnswerEffect ==
    ASSUME TypeOK, NEW r \in Requests, Answer(r)
    PROVE  /\ req' \in [Requests -> RequestState]
           /\ holder' \in Requests \cup {None}
           /\ req'[r].pc = "idle"
           /\ ~Deciding(r)'
           /\ \A s \in Requests \ {r} : /\ req'[s] = req[s]
                                        /\ holder = s => holder' = s
<1>1. NoRequest \in RequestState /\ NoRequest.pc = "idle"
  BY DEF NoRequest, RequestState
<1>2. req'[r] = NoRequest /\ req' \in [Requests -> RequestState]
  BY <1>1 DEF TypeOK, Answer
<1> QED
  BY <1>1, <1>2 DEF TypeOK, Answer, Release, Deciding

\* Answers that change neither bootstrap_state nor who was made administrator.
LEMMA AnswerKeeps ==
    ASSUME BootstrapInv, NEW r \in Requests, Answer(r),
           UNCHANGED <<bootstrap, granted, mode>>,
           role' \in [Accounts -> Roles \cup {"none"}]
    PROVE  BootstrapInv'
<1>1. TypeOK
  BY DEF BootstrapInv
<1>2. TypeOK'
  BY <1>1, AnswerEffect DEF TypeOK
<1>3. DecidesAlone'
  BY <1>1, AnswerEffect DEF BootstrapInv, DecidesAlone, Deciding
<1>4. OneFirstAdministrator' /\ SomebodyAsks'
  BY <1>1, AnswerEffect DEF BootstrapInv, OneFirstAdministrator, SomebodyAsks
<1> QED
  BY <1>2, <1>3, <1>4 DEF BootstrapInv

\* A request on its way through resolve_user.
LEMMA ResolveKeeps ==
    ASSUME RowLocks, BootstrapInv, NEW r \in Requests, Resolve(r)
    PROVE  BootstrapInv'
<1>1. TypeOK /\ SomebodyAsks /\ DecidesAlone /\ OneFirstAdministrator
  BY DEF BootstrapInv
<1>2. CASE LockBootstrap(r)
  <2>1. holder = None /\ holder' = r
    BY <1>2 DEF LockBootstrap, Free
  <2>2. /\ req' \in [Requests -> RequestState]
        /\ req'[r].completed = bootstrap.completed
        /\ \A s \in Requests \ {r} : req'[s] = req[s]
    BY <1>1, <1>2 DEF LockBootstrap, TypeOK, RequestState
  <2>3. TypeOK'
    BY <1>1, <1>2, <2>1, <2>2 DEF LockBootstrap, TypeOK
  <2>4. DecidesAlone'
    <3>1. \A s \in Requests : ~Deciding(s)
      BY <1>1, <2>1, ForwardAssumption DEF DecidesAlone
    <3> QED
      BY <1>2, <2>1, <2>2, <3>1 DEF LockBootstrap, DecidesAlone, Deciding
  <2>5. OneFirstAdministrator' /\ SomebodyAsks'
    BY <1>1, <1>2, <2>2 DEF LockBootstrap, OneFirstAdministrator, SomebodyAsks, TypeOK
  <2> QED
    BY <2>3, <2>4, <2>5 DEF BootstrapInv
<1>3. CASE FindAgain(r)
  BY <1>1, <1>3, AnswerKeeps DEF FindAgain, TypeOK
<1>4. CASE FindNobody(r)
  <2>1. /\ req' \in [Requests -> RequestState]
        /\ req'[r].completed = req[r].completed
        /\ \A s \in Requests \ {r} : req'[s] = req[s]
    BY <1>1, <1>4 DEF FindNobody, TypeOK, RequestState
  <2>2. TypeOK'
    BY <1>1, <1>4, <2>1 DEF FindNobody, TypeOK
  <2>3. DecidesAlone'
    BY <1>1, <1>4, <2>1 DEF FindNobody, DecidesAlone, Deciding
  <2>4. OneFirstAdministrator' /\ SomebodyAsks'
    BY <1>1, <1>4, <2>1 DEF FindNobody, OneFirstAdministrator, SomebodyAsks, TypeOK
  <2> QED
    BY <2>2, <2>3, <2>4 DEF BootstrapInv
<1>5. CASE CreateCommit(r)
  <2> DEFINE p == req[r].who
  <2>1. Answer(r) /\ UNCHANGED mode
    BY <1>5 DEF CreateCommit
  <2>2. CASE req[r].completed
    BY <1>1, <1>5, <2>1, <2>2, AnswerKeeps DEF CreateCommit, TypeOK
  <2>3. CASE ~req[r].completed
    <3>1. /\ role' = [role EXCEPT ![p] = "admin"]
          /\ bootstrap' = [completed |-> TRUE, admin |-> p]
          /\ granted' = granted \cup {p}
      BY <1>5, <2>3 DEF CreateCommit
    <3>2. Deciding(r) /\ holder = r /\ ~bootstrap.completed
      BY <1>1, <1>5, <2>3 DEF CreateCommit, Deciding, DecidesAlone
    <3>3. p \in People
      BY <1>1, <1>5 DEF CreateCommit, SomebodyAsks
    <3>4. TypeOK'
      BY <1>1, <2>1, <3>1, <3>3, AnswerEffect DEF TypeOK
    <3>5. DecidesAlone'
      <4>1. \A s \in Requests \ {r} : ~Deciding(s)
        BY <1>1, <3>2 DEF DecidesAlone
      <4> QED
        BY <1>1, <2>1, <4>1, AnswerEffect DEF DecidesAlone, Deciding
    <3>6. OneFirstAdministrator' /\ SomebodyAsks'
      BY <1>1, <2>1, <3>1, <3>2, AnswerEffect DEF OneFirstAdministrator, SomebodyAsks
    <3> QED
      BY <3>4, <3>5, <3>6 DEF BootstrapInv
  <2> QED
    BY <2>2, <2>3
<1> QED
  BY <1>2, <1>3, <1>4, <1>5 DEF Resolve

\* Arrivals, failures, administration and restarts.
LEMMA OtherKeeps ==
    ASSUME BootstrapInv
    PROVE  /\ \A r \in Requests : Fail(r) => BootstrapInv'
           /\ \A r \in Requests, p \in People : Arrive(r, p) => BootstrapInv'
           /\ \A u \in Accounts, new \in Roles :
                 UpdateRole(u, new) \/ SetRole(u, new) => BootstrapInv'
           /\ \A m \in {"local", "forward"} : Restart(m) => BootstrapInv'
<1>1. TypeOK /\ SomebodyAsks /\ DecidesAlone /\ OneFirstAdministrator
  BY DEF BootstrapInv
<1>2. ASSUME NEW r \in Requests, Fail(r) PROVE BootstrapInv'
  BY <1>1, <1>2, AnswerKeeps DEF Fail, TypeOK
<1>3. ASSUME NEW r \in Requests, NEW p \in People, Arrive(r, p) PROVE BootstrapInv'
  <2>1. /\ req' \in [Requests -> RequestState]
        /\ req'[r].pc = "looked" /\ req'[r].who = p
        /\ \A s \in Requests \ {r} : req'[s] = req[s]
    BY <1>1, <1>3 DEF Arrive, TypeOK, RequestState, NoRequest
  <2>2. TypeOK'
    BY <1>1, <1>3, <2>1 DEF Arrive, TypeOK
  <2>3. DecidesAlone'
    BY <1>1, <1>3, <2>1 DEF Arrive, DecidesAlone, Deciding
  <2> QED
    BY <1>1, <1>3, <2>1, <2>2, <2>3
       DEF Arrive, OneFirstAdministrator, SomebodyAsks, BootstrapInv
<1>4. ASSUME NEW u \in Accounts, NEW new \in Roles, UpdateRole(u, new) \/ SetRole(u, new)
      PROVE  BootstrapInv'
  <2>1. TypeOK'
    BY <1>1, <1>4 DEF UpdateRole, SetRole, TypeOK
  <2>2. SomebodyAsks' /\ DecidesAlone' /\ OneFirstAdministrator'
    BY <1>1, <1>4 DEF UpdateRole, SetRole, SomebodyAsks, DecidesAlone, Deciding,
                      OneFirstAdministrator
  <2> QED
    BY <2>1, <2>2 DEF BootstrapInv
<1>5. ASSUME NEW m \in {"local", "forward"}, Restart(m) PROVE BootstrapInv'
  <2>1. /\ req' \in [Requests -> RequestState] /\ holder' = None
        /\ \A r \in Requests : req'[r].pc = "idle"
    BY <1>5 DEF Restart, RequestState, NoRequest
  <2>2. SomebodyAsks' /\ DecidesAlone'
    BY <2>1 DEF SomebodyAsks, DecidesAlone, Deciding
  <2>3. CASE UNCHANGED <<role, bootstrap, granted>>
    BY <1>1, <1>5, <2>1, <2>2, <2>3 DEF Restart, TypeOK, OneFirstAdministrator, BootstrapInv
  <2>4. CASE ~UNCHANGED <<role, bootstrap, granted>>
    <3>1. /\ role' = [role EXCEPT ![LocalAdmin] = "admin"]
          /\ granted' = granted \cup {LocalAdmin}
          /\ bootstrap' = IF bootstrap.completed THEN bootstrap
                          ELSE [completed |-> TRUE, admin |-> LocalAdmin]
      BY <1>5, <2>4 DEF Restart, EnsureBootstrapAdmin
    <3>2. TypeOK'
      BY <1>1, <1>5, <2>1, <3>1 DEF Restart, TypeOK
    <3>3. OneFirstAdministrator'
      BY <1>1, <3>1 DEF OneFirstAdministrator
    <3> QED
      BY <2>2, <3>2, <3>3 DEF BootstrapInv
  <2> QED
    BY <2>3, <2>4
<1> QED
  BY <1>2, <1>3, <1>4, <1>5

\* With row locks, for any number of people and of requests at once, the service
\* makes one person administrator for being the first, and remembers whom.
THEOREM OneFirst == ASSUME RowLocks PROVE Spec => []OneFirstAdministrator
<1>1. BootstrapInv /\ [Next]_vars => BootstrapInv'
  <2> SUFFICES ASSUME BootstrapInv, [Next]_vars PROVE BootstrapInv'
    OBVIOUS
  <2>1. CASE UNCHANGED vars
    BY <2>1 DEF vars, BootstrapInv, TypeOK, SomebodyAsks, DecidesAlone, Deciding,
              OneFirstAdministrator
  <2>2. CASE Next
    BY <2>2, ResolveKeeps, OtherKeeps DEF Next
  <2> QED
    BY <2>1, <2>2
<1>2. BootstrapInv => OneFirstAdministrator
  BY DEF BootstrapInv
<1> QED
  BY BootstrapInit, <1>1, <1>2, PTL DEF Spec
=============================================================================
