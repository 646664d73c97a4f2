-------------------------- MODULE Certificates_proofs --------------------------
(***************************************************************************)
(* What keeps a certificate's rows right on PostgreSQL is again the row    *)
(* lock: what a transaction read under FOR UPDATE is still so when it      *)
(* commits, and an attempt that refers to a certificate is inserted under  *)
(* that certificate's row.  So a certificate found unused stays unused     *)
(* until it is deleted, the attempts in flight keep theirs, and the worker *)
(* signs with the one that was chosen.                                     *)
(***************************************************************************)
EXTENDS Certificates, TLAPS

RowSteps == {"updating", "deleting", "unused"}

\* The certificates a reorder read.
Ordered(r) == {c \in Certificates : req[r].seen[c].row = "there"}

\* What a request under way may rely on until it commits.
Protected(r) ==
    LET c == req[r].c
        j == req[r].j IN
    /\ req[r].pc = "creating" =>
          /\ c \in Certificates /\ cert[c].row = "unborn"
          /\ \A s \in Requests : req[s].c = c => s = r
    /\ req[r].pc \in RowSteps => c \in Certificates /\ cert[c].row = "there" /\ lock[c] = r
    /\ req[r].pc = "updating" => req[r].seen[c] = cert[c]
    /\ req[r].pc = "unused" => ~InUse(c)
    /\ req[r].pc = "ordering" =>
          \A d \in Ordered(r) : lock[d] = r /\ req[r].seen[d] = cert[d]
    /\ req[r].pc = "chosen" =>
          /\ j \in Attempts /\ job[j].status = "unborn"
          /\ \A s \in Requests : req[s].j = j => s = r

AllProtected == \A r \in Requests : Protected(r)

\* What signs an attempt that names this certificate.
SignerOf(name) == IF name = None THEN Default ELSE name

\* The attempt in hand runs, and what was loaded with it is what it names.
WorkerInv ==
    /\ worker.j # None => job[worker.j].status = "running"
    /\ worker.loaded => worker.j # None /\ worker.c = SignerOf(job[worker.j].name)

\* A certificate that was never added has no place and no updates.
NothingUnborn ==
    \A c \in Certificates : cert[c].row = "unborn" => listing[c] = -1 /\ updates[c] = 0

CertificatesInv ==
    /\ TypeOK /\ AllProtected /\ WorkerInv /\ NothingUnborn
    /\ ChosenStaysConfigured /\ HistorySaysWhatSigned
    /\ VersionCountsUpdates /\ OrderAsListed

-----------------------------------------------------------------------------
(* The initial state *)

LEMMA CertificatesInit == Init => CertificatesInv
<1> SUFFICES ASSUME Init PROVE CertificatesInv
  OBVIOUS
<1> USE DEF Init
<1>1. NoCert \in CertRow /\ NoCert.row = "unborn" /\ NoJob \in JobRow /\ NoJob.status = "unborn"
  BY DEF NoCert, CertRow, Backends, NoJob, JobRow
<1>2. NoRequest \in RequestState /\ NoRequest.pc = "idle"
  BY <1>1 DEF NoRequest, RequestState
<1>3. NoWork \in [j : Attempts \cup {None}, loaded : BOOLEAN,
                  c : Certificates \cup {None, Default}, saved : BOOLEAN, local : BOOLEAN]
      /\ NoWork.j = None /\ NoWork.loaded = FALSE
  BY DEF NoWork
<1>4. TypeOK
  BY <1>1, <1>2, <1>3 DEF TypeOK
<1>5. AllProtected
  BY <1>2 DEF AllProtected, Protected, RowSteps
<1>6. Configured = {} /\ \A j \in Attempts : ~InFlight(j) /\ job[j].status # "signed"
  BY <1>1 DEF Configured, InFlight
<1>7. WorkerInv /\ NothingUnborn
  BY <1>3 DEF WorkerInv, NothingUnborn
<1>8. ChosenStaysConfigured /\ HistorySaysWhatSigned /\ VersionCountsUpdates /\ OrderAsListed
  BY <1>6 DEF ChosenStaysConfigured, HistorySaysWhatSigned, VersionCountsUpdates, OrderAsListed
<1> QED
  BY <1>4, <1>5, <1>7, <1>8 DEF CertificatesInv

-----------------------------------------------------------------------------
(* Frames: what a step leaves to the other requests *)

\* What a request relies on after a step, in terms of what it will refer to.
LEMMA ProtectedNext ==
    ASSUME NEW r, NEW c, NEW j, req'[r].c = c, req'[r].j = j,
           req'[r].pc = "creating" =>
              /\ c \in Certificates /\ cert'[c].row = "unborn"
              /\ \A s \in Requests : req'[s].c = c => s = r,
           req'[r].pc \in RowSteps => c \in Certificates /\ cert'[c].row = "there" /\ lock'[c] = r,
           req'[r].pc = "updating" => req'[r].seen[c] = cert'[c],
           req'[r].pc = "unused" => ~InUse(c)',
           req'[r].pc = "ordering" =>
              \A d \in Ordered(r)' : lock'[d] = r /\ req'[r].seen[d] = cert'[d],
           req'[r].pc = "chosen" =>
              /\ j \in Attempts /\ job'[j].status = "unborn"
              /\ \A s \in Requests : req'[s].j = j => s = r
    PROVE  Protected(r)'
BY DEF Protected, InUse, InFlight

\* The requests but r keep what they rely on, if the step changes no row that
\* another request has locked, gives no such certificate to an attempt, and uses
\* no id that another request made.
LEMMA OthersProtected ==
    ASSUME TypeOK, AllProtected, NEW r,
           \A s \in Requests \ {r} : req'[s] = req[s],
           \A x \in Certificates : lock[x] # r => lock'[x] = lock[x] \/ lock[x] = None,
           \A x \in Certificates : lock[x] \in Requests \ {r} /\ cert[x].row = "there" =>
              cert'[x] = cert[x] /\ (InUse(x)' => InUse(x)),
           \A x \in Certificates : cert[x].row = "unborn" /\ cert'[x].row # "unborn" =>
              r \in Requests /\ req[r].c = x,
           \A j \in Attempts : job[j].status = "unborn" /\ job'[j].status # "unborn" =>
              r \in Requests /\ req[r].j = j,
           \A s \in Requests \ {r} : r \in Requests =>
              /\ req[s].pc = "creating" => req'[r].c # req[s].c
              /\ req[s].pc = "chosen" => req'[r].j # req[s].j
    PROVE  \A s \in Requests \ {r} : Protected(s)'
<1> SUFFICES ASSUME NEW s \in Requests \ {r} PROVE Protected(s)'
  OBVIOUS
<1>1. Protected(s) /\ req'[s] = req[s] /\ s # None
  BY CertificatesAssumption DEF AllProtected
<1>2. PICK c, j : c = req[s].c /\ j = req[s].j
  OBVIOUS
<1>3. req[s].pc = "creating" =>
         /\ c \in Certificates /\ cert'[c].row = "unborn"
         /\ \A q \in Requests : req'[q].c = c => q = s
  <2>1. SUFFICES ASSUME req[s].pc = "creating"
                 PROVE  /\ c \in Certificates /\ cert'[c].row = "unborn"
                        /\ \A q \in Requests : req'[q].c = c => q = s
    OBVIOUS
  <2>2. /\ c \in Certificates /\ cert[c].row = "unborn"
        /\ \A q \in Requests : req[q].c = c => q = s
    BY <1>1, <1>2, <2>1 DEF Protected
  <2>3. cert'[c].row = "unborn"
    BY <2>2
  <2>4. \A q \in Requests : req'[q].c = c => q = s
    BY <1>2, <2>1, <2>2
  <2> QED
    BY <2>2, <2>3, <2>4
<1>4. req[s].pc \in RowSteps => c \in Certificates /\ cert'[c].row = "there" /\ lock'[c] = s
  BY <1>1, <1>2 DEF Protected
<1>5. req[s].pc = "updating" => req[s].seen[c] = cert'[c]
  BY <1>1, <1>2 DEF Protected, RowSteps
<1>6. req[s].pc = "unused" => ~InUse(c)'
  BY <1>1, <1>2 DEF Protected, RowSteps
<1>7. req[s].pc = "ordering" =>
         \A d \in Ordered(s)' : lock'[d] = s /\ req[s].seen[d] = cert'[d]
  BY <1>1 DEF Protected, Ordered
<1>8. req[s].pc = "chosen" =>
         /\ j \in Attempts /\ job'[j].status = "unborn"
         /\ \A q \in Requests : req'[q].j = j => q = s
  <2>1. SUFFICES ASSUME req[s].pc = "chosen"
                 PROVE  /\ j \in Attempts /\ job'[j].status = "unborn"
                        /\ \A q \in Requests : req'[q].j = j => q = s
    OBVIOUS
  <2>2. /\ j \in Attempts /\ job[j].status = "unborn"
        /\ \A q \in Requests : req[q].j = j => q = s
    BY <1>1, <1>2, <2>1 DEF Protected
  <2>3. job'[j].status = "unborn"
    BY <2>2
  <2>4. \A q \in Requests : req'[q].j = j => q = s
    BY <1>2, <2>1, <2>2
  <2> QED
    BY <2>2, <2>3, <2>4
<1> QED
  BY <1>1, <1>2, <1>3, <1>4, <1>5, <1>6, <1>7, <1>8, ProtectedNext

\* Answering a request releases its rows and nobody else's.
LEMMA AnswerEffect ==
    ASSUME TypeOK, AllProtected, NEW r \in Requests, Answer(r)
    PROVE  /\ req' \in [Requests -> RequestState]
           /\ lock' \in [Certificates -> Requests \cup {None}]
           /\ \A s \in Requests \ {r} : req'[s] = req[s]
           /\ \A x \in Certificates : lock[x] # r => lock'[x] = lock[x]
           /\ \A s \in Requests \ {r} : /\ req[s].pc = "creating" => req'[r].c # req[s].c
                                        /\ req[s].pc = "chosen" => req'[r].j # req[s].j
           /\ Protected(r)'
<1>1. /\ NoRequest \in RequestState
      /\ NoRequest.pc = "idle" /\ NoRequest.c = None /\ NoRequest.j = None
  BY DEF NoRequest, RequestState, NoCert, CertRow, Backends
<1>2. req'[r] = NoRequest /\ req' \in [Requests -> RequestState]
  BY <1>1 DEF TypeOK, Answer
<1>3. Protected(r)'
  BY <1>1, <1>2, ProtectedNext DEF RowSteps
<1>4. \A s \in Requests : /\ req[s].pc = "creating" => req[s].c \in Certificates
                          /\ req[s].pc = "chosen" => req[s].j \in Attempts
  BY DEF AllProtected, Protected
<1>5. \A s \in Requests \ {r} : /\ req[s].pc = "creating" => req'[r].c # req[s].c
                                /\ req[s].pc = "chosen" => req'[r].j # req[s].j
  BY <1>1, <1>2, <1>4, CertificatesAssumption
<1> QED
  BY <1>2, <1>3, <1>5 DEF TypeOK, Answer, Release

\* Taking rows nobody has.
LEMMA HoldEffect ==
    ASSUME RowLocks, TypeOK, NEW r \in Requests,
           NEW C \in SUBSET Certificates, Free(C), Hold(r, C)
    PROVE  /\ lock' \in [Certificates -> Requests \cup {None}]
           /\ \A x \in C : lock'[x] = r
           /\ \A x \in Certificates : lock'[x] = lock[x] \/ lock[x] = None
BY DEF TypeOK, Free, Hold

\* The rows stay as they are.
LEMMA SameRows ==
    ASSUME CertificatesInv, UNCHANGED <<dbVars, worker, listing, updates>>
    PROVE  /\ WorkerInv' /\ NothingUnborn'
           /\ ChosenStaysConfigured' /\ HistorySaysWhatSigned'
           /\ VersionCountsUpdates' /\ OrderAsListed'
           /\ \A c : InUse(c)' <=> InUse(c)
BY DEF dbVars, CertificatesInv, WorkerInv, NothingUnborn, ChosenStaysConfigured,
       HistorySaysWhatSigned, VersionCountsUpdates, OrderAsListed, Configured, InUse, InFlight

\* A step of r that only reads, or that takes free rows.
LEMMA ReadingKeeps ==
    ASSUME CertificatesInv, NEW r \in Requests, UNCHANGED <<dbVars, pins, worker, listing, updates>>,
           req' \in [Requests -> RequestState],
           lock' \in [Certificates -> Requests \cup {None}],
           \A s \in Requests \ {r} : req'[s] = req[s],
           \A x \in Certificates : lock[x] # r => lock'[x] = lock[x] \/ lock[x] = None,
           \A s \in Requests \ {r} : /\ req[s].pc = "creating" => req'[r].c # req[s].c
                                     /\ req[s].pc = "chosen" => req'[r].j # req[s].j,
           Protected(r)'
    PROVE  CertificatesInv'
<1>1. TypeOK /\ AllProtected
  BY DEF CertificatesInv
<1>2. TypeOK'
  BY <1>1 DEF TypeOK, dbVars
<1>3. UNCHANGED <<cert, job>> /\ \A x : InUse(x)' <=> InUse(x)
  BY SameRows DEF dbVars
<1>4. \A s \in Requests \ {r} : Protected(s)'
  BY <1>1, <1>3, OthersProtected
<1>5. AllProtected'
  BY <1>4 DEF AllProtected
<1> QED
  BY <1>2, <1>5, SameRows DEF CertificatesInv

-----------------------------------------------------------------------------
(* Steps that change no row *)

LEMMA AnswerKeeps ==
    ASSUME CertificatesInv, NEW r \in Requests, Answer(r),
           UNCHANGED <<dbVars, pins, worker, listing, updates>>
    PROVE  CertificatesInv'
BY AnswerEffect, ReadingKeeps DEF CertificatesInv

LEMMA CreateReadKeeps ==
    ASSUME CertificatesInv, NEW r \in Requests, NEW c \in Certificates, CreateRead(r, c)
    PROVE  CertificatesInv'
<1>1. TypeOK /\ UNCHANGED <<dbVars, pins, lock, worker, listing, updates>>
  BY DEF CertificatesInv, CreateRead
<1>2. PICK next \in 0..MaxOrder :
         req' = [req EXCEPT ![r] = [NoRequest EXCEPT !.pc = "creating", !.c = c, !.next = next]]
  BY DEF CreateRead
<1>3. next \in Nat
  BY CertificatesAssumption
<1>4. /\ req' \in [Requests -> RequestState]
      /\ \A s \in Requests \ {r} : req'[s] = req[s]
      /\ req'[r].pc = "creating" /\ req'[r].c = c /\ req'[r].j = None
  BY <1>1, <1>2, <1>3 DEF TypeOK, RequestState, NoRequest, NoCert, CertRow, Backends
<1>5. cert'[c].row = "unborn" /\ \A s \in Requests : req[s].c # c
  BY <1>1 DEF CreateRead, NewCert, dbVars
<1>6. Protected(r)'
  BY <1>4, <1>5, ProtectedNext DEF RowSteps
<1>7. \A s \in Requests \ {r} : /\ req[s].pc = "creating" => req'[r].c # req[s].c
                                /\ req[s].pc = "chosen" => req'[r].j # req[s].j
  BY <1>4, <1>5, CertificatesAssumption DEF CertificatesInv, AllProtected, Protected
<1> QED
  BY <1>1, <1>4, <1>6, <1>7, ReadingKeeps DEF TypeOK

\* SELECT ... FOR UPDATE, whatever for.
LEMMA SelectKeeps ==
    ASSUME RowLocks, CertificatesInv, NEW r \in Requests,
           NEW pc \in {"updating", "deleting", "ordering"},
           NEW c \in Certificates \cup {None}, NEW C \in SUBSET Certificates,
           Select(r, pc, c, C),
           IF pc = "ordering" THEN c = None /\ C = Configured ELSE c \in Certificates /\ C = {c}
    PROVE  CertificatesInv'
<1>1. /\ TypeOK /\ UNCHANGED <<dbVars, pins, worker, listing, updates>>
      /\ C \subseteq Configured /\ Free(C) /\ Hold(r, C)
  BY DEF CertificatesInv, Select
<1>2. /\ req' \in [Requests -> RequestState]
      /\ \A s \in Requests \ {r} : req'[s] = req[s]
      /\ req'[r].pc = pc /\ req'[r].c = c /\ req'[r].j = None /\ req'[r].seen = cert
  BY <1>1 DEF Select, TypeOK, RequestState, NoRequest
<1>3. /\ lock' \in [Certificates -> Requests \cup {None}]
      /\ \A x \in C : lock'[x] = r
      /\ \A x \in Certificates : lock'[x] = lock[x] \/ lock[x] = None
  BY <1>1, HoldEffect
<1>4. cert' = cert /\ \A x \in C : cert[x].row = "there"
  BY <1>1 DEF dbVars, Configured
<1>5. pc = "ordering" => Ordered(r)' \subseteq C
  BY <1>2 DEF Ordered, Configured
<1>6. Protected(r)'
  <2>1. CASE pc = "ordering"
    BY <1>2, <1>3, <1>4, <1>5, <2>1, ProtectedNext DEF RowSteps
  <2>2. CASE pc # "ordering"
    BY <1>2, <1>3, <1>4, <2>2, ProtectedNext DEF RowSteps
  <2> QED
    BY <2>1, <2>2
<1>7. \A s \in Requests \ {r} : /\ req[s].pc = "creating" => req'[r].c # req[s].c
                                /\ req[s].pc = "chosen" => req'[r].j # req[s].j
  <2>1. \A s \in Requests : req[s].pc = "creating" =>
           req[s].c \in Certificates /\ cert[req[s].c].row = "unborn"
    BY DEF CertificatesInv, AllProtected, Protected
  <2>2. \A s \in Requests : req[s].pc = "chosen" => req[s].j \in Attempts
    BY DEF CertificatesInv, AllProtected, Protected
  <2>3. c # None => cert[c].row = "there"
    BY <1>4
  <2> QED
    BY <1>2, <2>1, <2>2, <2>3, CertificatesAssumption
<1> QED
  BY <1>1, <1>2, <1>3, <1>6, <1>7, ReadingKeeps

LEMMA DeleteCheckKeeps ==
    ASSUME CertificatesInv, NEW r \in Requests, DeleteCheck(r)
    PROVE  CertificatesInv'
<1>1. /\ TypeOK /\ Protected(r) /\ req[r].pc = "deleting" /\ ~InUse(req[r].c)
      /\ UNCHANGED <<dbVars, pins, lock, worker, listing, updates>>
  BY DEF CertificatesInv, AllProtected, DeleteCheck
<1>2. PICK c \in Certificates : c = req[r].c
  BY <1>1 DEF Protected, RowSteps
<1>3. PICK j \in Attempts \cup {None} : j = req[r].j
  BY <1>1 DEF TypeOK, RequestState
<1>4. /\ req' \in [Requests -> RequestState]
      /\ \A s \in Requests \ {r} : req'[s] = req[s]
      /\ req'[r].pc = "unused" /\ req'[r].c = c /\ req'[r].j = j
  BY <1>1, <1>2, <1>3 DEF DeleteCheck, TypeOK, RequestState
<1>5. cert'[c].row = "there" /\ lock'[c] = r /\ ~InUse(c)'
  <2>1. InUse(c)' <=> InUse(c)
    BY <1>1, SameRows
  <2> QED
    BY <1>1, <1>2, <2>1 DEF Protected, RowSteps, dbVars
<1>6. Protected(r)'
  BY <1>4, <1>5, ProtectedNext DEF RowSteps
<1>7. \A s \in Requests \ {r} : /\ req[s].pc = "creating" => req'[r].c # req[s].c
                                /\ req[s].pc = "chosen" => req'[r].j # req[s].j
  <2>1. \A s \in Requests \ {r} : req[s].pc = "creating" => c # req[s].c
    BY <1>2 DEF CertificatesInv, AllProtected, Protected
  <2>2. \A s \in Requests \ {r} : req[s].pc = "chosen" => j # req[s].j
    BY <1>3 DEF CertificatesInv, AllProtected, Protected
  <2> QED
    BY <1>4, <2>1, <2>2
<1> QED
  BY <1>1, <1>4, <1>6, <1>7, ReadingKeeps DEF TypeOK

LEMMA ChooseKeeps ==
    ASSUME CertificatesInv, NEW r \in Requests, NEW j \in Attempts,
           NEW asked \in Certificates \cup {None}, NEW pin \in BOOLEAN, Choose(r, j, asked, pin)
    PROVE  CertificatesInv'
<1>1. TypeOK /\ UNCHANGED <<dbVars, pins, lock, worker, listing, updates>>
  BY DEF CertificatesInv, Choose
<1>2. PICK c \in Configured \cup {None} :
         req' = [req EXCEPT ![r] = [NoRequest EXCEPT !.pc = "chosen", !.c = c, !.j = j,
                                                     !.pin = pin]]
  BY DEF Choose, Chosen
<1>3. /\ req' \in [Requests -> RequestState]
      /\ \A s \in Requests \ {r} : req'[s] = req[s]
      /\ req'[r].pc = "chosen" /\ req'[r].c = c /\ req'[r].j = j
  BY <1>1, <1>2 DEF TypeOK, RequestState, NoRequest, NoCert, CertRow, Backends, Configured
<1>4. job'[j].status = "unborn" /\ \A s \in Requests : req[s].j # j
  BY <1>1 DEF Choose, NewJob, dbVars
<1>5. Protected(r)'
  BY <1>3, <1>4, ProtectedNext DEF RowSteps
<1>6. \A s \in Requests \ {r} : /\ req[s].pc = "creating" => req'[r].c # req[s].c
                                /\ req[s].pc = "chosen" => req'[r].j # req[s].j
  <2>1. \A s \in Requests : req[s].pc = "creating" =>
           req[s].c \in Certificates /\ cert[req[s].c].row = "unborn"
    BY DEF CertificatesInv, AllProtected, Protected
  <2>2. c # None => cert[c].row = "there"
    BY DEF Configured
  <2> QED
    BY <1>3, <1>4, <2>1, <2>2, CertificatesAssumption
<1> QED
  BY <1>1, <1>3, <1>5, <1>6, ReadingKeeps DEF TypeOK

-----------------------------------------------------------------------------
(* Administrators change rows *)

\* A transaction that commits what it wrote to its certificates: what is left to
\* show is about their own columns.
LEMMA EditKeeps ==
    ASSUME CertificatesInv, NEW r \in Requests, Answer(r), UNCHANGED <<job, pins, worker>>,
           cert' \in [Certificates -> CertRow],
           listing' \in [Certificates -> Int], updates' \in [Certificates -> Nat],
           \A x \in Certificates : cert[x].row = "there" => cert'[x].row = "there",
           \A x \in Certificates : lock[x] # r /\ cert[x].row = "there" => cert'[x] = cert[x],
           \A x \in Certificates : cert[x].row = "unborn" /\ cert'[x].row # "unborn" => req[r].c = x
    PROVE  /\ TypeOK' /\ AllProtected' /\ WorkerInv'
           /\ ChosenStaysConfigured' /\ HistorySaysWhatSigned'
<1>1. TypeOK /\ AllProtected
  BY DEF CertificatesInv
<1>2. TypeOK'
  BY <1>1, AnswerEffect DEF TypeOK
<1>3. \A x : InUse(x)' <=> InUse(x)
  BY DEF InUse, InFlight
<1>4. /\ \A s \in Requests \ {r} : req'[s] = req[s]
      /\ \A x \in Certificates : lock[x] # r => lock'[x] = lock[x]
      /\ \A s \in Requests \ {r} : /\ req[s].pc = "creating" => req'[r].c # req[s].c
                                   /\ req[s].pc = "chosen" => req'[r].j # req[s].j
      /\ Protected(r)'
  BY <1>1, AnswerEffect
<1>5. \A s \in Requests \ {r} : Protected(s)'
  BY <1>1, <1>3, <1>4, OthersProtected
<1>6. AllProtected'
  BY <1>4, <1>5 DEF AllProtected
<1>7. WorkerInv'
  BY DEF CertificatesInv, WorkerInv
<1>8. ChosenStaysConfigured' /\ HistorySaysWhatSigned'
  BY DEF CertificatesInv, ChosenStaysConfigured, HistorySaysWhatSigned, InFlight, Configured
<1> QED
  BY <1>2, <1>6, <1>7, <1>8

LEMMA CreateCommitKeeps ==
    ASSUME CertificatesInv, NEW r \in Requests, NEW backend \in Backends, NEW saved \in BOOLEAN,
           CreateCommit(r, backend, saved)
    PROVE  CertificatesInv'
<1>1. /\ TypeOK /\ Protected(r) /\ req[r].pc = "creating"
      /\ NothingUnborn /\ VersionCountsUpdates /\ OrderAsListed
      /\ Answer(r) /\ UNCHANGED <<job, pins, worker, listing, updates>>
  BY DEF CertificatesInv, AllProtected, CreateCommit
<1>2. PICK c \in Certificates : c = req[r].c /\ cert[c].row = "unborn"
  BY <1>1 DEF Protected
<1>3. PICK next \in Nat : next = req[r].next
  BY <1>1 DEF TypeOK, RequestState
<1>4. cert' = [cert EXCEPT ![c] =
         [row |-> "there", backend |-> backend, active |-> TRUE, saved |-> saved,
          order |-> next, version |-> 1]]
  BY <1>2, <1>3 DEF CreateCommit
<1>5. /\ cert' \in [Certificates -> CertRow]
      /\ cert'[c].row = "there" /\ cert'[c].version = 1
      /\ \A x \in Certificates \ {c} : cert'[x] = cert[x]
  BY <1>1, <1>4 DEF TypeOK, CertRow
<1>6. listing[c] = -1 /\ updates[c] = 0
  BY <1>1, <1>2 DEF NothingUnborn
<1>7. /\ TypeOK' /\ AllProtected' /\ WorkerInv'
      /\ ChosenStaysConfigured' /\ HistorySaysWhatSigned'
  BY <1>1, <1>2, <1>5, EditKeeps DEF TypeOK
<1>8. NothingUnborn'
  BY <1>1, <1>5 DEF NothingUnborn
<1>9. VersionCountsUpdates' /\ OrderAsListed'
  BY <1>1, <1>5, <1>6 DEF VersionCountsUpdates, OrderAsListed, Configured
<1> QED
  BY <1>7, <1>8, <1>9 DEF CertificatesInv

LEMMA UpdateCommitKeeps ==
    ASSUME CertificatesInv, NEW r \in Requests, NEW active \in BOOLEAN, NEW saved \in BOOLEAN,
           UpdateCommit(r, active, saved)
    PROVE  CertificatesInv'
<1>1. /\ TypeOK /\ Protected(r) /\ req[r].pc = "updating"
      /\ NothingUnborn /\ VersionCountsUpdates /\ OrderAsListed
      /\ Answer(r) /\ UNCHANGED <<job, pins, worker, listing>>
  BY DEF CertificatesInv, AllProtected, UpdateCommit
<1>2. PICK c \in Certificates : /\ c = req[r].c /\ cert[c].row = "there" /\ lock[c] = r
                                /\ req[r].seen[c] = cert[c]
  BY <1>1 DEF Protected, RowSteps
<1>3. /\ cert' = [cert EXCEPT ![c] =
            [@ EXCEPT !.active = Written(cert[c].active, active, cert[c].active),
                      !.saved = Written(cert[c].saved, saved, cert[c].saved),
                      !.version = cert[c].version + 1]]
      /\ updates' = [updates EXCEPT ![c] = @ + 1]
  BY <1>2 DEF UpdateCommit
<1>4. cert[c] \in CertRow /\ updates[c] \in Nat
  BY <1>1 DEF TypeOK
<1>5. /\ cert' \in [Certificates -> CertRow]
      /\ cert'[c].row = "there" /\ cert'[c].version = cert[c].version + 1
      /\ cert'[c].order = cert[c].order
      /\ \A x \in Certificates \ {c} : cert'[x] = cert[x]
  <2>1. PICK a \in BOOLEAN, k \in BOOLEAN :
           /\ a = Written(cert[c].active, active, cert[c].active)
           /\ k = Written(cert[c].saved, saved, cert[c].saved)
    BY <1>4 DEF CertRow, Written
  <2>2. cert' = [cert EXCEPT ![c] = [cert[c] EXCEPT !.active = a, !.saved = k,
                                                    !.version = cert[c].version + 1]]
    BY <1>3, <2>1
  <2>3. PICK old \in CertRow, n \in Nat :
           old = cert[c] /\ old.row = "there" /\ n = cert[c].version + 1
    BY <1>2, <1>4 DEF CertRow
  <2>4. PICK row : row = [old EXCEPT !.active = a, !.saved = k, !.version = n]
    OBVIOUS
  <2>5. row \in CertRow /\ row.row = "there" /\ row.version = n /\ row.order = old.order
    BY <2>3, <2>4 DEF CertRow
  <2>6. cert' = [cert EXCEPT ![c] = row]
    BY <2>2, <2>3, <2>4
  <2> QED
    BY <1>1, <2>3, <2>5, <2>6 DEF TypeOK
<1>6. /\ updates' \in [Certificates -> Nat] /\ updates'[c] = updates[c] + 1
      /\ \A x \in Certificates \ {c} : updates'[x] = updates[x]
  BY <1>1, <1>3, <1>4 DEF TypeOK
<1>7. /\ TypeOK' /\ AllProtected' /\ WorkerInv'
      /\ ChosenStaysConfigured' /\ HistorySaysWhatSigned'
  BY <1>1, <1>2, <1>5, <1>6, EditKeeps DEF TypeOK
<1>8. NothingUnborn'
  BY <1>1, <1>5, <1>6 DEF NothingUnborn
<1>9. VersionCountsUpdates'
  <2>1. cert[c].version \in Nat /\ cert[c].version = 1 + updates[c]
    BY <1>1, <1>2, <1>4 DEF VersionCountsUpdates, Configured, CertRow
  <2>2. cert'[c].version = 1 + updates'[c]
    BY <1>4, <1>5, <1>6, <2>1
  <2> QED
    BY <1>1, <1>5, <1>6, <2>2 DEF VersionCountsUpdates, Configured
<1>10. OrderAsListed'
  BY <1>1, <1>2, <1>5 DEF OrderAsListed, Configured
<1> QED
  BY <1>7, <1>8, <1>9, <1>10 DEF CertificatesInv

LEMMA ReorderCommitKeeps ==
    ASSUME CertificatesInv, NEW r \in Requests, ReorderCommit(r)
    PROVE  CertificatesInv'
<1>1. /\ TypeOK /\ Protected(r) /\ req[r].pc = "ordering"
      /\ NothingUnborn /\ VersionCountsUpdates /\ OrderAsListed
      /\ Answer(r) /\ UNCHANGED <<job, pins, worker, updates>>
  BY DEF CertificatesInv, AllProtected, ReorderCommit
<1> DEFINE C == Ordered(r)
           seen == req[r].seen
<1>2. C \in SUBSET Certificates
  BY DEF Ordered
<1>4. C \subseteq Configured /\ \A c \in C : lock[c] = r /\ seen[c] = cert[c]
  BY <1>1 DEF Protected, ReorderCommit, Ordered
<1>5. PICK position \in [C -> 0..(Cardinality(C) - 1)] :
         /\ cert' = [c \in Certificates |->
               IF c \in C THEN [cert[c] EXCEPT !.order = Written(seen[c].order, position[c], @)]
               ELSE cert[c]]
         /\ listing' = [c \in Certificates |-> IF c \in C THEN position[c] ELSE -1]
  <2>1. \E position \in [Ordered(r) -> 0..(Cardinality(Ordered(r)) - 1)] :
         /\ cert' = [c \in Certificates |->
               IF c \in Ordered(r)
               THEN [cert[c] EXCEPT !.order = Written(req[r].seen[c].order, position[c], @)]
               ELSE cert[c]]
         /\ listing' = [c \in Certificates |-> IF c \in Ordered(r) THEN position[c] ELSE -1]
    BY Zenon DEF ReorderCommit, Ordered
  <2> QED
    BY <2>1
<1> HIDE DEF C, seen
<1>6. \A c \in C : position[c] \in Nat /\ cert[c] \in CertRow /\ cert[c].row = "there"
  BY <1>1, <1>4 DEF TypeOK, Configured
<1>7. \A c \in C : cert'[c] = [cert[c] EXCEPT !.order = position[c]]
  BY <1>2, <1>4, <1>5 DEF Written
<1>8. \A c \in C : /\ cert'[c] \in CertRow /\ cert'[c].row = "there"
                   /\ cert'[c].version = cert[c].version /\ cert'[c].order = position[c]
  BY <1>6, <1>7 DEF CertRow
<1>9. /\ cert' \in [Certificates -> CertRow]
      /\ \A x \in Certificates \ C : cert'[x] = cert[x]
  BY <1>1, <1>5, <1>8 DEF TypeOK
<1>10. listing' \in [Certificates -> Int]
  BY <1>5, <1>6
<1>11. /\ TypeOK' /\ AllProtected' /\ WorkerInv'
       /\ ChosenStaysConfigured' /\ HistorySaysWhatSigned'
  <2>1. \A x \in Certificates : cert[x].row = "there" => cert'[x].row = "there"
    BY <1>8, <1>9
  <2>2. \A x \in Certificates : lock[x] # r => cert'[x] = cert[x]
    BY <1>4, <1>9
  <2>3. \A x \in Certificates : cert[x].row = "unborn" => cert'[x].row = "unborn"
    BY <1>6, <1>9
  <2>4. updates' \in [Certificates -> Nat]
    BY <1>1 DEF TypeOK
  <2> QED
    BY <1>1, <1>9, <1>10, <2>1, <2>2, <2>3, <2>4, EditKeeps
<1>12. NothingUnborn'
  BY <1>1, <1>5, <1>8, <1>9 DEF NothingUnborn
<1>13. VersionCountsUpdates'
  BY <1>1, <1>6, <1>8, <1>9 DEF VersionCountsUpdates, Configured
<1>14. OrderAsListed'
  BY <1>5, <1>8 DEF OrderAsListed, Configured
<1> QED
  BY <1>11, <1>12, <1>13, <1>14 DEF CertificatesInv

\* Nothing in flight refers to the certificate that is deleted.
LEMMA DeleteCommitKeeps ==
    ASSUME CertificatesInv, NEW r \in Requests, DeleteCommit(r)
    PROVE  CertificatesInv'
<1>1. /\ TypeOK /\ AllProtected /\ Protected(r) /\ req[r].pc = "unused"
      /\ Answer(r) /\ UNCHANGED <<pins, worker, listing, updates>>
  BY DEF CertificatesInv, AllProtected, DeleteCommit
<1>2. PICK c \in Certificates : /\ c = req[r].c /\ cert[c].row = "there" /\ lock[c] = r
                                /\ ~InUse(c)
  BY <1>1 DEF Protected, RowSteps
<1>3. /\ cert' = [cert EXCEPT ![c].row = "gone"]
      /\ job' = [j \in Attempts |->
            IF job[j].proxy = c THEN [job[j] EXCEPT !.proxy = None] ELSE job[j]]
  BY <1>2 DEF DeleteCommit
<1>4. /\ cert' \in [Certificates -> CertRow] /\ cert'[c].row = "gone"
      /\ \A x \in Certificates \ {c} : cert'[x] = cert[x]
  <2>1. cert[c] \in CertRow
    BY <1>1 DEF TypeOK
  <2>2. [cert[c] EXCEPT !.row = "gone"] \in CertRow
    BY <2>1 DEF CertRow
  <2> QED
    BY <1>1, <1>3, <2>2 DEF TypeOK
<1>5. \A j \in Attempts :
         /\ job'[j] \in JobRow
         /\ job'[j].status = job[j].status /\ job'[j].name = job[j].name
         /\ job'[j].used = job[j].used
         /\ job'[j].proxy = IF job[j].proxy = c THEN None ELSE job[j].proxy
  <2>1. \A j \in Attempts : job[j] \in JobRow
    BY <1>1 DEF TypeOK
  <2> QED
    BY <1>3, <2>1 DEF JobRow
<1>6. job' \in [Attempts -> JobRow]
  BY <1>3, <1>5
<1>7. TypeOK'
  BY <1>1, <1>4, <1>6, AnswerEffect DEF TypeOK
<1>8. \A x \in Certificates : InUse(x)' => InUse(x)
  BY <1>5, CertificatesAssumption DEF InUse, InFlight
<1>9. \A j \in Attempts : InFlight(j) => job[j].proxy # c
  BY <1>2 DEF InUse
<1>10. AllProtected'
  <2>1. /\ \A s \in Requests \ {r} : req'[s] = req[s]
        /\ \A x \in Certificates : lock[x] # r => lock'[x] = lock[x]
        /\ \A s \in Requests \ {r} : /\ req[s].pc = "creating" => req'[r].c # req[s].c
                                     /\ req[s].pc = "chosen" => req'[r].j # req[s].j
        /\ Protected(r)'
    BY <1>1, AnswerEffect
  <2>2. \A x \in Certificates : lock[x] \in Requests \ {r} => cert'[x] = cert[x]
    BY <1>2, <1>4
  <2>3. \A x \in Certificates : cert[x].row = "unborn" => cert'[x].row = "unborn"
    BY <1>2, <1>4
  <2>4. \A s \in Requests \ {r} : Protected(s)'
    BY <1>1, <1>5, <1>8, <2>1, <2>2, <2>3, OthersProtected
  <2> QED
    BY <2>1, <2>4 DEF AllProtected
<1>11. WorkerInv'
  <2>1. worker.j # None => worker.j \in Attempts
    BY <1>1 DEF TypeOK
  <2> QED
    BY <1>1, <1>5, <2>1 DEF CertificatesInv, WorkerInv
<1>12. ChosenStaysConfigured' /\ HistorySaysWhatSigned'
  <2>1. ASSUME NEW j \in Attempts, InFlight(j)'
        PROVE  job'[j].proxy = job'[j].name /\ (job'[j].name # None => job'[j].name \in Configured')
    <3>1. InFlight(j) /\ job[j].proxy # c
      BY <1>5, <1>9, <2>1 DEF InFlight
    <3>2. job[j].proxy = job[j].name /\ (job[j].name # None => job[j].name \in Configured)
      BY <3>1 DEF CertificatesInv, ChosenStaysConfigured
    <3> QED
      BY <1>4, <1>5, <3>1, <3>2 DEF Configured
  <2>2. ChosenStaysConfigured'
    BY <2>1 DEF ChosenStaysConfigured
  <2>3. HistorySaysWhatSigned'
    BY <1>5 DEF CertificatesInv, HistorySaysWhatSigned
  <2> QED
    BY <2>2, <2>3
<1>13. NothingUnborn' /\ VersionCountsUpdates' /\ OrderAsListed'
  BY <1>1, <1>4
     DEF CertificatesInv, NothingUnborn, VersionCountsUpdates, OrderAsListed, Configured
<1> QED
  BY <1>7, <1>10, <1>11, <1>12, <1>13 DEF CertificatesInv

-----------------------------------------------------------------------------
(* Attempts: queued by a request, signed by the worker *)

\* Under the foreign key the certificate is there, and nobody is deleting it.
LEMMA EnqueueKeeps ==
    ASSUME RowLocks, CertificatesInv, NEW r \in Requests, Enqueue(r)
    PROVE  CertificatesInv'
<1>1. /\ TypeOK /\ AllProtected /\ Protected(r) /\ req[r].pc = "chosen"
      /\ Answer(r) /\ UNCHANGED <<cert, worker, listing, updates>>
  BY DEF CertificatesInv, AllProtected, Enqueue
<1>2. PICK j \in Attempts : /\ j = req[r].j /\ job[j].status = "unborn"
  BY <1>1 DEF Protected
<1>3. PICK c \in Certificates \cup {None} : c = req[r].c
  BY <1>1 DEF TypeOK, RequestState
<1>4. c # None => c \in Configured /\ lock[c] = None
  BY <1>3 DEF Enqueue, Free
<1>5. job' = [job EXCEPT ![j] = [NoJob EXCEPT !.status = "queued", !.proxy = c, !.name = c]]
  BY <1>2, <1>3 DEF Enqueue
<1>6. /\ job' \in [Attempts -> JobRow]
      /\ job'[j].status = "queued" /\ job'[j].proxy = c /\ job'[j].name = c
      /\ \A k \in Attempts \ {j} : job'[k] = job[k]
  <2>1. PICK row : row = [NoJob EXCEPT !.status = "queued", !.proxy = c, !.name = c]
    OBVIOUS
  <2>2. row \in JobRow /\ row.status = "queued" /\ row.proxy = c /\ row.name = c
    BY <2>1 DEF NoJob, JobRow
  <2>3. job' = [job EXCEPT ![j] = row]
    BY <1>5, <2>1
  <2> QED
    BY <1>1, <2>2, <2>3 DEF TypeOK
<1>7. pins' \in SUBSET Attempts
  BY <1>1, <1>2 DEF Enqueue, TypeOK
<1>8. TypeOK'
  BY <1>1, <1>6, <1>7, AnswerEffect DEF TypeOK
<1>9. \A x \in Certificates : InUse(x)' => InUse(x) \/ x = c
  BY <1>6 DEF InUse, InFlight
<1>10. AllProtected'
  <2>1. /\ \A s \in Requests \ {r} : req'[s] = req[s]
        /\ \A x \in Certificates : lock[x] # r => lock'[x] = lock[x]
        /\ \A s \in Requests \ {r} : /\ req[s].pc = "creating" => req'[r].c # req[s].c
                                     /\ req[s].pc = "chosen" => req'[r].j # req[s].j
        /\ Protected(r)'
    BY <1>1, AnswerEffect
  <2>2. \A x \in Certificates : lock[x] \in Requests => x # c
    BY <1>4, CertificatesAssumption
  <2>3. \A k \in Attempts : job[k].status = "unborn" /\ job'[k].status # "unborn" => req[r].j = k
    BY <1>2, <1>6
  <2>4. \A s \in Requests \ {r} : Protected(s)'
    BY <1>1, <1>9, <2>1, <2>2, <2>3, OthersProtected
  <2> QED
    BY <2>1, <2>4 DEF AllProtected
<1>11. WorkerInv'
  <2>1. worker.j # None => worker.j \in Attempts \ {j}
    BY <1>1, <1>2 DEF TypeOK, CertificatesInv, WorkerInv
  <2> QED
    BY <1>1, <1>6, <2>1 DEF CertificatesInv, WorkerInv
<1>12. ChosenStaysConfigured'
  BY <1>1, <1>4, <1>6 DEF CertificatesInv, ChosenStaysConfigured, InFlight, Configured
<1>13. HistorySaysWhatSigned'
  BY <1>6 DEF CertificatesInv, HistorySaysWhatSigned
<1>14. NothingUnborn' /\ VersionCountsUpdates' /\ OrderAsListed'
  BY <1>1 DEF CertificatesInv, NothingUnborn, VersionCountsUpdates, OrderAsListed, Configured
<1> QED
  BY <1>8, <1>10, <1>11, <1>12, <1>13, <1>14 DEF CertificatesInv

\* The worker leaves the certificates and the requests alone, and uses no
\* certificate an attempt did not refer to.
LEMMA WorkKeeps ==
    ASSUME CertificatesInv, TypeOK', UNCHANGED <<cert, lock, req, listing, updates>>,
           \A j \in Attempts : job[j].status = "unborn" => job'[j].status = "unborn",
           \A c \in Certificates : InUse(c)' => InUse(c)
    PROVE  AllProtected' /\ NothingUnborn' /\ VersionCountsUpdates' /\ OrderAsListed'
<1>1. TypeOK /\ AllProtected /\ None \notin Requests
  BY CertificatesAssumption DEF CertificatesInv
<1>2. \A s \in Requests \ {None} : Protected(s)'
  BY <1>1, OthersProtected
<1>3. AllProtected'
  BY <1>1, <1>2 DEF AllProtected
<1> QED
  BY <1>3 DEF CertificatesInv, NothingUnborn, VersionCountsUpdates, OrderAsListed, Configured

LEMMA ClaimKeeps ==
    ASSUME CertificatesInv, NEW j \in Attempts, Claim(j)
    PROVE  CertificatesInv'
<1>1. /\ TypeOK /\ job[j].status = "queued" /\ job[j] \in JobRow
      /\ UNCHANGED <<cert, pins, lock, req, listing, updates>>
  BY DEF CertificatesInv, Claim, TypeOK
<1>2. PICK row : row = [job[j] EXCEPT !.status = "running"]
  OBVIOUS
<1>3. /\ row \in JobRow /\ row.status = "running"
      /\ row.proxy = job[j].proxy /\ row.name = job[j].name
  BY <1>1, <1>2 DEF JobRow
<1>4. job' = [job EXCEPT ![j] = row]
  BY <1>2 DEF Claim
<1>5. /\ job' \in [Attempts -> JobRow] /\ job'[j] = row
      /\ \A k \in Attempts \ {j} : job'[k] = job[k]
  BY <1>1, <1>3, <1>4 DEF TypeOK
<1>6. worker' = [j |-> j, loaded |-> FALSE, c |-> None, saved |-> FALSE, local |-> FALSE]
  BY DEF Claim, NoWork
<1>7. TypeOK'
  BY <1>1, <1>5, <1>6 DEF TypeOK
<1>8. \A k \in Attempts : /\ InFlight(k)' <=> InFlight(k)
                          /\ job'[k].proxy = job[k].proxy /\ job'[k].name = job[k].name
  BY <1>1, <1>3, <1>5 DEF InFlight
<1>9. AllProtected' /\ NothingUnborn' /\ VersionCountsUpdates' /\ OrderAsListed'
  <2>1. \A c \in Certificates : InUse(c)' => InUse(c)
    BY <1>8 DEF InUse
  <2>2. \A k \in Attempts : job[k].status = "unborn" => job'[k].status = "unborn"
    BY <1>1, <1>5
  <2> QED
    BY <1>1, <1>7, <2>1, <2>2, WorkKeeps
<1>10. WorkerInv'
  BY <1>3, <1>5, <1>6 DEF WorkerInv
<1>11. ChosenStaysConfigured'
  BY <1>1, <1>8 DEF CertificatesInv, ChosenStaysConfigured, Configured
<1>12. HistorySaysWhatSigned'
  BY <1>3, <1>5 DEF CertificatesInv, HistorySaysWhatSigned
<1> QED
  BY <1>7, <1>9, <1>10, <1>11, <1>12 DEF CertificatesInv

\* What is loaded is the certificate the attempt names: it is still there.
LEMMA LoadKeeps ==
    ASSUME CertificatesInv, Load
    PROVE  CertificatesInv'
<1>1. /\ TypeOK /\ worker.j # None /\ UNCHANGED <<dbVars, pins, lock, req, listing, updates>>
  BY DEF CertificatesInv, Load
<1>2. PICK j \in Attempts : j = worker.j
  BY <1>1 DEF TypeOK
<1>3. /\ InFlight(j) /\ job[j].proxy = job[j].name
      /\ job[j].name # None => job[j].name \in Configured
  BY <1>1, <1>2 DEF CertificatesInv, WorkerInv, InFlight, ChosenStaysConfigured
<1>4. PICK c : c = Signer(job[j].proxy)
  OBVIOUS
<1>5. c = SignerOf(job[j].name) /\ c \in Certificates \cup {Default}
  BY <1>3, <1>4, CertificatesAssumption DEF Signer, SignerOf, Configured
<1>6. /\ worker'.j = j /\ worker'.c = c
      /\ worker' \in [j : Attempts \cup {None}, loaded : BOOLEAN,
                      c : Certificates \cup {None, Default}, saved : BOOLEAN, local : BOOLEAN]
  <2>1. c # Default => c \in Certificates /\ cert[c] \in CertRow
    BY <1>1, <1>5 DEF TypeOK
  <2>2. PICK local \in BOOLEAN, saved \in BOOLEAN :
           /\ local = (c # Default /\ cert[c].backend = "local")
           /\ saved = (c # Default /\ cert[c].saved)
    BY <2>1 DEF CertRow
  <2>3. worker' = [worker EXCEPT !.loaded = TRUE, !.c = c, !.local = local, !.saved = saved]
    BY <1>2, <1>4, <2>2 DEF Load
  <2> QED
    BY <1>1, <1>2, <1>5, <2>3 DEF TypeOK
<1>7. TypeOK'
  BY <1>1, <1>6 DEF TypeOK, dbVars
<1>8. AllProtected' /\ NothingUnborn' /\ VersionCountsUpdates' /\ OrderAsListed'
  <2>1. \A x \in Certificates : InUse(x)' => InUse(x)
    BY <1>1 DEF InUse, InFlight, dbVars
  <2> QED
    BY <1>1, <1>7, <2>1, WorkKeeps DEF dbVars
<1>9. WorkerInv'
  BY <1>1, <1>2, <1>5, <1>6 DEF CertificatesInv, WorkerInv, dbVars
<1>10. ChosenStaysConfigured' /\ HistorySaysWhatSigned'
  BY <1>1 DEF CertificatesInv, ChosenStaysConfigured, HistorySaysWhatSigned, InFlight,
              Configured, dbVars
<1> QED
  BY <1>7, <1>8, <1>9, <1>10 DEF CertificatesInv

LEMMA SettleKeeps ==
    ASSUME CertificatesInv, Sign \/ Refuse
    PROVE  CertificatesInv'
<1>1. /\ TypeOK /\ worker.loaded /\ worker.j # None
      /\ worker.c = SignerOf(job[worker.j].name)
  BY DEF CertificatesInv, WorkerInv, Sign, Refuse
<1>2. PICK j \in Attempts : j = worker.j
  BY <1>1 DEF TypeOK
<1>3. PICK status \in {"signed", "failed"}, used \in Certificates \cup {None, Default} :
         /\ Settle(j, status, used)
         /\ status = "signed" => used = SignerOf(job[j].name)
  <2>1. worker.c \in Certificates \cup {None, Default}
    BY <1>1 DEF TypeOK
  <2> QED
    BY <1>1, <1>2, <2>1 DEF Sign, Refuse
<1>4. /\ UNCHANGED <<cert, lock, req, listing, updates>>
      /\ job[j] \in JobRow /\ job[j].status = "running"
  BY <1>1, <1>2, <1>3 DEF Settle, TypeOK, CertificatesInv, WorkerInv
<1>5. PICK row : row = [job[j] EXCEPT !.status = status, !.used = used]
  OBVIOUS
<1>6. row \in JobRow /\ row.status = status /\ row.used = used /\ row.name = job[j].name
  BY <1>4, <1>5 DEF JobRow
<1>7. job' = [job EXCEPT ![j] = row]
  BY <1>1, <1>3, <1>5 DEF TypeOK, Settle
<1>8. /\ job' \in [Attempts -> JobRow] /\ job'[j] = row
      /\ \A k \in Attempts \ {j} : job'[k] = job[k]
  BY <1>1, <1>6, <1>7 DEF TypeOK
<1>9. TypeOK' /\ worker'.j = None /\ worker'.loaded = FALSE
  BY <1>1, <1>3, <1>4, <1>8 DEF TypeOK, Settle, NoWork
<1>10. AllProtected' /\ NothingUnborn' /\ VersionCountsUpdates' /\ OrderAsListed'
  <2>1. \A x \in Certificates : InUse(x)' => InUse(x)
    BY <1>6, <1>8 DEF InUse, InFlight
  <2>2. \A k \in Attempts : job[k].status = "unborn" => job'[k].status = "unborn"
    BY <1>4, <1>8
  <2> QED
    BY <1>4, <1>9, <2>1, <2>2, WorkKeeps
<1>11. WorkerInv'
  BY <1>9 DEF WorkerInv
<1>12. ChosenStaysConfigured'
  BY <1>4, <1>6, <1>8 DEF CertificatesInv, ChosenStaysConfigured, InFlight, Configured
<1>13. HistorySaysWhatSigned'
  BY <1>3, <1>6, <1>8 DEF CertificatesInv, HistorySaysWhatSigned, SignerOf
<1> QED
  BY <1>9, <1>10, <1>11, <1>12, <1>13 DEF CertificatesInv

LEMMA RestartKeeps == ASSUME CertificatesInv, Restart PROVE CertificatesInv'
<1>1. TypeOK /\ UNCHANGED <<cert, listing, updates>>
  BY DEF CertificatesInv, Restart
<1>2. NoRequest \in RequestState /\ NoRequest.pc = "idle"
  BY DEF NoRequest, RequestState, NoCert, CertRow, Backends
<1>3. \A j \in Attempts :
         /\ job'[j] \in JobRow
         /\ job'[j].status = IF job[j].status = "running" THEN "failed" ELSE job[j].status
         /\ job'[j].proxy = job[j].proxy /\ job'[j].name = job[j].name
         /\ job'[j].used = job[j].used
  <2>1. \A j \in Attempts : job[j] \in JobRow
    BY <1>1 DEF TypeOK
  <2> QED
    BY <2>1 DEF Restart, JobRow
<1>4. TypeOK' /\ worker'.j = None /\ worker'.loaded = FALSE
  BY <1>1, <1>2, <1>3 DEF TypeOK, Restart, NoWork
<1>5. AllProtected'
  BY <1>2 DEF Restart, AllProtected, Protected, RowSteps
<1>6. WorkerInv'
  BY <1>4 DEF WorkerInv
<1>7. ChosenStaysConfigured' /\ HistorySaysWhatSigned'
  BY <1>1, <1>3
     DEF CertificatesInv, ChosenStaysConfigured, HistorySaysWhatSigned, InFlight, Configured
<1>8. NothingUnborn' /\ VersionCountsUpdates' /\ OrderAsListed'
  BY <1>1 DEF CertificatesInv, NothingUnborn, VersionCountsUpdates, OrderAsListed, Configured
<1> QED
  BY <1>4, <1>5, <1>6, <1>7, <1>8 DEF CertificatesInv

\* A step that touches nothing but the vault.
LEMMA VaultKeeps ==
    ASSUME CertificatesInv, pins' \in SUBSET Attempts,
           UNCHANGED <<dbVars, lock, req, worker, listing, updates>>
    PROVE  CertificatesInv'
<1>1. TypeOK'
  BY DEF CertificatesInv, TypeOK, dbVars
<1>2. \A x : InUse(x)' <=> InUse(x)
  BY SameRows DEF dbVars
<1> QED
  BY <1>1, <1>2, SameRows, WorkKeeps DEF dbVars, CertificatesInv

-----------------------------------------------------------------------------
(* The theorems *)

LEMMA CertificatesStep == ASSUME RowLocks, CertificatesInv, [Next]_vars PROVE CertificatesInv'
<1>1. CASE UNCHANGED vars
  BY <1>1, VaultKeeps DEF vars, CertificatesInv, TypeOK
<1>2. ASSUME NEW r \in Requests, NEW c \in Certificates, CreateRead(r, c) PROVE CertificatesInv'
  BY <1>2, CreateReadKeeps
<1>3. ASSUME NEW r \in Requests, NEW c \in Certificates, UpdateSelect(r, c) \/ DeleteSelect(r, c)
      PROVE  CertificatesInv'
  <2>1. PICK pc \in {"updating", "deleting"} : Select(r, pc, c, {c})
    BY <1>3 DEF UpdateSelect, DeleteSelect
  <2> QED
    BY <2>1, SelectKeeps
<1>4. ASSUME NEW r \in Requests, ReorderSelect(r) PROVE CertificatesInv'
  <2>1. Select(r, "ordering", None, Configured) /\ Configured \in SUBSET Certificates
    BY <1>4 DEF ReorderSelect, Configured
  <2> QED
    BY <2>1, SelectKeeps
<1>5. ASSUME NEW r \in Requests, NEW b \in Backends, NEW saved \in BOOLEAN, CreateCommit(r, b, saved)
      PROVE  CertificatesInv'
  BY <1>5, CreateCommitKeeps
<1>6. ASSUME NEW r \in Requests, NEW a \in BOOLEAN, NEW saved \in BOOLEAN, UpdateCommit(r, a, saved)
      PROVE  CertificatesInv'
  BY <1>6, UpdateCommitKeeps
<1>7. ASSUME NEW r \in Requests, ReorderCommit(r) PROVE CertificatesInv'
  BY <1>7, ReorderCommitKeeps
<1>8. ASSUME NEW r \in Requests, DeleteCheck(r) PROVE CertificatesInv'
  BY <1>8, DeleteCheckKeeps
<1>9. ASSUME NEW r \in Requests, DeleteRefused(r) \/ Fail(r) PROVE CertificatesInv'
  BY <1>9, AnswerKeeps DEF DeleteRefused, Fail
<1>10. ASSUME NEW r \in Requests, DeleteCommit(r) PROVE CertificatesInv'
  BY <1>10, DeleteCommitKeeps
<1>11. ASSUME NEW r \in Requests, NEW j \in Attempts, NEW asked \in Certificates \cup {None},
              NEW pin \in BOOLEAN, Choose(r, j, asked, pin)
       PROVE  CertificatesInv'
  BY <1>11, ChooseKeeps
<1>12. ASSUME NEW r \in Requests, Enqueue(r) PROVE CertificatesInv'
  BY <1>12, EnqueueKeeps
<1>13. ASSUME NEW j \in Attempts, Claim(j) PROVE CertificatesInv'
  BY <1>13, ClaimKeeps
<1>14. ASSUME NEW j \in Attempts, Forget(j) PROVE CertificatesInv'
  BY <1>14, VaultKeeps DEF Forget, CertificatesInv, TypeOK
<1>15. CASE Load
  BY <1>15, LoadKeeps
<1>16. CASE Sign \/ Refuse
  BY <1>16, SettleKeeps
<1>17. CASE Restart
  BY <1>17, RestartKeeps
<1> QED
  BY <1>1, <1>2, <1>3, <1>4, <1>5, <1>6, <1>7, <1>8, <1>9, <1>10, <1>11, <1>12, <1>13, <1>14,
     <1>15, <1>16, <1>17 DEF Next

\* With row locks, whatever overlaps: what every request under way relies on is
\* so, and what the worker loaded is what its attempt names.
THEOREM CertificatesAreSafe == ASSUME RowLocks PROVE Spec => []CertificatesInv
<1>1. CertificatesInv /\ [Next]_vars => CertificatesInv'
  BY CertificatesStep
<1> QED
  BY CertificatesInit, <1>1, PTL DEF Spec

\* An attempt that waits or runs refers to the certificate its request chose, and
\* no administrator can delete that certificate meanwhile.
THEOREM AttemptsKeepTheirCertificate == ASSUME RowLocks PROVE Spec => []ChosenStaysConfigured
<1>1. CertificatesInv => ChosenStaysConfigured
  BY DEF CertificatesInv
<1> QED
  BY CertificatesAreSafe, <1>1, PTL

\* The certificate the history names is the one that signed, also after it was
\* renumbered, changed or deleted.
THEOREM HistoryIsTrue == ASSUME RowLocks PROVE Spec => []HistorySaysWhatSigned
<1>1. CertificatesInv => HistorySaysWhatSigned
  BY DEF CertificatesInv
<1> QED
  BY CertificatesAreSafe, <1>1, PTL

\* No committed update of a certificate is lost under another one.
THEOREM NoUpdateIsLost == ASSUME RowLocks PROVE Spec => []VersionCountsUpdates
<1>1. CertificatesInv => VersionCountsUpdates
  BY DEF CertificatesInv
<1> QED
  BY CertificatesAreSafe, <1>1, PTL

\* However reorders, updates and deletions overlap, the order is the last one
\* that was confirmed.
THEOREM OrderStaysAsListed == ASSUME RowLocks PROVE Spec => []OrderAsListed
<1>1. CertificatesInv => OrderAsListed
  BY DEF CertificatesInv
<1> QED
  BY CertificatesAreSafe, <1>1, PTL
=============================================================================
