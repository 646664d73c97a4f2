----------------------------- MODULE Certificates -----------------------------
(***************************************************************************)
(* The certificates an administrator configures (the table is still called *)
(* signing_proxies) and the attempts that sign with them.  A request       *)
(* chooses a certificate, its attempt waits in the queue, and the worker   *)
(* reads the configuration when the attempt's turn comes: administrators   *)
(* add, order, change and delete certificates all the while.               *)
(*                                                                         *)
(* With RowLocks (PostgreSQL) SELECT ... FOR UPDATE keeps rows until the   *)
(* transaction ends and an inserted attempt needs the row of its           *)
(* certificate.  Without (SQLite, where the service enables neither) every *)
(* statement sees what is committed then.  An UPDATE only writes the       *)
(* columns that differ from what its transaction read.                     *)
(***************************************************************************)
EXTENDS Integers, FiniteSets

CONSTANTS Certificates, Attempts, Requests,
          RowLocks, MaxOrder, MaxVersion,  \* the last two bound the model
          Default,  \* settings.signing_proxy_url
          None

ASSUME CertificatesAssumption ==
    /\ RowLocks \in BOOLEAN
    /\ MaxOrder \in Nat /\ MaxVersion \in Nat
    /\ None \notin Certificates \cup Attempts \cup Requests
    /\ Default \notin Certificates \cup {None}

VARIABLES
    cert,     \* signing_proxies
    job,      \* the certificate of a signature job
    pins,     \* the attempts whose typed PIN is in the vault
    lock,     \* the transaction that holds a certificate's row
    req,      \* the transactions in progress
    worker,   \* the attempt in hand and the row loaded with it
    listing,  \* the positions of the last reorder: history
    updates   \* committed updates of a certificate: history

dbVars == <<cert, job>>
vars   == <<dbVars, pins, lock, req, worker, listing, updates>>

-----------------------------------------------------------------------------

\* A certificate of this machine wants a PIN.  Name, URL and PKCS#11 labels are
\* in no row here: that they are taken shows as a commit that fails.
Backends == {"local", "web"}
CertRow  == [row : {"unborn", "there", "gone"}, backend : Backends,
             active : BOOLEAN, saved : BOOLEAN,
             order : Nat, version : Nat]
NoCert   == [row |-> "unborn", backend |-> "web", active |-> FALSE,
             saved |-> FALSE, order |-> 0, version |-> 0]

\* proxy is signing_proxy_id, name is signing_proxy_name: the certificate it was
\* copied from.
JobRow  == [status : {"unborn", "queued", "running", "signed", "failed"},
            proxy : Certificates \cup {None}, name : Certificates \cup {None},
            used : Certificates \cup {None, Default}]
NoJob   == [status |-> "unborn", proxy |-> None, name |-> None, used |-> None]

RequestState == [pc : {"idle", "chosen", "creating", "updating", "ordering",
                       "deleting", "unused"},
                 c : Certificates \cup {None}, j : Attempts \cup {None},
                 pin : BOOLEAN, next : Nat, seen : [Certificates -> CertRow]]
NoRequest == [pc |-> "idle", c |-> None, j |-> None, pin |-> FALSE, next |-> 0,
              seen |-> [c \in Certificates |-> NoCert]]

TypeOK ==
    /\ cert \in [Certificates -> CertRow]
    /\ job \in [Attempts -> JobRow]
    /\ pins \in SUBSET Attempts
    /\ lock \in [Certificates -> Requests \cup {None}]
    /\ req \in [Requests -> RequestState]
    /\ worker \in [j : Attempts \cup {None}, loaded : BOOLEAN,
                   c : Certificates \cup {None, Default}, saved : BOOLEAN, local : BOOLEAN]
    /\ listing \in [Certificates -> Int]
    /\ updates \in [Certificates -> Nat]

-----------------------------------------------------------------------------

Configured == {c \in Certificates : cert[c].row = "there"}
InFlight(j) == job[j].status \in {"queued", "running"}
InUse(c)    == \E j \in Attempts : InFlight(j) /\ job[j].proxy = c

\* Mutant of Hold: the SELECT has no with_for_update().
HoldNothing(r, C) == lock' = lock

Free(C)    == RowLocks => \A c \in C : lock[c] = None
Hold(r, C) == lock' = IF RowLocks
                      THEN [c \in Certificates |-> IF c \in C THEN r ELSE lock[c]]
                      ELSE lock
Release(r) == lock' = [c \in Certificates |-> IF lock[c] = r THEN None ELSE lock[c]]
Answer(r)  == req' = [req EXCEPT ![r] = NoRequest] /\ Release(r)

\* Ids are uuid4: a certificate or an attempt being created is nobody else's.
NewCert(c) == cert[c].row = "unborn" /\ \A r \in Requests : req[r].c # c
NewJob(j)  == job[j].status = "unborn" /\ \A r \in Requests : req[r].j # j

-----------------------------------------------------------------------------
(* Administrators: api/proxies.py *)

\* create_proxy: the last position is read by a statement of its own.
CreateRead(r, c) ==
    /\ req[r] = NoRequest
    /\ NewCert(c)
    /\ \E next \in 0..MaxOrder :
          /\ \A d \in Configured : cert[d].order < next
          /\ next = 0 \/ \E d \in Configured : cert[d].order = next - 1
          /\ req' = [req EXCEPT ![r] = [NoRequest EXCEPT !.pc = "creating", !.c = c,
                                                        !.next = next]]
    /\ UNCHANGED <<dbVars, pins, lock, worker, listing, updates>>

\* A saved PIN is for a card of this machine only.
CreateCommit(r, backend, saved) ==
    LET c == req[r].c IN
    /\ req[r].pc = "creating"
    /\ saved => backend = "local"
    /\ cert' = [cert EXCEPT ![c] =
          [row |-> "there", backend |-> backend, active |-> TRUE, saved |-> saved,
           order |-> req[r].next, version |-> 1]]
    /\ Answer(r)
    /\ UNCHANGED <<job, pins, worker, listing, updates>>

\* SELECT ... FOR UPDATE: what the transaction works on.
Select(r, pc, c, C) ==
    /\ req[r] = NoRequest
    /\ C # {} /\ C \subseteq Configured /\ Free(C)
    /\ Hold(r, C)
    /\ req' = [req EXCEPT ![r] = [NoRequest EXCEPT !.pc = pc, !.c = c, !.seen = cert]]
    /\ UNCHANGED <<dbVars, pins, worker, listing, updates>>

UpdateSelect(r, c)  == cert[c].version < MaxVersion /\ Select(r, "updating", c, {c})
DeleteSelect(r, c)  == Select(r, "deleting", c, {c})
ReorderSelect(r)    == Select(r, "ordering", None, Configured)

\* What an UPDATE leaves of a column: the new value if it differs from the one read.
Written(seen, new, now) == IF new = seen THEN now ELSE new

\* update_proxy: name, active, configuration and saved PIN.  The row may be gone
\* by then when nobody had to wait for it: the UPDATE finds no row and raises.
UpdateCommit(r, active, saved) ==
    LET c == req[r].c
        seen == req[r].seen[c]
        now == cert[c] IN
    /\ req[r].pc = "updating"
    /\ now.row = "there"
    /\ saved => seen.backend = "local"
    /\ cert' = [cert EXCEPT ![c] =
          [@ EXCEPT !.active = Written(seen.active, active, now.active),
                    !.saved = Written(seen.saved, saved, now.saved),
                    !.version = seen.version + 1]]
    /\ updates' = [updates EXCEPT ![c] = @ + 1]
    /\ Answer(r)
    /\ UNCHANGED <<job, pins, worker, listing>>

\* reorder_proxies: the ids must be those of the rows read, each once.
ReorderCommit(r) ==
    LET seen == req[r].seen
        C == {c \in Certificates : seen[c].row = "there"} IN
    /\ req[r].pc = "ordering"
    /\ C \subseteq Configured
    /\ \E position \in [C -> 0..(Cardinality(C) - 1)] :
          /\ \A c, d \in C : position[c] = position[d] => c = d
          /\ cert' = [c \in Certificates |->
                IF c \in C THEN [cert[c] EXCEPT !.order = Written(seen[c].order, position[c], @)]
                ELSE cert[c]]
          /\ listing' = [c \in Certificates |-> IF c \in C THEN position[c] ELSE -1]
    /\ Answer(r)
    /\ UNCHANGED <<job, pins, worker, updates>>

\* Mutant of DeleteCheck: the attempts are not looked at.
DeleteUnchecked(r) ==
    /\ req[r].pc = "deleting"
    /\ req' = [req EXCEPT ![r].pc = "unused"]
    /\ UNCHANGED <<dbVars, pins, lock, worker, listing, updates>>

\* delete_proxy: an attempt that will sign with it keeps it.
DeleteCheck(r) ==
    /\ req[r].pc = "deleting"
    /\ ~InUse(req[r].c)
    /\ req' = [req EXCEPT ![r].pc = "unused"]
    /\ UNCHANGED <<dbVars, pins, lock, worker, listing, updates>>

DeleteRefused(r) ==
    /\ req[r].pc = "deleting"
    /\ InUse(req[r].c)
    /\ Answer(r)
    /\ UNCHANGED <<dbVars, pins, worker, listing, updates>>

\* Past attempts lose the reference and keep the name.
DeleteCommit(r) ==
    LET c == req[r].c IN
    /\ req[r].pc = "unused"
    /\ cert[c].row = "there"
    /\ job' = [j \in Attempts |->
          IF job[j].proxy = c THEN [job[j] EXCEPT !.proxy = None] ELSE job[j]]
    /\ cert' = [cert EXCEPT ![c].row = "gone"]
    /\ Answer(r)
    /\ UNCHANGED <<pins, worker, listing, updates>>

-----------------------------------------------------------------------------
(* create_signature and enqueue_signature, as far as certificates go *)

\* The certificate asked for, which must be active, or the first active one: name
\* and id break ties, in some fixed way.
Chosen(asked) ==
    LET active == {c \in Configured : cert[c].active} IN
    IF asked # None THEN active \cap {asked}
    ELSE {c \in active : \A d \in active : cert[c].order <= cert[d].order}

\* With no certificate at all the attempt is for the default proxy.  A PIN is
\* typed for a card of this machine unless one is saved; a saved one may be
\* overridden.
Choose(r, j, asked, pin) ==
    /\ req[r] = NoRequest
    /\ NewJob(j)
    /\ \E c \in IF Chosen(asked) = {} /\ asked = None THEN {None} ELSE Chosen(asked) :
          /\ IF c # None /\ cert[c].backend = "local" THEN pin \/ cert[c].saved ELSE ~pin
          /\ req' = [req EXCEPT ![r] = [NoRequest EXCEPT !.pc = "chosen", !.c = c, !.j = j,
                                                        !.pin = pin]]
    /\ UNCHANGED <<dbVars, pins, lock, worker, listing, updates>>

\* Mutant of Enqueue: no foreign key on the certificate.
EnqueueAnyway(r) ==
    LET j == req[r].j IN
    /\ req[r].pc = "chosen"
    /\ job' = [job EXCEPT ![j] = [NoJob EXCEPT !.status = "queued", !.proxy = req[r].c,
                                               !.name = req[r].c]]
    /\ pins' = IF req[r].pin THEN pins \cup {j} ELSE pins
    /\ Answer(r)
    /\ UNCHANGED <<cert, worker, listing, updates>>

\* The INSERT and its commit.  The foreign key takes the certificate's row FOR
\* KEY SHARE until then: it waits for whoever holds the row, and needs it there.
Enqueue(r) ==
    LET j == req[r].j
        C == {req[r].c} \ {None} IN
    /\ req[r].pc = "chosen"
    /\ Free(C) /\ (RowLocks => C \subseteq Configured)
    /\ job' = [job EXCEPT ![j] = [NoJob EXCEPT !.status = "queued", !.proxy = req[r].c,
                                               !.name = req[r].c]]
    /\ pins' = IF req[r].pin THEN pins \cup {j} ELSE pins
    /\ Answer(r)
    /\ UNCHANGED <<cert, worker, listing, updates>>

\* A statement or a commit raises, a check refuses: the transaction rolls back.
Fail(r) ==
    /\ req[r] # NoRequest
    /\ Answer(r)
    /\ UNCHANGED <<dbVars, pins, worker, listing, updates>>

-----------------------------------------------------------------------------
(* The worker: claim_next_signature, process_claimed_signature,
   _acquire_signing_identity *)

NoWork == [j |-> None, loaded |-> FALSE, c |-> None, saved |-> FALSE, local |-> FALSE]

Claim(j) ==
    /\ worker.j = None
    /\ job[j].status = "queued"
    /\ job' = [job EXCEPT ![j].status = "running"]
    /\ worker' = [NoWork EXCEPT !.j = j]
    /\ UNCHANGED <<cert, pins, lock, req, listing, updates>>

\* What signs when the attempt refers to p: a row that is not there is no row.
Signer(p) == IF p \in Configured THEN p ELSE Default

\* The attempt is loaded with its certificate; from here the copy counts.
Load ==
    LET c == Signer(job[worker.j].proxy) IN
    /\ worker.j # None /\ ~worker.loaded
    /\ worker' = [worker EXCEPT !.loaded = TRUE, !.c = c,
                     !.local = c # Default /\ cert[c].backend = "local",
                     !.saved = c # Default /\ cert[c].saved]
    /\ UNCHANGED <<dbVars, pins, lock, req, listing, updates>>

\* The PIN is the typed one, if it is still in the vault, or the saved one.
MaySign == worker.local => worker.j \in pins \/ worker.saved

Settle(j, status, used) ==
    /\ job' = [job EXCEPT ![j].status = status, ![j].used = used]
    /\ pins' = pins \ {j}
    /\ worker' = NoWork
    /\ UNCHANGED <<cert, lock, req, listing, updates>>

Sign   == worker.loaded /\ MaySign /\ Settle(worker.j, "signed", worker.c)
Refuse == worker.loaded /\ Settle(worker.j, "failed", None)

\* PinVault forgets what waited too long.
Forget(j) ==
    /\ j \in pins
    /\ pins' = pins \ {j}
    /\ UNCHANGED <<dbVars, lock, req, worker, listing, updates>>

\* The service stops and starts again: release_orphaned_signatures.
Restart ==
    /\ job' = [j \in Attempts |-> IF job[j].status = "running"
                                  THEN [job[j] EXCEPT !.status = "failed"] ELSE job[j]]
    /\ pins' = {}
    /\ lock' = [c \in Certificates |-> None]
    /\ req' = [r \in Requests |-> NoRequest]
    /\ worker' = NoWork
    /\ UNCHANGED <<cert, listing, updates>>

-----------------------------------------------------------------------------

Init ==
    /\ cert = [c \in Certificates |-> NoCert]
    /\ job = [j \in Attempts |-> NoJob]
    /\ pins = {}
    /\ lock = [c \in Certificates |-> None]
    /\ req = [r \in Requests |-> NoRequest]
    /\ worker = NoWork
    /\ listing = [c \in Certificates |-> -1]
    /\ updates = [c \in Certificates |-> 0]

Next ==
    \/ \E r \in Requests :
          \/ \E c \in Certificates : CreateRead(r, c) \/ UpdateSelect(r, c) \/ DeleteSelect(r, c)
          \/ \E b \in Backends, saved \in BOOLEAN : CreateCommit(r, b, saved)
          \/ \E a, saved \in BOOLEAN : UpdateCommit(r, a, saved)
          \/ ReorderSelect(r) \/ ReorderCommit(r)
          \/ DeleteCheck(r) \/ DeleteRefused(r) \/ DeleteCommit(r)
          \/ \E j \in Attempts, asked \in Certificates \cup {None}, pin \in BOOLEAN :
                Choose(r, j, asked, pin)
          \/ Enqueue(r) \/ Fail(r)
    \/ \E j \in Attempts : Claim(j) \/ Forget(j)
    \/ Load \/ Sign \/ Refuse
    \/ Restart

Spec == Init /\ [][Next]_vars

-----------------------------------------------------------------------------
(* Properties *)

\* While an attempt waits or runs, the certificate its request chose is there and
\* is the one it refers to: what delete_proxy's check is for (proxies.py:273).
ChosenStaysConfigured ==
    \A j \in Attempts : InFlight(j) =>
       job[j].proxy = job[j].name /\ (job[j].name # None => job[j].name \in Configured)

\* "the history still says which certificate signed" (proxies.py:285-286): what
\* signed is what the attempt names, the default proxy if it names nothing.
HistorySaysWhatSigned ==
    \A j \in Attempts : job[j].status = "signed" =>
       job[j].used = IF job[j].name = None THEN Default ELSE job[j].name

\* The version an administrator sees counts the updates that were committed: no
\* update of a certificate is lost under another one (proxies.py:374).
VersionCountsUpdates ==
    \A c \in Configured : cert[c].version = 1 + updates[c]

\* The order is the one an administrator last confirmed, not a mixture of two
\* (proxies.py:152): the certificates listed then that are left keep their places.
OrderAsListed ==
    \A c \in Configured : listing[c] # -1 => cert[c].order = listing[c]
=============================================================================
