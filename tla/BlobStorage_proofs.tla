-------------------------- MODULE BlobStorage_proofs --------------------------
(***************************************************************************)
(* What the order of writing, renaming, committing and unlinking achieves: *)
(* at every step, also after a power loss, a file is either the whole and  *)
(* synced file of a row, or in the hands of one handler that will commit   *)
(* or remove it, or it met a mishap.  A key has one handler at a time,     *)
(* because keys are fresh and a removal commits before it unlinks.         *)
(***************************************************************************)
EXTENDS BlobStorage, TLAPS

Living   == {"to_sign", "signing_failed", "signed"}
DocState == Living \cup {"unborn", "deleted"}

DocsTypeOK ==
    /\ state \in [Documents -> DocState]
    /\ owner \in [Documents -> Users \cup {Nobody}]
    /\ attempt \in [Documents -> {"none", "queued", "running"}]

\* A document has its original while it is there and a result once it is signed.
DocumentsReferToFiles ==
    \A d \in Documents : /\ original[d] # Nobody <=> state[d] \in Living
                         /\ result[d] # Nobody <=> state[d] = "signed"
                         /\ attempt[d] # "none" => state[d] \in Living

\* No two rows refer to one key, as far as one of them may be removed.
ReferencesDistinct ==
    /\ \A d, e \in Documents : d # e /\ original[d] = original[e] => original[d] = Nobody
    /\ \A d, e \in Documents : original[d] = result[e] => original[d] = Nobody
    /\ \A d \in Documents : original[d] \notin graphics /\ result[d] \notin graphics

Referenced == graphics \cup {original[d] : d \in Documents} \cup {result[d] : d \in Documents}
RowsMatch  == \A k \in Keys : blob[k] = "stored" <=> k \in Referenced

\* Nothing can happen to such a file but its removal.
InPlace(f) == f.at = "target" /\ f.data = "synced" /\ f.entry /\ ~f.gone
Durable    == \A k \in Keys : blob[k] = "stored" => InPlace(file[k]) \/ "answer" \in mishap[k]

\* A key is in one hand.
KeysDistinct ==
    \A p, q \in Threads :
       p # q /\ thread[p].key = thread[q].key => thread[p].key = Nobody

\* What a handler may rely on.
Handled(p) ==
    LET pc == thread[p].pc
        k  == thread[p].key IN
    /\ pc = "idle" => k = Nobody
    /\ pc \in Storing \cup {"flushed"} => k \in Keys /\ blob[k] = "none" /\ ~file[k].gone
    /\ pc \in {"synced", "renamed"} => file[k].data = "synced"
    /\ pc = "renamed" => file[k].at = "target"
    /\ pc \in {"stored", "flushed"} => InPlace(file[k])
    /\ pc = "failing" /\ k # Nobody =>
          /\ ~OnDisk(k)
          /\ blob[k] = "none" \/ \E d \in Documents : result[d] = k
    /\ pc = "unlink" => k \in Keys /\ blob[k] = "deleted"
    /\ pc = "flushed" => thread[p].op = "upload"
    /\ p = Worker /\ pc # "idle" => thread[p].op = "result"
    /\ thread[p].op = "result" => thread[p].doc \in Documents

AllHandled == \A p \in Threads : Handled(p)

BlobInv ==
    /\ TypeOK /\ DocsTypeOK
    /\ DocumentsReferToFiles /\ ReferencesDistinct /\ RowsMatch
    /\ Durable /\ NoLeftover
    /\ KeysDistinct /\ AllHandled

-----------------------------------------------------------------------------
(* The initial state *)

LEMMA BlobInit == Init => BlobInv
<1> SUFFICES ASSUME Init PROVE BlobInv
  OBVIOUS
<1> USE DEF Init, Docs!Init
<1>1. Idle \in ThreadState /\ Idle.pc = "idle" /\ Idle.key = Nobody /\ Idle.op = "none"
  BY DEF Idle, ThreadState, Ops
<1>2. NoFile \in FileState /\ NoFile.at = "nowhere"
  BY DEF NoFile, FileState
<1>3. TypeOK
  BY <1>1, <1>2, StorageAssumption DEF TypeOK
<1>4. DocsTypeOK /\ DocumentsReferToFiles
  BY DEF DocsTypeOK, DocState, Living, DocumentsReferToFiles
<1>5. ReferencesDistinct
  BY DEF ReferencesDistinct
<1>6. RowsMatch
  <2>1. Nobody \notin Keys
    BY StorageAssumption
  <2>2. \A k \in Keys : k \notin Referenced /\ blob[k] = "none"
    BY <2>1 DEF Referenced
  <2> QED
    BY <2>2 DEF RowsMatch
<1>7. Durable /\ NoLeftover
  BY <1>2 DEF Durable, NoLeftover, OnDisk
<1>8. KeysDistinct
  BY <1>1 DEF KeysDistinct
<1>9. AllHandled
  BY <1>1 DEF AllHandled, Handled, Storing
<1> QED
  BY <1>3, <1>4, <1>5, <1>6, <1>7, <1>8, <1>9 DEF BlobInv

-----------------------------------------------------------------------------
(* Frames *)

\* The handlers but p keep what they rely on, if the step leaves the files in
\* their hands alone and the life of a key runs one way.
LEMMA OthersHandled ==
    ASSUME TypeOK, AllHandled, NEW p,
           \A q \in Threads \ {p} : thread'[q] = thread[q],
           \A x \in Keys : /\ blob[x] # "none" => blob'[x] # "none"
                           /\ blob[x] = "deleted" => blob'[x] = "deleted",
           \A x \in Keys : (\E q \in Threads \ {p} : thread[q].key = x) =>
              file'[x] = file[x] /\ (blob[x] = "none" => blob'[x] = "none"),
           \A d \in Documents : result[d] # Nobody => result'[d] = result[d]
    PROVE  \A q \in Threads \ {p} : Handled(q)'
<1> SUFFICES ASSUME NEW q \in Threads \ {p} PROVE Handled(q)'
  OBVIOUS
<1>1. Handled(q) /\ thread'[q] = thread[q]
  BY DEF AllHandled
<1>2. PICK k \in Keys \cup {Nobody} : k = thread[q].key
  BY DEF TypeOK, ThreadState
<1>3. PICK pc : pc = thread[q].pc
  OBVIOUS
<1>4. CASE k = Nobody
  BY <1>1, <1>2, <1>3, <1>4, StorageAssumption DEF Handled, Storing
<1>5. CASE k \in Keys
  <2>1. /\ file'[k] = file[k] /\ (OnDisk(k)' <=> OnDisk(k))
        /\ blob[k] = "none" => blob'[k] = "none"
        /\ blob[k] = "deleted" => blob'[k] = "deleted"
    BY <1>1, <1>2, <1>3, <1>5 DEF OnDisk
  <2>2. (\E d \in Documents : result[d] = k) => \E d \in Documents : result'[d] = k
    BY <1>5, StorageAssumption
  <2>3. OnDisk(thread[q].key)' <=> OnDisk(k)'
    BY <1>1, <1>2 DEF OnDisk
  <2> QED
    BY <1>1, <1>2, <1>3, <1>5, <2>1, <2>2, <2>3 DEF Handled, Storing
<1> QED
  BY <1>2, <1>4, <1>5

\* A step of the handler p with the key k.
LEMMA StepKeeps ==
    ASSUME BlobInv, NEW p \in Threads, NEW k \in Keys \cup {Nobody},
           TypeOK', DocsTypeOK', DocumentsReferToFiles', ReferencesDistinct', RowsMatch',
           \A q \in Threads \ {p} : thread'[q] = thread[q],
           \A x \in Keys : x # k => file'[x] = file[x] /\ blob'[x] = blob[x],
           \A x \in Keys : mishap[x] \subseteq mishap'[x],
           \A d \in Documents : result[d] # Nobody => result'[d] = result[d],
           k \in Keys =>
              /\ blob[k] # "none" => blob'[k] # "none"
              /\ blob[k] = "deleted" => blob'[k] = "deleted"
              /\ blob'[k] = "stored" => InPlace(file'[k]) \/ "answer" \in mishap'[k]
              /\ OnDisk(k)' => \/ blob'[k] = "stored" \/ mishap'[k] # {}
                               \/ thread'[p].key = k
              /\ \A q \in Threads \ {p} : thread[q].key # k,
           thread[p].key \in {k, Nobody},
           thread'[p].key \in {k, Nobody},
           Handled(p)'
    PROVE  BlobInv'
<1>1. /\ TypeOK /\ Durable /\ NoLeftover /\ KeysDistinct /\ AllHandled
      /\ Nobody \notin Keys
  BY StorageAssumption DEF BlobInv
<1>2. Durable'
  BY <1>1 DEF Durable
<1>3. NoLeftover'
  <2>1. ASSUME NEW x \in Keys, OnDisk(x)'
        PROVE  blob'[x] = "stored" \/ InHand(x)' \/ mishap'[x] # {}
    <3>1. CASE x = k
      BY <2>1, <3>1 DEF InHand
    <3>2. CASE x # k
      <4>1. OnDisk(x) /\ blob'[x] = blob[x]
        BY <2>1, <3>2 DEF OnDisk
      <4>2. blob[x] = "stored" \/ InHand(x) \/ mishap[x] # {}
        BY <1>1, <4>1 DEF NoLeftover
      <4>3. InHand(x) => InHand(x)'
        BY <1>1, <3>2 DEF InHand
      <4>4. mishap[x] \subseteq mishap'[x]
        OBVIOUS
      <4> QED
        BY <4>1, <4>2, <4>3, <4>4
    <3> QED
      BY <3>1, <3>2
  <2> QED
    BY <2>1 DEF NoLeftover, OnDisk, InHand
<1>4. KeysDistinct'
  <2>1. ASSUME NEW a \in Threads, NEW b \in Threads, a # b,
               thread'[a].key = thread'[b].key
        PROVE  thread'[a].key = Nobody
    <3>1. CASE a # p /\ b # p
      BY <1>1, <2>1, <3>1 DEF KeysDistinct
    <3>2. CASE a = p
      BY <1>1, <2>1, <3>2
    <3>3. CASE b = p
      BY <1>1, <2>1, <3>3
    <3> QED
      BY <3>1, <3>2, <3>3
  <2> QED
    BY <2>1 DEF KeysDistinct
<1>5. AllHandled'
  <2>1. \A x \in Keys : /\ blob[x] # "none" => blob'[x] # "none"
                        /\ blob[x] = "deleted" => blob'[x] = "deleted"
    OBVIOUS
  <2>2. \A x \in Keys : (\E q \in Threads \ {p} : thread[q].key = x) =>
           file'[x] = file[x] /\ (blob[x] = "none" => blob'[x] = "none")
    OBVIOUS
  <2>3. \A q \in Threads \ {p} : Handled(q)'
    BY <1>1, <2>1, <2>2, OthersHandled
  <2> QED
    BY <2>3 DEF AllHandled
<1> QED
  BY <1>2, <1>3, <1>4, <1>5 DEF BlobInv

\* A step of p with the key k that changes no row.
LEMMA FileStepKeeps ==
    ASSUME BlobInv, NEW p \in Threads, NEW k \in Keys \cup {Nobody},
           UNCHANGED <<rowVars, crashes>>,
           file' \in [Keys -> FileState], thread' \in [Threads -> ThreadState],
           mishap' \in [Keys -> SUBSET {"power", "answer", "early", "unclean"}],
           \A q \in Threads \ {p} : thread'[q] = thread[q],
           \A x \in Keys : x # k => file'[x] = file[x],
           \A x \in Keys : mishap[x] \subseteq mishap'[x],
           k \in Keys =>
              /\ blob[k] = "stored" => file'[k] = file[k]
              /\ OnDisk(k)' => \/ blob[k] = "stored" \/ mishap'[k] # {}
                               \/ thread'[p].key = k
              /\ \A q \in Threads \ {p} : thread[q].key # k,
           thread[p].key \in {k, Nobody},
           thread'[p].key \in {k, Nobody},
           Handled(p)'
    PROVE  BlobInv'
<1>1. /\ TypeOK /\ DocsTypeOK /\ DocumentsReferToFiles /\ ReferencesDistinct /\ RowsMatch
      /\ Durable
      /\ UNCHANGED <<state, owner, attempt, original, result, graphics, blob>>
  BY DEF BlobInv, rowVars, docVars
<1>2. /\ TypeOK' /\ DocsTypeOK' /\ DocumentsReferToFiles' /\ ReferencesDistinct' /\ RowsMatch'
  BY <1>1 DEF TypeOK, DocsTypeOK, DocumentsReferToFiles, ReferencesDistinct, RowsMatch, Referenced
<1>3. k \in Keys /\ blob[k] = "stored" => InPlace(file'[k]) \/ "answer" \in mishap'[k]
  BY <1>1 DEF Durable
<1> QED
  BY <1>1, <1>2, <1>3, StepKeeps

-----------------------------------------------------------------------------
(* Effects of the helpers *)

LEMMA MoveEffect ==
    ASSUME TypeOK, NEW p \in Threads, NEW step \in Steps, Move(p, step)
    PROVE  /\ thread' \in [Threads -> ThreadState]
           /\ thread'[p].pc = step /\ thread'[p].op = thread[p].op
           /\ thread'[p].key = thread[p].key /\ thread'[p].doc = thread[p].doc
           /\ \A q \in Threads \ {p} : thread'[q] = thread[q]
<1>1. PICK t \in ThreadState : t = thread[p]
  BY DEF TypeOK
<1>2. PICK u : u = [t EXCEPT !.pc = step]
  OBVIOUS
<1>3. u \in ThreadState /\ u.pc = step /\ u.op = t.op /\ u.key = t.key /\ u.doc = t.doc
  BY <1>2 DEF ThreadState
<1>4. thread' = [thread EXCEPT ![p] = u]
  BY <1>1, <1>2 DEF Move
<1> QED
  BY <1>1, <1>3, <1>4 DEF TypeOK

LEMMA LeaveEffect ==
    ASSUME TypeOK, NEW p \in Threads, Leave(p)
    PROVE  /\ thread' \in [Threads -> ThreadState]
           /\ thread'[p].pc = "idle" /\ thread'[p].op = "none" /\ thread'[p].key = Nobody
           /\ \A q \in Threads \ {p} : thread'[q] = thread[q]
           /\ Handled(p)'
<1>1. Idle \in ThreadState /\ Idle.pc = "idle" /\ Idle.key = Nobody /\ Idle.op = "none"
  BY DEF Idle, ThreadState, Ops
<1>2. thread' \in [Threads -> ThreadState] /\ thread'[p] = Idle
  BY <1>1 DEF TypeOK, Leave
<1>3. Handled(p)'
  BY <1>1, <1>2 DEF Handled, Storing
<1> QED
  BY <1>1, <1>2, <1>3 DEF TypeOK, Leave

LEMMA FileEffect ==
    ASSUME TypeOK, NEW k \in Keys, NEW f \in FileState, SetFile(k, f)
    PROVE  /\ file' \in [Keys -> FileState] /\ file'[k] = f
           /\ \A x \in Keys \ {k} : file'[x] = file[x]
BY DEF TypeOK, SetFile

LEMMA UnlinkEffect ==
    ASSUME TypeOK, NEW k \in Keys, Unlink(k)
    PROVE  /\ file' \in [Keys -> FileState] /\ ~OnDisk(k)'
           /\ \A x \in Keys \ {k} : file'[x] = file[x]
<1>1. PICK g \in FileState : g = file[k]
  BY DEF TypeOK
<1>2. PICK f : f = [g EXCEPT !.gone = TRUE]
  OBVIOUS
<1>3. f \in FileState /\ f.gone
  BY <1>2 DEF FileState
<1>4. SetFile(k, IF OnDisk(k) THEN f ELSE g)
  BY <1>1, <1>2 DEF Unlink
<1> QED
  BY <1>1, <1>3, <1>4, FileEffect DEF OnDisk

LEMMA BefallsEffect ==
    ASSUME TypeOK, NEW k \in Keys, NEW what \in {"power", "answer", "early", "unclean"},
           Befalls(k, what)
    PROVE  /\ mishap' \in [Keys -> SUBSET {"power", "answer", "early", "unclean"}]
           /\ what \in mishap'[k]
           /\ \A x \in Keys : mishap[x] \subseteq mishap'[x]
BY DEF TypeOK, Befalls

\* A removal finds a key that no handler has.
LEMMA RemovableInNoHand ==
    ASSUME BlobInv, NEW k \in Keys, blob[k] = "stored", \A d \in Documents : result[d] # k,
           NEW q \in Threads
    PROVE  thread[q].key # k
<1>1. Handled(q) /\ thread[q].pc \in Steps \cup {"idle"} /\ Nobody \notin Keys
  BY StorageAssumption DEF BlobInv, AllHandled, TypeOK, ThreadState
<1> QED
  BY <1>1 DEF Handled, Steps

\* A handler with a file has its key to itself.
LEMMA HasKey ==
    ASSUME BlobInv, NEW p \in Threads, thread[p].pc \in Storing \cup {"flushed", "unlink"}
    PROVE  \E k \in Keys :
              /\ k = thread[p].key /\ file[k] \in FileState
              /\ thread[p].pc = "unlink" => blob[k] = "deleted"
              /\ thread[p].pc # "unlink" => blob[k] = "none"
              /\ \A q \in Threads \ {p} : thread[q].key # k
<1>1. TypeOK /\ Handled(p) /\ KeysDistinct /\ Nobody \notin Keys
  BY StorageAssumption DEF BlobInv, AllHandled
<1>2. PICK k \in Keys : k = thread[p].key
  BY <1>1 DEF Handled
<1>3. \A q \in Threads \ {p} : thread[q].key # k
  BY <1>1, <1>2 DEF KeysDistinct, Storing
<1> QED
  BY <1>1, <1>2, <1>3 DEF Handled, TypeOK, Storing

\* So has one that takes a fresh key.
LEMMA FreshKey ==
    ASSUME BlobInv, NEW k \in Keys, Fresh(k)
    PROVE  /\ blob[k] = "none"
           /\ \A q \in Threads : thread[q].key # k
BY DEF Fresh, InHand

-----------------------------------------------------------------------------
(* Storing a file *)

LEMMA StoreUploadKeeps ==
    ASSUME BlobInv, NEW p \in Threads, NEW op \in Ops, NEW k \in Keys, StoreUpload(p, op, k)
    PROVE  BlobInv'
<1>1. /\ TypeOK /\ thread[p] = Idle /\ Fresh(k) /\ UNCHANGED <<rowVars, mishap, crashes>>
      /\ op \in {"upload", "graphic", "version"} /\ p # Worker
  BY StorageAssumption DEF BlobInv, StoreUpload, OpenPart
<1>2. PICK f \in FileState : f = NewPart /\ ~f.gone
  <2>1. NewPart \in FileState
    BY DEF NewPart, FileState
  <2>2. NewPart.gone = FALSE
    BY DEF NewPart
  <2> QED
    BY <2>1, <2>2
<1>3. /\ file' \in [Keys -> FileState] /\ ~file'[k].gone
      /\ \A x \in Keys \ {k} : file'[x] = file[x]
  BY <1>1, <1>2, FileEffect DEF StoreUpload, OpenPart
<1>4. /\ thread' \in [Threads -> ThreadState]
      /\ thread'[p].pc = "writing" /\ thread'[p].op = op /\ thread'[p].key = k
      /\ \A q \in Threads \ {p} : thread'[q] = thread[q]
  BY <1>1 DEF StoreUpload, OpenPart, TypeOK, ThreadState, Steps, Storing, Ops
<1>5. blob[k] = "none" /\ \A q \in Threads : thread[q].key # k
  BY <1>1, FreshKey
<1>6. Handled(p)'
  BY <1>1, <1>3, <1>4, <1>5 DEF Handled, Storing, rowVars
<1>7. thread[p].key = Nobody /\ mishap' \in [Keys -> SUBSET {"power", "answer", "early", "unclean"}]
  BY <1>1 DEF Idle, TypeOK
<1> QED
  BY <1>1, <1>3, <1>4, <1>5, <1>6, <1>7, FileStepKeeps

\* Writing on: the bytes, their fsync, the name, its fsync.
LEMMA StoringKeeps ==
    ASSUME BlobInv, NEW p \in Threads,
           WritePart(p) \/ SyncPart(p) \/ RenamePart(p) \/ SyncDirectory(p)
    PROVE  BlobInv'
<1>1. TypeOK /\ Handled(p) /\ UNCHANGED <<rowVars, mishap, crashes>>
  BY DEF BlobInv, AllHandled, WritePart, SyncPart, RenamePart, SyncDirectory
<1>2. PICK k \in Keys :
         /\ k = thread[p].key /\ file[k] \in FileState
         /\ thread[p].pc # "unlink" => blob[k] = "none"
         /\ \A q \in Threads \ {p} : thread[q].key # k
  BY HasKey DEF WritePart, SyncPart, RenamePart, SyncDirectory, Storing
<1>3. PICK g \in FileState : g = file[k] /\ ~g.gone
  BY <1>1, <1>2 DEF Handled, WritePart, SyncPart, RenamePart, SyncDirectory, Storing
<1>4. PICK step \in {"written", "synced", "renamed", "stored"}, f \in FileState :
         /\ Move(p, step) /\ SetFile(k, f)
         /\ thread[p].pc \in {"writing", "written", "synced", "renamed"}
         /\ step \in {"synced", "renamed", "stored"} => f.data = "synced"
         /\ step \in {"renamed", "stored"} => f.at = "target"
         /\ step = "stored" => f.entry
         /\ ~f.gone
  <2>1. CASE WritePart(p)
    <3>1. PICK f : f = [g EXCEPT !.data = "whole"]
      OBVIOUS
    <3>2. f \in FileState /\ ~f.gone
      BY <1>3, <3>1 DEF FileState
    <3> QED
      BY <1>2, <1>3, <2>1, <3>1, <3>2 DEF WritePart
  <2>2. CASE SyncPart(p)
    <3>1. PICK f : f = [g EXCEPT !.data = "synced"]
      OBVIOUS
    <3>2. f \in FileState /\ f.data = "synced" /\ ~f.gone
      BY <1>3, <3>1 DEF FileState
    <3> QED
      BY <1>2, <1>3, <2>2, <3>1, <3>2 DEF SyncPart
  <2>3. CASE RenamePart(p)
    <3>1. PICK f : f = [g EXCEPT !.at = "target", !.entry = FALSE]
      OBVIOUS
    <3>2. g.data = "synced"
      BY <1>1, <1>2, <1>3, <2>3 DEF RenamePart, Handled
    <3>3. f \in FileState /\ f.data = "synced" /\ f.at = "target" /\ ~f.gone
      BY <1>3, <3>1, <3>2 DEF FileState
    <3> QED
      BY <1>2, <1>3, <2>3, <3>1, <3>3 DEF RenamePart
  <2>4. CASE SyncDirectory(p)
    <3>1. PICK f : f = [g EXCEPT !.entry = TRUE]
      OBVIOUS
    <3>2. g.data = "synced" /\ g.at = "target"
      BY <1>1, <1>2, <1>3, <2>4 DEF SyncDirectory, Handled
    <3>3. f \in FileState /\ f.data = "synced" /\ f.at = "target" /\ f.entry /\ ~f.gone
      BY <1>3, <3>1, <3>2 DEF FileState
    <3> QED
      BY <1>2, <1>3, <2>4, <3>1, <3>3 DEF SyncDirectory
  <2> QED
    BY <2>1, <2>2, <2>3, <2>4
<1>5. /\ file' \in [Keys -> FileState] /\ file'[k] = f
      /\ \A x \in Keys \ {k} : file'[x] = file[x]
  BY <1>1, <1>4, FileEffect
<1>6. /\ thread' \in [Threads -> ThreadState]
      /\ thread'[p].pc = step /\ thread'[p].op = thread[p].op
      /\ thread'[p].key = k /\ thread'[p].doc = thread[p].doc
      /\ \A q \in Threads \ {p} : thread'[q] = thread[q]
  <2>1. step \in Steps
    BY DEF Steps, Storing
  <2> QED
    BY <1>1, <1>2, <1>4, <2>1, MoveEffect
<1>7. Handled(p)'
  <2>1. /\ blob'[k] = "none"
        /\ p = Worker => thread[p].op = "result"
        /\ thread[p].op = "result" => thread[p].doc \in Documents
    BY <1>1, <1>2, <1>4 DEF rowVars, Handled
  <2> QED
    BY <1>4, <1>5, <1>6, <2>1 DEF Handled, Storing, InPlace
<1>8. mishap' \in [Keys -> SUBSET {"power", "answer", "early", "unclean"}]
  BY <1>1 DEF TypeOK
<1>9. blob[k] = "none" /\ \A x \in Keys : mishap[x] \subseteq mishap'[x]
  BY <1>1, <1>2, <1>4
<1> QED
  BY <1>1, <1>2, <1>5, <1>6, <1>7, <1>8, <1>9, FileStepKeeps

\* A handler that gives up its file: it unlinks the file, or something befell it.
LEMMA GivesUp ==
    ASSUME BlobInv, NEW p \in Threads, NEW k \in Keys, k = thread[p].key,
           thread[p].pc \in Storing \cup {"flushed", "unlink"},
           UNCHANGED <<rowVars, crashes>>,
           \/ /\ Unlink(k) /\ UNCHANGED mishap
              /\ Leave(p) \/ (thread[p].pc # "unlink" /\ Move(p, "failing"))
           \/ /\ UNCHANGED file /\ Leave(p)
              /\ \E what \in {"early", "unclean"} : Befalls(k, what)
    PROVE  BlobInv'
<1>1. TypeOK /\ Handled(p)
  BY DEF BlobInv, AllHandled
<1>2. /\ blob[k] # "stored" /\ file[k] \in FileState
      /\ thread[p].pc # "unlink" => blob[k] = "none"
      /\ \A q \in Threads \ {p} : thread[q].key # k
  BY HasKey
<1>3. CASE Unlink(k) /\ UNCHANGED mishap
  <2>1. /\ file' \in [Keys -> FileState] /\ ~OnDisk(k)'
        /\ \A x \in Keys \ {k} : file'[x] = file[x]
    BY <1>1, <1>3, UnlinkEffect
  <2>2. /\ mishap' \in [Keys -> SUBSET {"power", "answer", "early", "unclean"}]
        /\ \A x \in Keys : mishap[x] \subseteq mishap'[x]
    BY <1>1, <1>3 DEF TypeOK
  <2>3. CASE Leave(p)
    BY <1>1, <1>2, <2>1, <2>2, <2>3, LeaveEffect, FileStepKeeps
  <2>4. CASE thread[p].pc # "unlink" /\ Move(p, "failing")
    <3>1. /\ thread' \in [Threads -> ThreadState]
          /\ thread'[p].pc = "failing" /\ thread'[p].op = thread[p].op
          /\ thread'[p].key = k /\ thread'[p].doc = thread[p].doc
          /\ \A q \in Threads \ {p} : thread'[q] = thread[q]
      BY <1>1, <2>4, MoveEffect DEF Steps
    <3>2. Handled(p)'
      <4>1. /\ blob'[k] = "none"
            /\ p = Worker => thread[p].op = "result"
            /\ thread[p].op = "result" => thread[p].doc \in Documents
        BY <1>1, <1>2, <2>4 DEF Handled, Storing, rowVars
      <4>2. ~OnDisk(thread[p].key)'
        BY <2>1, <3>1 DEF OnDisk
      <4> QED
        BY <3>1, <4>1, <4>2 DEF Handled, Storing
    <3> QED
      BY <1>2, <2>1, <2>2, <3>1, <3>2, FileStepKeeps
  <2> QED
    BY <1>1, <1>2, <1>3, <2>1, <2>3, <2>4, BefallsEffect
<1>4. CASE UNCHANGED file /\ Leave(p) /\ \E what \in {"early", "unclean"} : Befalls(k, what)
  <2>1. /\ mishap' \in [Keys -> SUBSET {"power", "answer", "early", "unclean"}]
        /\ mishap'[k] # {}
        /\ \A x \in Keys : mishap[x] \subseteq mishap'[x]
    BY <1>1, <1>4, BefallsEffect
  <2>2. file' \in [Keys -> FileState]
    BY <1>1, <1>4 DEF TypeOK
  <2> QED
    BY <1>1, <1>2, <1>4, <2>1, <2>2, LeaveEffect, FileStepKeeps
<1> QED
  BY <1>3, <1>4

\* Refused input, a full disk, an error before the try, a refused commit, a
\* result nobody wants any more, and the end of a removal; or none, if unlink raises.
LEMMA GivingUpKeeps ==
    ASSUME BlobInv, NEW p \in Threads,
           \/ StoreRaises(p) \/ FlushUploadRaises(p) \/ CommitRaises(p) \/ CommitRaisesElse(p)
           \/ p = Worker /\ RefuseResult
           \/ DeleteFile(p) \/ DeleteAnswerLost(p) \/ UnlinkRaises(p)
    PROVE  BlobInv'
<1>1. thread[p].pc \in Storing \cup {"flushed", "unlink"} /\ UNCHANGED <<rowVars, crashes>>
  BY DEF StoreRaises, FlushUploadRaises, CommitRaises, CommitRaisesElse, RefuseResult,
         DeleteFile, DeleteAnswerLost, UnlinkRaises, AtCommit, Storing
<1>2. PICK k \in Keys : k = thread[p].key
  BY <1>1, HasKey
<1>3. \/ /\ Unlink(k) /\ UNCHANGED mishap
         /\ Leave(p) \/ (thread[p].pc # "unlink" /\ Move(p, "failing"))
      \/ /\ UNCHANGED file /\ Leave(p)
         /\ \E what \in {"early", "unclean"} : Befalls(k, what)
  <2>1. CASE StoreRaises(p)
    BY <1>2, <2>1 DEF StoreRaises, Storing
  <2>2. CASE FlushUploadRaises(p)
    BY <1>2, <2>2 DEF FlushUploadRaises
  <2>3. CASE CommitRaises(p)
    BY <1>2, <2>3 DEF CommitRaises, AtCommit
  <2>4. CASE CommitRaisesElse(p)
    BY <1>2, <2>4 DEF CommitRaisesElse
  <2>5. CASE p = Worker /\ RefuseResult
    BY <1>2, <2>5 DEF RefuseResult
  <2>6. CASE DeleteFile(p) \/ DeleteAnswerLost(p) \/ UnlinkRaises(p)
    BY <1>2, <2>6 DEF DeleteFile, DeleteAnswerLost, UnlinkRaises
  <2> QED
    BY <2>1, <2>2, <2>3, <2>4, <2>5, <2>6
<1> QED
  BY <1>1, <1>2, <1>3, GivesUp

LEMMA FlushUploadKeeps ==
    ASSUME BlobInv, NEW p \in Threads, FlushUpload(p)
    PROVE  BlobInv'
<1>1. /\ TypeOK /\ Handled(p) /\ Move(p, "flushed") /\ UNCHANGED <<rowVars, file, mishap, crashes>>
      /\ thread[p].pc = "stored" /\ thread[p].op = "upload"
  BY DEF BlobInv, AllHandled, FlushUpload
<1>2. PICK k \in Keys :
         /\ k = thread[p].key /\ blob[k] = "none"
         /\ \A q \in Threads \ {p} : thread[q].key # k
  BY <1>1, HasKey DEF Storing
<1>3. /\ thread' \in [Threads -> ThreadState]
      /\ thread'[p].pc = "flushed" /\ thread'[p].op = "upload" /\ thread'[p].key = k
      /\ \A q \in Threads \ {p} : thread'[q] = thread[q]
  BY <1>1, <1>2, MoveEffect DEF Steps
<1>4. Handled(p)'
  BY <1>1, <1>2, <1>3 DEF Handled, Storing, rowVars
<1>5. /\ mishap' \in [Keys -> SUBSET {"power", "answer", "early", "unclean"}]
      /\ file' \in [Keys -> FileState]
  BY <1>1 DEF TypeOK
<1> QED
  BY <1>1, <1>2, <1>3, <1>4, <1>5, FileStepKeeps

LEMMA StoreResultKeeps ==
    ASSUME BlobInv, NEW k \in Keys, StoreResult(k)
    PROVE  BlobInv'
<1>1. /\ TypeOK /\ Handled(Worker) /\ Worker \in Threads
      /\ thread[Worker].pc = "failing" /\ thread[Worker].key = Nobody /\ Fresh(k)
      /\ UNCHANGED <<rowVars, mishap, crashes>>
  BY DEF BlobInv, AllHandled, Threads, StoreResult
<1>2. PICK d \in Documents \cup {Nobody} : d = thread[Worker].doc
  BY <1>1 DEF TypeOK, ThreadState
<1>3. PICK f \in FileState : f = NewPart /\ ~f.gone
  <2>1. NewPart \in FileState
    BY DEF NewPart, FileState
  <2>2. NewPart.gone = FALSE
    BY DEF NewPart
  <2> QED
    BY <2>1, <2>2
<1>4. /\ file' \in [Keys -> FileState] /\ ~file'[k].gone
      /\ \A x \in Keys \ {k} : file'[x] = file[x]
  BY <1>1, <1>3, FileEffect DEF StoreResult
<1>5. /\ thread' \in [Threads -> ThreadState]
      /\ thread'[Worker].pc = "writing" /\ thread'[Worker].op = "result"
      /\ thread'[Worker].key = k /\ thread'[Worker].doc = d
      /\ \A q \in Threads \ {Worker} : thread'[q] = thread[q]
  BY <1>1, <1>2 DEF StoreResult, TypeOK, ThreadState, Steps, Storing, Ops
<1>6. blob[k] = "none" /\ \A q \in Threads : thread[q].key # k
  BY <1>1, FreshKey
<1>7. d \in Documents
  BY <1>1, <1>2 DEF Handled
<1>8. Handled(Worker)'
  BY <1>1, <1>4, <1>5, <1>6, <1>7 DEF Handled, Storing, rowVars
<1>9. mishap' \in [Keys -> SUBSET {"power", "answer", "early", "unclean"}]
  BY <1>1 DEF TypeOK
<1> QED
  BY <1>1, <1>4, <1>5, <1>6, <1>8, <1>9, FileStepKeeps

-----------------------------------------------------------------------------
(* The commits that give a file its row *)

\* A row appears for the file in place: nothing referred to its key.
LEMMA InsertRowEffect ==
    ASSUME BlobInv, NEW p \in Threads, NEW k \in Keys, k = thread[p].key, InsertRow(p), Insert(k)
    PROVE  /\ thread[p].pc \in {"stored", "flushed"} /\ InPlace(file[k])
           /\ \A q \in Threads \ {p} : thread[q].key # k
           /\ blob' \in [Keys -> {"none", "stored", "deleted"}] /\ blob'[k] = "stored"
           /\ \A x \in Keys \ {k} : blob'[x] = blob[x]
           /\ original' \in [Documents -> Keys \cup {Nobody}]
           /\ result' \in [Documents -> Keys \cup {Nobody}] /\ graphics' \in SUBSET Keys
           /\ \A d \in Documents : result[d] # Nobody => result'[d] = result[d]
           /\ thread[p].op = "result" => \E d \in Documents : result'[d] = k
           /\ DocsTypeOK' /\ DocumentsReferToFiles' /\ ReferencesDistinct' /\ RowsMatch'
<1>1. /\ TypeOK /\ DocsTypeOK /\ DocumentsReferToFiles /\ ReferencesDistinct /\ RowsMatch
      /\ Handled(p) /\ Nobody \notin Keys
  BY StorageAssumption DEF BlobInv, AllHandled
<1>2. thread[p].pc \in {"stored", "flushed"}
  BY DEF InsertRow, InsertDocument, InsertVersion, InsertResult
<1>3. /\ blob[k] = "none" /\ InPlace(file[k])
      /\ \A q \in Threads \ {p} : thread[q].key # k
  BY <1>1, <1>2, HasKey DEF Handled, Storing
<1>4. /\ blob' \in [Keys -> {"none", "stored", "deleted"}] /\ blob'[k] = "stored"
      /\ \A x \in Keys \ {k} : blob'[x] = blob[x]
  BY <1>1 DEF TypeOK, Insert
<1>5. k \notin Referenced
  BY <1>1, <1>3 DEF RowsMatch
<1>6. /\ k \notin graphics
      /\ \A d \in Documents : original[d] # k /\ result[d] # k
  BY <1>5 DEF Referenced
<1>7. (\A x \in Keys : x \in Referenced' <=> x \in Referenced \/ x = k) => RowsMatch'
  BY <1>1, <1>4 DEF RowsMatch
<1>8. ASSUME NEW d \in Documents, NEW u \in Users, InsertDocument(p, d, u)
      PROVE  /\ original' \in [Documents -> Keys \cup {Nobody}]
             /\ result' \in [Documents -> Keys \cup {Nobody}] /\ graphics' \in SUBSET Keys
             /\ \A e \in Documents : result'[e] = result[e]
             /\ thread[p].op # "result"
             /\ DocsTypeOK' /\ DocumentsReferToFiles' /\ ReferencesDistinct' /\ RowsMatch'
  <2>1. /\ state[d] = "unborn" /\ state' = [state EXCEPT ![d] = "to_sign"]
        /\ owner' = [owner EXCEPT ![d] = u] /\ attempt' = attempt
        /\ original' = [original EXCEPT ![d] = k] /\ UNCHANGED <<result, graphics>>
        /\ thread[p].op = "upload"
    BY <1>1, <1>8 DEF InsertDocument, Docs!Upload, Handled
  <2>2. /\ original' \in [Documents -> Keys \cup {Nobody}] /\ original'[d] = k
        /\ \A e \in Documents \ {d} : original'[e] = original[e]
        /\ state'[d] = "to_sign" /\ \A e \in Documents \ {d} : state'[e] = state[e]
    BY <1>1, <2>1 DEF TypeOK, DocsTypeOK
  <2>3. DocsTypeOK'
    BY <1>1, <2>1 DEF DocsTypeOK, DocState, Living
  <2>4. original[d] = Nobody /\ result[d] = Nobody /\ attempt[d] = "none"
    BY <1>1, <2>1 DEF DocumentsReferToFiles, Living, DocsTypeOK
  <2>5. DocumentsReferToFiles'
    BY <1>1, <2>1, <2>2, <2>4 DEF DocumentsReferToFiles, Living
  <2>6. ReferencesDistinct'
    BY <1>1, <1>6, <2>1, <2>2 DEF ReferencesDistinct
  <2>7. \A x \in Keys : x \in Referenced' <=> x \in Referenced \/ x = k
    BY <1>1, <2>1, <2>2, <2>4 DEF Referenced
  <2> QED
    BY <1>1, <1>7, <2>1, <2>2, <2>3, <2>5, <2>6, <2>7 DEF TypeOK
<1>9. ASSUME InsertVersion(p)
      PROVE  /\ original' \in [Documents -> Keys \cup {Nobody}]
             /\ result' \in [Documents -> Keys \cup {Nobody}] /\ graphics' \in SUBSET Keys
             /\ \A e \in Documents : result'[e] = result[e]
             /\ thread[p].op # "result"
             /\ DocsTypeOK' /\ DocumentsReferToFiles' /\ ReferencesDistinct' /\ RowsMatch'
  <2>1. /\ graphics' = graphics \cup {k} /\ thread[p].op # "result"
        /\ UNCHANGED <<state, owner, attempt, original, result>>
    BY <1>9 DEF InsertVersion, docVars
  <2>2. DocsTypeOK' /\ DocumentsReferToFiles'
    BY <1>1, <2>1 DEF DocsTypeOK, DocumentsReferToFiles
  <2>3. ReferencesDistinct'
    BY <1>1, <1>6, <2>1 DEF ReferencesDistinct
  <2>4. \A x \in Keys : x \in Referenced' <=> x \in Referenced \/ x = k
    BY <2>1 DEF Referenced
  <2> QED
    BY <1>1, <1>7, <2>1, <2>2, <2>3, <2>4 DEF TypeOK
<1>10. ASSUME InsertResult(p)
       PROVE  /\ original' \in [Documents -> Keys \cup {Nobody}]
              /\ result' \in [Documents -> Keys \cup {Nobody}] /\ graphics' \in SUBSET Keys
              /\ \A e \in Documents : result[e] # Nobody => result'[e] = result[e]
              /\ \E d \in Documents : result'[d] = k
              /\ DocsTypeOK' /\ DocumentsReferToFiles' /\ ReferencesDistinct' /\ RowsMatch'
  <2>1. PICK d \in Documents : d = thread[p].doc
    BY <1>1, <1>10 DEF InsertResult, Handled
  <2>2. /\ attempt[d] = "running" /\ state[d] # "signed"
        /\ state' = [state EXCEPT ![d] = "signed"] /\ attempt' = [attempt EXCEPT ![d] = "none"]
        /\ owner' = owner
        /\ result' = [result EXCEPT ![d] = k] /\ UNCHANGED <<original, graphics>>
    BY <1>10, <2>1 DEF InsertResult, Docs!Succeed
  <2>3. /\ result' \in [Documents -> Keys \cup {Nobody}] /\ result'[d] = k
        /\ \A e \in Documents \ {d} : result'[e] = result[e]
        /\ state'[d] = "signed" /\ \A e \in Documents \ {d} : state'[e] = state[e]
        /\ attempt'[d] = "none" /\ \A e \in Documents \ {d} : attempt'[e] = attempt[e]
    BY <1>1, <2>2 DEF TypeOK, DocsTypeOK
  <2>4. DocsTypeOK'
    BY <1>1, <2>2 DEF DocsTypeOK, DocState, Living
  <2>5. original[d] # Nobody /\ result[d] = Nobody /\ state[d] \in Living
    BY <1>1, <2>2 DEF DocumentsReferToFiles
  <2>6. DocumentsReferToFiles'
    BY <1>1, <2>2, <2>3, <2>5 DEF DocumentsReferToFiles, Living
  <2>7. ReferencesDistinct'
    BY <1>1, <1>6, <2>2, <2>3 DEF ReferencesDistinct
  <2>8. \A x \in Keys : x \in Referenced' <=> x \in Referenced \/ x = k
    BY <1>1, <2>2, <2>3, <2>5 DEF Referenced
  <2> QED
    BY <1>1, <1>7, <2>2, <2>3, <2>4, <2>5, <2>6, <2>7, <2>8 DEF TypeOK
<1> QED
  BY <1>2, <1>3, <1>4, <1>8, <1>9, <1>10 DEF InsertRow

LEMMA CommitKeeps ==
    ASSUME BlobInv, NEW p \in Threads, Commit(p) \/ AnswerLost(p)
    PROVE  BlobInv'
<1>1. TypeOK /\ Handled(p) /\ InsertRow(p) /\ UNCHANGED crashes
  BY DEF BlobInv, AllHandled, Commit, AnswerLost
<1>2. thread[p].pc \in {"stored", "flushed"}
  BY <1>1 DEF InsertRow, InsertDocument, InsertVersion, InsertResult
<1>3. PICK k \in Keys : k = thread[p].key /\ blob[k] = "none"
  BY <1>2, HasKey DEF Storing
<1>4. Insert(k)
  BY <1>3 DEF Commit, AnswerLost
<1>5. /\ InPlace(file[k])
      /\ \A q \in Threads \ {p} : thread[q].key # k
      /\ blob' \in [Keys -> {"none", "stored", "deleted"}] /\ blob'[k] = "stored"
      /\ \A x \in Keys \ {k} : blob'[x] = blob[x]
      /\ original' \in [Documents -> Keys \cup {Nobody}]
      /\ result' \in [Documents -> Keys \cup {Nobody}] /\ graphics' \in SUBSET Keys
      /\ \A d \in Documents : result[d] # Nobody => result'[d] = result[d]
      /\ thread[p].op = "result" => \E d \in Documents : result'[d] = k
      /\ DocsTypeOK' /\ DocumentsReferToFiles' /\ ReferencesDistinct' /\ RowsMatch'
  BY <1>1, <1>3, <1>4, InsertRowEffect
<1>6. \/ UNCHANGED <<file, mishap>> /\ Leave(p)
      \/ /\ Unlink(k) /\ Befalls(k, "answer")
         /\ Leave(p) \/ (thread[p].op = "result" /\ Move(p, "failing"))
  <2>1. CASE Commit(p)
    BY <2>1 DEF Commit
  <2>2. CASE AnswerLost(p)
    BY <1>3, <2>2 DEF AnswerLost
  <2> QED
    BY <2>1, <2>2
<1>7. CASE UNCHANGED <<file, mishap>> /\ Leave(p)
  <2>1. /\ thread' \in [Threads -> ThreadState]
        /\ thread'[p].key = Nobody
        /\ \A q \in Threads \ {p} : thread'[q] = thread[q]
        /\ Handled(p)'
    BY <1>1, <1>7, LeaveEffect
  <2>2. TypeOK'
    BY <1>1, <1>5, <1>7, <2>1 DEF TypeOK
  <2> QED
    BY <1>3, <1>5, <1>7, <2>1, <2>2, StepKeeps
<1>8. CASE /\ Unlink(k) /\ Befalls(k, "answer")
           /\ Leave(p) \/ (thread[p].op = "result" /\ Move(p, "failing"))
  <2>1. /\ file' \in [Keys -> FileState] /\ ~OnDisk(k)'
        /\ \A x \in Keys \ {k} : file'[x] = file[x]
        /\ mishap' \in [Keys -> SUBSET {"power", "answer", "early", "unclean"}]
        /\ "answer" \in mishap'[k]
        /\ \A x \in Keys : mishap[x] \subseteq mishap'[x]
    BY <1>1, <1>8, UnlinkEffect, BefallsEffect
  <2>2. /\ thread' \in [Threads -> ThreadState]
        /\ thread'[p].key \in {k, Nobody}
        /\ \A q \in Threads \ {p} : thread'[q] = thread[q]
        /\ Handled(p)'
    <3>1. CASE Leave(p)
      BY <1>1, <3>1, LeaveEffect
    <3>2. CASE thread[p].op = "result" /\ Move(p, "failing")
      <4>1. /\ thread' \in [Threads -> ThreadState]
            /\ thread'[p].pc = "failing" /\ thread'[p].op = "result"
            /\ thread'[p].key = k /\ thread'[p].doc = thread[p].doc
            /\ \A q \in Threads \ {p} : thread'[q] = thread[q]
        BY <1>1, <1>3, <3>2, MoveEffect DEF Steps
      <4>2. ~OnDisk(thread[p].key)' /\ thread[p].doc \in Documents
        BY <1>1, <2>1, <3>2, <4>1 DEF OnDisk, Handled
      <4>3. Handled(p)'
        BY <1>5, <3>2, <4>1, <4>2 DEF Handled, Storing
      <4> QED
        BY <4>1, <4>3
    <3> QED
      BY <1>8, <3>1, <3>2
  <2>3. TypeOK'
    BY <1>1, <1>5, <2>1, <2>2 DEF TypeOK
  <2> QED
    BY <1>3, <1>5, <2>1, <2>2, <2>3, StepKeeps
<1> QED
  BY <1>6, <1>7, <1>8

-----------------------------------------------------------------------------
(* Steps of the documents alone *)

\* Attempts come and go: no row of a file changes.
LEMMA FailEffect ==
    ASSUME DocsTypeOK, DocumentsReferToFiles, UNCHANGED <<original, result>>,
           NEW D \in SUBSET Documents, Docs!Fail(D)
    PROVE  DocsTypeOK' /\ DocumentsReferToFiles'
<1>1. /\ \A d \in D : attempt[d] = "running"
      /\ \A d \in Documents : /\ state'[d] = IF d \in D /\ state[d] # "signed"
                                             THEN "signing_failed" ELSE state[d]
                              /\ attempt'[d] = IF d \in D THEN "none" ELSE attempt[d]
      /\ owner' = owner
  BY DEF Docs!Fail
<1>2. DocsTypeOK'
  BY DEF DocsTypeOK, Docs!Fail, DocState, Living
<1>3. ASSUME NEW d \in Documents
      PROVE  /\ original'[d] # Nobody <=> state'[d] \in Living
             /\ result'[d] # Nobody <=> state'[d] = "signed"
             /\ attempt'[d] # "none" => state'[d] \in Living
  <2>1. /\ original[d] # Nobody <=> state[d] \in Living
        /\ result[d] # Nobody <=> state[d] = "signed"
        /\ attempt[d] # "none" => state[d] \in Living
        /\ original'[d] = original[d] /\ result'[d] = result[d]
    BY DEF DocumentsReferToFiles
  <2>2. CASE d \in D
    BY <1>1, <2>1, <2>2 DEF Living
  <2>3. CASE d \notin D
    BY <1>1, <2>1, <2>3
  <2> QED
    BY <2>2, <2>3
<1> QED
  BY <1>2, <1>3 DEF DocumentsReferToFiles

LEMMA DocsStep ==
    ASSUME BlobInv, DocsTypeOK', DocumentsReferToFiles',
           UNCHANGED <<original, result, graphics, blob, file, thread, mishap, crashes>>
    PROVE  BlobInv'
<1>1. TypeOK' /\ ReferencesDistinct' /\ RowsMatch' /\ Durable' /\ KeysDistinct'
  BY DEF BlobInv, TypeOK, ReferencesDistinct, RowsMatch, Referenced, Durable, KeysDistinct
<1>2. NoLeftover'
  BY DEF BlobInv, NoLeftover, OnDisk, InHand
<1>3. AllHandled'
  BY DEF BlobInv, AllHandled, Handled, OnDisk
<1> QED
  BY <1>1, <1>2, <1>3 DEF BlobInv

LEMMA RequestSignatureKeeps ==
    ASSUME BlobInv, NEW d \in Documents, RequestSignature(d)
    PROVE  BlobInv'
<1>1. DocsTypeOK /\ DocumentsReferToFiles
  BY DEF BlobInv
<1>2. /\ d \in Docs!Here /\ attempt' = [attempt EXCEPT ![d] = "queued"]
      /\ UNCHANGED <<state, owner, original, result>>
  BY DEF RequestSignature, Docs!Request, Docs!Free
<1>3. DocsTypeOK'
  BY <1>1, <1>2 DEF DocsTypeOK
<1>4. state[d] \in Living
  BY <1>2 DEF Docs!Here, Living
<1>5. DocumentsReferToFiles'
  BY <1>1, <1>2, <1>4 DEF DocumentsReferToFiles, DocsTypeOK
<1> QED
  BY <1>3, <1>5, DocsStep DEF RequestSignature

\* The worker's step that changes attempts and its own memory, and no file.
LEMMA WorkerStepKeeps ==
    ASSUME BlobInv, Worker \in Threads, DocsTypeOK', DocumentsReferToFiles',
           UNCHANGED <<original, result, graphics, blob, file, mishap, crashes>>,
           thread' \in [Threads -> ThreadState],
           \A q \in Threads \ {Worker} : thread'[q] = thread[q],
           thread[Worker].pc \in {"idle", "failing"}, thread'[Worker].key = Nobody,
           Handled(Worker)'
    PROVE  BlobInv'
<1>1. TypeOK /\ Handled(Worker) /\ KeysDistinct /\ Durable /\ NoLeftover
  BY DEF BlobInv, AllHandled
<1>2. TypeOK' /\ ReferencesDistinct' /\ RowsMatch'
  BY <1>1 DEF BlobInv, TypeOK, ReferencesDistinct, RowsMatch, Referenced
<1>3. PICK k \in Keys \cup {Nobody} : k = thread[Worker].key
  BY <1>1 DEF TypeOK, ThreadState
<1>4. ASSUME k \in Keys
      PROVE  /\ ~OnDisk(k)'
             /\ blob[k] = "stored" => InPlace(file[k]) \/ "answer" \in mishap[k]
             /\ \A q \in Threads \ {Worker} : thread[q].key # k
  <2>1. k # Nobody
    BY <1>4, StorageAssumption
  <2>2. ~OnDisk(k) /\ thread[Worker].pc = "failing"
    BY <1>1, <1>3, <2>1 DEF Handled
  <2>3. ~OnDisk(k)'
    BY <2>2 DEF OnDisk
  <2>4. \A q \in Threads \ {Worker} : thread[q].key # k
    BY <1>1, <1>3, <2>1, <2>2 DEF KeysDistinct
  <2> QED
    BY <1>1, <1>4, <2>3, <2>4 DEF Durable
<1> QED
  BY <1>1, <1>2, <1>3, <1>4, StepKeeps

LEMMA ClaimKeeps ==
    ASSUME BlobInv, NEW d \in Documents, Claim(d)
    PROVE  BlobInv'
<1>1. TypeOK /\ DocsTypeOK /\ DocumentsReferToFiles /\ Worker \in Threads
  BY DEF BlobInv, Threads
<1>2. /\ attempt[d] = "queued" /\ attempt' = [attempt EXCEPT ![d] = "running"]
      /\ UNCHANGED <<state, owner, original, result>>
  BY DEF Claim, Docs!Start
<1>3. DocsTypeOK'
  BY <1>1, <1>2 DEF DocsTypeOK
<1>4. DocumentsReferToFiles'
  BY <1>1, <1>2 DEF DocumentsReferToFiles, DocsTypeOK
<1>5. PICK t : t = [pc |-> "failing", op |-> "result", key |-> Nobody, doc |-> d]
  OBVIOUS
<1>6. /\ t \in ThreadState
      /\ t.pc = "failing" /\ t.op = "result" /\ t.key = Nobody /\ t.doc = d
  BY <1>5 DEF ThreadState, Steps, Ops
<1>7. thread' = [thread EXCEPT ![Worker] = t]
  BY <1>5 DEF Claim
<1>8. /\ thread' \in [Threads -> ThreadState] /\ thread'[Worker] = t
      /\ \A q \in Threads \ {Worker} : thread'[q] = thread[q]
  BY <1>1, <1>6, <1>7 DEF TypeOK
<1>9. Handled(Worker)'
  BY <1>6, <1>8 DEF Handled, Storing
<1>10. thread[Worker].pc = "idle"
  BY DEF Claim, Idle
<1> QED
  BY <1>1, <1>3, <1>4, <1>6, <1>8, <1>9, <1>10, WorkerStepKeeps DEF Claim

LEMMA RecordFailureKeeps ==
    ASSUME BlobInv, RecordFailure
    PROVE  BlobInv'
<1>1. TypeOK /\ DocsTypeOK /\ DocumentsReferToFiles /\ Worker \in Threads /\ Handled(Worker)
  BY DEF BlobInv, Threads, AllHandled
<1>2. PICK d \in Documents : d = thread[Worker].doc
  BY <1>1 DEF Handled, RecordFailure
<1>3. DocsTypeOK' /\ DocumentsReferToFiles'
  <2>1. UNCHANGED <<original, result>>
    BY DEF RecordFailure
  <2>2. CASE Docs!Fail({d})
    BY <1>1, <2>1, <2>2, FailEffect
  <2>3. CASE UNCHANGED docVars
    BY <1>1, <2>1, <2>3 DEF docVars, DocsTypeOK, DocumentsReferToFiles
  <2> QED
    BY <1>2, <2>2, <2>3 DEF RecordFailure
<1>4. /\ thread' \in [Threads -> ThreadState] /\ thread'[Worker].key = Nobody
      /\ \A q \in Threads \ {Worker} : thread'[q] = thread[q]
      /\ Handled(Worker)'
  BY <1>1, LeaveEffect DEF RecordFailure
<1> QED
  BY <1>1, <1>3, <1>4, WorkerStepKeeps DEF RecordFailure

LEMMA RefuseResultKeeps ==
    ASSUME BlobInv, RefuseResult
    PROVE  BlobInv'
<1>1. Worker \in Threads /\ thread[Worker].pc = "stored"
  BY DEF Threads, RefuseResult
<1>2. PICK k \in Keys : k = thread[Worker].key
  BY <1>1, HasKey DEF Storing
<1> QED
  BY <1>1, <1>2, GivesUp DEF RefuseResult, Storing

-----------------------------------------------------------------------------
(* Removals *)

\* The row of k goes, and p has k to unlink.
LEMMA RemovalKeeps ==
    ASSUME BlobInv, NEW p \in Requests, NEW k \in Keys, thread[p] = Idle, blob[k] = "stored",
           \A d \in Documents : result[d] # k,
           Mark(k), ToUnlink(p, k), UNCHANGED <<result, file, mishap, crashes>>,
           original' \in [Documents -> Keys \cup {Nobody}], graphics' \in SUBSET Keys,
           DocsTypeOK', DocumentsReferToFiles', ReferencesDistinct',
           \A x \in Keys : x \in Referenced' <=> x \in Referenced /\ x # k
    PROVE  BlobInv'
<1>1. TypeOK /\ RowsMatch /\ p \in Threads /\ p # Worker
  BY StorageAssumption DEF BlobInv, Threads
<1>2. PICK t : t = [Idle EXCEPT !.pc = "unlink", !.key = k]
  OBVIOUS
<1>3. /\ t \in ThreadState
      /\ t.pc = "unlink" /\ t.op = "none" /\ t.key = k
  <2>1. t = [pc |-> "unlink", op |-> "none", key |-> k, doc |-> Nobody]
    BY <1>2 DEF Idle
  <2> QED
    BY <2>1 DEF ThreadState, Steps
<1>4. thread' = [thread EXCEPT ![p] = t]
  BY <1>2 DEF ToUnlink
<1>5. /\ thread' \in [Threads -> ThreadState] /\ thread'[p] = t
      /\ \A q \in Threads \ {p} : thread'[q] = thread[q]
  BY <1>1, <1>3, <1>4 DEF TypeOK
<1>6. /\ blob' \in [Keys -> {"none", "stored", "deleted"}] /\ blob'[k] = "deleted"
      /\ \A x \in Keys \ {k} : blob'[x] = blob[x]
  BY <1>1 DEF TypeOK, Mark
<1>7. TypeOK'
  BY <1>1, <1>5, <1>6 DEF TypeOK
<1>8. RowsMatch'
  BY <1>1, <1>6 DEF RowsMatch
<1>9. \A q \in Threads : thread[q].key # k
  BY RemovableInNoHand
<1>10. Handled(p)'
  BY <1>1, <1>3, <1>5, <1>6 DEF Handled, Storing
<1>11. thread[p].key = Nobody
  BY DEF Idle
<1> QED
  BY <1>1, <1>3, <1>5, <1>6, <1>7, <1>8, <1>9, <1>10, <1>11, StepKeeps

LEMMA DeleteDocumentKeeps ==
    ASSUME BlobInv, NEW p \in Threads, NEW d \in Documents, DeleteDocument(p, d)
    PROVE  BlobInv'
<1>1. /\ TypeOK /\ DocsTypeOK /\ DocumentsReferToFiles /\ ReferencesDistinct /\ RowsMatch
      /\ Nobody \notin Keys
  BY StorageAssumption DEF BlobInv
<1>2. /\ p \in Requests /\ thread[p] = Idle
      /\ state[d] \in Living /\ state[d] # "signed" /\ attempt[d] = "none"
      /\ state' = [state EXCEPT ![d] = "deleted"] /\ UNCHANGED <<owner, attempt>>
      /\ original' = [original EXCEPT ![d] = Nobody]
      /\ UNCHANGED <<result, graphics, file, mishap, crashes>>
  BY DEF DeleteDocument, Docs!Delete, Docs!Free, Docs!Here, Living
<1>3. PICK k \in Keys : k = original[d]
  BY <1>1, <1>2 DEF TypeOK, DocumentsReferToFiles
<1>4. Mark(k) /\ ToUnlink(p, k)
  BY <1>3 DEF DeleteDocument
<1>5. /\ k # Nobody /\ k \notin graphics
      /\ \A e \in Documents : result[e] # k /\ (e # d => original[e] # k)
  BY <1>1, <1>3 DEF ReferencesDistinct
<1>6. k \in Referenced
  BY <1>3 DEF Referenced
<1>7. blob[k] = "stored"
  BY <1>1, <1>6 DEF RowsMatch
<1>8. /\ original' \in [Documents -> Keys \cup {Nobody}] /\ original'[d] = Nobody
      /\ \A e \in Documents \ {d} : original'[e] = original[e]
      /\ state'[d] = "deleted" /\ \A e \in Documents \ {d} : state'[e] = state[e]
  BY <1>1, <1>2 DEF TypeOK, DocsTypeOK
<1>9. DocsTypeOK'
  BY <1>1, <1>2 DEF DocsTypeOK, DocState, Living
<1>10. DocumentsReferToFiles'
  <2>1. result[d] = Nobody
    BY <1>1, <1>2 DEF DocumentsReferToFiles
  <2> QED
    BY <1>1, <1>2, <1>8, <2>1 DEF DocumentsReferToFiles, Living
<1>11. ReferencesDistinct'
  BY <1>1, <1>2, <1>8 DEF ReferencesDistinct, TypeOK
<1>12. \A x \in Keys : x \in Referenced' <=> x \in Referenced /\ x # k
  <2>1. \A x \in Keys : (\E e \in Documents : original'[e] = x)
                        <=> (\E e \in Documents : original[e] = x) /\ x # k
    BY <1>1, <1>3, <1>5, <1>8
  <2>2. \A e \in Documents : result[e] # k
    BY <1>5
  <2> QED
    BY <1>2, <1>5, <2>1, <2>2 DEF Referenced
<1>13. graphics' \in SUBSET Keys
  BY <1>1, <1>2 DEF TypeOK
<1>14. \A e \in Documents : result[e] # k
  BY <1>5
<1>15. original' \in [Documents -> Keys \cup {Nobody}]
  BY <1>8
<1>16. p \in Requests /\ thread[p] = Idle /\ UNCHANGED <<result, file, mishap, crashes>>
  BY <1>2
<1> QED
  BY <1>4, <1>7, <1>9, <1>10, <1>11, <1>12, <1>13, <1>14, <1>15, <1>16, RemovalKeeps

LEMMA DeleteVersionKeeps ==
    ASSUME BlobInv, NEW p \in Threads, NEW k \in Keys, DeleteVersion(p, k)
    PROVE  BlobInv'
<1>1. /\ TypeOK /\ DocsTypeOK /\ DocumentsReferToFiles /\ ReferencesDistinct /\ RowsMatch
  BY DEF BlobInv
<1>2. /\ p \in Requests /\ thread[p] = Idle /\ k \in graphics
      /\ graphics' = graphics \ {k} /\ Mark(k) /\ ToUnlink(p, k)
      /\ UNCHANGED <<state, owner, attempt, original, result, file, mishap, crashes>>
  BY DEF DeleteVersion, docVars
<1>3. \A e \in Documents : result[e] # k /\ original[e] # k
  BY <1>1, <1>2 DEF ReferencesDistinct
<1>4. k \in Referenced
  BY <1>2 DEF Referenced
<1>5. blob[k] = "stored"
  BY <1>1, <1>4 DEF RowsMatch
<1>6. DocsTypeOK' /\ DocumentsReferToFiles' /\ ReferencesDistinct'
  BY <1>1, <1>2 DEF DocsTypeOK, DocumentsReferToFiles, ReferencesDistinct
<1>7. graphics' \in SUBSET Keys /\ original' \in [Documents -> Keys \cup {Nobody}]
  BY <1>1, <1>2 DEF TypeOK
<1>8. \A x \in Keys : x \in Referenced' <=> x \in Referenced /\ x # k
  BY <1>2, <1>3 DEF Referenced
<1> QED
  BY <1>2, <1>3, <1>5, <1>6, <1>7, <1>8, RemovalKeeps

-----------------------------------------------------------------------------
(* Power loss *)

\* What was synced under its name is there after a power loss.
LEMMA RemainsEffect ==
    ASSUME NEW f \in FileState
    PROVE  /\ Remains(f) \subseteq FileState
           /\ InPlace(f) => Remains(f) = {f}
           /\ f.at = "nowhere" => Remains(f) = {NoFile}
<1> DEFINE Left(a, b) == [at |-> a, data |-> b, entry |-> TRUE, gone |-> FALSE]
<1>1. NoFile \in FileState
  BY DEF NoFile, FileState
<1>2. /\ f.at \in {"nowhere", "tmp", "target"} /\ f.data \in {"partial", "whole", "synced"}
      /\ f = [at |-> f.at, data |-> f.data, entry |-> f.entry, gone |-> f.gone]
      /\ f.entry \in BOOLEAN /\ f.gone \in BOOLEAN
  BY DEF FileState
<1>3. Remains(f) \subseteq FileState
  <2>1. ASSUME NEW a \in {"nowhere", "tmp", "target"}, NEW b \in {"partial", "whole", "synced"}
        PROVE  Left(a, b) \in FileState
    BY DEF FileState
  <2>2. CASE f.at = "nowhere"
    BY <1>1, <2>2 DEF Remains
  <2>3. CASE f.at # "nowhere"
    <3>1. ASSUME NEW g \in Remains(f)
          PROVE  g \in FileState
      <4>1. \/ g = NoFile
            \/ \E a \in {"nowhere", "tmp", "target"}, b \in {"partial", "whole", "synced"} :
                  g = Left(a, b)
        BY <1>2, <2>3, <3>1 DEF Remains
      <4> QED
        BY <1>1, <2>1, <4>1
    <3> QED
      BY <3>1
  <2> QED
    BY <2>2, <2>3
<1>4. ASSUME InPlace(f) PROVE Remains(f) = {f}
  <2>1. f.at = "target" /\ f.data = "synced" /\ f.entry = TRUE /\ f.gone = FALSE
    BY <1>2, <1>4 DEF InPlace
  <2>2. f = Left("target", "synced")
    BY <1>2, <2>1
  <2>3. Remains(f) = {Left(a, b) : a \in {"target"}, b \in {"synced"}}
    BY <2>1 DEF Remains
  <2> QED
    BY <2>2, <2>3
<1>5. f.at = "nowhere" => Remains(f) = {NoFile}
  BY DEF Remains
<1> QED
  BY <1>3, <1>4, <1>5

LEMMA PowerLossKeeps ==
    ASSUME BlobInv, PowerLoss
    PROVE  BlobInv'
<1>1. /\ TypeOK /\ DocsTypeOK /\ DocumentsReferToFiles /\ ReferencesDistinct /\ RowsMatch
      /\ Durable /\ NoLeftover /\ crashes' \in 0..MaxCrashes
      /\ UNCHANGED <<original, result, graphics, blob>>
  BY StorageAssumption DEF BlobInv, TypeOK, PowerLoss
<1>2. \A x \in Keys : file'[x] \in Remains(file[x]) /\ file[x] \in FileState
  BY <1>1 DEF PowerLoss, TypeOK
<1>3. file' \in [Keys -> FileState]
  <2>1. \A x \in Keys : file'[x] \in FileState
    BY <1>2, RemainsEffect
  <2>2. \E rest \in [Keys -> UNION {Remains(file[k]) : k \in Keys}] : file' = rest
    BY DEF PowerLoss
  <2> QED
    BY <2>1, <2>2
<1>4. \A p \in Threads : thread'[p] = Idle
  BY DEF PowerLoss
<1>5. Idle \in ThreadState /\ Idle.pc = "idle" /\ Idle.key = Nobody /\ Idle.op = "none"
  BY DEF Idle, ThreadState, Ops
<1>6. thread' \in [Threads -> ThreadState]
  BY <1>5 DEF PowerLoss
<1>7. \A x \in Keys : mishap'[x] = IF InHand(x) \/ file[x].gone
                              THEN mishap[x] \cup {"power"} ELSE mishap[x]
  BY DEF PowerLoss
<1>8. mishap' \in [Keys -> SUBSET {"power", "answer", "early", "unclean"}]
  <2>1. \A x \in Keys : mishap'[x] \in SUBSET {"power", "answer", "early", "unclean"}
    BY <1>1, <1>7 DEF TypeOK
  <2>2. mishap' = [k \in Keys |-> IF InHand(k) \/ file[k].gone
                                THEN mishap[k] \cup {"power"} ELSE mishap[k]]
    BY DEF PowerLoss
  <2> QED
    BY <2>1, <2>2
<1>9. TypeOK' /\ ReferencesDistinct' /\ RowsMatch'
  BY <1>1, <1>3, <1>6, <1>8 DEF TypeOK, ReferencesDistinct, RowsMatch, Referenced
<1>10. DocsTypeOK' /\ DocumentsReferToFiles'
  BY <1>1, FailEffect DEF PowerLoss
<1>11. Durable'
  <2>1. ASSUME NEW x \in Keys, blob'[x] = "stored"
        PROVE  InPlace(file'[x]) \/ "answer" \in mishap'[x]
    <3>1. InPlace(file[x]) \/ "answer" \in mishap[x]
      BY <1>1, <2>1 DEF Durable
    <3>2. InPlace(file[x]) => file'[x] = file[x]
      BY <1>2, RemainsEffect
    <3>3. "answer" \in mishap[x] => "answer" \in mishap'[x]
      BY <1>7
    <3> QED
      BY <3>1, <3>2, <3>3
  <2> QED
    BY <2>1 DEF Durable
<1>12. NoLeftover'
  <2>1. ASSUME NEW x \in Keys, OnDisk(x)'
        PROVE  blob'[x] = "stored" \/ mishap'[x] # {}
    <3>1. file'[x].at # "nowhere"
      BY <2>1 DEF OnDisk
    <3>2. NoFile.at = "nowhere"
      BY DEF NoFile
    <3>3. OnDisk(x) \/ file[x].gone
      BY <1>2, <3>1, <3>2, RemainsEffect DEF OnDisk
    <3>4. blob[x] = "stored" \/ InHand(x) \/ file[x].gone \/ mishap[x] # {}
      BY <1>1, <3>3 DEF NoLeftover
    <3> QED
      BY <1>1, <1>7, <3>4
  <2> QED
    BY <2>1 DEF NoLeftover, OnDisk, InHand
<1>13. KeysDistinct'
  BY <1>4, <1>5 DEF KeysDistinct
<1>14. AllHandled'
  <2>1. ASSUME NEW p \in Threads PROVE Handled(p)'
    BY <1>4, <1>5 DEF Handled, Storing
  <2> QED
    BY <2>1 DEF AllHandled
<1> QED
  BY <1>9, <1>10, <1>11, <1>12, <1>13, <1>14 DEF BlobInv

-----------------------------------------------------------------------------
(* Every step, and what follows *)

LEMMA BlobStep ==
    ASSUME BlobInv, [Next]_vars
    PROVE  BlobInv'
<1>1. CASE UNCHANGED vars
  <2>1. /\ UNCHANGED <<state, owner, attempt>>
        /\ UNCHANGED <<original, result, graphics, blob, file, thread, mishap, crashes>>
    BY <1>1 DEF vars, rowVars, docVars
  <2>2. DocsTypeOK' /\ DocumentsReferToFiles'
    BY <2>1 DEF BlobInv, DocsTypeOK, DocumentsReferToFiles
  <2> QED
    BY <2>1, <2>2, DocsStep
<1>2. ASSUME NEW p \in Threads,
             \/ WritePart(p) \/ SyncPart(p) \/ RenamePart(p) \/ SyncDirectory(p)
             \/ StoreRaises(p) \/ CommitRaises(p) \/ CommitRaisesElse(p)
             \/ FlushUpload(p) \/ FlushUploadRaises(p)
             \/ DeleteFile(p) \/ DeleteAnswerLost(p) \/ UnlinkRaises(p)
             \/ Commit(p) \/ AnswerLost(p)
      PROVE  BlobInv'
  BY <1>2, StoringKeeps, GivingUpKeeps, FlushUploadKeeps, CommitKeeps
<1>3. ASSUME NEW p \in Threads, NEW k \in Keys,
             (\E op \in Ops : StoreUpload(p, op, k)) \/ DeleteVersion(p, k)
      PROVE  BlobInv'
  BY <1>3, StoreUploadKeeps, DeleteVersionKeeps
<1>4. ASSUME NEW p \in Threads, NEW d \in Documents, DeleteDocument(p, d)
      PROVE  BlobInv'
  BY <1>4, DeleteDocumentKeeps
<1>5. ASSUME NEW d \in Documents, RequestSignature(d) \/ Claim(d)
      PROVE  BlobInv'
  BY <1>5, RequestSignatureKeeps, ClaimKeeps
<1>6. ASSUME NEW k \in Keys, StoreResult(k)
      PROVE  BlobInv'
  BY <1>6, StoreResultKeeps
<1>7. CASE RefuseResult \/ RecordFailure \/ PowerLoss
  BY <1>7, RefuseResultKeeps, RecordFailureKeeps, PowerLossKeeps
<1> QED
  BY <1>1, <1>2, <1>3, <1>4, <1>5, <1>6, <1>7 DEF Next

\* Rows, files and handlers agree at every step, power losses included: the
\* order of fsync, rename, commit and unlink (storage.py, documents.py).
THEOREM BlobsAreSafe == Spec => []BlobInv
<1>1. Init => BlobInv
  BY BlobInit
<1>2. BlobInv /\ [Next]_vars => BlobInv'
  BY BlobStep
<1> QED
  BY <1>1, <1>2, PTL DEF Spec

\* A row that says STORED is referred to, and its file is whole under its name,
\* whatever was interrupted: only a lost answer of a commit can take it away
\* (models.py BlobState, storage.py).
THEOREM RowsHaveFiles == Spec => []StoredHasFile
<1>1. BlobInv => StoredHasFile
  <2> SUFFICES ASSUME BlobInv, NEW k \in Keys
               PROVE  /\ blob[k] = "stored" <=> k \in Referenced
                      /\ blob[k] = "stored" => Readable(k) \/ "answer" \in mishap[k]
    BY DEF StoredHasFile, Referenced
  <2>1. InPlace(file[k]) => Readable(k)
    BY DEF InPlace, Readable
  <2> QED
    BY <2>1 DEF BlobInv, RowsMatch, Durable
<1> QED
  BY <1>1, BlobsAreSafe, PTL

\* A file without a row is in a handler's hands or met a mishap: the power went
\* while it was in hand or after its unlink, an error fell outside the handler's
\* try, storage.delete raised, or a removal's answer was lost.  Every other error
\* of documents.py, graphics.py and signature_service.py leaves no file behind.
THEOREM NothingIsLeftOver == Spec => []NoLeftover
<1>1. BlobInv => NoLeftover
  BY DEF BlobInv
<1> QED
  BY <1>1, BlobsAreSafe, PTL
=============================================================================
