----------------------------- MODULE BlobStorage -----------------------------
(***************************************************************************)
(* The files of Signur and the rows that name them.  A file is written     *)
(* under .tmp, synced, renamed into place, its directory synced, and only  *)
(* then is the row that names it committed; a removal commits the rows     *)
(* first and unlinks the file afterwards.  Nothing ties the two together   *)
(* but that order and the clean-up each handler does when its commit fails.*)
(*                                                                         *)
(* Documents live as DocumentLifecycle says, which SigningWorkflow         *)
(* implements: here its steps are the commits, and the work on files comes *)
(* between them.  mishap[k] records what befell a file that no handler     *)
(* could put right.                                                        *)
(***************************************************************************)
EXTENDS Naturals, FiniteSets

CONSTANTS Documents, Users, Nobody,
          Keys,        \* storage keys: fresh random names, never used twice
          Requests,    \* request threads
          Worker,      \* the signature worker
          Faults,      \* which things go wrong, of FaultKinds
          MaxCrashes   \* bound of the model

FaultKinds == {"power",   \* the machine stops
               "disk",    \* a write, an fsync or a rename raises; or the input is refused
               "commit",  \* a commit raises and has done nothing
               "answer",  \* a commit raises although the database has done it
               "unlink",  \* storage.delete raises
               "early"}   \* upload_document raises before its try

ASSUME StorageAssumption ==
    /\ Faults \subseteq FaultKinds
    /\ MaxCrashes \in Nat
    /\ Nobody \notin Documents \cup Users \cup Keys
    /\ Worker \notin Requests

VARIABLES
    state, owner, attempt,  \* the documents, as DocumentLifecycle has them
    original,  \* documents.original_blob
    result,    \* signed_artifacts.blob of a document
    graphics,  \* the keys of the graphic_signature_versions rows
    blob,      \* blobs.state of the row with a key
    file,      \* the file with a key
    thread,    \* the handlers in progress, in memory
    mishap,    \* what befell a key: history
    crashes    \* power losses so far

docVars == <<state, owner, attempt>>
rowVars == <<docVars, original, result, graphics, blob>>
vars    == <<rowVars, file, thread, mishap, crashes>>

Docs == INSTANCE DocumentLifecycle

-----------------------------------------------------------------------------
(* Types *)

Threads == Requests \cup {Worker}
Ops     == {"upload", "graphic", "version", "result"}
Storing == {"writing", "written", "synced", "renamed", "stored"}
Steps   == Storing \cup {"flushed", "failing", "unlink"}

ThreadState == [pc : Steps \cup {"idle"}, op : Ops \cup {"none"},
                key : Keys \cup {Nobody}, doc : Documents \cup {Nobody}]
Idle == [pc |-> "idle", op |-> "none", key |-> Nobody, doc |-> Nobody]

\* entry: its name is on disk; gone: it was unlinked, which nobody syncs.
FileState == [at : {"nowhere", "tmp", "target"}, data : {"partial", "whole", "synced"},
              entry : BOOLEAN, gone : BOOLEAN]
NoFile == [at |-> "nowhere", data |-> "partial", entry |-> FALSE, gone |-> FALSE]
NewPart == [at |-> "tmp", data |-> "partial", entry |-> FALSE, gone |-> FALSE]

TypeOK ==
    /\ original \in [Documents -> Keys \cup {Nobody}]
    /\ result \in [Documents -> Keys \cup {Nobody}]
    /\ graphics \in SUBSET Keys
    /\ blob \in [Keys -> {"none", "stored", "deleted"}]
    /\ file \in [Keys -> FileState]
    /\ thread \in [Threads -> ThreadState]
    /\ mishap \in [Keys -> SUBSET {"power", "answer", "early", "unclean"}]
    /\ crashes \in 0..MaxCrashes

-----------------------------------------------------------------------------
(* Files *)

OnDisk(k)   == file[k].at # "nowhere" /\ ~file[k].gone
\* Path.is_file() of path_for(key), all of its bytes there.
Readable(k) == file[k].at = "target" /\ file[k].data # "partial" /\ ~file[k].gone
InHand(k)   == \E p \in Threads : thread[p].key = k

Fresh(k) == blob[k] = "none" /\ file[k] = NoFile /\ ~InHand(k) /\ mishap[k] = {}

Move(p, step) == thread' = [thread EXCEPT ![p].pc = step]
Leave(p)      == thread' = [thread EXCEPT ![p] = Idle]
SetFile(k, f) == file' = [file EXCEPT ![k] = f]
\* Path.unlink(missing_ok=True); the directory is not synced.
Unlink(k)     == SetFile(k, IF OnDisk(k) THEN [file[k] EXCEPT !.gone = TRUE] ELSE file[k])
Befalls(k, what) == mishap' = [mishap EXCEPT ![k] = @ \cup {what}]

\* store_upload, store_bytes: a new key, and "<key>.part" is created.
OpenPart(p, op, k, d) ==
    /\ thread[p] = Idle
    /\ Fresh(k)
    /\ thread' = [thread EXCEPT ![p] = [pc |-> "writing", op |-> op, key |-> k, doc |-> d]]
    /\ SetFile(k, NewPart)
    /\ UNCHANGED <<rowVars, mishap, crashes>>

\* A request stores an upload, a new graphic or a further version of one.
StoreUpload(p, op, k) ==
    /\ p \in Requests /\ op \in {"upload", "graphic", "version"}
    /\ OpenPart(p, op, k, Nobody)

WritePart(p) ==
    LET k == thread[p].key IN
    /\ thread[p].pc = "writing"
    /\ SetFile(k, [file[k] EXCEPT !.data = "whole"])
    /\ Move(p, "written")
    /\ UNCHANGED <<rowVars, mishap, crashes>>

\* Mutant of SyncPart: os.fsync forgotten, the bytes stay in the page cache.
FlushPart(p) ==
    /\ thread[p].pc = "written"
    /\ Move(p, "synced")
    /\ UNCHANGED <<rowVars, file, mishap, crashes>>

\* _commit_temporary: fsync of the temporary file.
SyncPart(p) ==
    LET k == thread[p].key IN
    /\ thread[p].pc = "written"
    /\ SetFile(k, [file[k] EXCEPT !.data = "synced"])
    /\ Move(p, "synced")
    /\ UNCHANGED <<rowVars, mishap, crashes>>

\* os.replace: the name is there for everybody, and on disk a little later.
RenamePart(p) ==
    LET k == thread[p].key IN
    /\ thread[p].pc = "synced"
    /\ SetFile(k, [file[k] EXCEPT !.at = "target", !.entry = FALSE])
    /\ Move(p, "renamed")
    /\ UNCHANGED <<rowVars, mishap, crashes>>

\* fsync of the directory.
SyncDirectory(p) ==
    LET k == thread[p].key IN
    /\ thread[p].pc = "renamed"
    /\ SetFile(k, [file[k] EXCEPT !.entry = TRUE])
    /\ Move(p, "stored")
    /\ UNCHANGED <<rowVars, mishap, crashes>>

\* The upload is empty or too large, the disk is full: both names are unlinked.
StoreRaises(p) ==
    /\ "disk" \in Faults
    /\ thread[p].pc \in Storing \ {"stored"}
    /\ Unlink(thread[p].key)
    /\ IF thread[p].op = "result" THEN Move(p, "failing") ELSE Leave(p)
    /\ UNCHANGED <<rowVars, mishap, crashes>>

-----------------------------------------------------------------------------
(* The commits that give a file its row *)

Insert(k) == blob' = [blob EXCEPT ![k] = "stored"]

\* upload_document: format detection and the first flush, outside the try.
FlushUpload(p) ==
    /\ thread[p].pc = "stored" /\ thread[p].op = "upload"
    /\ Move(p, "flushed")
    /\ UNCHANGED <<rowVars, file, mishap, crashes>>

FlushUploadRaises(p) ==
    /\ "early" \in Faults
    /\ thread[p].pc = "stored" /\ thread[p].op = "upload"
    /\ Befalls(thread[p].key, "early")
    /\ Leave(p)
    /\ UNCHANGED <<rowVars, file, crashes>>

\* The row of what p stored becomes visible.
InsertDocument(p, d, u) ==
    /\ thread[p].pc = "flushed"
    /\ Docs!Upload(d, u)
    /\ original' = [original EXCEPT ![d] = thread[p].key]
    /\ UNCHANGED <<result, graphics>>

InsertVersion(p) ==
    /\ thread[p].pc = "stored" /\ thread[p].op \in {"graphic", "version"}
    /\ graphics' = graphics \cup {thread[p].key}
    /\ UNCHANGED <<docVars, original, result>>

InsertResult(p) ==
    /\ thread[p].pc = "stored" /\ thread[p].op = "result"
    /\ Docs!Succeed(thread[p].doc)
    /\ result' = [result EXCEPT ![thread[p].doc] = thread[p].key]
    /\ UNCHANGED <<original, graphics>>

InsertRow(p) ==
    \/ \E d \in Documents, u \in Users : InsertDocument(p, d, u)
    \/ InsertVersion(p)
    \/ InsertResult(p)

Commit(p) ==
    /\ InsertRow(p)
    /\ Insert(thread[p].key)
    /\ Leave(p)
    /\ UNCHANGED <<file, mishap, crashes>>

AtCommit(p) ==
    \/ thread[p].pc = "flushed"
    \/ thread[p].pc = "stored" /\ thread[p].op # "upload"

\* Mutant of CommitRaises: the handler forgets storage.delete.
CommitRaisesUncleaned(p) ==
    /\ "commit" \in Faults
    /\ AtCommit(p)
    /\ IF thread[p].op = "result" THEN Move(p, "failing") ELSE Leave(p)
    /\ UNCHANGED <<rowVars, file, mishap, crashes>>

\* Rollback, and the handler removes what it stored.  create_graphic does it
\* for an IntegrityError alone: see CommitRaisesElse.
CommitRaises(p) ==
    /\ "commit" \in Faults
    /\ AtCommit(p)
    /\ Unlink(thread[p].key)
    /\ IF thread[p].op = "result" THEN Move(p, "failing") ELSE Leave(p)
    /\ UNCHANGED <<rowVars, mishap, crashes>>

\* create_graphic, any other error: the file stays.
CommitRaisesElse(p) ==
    /\ "commit" \in Faults
    /\ AtCommit(p) /\ thread[p].op = "graphic"
    /\ Befalls(thread[p].key, "unclean")
    /\ Leave(p)
    /\ UNCHANGED <<rowVars, file, crashes>>

\* The commit was done and its answer lost: the handler removes the file of a
\* row that exists, but for create_graphic, which does not know this error.
AnswerLost(p) ==
    LET k == thread[p].key IN
    /\ "answer" \in Faults
    /\ InsertRow(p)
    /\ Insert(k)
    /\ IF thread[p].op = "graphic" THEN UNCHANGED <<file, mishap>>
       ELSE Unlink(k) /\ Befalls(k, "answer")
    /\ IF thread[p].op = "result" THEN Move(p, "failing") ELSE Leave(p)
    /\ UNCHANGED crashes

-----------------------------------------------------------------------------
(* The worker *)

\* Requests and the claim: the attempts of DocumentLifecycle.
RequestSignature(d) ==
    /\ Docs!Request(d)
    /\ UNCHANGED <<original, result, graphics, blob, file, thread, mishap, crashes>>

Claim(d) ==
    /\ thread[Worker] = Idle
    /\ Docs!Start(d)
    /\ thread' = [thread EXCEPT ![Worker] =
          [pc |-> "failing", op |-> "result", key |-> Nobody, doc |-> d]]
    /\ UNCHANGED <<original, result, graphics, blob, file, mishap, crashes>>

\* The original is read, signed, and the result is stored.
StoreResult(k) ==
    LET d == thread[Worker].doc IN
    /\ thread[Worker].pc = "failing" /\ thread[Worker].key = Nobody
    /\ Readable(original[d])
    /\ Fresh(k)
    /\ thread' = [thread EXCEPT ![Worker] =
          [pc |-> "writing", op |-> "result", key |-> k, doc |-> d]]
    /\ SetFile(k, NewPart)
    /\ UNCHANGED <<rowVars, mishap, crashes>>

\* The document got signed meanwhile: the result is dropped.
RefuseResult ==
    /\ thread[Worker].pc = "stored"
    /\ state[thread[Worker].doc] = "signed"
    /\ Unlink(thread[Worker].key)
    /\ Move(Worker, "failing")
    /\ UNCHANGED <<rowVars, mishap, crashes>>

\* The except of process_claimed_signature: a running attempt becomes failed,
\* unless this second commit raises too.
RecordFailure ==
    LET d == thread[Worker].doc IN
    /\ thread[Worker].pc = "failing"
    /\ \/ attempt[d] = "running" /\ Docs!Fail({d})
       \/ (attempt[d] = "running" => "commit" \in Faults) /\ UNCHANGED docVars
    /\ Leave(Worker)
    /\ UNCHANGED <<original, result, graphics, blob, file, mishap, crashes>>

-----------------------------------------------------------------------------
(* Removals: the rows first *)

Mark(k) == blob' = [blob EXCEPT ![k] = "deleted"]

ToUnlink(p, k) ==
    thread' = [thread EXCEPT ![p] = [Idle EXCEPT !.pc = "unlink", !.key = k]]

\* delete_document up to its commit.
DeleteDocument(p, d) ==
    /\ p \in Requests /\ thread[p] = Idle
    /\ Docs!Delete(d)
    /\ original' = [original EXCEPT ![d] = Nobody]
    /\ Mark(original[d])
    /\ ToUnlink(p, original[d])
    /\ UNCHANGED <<result, graphics, file, mishap, crashes>>

\* delete_graphic_version up to its commit.
DeleteVersion(p, k) ==
    /\ p \in Requests /\ thread[p] = Idle
    /\ k \in graphics
    /\ graphics' = graphics \ {k}
    /\ Mark(k)
    /\ ToUnlink(p, k)
    /\ UNCHANGED <<docVars, original, result, file, mishap, crashes>>

\* The commit of a removal was done, its answer lost: nobody unlinks the file.
DeleteAnswerLost(p) ==
    /\ "answer" \in Faults
    /\ thread[p].pc = "unlink"
    /\ Befalls(thread[p].key, "unclean")
    /\ Leave(p)
    /\ UNCHANGED <<rowVars, file, crashes>>

\* storage.delete after the commit of a removal.
DeleteFile(p) ==
    /\ thread[p].pc = "unlink"
    /\ Unlink(thread[p].key)
    /\ Leave(p)
    /\ UNCHANGED <<rowVars, mishap, crashes>>

-----------------------------------------------------------------------------
(* storage.delete raises, power loss and restart *)

\* After a removal's commit, or in the except after a refused commit, where the
\* error goes on to the caller: the worker does not record its failure.
UnlinkRaises(p) ==
    /\ "unlink" \in Faults
    /\ \/ thread[p].pc = "unlink"
       \/ "commit" \in Faults /\ AtCommit(p)
    /\ Befalls(thread[p].key, "unclean")
    /\ Leave(p)
    /\ UNCHANGED <<rowVars, file, crashes>>

\* What may be left of a file: its name and its bytes, if they were synced.  One
\* that was unlinked may be back as it was.
Remains(f) ==
    IF f.at = "nowhere" THEN {NoFile}
    ELSE {[at |-> a, data |-> b, entry |-> TRUE, gone |-> FALSE] :
             a \in IF f.entry THEN {f.at} ELSE {"tmp", f.at},
             b \in IF f.data = "synced" THEN {"synced"} ELSE {"partial", f.data}}
         \cup IF f.entry /\ ~f.gone THEN {} ELSE {NoFile}

\* The handlers are gone; at the start the running attempts are closed.  The
\* removals under way had their rows committed.
PowerLoss ==
    /\ "power" \in Faults /\ crashes < MaxCrashes
    /\ crashes' = crashes + 1
    /\ \E rest \in [Keys -> UNION {Remains(file[k]) : k \in Keys}] :
          /\ \A k \in Keys : rest[k] \in Remains(file[k])
          /\ file' = rest
    /\ thread' = [p \in Threads |-> Idle]
    /\ mishap' = [k \in Keys |-> IF InHand(k) \/ file[k].gone
                                 THEN mishap[k] \cup {"power"} ELSE mishap[k]]
    /\ Docs!Fail({d \in Documents : attempt[d] = "running"})
    /\ UNCHANGED <<original, result, graphics, blob>>

-----------------------------------------------------------------------------

Init ==
    /\ Docs!Init
    /\ original = [d \in Documents |-> Nobody]
    /\ result = [d \in Documents |-> Nobody]
    /\ graphics = {}
    /\ blob = [k \in Keys |-> "none"]
    /\ file = [k \in Keys |-> NoFile]
    /\ thread = [p \in Threads |-> Idle]
    /\ mishap = [k \in Keys |-> {}]
    /\ crashes = 0

Next ==
    \/ \E p \in Threads :
          \/ WritePart(p) \/ SyncPart(p) \/ RenamePart(p) \/ SyncDirectory(p)
          \/ StoreRaises(p)
          \/ Commit(p) \/ CommitRaises(p) \/ CommitRaisesElse(p) \/ AnswerLost(p)
          \/ FlushUpload(p) \/ FlushUploadRaises(p)
          \/ DeleteFile(p) \/ DeleteAnswerLost(p) \/ UnlinkRaises(p)
          \/ \E k \in Keys :
                \/ \E op \in Ops : StoreUpload(p, op, k)
                \/ DeleteVersion(p, k)
          \/ \E d \in Documents : DeleteDocument(p, d)
    \/ \E d \in Documents : RequestSignature(d) \/ Claim(d)
    \/ \E k \in Keys : StoreResult(k)
    \/ RefuseResult \/ RecordFailure
    \/ PowerLoss

Spec == Init /\ [][Next]_vars

-----------------------------------------------------------------------------
(* Properties *)

\* A row says STORED exactly while something refers to it, and then its file is
\* whole under its name, whatever was interrupted: only a commit whose answer
\* was lost can take the file away from a row (models.py BlobState, storage.py).
StoredHasFile ==
    \A k \in Keys :
       /\ blob[k] = "stored" <=> k \in graphics \cup {original[d] : d \in Documents}
                                        \cup {result[d] : d \in Documents}
       /\ blob[k] = "stored" => Readable(k) \/ "answer" \in mishap[k]

\* A file without a row is in the hands of a handler, or something befell it that
\* no handler could put right: the power went while it was in hand, or after its
\* unlink, which no directory sync follows; upload_document raised before its try;
\* the commit of create_graphic failed with another error than IntegrityError;
\* storage.delete raised, or a removal's answer was lost.  Refused input, a full
\* disk and every other refused commit leave nothing behind.
NoLeftover ==
    \A k \in Keys : OnDisk(k) => blob[k] = "stored" \/ InHand(k) \/ mishap[k] # {}
=============================================================================
