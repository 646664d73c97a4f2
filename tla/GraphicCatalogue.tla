-------------------------- MODULE GraphicCatalogue --------------------------
(***************************************************************************)
(* The catalogue of graphic signatures: an entry and its numbered          *)
(* versions, edited by administrators in overlapping transactions while    *)
(* users place versions on the documents they send to be signed.           *)
(*                                                                         *)
(* With RowLocks (PostgreSQL) SELECT ... FOR UPDATE keeps rows until the   *)
(* transaction ends and an inserted placement needs the row it refers to.  *)
(* Without (SQLite, where the service enables neither) every statement     *)
(* sees what is committed then and a placement may refer to nothing.       *)
(***************************************************************************)
EXTENDS Naturals, FiniteSets

CONSTANTS Graphics, Versions, Attempts, Requests, RowLocks, None

ASSUME CatalogueAssumption ==
    /\ RowLocks \in BOOLEAN
    /\ None \notin Graphics \cup Versions \cup Attempts \cup Requests

VARIABLES
    graphic,  \* graphic_signatures
    version,  \* graphic_signature_versions
    placed,   \* the versions the placements of an attempt refer to
    lock,     \* the transaction that holds a row of either table
    req       \* the transactions in progress

dbVars == <<graphic, version, placed>>
vars   == <<dbVars, lock, req>>

-----------------------------------------------------------------------------

Row == {"unborn", "there", "gone"}
GraphicRow == [row : Row, active : BOOLEAN, current : Nat, order : Nat]
VersionRow == [row : Row, graphic : Graphics \cup {None}, number : Nat]
AttemptState == {"unborn", "there", "gone"}

Steps == {"upload_locked", "delete_locked", "delete_counted", "delete_loaded",
          "order_locked", "sign_chosen"}
RequestState == [pc : Steps \cup {"idle"}, graphic : Graphics \cup {None},
                 version : Versions \cup {None}, attempt : Attempts \cup {None},
                 current : Nat, rows : SUBSET (Graphics \cup Versions)]
NoRequest == [pc |-> "idle", graphic |-> None, version |-> None, attempt |-> None,
              current |-> 0, rows |-> {}]

TypeOK ==
    /\ graphic \in [Graphics -> GraphicRow]
    /\ version \in [Versions -> VersionRow]
    /\ placed \in [Attempts -> [row : AttemptState, versions : SUBSET Versions]]
    /\ lock \in [Graphics \cup Versions -> Requests \cup {None}]
    /\ req \in [Requests -> RequestState]

-----------------------------------------------------------------------------

Listed(g)     == graphic[g].row = "there"
Kept(v)       == version[v].row = "there"
VersionsOf(g) == {v \in Versions : Kept(v) /\ version[v].graphic = g}
Numbers(g)    == {version[v].number : v \in VersionsOf(g)}
PlacementsOf(v) == {j \in Attempts : placed[j].row = "there" /\ v \in placed[j].versions}

\* Mutant of Hold: the SELECT has no with_for_update().
HoldNothing(r, rows) == lock' = lock

\* FOR UPDATE of these rows does not wait; it keeps them until the answer.
Free(rows)    == RowLocks => \A x \in rows : lock[x] = None
Hold(r, rows) == lock' = IF RowLocks
                         THEN [x \in DOMAIN lock |-> IF x \in rows THEN r ELSE lock[x]]
                         ELSE lock
Release(r)    == lock' = [x \in DOMAIN lock |-> IF lock[x] = r THEN None ELSE lock[x]]
Answer(r)     == req' = [req EXCEPT ![r] = NoRequest] /\ Release(r)

-----------------------------------------------------------------------------
(* create_graphic, update_graphic: a single commit each *)

CreateGraphic(g, v) ==
    /\ graphic[g].row = "unborn" /\ version[v].row = "unborn"
    /\ graphic' = [graphic EXCEPT ![g] =
          [row |-> "there", active |-> TRUE, current |-> 1, order |-> 0]]
    /\ version' = [version EXCEPT ![v] = [row |-> "there", graphic |-> g, number |-> 1]]
    /\ UNCHANGED <<placed, lock, req>>

\* A taken name leaves everything as it is.
UpdateGraphic(g, active) ==
    /\ Listed(g) /\ Free({g})
    /\ graphic' = [graphic EXCEPT ![g].active = active]
    /\ UNCHANGED <<version, placed, lock, req>>

-----------------------------------------------------------------------------
(* upload_graphic_version *)

UploadLock(r, g) ==
    /\ req[r] = NoRequest
    /\ Listed(g) /\ Free({g})
    /\ Hold(r, {g})
    /\ req' = [req EXCEPT ![r] = [NoRequest EXCEPT !.pc = "upload_locked", !.graphic = g,
                                     !.current = graphic[g].current]]
    /\ UNCHANGED dbVars

\* The unique constraint refuses a number that is taken.
UploadCommit(r, v) ==
    LET g == req[r].graphic
        number == req[r].current + 1 IN
    /\ req[r].pc = "upload_locked"
    /\ version[v].row = "unborn"
    /\ Listed(g) /\ number \notin Numbers(g)
    /\ graphic' = [graphic EXCEPT ![g].current = number]
    /\ version' = [version EXCEPT ![v] = [row |-> "there", graphic |-> g, number |-> number]]
    /\ Answer(r)
    /\ UNCHANGED placed

-----------------------------------------------------------------------------
(* delete_graphic_version *)

\* The version is read FOR UPDATE, joined to its entry: both rows are held.
DeleteLock(r, v) ==
    LET g == version[v].graphic IN
    /\ req[r] = NoRequest
    /\ Kept(v) /\ Free({g, v})
    /\ Hold(r, {g, v})
    /\ req' = [req EXCEPT ![r] = [NoRequest EXCEPT !.pc = "delete_locked", !.graphic = g,
                                     !.version = v, !.current = graphic[g].current]]
    /\ UNCHANGED dbVars

\* Mutant of DeleteCount: the placements are not counted.
DeleteCountNothing(r) ==
    /\ req[r].pc = "delete_locked"
    /\ req' = [req EXCEPT ![r].pc = "delete_counted"]
    /\ UNCHANGED <<dbVars, lock>>

DeleteCount(r) ==
    /\ req[r].pc = "delete_locked"
    /\ PlacementsOf(req[r].version) = {}
    /\ req' = [req EXCEPT ![r].pc = "delete_counted"]
    /\ UNCHANGED <<dbVars, lock>>

DeleteReferenced(r) ==
    /\ req[r].pc = "delete_locked"
    /\ PlacementsOf(req[r].version) # {}
    /\ Answer(r)
    /\ UNCHANGED dbVars

\* The other versions are loaded; without any, session.delete(graphic) loads
\* what its cascade removes.
DeleteLoad(r) ==
    /\ req[r].pc = "delete_counted"
    /\ req' = [req EXCEPT ![r].pc = "delete_loaded",
                          ![r].rows = VersionsOf(req[r].graphic) \ {req[r].version}]
    /\ UNCHANGED <<dbVars, lock>>

Latest(V) == CHOOSE n \in {version[v].number : v \in V} :
                \A v \in V : version[v].number <= n

\* Mutant of DeleteCommit: the entry stays without a version.
DeleteCommitEntryStays(r) ==
    LET v == req[r].version IN
    /\ req[r].pc = "delete_loaded"
    /\ version' = [version EXCEPT ![v].row = "gone"]
    /\ Answer(r)
    /\ UNCHANGED <<graphic, placed>>

\* The version goes; the entry falls back on the latest one left, or goes too
\* when none is left.  The numbers compared are the ones read under the lock.
DeleteCommit(r) ==
    LET g == req[r].graphic
        v == req[r].version
        left == req[r].rows IN
    /\ req[r].pc = "delete_loaded"
    /\ version' = [version EXCEPT ![v].row = "gone"]
    /\ graphic' = [graphic EXCEPT ![g] =
          IF left = {} THEN [@ EXCEPT !.row = "gone"]
          ELSE IF version[v].number = req[r].current THEN [@ EXCEPT !.current = Latest(left)]
          ELSE @]
    /\ Answer(r)
    /\ UNCHANGED placed

-----------------------------------------------------------------------------
(* reorder_graphics *)

AllListed == {g \in Graphics : Listed(g)}

OrderLock(r) ==
    /\ req[r] = NoRequest
    /\ AllListed # {} /\ Free(AllListed)
    /\ Hold(r, AllListed)
    /\ req' = [req EXCEPT ![r] = [NoRequest EXCEPT !.pc = "order_locked", !.rows = AllListed]]
    /\ UNCHANGED dbVars

\* The ids must be those of the rows read, each once: any order of them.
OrderCommit(r) ==
    LET rows == req[r].rows IN
    /\ req[r].pc = "order_locked"
    /\ \E position \in [rows -> 0..(Cardinality(rows) - 1)] :
          /\ \A g, h \in rows : position[g] = position[h] => g = h
          /\ graphic' = [g \in Graphics |->
                IF g \in rows THEN [graphic[g] EXCEPT !.order = position[g]] ELSE graphic[g]]
    /\ Answer(r)
    /\ UNCHANGED <<version, placed>>

-----------------------------------------------------------------------------
(* create_signature and enqueue_signature, as far as the catalogue goes *)

\* Every version asked for must be there, of an active entry.
SignChoose(r, j, V) ==
    /\ req[r] = NoRequest
    /\ placed[j].row = "unborn" /\ \A q \in Requests : req[q].attempt # j
    /\ V # {} /\ \A v \in V : Kept(v) /\ graphic[version[v].graphic].active
    /\ req' = [req EXCEPT ![r] = [NoRequest EXCEPT !.pc = "sign_chosen",
                                     !.attempt = j, !.rows = V]]
    /\ UNCHANGED <<dbVars, lock>>

\* Mutant of SignCommit: no foreign key on placements.
SignCommitAnyway(r) ==
    /\ req[r].pc = "sign_chosen"
    /\ placed' = [placed EXCEPT ![req[r].attempt] = [row |-> "there", versions |-> req[r].rows]]
    /\ Answer(r)
    /\ UNCHANGED <<graphic, version>>

\* The foreign key takes the versions FOR KEY SHARE: it waits for whoever
\* deletes them, and needs them to be there.
SignCommit(r) ==
    LET V == req[r].rows IN
    /\ req[r].pc = "sign_chosen"
    /\ Free(V) /\ (RowLocks => \A v \in V : Kept(v))
    /\ placed' = [placed EXCEPT ![req[r].attempt] = [row |-> "there", versions |-> V]]
    /\ Answer(r)
    /\ UNCHANGED <<graphic, version>>

SignRefused(r) ==
    /\ req[r].pc = "sign_chosen"
    /\ RowLocks /\ Free(req[r].rows) /\ ~(\A v \in req[r].rows : Kept(v))
    /\ Answer(r)
    /\ UNCHANGED dbVars

\* A statement or the commit raises, or the service stops: all is rolled back.
Fail(r) ==
    /\ req[r] # NoRequest
    /\ Answer(r)
    /\ UNCHANGED dbVars

\* The document is deleted: its attempts and their placements go with it.
DeleteAttempt(j) ==
    /\ placed[j].row = "there"
    /\ placed' = [placed EXCEPT ![j].row = "gone"]
    /\ UNCHANGED <<graphic, version, lock, req>>

-----------------------------------------------------------------------------

Init ==
    /\ graphic = [g \in Graphics |->
          [row |-> "unborn", active |-> FALSE, current |-> 0, order |-> 0]]
    /\ version = [v \in Versions |-> [row |-> "unborn", graphic |-> None, number |-> 0]]
    /\ placed = [j \in Attempts |-> [row |-> "unborn", versions |-> {}]]
    /\ lock = [x \in Graphics \cup Versions |-> None]
    /\ req = [r \in Requests |-> NoRequest]

Next ==
    \/ \E g \in Graphics :
          \/ \E v \in Versions : CreateGraphic(g, v)
          \/ \E active \in BOOLEAN : UpdateGraphic(g, active)
    \/ \E r \in Requests :
          \/ \E g \in Graphics : UploadLock(r, g)
          \/ Fail(r)
          \/ DeleteCount(r) \/ DeleteReferenced(r) \/ DeleteLoad(r) \/ DeleteCommit(r)
          \/ OrderLock(r) \/ OrderCommit(r)
          \/ SignCommit(r) \/ SignRefused(r)
          \/ \E v \in Versions : UploadCommit(r, v) \/ DeleteLock(r, v)
          \/ \E j \in Attempts, V \in SUBSET Versions : SignChoose(r, j, V)
    \/ \E j \in Attempts : DeleteAttempt(j)

Spec == Init /\ [][Next]_vars

-----------------------------------------------------------------------------
(* Properties *)

\* What the interface offers as the current version of an entry is the latest
\* one there is (graphics.py: upload adds one, delete falls back).
CurrentIsLatest ==
    \A g \in Graphics : Listed(g) =>
       /\ graphic[g].current \in Numbers(g)
       /\ \A n \in Numbers(g) : n <= graphic[g].current

\* "Keeping an image-less catalogue row would leave something that can be
\* chosen but never applied" (graphics.py:412); nor is a version left of an
\* entry that is gone.
NoEmptyEntry ==
    \A g \in Graphics : Listed(g) <=> VersionsOf(g) # {}

\* What an attempt places is still in the catalogue when the worker draws it.
PlacedVersionsStay ==
    \A j \in Attempts : placed[j].row = "there" => \A v \in placed[j].versions : Kept(v)
=============================================================================
