----------------------- MODULE GraphicCatalogue_proofs -----------------------
(***************************************************************************)
(* However many administrators edit the catalogue at once, and whatever    *)
(* users place meanwhile, the rows of an entry change together.  What      *)
(* makes it so is that a request works under the row of the entry: what it *)
(* read after its FOR UPDATE is still so when it commits, and whoever      *)
(* would place the version it deletes waits for that row.                  *)
(***************************************************************************)
EXTENDS GraphicCatalogue, FiniteSetTheorems, TLAPS

DeleteSteps  == {"delete_locked", "delete_counted", "delete_loaded"}
EntrySteps   == DeleteSteps \cup {"upload_locked"}
CountedSteps == {"delete_counted", "delete_loaded"}

\* What a request under way may rely on until it commits.
Protected(r) ==
    LET g == req[r].graphic
        v == req[r].version IN
    /\ req[r].pc \in EntrySteps =>
          /\ g \in Graphics /\ Listed(g) /\ lock[g] = r
          /\ req[r].current = graphic[g].current
    /\ req[r].pc \in DeleteSteps => v \in VersionsOf(g) /\ lock[v] = r
    /\ req[r].pc \in CountedSteps => PlacementsOf(v) = {}
    /\ req[r].pc = "delete_loaded" => req[r].rows = VersionsOf(g) \ {v}
    /\ req[r].pc = "order_locked" => req[r].rows \subseteq Graphics
    /\ req[r].pc = "sign_chosen" => /\ req[r].attempt \in Attempts
                                    /\ req[r].rows \subseteq Versions

AllProtected == \A r \in Requests : Protected(r)

\* A version belongs to an entry.
EntryOfVersion == \A v \in Versions : Kept(v) => version[v].graphic \in Graphics

RowsAgree == CurrentIsLatest /\ NoEmptyEntry /\ PlacedVersionsStay

CatalogueInv == TypeOK /\ EntryOfVersion /\ AllProtected /\ RowsAgree

-----------------------------------------------------------------------------
(* The latest version *)

\* A set of numbers that is bounded has a greatest one.
LEMMA BoundedHasGreatest ==
    ASSUME NEW S \in SUBSET Nat, NEW m \in S, NEW top \in Nat, \A n \in S : n <= top
    PROVE  \E n \in S : \A k \in S : k <= n
<1> DEFINE above(n) == {k \in S : n < k}
           T == {above(n) : n \in S}
<1>1. T \subseteq FiniteSubsetsOf(S)
  <2>1. IsFiniteSet(S)
    BY FS_BoundedSetOfNaturals
  <2>2. FiniteSubsetsOf(S) = SUBSET S
    BY <2>1, FS_FiniteSubsetsOfFinite
  <2> QED
    BY <2>2
<1>2. above(m) \in T
  OBVIOUS
<1>3. PICK x \in T : \A y \in T : ~(<<y, x>> \in StrictSubsetOrdering(S))
  <2>1. T # {}
    BY <1>2
  <2> HIDE DEF T
  <2> QED
    BY <1>1, <2>1, FS_StrictSubsetOrderingWellFounded, WFMin
<1>4. PICK n \in S : x = above(n)
  BY <1>3
<1>5. ASSUME NEW k \in S, n < k PROVE FALSE
  <2>1. above(k) \subseteq above(n) /\ k \in above(n) /\ k \notin above(k)
    <3>1. k \in Nat /\ n \in Nat
      OBVIOUS
    <3>2. \A e \in S : k < e => n < e
      BY <1>5, <3>1
    <3>3. above(k) \subseteq above(n)
      BY <3>2
    <3>4. k \in above(n)
      BY <1>5
    <3>5. k \notin above(k)
      BY <3>1
    <3> QED
      BY <3>3, <3>4, <3>5
  <2>2. <<above(k), above(n)>> \in StrictSubsetOrdering(S)
    BY <2>1 DEF StrictSubsetOrdering
  <2>3. above(k) \in T
    OBVIOUS
  <2> QED
    BY <1>3, <1>4, <2>2, <2>3
<1>6. \A k \in S : k <= n
  BY <1>5
<1> QED
  BY <1>6

-----------------------------------------------------------------------------
(* The initial state *)

LEMMA CatalogueInit == Init => CatalogueInv
<1> SUFFICES ASSUME Init PROVE CatalogueInv
  OBVIOUS
<1> USE DEF Init
<1>1. TypeOK
  <2>1. NoRequest \in RequestState
    BY DEF NoRequest, RequestState
  <2> QED
    BY <2>1 DEF TypeOK, GraphicRow, VersionRow, AttemptState, Row
<1>2. \A v \in Versions : ~Kept(v)
  BY DEF Kept
<1>3. \A g \in Graphics : ~Listed(g)
  BY DEF Listed
<1>4. EntryOfVersion
  BY <1>2 DEF EntryOfVersion
<1>5. AllProtected
  BY DEF AllProtected, Protected, NoRequest, EntrySteps, DeleteSteps, CountedSteps
<1>6. RowsAgree
  BY <1>2, <1>3 DEF RowsAgree, CurrentIsLatest, NoEmptyEntry, PlacedVersionsStay, VersionsOf
<1> QED
  BY <1>1, <1>4, <1>5, <1>6 DEF CatalogueInv

-----------------------------------------------------------------------------
(* Frames: what a step leaves to the other requests *)

\* What a request relies on after a step, in terms of what it will refer to.
LEMMA ProtectedNext ==
    ASSUME NEW r, NEW g, NEW v, req'[r].graphic = g, req'[r].version = v,
           req'[r].pc \in EntrySteps =>
              /\ g \in Graphics /\ Listed(g)' /\ lock'[g] = r
              /\ req'[r].current = graphic'[g].current,
           req'[r].pc \in DeleteSteps => v \in VersionsOf(g)' /\ lock'[v] = r,
           req'[r].pc \in CountedSteps => PlacementsOf(v)' = {},
           req'[r].pc = "delete_loaded" => req'[r].rows = VersionsOf(g)' \ {v},
           req'[r].pc = "order_locked" => req'[r].rows \subseteq Graphics,
           req'[r].pc = "sign_chosen" => /\ req'[r].attempt \in Attempts
                                         /\ req'[r].rows \subseteq Versions
    PROVE  Protected(r)'
BY DEF Protected, VersionsOf, PlacementsOf, Listed, Kept

\* The requests but r keep what they rely on, if the step touches no row that
\* another request has locked and places no version that another has locked.
LEMMA OthersProtected ==
    ASSUME CatalogueInv, NEW r,
           \A s \in Requests \ {r} : req'[s] = req[s],
           \A x \in Graphics \cup Versions : lock[x] # r => lock'[x] = lock[x] \/ lock[x] = None,
           \A g \in Graphics : lock[g] \in Requests \ {r} =>
              /\ Listed(g) => Listed(g)'
              /\ graphic'[g].current = graphic[g].current
              /\ VersionsOf(g)' = VersionsOf(g),
           \A v \in Versions : lock[v] \in Requests \ {r} => PlacementsOf(v)' \subseteq PlacementsOf(v)
    PROVE  \A s \in Requests \ {r} : Protected(s)'
<1> SUFFICES ASSUME NEW s \in Requests \ {r} PROVE Protected(s)'
  OBVIOUS
<1>0. PICK g, v : g = req[s].graphic /\ v = req[s].version
  OBVIOUS
<1>1. Protected(s) /\ req'[s] = req[s] /\ s # None
  BY CatalogueAssumption DEF CatalogueInv, AllProtected
<1>2. req[s].pc \in EntrySteps =>
         /\ g \in Graphics /\ Listed(g)' /\ lock'[g] = s
         /\ req[s].current = graphic'[g].current
         /\ VersionsOf(g)' = VersionsOf(g)
  BY <1>0, <1>1 DEF Protected
<1>3. req[s].pc \in DeleteSteps => v \in VersionsOf(g)' /\ lock'[v] = s
  BY <1>0, <1>1, <1>2 DEF Protected, VersionsOf, EntrySteps
<1>4. req[s].pc \in CountedSteps => PlacementsOf(v)' = {}
  <2>1. req[s].pc \in CountedSteps => lock[v] = s /\ v \in Versions /\ PlacementsOf(v) = {}
    BY <1>0, <1>1 DEF Protected, DeleteSteps, CountedSteps, VersionsOf
  <2> QED
    BY <1>1, <2>1
<1>5. req[s].pc = "delete_loaded" => req[s].rows = VersionsOf(g)' \ {v}
  BY <1>0, <1>1, <1>2 DEF Protected, EntrySteps, DeleteSteps
<1>6. /\ req[s].pc = "order_locked" => req[s].rows \subseteq Graphics
      /\ req[s].pc = "sign_chosen" => /\ req[s].attempt \in Attempts
                                      /\ req[s].rows \subseteq Versions
  BY <1>1 DEF Protected
<1> QED
  BY <1>0, <1>1, <1>2, <1>3, <1>4, <1>5, <1>6, ProtectedNext

\* Answering a request releases its rows and nobody else's.
LEMMA AnswerEffect ==
    ASSUME TypeOK, NEW r \in Requests, Answer(r)
    PROVE  /\ req' \in [Requests -> RequestState]
           /\ lock' \in [Graphics \cup Versions -> Requests \cup {None}]
           /\ \A s \in Requests \ {r} : req'[s] = req[s]
           /\ \A x \in Graphics \cup Versions : lock[x] # r => lock'[x] = lock[x]
           /\ Protected(r)'
<1>1. NoRequest \in RequestState /\ NoRequest.pc = "idle"
  BY DEF NoRequest, RequestState
<1>2. req'[r] = NoRequest /\ req' \in [Requests -> RequestState]
  BY <1>1 DEF TypeOK, Answer
<1>3. Protected(r)'
  BY <1>1, <1>2 DEF Protected, EntrySteps, DeleteSteps, CountedSteps
<1> QED
  BY <1>2, <1>3 DEF TypeOK, Answer, Release

\* So does a request that goes on, or takes rows nobody has.
LEMMA HoldEffect ==
    ASSUME RowLocks, TypeOK, NEW r \in Requests,
           NEW rows \in SUBSET (Graphics \cup Versions), Free(rows), Hold(r, rows)
    PROVE  /\ lock' \in [Graphics \cup Versions -> Requests \cup {None}]
           /\ \A x \in rows : lock'[x] = r
           /\ \A x \in Graphics \cup Versions : lock'[x] = lock[x] \/ lock[x] = None
BY DEF TypeOK, Free, Hold

\* The rows stay as they are.
LEMMA SameRows ==
    ASSUME CatalogueInv, UNCHANGED dbVars
    PROVE  /\ EntryOfVersion' /\ RowsAgree'
           /\ \A g : VersionsOf(g)' = VersionsOf(g) /\ Numbers(g)' = Numbers(g)
           /\ \A v : PlacementsOf(v)' = PlacementsOf(v)
           /\ graphic' \in [Graphics -> GraphicRow] /\ version' \in [Versions -> VersionRow]
           /\ placed' \in [Attempts -> [row : AttemptState, versions : SUBSET Versions]]
BY DEF dbVars, CatalogueInv, TypeOK, EntryOfVersion, RowsAgree, CurrentIsLatest, NoEmptyEntry,
       PlacedVersionsStay, VersionsOf, PlacementsOf, Numbers, Kept, Listed

\* A step of r that only reads, or that takes free rows.
LEMMA ReadingKeeps ==
    ASSUME CatalogueInv, NEW r \in Requests, UNCHANGED dbVars,
           req' \in [Requests -> RequestState],
           lock' \in [Graphics \cup Versions -> Requests \cup {None}],
           \A s \in Requests \ {r} : req'[s] = req[s],
           \A x \in Graphics \cup Versions : lock[x] # r => lock'[x] = lock[x] \/ lock[x] = None,
           Protected(r)'
    PROVE  CatalogueInv'
<1>1. TypeOK'
  BY SameRows DEF TypeOK
<1>2. \A s \in Requests \ {r} : Protected(s)'
  <2>1. \A g \in Graphics : /\ Listed(g) => Listed(g)'
                            /\ graphic'[g].current = graphic[g].current
    BY DEF dbVars, Listed
  <2> QED
    BY <2>1, SameRows, OthersProtected
<1>3. AllProtected'
  BY <1>2 DEF AllProtected
<1> QED
  BY <1>1, <1>3, SameRows DEF CatalogueInv

-----------------------------------------------------------------------------
(* Steps that change no row *)

LEMMA UploadLockKeeps ==
    ASSUME RowLocks, CatalogueInv, NEW r \in Requests, NEW g \in Graphics, UploadLock(r, g)
    PROVE  CatalogueInv'
<1>1. TypeOK
  BY DEF CatalogueInv
<1>2. /\ req' \in [Requests -> RequestState]
      /\ \A s \in Requests \ {r} : req'[s] = req[s]
      /\ req'[r].pc = "upload_locked" /\ req'[r].graphic = g
      /\ req'[r].current = graphic[g].current
  BY <1>1 DEF UploadLock, TypeOK, RequestState, NoRequest, Steps, GraphicRow
<1>3. /\ lock' \in [Graphics \cup Versions -> Requests \cup {None}]
      /\ \A x \in Graphics \cup Versions : lock'[x] = lock[x] \/ lock[x] = None
      /\ lock'[g] = r
  BY <1>1, HoldEffect DEF UploadLock
<1>4. Protected(r)'
  BY <1>2, <1>3 DEF UploadLock, dbVars, Protected, EntrySteps, DeleteSteps, CountedSteps, Listed
<1> QED
  BY <1>2, <1>3, <1>4, ReadingKeeps DEF UploadLock

LEMMA DeleteLockKeeps ==
    ASSUME RowLocks, CatalogueInv, NEW r \in Requests, NEW v \in Versions, DeleteLock(r, v)
    PROVE  CatalogueInv'
<1>1. TypeOK /\ Kept(v) /\ version[v].graphic \in Graphics
  BY DEF CatalogueInv, EntryOfVersion, DeleteLock
<1>2. PICK g \in Graphics : g = version[v].graphic
  BY <1>1
<1>3. v \in VersionsOf(g) /\ Listed(g)
  <2>1. v \in VersionsOf(g)
    BY <1>1, <1>2 DEF VersionsOf
  <2> QED
    BY <2>1 DEF CatalogueInv, RowsAgree, NoEmptyEntry
<1>4. /\ req' \in [Requests -> RequestState]
      /\ \A s \in Requests \ {r} : req'[s] = req[s]
      /\ req'[r].pc = "delete_locked" /\ req'[r].graphic = g /\ req'[r].version = v
      /\ req'[r].current = graphic[g].current
  BY <1>1, <1>2 DEF DeleteLock, TypeOK, RequestState, NoRequest, Steps, GraphicRow
<1>5. /\ lock' \in [Graphics \cup Versions -> Requests \cup {None}]
      /\ \A x \in Graphics \cup Versions : lock'[x] = lock[x] \/ lock[x] = None
      /\ lock'[g] = r /\ lock'[v] = r
  <2>1. Free({g, v}) /\ Hold(r, {g, v})
    BY <1>2 DEF DeleteLock
  <2> QED
    BY <1>1, <2>1, HoldEffect
<1>6. Protected(r)'
  <2>1. v \in VersionsOf(g)' /\ Listed(g)' /\ graphic' = graphic
    BY <1>3, SameRows DEF DeleteLock, dbVars, Listed
  <2> QED
    BY <1>4, <1>5, <2>1, ProtectedNext DEF EntrySteps, DeleteSteps, CountedSteps
<1> QED
  BY <1>4, <1>5, <1>6, ReadingKeeps DEF DeleteLock

\* The requests read on: counting the placements, loading the versions left.
LEMMA DeleteReads ==
    ASSUME CatalogueInv, NEW r \in Requests, DeleteCount(r) \/ DeleteLoad(r)
    PROVE  CatalogueInv'
<1>1. /\ TypeOK /\ Protected(r) /\ UNCHANGED <<dbVars, lock>>
      /\ req[r].pc \in {"delete_locked", "delete_counted"}
  BY DEF CatalogueInv, AllProtected, DeleteCount, DeleteLoad
<1>2. PICK g \in Graphics, v \in Versions : g = req[r].graphic /\ v = req[r].version
  BY <1>1 DEF Protected, EntrySteps, DeleteSteps, VersionsOf
<1>3. /\ req' \in [Requests -> RequestState]
      /\ \A s \in Requests \ {r} : req'[s] = req[s]
      /\ req'[r].graphic = g /\ req'[r].version = v
      /\ req'[r].current = req[r].current
      /\ \/ /\ req[r].pc = "delete_locked" /\ req'[r].pc = "delete_counted"
            /\ PlacementsOf(v) = {}
         \/ /\ req[r].pc = "delete_counted" /\ req'[r].pc = "delete_loaded"
            /\ req'[r].rows = VersionsOf(g) \ {v}
  BY <1>1, <1>2 DEF DeleteCount, DeleteLoad, TypeOK, RequestState, Steps, VersionsOf
<1>4. Protected(r)'
  <2>1. /\ VersionsOf(g)' = VersionsOf(g) /\ PlacementsOf(v)' = PlacementsOf(v)
        /\ Listed(g)' <=> Listed(g)
        /\ graphic' = graphic /\ lock' = lock
    BY <1>1, SameRows DEF dbVars, Listed
  <2>2. /\ Listed(g) /\ lock[g] = r /\ req[r].current = graphic[g].current
        /\ v \in VersionsOf(g) /\ lock[v] = r
        /\ req[r].pc = "delete_counted" => PlacementsOf(v) = {}
    BY <1>1, <1>2 DEF Protected, EntrySteps, DeleteSteps, CountedSteps
  <2> QED
    BY <1>3, <2>1, <2>2, ProtectedNext DEF EntrySteps, DeleteSteps, CountedSteps
<1> QED
  BY <1>1, <1>3, <1>4, ReadingKeeps DEF TypeOK

LEMMA OrderLockKeeps ==
    ASSUME RowLocks, CatalogueInv, NEW r \in Requests, OrderLock(r)
    PROVE  CatalogueInv'
<1>1. TypeOK /\ AllListed \subseteq Graphics
  BY DEF CatalogueInv, AllListed
<1>2. /\ req' \in [Requests -> RequestState]
      /\ \A s \in Requests \ {r} : req'[s] = req[s]
      /\ req'[r].pc = "order_locked" /\ req'[r].rows = AllListed
  BY <1>1 DEF OrderLock, TypeOK, RequestState, NoRequest, Steps
<1>3. /\ lock' \in [Graphics \cup Versions -> Requests \cup {None}]
      /\ \A x \in Graphics \cup Versions : lock'[x] = lock[x] \/ lock[x] = None
  BY <1>1, HoldEffect DEF OrderLock
<1>4. Protected(r)'
  BY <1>1, <1>2 DEF Protected, EntrySteps, DeleteSteps, CountedSteps
<1> QED
  BY <1>2, <1>3, <1>4, ReadingKeeps DEF OrderLock

LEMMA SignChooseKeeps ==
    ASSUME CatalogueInv, NEW r \in Requests, NEW j \in Attempts, NEW V \in SUBSET Versions,
           SignChoose(r, j, V)
    PROVE  CatalogueInv'
<1>1. TypeOK
  BY DEF CatalogueInv
<1>2. /\ req' \in [Requests -> RequestState]
      /\ \A s \in Requests \ {r} : req'[s] = req[s]
      /\ req'[r].pc = "sign_chosen" /\ req'[r].rows = V /\ req'[r].attempt = j
  BY <1>1 DEF SignChoose, TypeOK, RequestState, NoRequest, Steps
<1>3. Protected(r)'
  BY <1>2 DEF Protected, EntrySteps, DeleteSteps, CountedSteps
<1> QED
  BY <1>1, <1>2, <1>3, ReadingKeeps DEF SignChoose, TypeOK

LEMMA AnswerKeeps ==
    ASSUME CatalogueInv, NEW r \in Requests, Answer(r), UNCHANGED dbVars
    PROVE  CatalogueInv'
BY AnswerEffect, ReadingKeeps DEF CatalogueInv

-----------------------------------------------------------------------------
(* Steps that change rows *)

\* A version is inserted.
LEMMA VersionNew ==
    ASSUME TypeOK, NEW v \in Versions, version[v].row = "unborn",
           NEW g \in Graphics, NEW n \in Nat,
           version' = [version EXCEPT ![v] = [row |-> "there", graphic |-> g, number |-> n]]
    PROVE  /\ version' \in [Versions -> VersionRow]
           /\ VersionsOf(g)' = VersionsOf(g) \cup {v}
           /\ Numbers(g)' = Numbers(g) \cup {n}
           /\ \A h : h # g => VersionsOf(h)' = VersionsOf(h) /\ Numbers(h)' = Numbers(h)
           /\ \A w \in Versions : Kept(w)' <=> Kept(w) \/ w = v
           /\ \A w \in Versions \ {v} : version'[w] = version[w]
           /\ version'[v].graphic = g
<1>1. /\ version' \in [Versions -> VersionRow]
      /\ version'[v] = [row |-> "there", graphic |-> g, number |-> n]
      /\ \A w \in Versions \ {v} : version'[w] = version[w]
  BY DEF TypeOK, VersionRow, Row
<1>2. /\ VersionsOf(g)' = VersionsOf(g) \cup {v} /\ v \notin VersionsOf(g)
      /\ \A h : h # g => VersionsOf(h)' = VersionsOf(h) /\ v \notin VersionsOf(h)
  BY <1>1 DEF VersionsOf, Kept
<1>3. \A w \in Versions : Kept(w)' <=> Kept(w) \/ w = v
  BY <1>1 DEF Kept
<1>4. \A h : \A w \in VersionsOf(h) : version'[w].number = version[w].number
  BY <1>1, <1>2 DEF VersionsOf
<1>5. \A h : h # g => Numbers(h)' = Numbers(h)
  BY <1>2, <1>4 DEF Numbers
<1>6. Numbers(g)' = Numbers(g) \cup {n}
  BY <1>1, <1>2, <1>4 DEF Numbers
<1> QED
  BY <1>1, <1>2, <1>3, <1>5, <1>6

LEMMA CreateGraphicKeeps ==
    ASSUME CatalogueInv, NEW g \in Graphics, NEW v \in Versions, CreateGraphic(g, v)
    PROVE  CatalogueInv'
<1>1. /\ TypeOK /\ EntryOfVersion /\ AllProtected
      /\ CurrentIsLatest /\ NoEmptyEntry /\ PlacedVersionsStay
  BY DEF CatalogueInv, RowsAgree
<1>2. /\ graphic' \in [Graphics -> GraphicRow]
      /\ Listed(g)' /\ ~Listed(g) /\ graphic'[g].current = 1
      /\ \A h \in Graphics \ {g} : graphic'[h] = graphic[h]
  BY <1>1 DEF CreateGraphic, TypeOK, GraphicRow, Row, Listed
<1>3. /\ version[v].row = "unborn"
      /\ version' = [version EXCEPT ![v] = [row |-> "there", graphic |-> g, number |-> 1]]
      /\ UNCHANGED <<placed, lock, req>>
  BY DEF CreateGraphic
<1>4. /\ version' \in [Versions -> VersionRow]
      /\ VersionsOf(g)' = VersionsOf(g) \cup {v} /\ Numbers(g)' = Numbers(g) \cup {1}
      /\ \A h : h # g => VersionsOf(h)' = VersionsOf(h) /\ Numbers(h)' = Numbers(h)
      /\ \A w \in Versions : Kept(w)' <=> Kept(w) \/ w = v
      /\ \A w \in Versions \ {v} : version'[w] = version[w]
      /\ version'[v].graphic = g
  <2>1. ASSUME NEW n \in Nat, n = 1
        PROVE  /\ version' \in [Versions -> VersionRow]
               /\ VersionsOf(g)' = VersionsOf(g) \cup {v} /\ Numbers(g)' = Numbers(g) \cup {n}
               /\ \A h : h # g => VersionsOf(h)' = VersionsOf(h) /\ Numbers(h)' = Numbers(h)
               /\ \A w \in Versions : Kept(w)' <=> Kept(w) \/ w = v
               /\ \A w \in Versions \ {v} : version'[w] = version[w]
               /\ version'[v].graphic = g
    <3>1. version' = [version EXCEPT ![v] = [row |-> "there", graphic |-> g, number |-> n]]
      BY <1>3, <2>1
    <3>2. TypeOK /\ version[v].row = "unborn"
      BY <1>1, <1>3
    <3> QED
      BY <3>1, <3>2, VersionNew
  <2>2. 1 \in Nat
    OBVIOUS
  <2> QED
    BY <2>1, <2>2
<1>5. TypeOK'
  BY <1>1, <1>2, <1>3, <1>4 DEF TypeOK
<1>6. EntryOfVersion'
  BY <1>1, <1>3, <1>4 DEF EntryOfVersion
<1>7. AllProtected'
  <2>1. \A h \in Graphics \ {g} : /\ Listed(h) => Listed(h)'
                                  /\ graphic'[h].current = graphic[h].current
                                  /\ VersionsOf(h)' = VersionsOf(h)
    BY <1>1, <1>2, <1>3, <1>4 DEF Listed
  <2>2. \A s \in Requests : req[s].pc \in EntrySteps => req[s].graphic # g
    BY <1>1, <1>2 DEF AllProtected, Protected
  <2>3. \A w : PlacementsOf(w)' = PlacementsOf(w)
    BY <1>3 DEF PlacementsOf
  <2>4. ASSUME NEW s \in Requests PROVE Protected(s)'
    <3>1. Protected(s) /\ req' = req /\ lock' = lock
      BY <1>1, <1>3 DEF AllProtected
    <3>2. PICK h, w : h = req[s].graphic /\ w = req[s].version
      OBVIOUS
    <3>3. req[s].pc \in EntrySteps =>
             /\ h \in Graphics /\ Listed(h)'
             /\ graphic'[h].current = graphic[h].current
             /\ VersionsOf(h)' = VersionsOf(h)
      BY <2>1, <2>2, <3>1, <3>2 DEF Protected
    <3>4. DeleteSteps \subseteq EntrySteps /\ "delete_loaded" \in DeleteSteps
      BY DEF EntrySteps, DeleteSteps
    <3> QED
      BY <2>3, <3>1, <3>2, <3>3, <3>4, ProtectedNext DEF Protected
  <2> QED
    BY <2>4 DEF AllProtected
<1>8. CurrentIsLatest' /\ NoEmptyEntry'
  <2>1. VersionsOf(g) = {} /\ Numbers(g) = {}
    BY <1>1, <1>2 DEF NoEmptyEntry, Numbers
  <2>2. VersionsOf(g)' = {v} /\ Numbers(g)' = {1}
    BY <1>1, <1>3, <1>4, <2>1
  <2>3. \A h \in Graphics \ {g} : /\ VersionsOf(h)' = VersionsOf(h) /\ Numbers(h)' = Numbers(h)
                                  /\ Listed(h)' <=> Listed(h)
    BY <1>1, <1>2, <1>3, <1>4 DEF Listed
  <2> QED
    BY <1>1, <1>2, <2>2, <2>3 DEF CurrentIsLatest, NoEmptyEntry
<1>9. PlacedVersionsStay'
  <2>1. \A w \in Versions : Kept(w) => Kept(w)'
    BY <1>1, <1>3, <1>4
  <2>2. \A j \in Attempts : placed[j].versions \subseteq Versions
    BY <1>1 DEF TypeOK
  <2> QED
    BY <1>1, <1>3, <2>1, <2>2 DEF PlacedVersionsStay
<1> QED
  BY <1>5, <1>6, <1>7, <1>8, <1>9 DEF CatalogueInv, RowsAgree

\* A step that changes no version, no placement, and of the entries only what no
\* version depends on: whether they are active, and their order.
LEMMA EntryEditKeeps ==
    ASSUME CatalogueInv, NEW r,
           graphic' \in [Graphics -> GraphicRow],
           \A g \in Graphics : graphic'[g].row = graphic[g].row
                               /\ graphic'[g].current = graphic[g].current,
           UNCHANGED <<version, placed>>,
           req' \in [Requests -> RequestState],
           lock' \in [Graphics \cup Versions -> Requests \cup {None}],
           \A s \in Requests \ {r} : req'[s] = req[s],
           \A x \in Graphics \cup Versions : lock[x] # r => lock'[x] = lock[x],
           r \in Requests => Protected(r)'
    PROVE  CatalogueInv'
<1>1. /\ TypeOK /\ EntryOfVersion /\ AllProtected
      /\ CurrentIsLatest /\ NoEmptyEntry /\ PlacedVersionsStay
  BY DEF CatalogueInv, RowsAgree
<1>2. TypeOK'
  BY <1>1 DEF TypeOK
<1>3. /\ \A g : VersionsOf(g)' = VersionsOf(g) /\ Numbers(g)' = Numbers(g)
      /\ \A v : PlacementsOf(v)' = PlacementsOf(v) /\ (Kept(v)' <=> Kept(v))
      /\ \A g \in Graphics : Listed(g)' <=> Listed(g)
  BY DEF VersionsOf, Numbers, PlacementsOf, Kept, Listed
<1>4. EntryOfVersion'
  BY <1>1, <1>3 DEF EntryOfVersion
<1>5. CurrentIsLatest' /\ NoEmptyEntry'
  BY <1>1, <1>3 DEF CurrentIsLatest, NoEmptyEntry
<1>6. PlacedVersionsStay'
  BY <1>1, <1>3 DEF PlacedVersionsStay
<1>7. \A s \in Requests \ {r} : Protected(s)'
  BY <1>3, OthersProtected
<1>8. AllProtected'
  BY <1>7 DEF AllProtected
<1> QED
  BY <1>2, <1>4, <1>5, <1>6, <1>8 DEF CatalogueInv, RowsAgree

LEMMA UpdateGraphicKeeps ==
    ASSUME CatalogueInv, NEW g \in Graphics, NEW active \in BOOLEAN, UpdateGraphic(g, active)
    PROVE  CatalogueInv'
<1>1. TypeOK
  BY DEF CatalogueInv
<1>2. /\ graphic' \in [Graphics -> GraphicRow]
      /\ \A h \in Graphics : graphic'[h].row = graphic[h].row
                             /\ graphic'[h].current = graphic[h].current
  BY <1>1 DEF UpdateGraphic, TypeOK, GraphicRow
<1>3. None \notin Requests
  BY CatalogueAssumption
<1> QED
  BY <1>1, <1>2, <1>3, EntryEditKeeps DEF UpdateGraphic, TypeOK

LEMMA OrderCommitKeeps ==
    ASSUME CatalogueInv, NEW r \in Requests, OrderCommit(r)
    PROVE  CatalogueInv'
<1>1. TypeOK /\ Answer(r) /\ UNCHANGED <<version, placed>>
  BY DEF CatalogueInv, OrderCommit
<1>2. PICK position \in [req[r].rows -> 0..(Cardinality(req[r].rows) - 1)] :
         graphic' = [g \in Graphics |->
             IF g \in req[r].rows THEN [graphic[g] EXCEPT !.order = position[g]] ELSE graphic[g]]
  BY DEF OrderCommit
<1>3. \A g \in req[r].rows : position[g] \in Nat
  OBVIOUS
<1>4. /\ graphic' \in [Graphics -> GraphicRow]
      /\ \A g \in Graphics : graphic'[g].row = graphic[g].row
                             /\ graphic'[g].current = graphic[g].current
  BY <1>1, <1>2, <1>3 DEF TypeOK, GraphicRow
<1> QED
  BY <1>1, <1>4, AnswerEffect, EntryEditKeeps

LEMMA UploadCommitKeeps ==
    ASSUME RowLocks, CatalogueInv, NEW r \in Requests, NEW v \in Versions, UploadCommit(r, v)
    PROVE  CatalogueInv'
<1>1. /\ TypeOK /\ EntryOfVersion /\ AllProtected
      /\ CurrentIsLatest /\ NoEmptyEntry /\ PlacedVersionsStay
  BY DEF CatalogueInv, RowsAgree
<1>2. PICK g \in Graphics, number \in Nat :
         /\ g = req[r].graphic /\ number = req[r].current + 1
         /\ Listed(g) /\ lock[g] = r
         /\ graphic[g].current \in Nat /\ number = graphic[g].current + 1
  BY <1>1 DEF UploadCommit, AllProtected, Protected, EntrySteps, TypeOK, GraphicRow
<1>3. /\ version[v].row = "unborn"
      /\ graphic' = [graphic EXCEPT ![g].current = number]
      /\ version' = [version EXCEPT ![v] = [row |-> "there", graphic |-> g, number |-> number]]
      /\ Answer(r) /\ UNCHANGED placed
  BY <1>2 DEF UploadCommit
<1>4. /\ graphic' \in [Graphics -> GraphicRow]
      /\ graphic'[g].current = number /\ Listed(g)'
      /\ \A h \in Graphics \ {g} : graphic'[h] = graphic[h]
  BY <1>1, <1>2, <1>3 DEF TypeOK, GraphicRow, Listed
<1>5. /\ version' \in [Versions -> VersionRow]
      /\ VersionsOf(g)' = VersionsOf(g) \cup {v} /\ Numbers(g)' = Numbers(g) \cup {number}
      /\ \A h : h # g => VersionsOf(h)' = VersionsOf(h) /\ Numbers(h)' = Numbers(h)
      /\ \A w \in Versions : Kept(w)' <=> Kept(w) \/ w = v
      /\ \A w \in Versions \ {v} : version'[w] = version[w]
      /\ version'[v].graphic = g
  BY <1>1, <1>3, VersionNew
<1>6. TypeOK'
  BY <1>1, <1>2, <1>3, <1>4, <1>5, AnswerEffect DEF TypeOK
<1>7. EntryOfVersion'
  BY <1>1, <1>2, <1>3, <1>5 DEF EntryOfVersion
<1>8. AllProtected'
  <2>1. \A h \in Graphics \ {g} : /\ Listed(h) => Listed(h)'
                                  /\ graphic'[h].current = graphic[h].current
                                  /\ VersionsOf(h)' = VersionsOf(h)
    BY <1>1, <1>2, <1>3, <1>4, <1>5 DEF Listed
  <2>2. \A w : PlacementsOf(w)' = PlacementsOf(w)
    BY <1>3 DEF PlacementsOf
  <2>3. \A h \in Graphics : lock[h] \in Requests \ {r} => h # g
    BY <1>2
  <2>4. /\ \A s \in Requests \ {r} : req'[s] = req[s]
        /\ \A x \in Graphics \cup Versions : lock[x] # r => lock'[x] = lock[x]
        /\ Protected(r)'
    BY <1>1, <1>3, AnswerEffect
  <2>5. \A s \in Requests \ {r} : Protected(s)'
    BY <2>1, <2>2, <2>3, <2>4, OthersProtected
  <2> QED
    BY <2>4, <2>5 DEF AllProtected
<1>9. CurrentIsLatest' /\ NoEmptyEntry'
  <2>1. /\ VersionsOf(g)' # {} /\ Numbers(g)' = Numbers(g) \cup {number}
        /\ \A h \in Graphics \ {g} : VersionsOf(h)' = VersionsOf(h) /\ Numbers(h)' = Numbers(h)
    BY <1>1, <1>2, <1>3, <1>5
  <2>2. \A n \in Numbers(g) : n \in Nat /\ n <= number
    <3>1. \A n \in Numbers(g) : n <= graphic[g].current
      BY <1>1, <1>2 DEF CurrentIsLatest
    <3>2. Numbers(g) \subseteq Nat
      BY <1>1 DEF Numbers, VersionsOf, TypeOK, VersionRow
    <3> QED
      BY <1>2, <3>1, <3>2
  <2>3. number <= number
    BY <1>2
  <2>4. ASSUME NEW h \in Graphics, Listed(h)'
        PROVE  graphic'[h].current \in Numbers(h)' /\ \A n \in Numbers(h)' : n <= graphic'[h].current
    <3>1. CASE h = g
      BY <1>4, <2>1, <2>2, <2>3, <3>1
    <3>2. CASE h # g
      BY <1>1, <1>4, <2>1, <2>4, <3>2 DEF CurrentIsLatest, Listed
    <3> QED
      BY <3>1, <3>2
  <2>5. CurrentIsLatest'
    BY <2>4 DEF CurrentIsLatest
  <2>6. NoEmptyEntry'
    BY <1>1, <1>4, <2>1 DEF NoEmptyEntry, Listed
  <2> QED
    BY <2>5, <2>6
<1>10. PlacedVersionsStay'
  <2>1. \A w \in Versions : Kept(w) => Kept(w)'
    BY <1>1, <1>2, <1>3, <1>5
  <2>2. \A j \in Attempts : placed[j].versions \subseteq Versions
    BY <1>1 DEF TypeOK
  <2> QED
    BY <1>1, <1>3, <2>1, <2>2 DEF PlacedVersionsStay
<1> QED
  BY <1>6, <1>7, <1>8, <1>9, <1>10 DEF CatalogueInv, RowsAgree

\* A version is deleted.
LEMMA VersionGone ==
    ASSUME TypeOK, NEW v \in Versions, version' = [version EXCEPT ![v].row = "gone"]
    PROVE  /\ version' \in [Versions -> VersionRow]
           /\ \A g : VersionsOf(g)' = VersionsOf(g) \ {v}
           /\ \A g : Numbers(g)' = {version[w].number : w \in VersionsOf(g) \ {v}}
           /\ \A w \in Versions \ {v} : Kept(w)' <=> Kept(w)
           /\ \A w \in Versions : version'[w].graphic = version[w].graphic
           /\ ~Kept(v)'
<1>1. /\ version' \in [Versions -> VersionRow]
      /\ \A w \in Versions : /\ version'[w].graphic = version[w].graphic
                             /\ version'[w].number = version[w].number
                             /\ w # v => version'[w].row = version[w].row
      /\ version'[v].row = "gone"
  BY DEF TypeOK, VersionRow, Row
<1>2. \A g : VersionsOf(g)' = VersionsOf(g) \ {v}
  BY <1>1 DEF VersionsOf, Kept
<1>3. \A g : Numbers(g)' = {version[w].number : w \in VersionsOf(g) \ {v}}
  <2>1. \A g : \A w \in VersionsOf(g) \ {v} : version'[w].number = version[w].number
    BY <1>1 DEF VersionsOf
  <2> QED
    BY <1>2, <2>1 DEF Numbers
<1> QED
  BY <1>1, <1>2, <1>3 DEF Kept

\* The entry falls back on the latest version that is left.
LEMMA LatestIsGreatest ==
    ASSUME TypeOK, CurrentIsLatest, NEW g \in Graphics, Listed(g),
           NEW V \in SUBSET VersionsOf(g), V # {}
    PROVE  /\ Latest(V) \in {version[v].number : v \in V}
           /\ Latest(V) \in Nat
           /\ \A v \in V : version[v].number <= Latest(V)
<1> DEFINE S == {version[v].number : v \in V}
<1>1. \A v \in V : version[v].number \in Nat /\ version[v].number \in Numbers(g)
  BY DEF TypeOK, VersionRow, VersionsOf, Numbers
<1>2. S \in SUBSET Nat
  BY <1>1
<1>3. graphic[g].current \in Nat /\ \A n \in S : n <= graphic[g].current
  BY <1>1 DEF CurrentIsLatest, TypeOK, GraphicRow
<1>4. PICK m \in S : TRUE
  OBVIOUS
<1>5. \E n \in S : \A k \in S : k <= n
  <2> HIDE DEF S
  <2> QED
    BY <1>2, <1>3, <1>4, BoundedHasGreatest
<1>6. \E n \in S : \A v \in V : version[v].number <= n
  BY <1>5
<1>7. Latest(V) \in S /\ \A v \in V : version[v].number <= Latest(V)
  BY <1>6 DEF Latest
<1> QED
  BY <1>2, <1>7

LEMMA DeleteCommitKeeps ==
    ASSUME RowLocks, CatalogueInv, NEW r \in Requests, DeleteCommit(r)
    PROVE  CatalogueInv'
<1>1. /\ TypeOK /\ EntryOfVersion /\ AllProtected
      /\ CurrentIsLatest /\ NoEmptyEntry /\ PlacedVersionsStay
  BY DEF CatalogueInv, RowsAgree
<1>2. PICK g \in Graphics, v \in Versions, left \in SUBSET Versions :
         /\ g = req[r].graphic /\ v = req[r].version
         /\ left = req[r].rows /\ left = VersionsOf(g) \ {v}
         /\ Listed(g) /\ lock[g] = r /\ req[r].current = graphic[g].current
         /\ v \in VersionsOf(g) /\ lock[v] = r
         /\ PlacementsOf(v) = {}
  BY <1>1 DEF DeleteCommit, AllProtected, Protected, EntrySteps, DeleteSteps, CountedSteps,
              VersionsOf
<1>3. /\ version' = [version EXCEPT ![v].row = "gone"]
      /\ graphic' = [graphic EXCEPT ![g] =
            IF left = {} THEN [@ EXCEPT !.row = "gone"]
            ELSE IF version[v].number = graphic[g].current THEN [@ EXCEPT !.current = Latest(left)]
            ELSE @]
      /\ Answer(r) /\ UNCHANGED placed
  BY <1>2 DEF DeleteCommit
<1>4. /\ VersionsOf(g)' = left
      /\ \A h \in Graphics \ {g} : VersionsOf(h)' = VersionsOf(h) /\ Numbers(h)' = Numbers(h)
  <2>1. \A h : h # g => v \notin VersionsOf(h)
    BY <1>2 DEF VersionsOf
  <2>2. \A h : h # g => VersionsOf(h) \ {v} = VersionsOf(h)
    BY <2>1
  <2>3. /\ \A h : VersionsOf(h)' = VersionsOf(h) \ {v}
        /\ \A h : Numbers(h)' = {version[w].number : w \in VersionsOf(h) \ {v}}
    BY <1>1, <1>2, <1>3, VersionGone
  <2>4. \A h : h # g => Numbers(h)' = Numbers(h)
    BY <2>2, <2>3 DEF Numbers
  <2> QED
    BY <1>2, <2>2, <2>3, <2>4
<1>5. left # {} => /\ Latest(left) \in Nat
                   /\ Latest(left) \in Numbers(g)'
                   /\ \A n \in Numbers(g)' : n <= Latest(left)
  <2>1. Numbers(g)' = {version[w].number : w \in VersionsOf(g) \ {v}}
    BY <1>1, <1>2, <1>3, VersionGone
  <2>2. Numbers(g)' = {version[w].number : w \in left}
    BY <1>2, <2>1
  <2>3. ASSUME left # {}
        PROVE  /\ Latest(left) \in {version[w].number : w \in left}
               /\ Latest(left) \in Nat
               /\ \A w \in left : version[w].number <= Latest(left)
    <3>1. left \in SUBSET VersionsOf(g)
      BY <1>2
    <3> QED
      BY <1>1, <1>2, <2>3, <3>1, LatestIsGreatest
  <2> QED
    BY <2>2, <2>3
<1>6. /\ graphic' \in [Graphics -> GraphicRow]
      /\ Listed(g)' <=> left # {}
      /\ left # {} => graphic'[g].current =
            IF version[v].number = graphic[g].current THEN Latest(left) ELSE graphic[g].current
      /\ \A h \in Graphics \ {g} : graphic'[h] = graphic[h]
  BY <1>1, <1>2, <1>3, <1>5 DEF TypeOK, GraphicRow, Row, Listed
<1>7. TypeOK'
  BY <1>1, <1>2, <1>3, <1>6, VersionGone, AnswerEffect DEF TypeOK
<1>8. EntryOfVersion'
  BY <1>1, <1>2, <1>3, VersionGone DEF EntryOfVersion
<1>9. AllProtected'
  <2>1. \A h \in Graphics \ {g} : /\ Listed(h) => Listed(h)'
                                  /\ graphic'[h].current = graphic[h].current
                                  /\ VersionsOf(h)' = VersionsOf(h)
    BY <1>4, <1>6 DEF Listed
  <2>2. \A w : PlacementsOf(w)' = PlacementsOf(w)
    BY <1>3 DEF PlacementsOf
  <2>3. \A s \in Requests \ {r} : Protected(s)'
    BY <1>1, <1>2, <1>3, <2>1, <2>2, AnswerEffect, OthersProtected
  <2> QED
    BY <1>1, <1>3, <2>3, AnswerEffect DEF AllProtected
<1>10. CurrentIsLatest'
  <2>1. ASSUME NEW h \in Graphics, Listed(h)'
        PROVE  graphic'[h].current \in Numbers(h)' /\ \A n \in Numbers(h)' : n <= graphic'[h].current
    <3>1. CASE h # g
      BY <1>1, <1>4, <1>6, <2>1, <3>1 DEF CurrentIsLatest, Listed
    <3>2. CASE h = g /\ version[v].number = graphic[g].current
      BY <1>5, <1>6, <2>1, <3>2
    <3>3. CASE h = g /\ version[v].number # graphic[g].current
      <4>1. Numbers(g)' = {version[w].number : w \in VersionsOf(g) \ {v}}
        BY <1>1, <1>2, <1>3, VersionGone
      <4>2. Numbers(g) = {version[w].number : w \in VersionsOf(g)}
        BY DEF Numbers
      <4>3. graphic[g].current \in Numbers(g) /\ \A n \in Numbers(g) : n <= graphic[g].current
        BY <1>1, <1>2 DEF CurrentIsLatest
      <4>4. graphic[g].current \in Numbers(g)'
        <5>1. PICK w \in VersionsOf(g) : version[w].number = graphic[g].current
          BY <4>2, <4>3
        <5> QED
          BY <3>3, <4>1, <5>1
      <4>5. \A n \in Numbers(g)' : n \in Numbers(g)
        BY <4>1, <4>2
      <4> QED
        BY <1>6, <2>1, <3>3, <4>3, <4>4, <4>5
    <3> QED
      BY <3>1, <3>2, <3>3
  <2> QED
    BY <2>1 DEF CurrentIsLatest
<1>11. NoEmptyEntry'
  BY <1>1, <1>4, <1>6 DEF NoEmptyEntry, Listed
<1>12. PlacedVersionsStay'
  <2>1. \A w \in Versions : Kept(w) /\ w # v => Kept(w)'
    BY <1>1, <1>2, <1>3, VersionGone
  <2>2. \A j \in Attempts : placed[j].versions \subseteq Versions
    BY <1>1 DEF TypeOK
  <2>3. \A j \in Attempts : placed[j].row = "there" => v \notin placed[j].versions
    BY <1>2 DEF PlacementsOf
  <2> QED
    BY <1>1, <1>3, <2>1, <2>2, <2>3 DEF PlacedVersionsStay
<1> QED
  BY <1>7, <1>8, <1>9, <1>10, <1>11, <1>12 DEF CatalogueInv, RowsAgree

\* Placements come and go; what is placed then is there, and nobody deletes it.
LEMMA PlacementKeeps ==
    ASSUME CatalogueInv, NEW r, UNCHANGED <<graphic, version>>,
           NEW j \in Attempts, NEW row \in AttemptState, NEW V \in SUBSET Versions,
           placed' = [placed EXCEPT ![j] = [row |-> row, versions |-> V]],
           row = "there" => \A v \in V : Kept(v) /\ lock[v] = None,
           req' \in [Requests -> RequestState],
           lock' \in [Graphics \cup Versions -> Requests \cup {None}],
           \A s \in Requests \ {r} : req'[s] = req[s],
           \A x \in Graphics \cup Versions : lock[x] # r => lock'[x] = lock[x],
           r \in Requests => Protected(r)'
    PROVE  CatalogueInv'
<1>1. /\ TypeOK /\ EntryOfVersion /\ AllProtected
      /\ CurrentIsLatest /\ NoEmptyEntry /\ PlacedVersionsStay
  BY DEF CatalogueInv, RowsAgree
<1>2. /\ TypeOK' /\ placed'[j] = [row |-> row, versions |-> V]
      /\ \A k \in Attempts \ {j} : placed'[k] = placed[k]
  BY <1>1 DEF TypeOK
<1>3. /\ \A g : VersionsOf(g)' = VersionsOf(g) /\ Numbers(g)' = Numbers(g)
      /\ \A v : Kept(v)' <=> Kept(v)
      /\ \A g : Listed(g)' <=> Listed(g)
  BY DEF VersionsOf, Numbers, Kept, Listed
<1>4. EntryOfVersion' /\ CurrentIsLatest' /\ NoEmptyEntry'
  BY <1>1, <1>3 DEF EntryOfVersion, CurrentIsLatest, NoEmptyEntry
<1>5. PlacedVersionsStay'
  BY <1>1, <1>2, <1>3 DEF PlacedVersionsStay
<1>6. \A s \in Requests \ {r} : Protected(s)'
  <2>1. \A v \in Versions : lock[v] # None => PlacementsOf(v)' \subseteq PlacementsOf(v)
    BY <1>2 DEF PlacementsOf
  <2>2. None \notin Requests
    BY CatalogueAssumption
  <2> QED
    BY <1>3, <2>1, <2>2, OthersProtected
<1> QED
  BY <1>2, <1>4, <1>5, <1>6 DEF CatalogueInv, RowsAgree, AllProtected

LEMMA SignCommitKeeps ==
    ASSUME RowLocks, CatalogueInv, NEW r \in Requests, SignCommit(r)
    PROVE  CatalogueInv'
<1>1. TypeOK /\ req[r].attempt \in Attempts /\ req[r].rows \subseteq Versions
  BY DEF CatalogueInv, SignCommit, AllProtected, Protected
<1>2. \A v \in req[r].rows : Kept(v) /\ lock[v] = None
  BY DEF SignCommit, Free
<1> QED
  BY <1>1, <1>2, AnswerEffect, PlacementKeeps DEF SignCommit, AttemptState

LEMMA DeleteAttemptKeeps ==
    ASSUME CatalogueInv, NEW j \in Attempts, DeleteAttempt(j)
    PROVE  CatalogueInv'
<1>1. TypeOK /\ None \notin Requests
  BY CatalogueAssumption DEF CatalogueInv
<1>2. PICK V \in SUBSET Versions : V = placed[j].versions
  BY <1>1 DEF TypeOK
<1>3. placed' = [placed EXCEPT ![j] = [row |-> "gone", versions |-> V]]
  <2>1. placed[j] \in [row : AttemptState, versions : SUBSET Versions]
    BY <1>1 DEF TypeOK
  <2>2. [placed[j] EXCEPT !.row = "gone"] = [row |-> "gone", versions |-> V]
    BY <1>2, <2>1
  <2>3. placed' = [placed EXCEPT ![j] = [placed[j] EXCEPT !.row = "gone"]]
    BY DEF DeleteAttempt
  <2> QED
    BY <2>2, <2>3
<1> QED
  BY <1>1, <1>3, PlacementKeeps DEF DeleteAttempt, AttemptState, TypeOK

-----------------------------------------------------------------------------
(* The theorems *)

LEMMA CatalogueStep == ASSUME RowLocks, CatalogueInv, [Next]_vars PROVE CatalogueInv'
<1>1. CASE UNCHANGED vars
  <2>1. TypeOK /\ \A r \in Requests : Protected(r)
    BY DEF CatalogueInv, AllProtected
  <2>2. CASE Requests = {}
    BY <1>1, <2>1, <2>2, SameRows DEF vars, TypeOK, CatalogueInv, AllProtected
  <2>3. ASSUME NEW r \in Requests PROVE CatalogueInv'
    <3>1. Protected(r)'
      BY <1>1, <2>1 DEF vars, dbVars, Protected, VersionsOf, PlacementsOf, Listed, Kept
    <3> QED
      BY <1>1, <2>1, <3>1, ReadingKeeps DEF vars, TypeOK
  <2> QED
    BY <2>2, <2>3
<1>2. ASSUME NEW g \in Graphics, NEW v \in Versions, CreateGraphic(g, v) PROVE CatalogueInv'
  BY <1>2, CreateGraphicKeeps
<1>3. ASSUME NEW g \in Graphics, NEW active \in BOOLEAN, UpdateGraphic(g, active)
      PROVE  CatalogueInv'
  BY <1>3, UpdateGraphicKeeps
<1>4. ASSUME NEW r \in Requests, NEW g \in Graphics, UploadLock(r, g) PROVE CatalogueInv'
  BY <1>4, UploadLockKeeps
<1>5. ASSUME NEW r \in Requests, NEW v \in Versions, UploadCommit(r, v) PROVE CatalogueInv'
  BY <1>5, UploadCommitKeeps
<1>6. ASSUME NEW r \in Requests, NEW v \in Versions, DeleteLock(r, v) PROVE CatalogueInv'
  BY <1>6, DeleteLockKeeps
<1>7. ASSUME NEW r \in Requests, DeleteCount(r) \/ DeleteLoad(r) PROVE CatalogueInv'
  BY <1>7, DeleteReads
<1>8. ASSUME NEW r \in Requests, DeleteReferenced(r) \/ SignRefused(r) \/ Fail(r)
      PROVE  CatalogueInv'
  BY <1>8, AnswerKeeps DEF DeleteReferenced, SignRefused, Fail
<1>9. ASSUME NEW r \in Requests, DeleteCommit(r) PROVE CatalogueInv'
  BY <1>9, DeleteCommitKeeps
<1>10. ASSUME NEW r \in Requests, OrderLock(r) PROVE CatalogueInv'
  BY <1>10, OrderLockKeeps
<1>11. ASSUME NEW r \in Requests, OrderCommit(r) PROVE CatalogueInv'
  BY <1>11, OrderCommitKeeps
<1>12. ASSUME NEW r \in Requests, NEW j \in Attempts, NEW V \in SUBSET Versions,
              SignChoose(r, j, V)
       PROVE  CatalogueInv'
  BY <1>12, SignChooseKeeps
<1>13. ASSUME NEW r \in Requests, SignCommit(r) PROVE CatalogueInv'
  BY <1>13, SignCommitKeeps
<1>14. ASSUME NEW j \in Attempts, DeleteAttempt(j) PROVE CatalogueInv'
  BY <1>14, DeleteAttemptKeeps
<1> QED
  BY <1>1, <1>2, <1>3, <1>4, <1>5, <1>6, <1>7, <1>8, <1>9, <1>10, <1>11, <1>12, <1>13, <1>14
     DEF Next

\* With row locks, whatever overlaps: what every request under way relies on is
\* so, and the rows of the catalogue agree.
THEOREM CatalogueIsSafe == ASSUME RowLocks PROVE Spec => []CatalogueInv
<1>1. CatalogueInv /\ [Next]_vars => CatalogueInv'
  BY CatalogueStep
<1> QED
  BY CatalogueInit, <1>1, PTL DEF Spec

\* What is offered as the current version of an entry is its latest one, and
\* never one that was deleted, for any number of administrators at work.
THEOREM CurrentStaysLatest == ASSUME RowLocks PROVE Spec => []CurrentIsLatest
<1>1. CatalogueInv => CurrentIsLatest
  BY DEF CatalogueInv, RowsAgree
<1> QED
  BY CatalogueIsSafe, <1>1, PTL

\* An entry is in the catalogue exactly as long as it has a version.
THEOREM EntriesHaveVersions == ASSUME RowLocks PROVE Spec => []NoEmptyEntry
<1>1. CatalogueInv => NoEmptyEntry
  BY DEF CatalogueInv, RowsAgree
<1> QED
  BY CatalogueIsSafe, <1>1, PTL

\* The versions an attempt places are there until its document is deleted.
THEOREM PlacementsKeepVersions == ASSUME RowLocks PROVE Spec => []PlacedVersionsStay
<1>1. CatalogueInv => PlacedVersionsStay
  BY DEF CatalogueInv, RowsAgree
<1> QED
  BY CatalogueIsSafe, <1>1, PTL
=============================================================================
