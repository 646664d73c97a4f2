# Signur in TLA+

Specifications, model-checking runs and proofs for Signur, a service where
documents are uploaded, queued for signature, signed with a smart card (or
stamped with an image) and kept. Paths below are relative to `src/signur/`.

## The system

Signur is one process: FastAPI handlers in a pool of threads, one event loop,
one signature worker started with the service (`worker.py`), one database and
one directory of files. The database is SQLite by default and PostgreSQL for
larger installations, and the difference matters: the handlers protect
themselves with `SELECT ... FOR UPDATE`, which locks rows on PostgreSQL and does
nothing on SQLite.

| component | state it keeps | operations | what must be true |
|---|---|---|---|
| signing workflow: `signature_service.py`, `api/signatures.py`, `api/documents.py`, `api/admin.py` (owner) | tables `documents`, `signature_jobs`, `signed_artifacts` | upload, delete, change owner, enqueue, claim, process, recover, sweep | one attempt at a time, a signature is final and has one result, no attempt is stuck |
| PIN vault: `pin_vault.py` | a dictionary in memory | hold, take, discard | a PIN serves the attempt it was typed for, once, and does not linger |
| worker and signal: `worker.py`, `work_signal.py` | an `asyncio.Event`, a flag, the pump's position | listen, notify, wait, run_once | no nudge is lost, the queue is worked off |
| accounts: `auth.py`, `sessions.py`, `api/auth.py`, `api/admin.py`, `admin_cli.py` | tables `users`, `user_sessions`, `bootstrap_state` | first user, login, logout, password, role | one first administrator, at least one administrator, revocation is immediate |
| certificates: `api/proxies.py`, `secret_box.py` | table `signing_proxies` | create, update, delete, reorder | an attempt signs with what was chosen |
| blob storage: `storage.py` and the handlers that call it | files, table `blobs` | store, commit, delete | a row's file exists; a file without a row is left by known faults only |
| graphic catalogue: `api/graphics.py` | tables of graphics, versions, placements | create, version, delete, reorder | a placed version stays, the current version is the latest, no entry without an image |
| detection: `detection.py`, `cms_content.py`, `pdfa.py` | none | classify, unwrap | the preview shows the PDF under all the envelopes |
| live events: `api/events.py` | one connection per browser | snapshot every second | closed when access ends |
| signature builders: `cades.py`, `pades.py`, `xades.py`, `graphics_pdf.py` | none of their own | build | no signature is lost, field names are fresh, graphics lie where they were placed |
| card and proxy clients; assembly, migrations, audit; web and command line clients | - | - | not modelled |

How they interact: a handler writes rows and commits; `enqueue_signature` puts a
typed PIN in the vault *before* its commit and calls `work_signal.notify()`
*after* it; the pump, in the event loop, runs `run_once` in a thread, which
claims the oldest `QUEUED` row in one session and processes it in another. The
worker shares nothing with the requests but the rows, the vault and the signal.

What is hard here: a request is several statements, each of which may see what
others committed in between; the worker keeps the objects it loaded for as long
as the card takes; SQLAlchemy's identity map does *not* refresh an object that a
later `FOR UPDATE` selects again, so a lock does not bring a fresh value; the
sessions do not expire at commit; the process may stop anywhere; a commit may
fail, the one that records a failure included. The list of these hazards, with
the line where each bites, is in `PROJECT.json`.

## Modules

| module | what it is |
|---|---|
| `PinVault` | the operations of the vault, as operators on the set of its entries |
| `SigningWorkflow` | the workflow: requests, worker, restarts; the core of this project |
| `SigningInvariant` | its inductive invariant, in named parts |
| `SigningWorkflow_proofs` | the proofs about it |
| `DocumentLifecycle` | the abstract specification: what a document goes through |
| `SigningRefinement` | how the rows read as a `DocumentLifecycle` |
| `WorkSignal`, `WorkSignal_proofs` | how the worker learns that there is work; no nudge is lost |
| `LocalAccounts`, `LocalAccounts_proofs` | accounts, sessions and event streams in local mode, and the proofs about them |
| `ForwardAccounts`, `ForwardAccounts_proofs` | the first requests behind an authenticating proxy, changes of mode; one first administrator |
| `BlobStorage`, `BlobStorage_proofs` | files and the rows that name them, errors at every step, power loss; rows and files stay together |
| `GraphicCatalogue`, `GraphicCatalogue_proofs` | graphics, their versions and the placements that refer to them; the rows of an entry agree |
| `Certificates`, `Certificates_proofs` | certificates against the attempts that wait for one; nothing chosen or changed is lost |
| `PlacementGeometry` | from a placement on the displayed page to a matrix of user space |
| `SignedContent`, `SignedContent_proofs` | what is in a file: detection, envelopes, the builders, the preview; the proofs about both |
| `MC...` | the modules TLC runs, which add the symmetry sets and constants |

`SigningWorkflow` composes `PinVault` (by `EXTENDS`) with the requests and the
worker; `SigningRefinement` instantiates `DocumentLifecycle` with the rows.
`BlobStorage` instantiates the same `DocumentLifecycle`, which `SigningWorkflow`
implements, so that its commits are the steps the workflow allows and only the
work on files is its own. `SignedContent` composes `PlacementGeometry` (by
`EXTENDS`) with the rest of what a signature does to a file.
`WorkSignal` accounts for one assumption of `SigningWorkflow`, that the worker
takes a step whenever there is one to take.

Definitions called a *mutant* in their comment are no part of the
specification: each is a plausible mistake in the definition that follows it,
and the property paired with it in `PROJECT.json` fails when it takes that
definition's place.

### SigningWorkflow

`doc`, `job` and `artifacts` are the rows; `role` and `savedPin` what the
workflow reads of users and certificates; `held` the vault; `lock[d]` who holds
the row of `d`; `req[r]` what the thread of request `r` keeps between its
statements; `worker` the same for the worker. An action is what a thread does
between two points where another can commit:

| code | actions |
|---|---|
| `create_signature`, reads | `CreateSignature` (keeps the state it read) |
| `enqueue_signature` | `EnqueueLock` or `EnqueueRefuse`, `EnqueueNumber`, `EnqueueCommit` or `EnqueueRollback` |
| `delete_document` | `DeleteLock`, `DeleteCheck`, `DeleteCascade`, `DeleteCommit`, `LockedRefuse` |
| `update_document_owner` | `OwnerLock`, `OwnerCheck`, `OwnerCommit`, `LockedRefuse` |
| `upload_document`, `update_role`, `update_proxy` (saved PIN) | one action each |
| `release_orphaned_signatures` | `ReleaseOrphans`, `ReleaseOrphansFails` |
| `claim_next_signature` | `ClaimNextSignature` |
| `process_claimed_signature` | `Load` (`LoadAttempt` or, without row locks only, `LoadNothing`), `AcquireIdentity`, `CardSigns`, `StoreResult`, `FinalizeCommit` / `FinalizeRefused`, `RecoverCommit` / `RecoverFails`, `ReleaseAttempt` |
| the process stops and starts | `Restart` |

`RowLocks` chooses the database. With it (PostgreSQL, READ COMMITTED) a `FOR
UPDATE` waits for the row and keeps it until the transaction ends, and nothing
that was read before is refreshed. Without it (SQLite) a `FOR UPDATE` is a plain
`SELECT`, each `SELECT` sees what is committed at that moment, and a flush with
its commit is one step since SQLite has one writer. `CommitFails` lets any
commit raise. Everything the card, the proxy, the builders and the files may do
is a choice between going on and raising.

Simplifications, none of which hides a step of another actor: the row an attempt
belongs to carries no hash, since no handler changes a document's content; the
signature modes are three ways to sign (`graphic`: no card; `remote`: no PIN;
`local`: typed or saved PIN); a deleted id is not used again, as ids are random;
`ReleaseOrphans` reads and writes in one step, which without row locks is coarser
than the code; a role changes by `update_role` alone, not
from `signur-admin`.

### DocumentLifecycle

Per document: where it is (`to_sign`, `signing_failed`, `signed`, `deleted`),
its owner, and whether an attempt is pending. At most one attempt, a signature
for ever, no deletion and no change of owner during an attempt. It knows no
requests, locks, versions, PINs or crashes. `SigningWorkflow` with row locks
implements it (`ImplementsLifecycle`).

### WorkSignal

Requests commit (`EnqueueCommit`) and notify in two steps, under and outside the
guard; the loop runs scheduled callbacks; the pump listens, sweeps, claims,
waits, wakes and clears. Between a request's commit and its `notify()` lies
`session.refresh` (`signature_service.py:143`), which may raise, or the commit's
answer may be lost: `RequestRaises` leaves a `QUEUED` row nobody announces. The
queue is a number. `raised` and `silent` are history: whether the last `run_once`
raised, and how many requests raised before their nudge since the pump last
found an empty queue; the properties say what holds beside them.

### LocalAccounts

`account` and `session` are the tables; `req[r]` is what the thread of request
`r` keeps between two points where another transaction can commit, `rows` the
rows it selected `FOR UPDATE`; `stream[s]` a WebSocket.

| code | actions |
|---|---|
| `login`, `logout`, a session that expires | `Login`, `LoginCommit`; `SessionEnds` |
| `change_password`, `reset_password` | `ChangePassword`, `ChangePasswordCommit`; `ResetPassword`, `ResetPasswordCommit` |
| `create_user` | `CreateUser`, `CreateUserFind`, `CreateUserCommit` |
| `update_user` | `UpdateUser`, `UpdateUserLock`, `UpdateUserFind`, `UpdateUserCommit` |
| `update_role` | `UpdateRole`, `UpdateRoleLock`, `UpdateRoleRead`, `UpdateRoleCount`, `UpdateRoleCommit` |
| `signur-admin users set-role` | `SetRole` |
| PostgreSQL rolls back one of a circle of waiting transactions | `DeadlockDetected` |
| the process stops and starts, `ensure_bootstrap_admin` included | `Restart` |
| `events` | `OpenStream`, `RefreshStream`, `CheckStream`, `Disconnect` |

The first action of each request is its authentication (`Resolved`:
`resolve_local_user`; `AskAsAdmin`: `require_admin`), and what it read then is
what the later ones use: an administrator's own row is not refreshed by the
`FOR UPDATE` that selects it again. `Wants(r)` are the rows the next statement
of `r` must have, those it updates and those its audit event and its session
refer to; with row locks it waits (`Free`) for whoever selected one of them
`FOR UPDATE`. `LowerDb` and `LowerPy` are the two `lower()` functions whose
results `find_local_user` compares.

Simplifications: every request comes from the machine itself, which is what the
first-run account needs; a password is the number of passwords its account has
had, and whoever proves one knows it (a session remembers in `under` which one
its login was verified against, for the property only); an expired session
equals a deleted one; the several rows of one `FOR UPDATE` are taken together;
of `update_user` only the user name matters; a request that is refused for a
reason no property is about takes no step.

### ForwardAccounts

`role` is the table `users`, `bootstrap` the one row of `bootstrap_state`,
`holder` the transaction that keeps that row, `req[r]` how far `resolve_user` is.

| code | actions |
|---|---|
| `resolve_user` | `Arrive`, `LockBootstrap`, `FindAgain` or `FindNobody`, `CreateCommit`, `Fail` |
| `update_role`, `signur-admin users set-role` | `UpdateRole`, `SetRole` |
| the service stops and starts, maybe with another `auth_mode`; `ensure_bootstrap_admin` | `Restart` |

`granted` is history: who became an administrator without another one's doing. A
request that finds its person known at the first look ends there and takes no
step.

### BlobStorage

`file[k]` is the file of a storage key: where it is, how much of it is there and
would be after a power loss, whether its directory entry is on disk. `blob`,
`original`, `result` and `graphics` are the rows and columns that name keys.

| code | actions |
|---|---|
| `store_upload`, `store_bytes` | `StoreUpload` or `StoreResult` opens `.tmp/<key>.part`; `WritePart`, `SyncPart`, `RenamePart`, `SyncDirectory`, `StoreRaises` |
| `upload_document`, `create_graphic`, `upload_graphic_version`, the result of `process_claimed_signature` | `FlushUpload` or `FlushUploadRaises`; `Commit`, `CommitRaises`, `CommitRaisesElse`, `AnswerLost`; `RefuseResult`, `RecordFailure` |
| `delete_document`, `delete_graphic_version` | `DeleteDocument` or `DeleteVersion`, then `DeleteFile`, `UnlinkRaises` or `DeleteAnswerLost` |
| enqueue and claim | `RequestSignature`, `Claim`, as `DocumentLifecycle` has them |
| the machine stops | `PowerLoss` |

`mishap[k]` is history: what befell a key that the code could not put right, so
that the properties can say exactly which faults they survive. Of `Faults`,
`answer` is a commit that the database did although the handler saw an error,
`early` an error of `upload_document` before its `try`, `unlink` a
`storage.delete` that raises. Nobody syncs the directory after an unlink
(`storage.py:72`, `91`, `102`): the file is `gone`, and a power loss may bring it
back as it was. Simplifications: the sync of a file's directory also makes the
directory's own creation last; the unlinks in `storage.py` itself do not raise;
downloads, which change nothing, are left out; a file is either whole or partial.

### GraphicCatalogue

`graphic` and `version` are the tables, `placed[j]` the versions the placements
of an attempt refer to, `lock` who holds a row, `req[r]` what a transaction
read.

| code | actions |
|---|---|
| `create_graphic`, `update_graphic` | one action each |
| `upload_graphic_version` | `UploadLock`, `UploadCommit` |
| `delete_graphic_version` | `DeleteLock`, `DeleteCount` or `DeleteReferenced`, `DeleteLoad`, `DeleteCommit` |
| `reorder_graphics` | `OrderLock`, `OrderCommit` |
| `create_signature`, `enqueue_signature` | `SignChoose`, `SignCommit` or `SignRefused` |
| `delete_document`, for its attempts | `DeleteAttempt` |
| an error, a rollback | `Fail` |

With `RowLocks` a placement that is inserted takes its version `FOR KEY SHARE`:
it waits for a transaction that has the row `FOR UPDATE` and fails when the row
is gone. SQLite is run without `PRAGMA foreign_keys`, so there it may refer to
nothing. Names, descriptions and the decoding of an image show as requests that
fail; the files are `BlobStorage`'s.

### Certificates

`cert` is `signing_proxies`, `job` the columns of `signature_jobs` that name a
certificate, `pins` the attempts whose typed PIN is in the vault, `worker` the
attempt in hand with the certificate it was loaded with.

| code | actions |
|---|---|
| `create_proxy` | `CreateRead`, `CreateCommit` |
| `update_proxy` | `UpdateSelect`, `UpdateCommit` |
| `reorder_proxies` | `ReorderSelect`, `ReorderCommit` |
| `delete_proxy` | `DeleteSelect`, `DeleteCheck` or `DeleteRefused`, `DeleteCommit` |
| `create_signature`, `enqueue_signature` | `Choose`, `Enqueue` |
| the worker | `Claim`, `Load`, `Sign` or `Refuse` |
| the vault's sweep, errors, the process stops | `Forget`, `Fail`, `Restart` |

An `UPDATE` writes the columns that differ from what its transaction read
(`Written`), as SQLAlchemy's unit of work does; this is what two overlapping
updates could lose. `updates` and `listing` are history.

### PlacementGeometry and SignedContent

`PlacementGeometry` is `graphics_pdf.py`'s way from a placement (fractions of the
page as displayed, from its top left corner) to the matrix of user space, with
pages that do not start at the origin and that `/Rotate` turns, and
`placement_rect` with its rounding, the box of a PAdES field. `SeenX` and `SeenY`
are the reference: what a viewer does. Against it `SeenAsPlaced` says that each
corner of an image is seen exactly where the placement has it, and
`BoxSeenAsPlaced` that each edge of a box is, to half a point. Fractions are whole
numbers of `Unit`s and page boxes have whole points, so the arithmetic is exact;
the code computes in floating point.

`SignedContent` has one variable: per document its file, what was detected when it
was uploaded, what was asked and the result. A file is a *core* (what it was
before anything was signed) and the steps done to it since, the outermost last: a
CMS envelope with its signers, a PAdES revision with its field, a drawing, an
XAdES signature. Uploading, detecting, asking and building are `Upload` and
`Sign`; `NestedContent` is `extract_nested_content`, and `Preview` is
`preview_pdf`. `Opened` and `Revisions` are what is there after each turn of the
loops of `extract_nested_content` and of `process_claimed_signature`. Simplifications: both XAdES packagings give XML; how pyHanko turns
a stamp inside its box is a library's; the checks of a fresh signature
(`verify_...`) raise or change nothing, and an attempt that fails takes no step
here (`SigningWorkflow` has it).

## Runs

| run | question | properties |
|---|---|---|
| `workflow_postgres` | do interleaved requests, the worker, commits that fail and a restart keep the rows in agreement? | `TypeOK`, `SafetyInv`, `OneActiveAttempt`, `SignedConsistently`, `AttemptsNumbered`, `SettledIsFinal`, `SignedIsFinal`, `VersionCountsChanges`, `OwnerKeptDuringAttempt`, `ImplementsLifecycle` |
| `workflow_liveness` | does everything come to an end? | `RunningIsInHand`, `PinsServeLiveAttempts`, `EveryAttemptSettles`, `EveryRequestAnswered` |
| `signal` | can the pump wait beside an attempt nobody will announce? is the interval needed when neither `run_once` nor a request raises (no), and enough when one does (yes)? | `NoLostNudge`, `NudgesSuffice`, `PollingSuffices` |
| `accounts` | can overlapping requests remove the last administrator (no); do administrators who edit each other get an answer (yes, by the deadlock detector at worst)? | `AccountsInv`, `AdminRemains`, `EveryRequestAnswered` |
| `accounts_streams` | does an open stream end when its identity does? (yes) | `StreamsEnd` |
| `forward_accounts` | who becomes administrator when several first users arrive together? | `OneFirstAdministrator`, `EveryArrivalAnswered` |
| `storage` | do files and rows stay together across errors and power losses, and which faults leave a file behind? | `StoredHasFile`, `NoLeftover` |
| `graphics` | can overlapping edits of the catalogue leave an entry without an image, or an attempt without what it places? (no) | `CurrentIsLatest`, `NoEmptyEntry`, `PlacedVersionsStay` |
| `certificates` | does an attempt sign with the certificate that was chosen, and is an administrator's change ever lost? | `ChosenStaysConfigured`, `HistorySaysWhatSigned`, `VersionCountsUpdates`, `OrderAsListed` |
| `content` | is a signature ever lost, a field name taken twice, an envelope not opened, a graphic misplaced? (no) | `EverySignatureKept`, `FieldsAreFresh`, `PreviewShowsThePdf`, `DrawnAsPlaced` |
| `stale_state` | is an attempt never queued on a signed document? (it is) | `NoAttemptOnSigned` |
| `old_password_session` | does a new password end every session of the old one? (no) | `SessionsFollowPassword` |

Bounds, and why they are enough. Two requests show every pair of handlers
interleaved, with the worker as the third actor; the hazards are all between two
transactions and the worker. Two attempts let one be stale while the other
signs, and the second retry what the first failed. One document is enough where a property is
about one: the rows of different documents meet only in the sweep, which the
inductive invariant of the proofs covers for any number. `MaxCrashes = 1` stops
the process once at any point. `MaxClock` and `ForgetAfter` of 1 let a PIN expire
or not. `MaxVersion` bounds only the changes of owner, of which
4 lets one fall between two attempts; the other versions are bounded by the attempts. The ids in `Jobs` are used once each, so where there is
nothing else to do the model stops; those configurations say `CHECK_DEADLOCK
FALSE`, as do the others whose ids run out. That nobody waits for somebody who
never moves is `EveryRequestAnswered`.

For `LocalAccounts`, two requests again show every pair, and the command line is
a third actor. Two accounts are the two administrators who demote each other, or
who compete for a name with the one the start creates. `Operations` names what
clients ask for in a run: the handlers a question is about, and those that lead
to the states it needs. `MaxPassword` of 2 lets a password replace one;
`MaxRestarts` of 1 lets the server find renamed accounts at its start. The
tokens are used once each. The streams run has one request at a time in flight,
since a stream's round reads the account and the session in two steps and one
request that commits between them is the hazard.

`forward_accounts`: two people and three requests, so that one of them arrives
twice while the other decides. `storage`: three keys and two documents are an
original, its result and a third file that must not be mixed up with them; two
requests and the worker; two power losses, whose every outcome is taken, the second
of which may meet a file that the first brought back.
`graphics`: three versions of two graphics and three transactions: two that
delete and one that places. `certificates`: three transactions, the one that
chooses among them, two certificates to order, `MaxVersion` of 2 for an update
under another one. `content`: three documents, so that a result of a result is
signed again; cores of every format; no, one and eight envelopes, the last being
the limit of `extract_nested_content`, which a signature then exceeds; placements
in thirds on pages of every rotation, one of them on a page that is not there.

Fairness. `SigningWorkflow`: a request that was taken goes on (weak fairness of
its steps: the thread pool runs it), the worker goes on (`WorkSignal` shows why),
time passes. What waits for a row that others keep taking gets strong fairness:
PostgreSQL queues the waiters of a row, so one cannot be overtaken for ever. No
fairness for the arrival of requests, administration, commits that fail or
restarts. `WorkSignal`: the threads, the loop and the pump go on; that
the interval elapses and that a claim tried again and again goes through
(`Polling`) is the premise of `PollingSuffices` only.

`LocalAccounts`: the steps of a request that was let in, strongly, because they
may wait for a row others keep taking, which PostgreSQL grants in order; the
deadlock detector; the rounds of a stream, which the event loop wakes every
second. Nobody has to ask for anything, to log out or to close a browser.
`ForwardAccounts`: strong fairness of each request's next step, for the same
reason. The other modules state safety only.

## Findings

Two are violation runs; `PROJECT.json` quotes the lines.

1. *A signed document gets a new attempt* (`stale_state`).
   `enqueue_signature` judges `locked_document.state` after the lock, but the
   object is the one `create_signature` read before waiting. The attempt fails
   in the end (`SignedIsFinal` holds), after the card has signed once more.
2. *A session outlives the password it was opened with* (`old_password_session`):
   a login verified the old password before the change and commits after it.

The passing runs assume PostgreSQL. `RowLocks = FALSE` in their configurations
shows what SQLite, which knows no row locks and has no foreign keys switched on,
does not keep:

- `workflow_postgres`: `OneActiveAttempt` (two requests both find no active
  attempt), `OwnerKeptDuringAttempt`, `VersionCountsChanges`, and `SignedIsFinal`
  (`api/documents.py:320`: a delete that read the document before it was signed
  removes it and its result);
- `accounts`: `AdminRemains` (two administrators demote each other, and each
  counts two);
- `forward_accounts`: `OneFirstAdministrator`, with two first administrators;
- `graphics`: `CurrentIsLatest`; `NoEmptyEntry`, when the last two versions are deleted together and
  each delete still sees the other's version, against `api/graphics.py:412`; and
  `PlacedVersionsStay`;
- `certificates`: `HistorySaysWhatSigned`, when the certificate is deleted between
  the choice and the commit: the attempt names it and the default proxy signs,
  against `api/proxies.py:285`.

`CommitFails = FALSE` in `workflow_liveness` stands for a database and a disk that
work: a commit, the load at `signature_service.py:315` or the `storage.delete` at
459 that raises may leave an attempt `RUNNING` in nobody's hands until the next
start. And since a PIN is held before the commit (line 113), one whose commit fails
stays in the vault until a later `hold` or `take` finds it too old, which may be
never; the docstring of `pin_vault.py` (lines 5-6) says that "A PIN nobody collects
is forgotten after a while".

Met while reading, and hazards in `PROJECT.json` where a line bites: rename
`admin`, restart the server, and `ensure_bootstrap_admin` creates a passwordless
one again (against line 82 of the repository's `README.md`); the first-run administrator whose browser still
sends the cookie of a session that is gone is served by every handler, but its
event stream is closed in the first round (`resolve_local_user` falls back,
`connection_still_authenticated` does not); on SQLite an account whose user name
has a capital letter outside ASCII can never log in (`lower()` of the database
leaves `È` alone, Python's does not); two overlapping requests can create `Anna`
and `anna`, because each looks for the other before it is there and the unique
constraint tells them apart (`api/admin.py:94`); `graphics_pdf.py:123` writes a
coordinate with `:g`, which for a graphic at the bottom edge of an A4 page can be
`4.67404e-14`, a form a PDF content stream does not have; the command line client
prefers a kept session cookie to a token of a later sign-in (`cli/src/signur_cli/client.py:37`), and
its refresh of a token races its logout (`cli/src/signur_cli/oauth.py:151`).

## Proofs

`SigningWorkflow_proofs`, for every set of documents, users, requests and
attempts and every bound:

- `TypeCorrect`: `Spec => []TypeOK`, with or without row locks.
- `Safety`: with row locks, `Spec => []SafetyInv`.
- `AttemptsAreExclusive`, `SignedOnce`: with row locks, `OneActiveAttempt`,
  `NoOrphanAttempt` and `SignedConsistently`, from it.
- `SignedForGood`, `SettledForGood`, `VersionsCount`, `OwnerStaysDuringAttempt`:
  with row locks, the action properties `SignedIsFinal`, `SettledIsFinal`,
  `VersionCountsChanges` and `OwnerKeptDuringAttempt`.
- `Refinement`: with row locks, `Spec => ImplementsLifecycle`.
- `NumbersHaveNoGap`: with row locks, `Spec => []AttemptsNumbered`.
- `NothingRunsUnattended`: on either database, when no commit fails, `Spec =>
  []RunningIsInHand`; `VaultServesAttempts`: with row locks, when no commit
  fails, `Spec => []PinsServeLiveAttempts`.

Assumptions: `ForgetAfterAssumption`, `WorkflowAssumption` (types of the
constants, `None` is nobody), and `RowLocks` where said; `CommitFails` is left open but in
the last two, and the number of restarts in all. When a commit fails the last two do
not hold: it may be the one that closes an attempt (`signature_service.py:484`),
which stays `RUNNING` in nobody's hands until a restart, or the one after a PIN was
held (`signature_service.py:113`), which then belongs to no attempt.

The rows alone are not inductive: that a delete finds no attempt at its check
says nothing of the moment it commits. `SafetyInv` therefore adds
`LockProtocol` (a request past its `FOR UPDATE` holds the row, and what it
checked is still so: no active attempt, not signed, the same version, the same
cascade), `WorkerView` (the attempt in the worker's hands is `RUNNING`, and its
document has the state and version the worker loaded; this is where
`OneActiveAttempt` protects the worker, which keeps no lock while the card
signs) and `FreshIds`. The proof has a lemma for each group of actions; the
frame lemmas (`ProtectedFrame`, `UnlockedRows`) say that a step which leaves the
rows of a document alone, or takes its lock, does not disturb the requests that
hold it. `workflow_postgres` checks `SafetyInv` with TLC.

The action properties and the refinement have one argument. `RowsStep`: under
`SafetyInv`, whatever a step is, its effect on the rows is nothing or one of
seven transactions, each with what it found (`Uploaded`, `Queued`, `Deleted`,
`GivenAway`, `Claimed`, `Signed`, `ClosedAll`): a request that commits holds its
row and nobody signs it, and the worker's document still is what it loaded. Each
property is then a short lemma about seven cases, and each transaction maps to
the action of `DocumentLifecycle` with its name's meaning, `ClosedAll` (the sweep
closes several attempts at once) to its failure of a set of documents. Three
facts had to be added as invariants of their own: `NewOwners` (an owner's
change names somebody), `NumberInv` (the attempts of a document are numbered 1 to
their count, and a request that read the last number finds the same attempts
when it commits; induction over `Cardinality`), and `PinsInv` (before the sweep no
`RUNNING` attempt has a PIN). `NothingRunsUnattended` needs the types alone.

`WorkSignal_proofs`: `NudgesAreKept`, `Spec => []NoLostNudge`, for any number of
requests; the strengthening is that the signal listens wherever the pump may
wait. The queue is compared with the number of requests that have still to nudge,
so the proof counts them: each step adds one to or takes one from a finite set.

`LocalAccounts_proofs`, for any number of accounts, tokens, requests and
streams and any two `lower()` functions, from `AccountsAssumption`:

- `AccountsSafe`: `Spec => []AccountsInv`, on either database.
- `AnAdminRemains`: with row locks, `Spec => AdminRemains`.

`AccountsInv` adds to the types `RequestsRefer` (what a request under way names
is still there), `IdsAreNew`, and `CountHolds`, which is why the last
administrator is safe: a request that counted the administrators and is about to
demote one holds the row of another, and with row locks nobody, not even
`signur-admin`, can take that one's role before. That the count alone, taken a
moment ago, says nothing when the role is written is what `RowLocks = FALSE`
shows.

`ForwardAccounts_proofs`: `OneFirst`, with row locks, `Spec =>
[]OneFirstAdministrator`, for any number of people and requests and any changes of
mode. `BootstrapInv` adds to it that a request under way asks for somebody
(`SomebodyAsks`) and that one which has read the row of `bootstrap_state` holds it
and has read what is still there (`DecidesAlone`): the row is the lock under which
the first administrator is decided.

`SignedContent_proofs`, for any documents, PDFs (pages, rotations, fields), number
of envelopes, sets of placements and chain of uploads and signatures, from
`UnitAssumption` and `ContentAssumption` (a PDF has finitely many fields, a request
finitely many placements, `None` is no document):

- `GraphicsLieAsPlaced`, about `PlacementGeometry` alone: the matrix puts each
  corner of the image where the reader placed it, and all of it on the page.
  `Share` and `Scale` are the products with a fraction, the only arithmetic in it
  that is not linear.
- `BoxesAreSeenAsPlaced`: each edge of the box of a field, rounded to points, is
  seen within half a point of the placement's, from `GraphicsLieAsPlaced` and
  `RoundIsNear`.
- `ContentsAreSound`: `Spec => []ContentInv`.
- `NoSignatureIsLost`, `FieldsStayFresh`, `PreviewIsRight`, `DrawnWherePlaced`:
  `EverySignatureKept`, `FieldsAreFresh`, `PreviewShowsThePdf` and
  `DrawnAsPlaced`, from it.

`ContentInv` says of every file and result that it is `Sound`: PAdES fields are its
own, and every signer of it is a document that was signed (or somebody elsewhere).
The last is what makes a document's own signature a new one, in a parallel
signature too, where a signer joins others in one envelope. `Grown` is what all the
builders have in common: the steps that were there stay, the outermost maybe with
one more signer, and what is added is signed by this document; `GrownSignatures`
turns it into `EverySignatureKept`. `FreeFieldIsFree` counts: among one more number
than there are fields one is free. The loops (a revision for each placement, an
envelope after the other, the first free number, `sorted`) are recursive functions
or choices of the model; induction being out of reach, each is shown by its least
counterexample: the numbers for which a statement fails have a least one
(`NatMin`, from the well-foundedness of `<`), and it is not 0 and does not follow a
good one. That `round()` keeps the box of a field on its page is `RoundStays`.

`BlobStorage_proofs`, for any number of keys, documents and threads, any set of
faults and any number of power losses, and with no assumption on the database:

- `BlobsAreSafe`: `Spec => []BlobInv`.
- `RowsHaveFiles`, `NothingIsLeftOver`: `StoredHasFile` and `NoLeftover`, from it.

`StoredHasFile` speaks of the moment a row is there; that a power loss at that
moment does no harm needs `Durable` (a stored row's file is under its name, synced
and with its entry on disk), and that the commit makes it so needs `Handled`: what
each step of a handler may rely on, in the order of `storage.py` (written, synced,
renamed, directory synced, committed; or committed, then unlinked).
`KeysDistinct` and `ReferencesDistinct` say that a key is in one hand and one
row: nobody else unlinks the file that is being stored.

`GraphicCatalogue_proofs`, with row locks, for any number of entries, versions,
attempts and requests:

- `CatalogueIsSafe`: `Spec => []CatalogueInv`.
- `CurrentStaysLatest`, `EntriesHaveVersions`, `PlacementsKeepVersions`:
  `CurrentIsLatest`, `NoEmptyEntry` and `PlacedVersionsStay`, from it.

The three hold together or not at all: `delete_graphic_version` computes the new
current version from the rows it loaded. `Protected` says that a request holds
the row of its entry, that the entry's current version and the versions it loaded
are still those, and that the version it is about to delete, found unplaced, is
unplaced until the commit, since whoever places it must have its row.

`Certificates_proofs`, with row locks, for any number of certificates, attempts
and requests:

- `CertificatesAreSafe`: `Spec => []CertificatesInv`.
- `AttemptsKeepTheirCertificate`, `HistoryIsTrue`, `NoUpdateIsLost`,
  `OrderStaysAsListed`: `ChosenStaysConfigured`, `HistorySaysWhatSigned`,
  `VersionCountsUpdates` and `OrderAsListed`, from it.

What a transaction read of the rows it holds is what they are when it writes
(`Protected`), so the columns it leaves out are right and the version it adds one
to is the current one; a certificate found unused stays so; and what the
worker loaded is what its attempt names (`WorkerInv`), for an attempt in flight
keeps its certificate from being deleted.

The inductive invariants that no run lists were checked by TLC on the constants
of the runs as well.

Only model-checked: liveness (out of the prover's reach), the closing of event
streams with it.

## Not modelled, and the plan

Next, in this order:

1. The credentials of the command line client (`client.py`, `oauth.py`), the only
   state it keeps.
2. Event streams in forward-auth mode.

Left out for good: the cryptography and the file formats (libraries), the card
and the HTTP proxy (I/O; their outcomes are choices in `SigningWorkflow`),
PDF/A validation (an external program whose verdict is shown and never judged),
the audit log (written with the change it reports, never read back),
configuration, migrations, the web frontend, and the floating-point arithmetic of
placements (exact here).
