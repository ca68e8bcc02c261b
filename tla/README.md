# Verification of paia-supernote

paia-supernote connects a Supernote device's notebooks to agents. It polls
notebooks in the Supernote Cloud, keeps a ledger of page changes and a cache of
transcribed text in SQLite, serves both to agents, accepts their write requests
as events, and moves starred pages from inbox notebooks to others. This directory holds TLA+
modules of its core logic, configurations that check them with TLC, and proofs
checked with TLAPS. All source paths below are relative to `src/paia_supernote/`.

## Inventory

| Component | State it keeps | Operations | Interacts with |
|---|---|---|---|
| Cloud change ledger (`cloud_change_ledger.py`) | tables `notebook_snapshot`, `page_snapshot`, `page_change`, `agent_cursor` | `apply_snapshot`, `mark_page_ocr_status`, `advance_agent_cursor`, reads | ingest writes it, the read contract and the write guard read it |
| SQLite connections (`db.py`) | one file in WAL mode, a connection per call | `connect`, `migrate` | every store; several processes at once |
| Note snapshots (`note_snapshot.py`) | none | parse a notebook into page IDs, order and hashes | ingest, organizer |
| Cloud poller (`cloud_poller.py`) | `_last_seen`, `_poll_healthy` | list, download, call back, report its health | Cloud, ingest service, service, event bus |
| Ingest service (`ingest_service.py`) | page budget of a run | callback, OCR, retry sweep, once run, local watcher | poller, ledger, page state, reader |
| Page state (`page_state.py`) | table `page_state`, by page index | OCR upserts, failures with backoff, enrichment columns | ingest, enrich service, read contract |
| Notebook reader (`reader.py`) | page checksums, snapshots of checked boxes | read pages, recognise text and boxes | ingest, service |
| Read contract (`agent_read_contracts.py`, `cli.py changes`) | none (the cursor is the ledger's) | latest state, changes, advance | agents |
| Write contract and handler (`agent_write_contracts.py`, `main.py`, `events.py`) | `_since_id` in memory | poll events, guard, append or replace pages, answer | event service, uploader, ledger |
| Uploader (`uploader.py`) | browser session, lock file of all processes, a lock per notebook | download; check, delete, upload, settle; restart, renew, log in | Cloud |
| Page rendering (`writer.py`, `notebook_artifacts.py`) | none | wrap, paginate and draw an agent's text | write handler |
| Filing (`quick_filing_service.py`, `filing_ledger.py`, `move_pipeline.py`, `note_page_ops.py`) | table `filing_operations` | plan, copy to targets, clean the source | uploader, reader |
| Organizer (`organizer_*.py`, `note_reorder.py`) | image cache | load, reorder, move a page | uploader, page operations |
| Enrichment (`enrich_service.py`, `enrichment.py`, `folio.py`) | enrichment columns of `page_state` | scan, enrich, write to folio, mark | page state, folio |
| Tasks and board (`tasks_sync.py`, `task_curator.py`, `user_board.py`) | hash of the issues | rebuild the tasks notebook, curate its page | Linear, uploader, poller |
| Folder watcher (`watcher.py`) | checksum and debounce per path | call back | ingest |
| Codec, probes, audits (`ratta_rle.py`, `native_link_probe.py`, `quick_note_audit.py`, `snippet_detector.py`) | none | byte and text work | - |

### What is hard

* **Concurrency.** The ingest daemon, a hand-started `ingest --once`, the enrich
  service and the CLI processes of agents share one database; SELECTs run before the
  transaction that the first INSERT or UPDATE opens. Within a process, callbacks
  interleave at every `await`, and the watcher starts a thread per event. The service,
  the organizer and the device change one notebook in the Cloud, which offers no
  compare-and-swap; all coroutines of a process share one browser page.
* **Failure.** OCR of a page, a model call, a listing, a download, each call of an
  upload, the browser and the process itself can fail between any two steps that must
  agree: snapshot and transcript, delete and upload, upload and the record of it.
* **Identity.** The ledger identifies pages by ID, the transcript cache by
  index, filing by position in bytes of a given hash, footers by page number.
* **Repetition.** A restarted service gets its old events again; a stopped move is
  started again; pending pages are swept again; the event bus drops what has a
  dedupe key that it has seen.

What makes each component correct:

* *Ledger*: the change log is a faithful history of the page table, complete and
  without changes that did not happen; cursors do not lose their place.
* *Ingest and watcher*: an edit reaches the ledger; a page is `ready` only with its
  own text; failures heal; the debounce never drops the last edit of a burst.
* *Read contract*: what an agent read and what its write is checked against agree.
* *Write path*: nobody's change is overwritten silently, no request is applied
  twice, each one is answered, an answer is drawn whole.
* *Uploader session*: a crash of the browser or an expired token fails no call.
* *Filing and organizer*: no page is lost or copied again, the ledger is true of the
  Cloud, headings and links stay with their pages.
* *Enrichment*: folio follows the transcripts and never goes back; no page is marked
  that is not there.
* *Tasks*: each tick completes its issue, once; the notebook shows the open issues.
* *Health*: an outage and its end are visible on the event bus.

The hazards this code is exposed to, each at its line and with the properties
that guard it, are in `PROJECT.json`.

## Modules

| Module | Models | Depends on |
|---|---|---|
| `NoteSnapshot` | `PageRevisions`, what a parsed notebook hands to the ledger | - |
| `CloudChangeLedger` | the ledger, one step per call | - |
| `CloudChangeLedgerProofs` | theorems about it | `CloudChangeLedger` |
| `LedgerProcesses` | the same calls as the several database accesses they are, by several processes | `CloudChangeLedger` |
| `LedgerProcessesProofs` | theorems about it | `LedgerProcesses`, `CloudChangeLedgerProofs` |
| `AgentReads` | `supernote changes` as its several transactions, and the write guard, during ingest | `CloudChangeLedger` |
| `AgentReadsProofs` | theorems about it | `AgentReads`, `CloudChangeLedgerProofs` |
| `LedgerIngest` | Cloud, poller, ingest service, page state, serving of text | `CloudChangeLedger`, `NoteSnapshot` |
| `LedgerIngestProofs` | theorems about it | `LedgerIngest`, `CloudChangeLedgerProofs` |
| `FolderWatcher` | debounce, threads and checksum of the local watcher | - |
| `PollHealth` | a poll, its health, the status events on the bus | - |
| `FolioMirror` | what enrichment promises: the abstract specification | - |
| `Enrichment` | the enrich service beside an ingest process | refines `FolioMirror` |
| `NotebookWrite` | events client, write handler, organizer reorder, uploader, device | - |
| `NotebookWriteProofs` | theorems about it | `NotebookWrite` |
| `CloudSession` | the browser session below the uploader: locks, restarts, tokens, logins | - |
| `TasksNotebook` | `tasks.note` between Linear, the curator, the poller and the user | - |
| `ServicesProofs` | theorems about the services beside the ledger, one part for each | `FolderWatcher`, `PollHealth`, `CloudSession`, `TasksNotebook`, `Enrichment`, `PageRendering`, `RattaRle` |
| `NotebookFiling` | filing service, filing ledger, move pipeline | - |
| `NotebookFilingProofs` | theorems about it | `NotebookFiling` |
| `PageOps` | copying, removing and reordering the pages of a notebook | - |
| `Organizer` | reorders and moves by several browsers, and the device | `PageOps` |
| `OrganizerProofs` | theorems about it | `Organizer` |
| `PageRendering` | the loops that wrap, paginate and draw a text | - |
| `RattaRle` | the loops of the run-length codec of bitmaps | - |
| `MCLedgerReads`, `MCServices` | instances that compose several modules, see below | |
| other `MC...` | the bounded instance of the module of that name | |

**CloudChangeLedger.** `pageChange` is the `page_change` table as a sequence (a
change ID is a position), `pageSnapshot[nb]` the rows by page ID including those
with `removed = 1`, `notebookSnapshot[nb]` the current revision, `agentCursor`
the cursors. `Diff` is `_compute_diff`: `add`, `remove`, `update` and `reorder`, with
reorder positions counted among the pages whose hash did not change.
`ApplySnapshot` is `apply_snapshot` with its no-op check, diff, batch of
change rows and upsert; within a batch any order that the code's grouping allows is possible.

**LedgerProcesses.** `call[p].pc` is the next database access of process `p`. A
write is one step: it is one transaction. A crash and a lock timeout end a call
before its commit (`Abort`). `ImplementsLedger` is the refinement of
`CloudChangeLedger`: the variables are the same ones, and `overlapped` is a history
variable that becomes true when two calls of one kind are in progress on a
notebook.

**AgentReads.** One step per connection, as each ledger method opens its own:
revision, cursor, changes or pages, latest change ID. Ingest commits any revision but the
current one: the watcher of a local folder gives no update time, so its revision is
`0:<sha256>` (`ingest_service.py:162`) and comes back when a file has earlier bytes again.
`left` (history) has the revisions that a notebook had before.

**LedgerIngest.** `task[i]` is the ingest an ingester executes; steps end at each
`await` and each closed connection: `SeeFirst`/`SeeChange` (listing), `Download`,
`Apply` (snapshot and marking what to read), `ReadPage`/`ReadPageFails`/`ReadPageEmpty`/`SkipPage`
(one page), `MarkReady` (the ledger's status, a transaction of its own),
`StartSweep`, `Finish`, `Fail`, `Restart`. The text of a page is the content hash
it was read from, so a wrong text is visible. Two history variables say what has
happened: `transcribed` names the pages read in some content, `placed` the pages that any
applied notebook had at an index. `placed` is what decides whether a page ever shared its
index (`AlwaysAtItsIndex`): the change log does not, since a page that shifts because
another was inserted before it keeps its hash and its order and gets no record.

**NotebookWrite.** `op[p].pc` follows the code of `_handle_write_request` and
`upload_notebook`: `check` (conflict copies), `download` (with the comparison
with the base), `siblings`, `locate`, `delete`, `absent`, `upload`, `settle`,
`verify`. A notebook's content is the list of the changes made to it, so an
overwritten or repeated change is visible. The device synchronizes, restores a
notebook it finds missing, and makes conflict copies.

**NotebookFiling.** `run` is the run in progress; `ledger` maps an operation ID
(kind, pages, revision, target: what `operation_id_for` hashes) to its status. A
run records its operations, writes each target (`WriteTarget`, then
`MarkTargetWritten` in a transaction of its own), uploads the source once and closes
each operation (`MarkSourceRemoved`, `MarkCompleted`). `Stop` can come anywhere. `upload_notebook`
deletes the notebook before it uploads the new one, so each upload has a third outcome,
after which there is no notebook (`LoseTarget`, `LoseSource`, `missing`). The device may upload its
own copy then, which can lack what was filed last or still have what was moved away
(`RestoreTarget`, `RestoreSource`). History variables keep what this does to the
pages: `destroyed` counts the copies that went with a target, `returned` has the pages that
came back into the source. A source left without pages gets a `Blank` one, as
`remove_pages` makes it, which may be starred and filed in turn.

**Enrichment.** `row[p]` has the columns of `page_state` that matter: the revision of
the text, `text`, `dirty`, and `waits` (`next_retry_at` is in the future); `older` is
the order of `updated_at` in which `next_dirty_page` looks. `task` is the row that
`run_once` took, with the revision it had; a step ends at each `await`: `NextDirtyPage`,
`EnrichPage` (the model's answer and the stale check) or `MarkFailed`,
`UpsertSupernotePage` (folio) or `UpsertSupernotePageFails`, then `MarkEnriched`, which
is the UPDATE guarded by the revision. Ingest writes between any two of them.
`ImplementsMirror` is the refinement of `FolioMirror`: `source` is the revision of the
text of each mirrored page, `mirror` the revision in folio.

**FolderWatcher.** `threads` are the debounce threads of one path; each wakes up at any
time, claims `_pending`, reads the file, compares `_checksums` and runs the callback,
which reads the file once more (`ReadBytes`) and gives the bytes to the event loop
(`ScheduleCoroutine`), with other threads in between. The file may have earlier bytes again. History
variables: `past` bytes, those `given` to the loop, and whether two callbacks ever
`overlapped` between their read and their scheduling.

**PollHealth.** A poll lists, may log in again, and sets the health; the callback posts
an event whose dedupe key is `failed:<reason>:<status>` or `recovered:<uuid>`. The bus
keeps the keys it has seen; a post may fail and the daemon may end (`silent`).

**CloudSession.** `caller[c].pc` follows `_api_call` with its restart under the recovery
lock, the probe, `_refresh_session` and the attempts of an upload's start. Faults strike
at any step of anybody's call: the browser dies, the CSRF token or the login expires.

**TasksNotebook.** Three tasks of one event loop use one notebook: the poller's callback
(`reading`), the poll of Linear (`syncing`, with the delete and the upload of a rebuild
as steps) and a curation (`curating`). History variables count ticks and completions and
name the issues of which a tick is lost in one of the ways listed under the limits.

**PageOps, Organizer.** A notebook is its pages (PAGEID, ink, star) and the footers that
point at page positions; `ReorderPages` remaps them as `note_page_ops.py` does. A
`request` reads, uploads to the target and then to the source, as
`move_page_to_notebook` does, and interleaves with other requests and with the device.

**PageRendering, RattaRle.** Code without concurrency, modelled by its loops: an action is
one turn of a loop, and `layout` and `codec` say which loop runs. `PlaceWord` and `EndLine`
are `_wrap_text`, which runs for the text and again for each chunk of it; `PaginateLine` is
the loop of `paginate_content`; `DrawLine` and `EndPage` are that of `render_page`, which
measures the lines itself and stops at one that does not fit. It draws a line from the left
margin whatever its width: what is wider than `EdgeWidth` is cut there (`clipped`). `CountPixel` and `RunEnds` are
the loop of `encode`, `EncodeRun` that of `_encode_run`, `DecodePair` and `FinishImage` are
`decode`. The variables are the locals of the loops. Fonts are the operators `WidthOf` and
`HeightOf` on lines.

**MCLedgerReads, MCLedgerIngest, MCServices** put several instances into one run. A
variable that never changes names the one a behaviour belongs to: `scope` ("pages": all
arrangements of three pages in one revision, "reads": one page in revisions that come and
go, being read),
`deployment` (which ingesters run and what notes exist), `service` (which of the
services that share no state runs).

## Runs

| Run | Properties | Bounds |
|---|---|---|
| `ledger` | `LedgerTypeOK`, `LogReproducesPages`, `ChangesChain`, `PagesMatchRevision`, `EveryChangeIsLogged`, `NoSpuriousReorder`, `ReadTypeOK`, `AcceptedWriteSawCurrentPages` | 1 notebook, 3 pages, 2 hashes, 1 agent, 4 changes; reads: all commands, 3 revisions, up to renaming them |
| `processes` | `ProcessTypeOK`, `CommittedPagesAreServed`, `CursorWithinLog`, `ImplementsLedger` | 2 ingesters, 2 clients of an agent, 2 changes before the last write |
| `ingest` | `IngestTypeOK`, `ReadyWasTranscribed`, `ReadyTextIsOfThePage`, `RowTextIsOfItsRevision` | a daemon with restarts: any arrangement of 2 pages in 2 contents, 3 revisions of the file, or 2 of 3 pages that shift, 4 revisions; a capped once run beside a watcher callback |
| `ingest_live` | `EditsReachTheLedger`, `BackfillHeals` | a daemon and 3 edits; once runs capped at 1 page, 2 pages |
| `write` | `WriteTypeOK`, `NoRequestAppliedTwice`, `CompletedAppendExtendsItsBase`, `EveryRequestIsAnswered` | 2 requests, an organizer, 1 edit, reorder or crash |
| `filing` | `FilingTypeOK`, `NoPageLost`, `LedgerIsHonest`, `EveryCopyIsAccountedFor` | a page, one that the device adds and the blank one, 2 targets, 2 operations, 2 copies |
| `enrich` | `EnrichTypeOK`, `CleanIsMirrored`, `ImplementsMirror` | 3 pages (one the model refuses, one not mirrored), 2 revisions, 4 writes by ingest |
| `services` | `QuietMeansTaken`, `RecoveryIsOnTheBus`, `FaultsAreAbsorbed`, `EveryTickCompletesOnce`, `NoteShowsIssues`, `NoInkLost`, `FootersFollowTheirPages`, `AnswerIsDrawnWhole`, `BitmapRoundTrips` | see below |
| `index_key` | `ServedRowIsOfThePage` is violated | 2 pages, 2 edits |
| `missing_notebook` | `MissingOnlyDuringUpload` is violated | 1 request |
| `filing_duplicates` | `OperationsCopyOnce` is violated | 1 page, 1 target |
| `second_outage` | `OutageIsOnTheBus` is violated | 5 status events |

What the passing runs show:

* `ledger`: whatever sequence of snapshots arrives, replaying the change log gives
  the page table, every page's history chains from hash to hash, every visible
  change (also of two pages that changed places) is reported, and a page is
  reported as reordered only if it changed places with an unchanged page. Three pages are the
  fewest with which a move, an addition and a removal can meet in one diff;
  pages leave, return and return with other content within four changes.
  A snapshot that commits between the reads of one response can
  make its revision older than its pages, never newer. So the revision of a
  whole-notebook response passes the guard only with the current pages, unless the
  notebook came back to a revision that it had before.
* `processes`: the reads that run outside the transactions leave the served pages
  complete and every cursor within the log after any interleaving and crash, and cost nothing as long as calls
  do not overlap. Two ingesters and two clients make every pair of racing calls.
* `ingest`: the daemon marks no page ready that it has not
  read as it is; while a page has its index to itself its text is its
  own; and no row shows a text under the name of another revision, even when two
  ingesters write it in turn and a retry fails in between. Three pages are needed for a
  page to come to an index without a record of it in the change log.
* `ingest_live`: see fairness below.
* `write`: redelivery after a crash, a reorder, device edits, conflict copies and
  a failure at any call lead to no page appended twice and to no append reported
  as completed unless the notebook is its base and its page.
* `filing`: runs stopped anywhere and repeated, by stars with a model that routes a
  page differently each time or by page number, lose no page they were asked to
  move, claim nothing that is not so, and copy again only what was uploaded
  without being recorded, except for what goes with a notebook that an upload deleted
  and did not replace. Two operations are enough for one that is written, and recorded as such, when
  the upload of another deletes their target, and for one to come after a device's copy.
* `enrich`: whatever ingest writes while the model thinks, and wherever the model,
  folio or the process fails, a clean row is in folio in its revision, folio never goes
  back, and every page that the model can handle gets there, even if another one fails
  for ever. Two revisions and four writes let a page move on in each step of a task.
* `services`, one at a time:
  *folder*, 3 contents and 3 events of one file: when all is quiet the last bytes, if they
  are new, were given to the ingest service, whatever order the threads ran in, and they were
  given last unless two callbacks overlapped.
  *health*, 3 ways in which a listing fails, 5 events: a recovery is never suppressed, however many
  outages came before.
  *session*, 2 coroutines, one fault of each kind: one crash of the browser and one
  expired token are absorbed wherever they strike, alone or together, and no coroutine waits
  for its own lock.
  *tasks*, 2 issues, 2 ticks, 1 issue opened or closed by others, 1 failure, restart or
  curation: each tick completes its issue once, except in the ways named under the
  limits, and the page shows the issues of the last poll.
  *organizer*, 2 notebooks of 2 and 1 pages, 2 requests, an edit, a failed upload: no
  ink is lost except with an upload over an unseen edit or a failed one after its delete;
  headings and links stay with their pages through every reorder.
  *renderer*, texts of one or two lines of at most three words, some wider than a line,
  some taller than what is left of a page, one wider than the bitmap: pagination and drawing
  agree, no line is dropped, and only a word alone on its line is clipped.
  *codec*, bitmaps of three runs
  of lengths around the limits of a length byte: decoding gives what was drawn. The
  length byte has 2 values below its high bit instead of 128, and the runs reach past a
  whole chunk as the code's 16384 do.

Each property also fails under a mutated definition listed in `PROJECT.json`: a
dropped guard, a swapped order, a wrong key.

The violated ones:

* `index_key`: `page_state` is keyed by index, and the read contract falls back to
  the row at a page's index. After a page is inserted and removed again a ready page
  is served the other page's text. The design says that indexes must not be used
  as the identity of a page.
* `missing_notebook`: `upload_notebook` deletes the file before it uploads the new
  one; its docstring says that the original is untouched if the upload fails.
* `filing_duplicates`: a stop between a target's upload and its record lets the
  repeated scan append the page again, which the filing design excludes.
* `second_outage`: the dedupe key of a failed poll is its reason and status
  (`events.py:232`), so the bus drops the event of every later outage of that kind and
  goes on saying "recovered"; `_on_poll_health` (`main.py:427`) says that it emits an
  event on each transition.

### Bounds

Named constants bound what grows: `MaxChanges` (log), `maxTime` of a deployment and
`MaxEdits` (edits), `MaxContents` (bytes of a file), `MaxRequests`, `MaxDisturbances`, `MaxTrouble`, `MaxFaults`
(crashes, failures), `MaxPages`, `MaxRevision` and `MaxUpserts` (rows), `MaxEvents`, `MaxPosts`,
`MaxTicks`, `MaxLinear`; `MaxOperations` and `MaxCopies` are state
constraints of `MCNotebookFiling`, which cut runs after the states that exceed them,
with those states still checked. Notebooks are independent of each other in the ledger's
statements (each carries the notebook's name), so one is enough there; the proofs are for
any number. `MCNotesFew` and `MCNotesInPlace` restrict the arrangements of pages where
two ingesters or liveness make the state space large.
Runs do not check deadlock: all of them stop when their bounds are reached.

### Fairness

* `LedgerIngest`: the poller's loop never ends, so its listings and the steps of an
  ingest are fair. Steps that compete with a failure get strong fairness: a
  download, a page's reading and so on may fail any number of times but not each
  time. A backoff elapses. Somebody repeats `ingest --once`. Restarts
  (`MayRestart`) are excluded from `ingest_live` because a restarted
  daemon takes the current listing as seen; edits and failures are not fair.
* `NotebookWrite`: `Deliver` (the poll loop) and the steps of the service's
  operation are weakly fair, since every call returns, raises or times out.
  Retries and failures are not fair, and crashes are bounded.
* `Enrichment`: the loop of `start()` never ends, so `NextDirtyPage` is weakly fair;
  backoffs elapse. The later steps compete with failures and restarts and are strongly
  fair: on a page that the model can handle, the model, folio and the process do
  not fail every time. Nothing is assumed of the pages in `Refused` but that the call
  ends (`ModelAnswers`), and nothing of ingest.

## Proofs

Each theorem holds for any values of the constants that satisfy the named assumptions of
its module, and for runs of any length. Every `THEOREM` below that states an invariant
follows from one inductive invariant, given in the text: it holds initially, each action
has a lemma that keeps it (`...KeepsInv`, `...Keeps`), and it implies the property. What
is written here is why the property alone is not inductive and what has to be added.

### The ledger

`CloudChangeLedgerProofs`, for any notebooks, page IDs, hashes, revisions,
agents, lists of page revisions as snapshots, and any log length.

| Theorem | States |
|---|---|
| `LedgerTypeCorrect` | `LedgerSpec => []LedgerTypeOK` |
| `LogIsFaithful` | `LedgerSpec => [](LogReproducesPages /\ ChangesChain)` |
| `PagesAreTheRevision` | `LedgerSpec => []PagesMatchRevision` |
| `ChangesAreChained` | `LedgerSpec => []ChangesChain` |
| `CursorsAreWithinLog` | `LedgerSpec => []CursorWithinLog` |
| `EveryChangeGetsLogged` | `LedgerSpec => EveryChangeIsLogged` |
| `ReordersAreReal` | `LedgerSpec => NoSpuriousReorder` |

`NewPagesType`, `CurrentPagesIsMap` and `UpsertedRows` give the
rows that a snapshot leaves; `DiffRecords` and `DiffOnePerPage` say that a diff has at
most one record per page, exactly where existence or hash changed or the page
moved, with the old and the new hash in it; `DiffIsFinite` and `BatchIsSeq` that it can be put in a
sequence. `ChangesChain` is not inductive by itself: that the next record of a page
starts from the hash of the last one needs to know that the last one has the hash the
table holds. This is `LogReproducesPages`, so both are proved as one invariant
on top of the type invariant (`ApplyKeepsReplay`, `ApplyKeepsChain`, and
`MarkKeepsHashes` for the OCR status). `PagesMatchRevision` needs, besides the type
invariant, that a no-op snapshot equals the current one (`ApplyKeepsMatch`).

`LatestChangeId` chooses the greatest of a set, and that there is one has
to be carried along (`HasLatest`): after a batch of a notebook it is the last record of the
log. Since a log only grows, its greatest ID does too
(`CursorsStayWithin`). For `EveryChangeIsLogged`, `DiffOnePerPage` gives a record of each
page whose hash or existence changed. Of two pages that change places, either one has a
new hash, or both are among the pages with the same hash; there the positions of the two
are ordered one way before and the other way after (`PositionsAreOrdered`, by the
cardinality of the sets of earlier pages), so at least one of the two positions has changed and is
recorded as a reorder (`SwappedPagesAreInDiff`). Conversely, a position that differs means
that the sets of earlier pages differ (`MovedPastSomePage`), which gives the page that
`NoSpuriousReorder` asks for.

### Several processes on one ledger

`LedgerProcessesProofs`, for any number of ingesters and clients, whose calls interleave at
every database access. Assumed besides the ledger's assumptions: no process is both an
ingester and a client (`KindsOfProcesses`), and each client has an agent (`AgentsOfClients`).

| Theorem | States |
|---|---|
| `ProcessTypeCorrect` | `ProcessSpec => []ProcessTypeOK` |
| `LastCommitIsServed` | `ProcessSpec => []CommittedPagesAreServed` |
| `ProcessesImplementLedger` | `ProcessSpec => ImplementsLedger` |
| `LogIsFaithfulUntilOverlap` | `ProcessSpec => [](~overlapped => LogReproducesPages /\ ChangesChain /\ PagesMatchRevision)` |
| `InterleavedCursorsAreWithinLog` | `ProcessSpec => []CursorWithinLog` |

A call works on what it read some steps before. What it *checked* cannot be undone by the
others: notebooks are not forgotten, and the log only grows (`LedgerGrows`). This keeps
`ProcessInv`, which is enough for the types and the cursors, overlapped or not.
`CommittedPagesAreServed` holds with any overlap because a commit writes every page of its
snapshot, so it does not matter which old pages it was computed from (`CommitServes`).

The refinement is another matter. `ReadsAreFresh` is the invariant: until the first
overlap, what a call has *read* is still so. Its no-op check would still
fail, the pages it diffs against are those of the table in everything a diff looks
at (`SamePages`: a status mark may come in between), and the cursor it found smaller still
is. A commit is then one `ApplySnapshot` of the ledger (`FreshCommitIsApply`), an
advance one `AdvanceAgentCursor`, and all other steps are stutters. The refinement
carries `LogIsFaithful` over to the processes.

### Reads while the ledger changes

`AgentReadsProofs`, for any number of clients reading at once. Assumed besides the
ledger's assumptions: clients are named by their agents (`ClientsAreAgents`).

| Theorem | States |
|---|---|
| `ReadTypeCorrect` | `ReadSpec => []ReadTypeOK` |
| `AcceptedWriteIsInformed` | `ReadSpec => []AcceptedWriteSawCurrentPages` |
| `ReadsImplementLedger` | `ReadSpec => LedgerSpec` |

A response is put together from several transactions, and what was read first may be stale
when the rest is read. `ReadInv` says in which direction: a command reads the revision
first, so what it reads later is of this revision or of a later one, and in the second case the
notebook has left that revision (`PagesWereRead`, `ChangesWereRead`). Each step of
the ledger either leaves all that was read of a notebook as it is or puts the revision of what was
read into `left` (`ReadsStayRight`). So a revision that passes the write guard was shown with the
current pages; for a list of all changes since the start, this needs that replaying the log
gives the page table (`AllChangesShowPages`, by `LogIsFaithful`).

### Ingest

`LedgerIngestProofs`, for any pages, contents, pollers, once runs, watchers and
deployments. Assumed besides the ledger's assumptions: there is one notebook (`OneNotebook`;
notebooks share nothing), a callback of the watcher is no poller (`WatchersDoNotPoll`),
deployments consist of lists of pages without repeated IDs whose snapshots and revisions
the ledger's constants include (`DeploymentsAreOfNotes`), and `None` is no row of
`page_state` (`NoneIsNoPageState`).

| Theorem | States |
|---|---|
| `IngestTypeCorrect` | `IngestSpec => []IngestTypeOK` |
| `TextIsOfItsRevision` | `IngestSpec => []RowTextIsOfItsRevision` |
| `ReadyPagesWereTranscribed` | `IngestSpec => []ReadyWasTranscribed` |
| `ReadyPagesHaveTheirText` | `IngestSpec => []ReadyTextIsOfThePage` |

Ledger, transcripts and the task that connects them are three states that change at
different times. `IngestInv` ties them together. Every row of both tables is of a
page at a place where some applied notebook had it (`placed`), so a page that never shared
its index finds its own row there. With one ingester, the ledger holds the
notebook that is being read (`ReadsTheLedger`: a snapshot of it would be a no-op), and a
page about to be marked has its text at its index. A ready row was therefore
read in its content and has its text. This must also be said of rows marked
*removed*, since a page that returns unchanged is ready again without being read. The
retry sweep takes indexes from the ledger, and those of removed pages can lie beyond
the notebook: `todo` is bounded by the notebook only before the sweep. The mark comes
in a transaction of its own, after the text: nothing but the one ingester overwrites text,
so it is still there (`TextKeptByTask`). Proving this corrected the model twice. The bound of
`todo` was too small for a swept removed page, and `AlwaysAtItsIndex` used to be read off
the change log, which does not know every index a page was at.

### Writes to a notebook

`NotebookWriteProofs`, for any number of requests, reorders of organizers, edits and crashes. It assumes
that the requests are of the two kinds that are modelled (`KindsAreModelled`) and that the
service is no organizer (`ServiceIsNoOrganizer`).

| Theorem | States |
|---|---|
| `WriteTypeCorrect` | `WriteSpec => []WriteTypeOK` |
| `RequestsAreAppliedOnce` | `WriteSpec => []NoRequestAppliedTwice` |
| `CompletedAppendsExtendTheirBase` | `WriteSpec => CompletedAppendExtendsItsBase` |

`NoRequestAppliedTwice` looks at the Cloud, but content comes back from everywhere: from
the device, from what an agent was shown, from the new content that an operation holds through a
failed upload and its retry. So `WriteInv` says of every place that keeps a notebook that it
is `Sound`: it has no request twice, and none that is not published yet. The
second half is what makes a delivery after a crash harmless: a request is based on a revision
older than itself (`BasesAreEarlier`), an append compares what it downloaded with this base,
and so it never extends content that has the request already; a replacement consists of
its change alone. `CarriesOutRequest` keeps an
operation tied to its request in every step, and its new content is the base and the change,
which is what `CompletedAppendExtendsItsBase` needs when the last step answers.

### Filing

`NotebookFilingProofs`, for any finite set of pages, any targets, and any number of
runs, operations, edits, and notebooks that are deleted and come back.

| Theorem | States |
|---|---|
| `FilingTypeCorrect` | `FilingSpec => []FilingTypeOK` |
| `FilingLosesNoPage` | `FilingSpec => []NoPageLost` |
| `FilingLedgerIsHonest` | `FilingSpec => []LedgerIsHonest` |
| `FilingAccountsForCopies` | `FilingSpec => []EveryCopyIsAccountedFor` |

All four follow from `FilingInv`. The properties speak of the Cloud and the ledger, but the upload of
the source writes what the run holds in memory since it started. So
`RunFitsLedger` says that these bytes still contain every page of a recorded operation
that is in no target and no page of a cleaned one, that the run cleans up only
written operations, and that between an upload and its record the copy is in the target,
counted as unrecorded. `CleanedSourceFits` is the step that needs it: the
source the run uploads, over whatever the device did meanwhile, satisfies `NoPageLost`
and `LedgerIsHonest`. What an upload deletes moves from `target` to `destroyed`, and what a
device brings back the other way, so the invariant is about what was ever `Put` into a target, which
neither changes (`QuietKeepsInv`); that nothing is counted twice when a target comes back
is `MissingHoldsNothing`. Copies are counted with the cardinality of
`WritersOf`, so the invariant also says that the ledger is finite. The proof rests on
the model's assumption that the device does not add a page that is already known to
filing.

### Organizer

`OrganizerProofs`, for any notebooks, pages and number of browsers, moves, reorders and
failures. It assumes that the initial notebooks are notebooks whose footers fit
(`InitialNotesAreNotes`) and that the device does not draw the ink that stands for a blank
page (`BlankIsNoInk`).

| Theorem | States |
|---|---|
| `InkIsNeverLost` | `OrganizerSpec => []NoInkLost` |
| `FootersStayOnTheirPages` | `OrganizerSpec => []FootersFollowTheirPages` |

The first lemmas are about the page operations, for a notebook of any length: what pages and
footers `CopiedPage`, `RemovedPages` and `ReorderedPages` leave. The model removes pages with
functions rather than recursion, so no induction is needed; `IthCounts` says that the kept
positions are counted without a gap. A request writes what it
computed from notebooks it read earlier. `RequestOK` therefore distinguishes a
*fresh* request, whose notebook still has the `updateTime` it read, from a stale one: a fresh
one holds every ink that is in the notebook now, and a stale one that uploads is
counted in `dropped` for what it overwrites. Between its two uploads a move holds a source
without the moved ink, so that ink in the source notebook does not count as safe:
`InkIsKept` asks of each ink for a *witness*, a notebook that has it and from which no request
is about to remove it (`WillKeep`). Before the upload of the target that is the source, after it
the target. The footers need only the requests' own contents: what was computed
from a notebook whose footers fit has fitting footers.

### The services beside the ledger

`ServicesProofs` has a part for each of seven modules.

| Theorem | States |
|---|---|
| `LastEditIsTaken` | `FolderSpec => []QuietMeansTaken` |
| `RecoveriesAreDelivered` | `HealthSpec => []RecoveryIsOnTheBus` |
| `OneFaultOfAKindIsAbsorbed` | `SessionSpec => []FaultsAreAbsorbed` |
| `TicksCompleteOnce` | `TasksSpec => []EveryTickCompletesOnce` |
| `PageShowsHashedIssues` | `TasksSpec => []NoteShowsIssues` |
| `EnrichTypeCorrect` | `EnrichSpec => []EnrichTypeOK` |
| `CleanRowsAreMirrored` | `EnrichSpec => []CleanIsMirrored` |
| `FolioOnlyMovesForward` | `EnrichSpec => Mirror!MirrorInit /\ [][Mirror!MirrorNext]_Mirror!mirrorVars` |
| `EveryAnswerIsDrawnWhole` | `RenderSpec => []AnswerIsDrawnWhole` |
| `EveryBitmapRoundTrips` | `RleSpec => []BitmapRoundTrips` |

*Folder watcher*, any number of edits and events: new bytes of the file are dealt with or
about to be (`Covered`), or
an event or a thread is on its way to them (`Awaited`). A thread gives up in two
places. A superseded one leaves the file to the thread of a later event. One that meets
its own checksum needs the invariant's second half: a recorded checksum stands for
bytes that are `Covered`. That the bytes were given last is `InOrder`: callbacks that never
overlapped schedule in the order in which they read, so new bytes that were given have
nothing older behind them.

*Poll health*, any statuses that are failures, outages and posts: a poll reports the health that it has just
set (`ReportIsOfHealth`), and the key of the next recovery is not yet on the bus, since
it contains a new UUID (`KeysAreOld`). So a recovery is never dropped as a duplicate
(`DeliveryAddsOneKey`), while a repeated failure is (the finding of `second_outage`).

*Session*, any callers on any hosts, the lock being free in the name of none of them
(`NobodyIsNoCaller`): the property allows one crash and one token, so a broken browser or a
stale session means that this fault is spent (`HostIsSafe`). A call that has restarted its
browser or renewed its token therefore finds them good and cannot fail for them again
(`CallIsSafe`). That they are still good when it comes back needs the locks: who calls,
renews or restarts holds the lock of the calls, so nobody else touches the session in
between, and who holds the recovery lock of a host is in the middle of its restart, so nobody
finds there a lock of its own.

*Tasks*, any non-empty set of issues (`SomeIssue`), any number of ticks, rebuilds, curations,
failures and restarts: each tick of an issue that is not `lost` is done, on the page or
in the poller's hands, and in one of these only (`TicksAreAccountedFor`). That a tick is
not taken for a new one a second time needs `TicksAreKnown`, for every page there is,
including those that the poller has yet to store and that a curation is about to upload;
that it is not skipped needs `UnreadTicksAreAhead`: the page that shows it has a version
that the poller has not seen and will not take for seen. `HashIsOfTheNote` and `OneUpload`
give what the page shows: between a hash and its rebuild, and from a curation to the next
change of the issues, it may be `behind`.

*Enrichment*, any pages, any choice of mirrored and of refused ones, any number of
revisions and writes; mirrored and refused pages are pages (`SyncedAreKnown`), the bounds
numbers (`EnrichBounds`): `CleanIsMirrored` speaks of rows and folio, but the service marks a row on
the strength of what it did some steps before. `EnrichInv` adds `FolioIsNotAhead` (no
page of folio is newer than its row, and only text is dirty) and `TaskFitsRow`: the row
under a task may have moved on, never back, folio does not have more than the task's
revision, and has exactly that one when the task comes to its mark. The guard of
`MarkClean` then makes the marked revision the one in folio. `EnrichTypeOK` says that the
rows of the table, and no other, are in one order by `updated_at`: a write puts its row
after all others (`WriteKeepsOrder`), and marks find a row that is there already.
For the refinement, a
reading is an `Advance` or changes nothing that `FolioMirror` sees
(`UpsertIsMirrorStep`), a folio write is a `Publish` of a newer revision or repeats the
one that is there (`PublishIsMirrorStep`), and every other step is a stutter.

*Rendering*, any words, lines, texts and fonts, such that a part of a line is a line
(`PartsAreLines`), a text has a line (`TextsHaveLines`, as splitting at newlines gives),
no line is taller than a page (`LinesFitOnPages`), the right margin is inside the bitmap
(`MarginsAreInside`) and an empty line has no width (`EmptyLineIsNarrow`): the pages hold the text if the second
wrapping and measuring repeat the first. `Wraps` says why the wrapping does: every beginning
of a wrapped line, from its second word on, is narrow enough, so that wrapping it again
never breaks it; a first word of any width stays. `IsPage` says why the measuring does: the
lines of a chunk have ends (`heights`) that are within the page, and the loop that draws
them meets the same ends (`ChunkIsDrawn`), so that it stops at none of them
(`EveryLineFits`). The words are carried from the text to the lines (`TextIsWrapped`), from
the lines to the chunks (`TextIsPaginated`) and from the chunks to the drawn pages
(`ChunkIsNext`). `ClippedAreWords` follows from `Wraps`: a line of several words is
within the margins, so what the edge of the bitmap cuts is a word alone on its line.

*Codec*, any base of the length byte from 2 on (`BytesHaveAHighBit`), any palette, bitmaps of
any length (`BitmapsAreGrey`): `PairsEndAt` gives to each pair the pixel at which what it
stands for `ends`. A pair with the high bit adds nothing by itself; the next pair is there,
has its colour and no high bit, and ends at the pixels of both (`ChunkParts` is the
arithmetic of the two bytes). The encoder appends one pair or such two (`OnePairMore`,
`TwoPairsMore`), and the image of the decoder is the bitmap up to the end of the pair it
has read last, with the pair it holds, if any, still to come (`ImageIsOf`). The decoder may
stop early, when the image is long enough; the ends say that this is after the last pair.

Both need facts about sequences of any length, for which the induction theorems of the library
cannot be used. Sums of lengths and heights are therefore functions that the invariant says
to exist (`heights`, `ends`) and that each step extends by one value; and what `FlattenSeq`
computes (`FlattenAppend`) is proved from its definition by looking at the least number of
sequences for which it would be wrong (`LeastOfSome`).

### Only model-checked

Every invariant and action property of a passing run is stated by a theorem. What is left to
TLC is liveness, which the installed provers cannot derive from fairness:
`EditsReachTheLedger`, `BackfillHeals`, `EveryRequestIsAnswered` and the liveness part of
`ImplementsMirror`.

## Limits of the code found while modelling

These need two overlapping actors or an unlucky moment; no passing property
claims otherwise, and the hazards in `PROJECT.json` name them.

* Two ingest processes that poll the same bytes both pass the no-op check and
  record its changes twice; two processes that acknowledge for one agent can
  leave the smaller cursor. `ImplementsLedger` is therefore stated up to the first overlap.
* A local file that has earlier bytes again has its earlier revision again. What an agent read
  while the file was different can then pass the guard, which compares revisions only.
* `get_changes` reads `next_cursor` after the changes: a snapshot that commits in
  between is covered by it but missing from the response. `--advance`
  acknowledges a new query rather than the batch shown before.
* An ingest that overlaps a newer one can mark content ready that it did not read
  (`ReadyWasTranscribed` is checked for one daemon). After a run aborted by its
  cap the next one reads the pending pages beyond the cap.
* `replace_pages` does not compare the downloaded bytes with its base, and filing
  uploads the source it downloaded at the start: an edit in between is lost.
* A filing upload that ends between its deletion and its upload takes with it pages of operations
  that the ledger has as written or completed, or the source. `missing`, `destroyed` and `returned`
  say which; nothing in the code repairs the ledger then.
* Two filing runs at once can overwrite each other's target; nothing in the code
  excludes it. The model has one run at a time.
* An answer whose publication fails is only logged. `stop()` ends the poller and the
  browser but waits for no handler (`main.py:378`), which may be between its delete and
  its upload. Write requests of the user board carry no base revision and are refused.
* An append draws one page and cuts what does not fit (`main.py:810`); the design
  (`docs/superpowers/specs/2026-04-14-paia-supernote-design.md:80`) asks for more pages.
* *Enrichment.* A folio error leaves its row dirty and without a backoff: a page that
  folio always refuses is taken first for ever and starves the others. With two enrich
  processes a late folio write could put an old revision over a new one, since it follows
  the stale check; nothing in the code starts two. A late failure delays and relabels a newer row.
* *Health.* A new poller takes itself to be healthy, so the end of an outage that spans
  a restart is never reported. Checkbox and snippet events have dedupe keys without a time
  (`events.py:166`): a task ticked again later is dropped by the bus.
* *Session.* A second crash while the browser is restarted makes the coroutine wait for
  the recovery lock that it holds (`uploader.py:541`), with the API lock of all processes.
  One counter serves for refused and for postponed attempts (`uploader.py:615`): a login
  that expires while a sync is awaited is not renewed. `FaultsAreAbsorbed` is about one
  crash and holding logins for these reasons.
* *Tasks.* The issue hash is recorded before the rebuild, so a failed one is not retried
  until the issues change. Checked boxes are stored before their issues are completed, a
  rebuild overwrites ticks made since the last poll, and a curated page replaces a notebook
  downloaded before a model call and gets no answer: such ticks are lost.
* *Organizer and page operations.* Crossing moves and unseen edits overwrite each other. A
  move that fails on its source leaves the page in both notebooks; repeated, it copies the
  page again. A notebook left empty keeps the PAGEID of its first page. Both put one PAGEID
  twice into a notebook, which then refuses every reorder, and so does a link that a
  removed page left dangling.
* *Watcher.* A file that cannot be read when the callback comes is taken as processed. Of two
  callbacks, the one that read the file first can schedule its coroutine last: the old bytes
  are then ingested after the new ones. A file that changes back to bytes whose checksum is
  recorded may be left with the bytes in between.
* *Rendering.* A word wider than a page is clipped at its edge (`writer.py:133`).
* *Uploader.* The listing of siblings after an upload fails open (`uploader.py:250`): `Settle` may
  miss a numbered copy, and a replacement is then answered as completed; an append is verified.

## Not modelled

* Codec of `.note` files, image rendering, fonts, layout, prompts, the form of the login
  page, HTML: no shared state, or outside the program.
* The parsing of page headers and stars (`quick_filing.py`), backups and parse checks of
  the move pipeline: text work, or they only stop a run.
* The display of the user board, the organizer's listings and its image cache, which is
  keyed by content.
* Probes and audits (`native_link_probe.py`, `quick_note_audit.py`), which read and print;
  the snippet detector, a model call.
* Legacy revisions without a hash, which the comparison with the base lets pass.
* Folders of the Cloud: a notebook is in one place.

## Plan

1. Done: the models of all components that keep state, listed above; the proofs of every
   safety property that a run checks; the refinements of `CloudChangeLedger` by the
   processes and of the safety part of `FolioMirror` by enrichment.
2. Left: the seven hazards in `PROJECT.json` that no property covers, each with its reason;
   they are limits of the code that a property could only state as violated.
