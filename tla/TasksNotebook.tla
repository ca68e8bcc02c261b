--------------------------- MODULE TasksNotebook -----------------------------
(***************************************************************************)
(* tasks.note: the service shows the open issues of Linear in it           *)
(* (tasks_sync.py), a curator rearranges it on request (task_curator.py),  *)
(* and the cloud poller reads it and completes the issues that the user    *)
(* has ticked off (main.py, reader.py).  All run in one event loop.        *)
(*                                                                         *)
(*   open      the open issues of Linear                                   *)
(*   note      the page in the Cloud: the issues it shows and those ticked *)
(*   version   its updateTime                                              *)
(*   seen      the marker of the poller, 0 if it has none                  *)
(*   lastPage  the page whose image is in page_checksums                   *)
(*   snapshot  the ticked issues in the snapshot file of the page          *)
(*   reading, syncing, curating  where the three tasks are                 *)
(*   hash      the issues whose hash TasksSync keeps                       *)
(*                                                                         *)
(* and for the properties: how often the user has ticked and the service   *)
(* has completed an issue, the ticks not yet downloaded, the issues of     *)
(* which a tick was lost in one of the ways the code logs or cannot see,   *)
(* and whether the page is not that of the last rebuild.                   *)
(*                                                                         *)
(* Abstractions: the user's edits reach the Cloud at once; the text of the *)
(* page; transcription finds the identifiers; one page.                    *)
(***************************************************************************)
EXTENDS Naturals, Functions

CONSTANTS
  Issues,
  MaxTicks,       \* bound: ticks
  MaxLinear,      \* bound: issues opened and closed by others
  MaxDisturbances \* bound: curations, restarts and failures

\* Without an issue an empty page would look like NoPage.
ASSUME SomeIssue == Issues # {}

VARIABLES open, note, version, seen, lastPage, snapshot, reading, syncing,
          curating, hash, ticks, done, unreadTicks, lost, behind, linear, disturbances

cloudNote == <<note, version>>
pollerVars == <<seen, lastPage, snapshot, reading>>
account == <<ticks, done, unreadTicks, lost>>
bounds == <<linear, disturbances>>
tasksVars == <<open, note, version, seen, lastPage, snapshot, reading, syncing,
               curating, hash, ticks, done, unreadTicks, lost, behind, linear, disturbances>>

NoPage == [shown |-> {}, ticked |-> Issues]   \* no page looks like this
Never == Issues \cup {"never"}
Still == [pc |-> "idle"]

Disturb ==
  disturbances < MaxDisturbances /\ disturbances' = disturbances + 1

(***************************************************************************)
(* The user and Linear.                                                    *)
(***************************************************************************)

Tick(i) ==
  /\ note # NoPage /\ i \in note.shown \ note.ticked /\ SumFunction(ticks) < MaxTicks
  /\ note' = [note EXCEPT !.ticked = @ \cup {i}]
  /\ version' = version + 1
  /\ ticks' = [ticks EXCEPT ![i] = @ + 1]
  /\ unreadTicks' = unreadTicks \cup {i}
  /\ UNCHANGED <<open, pollerVars, syncing, curating, hash, done, lost, behind, bounds>>

LinearChanges(i) ==
  /\ linear < MaxLinear /\ linear' = linear + 1
  /\ open' = IF i \in open THEN open \ {i} ELSE open \cup {i}
  /\ UNCHANGED <<cloudNote, pollerVars, syncing, curating, hash, account, behind,
                 disturbances>>

(***************************************************************************)
(* CloudPoller._poll_once and SupernoteService._process_file_change.       *)
(***************************************************************************)

\* With process_existing_on_start off the first listing only sets the marker.
ListTasksNote ==
  /\ reading = Still /\ note # NoPage /\ version > seen
  /\ IF seen = 0
       THEN /\ seen' = version /\ lost' = lost \cup unreadTicks /\ unreadTicks' = {}
            /\ UNCHANGED reading
       ELSE /\ reading' = [pc |-> "download", version |-> version]
            /\ UNCHANGED <<seen, lost, unreadTicks>>
  /\ UNCHANGED <<open, cloudNote, lastPage, snapshot, syncing, curating, hash, ticks,
                 done, behind, bounds>>

FetchTasksNote ==
  /\ reading.pc = "download" /\ note # NoPage
  /\ reading' = [pc |-> "read", version |-> reading.version, page |-> note, fresh |-> unreadTicks]
  /\ unreadTicks' = {}
  /\ UNCHANGED <<open, cloudNote, seen, lastPage, snapshot, syncing, curating, hash,
                 ticks, done, lost, behind, bounds>>

\* Not found between a delete and an upload: the marker stays.
FetchTasksNoteFails ==
  /\ reading.pc = "download"
  /\ IF note = NoPage THEN UNCHANGED disturbances ELSE Disturb
  /\ reading' = Still
  /\ UNCHANGED <<open, cloudNote, seen, lastPage, snapshot, syncing, curating, hash,
                 account, behind, linear>>

\* Mutant: every ticked box counts as newly ticked.
NewlyCheckedAll(page) == page.ticked

\* detect_checkbox_changes.
NewlyChecked(page) == page.ticked \ snapshot

\* A page that looks as it did is skipped.  Ticks that were in the last
\* snapshot are not new: the page was rebuilt and ticked again in between.
ReadPage ==
  /\ reading.pc = "read"
  /\ lastPage' = reading.page
  /\ LET page == reading.page
         changed == page # lastPage
     IN  /\ snapshot' = IF changed THEN page.ticked ELSE snapshot
         /\ lost' = lost \cup (reading.fresh \ IF changed THEN page.ticked \ snapshot ELSE {})
         /\ reading' = [pc |-> "complete", version |-> reading.version,
                        todo |-> IF changed THEN NewlyChecked(page) ELSE {}]
  /\ UNCHANGED <<open, cloudNote, seen, syncing, curating, hash, ticks, done, unreadTicks,
                 behind, bounds>>

\* The checksum is kept before the page is transcribed, and the exception ends
\* in the log: the marker moves on.
ReadPageFails ==
  /\ reading.pc = "read" /\ Disturb
  /\ lastPage' = reading.page /\ seen' = reading.version
  /\ lost' = lost \cup reading.fresh
  /\ reading' = Still
  /\ UNCHANGED <<open, cloudNote, snapshot, syncing, curating, hash, ticks, done,
                 unreadTicks, behind, linear>>

\* _handle_task_checkbox.
CompleteIssue(i) ==
  /\ reading.pc = "complete" /\ i \in reading.todo
  /\ open' = open \ {i}
  /\ done' = [done EXCEPT ![i] = @ + 1]
  /\ reading' = [reading EXCEPT !.todo = @ \ {i}]
  /\ UNCHANGED <<cloudNote, seen, lastPage, snapshot, syncing, curating, hash, ticks,
                 unreadTicks, lost, behind, bounds>>

\* Linear refuses one, or an exception ends the reading of the notebook.
CompleteIssueFails(i) ==
  /\ reading.pc = "complete" /\ i \in reading.todo /\ Disturb
  /\ \/ reading' = [reading EXCEPT !.todo = @ \ {i}] /\ lost' = lost \cup {i}
     \/ reading' = [reading EXCEPT !.todo = {}] /\ lost' = lost \cup reading.todo
  /\ UNCHANGED <<open, cloudNote, seen, lastPage, snapshot, syncing, curating, hash,
                 ticks, done, unreadTicks, behind, linear>>

FinishReading ==
  /\ reading.pc = "complete" /\ reading.todo = {}
  /\ seen' = reading.version /\ reading' = Still
  /\ UNCHANGED <<open, cloudNote, lastPage, snapshot, syncing, curating, hash, account,
                 behind, bounds>>

(***************************************************************************)
(* upload_notebook, for one task at a time: the delete, and the rest.      *)
(***************************************************************************)

Uploading == syncing.pc = "store" \/ curating.pc = "store"

DeleteNote ==
  /\ ~Uploading
  /\ note' = NoPage
  /\ unreadTicks' = {}

StoreNote(page) == note' = page /\ version' = version + 1

(***************************************************************************)
(* TasksSync.                                                              *)
(***************************************************************************)

\* The hash is kept before the page is rebuilt.
PollLinear ==
  /\ syncing = Still /\ open # hash
  /\ hash' = open
  /\ syncing' = [pc |-> "rebuild", issues |-> open]
  /\ UNCHANGED <<open, cloudNote, pollerVars, curating, account, behind, bounds>>

RebuildDeletes ==
  /\ syncing.pc = "rebuild" /\ DeleteNote
  /\ lost' = lost \cup unreadTicks
  /\ syncing' = [syncing EXCEPT !.pc = "store"]
  /\ UNCHANGED <<open, version, pollerVars, curating, hash, ticks, done, behind, bounds>>

\* Mutant: the page that was read last is kept and the issues are added to it.
RebuildStoresTicks ==
  /\ syncing.pc = "store"
  /\ StoreNote([shown |-> syncing.issues \cup lastPage.shown, ticked |-> {}])
  /\ syncing' = Still /\ behind' = FALSE
  /\ UNCHANGED <<open, pollerVars, curating, hash, account, bounds>>

\* Whether the page was in the Cloud or is put into a copy of Quick.note, the
\* notebook has the one rendered page.
RebuildStores ==
  /\ syncing.pc = "store"
  /\ StoreNote([shown |-> syncing.issues, ticked |-> {}])
  /\ syncing' = Still /\ behind' = FALSE
  /\ UNCHANGED <<open, pollerVars, curating, hash, account, bounds>>

\* Neither notebook can be downloaded, or the upload fails: _loop logs it.
RebuildFails ==
  /\ syncing # Still /\ Disturb
  /\ syncing' = Still /\ behind' = TRUE
  /\ UNCHANGED <<open, cloudNote, pollerVars, curating, hash, account, linear>>

(***************************************************************************)
(* TaskCurator.handle_write_requested.                                     *)
(***************************************************************************)

\* The service downloads the notebook for the request.
StartCuration ==
  /\ curating = Still /\ note # NoPage /\ Disturb
  /\ curating' = [pc |-> "fetch", page |-> note]
  /\ UNCHANGED <<open, cloudNote, pollerVars, syncing, hash, account, behind, linear>>

\* Open issues, or none if Linear fails; then the model writes a page with
\* them and with what was on it.
CuratePage ==
  /\ curating.pc = "fetch"
  /\ \E issues \in {open, {}} :
       curating' = [pc |-> "upload", old |-> curating.page,
                    page |-> [curating.page EXCEPT !.shown = @ \cup issues]]
  /\ UNCHANGED <<open, cloudNote, pollerVars, syncing, hash, account, behind, bounds>>

\* Nothing compares the page with the one that was downloaded: ticks made
\* since are lost, and ticks of issues that were open again come back.
CurationDeletes ==
  /\ curating.pc = "upload" /\ DeleteNote
  /\ lost' = lost \cup unreadTicks \cup (IF note = curating.old THEN {} ELSE curating.old.ticked)
  /\ curating' = [curating EXCEPT !.pc = "store"]
  /\ behind' = TRUE
  /\ UNCHANGED <<open, version, pollerVars, syncing, hash, ticks, done, bounds>>

CurationStores ==
  /\ curating.pc = "store"
  /\ StoreNote(curating.page)
  /\ curating' = Still
  /\ UNCHANGED <<open, pollerVars, syncing, hash, account, behind, bounds>>

CurationFails ==
  /\ curating # Still
  /\ curating' = Still
  /\ UNCHANGED <<open, cloudNote, pollerVars, syncing, hash, account, behind, bounds>>

\* Snapshots are files; the rest is memory.
RestartTasks ==
  /\ Disturb
  /\ seen' = 0 /\ lastPage' = NoPage /\ hash' = Never
  /\ reading' = Still /\ syncing' = Still /\ curating' = Still
  /\ lost' = lost \cup CASE reading.pc = "read" -> reading.fresh
                         [] reading.pc = "complete" -> reading.todo
                         [] OTHER -> {}
  /\ UNCHANGED <<open, cloudNote, snapshot, ticks, done, unreadTicks, behind, linear>>

(***************************************************************************)
(* Specification.                                                          *)
(***************************************************************************)

TasksInit ==
  /\ open \in SUBSET Issues /\ note = NoPage /\ version = 0
  /\ seen = 0 /\ lastPage = NoPage /\ snapshot = {}
  /\ reading = Still /\ syncing = Still /\ curating = Still
  /\ hash = Never
  /\ ticks = [i \in Issues |-> 0] /\ done = [i \in Issues |-> 0]
  /\ unreadTicks = {} /\ lost = {} /\ behind = FALSE
  /\ linear = 0 /\ disturbances = 0

TasksNext ==
  \/ \E i \in Issues : Tick(i) \/ LinearChanges(i) \/ CompleteIssue(i) \/ CompleteIssueFails(i)
  \/ ListTasksNote \/ FetchTasksNote \/ FetchTasksNoteFails
  \/ ReadPage \/ ReadPageFails \/ FinishReading
  \/ PollLinear \/ RebuildDeletes \/ RebuildStores \/ RebuildFails
  \/ StartCuration \/ CuratePage \/ CurationDeletes \/ CurationStores \/ CurationFails
  \/ RestartTasks

TasksSpec == TasksInit /\ [][TasksNext]_tasksVars

(***************************************************************************)
(* Properties.                                                             *)
(***************************************************************************)

\* Between two polls every tick of the user has completed its issue exactly
\* once, or it is on a page that the poller has still to fetch; except for
\* issues of which a tick was lost in one of the named ways.
EveryTickCompletesOnce ==
  reading = Still =>
    \A i \in Issues \ lost :
      IF i \in unreadTicks THEN seen < version ELSE done[i] = ticks[i]

\* Between two polls of Linear the page shows the issues last fetched, unless
\* the last rebuild failed or a curation was written over it.
NoteShowsIssues ==
  syncing = Still /\ hash # Never /\ ~behind =>
    note # NoPage /\ note.shown = hash

=============================================================================
