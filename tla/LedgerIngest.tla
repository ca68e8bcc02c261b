---------------------------- MODULE LedgerIngest ----------------------------
(***************************************************************************)
(* From an edit in the Supernote Cloud to cached text: CloudPoller         *)
(* (cloud_poller.py) lists and downloads the notebook, IngestService       *)
(* (ingest_service.py) applies it to the ledger, transcribes the pages     *)
(* that changed and sweeps those still pending, PageStateStore             *)
(* (page_state.py) keeps the text, and the read contract serves it.        *)
(*                                                                         *)
(*   cloudNote, cloudTime  the notebook in the Cloud and its updateTime    *)
(*   pageState             page_state rows by page INDEX, the table's key  *)
(*   task[i]               the ingest an ingester is executing             *)
(*   lastSeen[i]           _last_seen of a poller; None before its first   *)
(*                         listing                                         *)
(*   transcribed           (history) the page contents whose text was      *)
(*                         ever written to page_state                      *)
(*   placed                (history) the pages that were ever in the       *)
(*                         ledger, each with the indexes it had            *)
(*   deployment            which ingesters run, and how the notebook may   *)
(*                         change; it is chosen at the start               *)
(*                                                                         *)
(* Ingesters are of three kinds: the daemon's poller, runs of `ingest      *)
(* --once` with process-existing, and the callbacks of the local watcher,  *)
(* which the event loop interleaves at each await.  Steps end where the    *)
(* code awaits or closes a database connection.                            *)
(*                                                                         *)
(* Abstractions: one notebook; the text of a page is the content hash it   *)
(* was read from; the part of source_revision that readers compare is the  *)
(* page ID and content hash; the columns of enrichment are left out.       *)
(***************************************************************************)
EXTENDS CloudChangeLedger, NoteSnapshot

CONSTANTS
  Notebook,    \* the one notebook
  Deployments, \* sets of ingesters, with what the device may write meanwhile
               \* (lists of pages without repeated IDs) and, as a bound, the
               \* updateTime of its last edit
  Pollers,     \* ingesters polling the Cloud all the time
  OnceRuns,    \* ingesters started by hand
  Watchers,    \* callbacks of the local watcher
  MaxPages,    \* --max-pages of the once runs, None if not given
  MayRestart   \* whether processes crash and are started again

ASSUME OneNotebook == Notebooks = {Notebook}
ASSUME WatchersDoNotPoll == Pollers \cap Watchers = {}

NotePage == [page_id: PageIds, content_hash: Hashes]

ASSUME DeploymentsAreOfNotes ==
  \A d \in Deployments :
    /\ IsFiniteSet(d.ingesters)
    /\ d.maxTime \in Nat \ {0}
    /\ \A note \in d.notes :
         /\ note \in Seq(NotePage)
         /\ \A j, k \in DOMAIN note : note[j].page_id = note[k].page_id => j = k
         /\ PageRevisions(note) \in Snapshots
         /\ \A t \in 0..d.maxTime : [time |-> t, note |-> note] \in Revisions

VARIABLES cloudNote, cloudTime, pageState, task, lastSeen, transcribed, placed,
          deployment

cloudVars == <<cloudNote, cloudTime>>
ingestVars == <<task, lastSeen>>
textVars == <<pageState, transcribed>>
tableVars == <<ledgerVars, placed>>
stepVars == <<tableVars, cloudVars, ingestVars, textVars>>
vars == <<stepVars, deployment>>

Ingesters == Pollers \cup OnceRuns \cup Watchers

Idle == [pc |-> "idle"]

NoText == ""

PageStateRow == [page_id: PageIds, content_hash: Hashes,
                 text: Hashes \cup {NoText}, backoff: BOOLEAN]

ASSUME NoneIsNoPageState == None \notin PageStateRow

RowAt(i) == IF i \in DOMAIN pageState THEN pageState[i] ELSE None

\* The page of a note at an index.
PageAt(note, i) == note[i + 1]

IndexesOf(note) == 0..(Len(note) - 1)

PageIndexes == 0..(Cardinality(PageIds) - 1)

(***************************************************************************)
(* PageStateStore.                                                         *)
(***************************************************************************)

Upsert(i, row) ==
  pageState' = [j \in DOMAIN pageState \cup {i} |->
                  IF j = i THEN row ELSE pageState[j]]

UpsertOcrPage(i, page) ==
  Upsert(i, [page_id |-> page.page_id, content_hash |-> page.content_hash,
             text |-> page.content_hash, backoff |-> FALSE])

\* Mutant: a failure moves the row to the new revision and keeps the text.
RecordOcrFailureOfRevision(i, page) ==
  Upsert(i, IF RowAt(i) = None
              THEN [page_id |-> page.page_id, content_hash |-> page.content_hash,
                    text |-> NoText, backoff |-> TRUE]
              ELSE [RowAt(i) EXCEPT !.backoff = TRUE, !.page_id = page.page_id,
                                    !.content_hash = page.content_hash])

\* A first failure leaves a row without text; a later one keeps the text and
\* the revision it belongs to.
RecordOcrFailure(i, page) ==
  Upsert(i, IF RowAt(i) = None
              THEN [page_id |-> page.page_id, content_hash |-> page.content_hash,
                    text |-> NoText, backoff |-> TRUE]
              ELSE [RowAt(i) EXCEPT !.backoff = TRUE])

(***************************************************************************)
(* Detecting a change.                                                     *)
(***************************************************************************)

\* The poller's first listing only marks a notebook as seen.
SeeFirst(i) ==
  /\ task[i] = Idle
  /\ lastSeen[i] = None
  /\ lastSeen' = [lastSeen EXCEPT ![i] = cloudTime]
  /\ UNCHANGED <<tableVars, cloudVars, textVars, task>>

\* Mutant: the marker moves when the change is seen, not when it is ingested.
SeeChangeAndMark(i) ==
  /\ task[i] = Idle
  /\ lastSeen[i] # None
  /\ cloudTime > lastSeen[i]
  /\ task' = [task EXCEPT ![i] = [pc |-> "download", time |-> cloudTime, cap |-> None]]
  /\ lastSeen' = [lastSeen EXCEPT ![i] = cloudTime]
  /\ UNCHANGED <<tableVars, cloudVars, textVars>>

SeeChange(i) ==
  /\ task[i] = Idle
  /\ lastSeen[i] # None
  /\ cloudTime > lastSeen[i]
  /\ task' = [task EXCEPT ![i] = [pc |-> "download", time |-> cloudTime, cap |-> None]]
  /\ UNCHANGED <<tableVars, cloudVars, textVars, lastSeen>>

\* ingest --once with process_existing_on_start starts from an empty _last_seen.
StartOnce(i) ==
  /\ task[i] = Idle
  /\ task' = [task EXCEPT ![i] = [pc |-> "download", time |-> cloudTime,
                                  cap |-> MaxPages]]
  /\ UNCHANGED <<tableVars, cloudVars, textVars, lastSeen>>

\* The bytes may be newer than the listing they were requested for.
Download(i) ==
  /\ task[i].pc = "download"
  /\ task' = [task EXCEPT ![i] =
       [pc |-> "apply", time |-> @.time, cap |-> @.cap, note |-> cloudNote]]
  /\ UNCHANGED <<tableVars, cloudVars, textVars, lastSeen>>

(***************************************************************************)
(* _on_cloud_note_changed.                                                 *)
(***************************************************************************)

\* Mutant: page numbers counted from 1.
ChangedPageNumbers(note) ==
  LET new == NewPages(PageRevisions(note))
      old == CurrentPages(Notebook)
  IN  IF IsNoOp(Notebook, PageRevisions(note)) THEN {}
      ELSE {new[p].page_index + 1 : p \in (DOMAIN new \ DOMAIN old) \cup Updated(old, new)}

\* _ocr_page_indexes of the changes that applying the note produces.
ChangedIndexes(note) ==
  LET new == NewPages(PageRevisions(note))
      old == CurrentPages(Notebook)
  IN  IF IsNoOp(Notebook, PageRevisions(note)) THEN {}
      ELSE {new[p].page_index : p \in (DOMAIN new \ DOMAIN old) \cup Updated(old, new)}

Places(note) ==
  {[page_id |-> page.page_id, index |-> page.page_index] : page \in Range(PageRevisions(note))}

\* The snapshot is committed before the page cap is checked.
ApplyNote(i, note, time, cap) ==
  /\ \/ ApplySnapshot(Notebook, [time |-> time, note |-> note], PageRevisions(note))
     \/ IsNoOp(Notebook, PageRevisions(note)) /\ UNCHANGED ledgerVars
  /\ placed' = placed \cup Places(note)
  /\ task' = [task EXCEPT ![i] =
       IF cap # None /\ Cardinality(ChangedIndexes(note)) > cap
         THEN Idle
         ELSE [pc |-> "ocr", time |-> time, note |-> note,
               todo |-> ChangedIndexes(note), swept |-> FALSE]]
  /\ UNCHANGED <<cloudVars, textVars, lastSeen>>

Apply(i) ==
  /\ task[i].pc = "apply"
  /\ ApplyNote(i, task[i].note, task[i].time, task[i].cap)

\* The watcher's thread reads the synced file and queues a coroutine, which
\* applies it before its first await; the queue keeps the order of the reads.
LocalFileChanged(i) ==
  /\ task[i] = Idle
  /\ ApplyNote(i, cloudNote, 0, None)

\* Mutant: only pages that failed before are retried, not those never read.
DueAfterFailure == {pageSnapshot[Notebook][p].page_index :
          p \in {q \in CurrentIds(Notebook) :
                   LET page == pageSnapshot[Notebook][q]
                       row  == RowAt(page.page_index)
                   IN  /\ page.ocr_status = "pending"
                       /\ row # None /\ ~row.backoff}}

\* _due_pending_indexes.
Due == {pageSnapshot[Notebook][p].page_index :
          p \in {q \in CurrentIds(Notebook) :
                   LET page == pageSnapshot[Notebook][q]
                       row  == RowAt(page.page_index)
                   IN  /\ page.ocr_status = "pending"
                       /\ row # None => ~row.backoff}}

StartSweep(i) ==
  /\ task[i].pc = "ocr" /\ task[i].todo = {} /\ ~task[i].swept
  /\ task' = [task EXCEPT ![i].todo = Due, ![i].swept = TRUE]
  /\ UNCHANGED <<tableVars, cloudVars, textVars, lastSeen>>

\* The page whose turn it is: indexes are taken in ascending order.
NextIndex(i) == CHOOSE n \in task[i].todo : \A m \in task[i].todo : n <= m

HasPageToRead(i) == task[i].pc = "ocr" /\ task[i].todo # {}

PageDone(i) == [task[i] EXCEPT !.pc = "ocr", !.todo = @ \ {NextIndex(i)}]

\* Mutant: the text is saved under the position among the pages to read.
ReadPageByOrder(i) ==
  /\ HasPageToRead(i)
  /\ NextIndex(i) \in IndexesOf(task[i].note)
  /\ LET page == PageAt(task[i].note, NextIndex(i))
     IN  /\ UpsertOcrPage(0, page)
         /\ transcribed' = transcribed \cup {page}
  /\ task' = [task EXCEPT ![i].pc = "mark"]
  /\ UNCHANGED <<tableVars, cloudVars, lastSeen>>

\* The model answers with text, which is saved under the page's index ...
ReadPage(i) ==
  /\ HasPageToRead(i)
  /\ NextIndex(i) \in IndexesOf(task[i].note)
  /\ LET page == PageAt(task[i].note, NextIndex(i))
     IN  /\ UpsertOcrPage(NextIndex(i), page)
         /\ transcribed' = transcribed \cup {page}
  /\ task' = [task EXCEPT ![i].pc = "mark"]
  /\ UNCHANGED <<tableVars, cloudVars, lastSeen>>

\* ... and the ledger's page is marked, in another transaction.  No row is
\* updated when the page has been removed meanwhile.
MarkReady(i) ==
  LET p == PageAt(task[i].note, NextIndex(i)).page_id
  IN  /\ task[i].pc = "mark"
      /\ \/ MarkPageOcrStatus(Notebook, p, "ready")
         \/ p \notin CurrentIds(Notebook) /\ UNCHANGED ledgerVars
      /\ task' = [task EXCEPT ![i] = PageDone(i)]
      /\ UNCHANGED <<cloudVars, textVars, lastSeen, placed>>

\* Mutant: the result of a failed page is marked like any other.
ReadPageFailsAndMarks(i) ==
  /\ HasPageToRead(i)
  /\ NextIndex(i) \in IndexesOf(task[i].note)
  /\ RecordOcrFailure(NextIndex(i), PageAt(task[i].note, NextIndex(i)))
  /\ task' = [task EXCEPT ![i].pc = "mark"]
  /\ UNCHANGED <<tableVars, cloudVars, lastSeen, transcribed>>

ReadPageFails(i) ==
  /\ HasPageToRead(i)
  /\ NextIndex(i) \in IndexesOf(task[i].note)
  /\ RecordOcrFailure(NextIndex(i), PageAt(task[i].note, NextIndex(i)))
  /\ task' = [task EXCEPT ![i] = PageDone(i)]
  /\ UNCHANGED <<tableVars, cloudVars, lastSeen, transcribed>>

\* A page without text is neither a result nor an error.
ReadPageEmpty(i) ==
  /\ HasPageToRead(i)
  /\ NextIndex(i) \in IndexesOf(task[i].note)
  /\ task' = [task EXCEPT ![i] = PageDone(i)]
  /\ UNCHANGED <<tableVars, cloudVars, textVars, lastSeen>>

\* The ledger, changed by another ingester, has more pages than these bytes.
SkipPage(i) ==
  /\ HasPageToRead(i)
  /\ NextIndex(i) \notin IndexesOf(task[i].note)
  /\ task' = [task EXCEPT ![i].todo = @ \ {NextIndex(i)}]
  /\ UNCHANGED <<tableVars, cloudVars, textVars, lastSeen>>

\* A poller advances its marker, to the listed time, after everything else.
Finish(i) ==
  /\ task[i].pc = "ocr" /\ task[i].todo = {} /\ task[i].swept
  /\ lastSeen' = IF i \in Pollers THEN [lastSeen EXCEPT ![i] = task[i].time] ELSE lastSeen
  /\ task' = [task EXCEPT ![i] = Idle]
  /\ UNCHANGED <<tableVars, cloudVars, textVars>>

\* A failed download, an unreadable notebook or a locked database: the poller
\* logs the exception and keeps its marker.
Fail(i) ==
  /\ task[i] # Idle
  /\ task' = [task EXCEPT ![i] = Idle]
  /\ UNCHANGED <<tableVars, cloudVars, textVars, lastSeen>>

\* A crash or a restart: the marker is only in memory.
Restart(i) ==
  /\ MayRestart
  /\ task' = [task EXCEPT ![i] = Idle]
  /\ lastSeen' = [lastSeen EXCEPT ![i] = None]
  /\ UNCHANGED <<tableVars, cloudVars, textVars>>

(***************************************************************************)
(* Environment.                                                            *)
(***************************************************************************)

Edit(note) ==
  /\ cloudTime < deployment.maxTime
  /\ note # cloudNote
  /\ cloudNote' = note
  /\ cloudTime' = cloudTime + 1
  /\ UNCHANGED <<tableVars, ingestVars, textVars>>

BackoffElapses(i) ==
  /\ i \in DOMAIN pageState /\ pageState[i].backoff
  /\ pageState' = [pageState EXCEPT ![i].backoff = FALSE]
  /\ UNCHANGED <<tableVars, cloudVars, ingestVars, transcribed>>

(***************************************************************************)
(* Specification.                                                          *)
(***************************************************************************)

IngestInit ==
  /\ LedgerInit
  /\ deployment \in Deployments
  /\ cloudNote \in deployment.notes
  /\ cloudTime = 1
  /\ pageState = [i \in {} |-> None]
  /\ task = [i \in Ingesters |-> Idle]
  /\ lastSeen = [i \in Pollers |-> None]
  /\ transcribed = {} /\ placed = {}

Process(i) ==
  \/ Download(i)
  \/ Apply(i)
  \/ StartSweep(i)
  \/ ReadPage(i)
  \/ MarkReady(i)
  \/ SkipPage(i)
  \/ Finish(i)

\* Of the ingesters in kind, those that run.
Running(kind) == kind \cap deployment.ingesters

IngestNext ==
  /\ \/ \E i \in Running(Pollers) : SeeFirst(i) \/ SeeChange(i) \/ Restart(i)
     \/ \E i \in Running(OnceRuns) : StartOnce(i)
     \/ \E i \in Running(Watchers) : LocalFileChanged(i)
     \/ \E i \in Running(Ingesters) : \/ Process(i)
                                      \/ ReadPageFails(i)
                                      \/ ReadPageEmpty(i)
                                      \/ Fail(i)
     \/ \E note \in deployment.notes : Edit(note)
     \/ \E i \in DOMAIN pageState : BackoffElapses(i)
  /\ UNCHANGED deployment

IngestSpec == IngestInit /\ [][IngestNext]_vars

\* The poll loop never ends and time passes.  Downloads and OCR calls fail,
\* and processes are interrupted, but not every time.
IngestFairness ==
  /\ WF_stepVars(\E i \in Running(Pollers) : SeeFirst(i) \/ SeeChange(i))
  /\ SF_stepVars(\E i \in Running(Ingesters) : Download(i))
  /\ SF_stepVars(\E i \in Running(Ingesters) : Apply(i))
  /\ SF_stepVars(\E i \in Running(Ingesters) : StartSweep(i))
  /\ SF_stepVars(\E i \in Running(Ingesters) : ReadPage(i))
  /\ SF_stepVars(\E i \in Running(Ingesters) : MarkReady(i))
  /\ SF_stepVars(\E i \in Running(Ingesters) : SkipPage(i))
  /\ SF_stepVars(\E i \in Running(Ingesters) : Finish(i))
  /\ \A i \in PageIndexes : WF_stepVars(BackoffElapses(i))

\* Somebody repeats `ingest --once`.
BackfillFairness == WF_stepVars(\E i \in Running(OnceRuns) : StartOnce(i))

FairIngestSpec == IngestSpec /\ IngestFairness /\ BackfillFairness

(***************************************************************************)
(* Serving: _match_page_state of the read contract.                        *)
(***************************************************************************)

\* The row of this very revision if there is one, else the row at the page's
\* index, else nothing.
MatchPageState(p) ==
  LET page   == pageSnapshot[Notebook][p]
      exact  == {i \in DOMAIN pageState :
                   /\ pageState[i].page_id = p
                   /\ pageState[i].content_hash = page.content_hash}
  IN  IF exact # {} THEN pageState[CHOOSE i \in exact : \A j \in exact : i <= j]
      ELSE RowAt(page.page_index)

(***************************************************************************)
(* Properties.                                                             *)
(***************************************************************************)

\* Tasks, markers and rows have the fields the code gives them; a marker is
\* never ahead of the Cloud, and the pages to read are pages of the bytes or,
\* once the ledger has been swept, pages a notebook can have.
IngestTypeOK ==
  /\ LedgerTypeOK
  /\ deployment \in Deployments
  /\ cloudNote \in deployment.notes /\ cloudTime \in 1..deployment.maxTime
  /\ \A i \in DOMAIN pageState : pageState[i] \in PageStateRow
  /\ \A i \in Pollers : lastSeen[i] = None \/ lastSeen[i] \in 1..cloudTime
  /\ \A i \in Ingesters :
       \/ task[i] = Idle
       \/ task[i].pc = "download"
       \/ task[i].pc = "apply" /\ task[i].note \in deployment.notes
       \/ /\ task[i].pc \in {"ocr", "mark"}
          /\ task[i].note \in deployment.notes
          /\ task[i].todo \subseteq IF task[i].swept THEN PageIndexes
                                   ELSE IndexesOf(task[i].note)
          /\ task[i].pc = "mark" => task[i].todo # {}

OneIngester == Cardinality(deployment.ingesters) = 1

ReadyPages ==
  {p \in CurrentIds(Notebook) : pageSnapshot[Notebook][p].ocr_status = "ready"}

\* A page that the ledger calls ready has been transcribed as it is now, not
\* only as it was in an earlier revision, as long as one ingester works.
ReadyWasTranscribed ==
  OneIngester => \A p \in ReadyPages :
    [page_id |-> p, content_hash |-> pageSnapshot[Notebook][p].content_hash]
      \in transcribed

\* The page has always been at its index, and no other page ever was.
AlwaysAtItsIndex(p) ==
  \A place \in placed :
    place.page_id = p <=> place.index = pageSnapshot[Notebook][p].page_index

\* page_state is keyed by index, yet the text served for a ready page is that
\* of its current content if the page never shared its index with another:
\* failed retries, restarts, removals and returns do not make it stale.
ReadyTextIsOfThePage ==
  OneIngester => \A p \in ReadyPages :
    AlwaysAtItsIndex(p) =>
      LET row == MatchPageState(p)
      IN  row # None /\ row.text = pageSnapshot[Notebook][p].content_hash

\* The row served for a page, if any, is the page's own.
ServedRowIsOfThePage ==
  \A p \in ReadyPages :
    MatchPageState(p) # None => MatchPageState(p).page_id = p

\* A row never presents the text of one revision as the text of another, not
\* even after a failed retry or when two ingesters write it in turn.
RowTextIsOfItsRevision ==
  \A i \in DOMAIN pageState :
    pageState[i].text \in {NoText, pageState[i].content_hash}

InSync == /\ notebookSnapshot[Notebook] # None
          /\ notebookSnapshot[Notebook].notebook_hash = PageRevisions(cloudNote)

\* An edit made while a poller is running reaches the ledger, also when it
\* lands between a listing and the download it leads to.
EditsReachTheLedger ==
  \A i \in Pollers :
    (OneIngester /\ lastSeen[i] # None /\ cloudTime > lastSeen[i]) ~> InSync

\* Repeating `ingest --once` heals every page left pending by failures,
\* crashes or the cap: in the end all pages of the notebook are ready.
BackfillHeals ==
  deployment.ingesters = OnceRuns => <>[](InSync /\ ReadyPages = CurrentIds(Notebook))

=============================================================================
