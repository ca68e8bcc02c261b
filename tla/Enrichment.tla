----------------------------- MODULE Enrichment ------------------------------
(***************************************************************************)
(* Enrichment of transcribed pages: EnrichService (enrich_service.py)      *)
(* takes a dirty row of page_state (page_state.py), has a language model   *)
(* rewrite its text, puts the result in folio (folio.py) and marks the     *)
(* row, while the ingest process writes the same rows.                     *)
(*                                                                         *)
(*   row[p]      the row of a page: the revision of its text, 0 if the     *)
(*               table has no row; whether it holds text at all; whether   *)
(*               it is dirty; whether next_retry_at is in the future       *)
(*   older       the pairs of pages whose rows have an updated_at, the     *)
(*               older one first                                           *)
(*   task        the row the service took with next_dirty_page, and the    *)
(*               next step of run_once                                     *)
(*   folio[p]    the revision in folio, 0 if there is no object            *)
(*   upserts     how many times ingest has written a row                   *)
(*                                                                         *)
(* Steps end at each await and each closed connection.  One enrich process *)
(* runs; ingest is another process.                                        *)
(*                                                                         *)
(* Abstractions: a revision of a page is a number, since source_revision   *)
(* starts with the updateTime of the notebook; error texts and counts.     *)
(***************************************************************************)
EXTENDS Naturals

CONSTANTS
  Pages,
  SyncedPages,   \* pages of the notebooks in folio_sync_notebooks
  Refused,       \* pages on which the language model always fails
  MaxRevision,   \* bound: revisions of a page
  MaxUpserts     \* bound: rows that ingest writes

ASSUME SyncedAreKnown == SyncedPages \subseteq Pages /\ Refused \subseteq Pages
ASSUME EnrichBounds == MaxRevision \in Nat /\ MaxUpserts \in Nat

VARIABLES row, older, task, folio, upserts

rowVars == <<row, older>>
enrichVars == <<row, older, task, folio, upserts>>

NoRow == [revision |-> 0, text |-> FALSE, dirty |-> FALSE, waits |-> FALSE]

HasRow(p) == row[p] # NoRow

Waiting == [pc |-> "idle"]

\* The rows of the other pages are older than one that is written now.
OlderNow(p) == {q \in Pages \ {p} : HasRow(q)} \X {p}

\* Mutant: an upsert that does not find the page's row inserts another one.
WriteTwice(p, r) ==
  /\ row' = [row EXCEPT ![p] = r]
  /\ older' = older \cup OlderNow(p)

\* Every write to a row sets its updated_at.
Write(p, r) ==
  /\ row' = [row EXCEPT ![p] = r]
  /\ older' = {pair \in older : pair[1] # p /\ pair[2] # p} \cup OlderNow(p)

(***************************************************************************)
(* The ingest process.                                                     *)
(***************************************************************************)

\* Mutant: new text does not make the row dirty again.
UpsertOcrPageKeepsDirty(p, revision) ==
  /\ upserts < MaxUpserts /\ upserts' = upserts + 1
  /\ Write(p, [row[p] EXCEPT !.revision = revision, !.text = TRUE,
                             !.dirty = (row[p] = NoRow \/ @), !.waits = FALSE])
  /\ UNCHANGED <<task, folio>>

\* The page was read in this revision, for the first time or again.
UpsertOcrPage(p, revision) ==
  /\ upserts < MaxUpserts /\ upserts' = upserts + 1
  /\ Write(p, [revision |-> revision, text |-> TRUE, dirty |-> TRUE, waits |-> FALSE])
  /\ UNCHANGED <<task, folio>>

\* Reading failed: a page without a row gets a placeholder that is not dirty,
\* any other keeps its text, its revision and its dirty mark.
RecordOcrFailure(p, revision) ==
  /\ upserts < MaxUpserts /\ upserts' = upserts + 1
  /\ Write(p, IF row[p] = NoRow
                THEN [NoRow EXCEPT !.revision = revision, !.waits = TRUE]
                ELSE [row[p] EXCEPT !.waits = TRUE])
  /\ UNCHANGED <<task, folio>>

(***************************************************************************)
(* EnrichService.run_once.                                                 *)
(***************************************************************************)

IsDue(p) == row[p].dirty /\ ~row[p].waits

\* The first dirty row whose backoff is over, oldest update first; pages of
\* other notebooks are only marked.
NextDirtyPage ==
  /\ task = Waiting
  /\ \E p \in Pages :
       /\ IsDue(p)
       /\ \A q \in Pages : IsDue(q) => <<q, p>> \notin older
       /\ task' = [pc |-> IF p \in SyncedPages THEN "enrich" ELSE "skip",
                   page |-> p, revision |-> row[p].revision]
  /\ UNCHANGED <<row, older, folio, upserts>>

\* Mutant: the row is marked whatever its revision is by now.
MarkCleanAnyRevision(p, revision) ==
  Write(p, [row[p] EXCEPT !.dirty = FALSE, !.waits = FALSE])

\* UPDATE ... WHERE source_revision = ? changes nothing if the row has moved on.
MarkClean(p, revision) ==
  IF row[p].revision = revision
    THEN Write(p, [row[p] EXCEPT !.dirty = FALSE, !.waits = FALSE])
    ELSE UNCHANGED rowVars

MarkEnrichmentSkipped ==
  /\ task.pc = "skip"
  /\ MarkClean(task.page, task.revision)
  /\ task' = Waiting
  /\ UNCHANGED <<folio, upserts>>

\* The model answers, and the row is read again: a result for a revision that
\* is no longer there is dropped.
EnrichPage ==
  /\ task.pc = "enrich" /\ task.page \notin Refused
  /\ task' = IF row[task.page].revision = task.revision
               THEN [task EXCEPT !.pc = "publish"]
               ELSE Waiting
  /\ UNCHANGED <<row, older, folio, upserts>>

\* Mutant: a failed page is put aside.
MarkFailedForGood ==
  /\ task.pc = "enrich"
  /\ Write(task.page, [row[task.page] EXCEPT !.waits = TRUE, !.dirty = FALSE])
  /\ task' = Waiting
  /\ UNCHANGED <<folio, upserts>>

\* mark_failed puts off whatever revision the row has by now.
MarkFailed ==
  /\ task.pc = "enrich"
  /\ Write(task.page, [row[task.page] EXCEPT !.waits = TRUE])
  /\ task' = Waiting
  /\ UNCHANGED <<folio, upserts>>

\* Folio takes the object, and its answer arrives.
UpsertSupernotePage ==
  /\ task.pc = "publish"
  /\ folio' = [folio EXCEPT ![task.page] = task.revision]
  /\ task' = [task EXCEPT !.pc = "mark"]
  /\ UNCHANGED <<row, older, upserts>>

\* The call raises, with or without effect: the loop of start() logs it and
\* the row is left as it is.
UpsertSupernotePageFails ==
  /\ task.pc = "publish"
  /\ folio' \in {folio, [folio EXCEPT ![task.page] = task.revision]}
  /\ task' = Waiting
  /\ UNCHANGED <<row, older, upserts>>

MarkEnriched ==
  /\ task.pc = "mark"
  /\ MarkClean(task.page, task.revision)
  /\ task' = Waiting
  /\ UNCHANGED <<folio, upserts>>

\* The process ends anywhere and is started again.
RestartEnrichment ==
  /\ task # Waiting
  /\ task' = Waiting
  /\ UNCHANGED <<row, older, folio, upserts>>

BackoffElapses(p) ==
  /\ row[p].waits
  /\ row' = [row EXCEPT ![p].waits = FALSE]
  /\ UNCHANGED <<older, task, folio, upserts>>

(***************************************************************************)
(* Specification.                                                          *)
(***************************************************************************)

EnrichInit ==
  /\ row = [p \in Pages |-> NoRow]
  /\ older = {}
  /\ task = Waiting
  /\ folio = [p \in Pages |-> 0]
  /\ upserts = 0

\* A later reading of a page is of the same revision or of a later one.
Ingest(p) ==
  \E revision \in 1..MaxRevision :
    /\ revision >= row[p].revision
    /\ UpsertOcrPage(p, revision) \/ RecordOcrFailure(p, revision)

EnrichNext ==
  \/ \E p \in Pages : Ingest(p) \/ BackoffElapses(p)
  \/ NextDirtyPage
  \/ MarkEnrichmentSkipped
  \/ EnrichPage
  \/ MarkFailed
  \/ UpsertSupernotePage
  \/ UpsertSupernotePageFails
  \/ MarkEnriched
  \/ RestartEnrichment

\* What the model says of a page in the end.
ModelAnswers(p) ==
  /\ task.pc = "enrich" /\ task.page = p
  /\ IF p \in Refused THEN MarkFailed ELSE EnrichPage

\* The loop of start() never ends; backoffs elapse; on a page that the model can
\* handle the model, folio and the process do not fail every time.
EnrichFairness ==
  /\ WF_enrichVars(NextDirtyPage)
  /\ SF_enrichVars(MarkEnrichmentSkipped)
  /\ \A p \in Pages : SF_enrichVars(ModelAnswers(p))
  /\ SF_enrichVars(UpsertSupernotePage)
  /\ SF_enrichVars(MarkEnriched)
  /\ \A p \in Pages : WF_enrichVars(BackoffElapses(p))

EnrichSpec == EnrichInit /\ [][EnrichNext]_enrichVars /\ EnrichFairness

(***************************************************************************)
(* Properties.                                                             *)
(***************************************************************************)

\* Rows and the task have the fields that the code gives them, and the rows of
\* the table, no other, are in one order by updated_at.
EnrichTypeOK ==
  /\ row \in [Pages -> [revision: 0..MaxRevision, text: BOOLEAN,
                        dirty: BOOLEAN, waits: BOOLEAN]]
  /\ older \subseteq Pages \X Pages
  /\ \A p, q \in Pages :
       /\ <<p, q>> \in older \/ <<q, p>> \in older <=> p # q /\ HasRow(p) /\ HasRow(q)
       /\ ~(<<p, q>> \in older /\ <<q, p>> \in older)
       /\ \A r \in Pages : <<p, q>> \in older /\ <<q, r>> \in older => <<p, r>> \in older
  /\ \/ task = Waiting
     \/ task \in [pc: {"skip", "enrich", "publish", "mark"}, page: Pages,
                  revision: 1..MaxRevision]
  /\ folio \in [Pages -> 0..MaxRevision]
  /\ upserts \in 0..MaxUpserts

\* A page that the status command no longer counts as dirty is in folio in
\* the revision of its text, whatever ingest wrote while it was enriched.
CleanIsMirrored ==
  \A p \in SyncedPages :
    row[p].text /\ ~row[p].dirty => folio[p] = row[p].revision

\* Enrichment implements FolioMirror: folio never goes back to an older
\* revision, and a page the model can handle catches up even if the model
\* fails on another one for ever.
Mirror == INSTANCE FolioMirror WITH
  Mirrored <- SyncedPages,
  Reliable <- SyncedPages \ Refused,
  source   <- [p \in SyncedPages |-> IF row[p].text THEN row[p].revision ELSE 0],
  mirror   <- [p \in SyncedPages |-> folio[p]]

ImplementsMirror == Mirror!MirrorSpec

=============================================================================
