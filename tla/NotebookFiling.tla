--------------------------- MODULE NotebookFiling ---------------------------
(***************************************************************************)
(* Moving pages from a source notebook to others: QuickFilingService       *)
(* (quick_filing_service.py) over the FilingLedger (filing_ledger.py), as  *)
(* the service runs it for starred pages and as `supernote move` runs it   *)
(* through move_pipeline.py.  A move is several uploads and several        *)
(* transactions of the ledger, a stop is possible between any two of them, *)
(* and the next run is to resume from what the ledger says.                *)
(*                                                                         *)
(*   source      the source notebook in the Cloud: its pages, and how      *)
(*               often it has been edited (two contents are the same bytes *)
(*               when both agree); while it is missing, as it last was     *)
(*   target[t]   how many copies of each page target t holds               *)
(*   missing     the notebooks that an upload deleted and did not replace  *)
(*   ledger      the status of every recorded operation, by operation ID   *)
(*   run         the run in progress: the source `bytes` it downloaded,    *)
(*               the operations `todo`, and those `done` up to the cleanup *)
(*   unrecorded  (history) copies in target whose upload the ledger does   *)
(*               not know of                                               *)
(*   destroyed   (history) copies that went with a target that an upload   *)
(*               deleted and did not replace                               *)
(*   returned    (history) pages that the device brought back into the     *)
(*               source since it was cleaned                               *)
(*                                                                         *)
(* One run at a time.  An upload deletes the notebook and then uploads the *)
(* new one: it happens, it does not, or only its deletion does             *)
(* (NotebookWrite models its steps).  A page is named by an identity: a    *)
(* position is one in the bytes that the operation ID contains the hash    *)
(* of.  Backups, parse checks and the re-download at the end change        *)
(* nothing here: they only stop a run.  Users add pages on the device and  *)
(* do not remove any.                                                      *)
(***************************************************************************)
EXTENDS Naturals, FiniteSets, Functions

CONSTANTS
  Pages,
  Blank,          \* the page that stands in for pages moved to the last one
  InitialPages,   \* the pages the source starts with
  Source,
  Targets,
  NoTarget,       \* the model asks for a review of the page
  MaxEdits        \* bound: edits on the device

ASSUME PagesAreFinite == IsFiniteSet(Pages)
ASSUME BlankIsAPage == Blank \in Pages
ASSUME InitialPagesArePages == InitialPages \subseteq Pages \ {Blank}
ASSUME SourceIsNoTarget == Source \notin Targets
ASSUME NoTargetIsNone == NoTarget \notin Targets
ASSUME MaxEditsIsNatural == MaxEdits \in Nat

VARIABLES source, target, missing, ledger, run, unrecorded, destroyed, returned

cloudVars == <<source, target, missing, destroyed, returned>>
vars == <<cloudVars, ledger, run, unrecorded>>

Contents == [pages: SUBSET Pages, edit: 0..MaxEdits]

Statuses == {"detected", "target_written", "target_written_source_pending",
             "source_removed", "completed"}

\* operation_id_for: the revision of a starred page is not that of an
\* explicit request for it.
Operations == [by: {"stars", "pages"}, pages: SUBSET Pages, revision: Contents,
               target: Targets]

Idle == [pc |-> "idle"]

Runs ==
  [pc: {"file", "close"}, bytes: Contents, todo: SUBSET Operations, done: SUBSET Operations]
  \cup
  [pc: {"mark"}, bytes: Contents, todo: SUBSET Operations, done: SUBSET Operations,
   op: Operations]

(***************************************************************************)
(* A run starts: the plan, and the record of its operations.               *)
(***************************************************************************)

\* Mutant: only the operations recorded before are looked up.
UpsertNothing(operations) == ledger

\* upsert_detected leaves a recorded operation as it is.
UpsertDetected(operations) ==
  [o \in DOMAIN ledger \cup operations |->
     IF o \in DOMAIN ledger THEN ledger[o] ELSE "detected"]

\* Completed operations are not executed again.
StartRun(operations) ==
  LET todo == {o \in operations : o \notin DOMAIN ledger \/ ledger[o] # "completed"}
  IN  /\ run = Idle /\ Source \notin missing
      /\ todo # {}
      /\ ledger' = UpsertDetected(todo)
      /\ run' = [pc |-> "file", bytes |-> source, todo |-> todo, done |-> {}]
      /\ UNCHANGED <<cloudVars, unrecorded>>

\* The model routes each starred page, now one way and now another.
StartByStars(starred, route) ==
  /\ starred \subseteq source.pages
  /\ StartRun({[by |-> "stars", pages |-> {p}, revision |-> source, target |-> route[p]]
               : p \in {q \in starred : route[q] # NoTarget}})

\* `move SRC TARGET --pages ...` is one operation.
StartExplicit(pages, t) ==
  /\ pages # {} /\ pages \subseteq source.pages
  /\ StartRun({[by |-> "pages", pages |-> pages, revision |-> source, target |-> t]})

(***************************************************************************)
(* apply_moves: targets first, ...                                         *)
(***************************************************************************)

\* Mutant: an operation whose cleanup failed writes its target again.
ResumableUnlessPending(o) ==
  ledger[o] \in {"target_written", "source_removed", "completed"}

\* The copies of this operation are in the target.
Resumable(o) ==
  ledger[o] \in {"target_written", "target_written_source_pending",
                 "source_removed", "completed"}

Resume(o) ==
  /\ run.pc = "file" /\ o \in run.todo
  /\ Resumable(o)
  /\ IF ledger[o] = "source_removed"
       THEN /\ ledger' = [ledger EXCEPT ![o] = "completed"]
            /\ run' = [run EXCEPT !.todo = @ \ {o}]
       ELSE /\ run' = [run EXCEPT !.todo = @ \ {o}, !.done = @ \cup {o}]
            /\ UNCHANGED ledger
  /\ UNCHANGED <<cloudVars, unrecorded>>

AddCopies(copies, o) ==
  [copies EXCEPT ![o.target] = [p \in Pages |-> @[p] + (IF p \in o.pages THEN 1 ELSE 0)]]

WritesTarget(o) ==
  /\ run.pc = "file" /\ o \in run.todo
  /\ ~Resumable(o)
  /\ o.target \notin missing

\* Mutant: the result of the upload is not looked at.
WriteTargetOrNot(o) ==
  /\ WritesTarget(o)
  /\ target' \in {target, AddCopies(target, o)}
  /\ unrecorded' = AddCopies(unrecorded, o)
  /\ run' = [pc |-> "mark", bytes |-> run.bytes, todo |-> run.todo,
             done |-> run.done, op |-> o]
  /\ UNCHANGED <<source, missing, ledger, destroyed, returned>>

\* Download, copy_pages_to_end, upload.
WriteTarget(o) ==
  /\ WritesTarget(o)
  /\ target' = AddCopies(target, o)
  /\ unrecorded' = AddCopies(unrecorded, o)
  /\ run' = [pc |-> "mark", bytes |-> run.bytes, todo |-> run.todo,
             done |-> run.done, op |-> o]
  /\ UNCHANGED <<source, missing, ledger, destroyed, returned>>

NoCopies == [p \in Pages |-> 0]

\* The upload ends after it has deleted the target, by an error or a crash.
LoseTarget(o) ==
  /\ WritesTarget(o)
  /\ target' = [target EXCEPT ![o.target] = NoCopies]
  /\ destroyed' = [destroyed EXCEPT ![o.target] =
       [p \in Pages |-> @[p] + target[o.target][p]]]
  /\ missing' = missing \cup {o.target}
  /\ run' = Idle
  /\ UNCHANGED <<source, returned, ledger, unrecorded>>

MarkTargetWritten ==
  /\ run.pc = "mark"
  /\ ledger' = [ledger EXCEPT ![run.op] = "target_written"]
  /\ unrecorded' = [unrecorded EXCEPT ![run.op.target] =
       [p \in Pages |-> @[p] - (IF p \in run.op.pages THEN 1 ELSE 0)]]
  /\ run' = [pc |-> "file", bytes |-> run.bytes, todo |-> run.todo \ {run.op},
             done |-> run.done \cup {run.op}]
  /\ UNCHANGED cloudVars

(***************************************************************************)
(* ... then the source, in one upload.                                     *)
(***************************************************************************)

ReadyToClean == run.pc = "file" /\ run.todo = {} /\ run.done # {}

\* Mutant: every page the run downloaded is taken out of the source.
CleanedSourceOfAll == [run.bytes EXCEPT !.pages = {Blank}]

\* remove_pages works on the bytes the run started with.  A notebook of no page
\* gets one without ink, which is starred if the first page was.
CleanedSource ==
  LET left == run.bytes.pages \ UNION {o.pages : o \in run.done}
  IN  [run.bytes EXCEPT !.pages = IF left = {} THEN {Blank} ELSE left]

UploadSource ==
  /\ ReadyToClean
  /\ source' = CleanedSource
  /\ returned' = returned \cap source'.pages
  /\ run' = [run EXCEPT !.pc = "close"]
  /\ UNCHANGED <<target, missing, ledger, unrecorded, destroyed>>

MarkSourcePending ==
  ledger' = [o \in DOMAIN ledger |->
    IF o \in run.done THEN "target_written_source_pending" ELSE ledger[o]]

\* The upload fails, or it succeeds and its answer is lost.
UploadSourceFails ==
  /\ ReadyToClean
  /\ source' \in {source, CleanedSource}
  /\ returned' = returned \cap source'.pages
  /\ MarkSourcePending
  /\ run' = Idle
  /\ UNCHANGED <<target, missing, unrecorded, destroyed>>

\* The upload ends after it has deleted the source: by an error, which is
\* recorded, or by a crash.
LoseSource ==
  /\ ReadyToClean
  /\ missing' = missing \cup {Source}
  /\ MarkSourcePending \/ UNCHANGED ledger
  /\ run' = Idle
  /\ UNCHANGED <<source, target, unrecorded, destroyed, returned>>

MarkSourceRemoved(o) ==
  /\ run.pc = "close" /\ o \in run.done
  /\ ledger[o] # "source_removed"
  /\ ledger' = [ledger EXCEPT ![o] = "source_removed"]
  /\ UNCHANGED <<cloudVars, run, unrecorded>>

MarkCompleted(o) ==
  /\ run.pc = "close" /\ o \in run.done
  /\ ledger[o] = "source_removed"
  /\ ledger' = [ledger EXCEPT ![o] = "completed"]
  /\ run' = [run EXCEPT !.done = @ \ {o}]
  /\ UNCHANGED <<cloudVars, unrecorded>>

\* The run returns, or an error or a crash ends it between two uploads.
Stop ==
  /\ run # Idle
  /\ run' = Idle
  /\ UNCHANGED <<cloudVars, ledger, unrecorded>>

(***************************************************************************)
(* The device, and the specification.                                      *)
(***************************************************************************)

Moved(o) == o.pages \ {Blank}

Filed == {p \in Pages : \E t \in Targets : target[t][p] > 0}

\* New pages; the user may write on the blank page, or remove it.
DeviceEdit(new) ==
  /\ Source \notin missing /\ source.edit < MaxEdits
  /\ new \cap (Filed \cup source.pages \cup {Blank}) = {}
  /\ \A o \in DOMAIN ledger : new \cap o.pages = {}
  /\ \E old \in {source.pages, source.pages \ {Blank}} :
       /\ old \cup new # {}
       /\ source' = [pages |-> old \cup new, edit |-> source.edit + 1]
  /\ UNCHANGED <<target, missing, ledger, run, unrecorded, destroyed, returned>>

\* The device uploads its copy of the source, which may be one that has pages
\* that were moved since.
RestoreSource ==
  /\ Source \in missing
  /\ missing' = missing \ {Source}
  /\ \E old \in SUBSET UNION {Moved(o) : o \in DOMAIN ledger} :
       /\ source' = [source EXCEPT !.pages = IF old = {} THEN @ ELSE (@ \ {Blank}) \cup old]
       /\ returned' = returned \cup (old \ source.pages)
  /\ UNCHANGED <<target, ledger, run, unrecorded, destroyed>>

CopiesUpTo(most) ==
  {copies \in [Pages -> UNION {0..most[p] : p \in Pages}] :
     \A p \in Pages : copies[p] <= most[p]}

\* The device uploads its copy of a target, which may lack what was filed last,
\* or the user makes the target anew: some copies are back, or none.
RestoreTarget(t) ==
  /\ t \in missing
  /\ \E copies \in CopiesUpTo(destroyed[t]) :
       /\ target' = [target EXCEPT ![t] = copies]
       /\ destroyed' = [destroyed EXCEPT ![t] = [p \in Pages |-> @[p] - copies[p]]]
  /\ missing' = missing \ {t}
  /\ UNCHANGED <<source, returned, ledger, run, unrecorded>>

FilingInit ==
  /\ source = [pages |-> InitialPages, edit |-> 0]
  /\ target = [t \in Targets |-> NoCopies] /\ missing = {}
  /\ ledger = <<>>
  /\ run = Idle
  /\ unrecorded = target /\ destroyed = target /\ returned = {}

FilingNext ==
  \/ \E starred \in SUBSET Pages : \E route \in [starred -> Targets \cup {NoTarget}] :
       StartByStars(starred, route)
  \/ \E pages \in SUBSET Pages, t \in Targets : StartExplicit(pages, t)
  \/ \E o \in DOMAIN ledger :
       \/ Resume(o) \/ WriteTarget(o) \/ LoseTarget(o)
       \/ MarkSourceRemoved(o) \/ MarkCompleted(o)
  \/ MarkTargetWritten
  \/ UploadSource \/ UploadSourceFails \/ LoseSource
  \/ Stop
  \/ \E new \in SUBSET Pages : DeviceEdit(new)
  \/ RestoreSource
  \/ \E t \in Targets : RestoreTarget(t)

FilingSpec == FilingInit /\ [][FilingNext]_vars

(***************************************************************************)
(* Properties.                                                             *)
(***************************************************************************)

\* Operations, statuses and a run in progress have the form the code gives
\* them, and a run executes recorded operations only.
FilingTypeOK ==
  /\ source \in Contents
  /\ target \in [Targets -> [Pages -> Nat]]
  /\ unrecorded \in [Targets -> [Pages -> Nat]]
  /\ destroyed \in [Targets -> [Pages -> Nat]]
  /\ missing \subseteq Targets \cup {Source} /\ returned \subseteq Pages
  /\ DOMAIN ledger \subseteq Operations
  /\ ledger \in [DOMAIN ledger -> Statuses]
  /\ run \in {Idle} \cup Runs
  /\ run # Idle => run.todo \cup run.done \subseteq DOMAIN ledger
  /\ run.pc = "mark" => run.op \in run.todo

InSource == IF Source \in missing THEN {} ELSE source.pages

\* What went with notebooks that an upload deleted and did not replace.
WentWithNotebook ==
  (IF Source \in missing THEN source.pages ELSE {})
  \cup {p \in Pages : \E t \in Targets : destroyed[t][p] > 0}

\* A page that filing was ever asked to move is in the source or in a target of
\* the Cloud, wherever the runs stopped and whatever was uploaded over, unless
\* it went with a notebook whose upload ended after the deletion.
NoPageLost ==
  \A o \in DOMAIN ledger : Moved(o) \subseteq InSource \cup Filed \cup WentWithNotebook

Written(o) == ledger[o] # "detected"

Cleaned(o) == ledger[o] \in {"source_removed", "completed"}

\* What the ledger says of an operation is true in the Cloud: once it is written
\* each of its pages is in the target, or went with the target when an upload
\* deleted that; once it is cleaned they are out of the source, unless it was
\* deleted, too, and the device uploaded a copy from before.
LedgerIsHonest ==
  \A o \in DOMAIN ledger :
    /\ Written(o) => \A p \in o.pages :
                       target[o.target][p] > 0 \/ destroyed[o.target][p] > 0
    /\ Cleaned(o) => Moved(o) \cap source.pages \subseteq returned

WritersOf(t, p) == {o \in DOMAIN ledger : o.target = t /\ p \in o.pages /\ Written(o)}

\* "A failed cleanup must never trigger a second destination append": every
\* copy that was ever put into a target, and is there or went with the target,
\* is the one copy of an operation the ledger has as written, or one whose
\* upload was not recorded before the run stopped.
EveryCopyIsAccountedFor ==
  \A t \in Targets, p \in Pages :
    target[t][p] + destroyed[t][p] = unrecorded[t][p] + Cardinality(WritersOf(t, p))

\* "A repeated scan of the same starred page and source revision should resume
\* the existing operation rather than create a duplicate move": a page is copied
\* to a target at most once for each operation.
OperationsCopyOnce ==
  \A t \in Targets, p \in Pages :
    target[t][p] <= Cardinality({o \in DOMAIN ledger : o.target = t /\ p \in o.pages})

=============================================================================
