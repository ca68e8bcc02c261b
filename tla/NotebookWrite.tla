---------------------------- MODULE NotebookWrite ----------------------------
(***************************************************************************)
(* Writing to a notebook in the Supernote Cloud: the service handles the   *)
(* write requests of agents one after another (EventsClient, events.py;    *)
(* _handle_write_request, main.py), the organizer reorders pages           *)
(* (apply_reorder, organizer_api.py), and both go through                  *)
(* SupernoteUploader.upload_notebook (uploader.py), while the device keeps *)
(* synchronizing and processes crash.                                      *)
(*                                                                         *)
(*   cloudNote  content of the notebook in the Cloud, None when there is   *)
(*              no file of its name                                        *)
(*   siblings   kinds of copies beside it: "numbered", which the Cloud     *)
(*              makes of an upload under a name in use, and "conflict",    *)
(*              which a device makes                                       *)
(*   deviceNote the device's copy                                          *)
(*   cached     the content that the ledger's current revision stands for  *)
(*   events     the write requests published so far, by event ID           *)
(*   sinceId    _since_id of the service, which is only in memory          *)
(*   outcome    (history) the last answer sent for each request            *)
(*   op[p]      the operation process p is executing                       *)
(*   disturbances  how many edits, reorders and crashes there have been    *)
(*                                                                         *)
(* Every await on the Cloud is a step.  The lock of upload_notebook is     *)
(* that of one process, which here executes one operation at a time.       *)
(*                                                                         *)
(* Abstractions: one notebook in the root folder; its content is the list  *)
(* of the changes made to it, so that a content hash is the content; a     *)
(* base revision is the content it embeds the hash of.                     *)
(***************************************************************************)
EXTENDS Naturals, Sequences, FiniteSets, Functions

CONSTANTS
  Service,          \* the process that handles write requests
  Organizers,       \* organizer processes
  Kinds,            \* the content types requested: "append", "replace_pages"
  None,
  MaxRequests,      \* bound: write requests published
  MaxDisturbances   \* bound: edits on the device, reorders and crashes

ASSUME KindsAreModelled == Kinds \subseteq {"append", "replace_pages"}
ASSUME ServiceIsNoOrganizer == Service \notin Organizers

VARIABLES cloudNote, siblings, deviceNote, cached, events, sinceId, outcome, op,
          disturbances

cloudVars == <<cloudNote, siblings>>
requestVars == <<events, sinceId, outcome>>
vars == <<cloudVars, deviceNote, cached, requestVars, op, disturbances>>

Processes == {Service} \cup Organizers

Idle == [pc |-> "idle"]

Original == <<"original", 0>>
Edit(k) == <<"edit", k>>
Request(k) == <<"request", k>>
Reorder(k) == <<"reorder", k>>

At(p, pc) == op[p].pc = pc

Goto(p, pc) == op' = [op EXCEPT ![p].pc = pc]

(***************************************************************************)
(* Requests.                                                               *)
(***************************************************************************)

\* An agent bases its request on the revision it is served.
Publish(kind) ==
  /\ Len(events) < MaxRequests
  /\ events' = Append(events, [kind |-> kind, base |-> cached])
  /\ outcome' = Append(outcome, None)
  /\ UNCHANGED <<cloudVars, deviceNote, cached, sinceId, op, disturbances>>

\* Mutant: the events of a batch after a handled one are skipped.
AnswerAndSkip(k, result) ==
  /\ outcome' = [outcome EXCEPT ![k] = result]
  /\ sinceId' = k + 1

\* The answer is sent (_publish only logs what goes wrong with it), the handler
\* returns, and the cursor moves on.
Answer(k, result) ==
  /\ outcome' = [outcome EXCEPT ![k] = result]
  /\ sinceId' = k

\* The outcome of an organizer's operation goes back to its user only.
End(p, result) ==
  /\ op' = [op EXCEPT ![p] = Idle]
  /\ IF p = Service THEN Answer(op[p].event, result) ELSE UNCHANGED <<sinceId, outcome>>

\* _fetch_and_dispatch and the guard, which compares with the cached revision.
Deliver ==
  LET k == sinceId + 1
  IN  /\ op[Service] = Idle
      /\ k <= Len(events)
      /\ IF events[k].base # cached
           THEN Answer(k, "failed") /\ UNCHANGED op
           ELSE /\ op' = [op EXCEPT ![Service] =
                     [pc |-> IF events[k].kind = "append" THEN "download" ELSE "check",
                      kind |-> events[k].kind, event |-> k, base |-> events[k].base,
                      change |-> Request(k), retried |-> FALSE, new |-> <<>>]]
                /\ UNCHANGED <<sinceId, outcome>>
      /\ UNCHANGED <<cloudVars, deviceNote, cached, events, disturbances>>

\* A user has loaded the notebook and applies a new page order to it.
StartReorder(p) ==
  /\ op[p] = Idle
  /\ disturbances < MaxDisturbances
  /\ cloudNote # None
  /\ op' = [op EXCEPT ![p] =
       [pc |-> "download", kind |-> "reorder", base |-> cloudNote,
        change |-> Reorder(disturbances + 1), retried |-> TRUE, new |-> <<>>]]
  /\ disturbances' = disturbances + 1
  /\ UNCHANGED <<cloudVars, deviceNote, cached, requestVars>>

(***************************************************************************)
(* Download and change.                                                    *)
(***************************************************************************)

\* _raise_if_cloud_conflict_exists; a listing that fails shows no conflict.
CheckConflicts(p) ==
  /\ At(p, "check")
  /\ \/ Goto(p, "download") /\ UNCHANGED <<sinceId, outcome>>
     \/ "conflict" \in siblings /\ End(p, "failed")
  /\ UNCHANGED <<cloudVars, deviceNote, cached, events, disturbances>>

\* Mutant: the downloaded bytes are not compared with the base revision.
DownloadUnchecked(p) ==
  /\ At(p, "download")
  /\ op[p].kind # "replace_pages"
  /\ IF cloudNote = None
       THEN End(p, "failed")
       ELSE /\ op' = [op EXCEPT ![p].pc = "siblings",
                                ![p].new = Append(cloudNote, op[p].change)]
            /\ UNCHANGED <<sinceId, outcome>>
  /\ UNCHANGED <<cloudVars, deviceNote, cached, events, disturbances>>

\* An append and a reorder compare the downloaded bytes with their base.
Download(p) ==
  /\ At(p, "download")
  /\ op[p].kind # "replace_pages"
  /\ IF cloudNote = None \/ cloudNote # op[p].base
       THEN End(p, "failed")
       ELSE /\ op' = [op EXCEPT ![p].pc = "siblings",
                                ![p].new = Append(cloudNote, op[p].change)]
            /\ UNCHANGED <<sinceId, outcome>>
  /\ UNCHANGED <<cloudVars, deviceNote, cached, events, disturbances>>

\* replace_pages takes from the download, or from another notebook if there
\* is none, only the file around the pages.
DownloadTemplate(p) ==
  /\ At(p, "download")
  /\ op[p].kind = "replace_pages"
  /\ op' = [op EXCEPT ![p].pc = "siblings", ![p].new = <<op[p].change>>]
  /\ UNCHANGED <<cloudVars, deviceNote, cached, requestVars, disturbances>>

(***************************************************************************)
(* upload_notebook.                                                        *)
(***************************************************************************)

\* A listing that fails is an empty one: no sibling, no file to delete.
CheckSiblings(p) ==
  /\ At(p, "siblings")
  /\ \/ Goto(p, "locate") /\ UNCHANGED <<sinceId, outcome>>
     \/ siblings # {} /\ End(p, "failed")
  /\ UNCHANGED <<cloudVars, deviceNote, cached, events, disturbances>>

Locate(p) ==
  /\ At(p, "locate")
  /\ \/ cloudNote # None /\ Goto(p, "delete")
     \/ Goto(p, "upload")
  /\ UNCHANGED <<cloudVars, deviceNote, cached, requestVars, disturbances>>

\* By file ID, which an update of the file may keep; the other case is Fail.
Delete(p) ==
  /\ At(p, "delete")
  /\ cloudNote' = None
  /\ Goto(p, "absent")
  /\ UNCHANGED <<siblings, deviceNote, cached, requestVars, disturbances>>

\* _wait_for_target_absent: ten listings, the last of which still shows it.
WaitAbsent(p) ==
  /\ At(p, "absent")
  /\ \/ Goto(p, "upload") /\ UNCHANGED <<sinceId, outcome>>
     \/ cloudNote # None /\ End(p, "failed")
  /\ UNCHANGED <<cloudVars, deviceNote, cached, events, disturbances>>

\* What finish does in the Cloud: a name in use makes a numbered copy.
Store(new) ==
  IF cloudNote = None
    THEN cloudNote' = new /\ UNCHANGED siblings
    ELSE siblings' = siblings \cup {"numbered"} /\ UNCHANGED cloudNote

\* apply, the transfer to S3 and finish: only finish changes the Cloud.
Upload(p) ==
  /\ At(p, "upload")
  /\ Store(op[p].new)
  /\ Goto(p, "settle")
  /\ UNCHANGED <<deviceNote, cached, requestVars, disturbances>>

\* _wait_for_stable_single_target: one listing for the file, another for the
\* siblings, and that one fails open.  Only appends are verified after it.
Settle(p) ==
  /\ At(p, "settle")
  /\ \/ /\ cloudNote = None \/ siblings # {}
        /\ End(p, "failed")
     \/ /\ cloudNote # None
        /\ IF op[p].kind = "append"
             THEN Goto(p, "verify") /\ UNCHANGED <<sinceId, outcome>>
             ELSE End(p, "completed")
  /\ UNCHANGED <<cloudVars, deviceNote, cached, events, disturbances>>

\* Mutant: the re-download only has to succeed.
VerifyPresence(p) ==
  /\ At(p, "verify")
  /\ End(p, IF cloudNote # None THEN "completed" ELSE "failed")
  /\ UNCHANGED <<cloudVars, deviceNote, cached, events, disturbances>>

\* _reverify_upload.
Verify(p) ==
  /\ At(p, "verify")
  /\ End(p, IF cloudNote = op[p].new THEN "completed" ELSE "failed")
  /\ UNCHANGED <<cloudVars, deviceNote, cached, events, disturbances>>

\* Mutant: the handler's error is logged and not published.
FailWithoutAnswer(p) ==
  /\ op[p] # Idle
  /\ op' = [op EXCEPT ![p] = Idle]
  /\ sinceId' = IF p = Service THEN op[p].event ELSE sinceId
  /\ UNCHANGED <<cloudVars, deviceNote, cached, events, outcome, disturbances>>

\* Any call of the Cloud can fail, also after it took effect there: a failure
\* at "settle" includes the answer of finish that never arrived.
Fail(p) ==
  /\ op[p] # Idle
  /\ End(p, "failed")
  /\ UNCHANGED <<cloudVars, deviceNote, cached, events, disturbances>>

\* replace_pages starts again, once, with a fresh browser session.
Retry(p) ==
  /\ op[p] # Idle
  /\ ~op[p].retried
  /\ op[p].kind = "replace_pages"
  /\ op' = [op EXCEPT ![p].pc = "check", ![p].retried = TRUE]
  /\ UNCHANGED <<cloudVars, deviceNote, cached, requestVars, disturbances>>

\* The requests are delivered again from the first one.
Crash(p) ==
  /\ disturbances < MaxDisturbances
  /\ op' = [op EXCEPT ![p] = Idle]
  /\ sinceId' = IF p = Service THEN 0 ELSE sinceId
  /\ disturbances' = disturbances + 1
  /\ UNCHANGED <<cloudVars, deviceNote, cached, events, outcome>>

(***************************************************************************)
(* The poller, the device and its user.                                    *)
(***************************************************************************)

Ingest ==
  /\ cloudNote # None
  /\ cached' = cloudNote
  /\ UNCHANGED <<cloudVars, deviceNote, requestVars, op, disturbances>>

DeviceEdit ==
  /\ disturbances < MaxDisturbances
  /\ cloudNote = deviceNote
  /\ cloudNote' = Append(cloudNote, Edit(disturbances + 1))
  /\ deviceNote' = cloudNote'
  /\ disturbances' = disturbances + 1
  /\ UNCHANGED <<siblings, cached, requestVars, op>>

DeviceSync ==
  /\ cloudNote # None
  /\ deviceNote' = cloudNote
  /\ UNCHANGED <<cloudVars, cached, requestVars, op, disturbances>>

\* The device finds its notebook missing in the Cloud and uploads its copy.
DeviceRestores ==
  /\ cloudNote = None
  /\ cloudNote' = deviceNote
  /\ UNCHANGED <<siblings, deviceNote, cached, requestVars, op, disturbances>>

\* The device was edited offline while the Cloud's copy changed.
DeviceConflict ==
  /\ cloudNote \notin {None, deviceNote}
  /\ siblings' = siblings \cup {"conflict"}
  /\ deviceNote' = cloudNote
  /\ UNCHANGED <<cloudNote, cached, requestVars, op, disturbances>>

UserRemovesSiblings ==
  /\ siblings' = {}
  /\ UNCHANGED <<cloudNote, deviceNote, cached, requestVars, op, disturbances>>

(***************************************************************************)
(* Specification.                                                          *)
(***************************************************************************)

WriteInit ==
  /\ cloudNote = <<Original>> /\ siblings = {}
  /\ deviceNote = <<Original>> /\ cached = <<Original>>
  /\ events = <<>> /\ sinceId = 0 /\ outcome = <<>>
  /\ op = [p \in Processes |-> Idle]
  /\ disturbances = 0

Proceed(p) ==
  \/ CheckConflicts(p) \/ Download(p) \/ DownloadTemplate(p)
  \/ CheckSiblings(p) \/ Locate(p) \/ Delete(p) \/ WaitAbsent(p)
  \/ Upload(p) \/ Settle(p) \/ Verify(p)

WriteNext ==
  \/ \E kind \in Kinds : Publish(kind)
  \/ Deliver
  \/ \E p \in Organizers : StartReorder(p)
  \/ \E p \in Processes : Proceed(p) \/ Fail(p) \/ Retry(p) \/ Crash(p)
  \/ Ingest
  \/ DeviceEdit \/ DeviceSync \/ DeviceRestores \/ DeviceConflict
  \/ UserRemovesSiblings

WriteSpec == WriteInit /\ [][WriteNext]_vars

\* The poll loop of the events client never ends, and every call of the Cloud
\* returns or fails.
WriteFairness == WF_vars(Deliver) /\ WF_vars(Proceed(Service))

FairWriteSpec == WriteSpec /\ WriteFairness

(***************************************************************************)
(* Properties.                                                             *)
(***************************************************************************)

Contents == Seq({"original", "edit", "request", "reorder"} \X Nat)

\* Contents, answers and operations in progress have the form the code gives
\* them, and the cursor is that of a published event.
WriteTypeOK ==
  /\ cloudNote \in Contents \cup {None}
  /\ deviceNote \in Contents /\ cached \in Contents
  /\ siblings \subseteq {"numbered", "conflict"}
  /\ outcome \in [1..Len(events) -> {None, "completed", "failed"}]
  /\ sinceId \in 0..Len(events)
  /\ \A p \in Processes :
       \/ op[p] = Idle
       \/ /\ op[p].pc \in {"check", "download", "siblings", "locate", "delete",
                           "absent", "upload", "settle", "verify"}
          /\ op[p].base \in Contents /\ op[p].new \in Contents

Occurrences(note, change) == {i \in DOMAIN note : note[i] = change}

\* A request is delivered again after every restart, and its first delivery
\* may have failed after it changed the notebook; still no page is appended
\* twice.
NoRequestAppliedTwice ==
  cloudNote # None =>
    \A k \in DOMAIN events : Cardinality(Occurrences(cloudNote, Request(k))) <= 1

Completes(k) == outcome[k] # "completed" /\ outcome'[k] = "completed"

\* When an append is reported as completed, the notebook is the revision its
\* agent had read plus its page, and the only copy: edits, reorders, retries
\* and conflict copies of others lead to a failure, not to a wrong report.
CompletedAppendExtendsItsBase ==
  [][\A k \in DOMAIN events :
       events[k].kind = "append" /\ Completes(k) =>
         cloudNote = Append(events[k].base, Request(k))]_vars

\* An answer is sent for every write request, also when its handler fails at any
\* step or the service is restarted.
EveryRequestIsAnswered ==
  \A k \in 1..MaxRequests : k \in DOMAIN events ~> k \in DOMAIN outcome /\ outcome[k] # None

\* "If the upload fails, the original is untouched": the notebook is missing
\* from the Cloud only while an upload is in progress.
MissingOnlyDuringUpload ==
  cloudNote = None => \E p \in Processes : op[p].pc \in {"absent", "upload"}

=============================================================================
