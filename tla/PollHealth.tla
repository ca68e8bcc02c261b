----------------------------- MODULE PollHealth ------------------------------
(***************************************************************************)
(* How an outage of Supernote Cloud becomes visible: the cloud poller      *)
(* lists the notes (_list_notes), keeps its health (_set_poll_health), and *)
(* the callback of the service publishes every change of it to the event   *)
(* bus (publish_feedback_ingest_status).                                   *)
(*                                                                         *)
(*   listing   the status with which the cloud answers a listing now       *)
(*   healthy   _poll_healthy                                               *)
(*   poll      the poll under way                                          *)
(*   busKeys   the dedupe keys that the bus has taken                      *)
(*   busLast   the health that the last status event on the bus reports,   *)
(*             or "none"                                                   *)
(*   posts     status events posted so far: their uuids                    *)
(*   silent    whether the bus missed a change: a post failed, or the      *)
(*             daemon ended, so that what it knew of its health is gone    *)
(*                                                                         *)
(* Abstractions: the listing of subfolders, which never fails a poll; the  *)
(* names of the watched notebooks in an event.                             *)
(***************************************************************************)
EXTENDS Naturals

CONSTANTS
  Statuses,   \* of a failed listing: other statuses, or 200 without a listing
  MaxPosts    \* bound: status events

Expired == {401, 403}

ASSUME StatusesAreFailures == 200 \notin Statuses

VARIABLES listing, healthy, poll, busKeys, busLast, posts, silent

busVars == <<busKeys, busLast, posts, silent>>
healthVars == <<listing, healthy, poll, busKeys, busLast, posts, silent>>

Asleep == [pc |-> "sleep"]

\* The session expires, the cloud goes down, or either is over.
CloudTurns ==
  /\ listing' \in {200} \cup Statuses
  /\ UNCHANGED <<healthy, poll, busKeys, busLast, posts, silent>>

\* _fetch_note_listing: the status of the root listing is that of the poll.  One
\* that raises ends in the log of the loop and changes nothing.
ListNotes ==
  /\ poll = Asleep
  /\ poll' = [pc |-> IF listing \in Expired THEN "relogin" ELSE "listed", status |-> listing]
  /\ UNCHANGED <<listing, healthy, busVars>>

\* One silent login, and the listing again; if either raises the first status
\* counts.
EnsureAuthenticated ==
  /\ poll.pc = "relogin"
  /\ \/ poll' = [pc |-> "listed", status |-> listing]
     \/ poll' = [poll EXCEPT !.pc = "listed"]
  /\ UNCHANGED <<listing, healthy, busVars>>

\* Only a change of the health is reported.
SetPollHealth ==
  /\ poll.pc = "listed"
  /\ healthy' = (poll.status = 200)
  /\ poll' = IF healthy' = healthy THEN Asleep ELSE [poll EXCEPT !.pc = "report"]
  /\ UNCHANGED <<listing, busVars>>

\* Mutant: a recovery has the key of every recovery.
OneKeyForRecovery(status) == <<"status", status>>

\* A recovery carries a uuid, a failure its reason and status; the status
\* determines the reason.
DedupeKey(status) ==
  IF status = 200 THEN <<"recovered", posts>> ELSE <<"failed", status>>

\* The bus drops an event whose key it has.
Delivered(status) ==
  /\ busKeys' = busKeys \cup {DedupeKey(status)}
  /\ busLast' = IF DedupeKey(status) \in busKeys THEN busLast
                ELSE IF status = 200 THEN "recovered" ELSE "failed"

PublishFeedbackIngestStatus ==
  /\ poll.pc = "report" /\ posts < MaxPosts
  /\ Delivered(poll.status)
  /\ posts' = posts + 1
  /\ poll' = Asleep
  /\ UNCHANGED <<listing, healthy, silent>>

\* _publish logs an HTTP error, whether or not the bus has the event.
PublishFails ==
  /\ poll.pc = "report" /\ posts < MaxPosts
  /\ Delivered(poll.status) \/ UNCHANGED <<busKeys, busLast>>
  /\ posts' = posts + 1 /\ silent' = TRUE
  /\ poll' = Asleep
  /\ UNCHANGED <<listing, healthy>>

\* A new poller takes itself to be healthy.
RestartDaemon ==
  /\ poll' = Asleep /\ healthy' = TRUE /\ silent' = TRUE
  /\ UNCHANGED <<listing, busKeys, busLast, posts>>

HealthInit ==
  /\ listing = 200 /\ healthy = TRUE /\ poll = Asleep
  /\ busKeys = {} /\ busLast = "none" /\ posts = 0 /\ silent = FALSE

HealthNext ==
  \/ CloudTurns
  \/ ListNotes
  \/ EnsureAuthenticated
  \/ SetPollHealth
  \/ PublishFeedbackIngestStatus
  \/ PublishFails
  \/ RestartDaemon

HealthSpec == HealthInit /\ [][HealthNext]_healthVars

(***************************************************************************)
(* Properties.                                                             *)
(***************************************************************************)

Settled == poll = Asleep /\ ~silent

\* No recovery is suppressed (the comment at events.py:227): once a poller
\* that never went silent is healthy, the last thing the bus says is not that
\* it has failed, however many outages of whichever kind came before.
RecoveryIsOnTheBus == Settled /\ healthy => busLast # "failed"

\* Every outage is observable (_on_poll_health): while the poller is not
\* healthy the last thing the bus says is that it has failed.
OutageIsOnTheBus == Settled /\ ~healthy => busLast = "failed"

=============================================================================
