--------------------------- MODULE ServicesProofs ---------------------------
(***************************************************************************)
(* Proofs about the services that the daemon runs beside the ledger, for   *)
(* any number of edits, outages, ticks and restarts: the folder watcher    *)
(* takes the last edit of a burst, the bus never keeps a recovery of the   *)
(* poll to itself, the cloud session absorbs a crash and an expired token, *)
(* the tasks notebook completes an issue once per tick, and a clean row is *)
(* in folio; and about the loops that draw an answer and encode a page,    *)
(* for texts and bitmaps of any length.  Each part only uses the module it *)
(* is about.                                                               *)
(***************************************************************************)
EXTENDS FolderWatcher, PollHealth, CloudSession, TasksNotebook, Enrichment,
        PageRendering, RattaRle, SequenceTheorems, WellFoundedInduction, TLAPS

(***************************************************************************)
(* FolderWatcher: the debounce, whose threads race for _pending and        *)
(* _checksums.                                                             *)
(***************************************************************************)

\* What the watcher has seen are bytes that the file has or had.
FolderTyped ==
  /\ content \in Nat \ {0} /\ events \in Nat
  /\ checksum \in past \cup {content, 0} /\ taken \in past \cup {content, 0}
  /\ \A t \in threads : /\ t.pc = "compare" => t.sum \in past \cup {content}
                        /\ t.pc = "schedule" => t.bytes \in past \cup {content}
                        /\ t.pc = "sleep" => t \in [time: Nat, pc: {"sleep"}]
  /\ taken = 0 \/ taken \in given

\* The callback has dealt with the bytes of the file, or is about to.
Covered ==
  \/ content \in given \cup unread
  \/ \E t \in threads : t.pc = "callback"
  \/ \E t \in threads : t.pc = "schedule" /\ t.bytes = content

\* Somebody is still on the way to the bytes of the file.
Awaited ==
  \/ notified
  \/ \E t \in threads : t.pc = "sleep" /\ t.time = pending
  \/ \E t \in threads : t.pc = "read"
  \/ \E t \in threads : t.pc = "compare" /\ t.sum = content

\* Callbacks that never overlapped give bytes in the order they read them: new
\* ones that were given are the last, and nobody is about to give older ones.
InOrder ==
  \/ overlapped
  \/ /\ \A t, u \in threads : t.pc = "schedule" /\ u.pc = "schedule" => t = u
     /\ content \notin past /\ content \in given =>
          /\ taken = content
          /\ \A t \in threads : t.pc = "schedule" => t.bytes = content

\* A recorded checksum stops the threads that come later, so it has to stand for
\* bytes that are dealt with.
FolderInv ==
  /\ FolderTyped
  /\ given \subseteq past \cup {content}
  /\ content \notin past => /\ Covered \/ Awaited
                            /\ checksum = content => Covered
  /\ InOrder

LEMMA FolderInitInv ==
  ASSUME FolderInit
  PROVE  FolderInv
BY DEF FolderInit, FolderInv, FolderTyped, Covered, Awaited, InOrder

\* An edit is followed by a notification, and nobody has seen its bytes if they
\* are new.
LEMMA EditKeepsInv ==
  ASSUME FolderInv, EditFile
  PROVE  FolderInv'
<1>1. /\ content' \in Nat \ {0} /\ past' = past \cup {content} /\ notified'
      /\ UNCHANGED <<pending, threads, checksum, taken, given, unread, overlapped, events>>
  BY DEF EditFile, Contents, handoverVars, FolderInv, FolderTyped
<1>2. FolderTyped' /\ (given \subseteq past \cup {content})'
  BY <1>1 DEF FolderInv, FolderTyped
<1>3. content' \notin past' => content' \notin given /\ checksum' # content'
  BY <1>1 DEF FolderInv, FolderTyped
<1>4. InOrder'
  BY <1>1, <1>3 DEF FolderInv, InOrder
<1>5. QED
  BY <1>1, <1>2, <1>3, <1>4 DEF FolderInv, Awaited

\* The thread of the latest event is the one that may claim it.
LEMMA EventKeepsInv ==
  ASSUME FolderInv, HandleEvent
  PROVE  FolderInv'
<1> DEFINE new == [time |-> events + 1, pc |-> "sleep"]
<1>1. /\ threads' = threads \cup {new} /\ pending' = events + 1
      /\ UNCHANGED <<content, past, checksum, taken, given, unread, overlapped>>
  BY DEF HandleEvent, handoverVars
<1>2. new \in threads' /\ new.pc = "sleep" /\ new.time = pending'
  BY <1>1
<1>3. new.pc \notin {"compare", "schedule"} /\ new \in [time: Nat, pc: {"sleep"}]
  BY DEF FolderInv, FolderTyped
<1>4. events' \in Nat
  BY DEF HandleEvent, FolderInv, FolderTyped
<1> HIDE DEF new
<1>5. Awaited'
  BY <1>2 DEF Awaited
<1>6. FolderTyped' /\ (given \subseteq past \cup {content})'
  BY <1>1, <1>3, <1>4 DEF FolderInv, FolderTyped
<1>7. Covered => Covered'
  BY <1>1 DEF Covered
<1>8. InOrder'
  BY <1>1, <1>3 DEF FolderInv, InOrder
<1>9. QED
  BY <1>1, <1>5, <1>6, <1>7, <1>8 DEF FolderInv

\* A thread that was superseded leaves the event to the later one; the one that
\* was not goes on to read the file.
LEMMA WakeKeepsInv ==
  ASSUME FolderInv, NEW t \in threads, Superseded(t) \/ Claim(t)
  PROVE  FolderInv'
<1>1. CASE Superseded(t)
  <2>1. /\ threads' = threads \ {t} /\ t.pc = "sleep" /\ t.time # pending
        /\ UNCHANGED <<content, past, notified, pending, checksum, taken, given, unread,
                       overlapped, events>>
    BY <1>1 DEF Superseded, Exit, fileVars, handoverVars
  <2>2. QED
    BY <2>1 DEF FolderInv, FolderTyped, Covered, Awaited, InOrder
<1>2. CASE Claim(t)
  <2> DEFINE next == [t EXCEPT !.pc = "read"]
  <2>1. /\ threads' = (threads \ {t}) \cup {next} /\ t.pc = "sleep"
        /\ UNCHANGED <<content, past, notified, checksum, taken, given, unread,
                       overlapped, events>>
    BY <1>2 DEF Claim, GoTo, fileVars, handoverVars
  <2>2. next \in threads'
    BY <2>1
  <2>3. next.pc = "read"
    BY <2>1 DEF FolderInv, FolderTyped
  <2> HIDE DEF next
  <2>4. Awaited'
    BY <2>2, <2>3 DEF Awaited
  <2>5. FolderTyped' /\ (Covered => Covered') /\ InOrder'
    BY <2>1, <2>3 DEF FolderInv, FolderTyped, Covered, InOrder
  <2>6. QED
    BY <2>1, <2>4, <2>5 DEF FolderInv
<1>3. QED
  BY <1>1, <1>2

\* The checksum is that of the bytes that are there now.
LEMMA ChecksumKeepsInv ==
  ASSUME FolderInv, NEW t \in threads, Checksum(t)
  PROVE  FolderInv'
<1>1. CASE readable
  <2> DEFINE next == [time |-> t.time, pc |-> "compare", sum |-> content]
  <2>1. /\ threads' = (threads \ {t}) \cup {next} /\ t.pc = "read"
        /\ UNCHANGED <<content, past, notified, checksum, taken, given, unread,
                       overlapped, events>>
    BY <1>1 DEF Checksum, GoTo, fileVars
  <2>2. next.pc = "compare" /\ next.sum = content
    OBVIOUS
  <2> HIDE DEF next
  <2>3. Awaited'
    BY <2>1, <2>2 DEF Awaited
  <2>4. FolderTyped' /\ (Covered => Covered') /\ InOrder'
    BY <2>1, <2>2 DEF FolderInv, FolderTyped, Covered, InOrder
  <2>5. QED
    BY <2>1, <2>3, <2>4 DEF FolderInv
<1>2. CASE ~readable
  <2>1. /\ threads' = threads \ {t} /\ unread' = unread \cup {content} /\ t.pc = "read"
        /\ UNCHANGED <<content, past, checksum, taken, given, overlapped, events>>
    BY <1>2 DEF Checksum, Exit, fileVars
  <2>2. QED
    BY <2>1 DEF FolderInv, FolderTyped, Covered, InOrder
<1>3. QED
  BY <1>1, <1>2

\* A thread stops only at a checksum whose bytes are dealt with.
LEMMA CompareKeepsInv ==
  ASSUME FolderInv, NEW t \in threads, Compare(t)
  PROVE  FolderInv'
<1>1. CASE t.sum = checksum
  <2>1. /\ threads' = threads \ {t} /\ t.pc = "compare"
        /\ UNCHANGED <<content, past, notified, pending, checksum, taken, given, unread,
                       overlapped, events>>
    BY <1>1 DEF Compare, Exit, fileVars, handoverVars
  <2>2. FolderTyped' /\ (Covered => Covered') /\ InOrder'
    BY <2>1 DEF FolderInv, FolderTyped, Covered, InOrder
  <2>3. content \notin past => Covered \/ Awaited'
    BY <1>1, <2>1 DEF FolderInv, Awaited
  <2>4. QED
    BY <2>1, <2>2, <2>3 DEF FolderInv
<1>2. CASE t.sum # checksum
  <2> DEFINE next == [time |-> t.time, pc |-> "callback"]
  <2>1. /\ threads' = (threads \ {t}) \cup {next} /\ t.pc = "compare"
        /\ checksum' = t.sum
        /\ UNCHANGED <<content, past, taken, given, unread, overlapped, events>>
    BY <1>2 DEF Compare, GoTo, fileVars, handoverVars
  <2>2. next.pc = "callback"
    OBVIOUS
  <2> HIDE DEF next
  <2>3. Covered' /\ FolderTyped' /\ InOrder'
    BY <2>1, <2>2 DEF FolderInv, FolderTyped, Covered, InOrder
  <2>4. QED
    BY <2>1, <2>3 DEF FolderInv
<1>3. QED
  BY <1>1, <1>2

\* The callback reads what the file has by then.
LEMMA ReadBytesKeepsInv ==
  ASSUME FolderInv, NEW t \in threads, ReadBytes(t)
  PROVE  FolderInv'
<1>1. CASE readable
  <2> DEFINE next == [time |-> t.time, pc |-> "schedule", bytes |-> content]
  <2>1. /\ threads' = (threads \ {t}) \cup {next} /\ t.pc = "callback"
        /\ overlapped' = (overlapped \/ \E u \in threads : u.pc = "schedule")
        /\ UNCHANGED <<content, past, notified, checksum, taken, given, unread, events>>
    BY <1>1 DEF ReadBytes, GoTo, fileVars
  <2>2. next.pc = "schedule" /\ next.bytes = content
    OBVIOUS
  <2> HIDE DEF next
  <2>3. Covered'
    BY <2>1, <2>2 DEF Covered
  <2>4. FolderTyped'
    BY <2>1, <2>2 DEF FolderInv, FolderTyped
  <2>5. InOrder'
    BY <2>1, <2>2 DEF FolderInv, InOrder
  <2>6. QED
    BY <2>1, <2>3, <2>4, <2>5 DEF FolderInv
<1>2. CASE ~readable
  <2>1. /\ threads' = threads \ {t} /\ unread' = unread \cup {content} /\ t.pc = "callback"
        /\ UNCHANGED <<content, past, checksum, taken, given, overlapped, events>>
    BY <1>2 DEF ReadBytes, Exit, fileVars
  <2>2. QED
    BY <2>1 DEF FolderInv, FolderTyped, Covered, InOrder
<1>3. QED
  BY <1>1, <1>2

\* What one callback gives to the event loop is what it read, be it old by now.
LEMMA ScheduleKeepsInv ==
  ASSUME FolderInv, NEW t \in threads, ScheduleCoroutine(t)
  PROVE  FolderInv'
<1>1. /\ threads' = threads \ {t} /\ t.pc = "schedule"
      /\ taken' = t.bytes /\ given' = given \cup {t.bytes}
      /\ UNCHANGED <<content, past, notified, pending, checksum, unread, overlapped, events>>
  BY DEF ScheduleCoroutine, Exit, fileVars
<1>2. t.bytes \in past \cup {content}
  BY <1>1 DEF FolderInv, FolderTyped
<1>3. FolderTyped' /\ (given \subseteq past \cup {content})'
  BY <1>1, <1>2 DEF FolderInv, FolderTyped
<1>4. (Covered => Covered') /\ (Awaited => Awaited')
  BY <1>1 DEF Covered, Awaited
<1>5. InOrder'
  <2>1. CASE overlapped
    BY <1>1, <2>1 DEF InOrder
  <2>2. CASE ~overlapped
    <3>1. \A u \in threads' : u.pc # "schedule"
      BY <1>1, <2>2 DEF FolderInv, InOrder
    <3>2. content \notin past /\ content \in given' => taken' = content
      BY <1>1, <2>2 DEF FolderInv, InOrder
    <3>3. QED
      BY <1>1, <3>1, <3>2 DEF InOrder
  <2>3. QED
    BY <2>1, <2>2
<1>6. QED
  BY <1>1, <1>3, <1>4, <1>5 DEF FolderInv

\* Once no thread is left and no event is on its way, the last bytes of the file
\* were given to the ingest service if they are new and could be read, in whatever
\* order the threads ran, and they were given last unless two callbacks overlapped.
THEOREM LastEditIsTaken == FolderSpec => []QuietMeansTaken
<1>1. FolderInit => FolderInv
  BY FolderInitInv
<1>2. FolderInv /\ [FolderNext]_folderVars => FolderInv'
  <2> SUFFICES ASSUME FolderInv, [FolderNext]_folderVars
               PROVE  FolderInv'
    OBVIOUS
  <2>1. CASE ToggleReadable \/ UNCHANGED folderVars
    <3>1. UNCHANGED <<content, past, notified, pending, threads, checksum, taken, given,
                      unread, overlapped, events>>
      BY <2>1 DEF ToggleReadable, folderVars, fileVars, handoverVars
    <3>2. QED
      BY <3>1 DEF FolderInv, FolderTyped, Covered, Awaited, InOrder
  <2>2. QED
    BY <2>1, EditKeepsInv, EventKeepsInv, WakeKeepsInv, ChecksumKeepsInv,
       CompareKeepsInv, ReadBytesKeepsInv, ScheduleKeepsInv DEF FolderNext
<1>3. FolderInv => QuietMeansTaken
  <2> SUFFICES ASSUME FolderInv, threads = {}, ~notified, content \notin past \cup unread
               PROVE  content \in given /\ (taken = content \/ overlapped)
    BY DEF QuietMeansTaken
  <2>1. content \in given
    BY DEF FolderInv, Covered, Awaited
  <2>2. QED
    BY <2>1 DEF FolderInv, InOrder
<1>4. QED
  BY <1>1, <1>2, <1>3, PTL DEF FolderSpec

(***************************************************************************)
(* PollHealth: the status events and the dedupe keys of the bus.           *)
(***************************************************************************)

Polls == [pc: {"relogin", "listed", "report"}, status: {200} \cup Statuses]

PollIsTyped == listing \in {200} \cup Statuses /\ (poll = Asleep \/ poll \in Polls)

\* A poll reports the health that it has just set.
ReportIsOfHealth == poll.pc = "report" => healthy = (poll.status = 200)

\* The uuid of the next recovery is not on the bus: it is the number of posts.
KeysAreOld ==
  /\ posts \in Nat
  /\ \A n \in Nat : n >= posts => <<"recovered", n>> \notin busKeys

\* Outside of a report the bus is not behind a poller that is healthy.
BusKnowsRecovery ==
  poll.pc # "report" /\ ~silent /\ healthy => busLast # "failed"

HealthInv == PollIsTyped /\ ReportIsOfHealth /\ KeysAreOld /\ BusKnowsRecovery

\* A post adds at most the key of this post, and that of a recovery is new.
LEMMA DeliveryAddsOneKey ==
  ASSUME HealthInv, NEW status, Delivered(status), posts' = posts + 1
  PROVE  /\ KeysAreOld'
         /\ status = 200 => busLast' = "recovered"
<1>1. posts \in Nat
  BY DEF HealthInv, KeysAreOld
<1>2. CASE status = 200
  <2>1. DedupeKey(status) = <<"recovered", posts>>
    BY <1>2 DEF DedupeKey
  <2>2. <<"recovered", posts>> \notin busKeys
    BY <1>1 DEF HealthInv, KeysAreOld
  <2>3. busKeys' = busKeys \cup {<<"recovered", posts>>} /\ busLast' = "recovered"
    BY <1>2, <2>1, <2>2 DEF Delivered
  <2>4. \A n \in Nat : n >= posts + 1 => <<"recovered", n>> # <<"recovered", posts>>
    BY <1>1
  <2>5. QED
    BY <1>1, <2>3, <2>4 DEF HealthInv, KeysAreOld
<1>3. CASE status # 200
  <2>1. DedupeKey(status) = <<"failed", status>>
    BY <1>3 DEF DedupeKey
  <2>2. busKeys' = busKeys \cup {<<"failed", status>>}
    BY <2>1 DEF Delivered
  <2>3. \A n : <<"recovered", n>> # <<"failed", status>>
    OBVIOUS
  <2>4. QED
    BY <1>1, <1>3, <2>2, <2>3 DEF HealthInv, KeysAreOld
<1>4. QED
  BY <1>2, <1>3

LEMMA HealthNextKeepsInv ==
  ASSUME HealthInv, [HealthNext]_healthVars
  PROVE  HealthInv'
<1>0. /\ Asleep.pc = "sleep"
      /\ poll.pc # "sleep" => poll \in Polls
  BY DEF Asleep, HealthInv, PollIsTyped
<1>type. PollIsTyped'
  <2>1. CASE CloudTurns \/ RestartDaemon \/ UNCHANGED healthVars
    BY <2>1 DEF CloudTurns, RestartDaemon, healthVars, HealthInv, PollIsTyped
  <2>2. CASE ListNotes \/ EnsureAuthenticated
    <3>1. UNCHANGED listing /\ listing \in {200} \cup Statuses
      BY <2>2 DEF ListNotes, EnsureAuthenticated, HealthInv, PollIsTyped
    <3>2. poll' \in Polls
      BY <1>0, <2>2, <3>1 DEF ListNotes, EnsureAuthenticated, Polls
    <3>3. QED
      BY <3>1, <3>2 DEF PollIsTyped
  <2>3. CASE SetPollHealth
    <3>1. UNCHANGED listing /\ (poll' = Asleep \/ poll' \in Polls)
      BY <1>0, <2>3 DEF SetPollHealth, Polls
    <3>2. QED
      BY <3>1 DEF HealthInv, PollIsTyped
  <2>4. CASE PublishFeedbackIngestStatus \/ PublishFails
    BY <2>4 DEF PublishFeedbackIngestStatus, PublishFails, HealthInv, PollIsTyped
  <2>5. QED
    BY <2>1, <2>2, <2>3, <2>4 DEF HealthNext
<1>1. CASE CloudTurns \/ UNCHANGED healthVars
  BY <1>1, <1>type DEF CloudTurns, healthVars, HealthInv, ReportIsOfHealth, KeysAreOld,
              BusKnowsRecovery
<1>2. CASE ListNotes
  <2>1. poll'.pc # "report" /\ poll.pc # "report"
    BY <1>0, <1>2 DEF ListNotes
  <2>2. QED
    BY <1>2, <1>type, <2>1 DEF ListNotes, busVars, HealthInv, ReportIsOfHealth, KeysAreOld,
                      BusKnowsRecovery
<1>3. CASE EnsureAuthenticated
  <2>1. poll'.pc # "report" /\ poll.pc # "report"
    BY <1>0, <1>3 DEF EnsureAuthenticated, Polls
  <2>2. QED
    BY <1>3, <1>type, <2>1 DEF EnsureAuthenticated, busVars, HealthInv, ReportIsOfHealth,
                      KeysAreOld, BusKnowsRecovery
<1>4. CASE SetPollHealth
  <2>1. KeysAreOld'
    BY <1>4 DEF SetPollHealth, busVars, HealthInv, KeysAreOld
  <2>2. CASE healthy' = healthy
    BY <1>0, <1>4, <1>type, <2>1, <2>2
       DEF SetPollHealth, busVars, HealthInv, ReportIsOfHealth, BusKnowsRecovery
  <2>3. CASE healthy' # healthy
    <3>1. poll' = [poll EXCEPT !.pc = "report"] /\ healthy' = (poll.status = 200)
      BY <1>4, <2>3 DEF SetPollHealth
    <3>2. poll'.pc = "report" /\ poll'.status = poll.status
      BY <1>0, <1>4, <3>1 DEF SetPollHealth, Polls
    <3>3. QED
      BY <1>type, <2>1, <3>1, <3>2 DEF HealthInv, ReportIsOfHealth, BusKnowsRecovery
  <2>4. QED
    BY <2>2, <2>3
<1>5. CASE PublishFeedbackIngestStatus
  <2>1. KeysAreOld' /\ (poll.status = 200 => busLast' = "recovered")
    BY <1>5, DeliveryAddsOneKey DEF PublishFeedbackIngestStatus
  <2>2. healthy' = (poll.status = 200) /\ poll' = Asleep
    BY <1>5 DEF PublishFeedbackIngestStatus, HealthInv, ReportIsOfHealth
  <2>3. QED
    BY <1>0, <1>type, <2>1, <2>2 DEF HealthInv, ReportIsOfHealth, BusKnowsRecovery
<1>6. CASE PublishFails
  <2>1. KeysAreOld'
    <3>1. CASE Delivered(poll.status)
      BY <1>6, <3>1, DeliveryAddsOneKey DEF PublishFails
    <3>2. CASE UNCHANGED <<busKeys, busLast>>
      BY <1>6, <3>2 DEF PublishFails, HealthInv, KeysAreOld
    <3>3. QED
      BY <1>6, <3>1, <3>2 DEF PublishFails
  <2>2. QED
    BY <1>0, <1>6, <1>type, <2>1 DEF PublishFails, HealthInv, ReportIsOfHealth, BusKnowsRecovery
<1>7. CASE RestartDaemon
  BY <1>0, <1>7, <1>type DEF RestartDaemon, HealthInv, ReportIsOfHealth, KeysAreOld,
                    BusKnowsRecovery
<1>8. QED
  BY <1>1, <1>2, <1>3, <1>4, <1>5, <1>6, <1>7 DEF HealthNext

\* However many outages of whichever kind a poller has seen, once it is healthy
\* and nothing was lost on the way to the bus, the bus does not say that the
\* poll has failed.
THEOREM RecoveriesAreDelivered == HealthSpec => []RecoveryIsOnTheBus
<1>1. HealthInit => HealthInv
  BY DEF HealthInit, HealthInv, PollIsTyped, ReportIsOfHealth, KeysAreOld, BusKnowsRecovery, Asleep
<1>2. HealthInv /\ [HealthNext]_healthVars => HealthInv'
  BY HealthNextKeepsInv
<1>3. HealthInv => RecoveryIsOnTheBus
  BY DEF HealthInv, BusKnowsRecovery, RecoveryIsOnTheBus, Settled, Asleep
<1>4. QED
  BY <1>1, <1>2, <1>3, PTL DEF HealthSpec

(***************************************************************************)
(* CloudSession: the faults of the browser and of the token, which strike  *)
(* at any step of any coroutine.                                           *)
(***************************************************************************)

SessionCalls ==
  [pc: {"idle", "failed", "lock", "call", "renew", "login", "restart", "start", "reload"},
   wants: {"nothing", "probe", "entry", "entry again", "upload"},
   back: {"idle", "lock", "call", "renew"},
   retried: BOOLEAN, again: BOOLEAN, renewed: BOOLEAN, attempts: Nat]

SessionTyped ==
  /\ browser \in [Hosts -> {"open", "gone"}]
  /\ session \in [Hosts -> {"valid", "stale", "out"}]
  /\ flock \in Callers \cup {Nobody}
  /\ recovery \in [Hosts -> Callers \cup {Nobody}]
  /\ caller \in [Callers -> SessionCalls]
  /\ faults \in [crash: Nat, token: Nat, login: Nat]

\* One fault at most of the kinds that are to be absorbed.
FewFaults == faults.login = 0 /\ faults.crash <= 1 /\ faults.token <= 1

Restarting == {"restart", "start", "reload"}

\* A coroutine makes its call, renews the token and restarts the browser under
\* the lock of the calls; with a browser that was restarted and a token that
\* was renewed, the one fault of the kind is over.
CallIsSafe(c) ==
  /\ caller[c].pc # "login"
  /\ caller[c].pc = "failed" => caller[c].attempts >= 6
  /\ caller[c].pc \in {"call", "renew"} \cup Restarting => flock = c
  /\ caller[c].pc \in Restarting => faults.crash = 1 /\ caller[c].back \in {"call", "renew"}
  /\ caller[c].pc = "reload" => browser[HostOf[c]] = "open"
  /\ caller[c].pc = "lock" => ~caller[c].retried
  /\ caller[c].pc \in {"call", "renew"} /\ caller[c].retried =>
       faults.crash = 1 /\ browser[HostOf[c]] = "open"
  /\ caller[c].renewed => faults.token = 1 /\ session[HostOf[c]] = "valid"
  /\ caller[c].pc = "renew" \/ caller[c].back = "renew" => faults.token = 1

\* What is broken has had its fault; the lock of a restart is held during it.
HostIsSafe(s) ==
  /\ browser[s] = "gone" => faults.crash = 1
  /\ session[s] = "stale" => faults.token = 1
  /\ session[s] # "out"
  /\ recovery[s] # Nobody => /\ HostOf[recovery[s]] = s
                             /\ caller[recovery[s]].pc \in {"start", "reload"}

SessionInv ==
  /\ SessionTyped
  /\ FewFaults => /\ \A c \in Callers : CallIsSafe(c)
                  /\ \A s \in Hosts : HostIsSafe(s)

LEMMA SessionInitInv ==
  ASSUME SessionInit
  PROVE  SessionInv
BY DEF SessionInit, SessionInv, SessionTyped, CallIsSafe, HostIsSafe, SessionCalls, NoCall,
       Restarting

\* A fault is counted, so the second one of its kind ends the claim.
LEMMA FaultKeepsInv ==
  ASSUME SessionInv, NEW s \in Hosts, BrowserCrashes(s) \/ TokenExpires(s) \/ LoginExpires(s)
  PROVE  SessionInv'
<1>1. CASE BrowserCrashes(s)
  <2>1. /\ faults'.crash = faults.crash + 1 /\ faults'.token = faults.token
        /\ faults'.login = faults.login /\ SessionTyped'
    BY <1>1 DEF BrowserCrashes, SessionInv, SessionTyped
  <2>2. ASSUME FewFaults'
        PROVE  FewFaults /\ faults.crash = 0
    BY <2>1, <2>2 DEF FewFaults, SessionInv, SessionTyped
  <2>3. \A t \in Hosts : browser'[t] = IF t = s THEN "gone" ELSE browser[t]
    BY <1>1 DEF BrowserCrashes, SessionInv, SessionTyped
  <2>4. QED
    BY <1>1, <2>1, <2>2, <2>3 DEF BrowserCrashes, SessionInv, CallIsSafe, HostIsSafe, Restarting
<1>2. CASE TokenExpires(s)
  <2>1. /\ faults'.token = faults.token + 1 /\ faults'.crash = faults.crash
        /\ faults'.login = faults.login /\ SessionTyped'
    BY <1>2 DEF TokenExpires, SessionInv, SessionTyped
  <2>2. ASSUME FewFaults'
        PROVE  FewFaults /\ faults.token = 0
    BY <2>1, <2>2 DEF FewFaults, SessionInv, SessionTyped
  <2>3. \A t \in Hosts : session'[t] = IF t = s THEN "stale" ELSE session[t]
    BY <1>2 DEF TokenExpires, SessionInv, SessionTyped
  <2>4. QED
    BY <1>2, <2>1, <2>2, <2>3 DEF TokenExpires, SessionInv, CallIsSafe, HostIsSafe, Restarting
<1>3. CASE LoginExpires(s)
  <2>1. faults'.login = faults.login + 1 /\ SessionTyped'
    BY <1>3 DEF LoginExpires, SessionInv, SessionTyped
  <2>2. ~FewFaults'
    BY <2>1 DEF FewFaults, SessionInv, SessionTyped
  <2>3. QED
    BY <2>1, <2>2 DEF SessionInv
<1>4. QED
  BY <1>1, <1>2, <1>3


\* What a coroutine becomes is all that a step changes of the coroutines.
LEMMA OthersStay ==
  ASSUME SessionTyped, NEW c \in Callers, NEW new \in SessionCalls, Becomes(c, new)
  PROVE  /\ caller' \in [Callers -> SessionCalls]
         /\ \A d \in Callers : caller'[d] = IF d = c THEN new ELSE caller[d]
BY DEF SessionTyped, Becomes

\* A coroutine that starts a call, or ends one, does nothing that the others rely on.
LEMMA CallBetween ==
  ASSUME SessionInv, NEW c \in Callers, NEW new \in SessionCalls, Becomes(c, new),
         UNCHANGED <<browser, session, recovery, faults>>,
         flock' = flock \/ (flock = c /\ flock' = Nobody),
         caller[c].pc \notin {"start", "reload"},
         new.pc \in {"idle", "lock", "failed"}, FewFaults => ~new.renewed \/ caller[c].renewed,
         new.pc = "lock" => ~new.retried,
         new.back = "renew" => caller[c].back = "renew",
         FewFaults /\ new.pc = "failed" => new.attempts >= 6
  PROVE  SessionInv'
<1>1. SessionTyped'
  BY OthersStay DEF SessionInv, SessionTyped
<1>2. SUFFICES ASSUME FewFaults'
               PROVE  /\ \A d \in Callers : CallIsSafe(d)'
                      /\ \A s \in Hosts : HostIsSafe(s)'
  BY <1>1 DEF SessionInv
<1>3. FewFaults
  BY <1>2 DEF FewFaults
<1>4. \A d \in Callers : CallIsSafe(d)'
  BY <1>3, OthersStay DEF SessionInv, CallIsSafe, Restarting
<1>5. \A s \in Hosts : HostIsSafe(s)'
  BY <1>3, OthersStay DEF SessionInv, SessionTyped, HostIsSafe
<1>6. QED
  BY <1>4, <1>5

\* The lock of the calls is free, so nobody is inside.
LEMMA TakeApiLockKeepsInv ==
  ASSUME SessionInv, NEW c \in Callers, TakeApiLock(c)
  PROVE  SessionInv'
<1> DEFINE old == caller[c]
           new == [old EXCEPT !.pc = "call"]
<1>1. /\ SessionTyped /\ old \in SessionCalls /\ HostOf[c] \in Hosts
      /\ Becomes(c, new) /\ UNCHANGED faults
  BY DEF TakeApiLock, SessionInv, SessionTyped, Hosts, Becomes
<1>2. /\ new \in SessionCalls
      /\ old.pc = "lock" /\ new.pc = "call" /\ new.back = old.back
      /\ new.renewed = old.renewed
      /\ new.retried = old.retried
  BY <1>1 DEF TakeApiLock, SessionCalls
<1> HIDE DEF new
<1>3. /\ caller' \in [Callers -> SessionCalls]
      /\ \A d \in Callers : caller'[d] = IF d = c THEN new ELSE caller[d]
  BY <1>1, <1>2, OthersStay
<1>4. SessionTyped'
  BY <1>1, <1>3 DEF TakeApiLock, SessionTyped
<1>5. SUFFICES ASSUME FewFaults'
               PROVE  /\ \A d \in Callers : CallIsSafe(d)'
                      /\ \A s \in Hosts : HostIsSafe(s)'
  BY <1>4 DEF SessionInv
<1>6. FewFaults
  BY <1>1, <1>5 DEF FewFaults
<1>7. \A d \in Callers : CallIsSafe(d)'
  BY <1>1, <1>2, <1>3, <1>6, NobodyIsNoCaller
  DEF TakeApiLock, SessionInv, SessionTyped, CallIsSafe, HostIsSafe, Restarting
<1>8. \A s \in Hosts : HostIsSafe(s)'
  BY <1>1, <1>2, <1>3, <1>6 DEF TakeApiLock, SessionInv, SessionTyped, CallIsSafe, HostIsSafe, Restarting
<1>9. QED
  BY <1>7, <1>8

\* The page is loaded again: the token is the one that was lost.
LEMMA RefreshCsrfTokenKeepsInv ==
  ASSUME SessionInv, NEW c \in Callers, RefreshCsrfToken(c)
  PROVE  SessionInv'
<1> DEFINE old == caller[c]
           new == [old EXCEPT !.pc = "call", !.retried = FALSE, !.renewed = TRUE]
<1>1. /\ SessionTyped /\ old \in SessionCalls /\ HostOf[c] \in Hosts
      /\ Becomes(c, new) /\ UNCHANGED faults
  BY DEF RefreshCsrfToken, SessionInv, SessionTyped, Hosts, Becomes
<1>2. /\ new \in SessionCalls
      /\ old.pc = "renew" /\ new.pc = "call" /\ new.back = old.back /\ ~new.retried
  BY <1>1 DEF RefreshCsrfToken, SessionCalls
<1> HIDE DEF new
<1>3. /\ caller' \in [Callers -> SessionCalls]
      /\ \A d \in Callers : caller'[d] = IF d = c THEN new ELSE caller[d]
  BY <1>1, <1>2, OthersStay
<1>4. SessionTyped'
  BY <1>1, <1>3 DEF RefreshCsrfToken, SessionTyped, Reload
<1>5. SUFFICES ASSUME FewFaults'
               PROVE  /\ \A d \in Callers : CallIsSafe(d)'
                      /\ \A s \in Hosts : HostIsSafe(s)'
  BY <1>4 DEF SessionInv
<1>6. FewFaults
  BY <1>1, <1>5 DEF FewFaults
<1>7. \A d \in Callers : CallIsSafe(d)'
  BY <1>1, <1>2, <1>3, <1>6 DEF RefreshCsrfToken, SessionInv, SessionTyped, CallIsSafe, HostIsSafe, Restarting, Reload
<1>8. \A s \in Hosts : HostIsSafe(s)'
  BY <1>1, <1>2, <1>3, <1>6 DEF RefreshCsrfToken, SessionInv, SessionTyped, CallIsSafe, HostIsSafe, Restarting, Reload
<1>9. QED
  BY <1>7, <1>8

\* The browser is taken from nobody: who calls or restarts holds the lock of the calls.
LEMMA StopBrowserKeepsInv ==
  ASSUME SessionInv, NEW c \in Callers, StopBrowser(c)
  PROVE  SessionInv'
<1> DEFINE old == caller[c]
           new == [old EXCEPT !.pc = "start"]
<1>1. /\ SessionTyped /\ old \in SessionCalls /\ HostOf[c] \in Hosts
      /\ Becomes(c, new) /\ UNCHANGED faults
  BY DEF StopBrowser, SessionInv, SessionTyped, Hosts, Becomes
<1>2. /\ new \in SessionCalls
      /\ old.pc = "restart" /\ new.pc = "start" /\ new.back = old.back
      /\ new.renewed = old.renewed
      /\ new.retried = old.retried
  BY <1>1 DEF StopBrowser, SessionCalls
<1> HIDE DEF new
<1>3. /\ caller' \in [Callers -> SessionCalls]
      /\ \A d \in Callers : caller'[d] = IF d = c THEN new ELSE caller[d]
  BY <1>1, <1>2, OthersStay
<1>4. SessionTyped'
  BY <1>1, <1>3 DEF StopBrowser, SessionTyped
<1>5. SUFFICES ASSUME FewFaults'
               PROVE  /\ \A d \in Callers : CallIsSafe(d)'
                      /\ \A s \in Hosts : HostIsSafe(s)'
  BY <1>4 DEF SessionInv
<1>6. FewFaults
  BY <1>1, <1>5 DEF FewFaults
<1>7. \A d \in Callers : CallIsSafe(d)'
  BY <1>1, <1>2, <1>3, <1>6 DEF StopBrowser, SessionInv, SessionTyped, CallIsSafe, HostIsSafe, Restarting
<1>8. \A s \in Hosts : HostIsSafe(s)'
  BY <1>1, <1>2, <1>3, <1>6 DEF StopBrowser, SessionInv, SessionTyped, CallIsSafe, HostIsSafe, Restarting
<1>9. QED
  BY <1>7, <1>8

\* The new browser is open.
LEMMA StartBrowserKeepsInv ==
  ASSUME SessionInv, NEW c \in Callers, StartBrowser(c)
  PROVE  SessionInv'
<1> DEFINE old == caller[c]
           new == [old EXCEPT !.pc = "reload"]
<1>1. /\ SessionTyped /\ old \in SessionCalls /\ HostOf[c] \in Hosts
      /\ Becomes(c, new) /\ UNCHANGED faults
  BY DEF StartBrowser, SessionInv, SessionTyped, Hosts, Becomes
<1>2. /\ new \in SessionCalls
      /\ old.pc = "start" /\ new.pc = "reload" /\ new.back = old.back
      /\ new.renewed = old.renewed
      /\ new.retried = old.retried
  BY <1>1 DEF StartBrowser, SessionCalls
<1> HIDE DEF new
<1>3. /\ caller' \in [Callers -> SessionCalls]
      /\ \A d \in Callers : caller'[d] = IF d = c THEN new ELSE caller[d]
  BY <1>1, <1>2, OthersStay
<1>4. SessionTyped'
  BY <1>1, <1>3 DEF StartBrowser, SessionTyped
<1>5. SUFFICES ASSUME FewFaults'
               PROVE  /\ \A d \in Callers : CallIsSafe(d)'
                      /\ \A s \in Hosts : HostIsSafe(s)'
  BY <1>4 DEF SessionInv
<1>6. FewFaults
  BY <1>1, <1>5 DEF FewFaults
<1>7. \A d \in Callers : CallIsSafe(d)'
  BY <1>1, <1>2, <1>3, <1>6 DEF StartBrowser, SessionInv, SessionTyped, CallIsSafe, HostIsSafe, Restarting
<1>8. \A s \in Hosts : HostIsSafe(s)'
  BY <1>1, <1>2, <1>3, <1>6 DEF StartBrowser, SessionInv, SessionTyped, CallIsSafe, HostIsSafe, Restarting
<1>9. QED
  BY <1>7, <1>8

\* The step that was interrupted goes on, and no second crash is left to it.
LEMMA FinishRestartKeepsInv ==
  ASSUME SessionInv, NEW c \in Callers, FinishRestart(c)
  PROVE  SessionInv'
<1> DEFINE old == caller[c]
           new == [old EXCEPT !.pc = old.back, !.back = "idle", !.retried = old.back # "lock"]
<1>1. /\ SessionTyped /\ old \in SessionCalls /\ HostOf[c] \in Hosts
      /\ Becomes(c, new) /\ UNCHANGED faults
  BY DEF FinishRestart, SessionInv, SessionTyped, Hosts, Becomes
<1>2. /\ new \in SessionCalls
      /\ old.pc = "reload" /\ new.pc = old.back /\ new.back = "idle"
      /\ new.renewed = old.renewed
      /\ new.pc = "lock" => ~new.retried
  BY <1>1 DEF FinishRestart, SessionCalls
<1> HIDE DEF new
<1>3. /\ caller' \in [Callers -> SessionCalls]
      /\ \A d \in Callers : caller'[d] = IF d = c THEN new ELSE caller[d]
  BY <1>1, <1>2, OthersStay
<1>4. SessionTyped'
  BY <1>1, <1>3 DEF FinishRestart, SessionTyped, Reload
<1>5. SUFFICES ASSUME FewFaults'
               PROVE  /\ \A d \in Callers : CallIsSafe(d)'
                      /\ \A s \in Hosts : HostIsSafe(s)'
  BY <1>4 DEF SessionInv
<1>6. FewFaults
  BY <1>1, <1>5 DEF FewFaults
<1>7. \A d \in Callers : CallIsSafe(d)'
  BY <1>1, <1>2, <1>3, <1>6 DEF FinishRestart, SessionInv, SessionTyped, CallIsSafe, HostIsSafe, Restarting, Reload
<1>8. \A s \in Hosts : HostIsSafe(s)'
  BY <1>1, <1>2, <1>3, <1>6 DEF FinishRestart, SessionInv, SessionTyped, CallIsSafe, HostIsSafe, Restarting, Reload
<1>9. QED
  BY <1>7, <1>8

LEMMA CallingIsACall ==
  ASSUME NEW op \in {"probe", "entry", "entry again", "upload"}
  PROVE  /\ Calling(op) \in SessionCalls
         /\ Calling(op).pc = "lock" /\ Calling(op).back = "idle"
         /\ ~Calling(op).retried /\ ~Calling(op).renewed
BY DEF SessionCalls, Calling, NoCall

UploadCall(n) == [Calling("upload") EXCEPT !.attempts = n]

LEMMA UploadIsACall ==
  ASSUME NEW n \in Nat
  PROVE  /\ UploadCall(n) \in SessionCalls
         /\ UploadCall(n).pc = "lock" /\ UploadCall(n).back = "idle"
         /\ ~UploadCall(n).retried /\ ~UploadCall(n).renewed
<1>1. /\ Calling("upload") \in SessionCalls
      /\ Calling("upload").pc = "lock" /\ Calling("upload").back = "idle"
      /\ ~Calling("upload").retried /\ ~Calling("upload").renewed
  BY CallingIsACall
<1>2. QED
  BY <1>1 DEF SessionCalls, UploadCall

LEMMA StartKeepsInv ==
  ASSUME SessionInv, NEW c \in Callers, StartDownload(c) \/ StartUpload(c)
  PROVE  SessionInv'
<1> DEFINE probe == Calling("probe")
           upload == UploadCall(1)
<1>1. /\ Becomes(c, probe) \/ Becomes(c, upload)
      /\ flock' = flock /\ UNCHANGED <<browser, session, recovery, faults>>
      /\ caller[c].pc \notin {"start", "reload"}
  BY DEF StartDownload, StartUpload, UploadCall
<1>2. /\ {probe, upload} \subseteq SessionCalls
      /\ probe.pc = "lock" /\ ~probe.retried /\ ~probe.renewed /\ probe.back = "idle"
      /\ upload.pc = "lock" /\ ~upload.retried /\ ~upload.renewed /\ upload.back = "idle"
  BY CallingIsACall, UploadIsACall
<1> HIDE DEF probe, upload
<1>3. ASSUME NEW new \in {probe, upload}, Becomes(c, new)
      PROVE  SessionInv'
  <2>1. /\ new \in SessionCalls /\ new.pc = "lock" /\ new.pc \in {"idle", "lock", "failed"}
        /\ FewFaults => ~new.renewed \/ caller[c].renewed
        /\ new.pc = "lock" => ~new.retried
        /\ new.back = "renew" => caller[c].back = "renew"
        /\ FewFaults /\ new.pc = "failed" => new.attempts >= 6
    BY <1>2, <1>3
  <2>2. /\ flock' = flock \/ (flock = c /\ flock' = Nobody)
        /\ UNCHANGED <<browser, session, recovery, faults>>
        /\ caller[c].pc \notin {"start", "reload"}
    BY <1>1
  <2>3. QED
    BY <1>3, <2>1, <2>2, CallBetween
<1>4. QED
  BY <1>1, <1>3

\* An accepted call goes on to the next one, or ends; it fails only after the
\* last attempt of an upload.
LEMMA AcceptedEndsCall ==
  ASSUME NEW c \in Callers, SessionTyped, Accepted(c)
  PROVE  \E new \in SessionCalls :
           /\ Becomes(c, new)
           /\ new.pc \in {"idle", "lock", "failed"} /\ (~new.renewed \/ caller[c].renewed)
           /\ new.pc = "lock" => ~new.retried
           /\ new.back = "renew" => caller[c].back = "renew"
           /\ new.pc = "failed" => new.attempts >= 6
<1> DEFINE old == caller[c]
           entry == Calling("entry")
           failed == [old EXCEPT !.pc = "failed"]
           again == UploadCall(old.attempts + 1)
<1>1. old \in SessionCalls /\ old.attempts \in Nat
  BY DEF SessionTyped, SessionCalls
<1>2. \/ Becomes(c, entry) \/ Becomes(c, NoCall)
      \/ (old.attempts >= 6 /\ Becomes(c, failed))
      \/ Becomes(c, again)
  BY DEF Accepted, Fails, UploadCall
<1>3. /\ entry \in SessionCalls /\ entry.pc = "lock" /\ ~entry.retried
      /\ ~entry.renewed /\ entry.back = "idle"
  BY CallingIsACall
<1>4. NoCall \in SessionCalls /\ NoCall.pc = "idle" /\ ~NoCall.renewed /\ NoCall.back = "idle"
  BY DEF SessionCalls, NoCall
<1>5. /\ failed \in SessionCalls /\ failed.pc = "failed" /\ failed.renewed = old.renewed
      /\ failed.back = old.back /\ failed.attempts = old.attempts
  BY <1>1 DEF SessionCalls
<1>6. /\ again \in SessionCalls /\ again.pc = "lock" /\ ~again.retried
      /\ ~again.renewed /\ again.back = "idle"
  BY <1>1, UploadIsACall
<1>7. old.renewed \in BOOLEAN
  BY <1>1 DEF SessionCalls
<1> HIDE DEF entry, failed, again
<1>8. QED
  BY <1>2, <1>3, <1>4, <1>5, <1>6, <1>7

\* What may happen to a call while logins fail or run out is only typed.
LEMMA UnauthorizedIsTyped ==
  ASSUME NEW c \in Callers, SessionTyped, Unauthorized(c)
  PROVE  caller' \in [Callers -> SessionCalls]
<1> DEFINE old == caller[c]
           login == [old EXCEPT !.pc = "login"]
           failed == [old EXCEPT !.pc = "failed"]
           again == [Calling("entry again") EXCEPT !.pc = "restart", !.back = "lock"]
<1>1. old \in SessionCalls
  BY DEF SessionTyped
<1>2. Becomes(c, login) \/ Becomes(c, failed) \/ Becomes(c, again)
  BY DEF Unauthorized, Fails
<1>3. {login, failed, again} \subseteq SessionCalls
  BY <1>1, CallingIsACall DEF SessionCalls
<1> HIDE DEF login, failed, again
<1>4. QED
  BY <1>2, <1>3, OthersStay

\* With a session that nobody logged out, the cloud refuses nothing but an old
\* token, which has expired for the first time and is renewed.
LEMMA EvaluateKeepsInv ==
  ASSUME SessionInv, NEW c \in Callers, Evaluate(c)
  PROVE  SessionInv'
<1> DEFINE old == caller[c]
           s == HostOf[c]
           renewing == [old EXCEPT !.pc = "renew", !.retried = FALSE]
<1>1. /\ SessionTyped /\ old \in SessionCalls /\ s \in Hosts /\ old.pc = "call"
      /\ UNCHANGED <<browser, session, recovery, faults>>
  BY DEF Evaluate, SessionInv, SessionTyped, Hosts
<1>2. CASE session[s] = "stale" /\ ~old.renewed
  <2>1. /\ Becomes(c, renewing) /\ UNCHANGED flock
        /\ renewing \in SessionCalls /\ renewing.pc = "renew" /\ ~renewing.retried
        /\ renewing.renewed = old.renewed /\ renewing.back = old.back
    BY <1>1, <1>2 DEF Evaluate, SessionCalls
  <2> HIDE DEF renewing
  <2>2. /\ caller' \in [Callers -> SessionCalls]
        /\ \A d \in Callers : caller'[d] = IF d = c THEN renewing ELSE caller[d]
    BY <1>1, <2>1, OthersStay
  <2>3. SessionTyped'
    BY <1>1, <2>1, <2>2 DEF SessionTyped
  <2>4. ASSUME FewFaults'
        PROVE  /\ \A d \in Callers : CallIsSafe(d)'
               /\ \A t \in Hosts : HostIsSafe(t)'
    <3>1. FewFaults
      BY <1>1, <2>4 DEF FewFaults
    <3>2. \A d \in Callers : CallIsSafe(d)'
      BY <1>1, <1>2, <2>1, <2>2, <3>1 DEF SessionInv, CallIsSafe, HostIsSafe, Restarting
    <3>3. \A t \in Hosts : HostIsSafe(t)'
      BY <1>1, <2>1, <2>2, <3>1 DEF SessionInv, SessionTyped, HostIsSafe
    <3>4. QED
      BY <3>2, <3>3
  <2>5. QED
    BY <2>3, <2>4 DEF SessionInv
<1>3. CASE session[s] = "valid"
  <2>1. Accepted(c) /\ flock' = Nobody
    BY <1>3 DEF Evaluate
  <2>2. PICK new \in SessionCalls :
          /\ Becomes(c, new)
          /\ new.pc \in {"idle", "lock", "failed"} /\ (~new.renewed \/ old.renewed)
          /\ new.pc = "lock" => ~new.retried
          /\ new.back = "renew" => old.back = "renew"
          /\ new.pc = "failed" => new.attempts >= 6
    BY <1>1, <2>1, AcceptedEndsCall
  <2>3. SessionTyped'
    BY <1>1, <2>1, <2>2, OthersStay DEF SessionTyped
  <2>4. FewFaults' => flock = c
    BY <1>1 DEF SessionInv, FewFaults, CallIsSafe
  <2>5. CASE flock = c
    BY <1>1, <2>1, <2>2, <2>5, CallBetween
  <2>6. QED
    BY <2>3, <2>4, <2>5 DEF SessionInv
<1>4. CASE session[s] # "valid" /\ ~(session[s] = "stale" /\ ~old.renewed)
  <2>1. session[s] # "valid" /\ Unauthorized(c) /\ flock' = Nobody
    BY <1>4 DEF Evaluate
  <2>2. SessionTyped'
    BY <1>1, <2>1, UnauthorizedIsTyped DEF SessionTyped
  <2>3. ~FewFaults
    BY <1>1, <1>4 DEF SessionInv, SessionTyped, CallIsSafe, HostIsSafe
  <2>4. QED
    BY <1>1, <2>2, <2>3 DEF SessionInv, FewFaults
<1>5. QED
  BY <1>2, <1>3, <1>4

\* Nobody needs a login while the logins hold, and no browser is closed twice.
LEMMA OnlyAfterMoreFaults ==
  ASSUME SessionInv, NEW c \in Callers,
         \/ caller[c].pc = "login"
         \/ caller[c].pc = "reload" /\ browser[HostOf[c]] = "gone"
         \/ /\ caller[c].pc \in {"call", "renew"} /\ caller[c].retried
            /\ browser[HostOf[c]] = "gone"
  PROVE  ~FewFaults
BY DEF SessionInv, CallIsSafe

\* Mostly for those faults, the steps that follow keep the types.
LEMMA LaterStepsAreTyped ==
  ASSUME SessionTyped, NEW c \in Callers, NEW new \in SessionCalls, Becomes(c, new),
         flock' \in {flock, Nobody}, UNCHANGED <<browser, recovery, faults>>,
         session' = session \/ session' = [session EXCEPT ![HostOf[c]] = "valid"]
  PROVE  SessionTyped'
BY OthersStay DEF SessionTyped

LEMMA LoginKeepsInv ==
  ASSUME SessionInv, NEW c \in Callers,
         InteractiveReauth(c) \/ InteractiveReauthFails(c) \/ CallAborted(c) \/ LoginClosed(c)
         \/ WaitForOneself(c)
  PROVE  SessionInv'
<1> DEFINE old == caller[c]
           entry == Calling("entry")
           upload == UploadCall(old.attempts + 1)
           failed == [old EXCEPT !.pc = "failed"]
           login == [old EXCEPT !.pc = "login"]
           restart == [old EXCEPT !.pc = "restart"]
           probe == [Calling("probe") EXCEPT !.pc = "restart", !.back = "lock", !.again = TRUE]
           Allowed == {entry, upload, failed, login, restart, probe}
<1>1. SessionTyped /\ old \in SessionCalls
  BY DEF SessionInv, SessionTyped
<1>2. Allowed \subseteq SessionCalls
  <2>1. entry \in SessionCalls
    BY CallingIsACall
  <2>2. upload \in SessionCalls
    <3>1. old.attempts \in Nat
      BY <1>1 DEF SessionCalls
    <3>2. QED
      BY <3>1, UploadIsACall
  <2>3. {failed, login, restart} \subseteq SessionCalls
    BY <1>1 DEF SessionCalls
  <2>4. probe \in SessionCalls
    BY CallingIsACall DEF SessionCalls
  <2>5. QED
    BY <2>1, <2>2, <2>3, <2>4
<1>3. /\ \E new \in Allowed : Becomes(c, new)
      /\ flock' \in {flock, Nobody} /\ UNCHANGED <<browser, recovery, faults>>
      /\ session' = session \/ session' = [session EXCEPT ![HostOf[c]] = "valid"]
  BY DEF InteractiveReauth, InteractiveReauthFails, CallAborted, LoginClosed, WaitForOneself,
         Fails, LetGo, UploadCall
<1> HIDE DEF Allowed
<1>4. SessionTyped'
  BY <1>1, <1>2, <1>3, LaterStepsAreTyped
<1>5. ~FewFaults
  BY OnlyAfterMoreFaults DEF InteractiveReauth, InteractiveReauthFails, CallAborted,
                              LoginClosed, WaitForOneself
<1>6. QED
  BY <1>3, <1>4, <1>5 DEF SessionInv, FewFaults

\* The pages of a browser that is gone: a first crash is followed by a restart.
LEMMA TargetClosedKeepsInv ==
  ASSUME SessionInv, NEW c \in Callers, TargetClosed(c)
  PROVE  SessionInv'
<1> DEFINE old == caller[c]
           restart == [old EXCEPT !.back = old.pc, !.pc = "restart"]
           failed == [old EXCEPT !.pc = "failed"]
           login == [old EXCEPT !.pc = "login"]
<1>1. /\ SessionTyped /\ old \in SessionCalls /\ HostOf[c] \in Hosts
      /\ old.pc \in {"call", "renew"} /\ browser[HostOf[c]] = "gone"
      /\ UNCHANGED <<browser, session, recovery, faults>>
  BY DEF TargetClosed, SessionInv, SessionTyped, Hosts
<1>2. CASE ~old.retried
  <2>1. /\ Becomes(c, restart) /\ UNCHANGED flock
        /\ restart \in SessionCalls /\ restart.pc = "restart" /\ restart.back = old.pc
        /\ restart.renewed = old.renewed
    BY <1>1, <1>2 DEF TargetClosed, SessionCalls
  <2> HIDE DEF restart
  <2>2. /\ caller' \in [Callers -> SessionCalls]
        /\ \A d \in Callers : caller'[d] = IF d = c THEN restart ELSE caller[d]
    BY <1>1, <2>1, OthersStay
  <2>3. SessionTyped'
    BY <1>1, <2>1, <2>2 DEF SessionTyped
  <2>4. ASSUME FewFaults'
        PROVE  /\ \A d \in Callers : CallIsSafe(d)'
               /\ \A s \in Hosts : HostIsSafe(s)'
    <3>1. FewFaults
      BY <1>1, <2>4 DEF FewFaults
    <3>2. \A d \in Callers : CallIsSafe(d)'
      BY <1>1, <2>1, <2>2, <3>1 DEF SessionInv, CallIsSafe, HostIsSafe, Restarting
    <3>3. \A s \in Hosts : HostIsSafe(s)'
      BY <1>1, <2>1, <2>2, <3>1 DEF SessionInv, SessionTyped, HostIsSafe
    <3>4. QED
      BY <3>2, <3>3
  <2>5. QED
    BY <2>3, <2>4 DEF SessionInv
<1>3. CASE old.retried
  <2>1. /\ Becomes(c, failed) \/ Becomes(c, login)
        /\ flock' \in {flock, Nobody}
    BY <1>3 DEF TargetClosed, Fails, LetGo
  <2>2. {failed, login} \subseteq SessionCalls
    BY <1>1 DEF SessionCalls
  <2> HIDE DEF failed, login
  <2>3. SessionTyped'
    BY <1>1, <2>1, <2>2, LaterStepsAreTyped
  <2>4. ~FewFaults
    BY <1>1, <1>3, OnlyAfterMoreFaults
  <2>5. QED
    BY <1>1, <2>3, <2>4 DEF SessionInv, FewFaults
<1>4. QED
  BY <1>1, <1>2, <1>3 DEF SessionCalls

LEMMA SessionNextKeepsInv ==
  ASSUME SessionInv, [SessionNext]_sessionVars
  PROVE  SessionInv'
<1>1. ASSUME NEW s \in Hosts, BrowserCrashes(s) \/ TokenExpires(s) \/ LoginExpires(s)
      PROVE  SessionInv'
  BY <1>1, FaultKeepsInv
<1>2. ASSUME NEW c \in Callers, CallerSteps(c)
      PROVE  SessionInv'
  BY <1>2, StartKeepsInv, TakeApiLockKeepsInv, EvaluateKeepsInv, RefreshCsrfTokenKeepsInv,
     LoginKeepsInv, TargetClosedKeepsInv, StopBrowserKeepsInv, StartBrowserKeepsInv,
     FinishRestartKeepsInv DEF CallerSteps
<1>3. CASE UNCHANGED sessionVars
  BY <1>3 DEF sessionVars, SessionInv, SessionTyped, FewFaults, CallIsSafe, HostIsSafe
<1>4. QED
  BY <1>1, <1>2, <1>3 DEF SessionNext

LEMMA SessionInvariant == SessionSpec => []SessionInv
BY SessionInitInv, SessionNextKeepsInv, PTL DEF SessionSpec

\* One crash of a browser and one expired token are absorbed at any step of any
\* number of coroutines in any number of processes: while the logins hold, a call
\* fails only because the cloud kept answering that a sync is in progress, and
\* none waits for a _recovery_lock that it holds itself.
THEOREM OneFaultOfAKindIsAbsorbed == SessionSpec => []FaultsAreAbsorbed
<1>1. SessionInv => FaultsAreAbsorbed
  <2>1. SUFFICES ASSUME SessionInv, FewFaults, NEW c \in Callers
                 PROVE  /\ caller[c].pc = "failed" => caller[c].attempts >= 6
                        /\ caller[c].pc = "restart" => recovery[HostOf[c]] # c
    BY DEF FaultsAreAbsorbed, FewFaults
  <2>2. HostOf[c] \in Hosts /\ c # Nobody
    BY NobodyIsNoCaller DEF Hosts
  <2>3. QED
    BY <2>1, <2>2 DEF SessionInv, CallIsSafe, HostIsSafe
<1>2. QED
  BY <1>1, SessionInvariant, PTL

(***************************************************************************)
(* TasksNotebook: ticks, from the page to the completed issue.             *)
(***************************************************************************)

\* A page of the notebook: ticked issues are among those it shows.
RealPages == {p \in [shown: SUBSET Issues, ticked: SUBSET Issues] : p.ticked \subseteq p.shown}

\* The local variables of the poller's reading and of a curation.
ReadingTyped ==
  \/ reading = Still
  \/ reading \in [pc: {"download"}, version: 0..version]
  \/ reading \in [pc: {"read"}, version: 0..version, page: RealPages, fresh: SUBSET Issues]
  \/ reading \in [pc: {"complete"}, version: 0..version, todo: SUBSET Issues]

CuratingTyped ==
  \/ curating = Still
  \/ curating \in [pc: {"fetch"}, page: RealPages]
  \/ /\ curating \in [pc: {"upload", "store"}, old: RealPages, page: RealPages]
     /\ curating.page.ticked = curating.old.ticked

TasksTyped ==
  /\ open \in SUBSET Issues
  /\ note \in RealPages \cup {NoPage}
  /\ lastPage \in RealPages \cup {NoPage}
  /\ version \in Nat /\ seen \in 0..version
  /\ snapshot \in SUBSET Issues /\ lost \in SUBSET Issues /\ unreadTicks \in SUBSET Issues
  /\ ticks \in [Issues -> Nat] /\ done \in [Issues -> Nat]
  /\ ReadingTyped
  /\ CuratingTyped
  /\ syncing = Still \/ syncing \in [pc: {"rebuild", "store"}, issues: SUBSET Issues]

\* The ticks that the poller has downloaded and not yet acted on.
InFlight == IF reading.pc = "read" THEN reading.fresh
            ELSE IF reading.pc = "complete" THEN reading.todo ELSE {}

OneIf(b) == IF b THEN 1 ELSE 0

\* Each tick is done, on the page or in flight, and is so once.
TicksAreAccountedFor ==
  \A i \in Issues \ lost :
    ticks[i] = done[i] + OneIf(i \in unreadTicks) + OneIf(i \in InFlight)

\* The ticks the poller will take for old ones.
Known == IF reading.pc = "read" THEN reading.page.ticked ELSE snapshot

\* A box that is ticked, on any page there is, is a new tick or a known one.
TicksAreKnown ==
  /\ reading.pc = "read" => reading.page.ticked \subseteq reading.fresh \cup snapshot \cup lost
  /\ lastPage # NoPage => lastPage.ticked \subseteq snapshot \cup lost
  /\ note # NoPage => note.ticked \subseteq unreadTicks \cup Known \cup lost
  /\ curating.pc = "store" => curating.page.ticked \subseteq Known \cup lost

\* A tick still to be fetched is on the page, in a version the poller has not
\* seen and will not take for seen when it ends its reading.
UnreadTicksAreAhead ==
  unreadTicks # {} =>
    /\ note # NoPage /\ unreadTicks \subseteq note.ticked
    /\ seen < version
    /\ reading.pc \in {"read", "complete"} => reading.version < version

OneUpload ==
  /\ Uploading => note = NoPage
  /\ ~(syncing.pc = "store" /\ curating.pc = "store")

HashIsOfTheNote ==
  /\ syncing # Still => hash = syncing.issues
  /\ curating.pc = "store" => behind
  /\ NoteShowsIssues

TasksInv ==
  /\ TasksTyped
  /\ TicksAreAccountedFor
  /\ TicksAreKnown
  /\ UnreadTicksAreAhead
  /\ OneUpload
  /\ HashIsOfTheNote

LEMMA NoPageIsNoPage == NoPage \notin RealPages
BY SomeIssue DEF NoPage, RealPages

LEMMA TickKeeps ==
  ASSUME TasksInv, NEW i \in Issues, Tick(i)
  PROVE  TasksInv'
<1> USE DEF Tick, pollerVars, bounds
<1>1. note \in RealPages
  BY DEF TasksInv, TasksTyped
<1>2. note' \in RealPages /\ note'.shown = note.shown /\ note'.ticked = note.ticked \cup {i}
  BY <1>1 DEF RealPages
<1>3. note' # NoPage /\ version' = version + 1 /\ version \in Nat
  BY <1>2, NoPageIsNoPage DEF TasksInv, TasksTyped
<1>4. ReadingTyped' /\ CuratingTyped'
  BY <1>3 DEF TasksInv, TasksTyped, ReadingTyped, CuratingTyped
<1>5. TasksTyped'
  BY <1>2, <1>3, <1>4 DEF TasksInv, TasksTyped
<1>6. TicksAreAccountedFor'
  <2>1. i \notin unreadTicks
    BY DEF TasksInv, UnreadTicksAreAhead
  <2>2. InFlight' = InFlight
    BY DEF InFlight
  <2>3. ASSUME NEW j \in Issues \ lost
        PROVE  ticks'[j] = done[j] + OneIf(j \in unreadTicks') + OneIf(j \in InFlight)
    <3>1. ticks[j] = done[j] + OneIf(j \in unreadTicks) + OneIf(j \in InFlight)
      BY DEF TasksInv, TicksAreAccountedFor
    <3>2. ticks[j] \in Nat /\ done[j] \in Nat
      BY DEF TasksInv, TasksTyped
    <3>3. ticks'[j] = IF j = i THEN ticks[j] + 1 ELSE ticks[j]
      BY DEF TasksInv, TasksTyped
    <3>4. QED
      BY <2>1, <3>1, <3>2, <3>3 DEF OneIf
  <2>4. QED
    BY <2>2, <2>3 DEF TicksAreAccountedFor
<1>7. TicksAreKnown'
  BY <1>2 DEF TasksInv, TicksAreKnown, Known
<1>8. UnreadTicksAreAhead'
  BY <1>2, <1>3 DEF TasksInv, TasksTyped, ReadingTyped, Still, UnreadTicksAreAhead
<1>9. OneUpload'
  BY DEF TasksInv, OneUpload, Uploading
<1>10. HashIsOfTheNote'
  BY <1>2, <1>3 DEF TasksInv, HashIsOfTheNote, NoteShowsIssues
<1>11. QED
  BY <1>5, <1>6, <1>7, <1>8, <1>9, <1>10 DEF TasksInv


\* What Linear, the poller and the uploads leave alone keeps its conjuncts.
LEMMA UndisturbedParts ==
  ASSUME TasksInv
  PROVE  /\ UNCHANGED <<ticks, done, unreadTicks, lost, reading>> => TicksAreAccountedFor'
         /\ UNCHANGED <<reading, snapshot, lost, lastPage, note, unreadTicks, curating>>
              => TicksAreKnown'
         /\ UNCHANGED <<note, unreadTicks, seen, version, reading>> => UnreadTicksAreAhead'
         /\ UNCHANGED <<note, syncing, curating>> => OneUpload'
         /\ UNCHANGED <<syncing, hash, curating, behind, note>> => HashIsOfTheNote'
BY DEF TasksInv, TicksAreAccountedFor, InFlight, TicksAreKnown, Known, UnreadTicksAreAhead,
       OneUpload, Uploading, HashIsOfTheNote, NoteShowsIssues

LEMMA LinearChangesKeeps ==
  ASSUME TasksInv, NEW i \in Issues, LinearChanges(i)
  PROVE  TasksInv'
<1> USE DEF LinearChanges, cloudNote, pollerVars, account
<1>1. TasksTyped'
  BY DEF TasksInv, TasksTyped, ReadingTyped, CuratingTyped
<1>2. QED
  BY <1>1, UndisturbedParts DEF TasksInv

LEMMA ListKeeps ==
  ASSUME TasksInv, ListTasksNote
  PROVE  TasksInv'
<1> USE DEF ListTasksNote, cloudNote
<1>1. /\ reading = Still /\ (reading' = Still \/ reading' = [pc |-> "download", version |-> version])
      /\ version \in Nat
  BY DEF TasksInv, TasksTyped
<1>2. ReadingTyped' /\ CuratingTyped'
  BY <1>1 DEF TasksInv, TasksTyped, ReadingTyped, CuratingTyped
<1>3. TasksTyped'
  BY <1>1, <1>2 DEF TasksInv, TasksTyped
<1>4. InFlight = {} /\ InFlight' = {} /\ Known' = Known
  BY <1>1 DEF InFlight, Known, Still
<1>5. TicksAreAccountedFor'
  BY <1>4 DEF TasksInv, TicksAreAccountedFor
<1>6. TicksAreKnown'
  BY <1>1, <1>4 DEF TasksInv, TicksAreKnown, Still
<1>7. UnreadTicksAreAhead'
  BY <1>1 DEF TasksInv, UnreadTicksAreAhead, Still
<1>8. QED
  BY <1>3, <1>5, <1>6, <1>7, UndisturbedParts DEF TasksInv

LEMMA FetchKeeps ==
  ASSUME TasksInv, FetchTasksNote
  PROVE  TasksInv'
<1> USE DEF FetchTasksNote, cloudNote
<1>1. reading.version \in 0..version /\ note \in RealPages
  BY DEF TasksInv, TasksTyped, ReadingTyped, Still
<1>2. /\ reading'.pc = "read" /\ reading'.page = note /\ reading'.fresh = unreadTicks
      /\ reading' \in [pc: {"read"}, version: 0..version, page: RealPages, fresh: SUBSET Issues]
  BY <1>1 DEF TasksInv, TasksTyped
<1>3. ReadingTyped' /\ CuratingTyped'
  BY <1>2 DEF TasksInv, TasksTyped, ReadingTyped, CuratingTyped
<1>4. TasksTyped'
  BY <1>3 DEF TasksInv, TasksTyped
<1>5. InFlight = {} /\ InFlight' = unreadTicks /\ Known = snapshot /\ Known' = note.ticked
  BY <1>2 DEF InFlight, Known
<1>6. TicksAreAccountedFor'
  <2>1. ASSUME NEW j \in Issues \ lost
        PROVE  ticks[j] = done[j] + OneIf(j \in {}) + OneIf(j \in unreadTicks)
    <3>1. ticks[j] = done[j] + OneIf(j \in unreadTicks) + OneIf(j \in {})
      BY <1>5 DEF TasksInv, TicksAreAccountedFor
    <3>2. ticks[j] \in Nat /\ done[j] \in Nat
      BY DEF TasksInv, TasksTyped
    <3>3. QED
      BY <3>1, <3>2 DEF OneIf
  <2>2. QED
    BY <1>5, <2>1 DEF TicksAreAccountedFor
<1>7. TicksAreKnown'
  <2>1. note.ticked \subseteq unreadTicks \cup snapshot \cup lost
    BY <1>5 DEF TasksInv, TicksAreKnown
  <2>2. curating.pc # "store"
    BY DEF TasksInv, OneUpload, Uploading
  <2>3. QED
    BY <1>2, <1>5, <2>1, <2>2 DEF TasksInv, TicksAreKnown
<1>8. UnreadTicksAreAhead'
  BY DEF UnreadTicksAreAhead
<1>9. QED
  BY <1>4, <1>6, <1>7, <1>8, UndisturbedParts DEF TasksInv

LEMMA FetchFailsKeeps ==
  ASSUME TasksInv, FetchTasksNoteFails
  PROVE  TasksInv'
<1> USE DEF FetchTasksNoteFails, cloudNote, account
<1>1. TasksTyped'
  BY DEF TasksInv, TasksTyped, ReadingTyped, CuratingTyped
<1>2. InFlight = {} /\ InFlight' = {} /\ Known' = Known /\ reading'.pc = "idle"
  BY DEF InFlight, Known, Still
<1>3. TicksAreAccountedFor' /\ TicksAreKnown' /\ UnreadTicksAreAhead'
  BY <1>2 DEF TasksInv, TicksAreAccountedFor, TicksAreKnown, UnreadTicksAreAhead
<1>4. QED
  BY <1>1, <1>3, UndisturbedParts DEF TasksInv

LEMMA ReadPageKeeps ==
  ASSUME TasksInv, ReadPage
  PROVE  TasksInv'
<1> USE DEF ReadPage, cloudNote, NewlyChecked
<1> DEFINE page == reading.page
           changed == page # lastPage
           fresh == reading.fresh
           new == IF changed THEN page.ticked \ snapshot ELSE {}
<1>1. /\ page \in RealPages /\ fresh \in SUBSET Issues
      /\ reading.version \in 0..version
  BY DEF TasksInv, TasksTyped, ReadingTyped, Still
<1>2. page.ticked \in SUBSET Issues /\ page # NoPage
  BY <1>1, NoPageIsNoPage DEF RealPages
<1>3. /\ page.ticked \subseteq fresh \cup snapshot \cup lost
      /\ ~changed => page.ticked \subseteq snapshot \cup lost
  BY <1>2 DEF TasksInv, TicksAreKnown
<1>4. /\ reading' = [pc |-> "complete", version |-> reading.version, todo |-> new]
      /\ lost' = lost \cup (fresh \ new)
      /\ snapshot' = IF changed THEN page.ticked ELSE snapshot
      /\ lastPage' = page
      /\ UNCHANGED <<open, note, version, seen, syncing, curating, hash, ticks, done,
                     unreadTicks, behind>>
  OBVIOUS
<1>5. new \in SUBSET Issues /\ \A i \in new : i \in fresh \/ i \in lost
  BY <1>2, <1>3
<1>6. InFlight = fresh /\ Known = page.ticked
  BY DEF InFlight, Known
<1>7. reading.pc = "read"
  OBVIOUS
<1>8. reading.fresh = fresh /\ reading.page = page
  OBVIOUS
<1>9. page.ticked \subseteq snapshot' \cup lost'
  BY <1>3, <1>4
<1> HIDE DEF page, fresh, new, ReadPage
<1>10. InFlight' = new /\ Known' = snapshot'
  BY <1>4 DEF InFlight, Known
<1>11. TasksTyped'
  <2>1. reading' \in [pc: {"complete"}, version: 0..version, todo: SUBSET Issues]
    BY <1>1, <1>4, <1>5
  <2>2. ReadingTyped' /\ CuratingTyped'
    BY <1>4, <2>1 DEF TasksInv, TasksTyped, ReadingTyped, CuratingTyped
  <2>3. QED
    BY <1>1, <1>2, <1>4, <2>2 DEF TasksInv, TasksTyped
<1>12. TicksAreAccountedFor'
  <2>1. ASSUME NEW i \in Issues \ lost'
        PROVE  i \in Issues \ lost /\ (i \in new <=> i \in fresh)
    BY <1>4, <1>5
  <2>2. QED
    BY <1>4, <1>6, <1>10, <2>1 DEF TasksInv, TicksAreAccountedFor
<1>13. TicksAreKnown'
  <2>1. reading'.pc = "complete" /\ lost \subseteq lost'
    BY <1>4
  <2>2. note # NoPage => note.ticked \subseteq unreadTicks \cup page.ticked \cup lost
    BY <1>6 DEF TasksInv, TicksAreKnown
  <2>3. curating.pc = "store" => curating.page.ticked \subseteq page.ticked \cup lost
    BY <1>6 DEF TasksInv, TicksAreKnown
  <2>4. note' # NoPage => note'.ticked \subseteq unreadTicks' \cup Known' \cup lost'
    BY <1>4, <1>9, <1>10, <2>1, <2>2
  <2>5. curating'.pc = "store" => curating'.page.ticked \subseteq Known' \cup lost'
    BY <1>4, <1>9, <1>10, <2>1, <2>3
  <2>6. QED
    BY <1>4, <1>9, <2>1, <2>4, <2>5 DEF TicksAreKnown
<1>14. UnreadTicksAreAhead'
  BY <1>4, <1>7 DEF TasksInv, UnreadTicksAreAhead
<1>15. QED
  BY <1>4, <1>11, <1>12, <1>13, <1>14, UndisturbedParts DEF TasksInv

LEMMA ReadPageFailsKeeps ==
  ASSUME TasksInv, ReadPageFails
  PROVE  TasksInv'
<1> USE DEF ReadPageFails, cloudNote
<1>1. /\ reading.page \in RealPages /\ reading.fresh \in SUBSET Issues
      /\ reading.version \in 0..version
  BY DEF TasksInv, TasksTyped, ReadingTyped, Still
<1>2. TasksTyped'
  BY <1>1 DEF TasksInv, TasksTyped, ReadingTyped, CuratingTyped
<1>3. /\ InFlight = reading.fresh /\ InFlight' = {}
      /\ Known = reading.page.ticked /\ Known' = snapshot
      /\ reading'.pc = "idle"
  BY DEF InFlight, Known, Still
<1>4. TicksAreAccountedFor'
  BY <1>3 DEF TasksInv, TicksAreAccountedFor
<1>5. TicksAreKnown'
  BY <1>3 DEF TasksInv, TicksAreKnown
<1>6. UnreadTicksAreAhead'
  BY <1>3 DEF TasksInv, UnreadTicksAreAhead
<1>7. QED
  BY <1>2, <1>4, <1>5, <1>6, UndisturbedParts DEF TasksInv

LEMMA CompleteKeeps ==
  ASSUME TasksInv, NEW i \in Issues, CompleteIssue(i)
  PROVE  TasksInv'
<1> USE DEF CompleteIssue, cloudNote
<1>1. reading \in [pc: {"complete"}, version: 0..version, todo: SUBSET Issues]
  BY DEF TasksInv, TasksTyped, ReadingTyped, Still
<1>2. /\ reading' \in [pc: {"complete"}, version: 0..version, todo: SUBSET Issues]
      /\ reading'.pc = "complete" /\ reading'.version = reading.version
      /\ reading'.todo = reading.todo \ {i}
  BY <1>1
<1>3. TasksTyped'
  BY <1>2 DEF TasksInv, TasksTyped, ReadingTyped, CuratingTyped
<1>4. InFlight = reading.todo /\ InFlight' = reading.todo \ {i} /\ Known' = Known
  BY <1>2 DEF InFlight, Known
<1>5. TicksAreAccountedFor'
  <2>1. ASSUME NEW j \in Issues \ lost
        PROVE  ticks[j] = done'[j] + OneIf(j \in unreadTicks) + OneIf(j \in reading.todo \ {i})
    <3>1. ticks[j] = done[j] + OneIf(j \in unreadTicks) + OneIf(j \in reading.todo)
      BY <1>4 DEF TasksInv, TicksAreAccountedFor
    <3>2. ticks[j] \in Nat /\ done[j] \in Nat
      BY DEF TasksInv, TasksTyped
    <3>3. done'[j] = IF j = i THEN done[j] + 1 ELSE done[j]
      BY DEF TasksInv, TasksTyped
    <3>4. QED
      BY <3>1, <3>2, <3>3 DEF OneIf
  <2>2. QED
    BY <1>4, <2>1 DEF TicksAreAccountedFor
<1>6. TicksAreKnown'
  BY <1>2, <1>4 DEF TasksInv, TicksAreKnown
<1>7. UnreadTicksAreAhead'
  BY <1>2 DEF TasksInv, UnreadTicksAreAhead
<1>8. QED
  BY <1>3, <1>5, <1>6, <1>7, UndisturbedParts DEF TasksInv

LEMMA CompleteFailsKeeps ==
  ASSUME TasksInv, NEW i \in Issues, CompleteIssueFails(i)
  PROVE  TasksInv'
<1>1. PICK gone \in SUBSET Issues :
        /\ reading' = [reading EXCEPT !.todo = @ \ gone]
        /\ lost' = lost \cup gone
  <2>1. reading.todo \in SUBSET Issues
    BY DEF CompleteIssueFails, TasksInv, TasksTyped, ReadingTyped, Still
  <2>2. reading.todo \ reading.todo = {}
    OBVIOUS
  <2>3. \/ \E gone \in SUBSET Issues : gone = {i} /\ reading' = [reading EXCEPT !.todo = @ \ gone] /\ lost' = lost \cup gone
        \/ reading' = [reading EXCEPT !.todo = @ \ reading.todo] /\ lost' = lost \cup reading.todo
    BY <2>2 DEF CompleteIssueFails
  <2>4. QED
    BY <2>1, <2>3
<1>2. /\ reading.pc = "complete"
      /\ UNCHANGED <<open, cloudNote, seen, lastPage, snapshot, syncing, curating, hash,
                     ticks, done, unreadTicks, behind, linear>>
  BY DEF CompleteIssueFails
<1> USE DEF cloudNote
<1>3. reading \in [pc: {"complete"}, version: 0..version, todo: SUBSET Issues]
  BY <1>2 DEF TasksInv, TasksTyped, ReadingTyped, Still
<1>4. /\ reading' \in [pc: {"complete"}, version: 0..version, todo: SUBSET Issues]
      /\ reading'.pc = "complete" /\ reading'.version = reading.version
      /\ reading'.todo = reading.todo \ gone
  BY <1>1, <1>3
<1>5. TasksTyped'
  BY <1>1, <1>2, <1>4 DEF TasksInv, TasksTyped, ReadingTyped, CuratingTyped
<1>6. InFlight = reading.todo /\ InFlight' = reading.todo \ gone /\ Known' = Known
  BY <1>2, <1>4 DEF InFlight, Known
<1>7. TicksAreAccountedFor'
  BY <1>1, <1>2, <1>6 DEF TasksInv, TicksAreAccountedFor
<1>8. TicksAreKnown'
  BY <1>1, <1>2, <1>4, <1>6 DEF TasksInv, TicksAreKnown
<1>9. UnreadTicksAreAhead'
  BY <1>2, <1>4 DEF TasksInv, UnreadTicksAreAhead
<1>10. QED
  BY <1>2, <1>5, <1>7, <1>8, <1>9, UndisturbedParts DEF TasksInv

LEMMA FinishKeeps ==
  ASSUME TasksInv, FinishReading
  PROVE  TasksInv'
<1> USE DEF FinishReading, cloudNote, account
<1>1. reading.version \in 0..version
  BY DEF TasksInv, TasksTyped, ReadingTyped, Still
<1>2. TasksTyped'
  BY <1>1 DEF TasksInv, TasksTyped, ReadingTyped, CuratingTyped
<1>3. InFlight = {} /\ InFlight' = {} /\ Known' = Known /\ reading'.pc = "idle"
  BY DEF InFlight, Known, Still
<1>4. TicksAreAccountedFor' /\ TicksAreKnown' /\ UnreadTicksAreAhead'
  BY <1>3 DEF TasksInv, TicksAreAccountedFor, TicksAreKnown, UnreadTicksAreAhead
<1>5. QED
  BY <1>2, <1>4, UndisturbedParts DEF TasksInv

LEMMA PollLinearKeeps ==
  ASSUME TasksInv, PollLinear
  PROVE  TasksInv'
<1> USE DEF PollLinear, cloudNote, pollerVars, account
<1>1. TasksTyped'
  BY DEF TasksInv, TasksTyped, ReadingTyped, CuratingTyped
<1>2. TicksAreAccountedFor' /\ TicksAreKnown' /\ UnreadTicksAreAhead'
  BY UndisturbedParts
<1>3. OneUpload'
  BY DEF TasksInv, OneUpload, Uploading, Still
<1>4. HashIsOfTheNote'
  BY DEF TasksInv, HashIsOfTheNote, NoteShowsIssues, Still
<1>5. QED
  BY <1>1, <1>2, <1>3, <1>4 DEF TasksInv

\* A delete that records the ticks it takes along.
LEMMA DeleteKeepsTicks ==
  ASSUME TasksInv, DeleteNote, unreadTicks \subseteq lost', lost \subseteq lost',
         UNCHANGED <<reading, snapshot, lastPage, ticks, done>>,
         curating'.pc = "store" => curating'.page.ticked \subseteq Known \cup lost'
  PROVE  TicksAreAccountedFor' /\ TicksAreKnown' /\ UnreadTicksAreAhead'
<1> USE DEF DeleteNote
<1>1. InFlight' = InFlight /\ Known' = Known
  BY DEF InFlight, Known
<1>2. TicksAreAccountedFor'
  BY <1>1 DEF TasksInv, TicksAreAccountedFor
<1>3. TicksAreKnown'
  BY <1>1 DEF TasksInv, TicksAreKnown
<1>4. UnreadTicksAreAhead'
  BY DEF UnreadTicksAreAhead
<1>5. QED
  BY <1>2, <1>3, <1>4

LEMMA RebuildDeletesKeeps ==
  ASSUME TasksInv, RebuildDeletes
  PROVE  TasksInv'
<1> USE DEF RebuildDeletes, DeleteNote, pollerVars
<1>1. syncing \in [pc: {"rebuild", "store"}, issues: SUBSET Issues]
  BY DEF TasksInv, TasksTyped, Still
<1>2. /\ syncing' \in [pc: {"rebuild", "store"}, issues: SUBSET Issues]
      /\ syncing'.pc = "store" /\ syncing'.issues = syncing.issues /\ syncing' # Still
  BY <1>1 DEF Still
<1>3. TasksTyped'
  BY <1>2 DEF TasksInv, TasksTyped, ReadingTyped, CuratingTyped
<1>4. TicksAreAccountedFor' /\ TicksAreKnown' /\ UnreadTicksAreAhead'
  BY DeleteKeepsTicks DEF Uploading
<1>5. OneUpload'
  BY <1>2 DEF OneUpload, Uploading
<1>6. HashIsOfTheNote'
  BY <1>2 DEF TasksInv, HashIsOfTheNote, NoteShowsIssues, Still
<1>7. QED
  BY <1>3, <1>4, <1>5, <1>6 DEF TasksInv

\* A new page whose ticked boxes the poller knows.
LEMMA StoreKeepsTicks ==
  ASSUME TasksInv, NEW page \in RealPages, note = NoPage, StoreNote(page),
         page.ticked \subseteq Known \cup lost,
         UNCHANGED <<reading, snapshot, lastPage, account>>,
         curating'.pc # "store"
  PROVE  TicksAreAccountedFor' /\ TicksAreKnown' /\ UnreadTicksAreAhead'
<1> USE DEF StoreNote, account
<1>1. InFlight' = InFlight /\ Known' = Known
  BY DEF InFlight, Known
<1>2. TicksAreAccountedFor'
  BY <1>1 DEF TasksInv, TicksAreAccountedFor
<1>3. TicksAreKnown'
  BY <1>1 DEF TasksInv, TicksAreKnown
<1>4. UnreadTicksAreAhead'
  BY DEF TasksInv, UnreadTicksAreAhead
<1>5. QED
  BY <1>2, <1>3, <1>4

LEMMA RebuildStoresKeeps ==
  ASSUME TasksInv, RebuildStores
  PROVE  TasksInv'
<1> DEFINE page == [shown |-> syncing.issues, ticked |-> {}]
<1>1. syncing.issues \in SUBSET Issues /\ syncing # Still
  BY DEF RebuildStores, TasksInv, TasksTyped, Still
<1>2. page \in RealPages /\ page # NoPage
  <2>1. page \in RealPages
    BY <1>1 DEF RealPages
  <2>2. QED
    BY <2>1, NoPageIsNoPage
<1>3. page.ticked = {} /\ page.shown = hash
  BY <1>1 DEF TasksInv, HashIsOfTheNote
<1>4. note = NoPage /\ curating.pc # "store" /\ UNCHANGED curating
  BY DEF RebuildStores, TasksInv, OneUpload, Uploading
<1>5. /\ StoreNote(page) /\ syncing' = Still /\ behind' = FALSE
      /\ UNCHANGED <<open, pollerVars, curating, hash, account, bounds>>
  BY DEF RebuildStores
<1> HIDE DEF page
<1> USE DEF StoreNote, pollerVars, account
<1>6. TasksTyped'
  <2>1. version \in Nat /\ version' = version + 1
    BY <1>5 DEF TasksInv, TasksTyped
  <2>2. ReadingTyped' /\ CuratingTyped'
    BY <1>5, <2>1 DEF TasksInv, TasksTyped, ReadingTyped, CuratingTyped
  <2>3. QED
    BY <1>2, <1>5, <2>1, <2>2 DEF TasksInv, TasksTyped
<1>7. TicksAreAccountedFor' /\ TicksAreKnown' /\ UnreadTicksAreAhead'
  BY <1>2, <1>3, <1>4, <1>5, StoreKeepsTicks
<1>8. OneUpload'
  BY <1>4, <1>5 DEF OneUpload, Uploading, Still
<1>9. HashIsOfTheNote'
  BY <1>2, <1>3, <1>4, <1>5 DEF HashIsOfTheNote, NoteShowsIssues, Still
<1>10. QED
  BY <1>6, <1>7, <1>8, <1>9 DEF TasksInv

LEMMA RebuildFailsKeeps ==
  ASSUME TasksInv, RebuildFails
  PROVE  TasksInv'
<1> USE DEF RebuildFails, cloudNote, pollerVars, account
<1>1. TasksTyped'
  BY DEF TasksInv, TasksTyped, ReadingTyped, CuratingTyped
<1>2. TicksAreAccountedFor' /\ TicksAreKnown' /\ UnreadTicksAreAhead'
  BY UndisturbedParts
<1>3. OneUpload'
  BY DEF TasksInv, OneUpload, Uploading, Still
<1>4. HashIsOfTheNote'
  BY DEF TasksInv, HashIsOfTheNote, NoteShowsIssues, Still
<1>5. QED
  BY <1>1, <1>2, <1>3, <1>4 DEF TasksInv

\* A step of a curation that is not an upload leaves the page alone.
LEMMA QuietCurationKeeps ==
  ASSUME TasksInv, CuratingTyped', curating'.pc # "store",
         UNCHANGED <<open, cloudNote, pollerVars, syncing, hash, account, behind>>
  PROVE  TasksInv'
<1> USE DEF cloudNote, pollerVars, account
<1>1. TasksTyped'
  BY DEF TasksInv, TasksTyped, ReadingTyped
<1>2. TicksAreAccountedFor' /\ UnreadTicksAreAhead'
  BY UndisturbedParts
<1>3. TicksAreKnown'
  BY DEF TasksInv, TicksAreKnown, Known
<1>4. OneUpload' /\ HashIsOfTheNote'
  BY DEF TasksInv, OneUpload, Uploading, HashIsOfTheNote, NoteShowsIssues
<1>5. QED
  BY <1>1, <1>2, <1>3, <1>4 DEF TasksInv

LEMMA StartCurationKeeps ==
  ASSUME TasksInv, StartCuration
  PROVE  TasksInv'
<1>1. note \in RealPages
  BY DEF StartCuration, TasksInv, TasksTyped
<1>2. CuratingTyped' /\ curating'.pc # "store"
  BY <1>1 DEF StartCuration, CuratingTyped
<1>3. QED
  BY <1>2, QuietCurationKeeps DEF StartCuration

LEMMA CuratePageKeeps ==
  ASSUME TasksInv, CuratePage
  PROVE  TasksInv'
<1> DEFINE old == curating.page
<1>1. old \in RealPages
  BY DEF CuratePage, TasksInv, TasksTyped, CuratingTyped, Still
<1>2. PICK issues \in {open, {}} :
        curating' = [pc |-> "upload", old |-> old, page |-> [old EXCEPT !.shown = @ \cup issues]]
  BY DEF CuratePage
<1>3. issues \in SUBSET Issues
  BY DEF TasksInv, TasksTyped
<1> HIDE DEF old
<1>4. /\ [old EXCEPT !.shown = @ \cup issues] \in RealPages
      /\ [old EXCEPT !.shown = @ \cup issues].ticked = old.ticked
  BY <1>1, <1>3 DEF RealPages
<1>5. CuratingTyped' /\ curating'.pc # "store"
  BY <1>1, <1>2, <1>4 DEF CuratingTyped
<1>6. QED
  BY <1>5, QuietCurationKeeps DEF CuratePage

LEMMA CurationFailsKeeps ==
  ASSUME TasksInv, CurationFails
  PROVE  TasksInv'
<1>1. CuratingTyped' /\ curating'.pc # "store"
  BY DEF CurationFails, CuratingTyped, Still
<1>2. QED
  BY <1>1, QuietCurationKeeps DEF CurationFails, bounds

LEMMA CurationDeletesKeeps ==
  ASSUME TasksInv, CurationDeletes
  PROVE  TasksInv'
<1> USE DEF CurationDeletes, pollerVars
<1>1. /\ curating \in [pc: {"upload", "store"}, old: RealPages, page: RealPages]
      /\ curating.page.ticked = curating.old.ticked
  BY DEF TasksInv, TasksTyped, CuratingTyped, Still
<1>2. /\ curating' \in [pc: {"upload", "store"}, old: RealPages, page: RealPages]
      /\ curating'.pc = "store" /\ curating'.page = curating.page
      /\ curating'.old = curating.old
  BY <1>1
<1>3. curating.old.ticked \in SUBSET Issues /\ curating.old # NoPage
  BY <1>1, NoPageIsNoPage DEF RealPages
<1>4. TasksTyped'
  <2>1. CuratingTyped'
    BY <1>1, <1>2 DEF CuratingTyped
  <2>2. QED
    BY <1>3, <2>1 DEF TasksInv, TasksTyped, ReadingTyped, DeleteNote
<1>5. curating.page.ticked \subseteq Known \cup lost'
  BY <1>1, <1>3 DEF TasksInv, TicksAreKnown
<1>6. TicksAreAccountedFor' /\ TicksAreKnown' /\ UnreadTicksAreAhead'
  BY <1>2, <1>5, DeleteKeepsTicks
<1>7. OneUpload'
  BY DEF OneUpload, Uploading, DeleteNote
<1>8. HashIsOfTheNote'
  BY DEF TasksInv, HashIsOfTheNote, NoteShowsIssues
<1>9. QED
  BY <1>4, <1>6, <1>7, <1>8 DEF TasksInv

LEMMA CurationStoresKeeps ==
  ASSUME TasksInv, CurationStores
  PROVE  TasksInv'
<1> DEFINE page == curating.page
<1>1. page \in RealPages /\ page # NoPage
  BY NoPageIsNoPage DEF CurationStores, TasksInv, TasksTyped, CuratingTyped, Still
<1>2. page.ticked \subseteq Known \cup lost
  BY DEF CurationStores, TasksInv, TicksAreKnown
<1>3. note = NoPage /\ syncing.pc # "store" /\ behind
  BY DEF CurationStores, TasksInv, OneUpload, Uploading, HashIsOfTheNote
<1>4. /\ StoreNote(page) /\ curating' = Still
      /\ UNCHANGED <<open, pollerVars, syncing, hash, account, behind, bounds>>
  BY DEF CurationStores
<1> HIDE DEF page
<1> USE DEF StoreNote, pollerVars, account
<1>5. TasksTyped'
  <2>1. version \in Nat /\ version' = version + 1
    BY <1>4 DEF TasksInv, TasksTyped
  <2>2. ReadingTyped' /\ CuratingTyped'
    BY <1>4, <2>1 DEF TasksInv, TasksTyped, ReadingTyped, CuratingTyped
  <2>3. QED
    BY <1>1, <1>4, <2>1, <2>2 DEF TasksInv, TasksTyped
<1>6. TicksAreAccountedFor' /\ TicksAreKnown' /\ UnreadTicksAreAhead'
  BY <1>1, <1>2, <1>3, <1>4, StoreKeepsTicks DEF Still
<1>7. OneUpload'
  BY <1>3, <1>4 DEF OneUpload, Uploading, Still
<1>8. HashIsOfTheNote'
  BY <1>3, <1>4 DEF TasksInv, HashIsOfTheNote, NoteShowsIssues, Still
<1>9. QED
  BY <1>5, <1>6, <1>7, <1>8 DEF TasksInv

LEMMA RestartKeeps ==
  ASSUME TasksInv, RestartTasks
  PROVE  TasksInv'
<1> USE DEF RestartTasks, cloudNote
<1>1. /\ reading.pc = "read" => reading.fresh \in SUBSET Issues
      /\ reading.pc = "complete" => reading.todo \in SUBSET Issues
      /\ Still.pc = "idle"
      /\ version \in Nat
  BY DEF TasksInv, TasksTyped, ReadingTyped, Still
<1>2. lost' = lost \cup InFlight /\ InFlight \in SUBSET Issues
  BY <1>1 DEF InFlight
<1>3. TasksTyped'
  BY <1>1, <1>2 DEF TasksInv, TasksTyped, ReadingTyped, CuratingTyped
<1>4. InFlight' = {} /\ Known' = snapshot
  BY <1>1 DEF InFlight, Known
<1>5. TicksAreAccountedFor'
  BY <1>2, <1>4 DEF TasksInv, TicksAreAccountedFor
<1>6. TicksAreKnown'
  <2>1. Known \subseteq snapshot \cup lost'
    BY <1>2 DEF TasksInv, TicksAreKnown, Known, InFlight
  <2>2. QED
    BY <1>1, <1>2, <1>4, <2>1 DEF TasksInv, TicksAreKnown
<1>7. UnreadTicksAreAhead'
  BY <1>1 DEF TasksInv, TasksTyped, UnreadTicksAreAhead
<1>8. OneUpload' /\ HashIsOfTheNote'
  BY <1>1 DEF OneUpload, Uploading, HashIsOfTheNote, NoteShowsIssues
<1>9. QED
  BY <1>3, <1>5, <1>6, <1>7, <1>8 DEF TasksInv

LEMMA TasksInvariant == TasksSpec => []TasksInv
<1>1. TasksInit => TasksInv
  BY DEF TasksInit, TasksInv, TasksTyped, ReadingTyped, CuratingTyped, TicksAreAccountedFor,
         OneIf, InFlight, TicksAreKnown, Known, UnreadTicksAreAhead, OneUpload, Uploading,
         HashIsOfTheNote, NoteShowsIssues, Still
<1>2. TasksInv /\ [TasksNext]_tasksVars => TasksInv'
  <2> SUFFICES ASSUME TasksInv, [TasksNext]_tasksVars
               PROVE  TasksInv'
    OBVIOUS
  <2>1. CASE UNCHANGED tasksVars
    <3>1. TasksTyped'
      BY <2>1 DEF tasksVars, TasksInv, TasksTyped, ReadingTyped, CuratingTyped
    <3>2. QED
      BY <2>1, <3>1, UndisturbedParts DEF tasksVars, TasksInv
  <2>2. ASSUME NEW i \in Issues,
               Tick(i) \/ LinearChanges(i) \/ CompleteIssue(i) \/ CompleteIssueFails(i)
        PROVE  TasksInv'
    BY <2>2, TickKeeps, LinearChangesKeeps, CompleteKeeps, CompleteFailsKeeps
  <2>3. CASE \/ ListTasksNote \/ FetchTasksNote \/ FetchTasksNoteFails
             \/ ReadPage \/ ReadPageFails \/ FinishReading
    BY <2>3, ListKeeps, FetchKeeps, FetchFailsKeeps, ReadPageKeeps, ReadPageFailsKeeps,
       FinishKeeps
  <2>4. CASE PollLinear \/ RebuildDeletes \/ RebuildStores \/ RebuildFails
    BY <2>4, PollLinearKeeps, RebuildDeletesKeeps, RebuildStoresKeeps, RebuildFailsKeeps
  <2>5. CASE \/ StartCuration \/ CuratePage \/ CurationDeletes \/ CurationStores
             \/ CurationFails
    BY <2>5, StartCurationKeeps, CuratePageKeeps, CurationDeletesKeeps, CurationStoresKeeps,
       CurationFailsKeeps
  <2>6. CASE RestartTasks
    BY <2>6, RestartKeeps
  <2>7. QED
    BY <2>1, <2>2, <2>3, <2>4, <2>5, <2>6 DEF TasksNext
<1>3. QED
  BY <1>1, <1>2, PTL DEF TasksSpec

\* However rebuilds, curations, failed downloads, failed transcriptions and
\* restarts fall between the user's ticks and the polls, the service completes
\* an issue once per tick: none is completed for an old tick, and none that is
\* still on the page has been passed over by the poller's marker.
THEOREM TicksCompleteOnce == TasksSpec => []EveryTickCompletesOnce
<1>1. TasksInv => EveryTickCompletesOnce
  <2> SUFFICES ASSUME TasksInv, reading = Still, NEW i \in Issues \ lost
               PROVE  IF i \in unreadTicks THEN seen < version ELSE done[i] = ticks[i]
    BY DEF EveryTickCompletesOnce
  <2>1. CASE i \in unreadTicks
    BY <2>1 DEF TasksInv, UnreadTicksAreAhead
  <2>2. CASE i \notin unreadTicks
    <3>1. InFlight = {}
      BY DEF InFlight, Still
    <3>2. ticks[i] = done[i] + OneIf(i \in unreadTicks) + OneIf(i \in InFlight)
      BY DEF TasksInv, TicksAreAccountedFor
    <3>3. done[i] \in Nat
      BY DEF TasksInv, TasksTyped
    <3>4. QED
      BY <2>2, <3>1, <3>2, <3>3 DEF OneIf
  <2>3. QED
    BY <2>1, <2>2
<1>2. QED
  BY <1>1, TasksInvariant, PTL

\* The page shows the issues whose hash TasksSync keeps, so that a poll that
\* finds no news of Linear may leave the page as it is; but for a failed
\* rebuild or a curation, which the code does not make up for.
THEOREM PageShowsHashedIssues == TasksSpec => []NoteShowsIssues
<1>1. TasksInv => NoteShowsIssues
  BY DEF TasksInv, HashIsOfTheNote
<1>2. QED
  BY <1>1, TasksInvariant, PTL

(***************************************************************************)
(* Enrichment: for any pages, any choice of the mirrored ones and of those *)
(* the model refuses, a clean row is in folio, and folio only ever moves   *)
(* forward.                                                                *)
(***************************************************************************)

EnrichRows == [revision: 0..MaxRevision, text: BOOLEAN, dirty: BOOLEAN, waits: BOOLEAN]

EnrichTasks == [pc: {"skip", "enrich", "publish", "mark"}, page: Pages,
                revision: 1..MaxRevision]

RowsAreTyped ==
  /\ row \in [Pages -> EnrichRows]
  /\ folio \in [Pages -> 0..MaxRevision]
  /\ task = Waiting \/ task \in EnrichTasks

\* Only text is ever enriched, and folio is never ahead of it.
FolioIsNotAhead ==
  \A p \in Pages : /\ row[p].dirty => row[p].text /\ row[p].revision > 0
                   /\ folio[p] <= row[p].revision
                   /\ folio[p] > 0 => row[p].text

\* A row may move on under the task that took it, never back, and nothing but
\* the task itself changes folio before it is marked.
TaskFitsRow ==
  task # Waiting =>
    /\ row[task.page].text
    /\ task.revision <= row[task.page].revision
    /\ folio[task.page] <= task.revision
    /\ task.pc = "skip" <=> task.page \notin SyncedPages
    /\ task.pc = "mark" => folio[task.page] = task.revision

EnrichInv == RowsAreTyped /\ FolioIsNotAhead /\ TaskFitsRow /\ CleanIsMirrored

\* A task that waits has no other fields than its step.
LEMMA TaskFields ==
  ASSUME EnrichInv
  PROVE  /\ Waiting.pc = "idle"
         /\ task.pc # "idle" => task # Waiting
         /\ task # Waiting => task \in EnrichTasks /\ task.pc # "idle"
BY DEF EnrichInv, RowsAreTyped, Waiting, EnrichTasks

LEMMA InitEstablishesEnrichInv ==
  ASSUME EnrichInit
  PROVE  EnrichInv
BY EnrichBounds, SyncedAreKnown
   DEF EnrichInit, EnrichInv, RowsAreTyped, FolioIsNotAhead, TaskFitsRow,
       CleanIsMirrored, NoRow, EnrichRows, Waiting

\* Reading a page again gives it text of this or of a later revision, and makes
\* it dirty.
LEMMA UpsertKeepsInv ==
  ASSUME EnrichInv, NEW p \in Pages, NEW revision \in 1..MaxRevision,
         revision >= row[p].revision, UpsertOcrPage(p, revision)
  PROVE  EnrichInv'
<1> DEFINE new == [revision |-> revision, text |-> TRUE, dirty |-> TRUE, waits |-> FALSE]
<1>1. /\ row' = [row EXCEPT ![p] = new] /\ new \in EnrichRows
      /\ UNCHANGED <<task, folio>>
  BY EnrichBounds DEF UpsertOcrPage, Write, EnrichRows
<1> HIDE DEF new
<1>2. new.text /\ new.dirty /\ new.revision = revision
  BY DEF new
<1>3. RowsAreTyped'
  BY <1>1 DEF EnrichInv, RowsAreTyped
<1>4. \A q \in Pages : row'[q] = IF q = p THEN new ELSE row[q]
  BY <1>1 DEF EnrichInv, RowsAreTyped
<1>5. FolioIsNotAhead'
  BY <1>1, <1>2, <1>4, EnrichBounds
     DEF EnrichInv, RowsAreTyped, FolioIsNotAhead, EnrichRows
<1>6. TaskFitsRow'
  BY <1>1, <1>2, <1>4, EnrichBounds, TaskFields
     DEF EnrichInv, RowsAreTyped, TaskFitsRow, EnrichRows, EnrichTasks
<1>7. CleanIsMirrored'
  BY <1>1, <1>2, <1>4, SyncedAreKnown DEF EnrichInv, CleanIsMirrored
<1>8. QED
  BY <1>3, <1>5, <1>6, <1>7 DEF EnrichInv

\* A step that leaves every text, revision and folio object as they are, and
\* makes no row clean that is not mirrored, keeps the invariant of the rows.
LEMMA RowStepKeepsInv ==
  ASSUME EnrichInv, RowsAreTyped', UNCHANGED folio,
         task' = task \/ task' = Waiting,
         \A q \in Pages : /\ row'[q].text = row[q].text
                          /\ row'[q].revision >= row[q].revision
                          /\ row[q].text => row'[q].revision = row[q].revision
                          /\ row'[q].dirty => row[q].dirty
                          /\ q \in SyncedPages /\ row[q].dirty /\ ~row'[q].dirty =>
                               folio[q] = row[q].revision
  PROVE  EnrichInv'
<1>1. FolioIsNotAhead'
  BY EnrichBounds DEF EnrichInv, RowsAreTyped, FolioIsNotAhead, EnrichRows
<1>2. TaskFitsRow'
  BY EnrichBounds, TaskFields DEF EnrichInv, RowsAreTyped, TaskFitsRow, EnrichRows, EnrichTasks
<1>3. CleanIsMirrored'
  BY SyncedAreKnown DEF EnrichInv, CleanIsMirrored
<1>4. QED
  BY <1>1, <1>2, <1>3 DEF EnrichInv

\* A failed reading writes a placeholder, or puts off the row that is there.
LEMMA FailedReading ==
  ASSUME EnrichInv, NEW p \in Pages, NEW revision \in 1..MaxRevision,
         revision >= row[p].revision, RecordOcrFailure(p, revision)
  PROVE  /\ UNCHANGED <<task, folio>>
         /\ \E new \in EnrichRows : /\ row' = [row EXCEPT ![p] = new]
                                    /\ new.text = row[p].text /\ new.dirty = row[p].dirty
                                    /\ new.revision >= row[p].revision
                                    /\ row[p].text => new.revision = row[p].revision
<1> DEFINE new == IF row[p] = NoRow
                    THEN [NoRow EXCEPT !.revision = revision, !.waits = TRUE]
                    ELSE [row[p] EXCEPT !.waits = TRUE]
<1>1. row' = [row EXCEPT ![p] = new] /\ UNCHANGED <<task, folio>>
  BY DEF RecordOcrFailure, Write
<1>2. /\ new \in EnrichRows
      /\ new.text = row[p].text /\ new.dirty = row[p].dirty
      /\ new.revision >= row[p].revision
      /\ row[p].text => new.revision = row[p].revision
  <2>1. row[p] \in EnrichRows
    BY DEF EnrichInv, RowsAreTyped
  <2>2. CASE row[p] = NoRow
    <3>1. new = [revision |-> revision, text |-> FALSE, dirty |-> FALSE, waits |-> TRUE]
      BY <2>2 DEF NoRow
    <3>2. row[p].text = FALSE /\ row[p].dirty = FALSE /\ row[p].revision = 0
      BY <2>2 DEF NoRow
    <3> HIDE DEF new
    <3>3. new.text = FALSE /\ new.dirty = FALSE /\ new.revision = revision
      BY <3>1
    <3>4. new \in EnrichRows
      BY <3>1, EnrichBounds DEF EnrichRows
    <3>5. QED
      BY <3>2, <3>3, <3>4
  <2>3. CASE row[p] # NoRow
    <3> DEFINE late == [row[p] EXCEPT !.waits = TRUE]
    <3>1. /\ late \in EnrichRows
          /\ late.text = row[p].text /\ late.dirty = row[p].dirty
          /\ late.revision = row[p].revision
      BY <2>1 DEF EnrichRows
    <3>2. new = late
      BY <2>3
    <3>3. row[p].revision \in Nat
      BY <2>1, EnrichBounds DEF EnrichRows
    <3> HIDE DEF new, late
    <3>4. QED
      BY <3>1, <3>2, <3>3
  <2>4. QED
    BY <2>2, <2>3
<1> HIDE DEF new
<1>3. QED
  BY <1>1, <1>2

LEMMA RecordOcrFailureKeepsInv ==
  ASSUME EnrichInv, NEW p \in Pages, NEW revision \in 1..MaxRevision,
         revision >= row[p].revision, RecordOcrFailure(p, revision)
  PROVE  EnrichInv'
<1>1. PICK new \in EnrichRows : /\ row' = [row EXCEPT ![p] = new]
                                /\ new.text = row[p].text /\ new.dirty = row[p].dirty
                                /\ new.revision >= row[p].revision
                                /\ row[p].text => new.revision = row[p].revision
  BY FailedReading
<1>2. UNCHANGED <<task, folio>>
  BY FailedReading
<1>3. \A q \in Pages : row'[q] = IF q = p THEN new ELSE row[q]
  BY <1>1 DEF EnrichInv, RowsAreTyped
<1>4. RowsAreTyped'
  BY <1>1, <1>2 DEF EnrichInv, RowsAreTyped
<1>5. \A q \in Pages : row[q].revision \in Nat
  BY EnrichBounds DEF EnrichInv, RowsAreTyped, EnrichRows
<1>6. QED
  BY <1>1, <1>2, <1>3, <1>4, <1>5, RowStepKeepsInv

\* A row is marked clean only in the revision of the task, which is then in
\* folio or not mirrored at all.
LEMMA MarkCleanKeepsInv ==
  ASSUME EnrichInv, task.pc \in {"skip", "mark"},
         MarkClean(task.page, task.revision), task' = Waiting, UNCHANGED folio
  PROVE  EnrichInv'
<1> DEFINE p == task.page
           new == [row[p] EXCEPT !.dirty = FALSE, !.waits = FALSE]
<1>1. task \in EnrichTasks /\ task # Waiting /\ p \in Pages
  BY TaskFields DEF EnrichTasks
<1>2. CASE row[p].revision # task.revision
  BY <1>2, RowStepKeepsInv, EnrichBounds
     DEF MarkClean, rowVars, EnrichInv, RowsAreTyped, EnrichRows
<1>3. CASE row[p].revision = task.revision
  <2>1. row' = [row EXCEPT ![p] = new]
    BY <1>3 DEF MarkClean, Write
  <2>2. /\ new \in EnrichRows
        /\ new.text = row[p].text /\ new.dirty = FALSE
        /\ new.revision = row[p].revision
    BY <1>1 DEF EnrichInv, RowsAreTyped, EnrichRows
  <2>3. p \in SyncedPages => folio[p] = row[p].revision
    BY <1>1, <1>3 DEF EnrichInv, TaskFitsRow
  <2> HIDE DEF new, p
  <2>4. \A q \in Pages : row'[q] = IF q = p THEN new ELSE row[q]
    BY <2>1, <1>1 DEF EnrichInv, RowsAreTyped
  <2>5. RowsAreTyped'
    BY <2>1, <2>2, <1>1 DEF EnrichInv, RowsAreTyped
  <2>6. \A q \in Pages : row[q].revision \in Nat
    BY EnrichBounds DEF EnrichInv, RowsAreTyped, EnrichRows
  <2>7. QED
    BY <2>2, <2>3, <2>4, <2>5, <2>6, RowStepKeepsInv
<1>4. QED
  BY <1>2, <1>3

\* mark_failed and a backoff that elapses change only when a row is due.
LEMMA WaitingKeepsInv ==
  ASSUME EnrichInv, NEW p \in Pages, NEW waits \in BOOLEAN,
         row' = [row EXCEPT ![p] = [row[p] EXCEPT !.waits = waits]],
         task' = task \/ task' = Waiting, UNCHANGED folio
  PROVE  EnrichInv'
<1> DEFINE new == [row[p] EXCEPT !.waits = waits]
<1>1. /\ new \in EnrichRows
      /\ new.text = row[p].text /\ new.dirty = row[p].dirty
      /\ new.revision = row[p].revision
  BY DEF EnrichInv, RowsAreTyped, EnrichRows
<1>2. row' = [row EXCEPT ![p] = new]
  OBVIOUS
<1> HIDE DEF new
<1>3. \A q \in Pages : row'[q] = IF q = p THEN new ELSE row[q]
  BY <1>2 DEF EnrichInv, RowsAreTyped
<1>4. RowsAreTyped'
  BY <1>1, <1>2 DEF EnrichInv, RowsAreTyped
<1>5. \A q \in Pages : row[q].revision \in Nat
  BY EnrichBounds DEF EnrichInv, RowsAreTyped, EnrichRows
<1>6. QED
  BY <1>1, <1>3, <1>4, <1>5, RowStepKeepsInv

\* The service takes a row in the revision it has at that moment.
LEMMA NextDirtyPageKeepsInv ==
  ASSUME EnrichInv, NextDirtyPage
  PROVE  EnrichInv'
<1>1. PICK p \in Pages :
        /\ IsDue(p)
        /\ task' = [pc |-> IF p \in SyncedPages THEN "enrich" ELSE "skip",
                    page |-> p, revision |-> row[p].revision]
        /\ UNCHANGED <<row, folio>>
  BY DEF NextDirtyPage
<1>2. row[p].dirty /\ row[p].text /\ row[p].revision \in 1..MaxRevision
  BY <1>1, EnrichBounds
     DEF IsDue, EnrichInv, RowsAreTyped, FolioIsNotAhead, EnrichRows
<1>3. task' \in EnrichTasks
  BY <1>1, <1>2 DEF EnrichTasks
<1>4. RowsAreTyped' /\ FolioIsNotAhead' /\ CleanIsMirrored'
  BY <1>1, <1>3 DEF EnrichInv, RowsAreTyped, FolioIsNotAhead, CleanIsMirrored
<1>5. TaskFitsRow'
  BY <1>1, <1>2, EnrichBounds
     DEF EnrichInv, RowsAreTyped, FolioIsNotAhead, TaskFitsRow, EnrichRows
<1>6. QED
  BY <1>4, <1>5 DEF EnrichInv

\* An answer of the model moves the task on or drops it.
LEMMA EnrichPageKeepsInv ==
  ASSUME EnrichInv, EnrichPage
  PROVE  EnrichInv'
<1>1. task \in EnrichTasks /\ task # Waiting /\ task.pc = "enrich"
  BY TaskFields DEF EnrichPage
<1>2. CASE task' = Waiting
  BY <1>2 DEF EnrichPage, EnrichInv, RowsAreTyped, FolioIsNotAhead, TaskFitsRow,
              CleanIsMirrored
<1>3. CASE task' = [task EXCEPT !.pc = "publish"]
  <2>1. /\ task' \in EnrichTasks /\ task'.pc = "publish"
        /\ task'.page = task.page /\ task'.revision = task.revision
    BY <1>1, <1>3 DEF EnrichTasks
  <2>2. QED
    BY <1>1, <2>1 DEF EnrichPage, EnrichInv, RowsAreTyped, FolioIsNotAhead,
                      TaskFitsRow, CleanIsMirrored
<1>4. QED
  BY <1>2, <1>3 DEF EnrichPage

\* Folio takes the revision of the task, and the task waits or goes on to mark.
LEMMA PublishKeepsInv ==
  ASSUME EnrichInv, task.pc = "publish",
         folio' = [folio EXCEPT ![task.page] = task.revision],
         task' = Waiting \/ task' = [task EXCEPT !.pc = "mark"],
         UNCHANGED row
  PROVE  EnrichInv'
<1>1. task \in EnrichTasks /\ task # Waiting /\ task.page \in Pages
  BY TaskFields DEF EnrichTasks
<1>2. \A q \in Pages : folio'[q] = IF q = task.page THEN task.revision ELSE folio[q]
  BY <1>1 DEF EnrichInv, RowsAreTyped
<1>3. task' = Waiting \/ /\ task' \in EnrichTasks /\ task'.pc = "mark"
                         /\ task'.page = task.page /\ task'.revision = task.revision
  BY <1>1 DEF EnrichTasks
<1>4. RowsAreTyped'
  BY <1>1, <1>3, EnrichBounds DEF EnrichInv, RowsAreTyped, EnrichTasks
<1>5. /\ row[task.page].text
      /\ task.revision <= row[task.page].revision
      /\ folio[task.page] <= task.revision
      /\ task.page \in SyncedPages
      /\ task.revision \in 1..MaxRevision
  BY <1>1 DEF EnrichInv, TaskFitsRow, EnrichTasks
<1>6. FolioIsNotAhead'
  BY <1>1, <1>2, <1>5, EnrichBounds DEF EnrichInv, FolioIsNotAhead
<1>7. TaskFitsRow'
  BY <1>1, <1>2, <1>3, <1>5, EnrichBounds DEF TaskFitsRow
<1>8. CleanIsMirrored'
  BY <1>1, <1>2, <1>5, SyncedAreKnown, EnrichBounds
     DEF EnrichInv, CleanIsMirrored, RowsAreTyped, EnrichRows
<1>9. QED
  BY <1>4, <1>6, <1>7, <1>8 DEF EnrichInv


(***************************************************************************)
(* The specification.                                                      *)
(***************************************************************************)

LEMMA EnrichNextKeepsInv ==
  ASSUME EnrichInv, [EnrichNext]_enrichVars
  PROVE  EnrichInv'
<1>0. /\ task # Waiting => task \in EnrichTasks /\ task.page \in Pages
      /\ task.pc # "idle" => task # Waiting
  BY TaskFields DEF EnrichTasks
<1>1. ASSUME NEW p \in Pages, Ingest(p)
      PROVE  EnrichInv'
  BY <1>1, UpsertKeepsInv, RecordOcrFailureKeepsInv DEF Ingest
<1>2. ASSUME NEW p \in Pages, BackoffElapses(p)
      PROVE  EnrichInv'
  <2>1. row' = [row EXCEPT ![p] = [row[p] EXCEPT !.waits = FALSE]]
    BY <1>2 DEF BackoffElapses
  <2>2. QED
    BY <1>2, <2>1, WaitingKeepsInv DEF BackoffElapses
<1>3. CASE NextDirtyPage
  BY <1>3, NextDirtyPageKeepsInv
<1>4. CASE MarkEnrichmentSkipped
  BY <1>4, MarkCleanKeepsInv DEF MarkEnrichmentSkipped
<1>5. CASE EnrichPage
  BY <1>5, EnrichPageKeepsInv
<1>6. CASE MarkFailed
  BY <1>0, <1>6, WaitingKeepsInv DEF MarkFailed, Write
<1>7. CASE UpsertSupernotePage
  BY <1>7, PublishKeepsInv DEF UpsertSupernotePage
<1>8. CASE UpsertSupernotePageFails
  <2>1. CASE folio' = [folio EXCEPT ![task.page] = task.revision]
    BY <1>8, <2>1, PublishKeepsInv DEF UpsertSupernotePageFails
  <2>2. CASE folio' = folio
    BY <1>8, <2>2 DEF UpsertSupernotePageFails, EnrichInv, RowsAreTyped,
                      FolioIsNotAhead, TaskFitsRow, CleanIsMirrored
  <2>3. QED
    BY <1>8, <2>1, <2>2 DEF UpsertSupernotePageFails
<1>9. CASE MarkEnriched
  BY <1>9, MarkCleanKeepsInv DEF MarkEnriched
<1>10. CASE RestartEnrichment
  BY <1>10 DEF RestartEnrichment, EnrichInv, RowsAreTyped, FolioIsNotAhead,
               TaskFitsRow, CleanIsMirrored
<1>11. CASE UNCHANGED enrichVars
  BY <1>11 DEF enrichVars, EnrichInv, RowsAreTyped, FolioIsNotAhead,
               TaskFitsRow, CleanIsMirrored
<1>12. QED
  BY <1>1, <1>2, <1>3, <1>4, <1>5, <1>6, <1>7, <1>8, <1>9, <1>10, <1>11
     DEF EnrichNext

\* The invariant holds throughout, whatever ingest writes between two steps of
\* the service and wherever the service fails or is restarted.
THEOREM EnrichInvariant == EnrichSpec => []EnrichInv
<1>1. EnrichInit => EnrichInv
  BY InitEstablishesEnrichInv
<1>2. EnrichInv /\ [EnrichNext]_enrichVars => EnrichInv'
  BY EnrichNextKeepsInv
<1>3. QED
  BY <1>1, <1>2, PTL DEF EnrichSpec

\* A transcribed page of a mirrored notebook whose row is clean is in folio in
\* the revision of the row: mark_enriched never marks text that is not there.
THEOREM CleanRowsAreMirrored == EnrichSpec => []CleanIsMirrored
<1>1. EnrichInv => CleanIsMirrored
  BY DEF EnrichInv
<1>2. QED
  BY <1>1, EnrichInvariant, PTL

(***************************************************************************)
(* The order of the rows by updated_at.                                    *)
(***************************************************************************)

RowsHaveRevision == \A p \in Pages : HasRow(p) => row[p].revision > 0

RowsAreOrdered ==
  /\ older \subseteq Pages \X Pages
  /\ \A p, q \in Pages :
       /\ <<p, q>> \in older \/ <<q, p>> \in older <=> p # q /\ HasRow(p) /\ HasRow(q)
       /\ ~(<<p, q>> \in older /\ <<q, p>> \in older)
       /\ \A r \in Pages : <<p, q>> \in older /\ <<q, r>> \in older => <<p, r>> \in older

OrderInv == RowsHaveRevision /\ RowsAreOrdered /\ upserts \in 0..MaxUpserts

\* A written row comes after all others, whose order does not change.
LEMMA WriteKeepsOrder ==
  ASSUME EnrichInv, OrderInv, NEW p \in Pages, NEW r \in EnrichRows, r.revision > 0,
         Write(p, r)
  PROVE  RowsHaveRevision' /\ RowsAreOrdered'
<1>1. /\ \A q \in Pages : row'[q] = IF q = p THEN r ELSE row[q]
      /\ older' = {pair \in older : pair[1] # p /\ pair[2] # p} \cup OlderNow(p)
  BY DEF EnrichInv, RowsAreTyped, Write
<1>2. r # NoRow
  BY DEF NoRow
<1>3. \A q \in Pages : HasRow(q)' <=> q = p \/ HasRow(q)
  BY <1>1, <1>2 DEF HasRow
<1>4. RowsHaveRevision'
  BY <1>1, <1>3 DEF OrderInv, RowsHaveRevision
<1>5. \A q, s \in Pages :
        <<q, s>> \in older' <=> \/ <<q, s>> \in older /\ q # p /\ s # p
                                \/ s = p /\ q # p /\ HasRow(q)
  BY <1>1 DEF OlderNow
<1>6. older' \subseteq Pages \X Pages
  BY <1>1 DEF OlderNow, OrderInv, RowsAreOrdered
<1>7. ASSUME NEW q \in Pages, NEW s \in Pages
      PROVE  /\ <<q, s>> \in older' \/ <<s, q>> \in older'
                  <=> q # s /\ HasRow(q)' /\ HasRow(s)'
             /\ ~(<<q, s>> \in older' /\ <<s, q>> \in older')
  BY <1>3, <1>5 DEF OrderInv, RowsAreOrdered
<1>8. ASSUME NEW q \in Pages, NEW s \in Pages, NEW t \in Pages,
             <<q, s>> \in older', <<s, t>> \in older'
      PROVE  <<q, t>> \in older'
  <2>1. s # p /\ q # p /\ <<q, s>> \in older
    BY <1>5, <1>8
  <2>2. HasRow(q)
    BY <2>1 DEF OrderInv, RowsAreOrdered
  <2>3. t # p => <<s, t>> \in older
    BY <1>5, <1>8
  <2>4. t # p => <<q, t>> \in older
    BY <2>1, <2>3 DEF OrderInv, RowsAreOrdered
  <2>5. QED
    BY <1>5, <2>1, <2>2, <2>4
<1>9. RowsAreOrdered'
  BY <1>6, <1>7, <1>8 DEF RowsAreOrdered
<1>10. QED
  BY <1>4, <1>9

\* The order is that of the pages with a row.
LEMMA OrderStays ==
  ASSUME OrderInv, UNCHANGED <<older, upserts>>,
         \A q \in Pages : (HasRow(q)' <=> HasRow(q)) /\ row'[q].revision = row[q].revision
  PROVE  OrderInv'
BY DEF OrderInv, RowsHaveRevision, RowsAreOrdered

\* Marks need a row to be there already.
LEMMA MarkKeepsOrder ==
  ASSUME EnrichInv, OrderInv, task # Waiting, UNCHANGED upserts,
         MarkClean(task.page, task.revision) \/ Write(task.page, [row[task.page] EXCEPT !.waits = TRUE])
  PROVE  OrderInv'
<1> DEFINE p == task.page
           clean == [row[p] EXCEPT !.dirty = FALSE, !.waits = FALSE]
           late == [row[p] EXCEPT !.waits = TRUE]
<1>1. /\ p \in Pages /\ row[p] \in EnrichRows /\ row[p].text /\ HasRow(p)
  BY TaskFields DEF EnrichTasks, EnrichInv, RowsAreTyped, TaskFitsRow, HasRow, NoRow
<1>2. row[p].revision > 0
  BY <1>1 DEF OrderInv, RowsHaveRevision
<1>3. /\ clean \in EnrichRows /\ clean.revision = row[p].revision
      /\ late \in EnrichRows /\ late.revision = row[p].revision
  BY <1>1 DEF EnrichRows
<1>4. Write(p, clean) \/ Write(p, late) \/ UNCHANGED rowVars
  BY DEF MarkClean
<1> HIDE DEF p, clean, late
<1>5. CASE Write(p, clean) \/ Write(p, late)
  BY <1>1, <1>2, <1>3, <1>5, WriteKeepsOrder DEF OrderInv
<1>6. CASE UNCHANGED rowVars
  BY <1>6, OrderStays DEF rowVars, HasRow
<1>7. QED
  BY <1>4, <1>5, <1>6

\* Ingest only writes rows of a revision that the page has had.
LEMMA IngestKeepsOrder ==
  ASSUME EnrichInv, OrderInv, NEW p \in Pages, Ingest(p)
  PROVE  OrderInv'
<1>1. PICK revision \in 1..MaxRevision :
        UpsertOcrPage(p, revision) \/ RecordOcrFailure(p, revision)
  BY DEF Ingest
<1> DEFINE fresh == [revision |-> revision, text |-> TRUE, dirty |-> TRUE, waits |-> FALSE]
           placeholder == [NoRow EXCEPT !.revision = revision, !.waits = TRUE]
           late == [row[p] EXCEPT !.waits = TRUE]
<1>2. row[p] \in EnrichRows /\ revision \in 0..MaxRevision /\ revision > 0
  BY EnrichBounds DEF EnrichInv, RowsAreTyped
<1>3. fresh \in EnrichRows /\ fresh.revision > 0
  BY <1>2 DEF EnrichRows
<1>4. placeholder \in EnrichRows /\ placeholder.revision > 0
  BY <1>2 DEF EnrichRows, NoRow
<1>5. late \in EnrichRows /\ late.revision = row[p].revision
  BY <1>2 DEF EnrichRows
<1>6. HasRow(p) => late.revision > 0
  BY <1>5 DEF OrderInv, RowsHaveRevision
<1>7. \/ Write(p, fresh)
      \/ Write(p, IF row[p] = NoRow THEN placeholder ELSE late)
  BY <1>1 DEF UpsertOcrPage, RecordOcrFailure
<1>8. upserts' \in 0..MaxUpserts
  BY <1>1, EnrichBounds DEF UpsertOcrPage, RecordOcrFailure, OrderInv
<1> HIDE DEF fresh, placeholder, late
<1>9. Write(p, fresh) \/ Write(p, placeholder) \/ (HasRow(p) /\ Write(p, late))
  BY <1>7 DEF HasRow
<1>10. RowsHaveRevision' /\ RowsAreOrdered'
  BY <1>3, <1>4, <1>5, <1>6, <1>9, WriteKeepsOrder
<1>11. QED
  BY <1>8, <1>10 DEF OrderInv

\* The end of a backoff is no write, and the row stays.
LEMMA BackoffKeepsOrder ==
  ASSUME EnrichInv, OrderInv, NEW p \in Pages, BackoffElapses(p)
  PROVE  OrderInv'
<1> DEFINE new == [row[p] EXCEPT !.waits = FALSE]
<1>1. /\ row' = [row EXCEPT ![p] = new] /\ row[p].waits
      /\ UNCHANGED <<older, upserts>>
  BY DEF BackoffElapses
<1>2. row[p] \in EnrichRows /\ HasRow(p)
  BY <1>1 DEF EnrichInv, RowsAreTyped, HasRow, NoRow
<1>3. new.revision = row[p].revision /\ new.revision > 0
  BY <1>2 DEF EnrichRows, OrderInv, RowsHaveRevision
<1>4. new # NoRow
  BY <1>3 DEF NoRow
<1> HIDE DEF new
<1>5. \A q \in Pages : row'[q] = IF q = p THEN new ELSE row[q]
  BY <1>1 DEF EnrichInv, RowsAreTyped
<1>6. QED
  BY <1>1, <1>2, <1>3, <1>4, <1>5, OrderStays DEF HasRow

LEMMA EnrichNextKeepsOrder ==
  ASSUME EnrichInv, OrderInv, [EnrichNext]_enrichVars
  PROVE  OrderInv'
<1>1. task.pc # "idle" => task # Waiting
  BY TaskFields
<1>2. CASE \E p \in Pages : Ingest(p) \/ BackoffElapses(p)
  BY <1>2, IngestKeepsOrder, BackoffKeepsOrder
<1>3. CASE MarkEnrichmentSkipped \/ MarkFailed \/ MarkEnriched
  BY <1>1, <1>3, MarkKeepsOrder DEF MarkEnrichmentSkipped, MarkFailed, MarkEnriched
<1>4. CASE \/ NextDirtyPage \/ EnrichPage \/ UpsertSupernotePage
           \/ UpsertSupernotePageFails \/ RestartEnrichment \/ UNCHANGED enrichVars
  <2>1. UNCHANGED <<row, older, upserts>>
    BY <1>4 DEF NextDirtyPage, EnrichPage, UpsertSupernotePage,
                UpsertSupernotePageFails, RestartEnrichment, enrichVars
  <2>2. QED
    BY <2>1, OrderStays DEF HasRow
<1>5. QED
  BY <1>2, <1>3, <1>4 DEF EnrichNext

\* Whatever the two processes write, page_state holds rows of one kind only, and
\* next_dirty_page finds one oldest row among any that are due.
THEOREM EnrichTypeCorrect == EnrichSpec => []EnrichTypeOK
<1>1. EnrichInit => OrderInv
  BY EnrichBounds DEF EnrichInit, OrderInv, RowsHaveRevision, RowsAreOrdered, HasRow, NoRow
<1>2. EnrichInv /\ OrderInv /\ [EnrichNext]_enrichVars => OrderInv'
  BY EnrichNextKeepsOrder
<1>3. EnrichInv /\ OrderInv => EnrichTypeOK
  BY DEF EnrichInv, RowsAreTyped, EnrichRows, EnrichTasks, OrderInv, RowsAreOrdered, EnrichTypeOK
<1>4. QED
  BY <1>1, <1>2, <1>3, EnrichInvariant, PTL DEF EnrichSpec

(***************************************************************************)
(* The refinement.                                                         *)
(***************************************************************************)

Shown(p) == IF row[p].text THEN row[p].revision ELSE 0

\* A reading is an Advance of its page, or no step at all of FolioMirror.
LEMMA UpsertIsMirrorStep ==
  ASSUME EnrichInv, NEW p \in Pages, NEW revision \in 1..MaxRevision,
         revision >= row[p].revision, UpsertOcrPage(p, revision)
  PROVE  [Mirror!MirrorNext]_Mirror!mirrorVars
<1> DEFINE src  == [q \in SyncedPages |-> Shown(q)]
           mir  == [q \in SyncedPages |-> folio[q]]
<1>1. /\ \A q \in Pages : Shown(q)' = IF q = p THEN revision ELSE Shown(q)
      /\ UNCHANGED folio
  BY DEF UpsertOcrPage, Write, Shown, EnrichInv, RowsAreTyped
<1>2. Shown(p) \in Nat /\ revision >= Shown(p) /\ revision \in Nat
  BY EnrichBounds DEF Shown, EnrichInv, RowsAreTyped, EnrichRows
<1>3. UNCHANGED mir
  BY <1>1
<1>4. CASE p \notin SyncedPages \/ revision = Shown(p)
  <2>1. \A q \in SyncedPages : Shown(q)' = Shown(q)
    BY <1>1, <1>4, SyncedAreKnown
  <2>2. UNCHANGED src
    BY <2>1
  <2>3. QED
    BY <2>2, <1>3 DEF Mirror!mirrorVars, Shown
<1>5. CASE p \in SyncedPages /\ revision # Shown(p)
  <2>1. src' = [src EXCEPT ![p] = src'[p]]
    BY <1>1, <1>5, SyncedAreKnown
  <2>2. src'[p] \in Nat /\ src'[p] > src[p]
    BY <1>1, <1>2, <1>5
  <2>3. Mirror!Advance(p)
    BY <2>1, <2>2, <1>3 DEF Mirror!Advance, Shown
  <2>4. QED
    BY <2>3, <1>5 DEF Mirror!MirrorNext
<1>6. QED
  BY <1>4, <1>5

\* Folio is only ever given a revision that the page has, and a newer one.
LEMMA PublishIsMirrorStep ==
  ASSUME EnrichInv, task.pc = "publish", UNCHANGED row,
         folio' = [folio EXCEPT ![task.page] = task.revision]
  PROVE  [Mirror!MirrorNext]_Mirror!mirrorVars
<1>1. task \in EnrichTasks /\ task # Waiting
  BY TaskFields
<1>2. SUFFICES ASSUME NEW p \in Pages, p = task.page,
                      NEW revision \in 1..MaxRevision, revision = task.revision
               PROVE  [Mirror!MirrorNext]_Mirror!mirrorVars
  BY <1>1 DEF EnrichTasks
<1> DEFINE src  == [q \in SyncedPages |-> Shown(q)]
           mir  == [q \in SyncedPages |-> folio[q]]
<1>3. /\ p \in SyncedPages
      /\ Shown(p) = row[p].revision
      /\ revision <= row[p].revision
      /\ folio[p] <= revision
      /\ revision \in Nat \ {0} /\ row[p].revision \in Nat /\ folio[p] \in Nat
  BY <1>1, <1>2, EnrichBounds
     DEF EnrichInv, TaskFitsRow, RowsAreTyped, EnrichRows, EnrichTasks, Shown
<1>4. \A q \in Pages : folio'[q] = IF q = p THEN revision ELSE folio[q]
  BY <1>2 DEF EnrichInv, RowsAreTyped
<1>5. UNCHANGED src
  BY DEF Shown
<1>6. CASE folio[p] = revision
  <2>1. UNCHANGED mir
    BY <1>4, <1>6, SyncedAreKnown
  <2>2. QED
    BY <2>1, <1>5 DEF Mirror!mirrorVars, Shown
<1>7. CASE folio[p] # revision
  <2>1. mir' = [mir EXCEPT ![p] = revision]
    BY <1>3, <1>4, SyncedAreKnown
  <2>2. mir[p] < revision /\ revision <= src[p] /\ revision \in 1..src[p]
    BY <1>3, <1>7
  <2>3. Mirror!Publish(p, revision)
    BY <2>1, <2>2, <1>5 DEF Mirror!Publish, Shown
  <2>4. Mirror!MirrorNext
    BY <2>2, <2>3, <1>3 DEF Mirror!MirrorNext, Shown
  <2>5. QED
    BY <2>4
<1>8. QED
  BY <1>6, <1>7

\* Steps that change no text, no revision and nothing in folio are invisible.
LEMMA OtherStepsAreStutters ==
  ASSUME UNCHANGED folio, \A q \in SyncedPages : Shown(q)' = Shown(q)
  PROVE  [Mirror!MirrorNext]_Mirror!mirrorVars
BY DEF Mirror!mirrorVars, Shown

LEMMA MarksAreInvisible ==
  ASSUME EnrichInv, NEW p \in Pages, NEW r \in EnrichRows, row' = [row EXCEPT ![p] = r],
         r.text = row[p].text, r.text => r.revision = row[p].revision
  PROVE  \A q \in SyncedPages : Shown(q)' = Shown(q)
BY SyncedAreKnown DEF Shown, EnrichInv, RowsAreTyped


LEMMA EnrichStepIsMirrorStep ==
  ASSUME EnrichInv, [EnrichNext]_enrichVars
  PROVE  [Mirror!MirrorNext]_Mirror!mirrorVars
<1>0. /\ task.pc # "idle" => task \in EnrichTasks /\ task.page \in Pages
      /\ \A p \in Pages : row[p] \in EnrichRows
  BY TaskFields DEF EnrichTasks, EnrichInv, RowsAreTyped
<1>1. ASSUME NEW p \in Pages, NEW r \in EnrichRows, row' = [row EXCEPT ![p] = r],
             UNCHANGED folio, r.text = row[p].text,
             r.text => r.revision = row[p].revision
      PROVE  [Mirror!MirrorNext]_Mirror!mirrorVars
  BY <1>1, MarksAreInvisible, OtherStepsAreStutters
<1>2. ASSUME UNCHANGED <<row, folio>>
      PROVE  [Mirror!MirrorNext]_Mirror!mirrorVars
  BY <1>2, OtherStepsAreStutters DEF Shown
<1>3. ASSUME NEW p \in Pages, NEW revision \in 1..MaxRevision,
             revision >= row[p].revision, RecordOcrFailure(p, revision)
      PROVE  [Mirror!MirrorNext]_Mirror!mirrorVars
  BY <1>1, <1>3, FailedReading
<1>4. ASSUME NEW p \in Pages, Ingest(p)
      PROVE  [Mirror!MirrorNext]_Mirror!mirrorVars
  BY <1>3, <1>4, UpsertIsMirrorStep DEF Ingest
<1>5. ASSUME NEW p \in Pages, NEW waits \in BOOLEAN, UNCHANGED folio,
             row' = [row EXCEPT ![p] = [row[p] EXCEPT !.waits = waits]]
      PROVE  [Mirror!MirrorNext]_Mirror!mirrorVars
  <2> DEFINE r == [row[p] EXCEPT !.waits = waits]
  <2>1. r \in EnrichRows /\ r.text = row[p].text /\ r.revision = row[p].revision
    BY <1>0 DEF EnrichRows
  <2>2. row' = [row EXCEPT ![p] = r]
    BY <1>5
  <2> HIDE DEF r
  <2>3. QED
    BY <1>1, <1>5, <2>1, <2>2
<1>6. ASSUME NEW p \in Pages, BackoffElapses(p)
      PROVE  [Mirror!MirrorNext]_Mirror!mirrorVars
  <2>1. row' = [row EXCEPT ![p] = [row[p] EXCEPT !.waits = FALSE]]
    BY <1>6 DEF BackoffElapses
  <2>2. QED
    BY <1>5, <1>6, <2>1 DEF BackoffElapses
<1>7. ASSUME task.pc # "idle", MarkClean(task.page, task.revision), UNCHANGED folio
      PROVE  [Mirror!MirrorNext]_Mirror!mirrorVars
  <2> DEFINE p == task.page
             r == [row[p] EXCEPT !.dirty = FALSE, !.waits = FALSE]
  <2>1. row' = row \/ row' = [row EXCEPT ![p] = r]
    BY <1>7 DEF MarkClean, Write, rowVars
  <2>2. p \in Pages /\ r \in EnrichRows /\ r.text = row[p].text /\ r.revision = row[p].revision
    BY <1>0, <1>7 DEF EnrichRows
  <2> HIDE DEF p, r
  <2>3. QED
    BY <1>1, <1>2, <1>7, <2>1, <2>2
<1>8. CASE NextDirtyPage \/ EnrichPage \/ RestartEnrichment
  BY <1>2, <1>8 DEF NextDirtyPage, EnrichPage, RestartEnrichment
<1>9. CASE MarkEnrichmentSkipped \/ MarkEnriched
  BY <1>7, <1>9 DEF MarkEnrichmentSkipped, MarkEnriched
<1>10. CASE MarkFailed
  BY <1>0, <1>5, <1>10 DEF MarkFailed, Write
<1>11. CASE UpsertSupernotePage \/ UpsertSupernotePageFails
  BY <1>2, <1>11, PublishIsMirrorStep DEF UpsertSupernotePage, UpsertSupernotePageFails
<1>12. CASE UNCHANGED enrichVars
  BY <1>2, <1>12 DEF enrichVars
<1>13. QED
  BY <1>4, <1>6, <1>8, <1>9, <1>10, <1>11, <1>12 DEF EnrichNext

\* The safety of FolioMirror: whatever fails and restarts, folio never goes back
\* to an older revision of a page and never shows one the page has not had.
THEOREM FolioOnlyMovesForward ==
  EnrichSpec => Mirror!MirrorInit /\ [][Mirror!MirrorNext]_Mirror!mirrorVars
<1>1. EnrichInit => Mirror!MirrorInit
  BY SyncedAreKnown DEF EnrichInit, Mirror!MirrorInit, NoRow
<1>2. EnrichInv /\ [EnrichNext]_enrichVars => [Mirror!MirrorNext]_Mirror!mirrorVars
  BY EnrichStepIsMirrorStep
<1>3. QED
  BY <1>1, <1>2, EnrichInvariant, PTL DEF EnrichSpec

(***************************************************************************)
(* PageRendering: first FlattenSeq, which adds up sequences step by step.  *)
(***************************************************************************)

\* Instead of an induction, a proof looks at the least counterexample.
LEMMA LeastOfSome ==
  ASSUME NEW S \in SUBSET Nat, S # {}
  PROVE  \E k \in S : \A i \in S : k <= i
<1>1. PICK k \in S : \A i \in S : <<i, k>> \notin OpToRel(<, Nat)
  BY WFMin, NatLessThanWellFounded, Zenon
<1>2. \A i \in S : ~(i < k)
  BY <1>1, Zenon DEF OpToRel
<1>3. QED
  BY <1>2

Sums(seqs, n, f) ==
  f = [i \in 1..n |-> IF i = 1 THEN seqs[i] ELSE f[i - 1] \o seqs[i]]

StartsWith(more, seqs) == \A i \in 1..Len(seqs) : more[i] = seqs[i]

\* There is no first number of sequences that cannot be added up.
LEMMA SumsExist ==
  ASSUME NEW S, NEW seqs \in Seq(Seq(S)), NEW n \in 1..Len(seqs)
  PROVE  \E f : Sums(seqs, n, f)
<1> DEFINE Bad == {k \in 1..Len(seqs) : ~\E f : Sums(seqs, k, f)}
<1>1. Len(seqs) \in Nat /\ Bad \subseteq 1..Len(seqs)
  OBVIOUS
<1>2. SUFFICES ASSUME Bad # {}
               PROVE  FALSE
  OBVIOUS
<1>3. PICK k \in Bad : \A i \in Bad : k <= i
  <2>1. Bad \in SUBSET Nat
    BY <1>1
  <2> HIDE DEF Bad
  <2>2. QED
    BY <1>2, <2>1, LeastOfSome
<1>4. k \in 1..Len(seqs) /\ ~\E f : Sums(seqs, k, f)
  OBVIOUS
<1>5. CASE k = 1
  <2>1. PICK f : f = [i \in 1..1 |-> seqs[i]]
    OBVIOUS
  <2>2. f = [i \in 1..1 |-> IF i = 1 THEN seqs[i] ELSE f[i - 1] \o seqs[i]]
    BY <2>1
  <2>3. QED
    BY <1>4, <1>5, <2>2 DEF Sums
<1>6. CASE k # 1
  <2>1. k - 1 \in 1..Len(seqs) /\ k - 1 < k /\ k \in Nat
    BY <1>1, <1>4, <1>6
  <2>2. k - 1 \notin Bad
    <3>1. k - 1 \in Bad => k <= k - 1
      BY <1>3
    <3>2. QED
      BY <2>1, <3>1
  <2>3. PICK f : Sums(seqs, k - 1, f)
    BY <2>1, <2>2
  <2>4. PICK g : g = [i \in 1..k |-> IF i = k THEN f[k - 1] \o seqs[k] ELSE f[i]]
    OBVIOUS
  <2>5. f = [i \in 1..(k - 1) |-> IF i = 1 THEN seqs[i] ELSE f[i - 1] \o seqs[i]]
    BY <2>3 DEF Sums
  <2>6. ASSUME NEW i \in 1..k
        PROVE  g[i] = IF i = 1 THEN seqs[i] ELSE g[i - 1] \o seqs[i]
    <3>1. CASE i = k
      <4>1. k - 1 \in 1..k /\ k - 1 # k /\ k \in 1..k
        BY <2>1
      <4>2. g[k] = f[k - 1] \o seqs[k] /\ g[k - 1] = f[k - 1]
        BY <2>4, <4>1
      <4>3. QED
        BY <1>6, <3>1, <4>2
    <3>2. CASE i # k
      <4>1. i \in 1..(k - 1) /\ g[i] = f[i]
        BY <2>1, <2>4, <3>2
      <4>2. f[i] = IF i = 1 THEN seqs[i] ELSE f[i - 1] \o seqs[i]
        BY <2>5, <4>1
      <4>3. i # 1 => i - 1 \in 1..k /\ i - 1 # k
        BY <2>1, <4>1
      <4>4. i # 1 => g[i - 1] = f[i - 1]
        BY <2>4, <4>3
      <4>5. QED
        BY <4>1, <4>2, <4>4
    <3>3. QED
      BY <3>1, <3>2
  <2>7. g = [i \in 1..k |-> IF i = 1 THEN seqs[i] ELSE g[i - 1] \o seqs[i]]
    <3>1. g = [i \in 1..k |-> g[i]]
      BY <2>4
    <3>2. QED
      BY <2>6, <3>1
  <2>8. QED
    BY <1>4, <2>7 DEF Sums
<1>7. QED
  BY <1>5, <1>6

\* What FlattenSeq computes is the last of its partial sums.
LEMMA FlattenIsSum ==
  ASSUME NEW S, NEW seqs \in Seq(Seq(S)), Len(seqs) > 0
  PROVE  \E f : Sums(seqs, Len(seqs), f) /\ FlattenSeq(seqs) = f[Len(seqs)]
<1> DEFINE flatten[i \in 1..Len(seqs)] ==
             IF i = 1 THEN seqs[i] ELSE flatten[i - 1] \o seqs[i]
<1>1. FlattenSeq(seqs) = flatten[Len(seqs)]
  BY DEF FlattenSeq
<1>2. flatten = CHOOSE f : Sums(seqs, Len(seqs), f)
  BY DEF Sums
<1>3. Len(seqs) \in 1..Len(seqs)
  OBVIOUS
<1> HIDE DEF flatten
<1>4. Sums(seqs, Len(seqs), flatten)
  BY <1>2, <1>3, SumsExist, Zenon
<1>5. QED
  BY <1>1, <1>4

\* Sums are sequences, and depend on what is added up so far.
LEMMA SumsAgree ==
  ASSUME NEW S, NEW seqs \in Seq(Seq(S)), NEW more, NEW m \in Nat, NEW f, NEW g,
         Len(seqs) <= m, StartsWith(more, seqs),
         Sums(seqs, Len(seqs), f), Sums(more, m, g)
  PROVE  \A i \in 1..Len(seqs) : f[i] \in Seq(S) /\ g[i] = f[i]
<1> DEFINE n == Len(seqs)
           Bad == {k \in 1..n : ~(f[k] \in Seq(S) /\ g[k] = f[k])}
<1>1. n \in Nat /\ n <= m /\ \A i \in 1..n : i \in 1..m
  OBVIOUS
<1>2. SUFFICES ASSUME Bad # {}
               PROVE  FALSE
  OBVIOUS
<1>3. PICK k \in Bad : \A i \in Bad : k <= i
  <2>1. Bad \in SUBSET Nat
    BY <1>1
  <2> HIDE DEF Bad
  <2>2. QED
    BY <1>2, <2>1, LeastOfSome
<1>4. k \in 1..n /\ ~(f[k] \in Seq(S) /\ g[k] = f[k]) /\ seqs[k] \in Seq(S)
  OBVIOUS
<1>5. f[k] = IF k = 1 THEN seqs[k] ELSE f[k - 1] \o seqs[k]
  BY <1>4 DEF Sums
<1>6. g[k] = IF k = 1 THEN seqs[k] ELSE g[k - 1] \o seqs[k]
  BY <1>1, <1>4 DEF Sums, StartsWith
<1>7. k # 1 => f[k - 1] \in Seq(S) /\ g[k - 1] = f[k - 1]
  <2>1. k # 1 => k - 1 \in 1..n /\ ~(k <= k - 1)
    BY <1>1, <1>4
  <2>2. k - 1 \in Bad => k <= k - 1
    BY <1>3
  <2>3. QED
    BY <2>1, <2>2
<1>8. k # 1 => f[k - 1] \o seqs[k] \in Seq(S)
  BY <1>4, <1>7, ConcatProperties
<1>9. QED
  BY <1>4, <1>5, <1>6, <1>7, <1>8

LEMMA FlattenOfNone == FlattenSeq(<<>>) = <<>>
BY DEF FlattenSeq

\* Sequences over a set add up to a sequence over it.
LEMMA FlattenIsSeq ==
  ASSUME NEW S, NEW seqs \in Seq(Seq(S))
  PROVE  FlattenSeq(seqs) \in Seq(S)
<1>1. CASE Len(seqs) = 0
  <2>1. seqs = <<>> /\ <<>> \in Seq(S)
    BY <1>1
  <2>2. QED
    BY <2>1, FlattenOfNone
<1>2. CASE Len(seqs) > 0
  <2>1. PICK f : Sums(seqs, Len(seqs), f) /\ FlattenSeq(seqs) = f[Len(seqs)]
    BY <1>2, FlattenIsSum
  <2>2. \A i \in 1..Len(seqs) : f[i] \in Seq(S)
    BY <2>1, SumsAgree DEF StartsWith
  <2>3. QED
    BY <1>2, <2>1, <2>2
<1>3. QED
  BY <1>1, <1>2

\* One sequence more adds itself to the end.
LEMMA FlattenAppend ==
  ASSUME NEW S, NEW seqs \in Seq(Seq(S)), NEW last \in Seq(S)
  PROVE  FlattenSeq(Append(seqs, last)) = FlattenSeq(seqs) \o last
<1> DEFINE n == Len(seqs)
<1>1. PICK more : more = Append(seqs, last)
  OBVIOUS
<1>2. /\ n \in Nat /\ more \in Seq(Seq(S)) /\ Len(more) = n + 1
      /\ \A i \in 1..n : more[i] = seqs[i]
      /\ more[n + 1] = last
  BY <1>1
<1>3. PICK g : Sums(more, n + 1, g) /\ FlattenSeq(more) = g[n + 1]
  <2>1. Len(more) > 0
    BY <1>2
  <2>2. \E g : Sums(more, Len(more), g) /\ FlattenSeq(more) = g[Len(more)]
    BY <1>2, <2>1, FlattenIsSum
  <2> HIDE DEF n
  <2>3. QED
    BY <1>2, <2>2
<1>4. g[n + 1] = IF n = 0 THEN last ELSE g[n] \o last
  <2>1. n + 1 \in 1..(n + 1) /\ (n + 1) - 1 = n /\ (n + 1 = 1 <=> n = 0)
    BY <1>2
  <2> HIDE DEF n
  <2>2. g = [i \in 1..(n + 1) |-> IF i = 1 THEN more[i] ELSE g[i - 1] \o more[i]]
    BY <1>3 DEF Sums
  <2>3. g[n + 1] = IF n + 1 = 1 THEN more[n + 1] ELSE g[(n + 1) - 1] \o more[n + 1]
    BY <2>1, <2>2
  <2>4. QED
    BY <1>2, <2>1, <2>3
<1>5. CASE n = 0
  <2>1. seqs = <<>> /\ g[n + 1] = last
    BY <1>2, <1>4, <1>5
  <2>2. <<>> \o last = last
    BY ConcatEmptySeq
  <2>3. QED
    BY <1>1, <1>3, <2>1, <2>2, FlattenOfNone
<1>6. CASE n > 0
  <2>1. PICK f : Sums(seqs, n, f) /\ FlattenSeq(seqs) = f[n]
    BY <1>6, FlattenIsSum
  <2>2. g[n] = f[n]
    <3>1. n + 1 \in Nat /\ n <= n + 1 /\ n \in 1..n
      BY <1>2, <1>6
    <3>2. PICK m \in Nat : m = n + 1
      BY <3>1
    <3>3. Len(seqs) <= m /\ Sums(more, m, g) /\ Sums(seqs, Len(seqs), f)
      BY <1>3, <2>1, <3>1, <3>2
    <3>4. StartsWith(more, seqs)
      BY <1>2 DEF StartsWith
    <3>5. \A i \in 1..Len(seqs) : f[i] \in Seq(S) /\ g[i] = f[i]
      BY <3>3, <3>4, SumsAgree
    <3>6. QED
      BY <3>1, <3>5
  <2>3. g[n + 1] = g[n] \o last
    BY <1>2, <1>4, <1>6
  <2>4. QED
    BY <1>1, <1>3, <2>1, <2>2, <2>3
<1>7. QED
  BY <1>2, <1>5, <1>6

(***************************************************************************)
(* The pages: a line that has been wrapped is wrapped into itself, and the *)
(* lines of a chunk have the heights on its page that they had when the    *)
(* text was divided into chunks.                                           *)
(***************************************************************************)

LinesTyped ==
  /\ text \in Seq(Lines) /\ body \in Seq(Lines) /\ wrapped \in Seq(Lines)
  /\ sheet \in Seq(Lines) /\ chunks \in Seq(Seq(Lines)) /\ drawn \in Seq(Seq(Lines))

PlaceTyped ==
  /\ at \in 1..(Len(body) + 1)
  /\ at <= Len(body) => /\ word \in 1..(Len(body[at]) + 1) /\ begun \in 1..word
                        /\ word > 1 => begun < word
  /\ at > Len(body) => begun = 1 /\ word = 1

RenderTyped ==
  /\ LinesTyped /\ PlaceTyped
  /\ layout \in {"wrap text", "paginate", "wrap chunk", "draw", "done"}
  /\ placed \in 0..Len(wrapped) /\ y \in Nat

\* Every word of the line has room behind the words before it.
Wraps(line) == \A n \in 2..Len(line) : WidthOf(SubSeq(line, 1, n)) <= MaxWidth

LinesWrap(lines) == \A k \in 1..Len(lines) : Wraps(lines[k])

LineBegunWraps ==
  at <= Len(body) =>
    \A n \in (begun + 1)..(word - 1) : WidthOf(SubSeq(body[at], begun, n)) <= MaxWidth

\* heights[k] is where the first k lines of a page end.
EndAt(lines, heights) ==
  /\ heights[0] = 0
  /\ \A k \in 1..Len(lines) : heights[k] = heights[k - 1] + HeightOf(lines[k])

Heights(lines) == [0..Len(lines) -> 0..MaxHeight]

IsPage(lines) == LinesWrap(lines) /\ \E heights \in Heights(lines) : EndAt(lines, heights)

TextIsWrapped ==
  /\ body = text /\ placed = 0 /\ y = 0 /\ sheet = <<>> /\ chunks = <<>> /\ drawn = <<>>
  /\ FlattenSeq(wrapped) =
       FlattenSeq(SubSeq(text, 1, at - 1))
         \o (IF at <= Len(text) THEN SubSeq(text[at], 1, begun - 1) ELSE <<>>)

TextIsPaginated ==
  /\ drawn = <<>> /\ FlattenSeq(wrapped) = FlattenSeq(text)
  /\ FlattenSeq(chunks) \o sheet = SubSeq(wrapped, 1, placed)
  /\ \A c \in 1..Len(chunks) : IsPage(chunks[c])
  /\ LinesWrap(sheet)
  /\ \E heights \in Heights(sheet) : EndAt(sheet, heights) /\ heights[Len(sheet)] = y

ChunksAreTheText ==
  /\ \A c \in 1..Len(chunks) : IsPage(chunks[c])
  /\ FlattenSeq(FlattenSeq(chunks)) = FlattenSeq(text)

ChunkIsNext ==
  /\ Len(drawn) < Len(chunks) /\ drawn = SubSeq(chunks, 1, Len(drawn))
  /\ body = chunks[Len(drawn) + 1]

ChunkIsWrapped ==
  /\ placed = 0 /\ y = 0 /\ sheet = <<>>
  /\ begun = 1 /\ wrapped = SubSeq(body, 1, at - 1)

ChunkIsDrawn ==
  /\ wrapped = body /\ sheet = SubSeq(body, 1, placed)
  /\ \E heights \in Heights(body) : EndAt(body, heights) /\ y = heights[placed]

RenderInv ==
  /\ RenderTyped
  /\ LineBegunWraps /\ LinesWrap(wrapped)
  /\ layout = "wrap text" => TextIsWrapped
  /\ layout = "paginate" => TextIsPaginated
  /\ layout \in {"wrap chunk", "draw", "done"} => ChunksAreTheText
  /\ layout \in {"wrap chunk", "draw"} => ChunkIsNext
  /\ layout = "wrap chunk" => ChunkIsWrapped
  /\ layout = "draw" => ChunkIsDrawn
  /\ layout = "done" => drawn = chunks

\* A beginning of a sequence is the one before it with one element more.
LEMMA PrefixStep ==
  ASSUME NEW S, NEW s \in Seq(S), NEW n \in 1..Len(s)
  PROVE  SubSeq(s, 1, n) = Append(SubSeq(s, 1, n - 1), s[n])
OBVIOUS

LEMMA PrefixIsSeq ==
  ASSUME NEW S, NEW s \in Seq(S), NEW n \in 0..Len(s)
  PROVE  SubSeq(s, 1, n) \in Seq(S) /\ Len(SubSeq(s, 1, n)) = n
OBVIOUS

LEMMA SplitInTwo ==
  ASSUME NEW S, NEW s \in Seq(S), NEW i \in 0..Len(s), NEW j \in 0..Len(s), i <= j
  PROVE  SubSeq(s, 1, i) \o SubSeq(s, i + 1, j) = SubSeq(s, 1, j)
OBVIOUS

LEMMA ConcatAppend ==
  ASSUME NEW S, NEW s \in Seq(S), NEW t \in Seq(S), NEW e \in S
  PROVE  s \o Append(t, e) = Append(s \o t, e)
OBVIOUS

\* The parts of a line are lines, also the empty one behind its last word.
LEMMA LineParts ==
  ASSUME NEW line \in Lines
  PROVE  /\ line \in Seq(Words) /\ Len(line) \in Nat
         /\ \A m \in 1..(Len(line) + 1), n \in 0..Len(line) : SubSeq(line, m, n) \in Lines
<1>1. line \in Seq(Words) /\ Len(line) \in Nat
  BY PartsAreLines
<1>2. ASSUME NEW m \in 1..(Len(line) + 1), NEW n \in 0..Len(line)
      PROVE  SubSeq(line, m, n) \in Lines
  <2>1. m - 1 \in 0..Len(line) /\ (m - 1) + 1 = m
    BY <1>1
  <2>2. SubSeq(line, (m - 1) + 1, n) \in Lines
    BY <2>1, PartsAreLines
  <2>3. QED
    BY <2>1, <2>2
<1>3. QED
  BY <1>1, <1>2

\* The place in the body that the loop over the words has reached.
LEMMA PlaceIsInBody ==
  ASSUME RenderTyped, at <= Len(body)
  PROVE  /\ at \in 1..Len(body) /\ body[at] \in Lines /\ body[at] \in Seq(Words)
         /\ Len(body[at]) \in Nat /\ word \in 1..(Len(body[at]) + 1) /\ begun \in 1..word
         /\ word > 1 => begun < word
         /\ LineBegun \in Lines
<1>1. at \in 1..Len(body) /\ body[at] \in Lines
  <2>1. body \in Seq(Lines) /\ at \in 1..(Len(body) + 1)
    BY DEF RenderTyped, LinesTyped, PlaceTyped
  <2>2. at \in 1..Len(body)
    BY <2>1
  <2>3. QED
    BY <2>1, <2>2
<1>2. /\ word \in 1..(Len(body[at]) + 1) /\ begun \in 1..word
      /\ word > 1 => begun < word
  BY DEF RenderTyped, PlaceTyped
<1>3. body[at] \in Seq(Words) /\ Len(body[at]) \in Nat
  BY <1>1, LineParts
<1>4. begun \in 1..(Len(body[at]) + 1) /\ word - 1 \in 0..Len(body[at])
  BY <1>2, <1>3
<1>5. LineBegun \in Lines
  BY <1>1, <1>4, LineParts DEF LineBegun
<1>6. QED
  BY <1>1, <1>2, <1>3, <1>5

\* The line that is begun can be wrapped into itself.
LEMMA LineBegunIsWrapped ==
  ASSUME RenderTyped, LineBegunWraps, at <= Len(body)
  PROVE  Wraps(LineBegun)
<1> DEFINE line == body[at]
<1>1. /\ line \in Seq(Words) /\ Len(line) \in Nat
      /\ word \in 1..(Len(line) + 1) /\ begun \in 1..word
  BY PlaceIsInBody
<1>2. Len(LineBegun) = IF begun <= word - 1 THEN word - begun ELSE 0
  BY <1>1 DEF LineBegun
<1>3. ASSUME NEW n \in 2..Len(LineBegun)
      PROVE  WidthOf(SubSeq(LineBegun, 1, n)) <= MaxWidth
  <2>1. /\ begun <= word - 1 /\ n <= word - begun /\ n \in Nat /\ n >= 2
        /\ begun \in 1..Len(line) /\ word - 1 \in 1..Len(line)
    BY <1>1, <1>2, <1>3
  <2>2. 1 \in 1..((word - 1) - begun + 1) /\ n \in 1..((word - 1) - begun + 1)
    BY <1>1, <2>1
  <2>3. SubSeq(LineBegun, 1, n) = SubSeq(line, begun + 1 - 1, begun + n - 1)
    BY <1>1, <2>1, <2>2, SubSeqOfSubSeq DEF LineBegun
  <2>4. begun + 1 - 1 = begun /\ begun + n - 1 \in (begun + 1)..(word - 1)
    BY <1>1, <2>1
  <2>5. QED
    BY <2>3, <2>4 DEF LineBegunWraps
<1>4. QED
  BY <1>3 DEF Wraps

\* A line that wraps into itself can be put behind others.
LEMMA OneLineMore ==
  ASSUME NEW lines \in Seq(Lines), LinesWrap(lines), NEW line \in Lines, Wraps(line)
  PROVE  Append(lines, line) \in Seq(Lines) /\ LinesWrap(Append(lines, line))
BY DEF LinesWrap

\* A line that fits below the others ends where its height ends.
LEMMA HeightOfOneMore ==
  ASSUME NEW lines \in Seq(Lines), NEW line \in Lines,
         NEW heights \in Heights(lines), EndAt(lines, heights),
         heights[Len(lines)] + HeightOf(line) <= MaxHeight
  PROVE  \E new \in Heights(Append(lines, line)) :
           /\ EndAt(Append(lines, line), new)
           /\ new[Len(Append(lines, line))] = heights[Len(lines)] + HeightOf(line)
<1> DEFINE last == Len(lines)
           end == heights[last] + HeightOf(line)
<1>1. PICK more : more = Append(lines, line)
  OBVIOUS
<1>2. /\ last \in Nat /\ Len(more) = last + 1 /\ more \in Seq(Lines)
      /\ \A k \in 1..last : more[k] = lines[k]
      /\ more[last + 1] = line
  BY <1>1
<1>3. MaxHeight \in Nat /\ HeightOf(line) \in Nat
  BY LinesFitOnPages
<1>4. heights \in [0..last -> 0..MaxHeight]
  BY DEF Heights
<1>5. end \in 0..MaxHeight
  BY <1>2, <1>3, <1>4
<1>6. PICK new : new = [k \in 0..(last + 1) |-> IF k <= last THEN heights[k] ELSE end]
  OBVIOUS
<1> HIDE DEF end
<1>7. \A k \in 0..last : new[k] = heights[k]
  BY <1>2, <1>6
<1>8. new[last + 1] = end
  BY <1>2, <1>6
<1>9. new \in [0..(last + 1) -> 0..MaxHeight]
  <2>1. \A k \in 0..(last + 1) : (IF k <= last THEN heights[k] ELSE end) \in 0..MaxHeight
    BY <1>2, <1>4, <1>5
  <2>2. QED
    BY <1>6, <2>1
<1>10. new[0] = 0
  BY <1>2, <1>7 DEF EndAt
<1>11. ASSUME NEW k \in 1..(last + 1)
       PROVE  new[k] = new[k - 1] + HeightOf(more[k])
  <2>1. CASE k = last + 1
    <3>1. k - 1 = last /\ new[last] = heights[last]
      BY <1>2, <1>7, <2>1
    <3>2. QED
      BY <1>2, <1>8, <2>1, <3>1 DEF end
  <2>2. CASE k # last + 1
    <3>1. k \in 1..last /\ k \in 0..last /\ k - 1 \in 0..last
      BY <1>2, <2>2
    <3>2. heights[k] = heights[k - 1] + HeightOf(lines[k])
      BY <3>1 DEF EndAt
    <3>3. QED
      BY <1>2, <1>7, <3>1, <3>2
  <2>3. QED
    BY <2>1, <2>2
<1>12. EndAt(more, new) /\ new \in Heights(more) /\ new[Len(more)] = end
  <2> HIDE DEF last
  <2>1. QED
    BY <1>2, <1>8, <1>9, <1>10, <1>11 DEF EndAt, Heights
<1>13. QED
  BY <1>1, <1>12 DEF end

\* The page on which nothing is drawn yet.
LEMMA EmptyPage ==
  /\ LinesWrap(<<>>)
  /\ \E heights \in Heights(<<>>) : EndAt(<<>>, heights) /\ heights[Len(<<>>)] = 0
<1>1. Len(<<>>) = 0 /\ MaxHeight \in Nat
  BY LinesFitOnPages
<1>2. PICK h : h = [k \in 0..0 |-> 0]
  OBVIOUS
<1>3. h \in Heights(<<>>) /\ EndAt(<<>>, h) /\ h[Len(<<>>)] = 0
  BY <1>1, <1>2 DEF Heights, EndAt
<1>4. QED
  BY <1>1, <1>3 DEF LinesWrap

LEMMA RenderInitInv ==
  ASSUME RenderInit
  PROVE  RenderInv
<1>1. /\ text \in Texts /\ body = text /\ layout = "wrap text" /\ placed = 0 /\ y = 0
      /\ wrapped = <<>> /\ sheet = <<>> /\ chunks = <<>> /\ drawn = <<>>
  BY DEF RenderInit
<1>2. wrapped = <<>> /\ placed = 0
  BY <1>1
<1>3. at = 1 /\ word = 1 /\ begun = 1
  BY DEF RenderInit
<1>4. text \in Seq(Lines) /\ text # <<>>
  BY <1>1, TextsHaveLines
<1>5. Len(text) \in Nat /\ Len(text) > 0 /\ text[1] \in Lines
  BY <1>4
<1>6. Len(text[1]) \in Nat
  BY <1>5, LineParts
<1>7. LinesTyped
  <2>1. <<>> \in Seq(Lines) /\ <<>> \in Seq(Seq(Lines))
    OBVIOUS
  <2>2. QED
    BY <1>1, <1>4, <2>1 DEF LinesTyped
<1>8. PlaceTyped
  <2>1. at \in 1..(Len(text) + 1)
    BY <1>3, <1>5
  <2>2. word \in 1..(Len(text[at]) + 1) /\ begun \in 1..word /\ ~(word > 1)
    BY <1>3, <1>6
  <2>3. QED
    BY <1>3, <1>1, <2>1, <2>2 DEF PlaceTyped
<1>9. Len(<<>>) = 0
  OBVIOUS
<1>10. RenderTyped
  <2>1. placed \in 0..Len(wrapped)
    <3>1. Len(wrapped) = 0
      BY <1>9, <1>2, Zenon
    <3>2. QED
      BY <1>2, <3>1
  <2>2. y \in Nat /\ layout \in {"wrap text", "paginate", "wrap chunk", "draw", "done"}
    BY <1>1
  <2>3. QED
    BY <1>7, <1>8, <2>1, <2>2 DEF RenderTyped
<1>11. TextIsWrapped
  <2>1. SubSeq(text, 1, 0) = <<>> /\ SubSeq(text[1], 1, 0) = <<>>
    BY SubSeqEmpty
  <2>2. <<>> \o <<>> = <<>>
    OBVIOUS
  <2>3. at - 1 = 0 /\ begun - 1 = 0 /\ at <= Len(text)
    BY <1>3, <1>5
  <2>4. QED
    <3>1. FlattenSeq(wrapped) = <<>> /\ FlattenSeq(SubSeq(text, 1, at - 1)) = <<>>
      BY <1>2, <2>1, <2>3, FlattenOfNone, Zenon
    <3>2. SubSeq(text[at], 1, begun - 1) = <<>>
      BY <1>3, <2>1, <2>3, Zenon
    <3>3. FlattenSeq(wrapped) = FlattenSeq(SubSeq(text, 1, at - 1))
             \o (IF at <= Len(text) THEN SubSeq(text[at], 1, begun - 1) ELSE <<>>)
      BY <2>2, <2>3, <3>1, <3>2, Zenon
    <3>4. QED
      BY <1>1, <3>3, Zenon DEF TextIsWrapped
<1>12. LineBegunWraps
  BY <1>3 DEF LineBegunWraps
<1>13. LinesWrap(wrapped)
  <2>1. Len(wrapped) = 0
    BY <1>9, <1>2, Zenon
  <2>2. QED
    BY <2>1 DEF LinesWrap
<1>14. QED
  BY <1>1, <1>10, <1>11, <1>12, <1>13 DEF RenderInv

TextIsInLine == layout = "wrap text" /\ at <= Len(body)

\* With the line that is begun, the text is wrapped up to the word that is next.
LEMMA LineBegunIsText ==
  ASSUME RenderInv, TextIsInLine
  PROVE  FlattenSeq(Append(wrapped, LineBegun))
           = FlattenSeq(SubSeq(text, 1, at - 1)) \o SubSeq(body[at], 1, word - 1)
<1> DEFINE line == body[at]
           before == FlattenSeq(SubSeq(text, 1, at - 1))
<1>1. /\ RenderTyped /\ LinesTyped /\ body = text
      /\ FlattenSeq(wrapped) = before \o SubSeq(line, 1, begun - 1)
  BY DEF RenderInv, RenderTyped, TextIsWrapped, TextIsInLine
<1>2. /\ at \in 1..Len(body) /\ line \in Seq(Words) /\ Len(line) \in Nat
      /\ word \in 1..(Len(line) + 1) /\ begun \in 1..word /\ LineBegun \in Lines
  BY <1>1, PlaceIsInBody DEF TextIsInLine
<1> HIDE DEF before, line
<1>3. PICK length, i, j : length = Len(line) /\ i = begun - 1 /\ j = word - 1
  OBVIOUS
<1>4. /\ length \in Nat /\ i \in Nat /\ j \in Nat /\ i <= j /\ j <= length
       /\ i + 1 = begun
  <2>1. Len(line) \in Nat /\ word \in 1..(Len(line) + 1) /\ begun \in 1..word
    BY <1>2
  <2>2. QED
    BY <1>3, <2>1
<1>5. Lines \subseteq Seq(Words)
  BY PartsAreLines
<1>6. before \in Seq(Words)
  <2>1. text \in Seq(Lines) /\ Len(text) \in Nat
    <3>1. text \in Seq(Lines)
      BY <1>1 DEF LinesTyped
    <3>2. QED
      BY <3>1
  <2>2. SubSeq(text, 1, at - 1) \in Seq(Lines)
    <3>1. PICK n : n = at - 1
      OBVIOUS
    <3>2. n \in 0..Len(text)
      <4>1. at \in 1..Len(body) /\ body = text /\ Len(text) \in Nat
        BY <1>1, <1>2, <2>1
      <4>2. QED
        BY <3>1, <4>1
    <3>3. QED
      BY <2>1, <3>1, <3>2, PrefixIsSeq
  <2>3. SubSeq(text, 1, at - 1) \in Seq(Seq(Words))
    BY <1>5, <2>2, SeqMonotonic
  <2>4. QED
    BY <2>3, FlattenIsSeq DEF before
<1>7. wrapped \in Seq(Seq(Words)) /\ LineBegun \in Seq(Words)
  <2>1. wrapped \in Seq(Lines)
    BY <1>1 DEF LinesTyped
  <2>2. QED
    BY <1>2, <1>5, <2>1, SeqMonotonic
<1>8. FlattenSeq(Append(wrapped, LineBegun)) = FlattenSeq(wrapped) \o LineBegun
  BY <1>7, FlattenAppend
<1>9. PICK middle : middle = SubSeq(line, 1, begun - 1)
  OBVIOUS
<1>10. line \in Seq(Words)
  BY <1>2
<1>11. middle \in Seq(Words)
  <2>1. i \in 0..Len(line)
    BY <1>3, <1>4
  <2>2. QED
    BY <1>9, <1>10, <1>3, <2>1, PrefixIsSeq
<1>12. middle \o LineBegun = SubSeq(line, 1, word - 1)
  <2>1. i \in 0..Len(line) /\ j \in 0..Len(line) /\ i <= j
    BY <1>3, <1>4
  <2>2. SubSeq(line, 1, i) \o SubSeq(line, i + 1, j) = SubSeq(line, 1, j)
    BY <1>10, <2>1, SplitInTwo
  <2>3. SubSeq(line, i + 1, j) = LineBegun
    BY <1>3, <1>4 DEF LineBegun, line
  <2>4. QED
    BY <1>9, <1>3, <2>2, <2>3
<1>13. (before \o middle) \o LineBegun = before \o (middle \o LineBegun)
  <2>1. LineBegun \in Seq(Words)
    BY <1>7
  <2>2. QED
    BY <1>6, <1>11, <2>1, ConcatAssociative
<1>14. QED
  BY <1>1, <1>8, <1>9, <1>12, <1>13 DEF before, line

\* A word goes on the line, or the line before it is complete.  A line of a chunk
\* takes all its words.
LEMMA PlaceWordKeepsInv ==
  ASSUME RenderInv, PlaceWord
  PROVE  RenderInv'
<1> DEFINE line == body[at]
           fits == begun = word \/ WidthOf(SubSeq(line, begun, word)) <= MaxWidth
<1>1. /\ RenderTyped /\ LineBegunWraps /\ LinesWrap(wrapped) /\ Wrapping /\ at <= Len(body)
      /\ word <= Len(line) /\ word' = word + 1
      /\ UNCHANGED <<text, layout, body, at, placed, y, sheet, chunks, drawn>>
      /\ fits => UNCHANGED <<begun, wrapped>>
      /\ ~fits => begun' = word /\ wrapped' = Append(wrapped, LineBegun)
  BY DEF RenderInv, PlaceWord, sheetVars
<1>2. /\ at \in 1..Len(body) /\ line \in Lines /\ line \in Seq(Words) /\ Len(line) \in Nat
      /\ word \in 1..Len(line) /\ begun \in 1..word /\ (word > 1 => begun < word)
      /\ LineBegun \in Lines /\ Wraps(LineBegun)
  BY <1>1, PlaceIsInBody, LineBegunIsWrapped
<1>3. LinesTyped /\ PlaceTyped /\ wrapped \in Seq(Lines) /\ placed \in 0..Len(wrapped)
  BY <1>1 DEF RenderTyped, LinesTyped
<1>4. /\ wrapped' \in Seq(Lines) /\ LinesWrap(wrapped') /\ placed \in 0..Len(wrapped')
  <2>1. CASE fits
    BY <1>1, <1>3, <2>1
  <2>2. CASE ~fits
    <3>1. wrapped' = Append(wrapped, LineBegun)
      BY <1>1, <2>2
    <3>2. wrapped' \in Seq(Lines) /\ LinesWrap(wrapped')
      BY <1>1, <1>2, <1>3, <3>1, OneLineMore
    <3>3. Len(wrapped') = Len(wrapped) + 1
      BY <1>3, <3>1
    <3>4. QED
      BY <1>3, <3>2, <3>3
  <2>3. QED
    BY <2>1, <2>2
<1>5. begun' \in 1..word' /\ begun' < word' /\ word' \in 1..(Len(line) + 1)
  BY <1>1, <1>2
<1>6. RenderTyped'
  <2>1. LinesTyped'
    BY <1>1, <1>3, <1>4 DEF LinesTyped
  <2>2. PlaceTyped'
    BY <1>1, <1>2, <1>5 DEF PlaceTyped
  <2>3. y \in Nat /\ layout \in {"wrap text", "paginate", "wrap chunk", "draw", "done"}
    BY <1>1 DEF RenderTyped
  <2>4. QED
    BY <1>1, <1>4, <2>1, <2>2, <2>3 DEF RenderTyped
<1>7. LineBegunWraps'
  <2>1. ASSUME NEW n \in (begun' + 1)..(word' - 1)
        PROVE  WidthOf(SubSeq(line, begun', n)) <= MaxWidth
    <3>1. CASE fits
      <4>1. begun' = begun /\ begun < n /\ n \in Nat /\ (n = word \/ n \in (begun + 1)..(word - 1))
        BY <1>1, <1>2, <3>1
      <4>2. QED
        BY <1>1, <1>2, <3>1, <4>1 DEF LineBegunWraps
    <3>2. CASE ~fits
      BY <1>1, <1>2, <3>2
    <3>3. QED
      BY <3>1, <3>2
  <2>2. QED
    BY <1>1, <2>1 DEF LineBegunWraps
<1>8. CASE layout = "wrap text"
  <2>1. /\ TextIsWrapped /\ body = text
        /\ FlattenSeq(wrapped) = FlattenSeq(SubSeq(text, 1, at - 1)) \o SubSeq(line, 1, begun - 1)
    BY <1>1, <1>8 DEF RenderInv, TextIsWrapped
  <2>2. FlattenSeq(wrapped') = FlattenSeq(SubSeq(text, 1, at - 1)) \o SubSeq(line, 1, begun' - 1)
    <3>1. CASE fits
      BY <1>1, <2>1, <3>1
    <3>2. CASE ~fits
      BY <1>1, <1>8, <3>2, LineBegunIsText DEF TextIsInLine
    <3>3. QED
      BY <3>1, <3>2
  <2>3. TextIsWrapped'
    BY <1>1, <2>1, <2>2 DEF TextIsWrapped
  <2>4. QED
    BY <1>1, <1>4, <1>6, <1>7, <1>8, <2>3 DEF RenderInv
<1>9. CASE layout = "wrap chunk"
  <2>1. /\ ChunksAreTheText /\ ChunkIsNext /\ ChunkIsWrapped /\ begun = 1
    BY <1>1, <1>9 DEF RenderInv, ChunkIsWrapped
  <2>2. Wraps(line)
    <3>1. /\ chunks \in Seq(Seq(Lines)) /\ drawn \in Seq(Seq(Lines))
          /\ Len(drawn) < Len(chunks) /\ body = chunks[Len(drawn) + 1]
      BY <1>3, <2>1 DEF LinesTyped, ChunkIsNext
    <3>2. Len(drawn) + 1 \in 1..Len(chunks)
      BY <3>1
    <3>3. LinesWrap(body)
      BY <2>1, <3>1, <3>2 DEF ChunksAreTheText, IsPage
    <3>4. QED
      BY <1>2, <3>3 DEF LinesWrap
  <2>3. fits
    BY <1>2, <2>1, <2>2 DEF Wraps
  <2>4. (ChunksAreTheText /\ ChunkIsNext /\ ChunkIsWrapped)'
    BY <1>1, <2>1, <2>3 DEF ChunksAreTheText, ChunkIsNext, ChunkIsWrapped
  <2>5. QED
    BY <1>1, <1>4, <1>6, <1>7, <1>9, <2>4 DEF RenderInv
<1>10. QED
  BY <1>1, <1>8, <1>9 DEF Wrapping

\* A whole line is behind the loop over the words.
LEMMA EndLineKeepsInv ==
  ASSUME RenderInv, EndLine
  PROVE  RenderInv'
<1> DEFINE line == body[at]
<1>1. /\ RenderTyped /\ LinesTyped /\ LineBegunWraps /\ LinesWrap(wrapped) /\ Wrapping
      /\ at <= Len(body) /\ word = Len(line) + 1
      /\ wrapped' = Append(wrapped, LineBegun)
      /\ at' = at + 1 /\ word' = 1 /\ begun' = 1
      /\ UNCHANGED <<text, layout, body, placed, y, sheet, chunks, drawn>>
  BY DEF RenderInv, RenderTyped, EndLine, sheetVars
<1>2. /\ at \in 1..Len(body) /\ line \in Lines /\ line \in Seq(Words) /\ Len(line) \in Nat
      /\ begun \in 1..word /\ LineBegun \in Lines /\ Wraps(LineBegun)
  BY <1>1, PlaceIsInBody, LineBegunIsWrapped
<1>3. wrapped \in Seq(Lines) /\ body \in Seq(Lines) /\ placed \in 0..Len(wrapped)
  BY <1>1 DEF RenderTyped, LinesTyped
<1>4. wrapped' \in Seq(Lines) /\ LinesWrap(wrapped') /\ placed \in 0..Len(wrapped')
  <2>1. wrapped' \in Seq(Lines) /\ LinesWrap(wrapped')
    BY <1>1, <1>2, <1>3, OneLineMore
  <2>2. Len(wrapped') = Len(wrapped) + 1
    BY <1>1, <1>2, <1>3
  <2>3. QED
    BY <1>3, <2>1, <2>2
<1>5. RenderTyped'
  <2>1. LinesTyped'
    BY <1>1, <1>4 DEF LinesTyped
  <2>2. PlaceTyped'
    <3>1. at' \in 1..(Len(body) + 1)
      BY <1>1, <1>2
    <3>2. ASSUME at' <= Len(body)
          PROVE  Len(body[at']) \in Nat
      <4>1. body[at'] \in Lines
        BY <1>3, <3>1, <3>2
      <4>2. QED
        BY <4>1, LineParts
    <3>3. ASSUME at' <= Len(body)
          PROVE  word' \in 1..(Len(body[at']) + 1) /\ begun' \in 1..word' /\ ~(word' > 1)
      BY <1>1, <3>2, <3>3
    <3>4. body' = body /\ begun' = 1 /\ word' = 1
      BY <1>1
    <3>5. QED
      BY <3>1, <3>3, <3>4 DEF PlaceTyped
  <2>3. y \in Nat /\ layout \in {"wrap text", "paginate", "wrap chunk", "draw", "done"}
    BY <1>1 DEF RenderTyped
  <2>4. QED
    BY <1>1, <1>4, <2>1, <2>2, <2>3 DEF RenderTyped
<1>6. LineBegunWraps'
  BY <1>1 DEF LineBegunWraps
<1>7. CASE layout = "wrap text"
  <2>1. PICK before : before = SubSeq(text, 1, at - 1)
    OBVIOUS
  <2>2. TextIsWrapped /\ body = text /\ text \in Seq(Lines)
    BY <1>1, <1>7 DEF RenderInv, TextIsWrapped, LinesTyped
  <2>3. FlattenSeq(wrapped') = FlattenSeq(before) \o line
    <3>1. FlattenSeq(wrapped') = FlattenSeq(before) \o SubSeq(line, 1, word - 1)
      BY <1>1, <1>7, <2>1, LineBegunIsText DEF TextIsInLine
    <3>2. word - 1 = Len(line)
      BY <1>1, <1>2
    <3>3. SubSeq(line, 1, Len(line)) = line
      BY <1>2, SubSeqFull
    <3>4. QED
      BY <3>1, <3>2, <3>3
  <2>4. SubSeq(text, 1, at) = Append(before, line)
    <3>1. PICK n : n = at
      OBVIOUS
    <3>2. SubSeq(text, 1, n) = Append(SubSeq(text, 1, n - 1), text[n])
      BY <1>2, <2>2, <3>1, PrefixStep
    <3>3. QED
      BY <2>1, <2>2, <3>1, <3>2
  <2>5. before \in Seq(Seq(Words))
    <3>1. PICK n : n = at - 1
      OBVIOUS
    <3>2. n \in 0..Len(text)
      BY <1>2, <2>2, <3>1
    <3>3. before \in Seq(Lines)
      BY <2>1, <2>2, <3>1, <3>2, PrefixIsSeq
    <3>4. Lines \subseteq Seq(Words)
      BY PartsAreLines
    <3>5. QED
      BY <3>3, <3>4, SeqMonotonic
  <2>6. FlattenSeq(SubSeq(text, 1, at)) = FlattenSeq(before) \o line
    BY <1>2, <2>4, <2>5, FlattenAppend
  <2>7. FlattenSeq(SubSeq(text, 1, at)) \in Seq(Words)
    <3>1. FlattenSeq(before) \in Seq(Words)
      BY <2>5, FlattenIsSeq
    <3>2. QED
      <4>1. PICK b : b = FlattenSeq(before)
        OBVIOUS
      <4>2. b \o line \in Seq(Words)
        BY <1>2, <3>1, <4>1
      <4>3. QED
        BY <2>6, <4>1, <4>2
  <2>8. (IF at' <= Len(text) THEN SubSeq(text[at'], 1, begun' - 1) ELSE <<>>) = <<>>
    <3>1. begun' - 1 = 0
      BY <1>1
    <3>2. SubSeq(text[at'], 1, 0) = <<>>
      BY SubSeqEmpty
    <3>3. QED
      BY <3>1, <3>2
  <2>9. FlattenSeq(wrapped') = FlattenSeq(SubSeq(text, 1, at)) \o <<>>
    <3>1. PICK all : all = FlattenSeq(SubSeq(text, 1, at))
      OBVIOUS
    <3>2. all \in Seq(Words)
      BY <2>7, <3>1
    <3>3. all \o <<>> = all
      BY <3>2
    <3>4. QED
      BY <2>3, <2>6, <3>1, <3>3
  <2>10. at' - 1 = at
    BY <1>1, <1>2
  <2>11. FlattenSeq(wrapped') = FlattenSeq(SubSeq(text, 1, at' - 1))
           \o (IF at' <= Len(text) THEN SubSeq(text[at'], 1, begun' - 1) ELSE <<>>)
    BY <2>8, <2>9, <2>10, Zenon
  <2>12. TextIsWrapped'
    BY <1>1, <2>2, <2>11 DEF TextIsWrapped
  <2>13. QED
    BY <1>1, <1>4, <1>5, <1>6, <1>7, <2>12 DEF RenderInv
<1>8. CASE layout = "wrap chunk"
  <2>1. ChunksAreTheText /\ ChunkIsNext /\ ChunkIsWrapped
    BY <1>8 DEF RenderInv
  <2>2. LineBegun = line
    <3>1. begun = 1 /\ word - 1 = Len(line)
      BY <1>1, <1>2, <2>1 DEF ChunkIsWrapped
    <3>2. SubSeq(line, 1, Len(line)) = line
      BY <1>2, SubSeqFull
    <3>3. QED
      BY <3>1, <3>2 DEF LineBegun
  <2>3. wrapped' = SubSeq(body, 1, at)
    <3>1. PICK n : n = at
      OBVIOUS
    <3>2. SubSeq(body, 1, n) = Append(SubSeq(body, 1, n - 1), body[n])
      BY <1>2, <1>3, <3>1, PrefixStep
    <3>3. QED
      BY <1>1, <2>1, <2>2, <3>1, <3>2 DEF ChunkIsWrapped
  <2>4. at' - 1 = at
    BY <1>1, <1>2
  <2>5. ChunkIsWrapped'
    BY <1>1, <2>1, <2>3, <2>4 DEF ChunkIsWrapped
  <2>6. (ChunksAreTheText /\ ChunkIsNext)'
    BY <1>1, <2>1 DEF ChunksAreTheText, ChunkIsNext
  <2>7. QED
    BY <1>1, <1>4, <1>5, <1>6, <1>8, <2>5, <2>6 DEF RenderInv
<1>9. QED
  BY <1>1, <1>7, <1>8 DEF Wrapping

\* Everything is wrapped: the text goes to the loop that makes pages of it, a chunk
\* to the loop that draws it.
LEMMA EndWrappingKeepsInv ==
  ASSUME RenderInv, EndWrapping
  PROVE  RenderInv'
<1>1. /\ RenderTyped /\ LinesTyped /\ LineBegunWraps /\ LinesWrap(wrapped) /\ Wrapping
      /\ at = Len(body) + 1
      /\ layout' = IF layout = "wrap text" THEN "paginate" ELSE "draw"
      /\ UNCHANGED <<text, body, at, word, begun, wrapped, placed, y, sheet, chunks, drawn>>
  BY DEF RenderInv, RenderTyped, EndWrapping, wrapVars, sheetVars
<1>2. body \in Seq(Lines) /\ Len(body) \in Nat /\ ~(at <= Len(body)) /\ at - 1 = Len(body)
  <2>1. body \in Seq(Lines)
    BY <1>1 DEF LinesTyped
  <2>2. Len(body) \in Nat
    BY <2>1
  <2>3. at = Len(body) + 1
    BY <1>1
  <2>4. QED
    BY <2>1, <2>2, <2>3
<1>3. RenderTyped' /\ LineBegunWraps' /\ LinesWrap(wrapped')
  <2>1. LinesTyped'
    BY <1>1 DEF LinesTyped
  <2>2. PlaceTyped'
    BY <1>1 DEF RenderTyped, PlaceTyped
  <2>3. layout' \in {"wrap text", "paginate", "wrap chunk", "draw", "done"}
    BY <1>1
  <2>4. placed \in 0..Len(wrapped) /\ y \in Nat
    BY <1>1 DEF RenderTyped
  <2>5. RenderTyped'
    BY <1>1, <2>1, <2>2, <2>3, <2>4 DEF RenderTyped
  <2>6. LineBegunWraps' /\ LinesWrap(wrapped')
    BY <1>1 DEF LineBegunWraps
  <2>7. QED
    BY <2>5, <2>6
<1>4. SubSeq(body, 1, at - 1) = body
  BY <1>2, SubSeqFull
<1>5. CASE layout = "wrap text"
  <2>1. TextIsWrapped /\ body = text /\ layout' = "paginate"
    BY <1>1, <1>5 DEF RenderInv, TextIsWrapped
  <2>2. FlattenSeq(wrapped) = FlattenSeq(text)
    <3>1. FlattenSeq(wrapped) = FlattenSeq(text) \o <<>>
      BY <1>2, <1>4, <2>1 DEF TextIsWrapped
    <3>2. Lines \subseteq Seq(Words)
      BY PartsAreLines
    <3>3. text \in Seq(Seq(Words))
      BY <1>2, <2>1, <3>2, SeqMonotonic
    <3>4. PICK all : all = FlattenSeq(text)
      OBVIOUS
    <3>5. all \in Seq(Words)
      BY <3>3, <3>4, FlattenIsSeq
    <3>6. all \o <<>> = all
      BY <3>5
    <3>7. QED
      BY <3>1, <3>4, <3>6
  <2>3. FlattenSeq(chunks) \o sheet = SubSeq(wrapped, 1, placed)
    <3>1. chunks = <<>> /\ sheet = <<>> /\ placed = 0
      BY <2>1 DEF TextIsWrapped
    <3>2. SubSeq(wrapped, 1, 0) = <<>> /\ <<>> \o <<>> = <<>>
      BY SubSeqEmpty
    <3>3. QED
      BY <3>1, <3>2, FlattenOfNone, Zenon
  <2>4. \A c \in 1..Len(chunks) : IsPage(chunks[c])
    <3>1. chunks = <<>> /\ Len(<<>>) = 0
      BY <2>1 DEF TextIsWrapped
    <3>2. QED
      BY <3>1
  <2>5. LinesWrap(sheet) /\ \E heights \in Heights(sheet) :
          EndAt(sheet, heights) /\ heights[Len(sheet)] = y
    <3>1. sheet = <<>> /\ y = 0
      BY <2>1 DEF TextIsWrapped
    <3>2. QED
      BY <3>1, EmptyPage, Zenon
  <2>6. drawn = <<>>
    BY <2>1 DEF TextIsWrapped
  <2>7. TextIsPaginated
    BY <2>2, <2>3, <2>4, <2>5, <2>6 DEF TextIsPaginated
  <2>8. TextIsPaginated'
    BY <1>1, <2>7 DEF TextIsPaginated
  <2>9. QED
    BY <1>3, <2>1, <2>8 DEF RenderInv
<1>6. CASE layout = "wrap chunk"
  <2>1. ChunksAreTheText /\ ChunkIsNext /\ ChunkIsWrapped /\ layout' = "draw"
    BY <1>1, <1>6 DEF RenderInv
  <2>2. wrapped = body /\ sheet = <<>> /\ placed = 0 /\ y = 0
    BY <1>4, <2>1 DEF ChunkIsWrapped
  <2>3. \E heights \in Heights(body) : EndAt(body, heights)
    <3>1. /\ chunks \in Seq(Seq(Lines)) /\ drawn \in Seq(Seq(Lines))
          /\ Len(drawn) < Len(chunks) /\ body = chunks[Len(drawn) + 1]
      BY <1>1, <2>1 DEF LinesTyped, ChunkIsNext
    <3>2. Len(drawn) + 1 \in 1..Len(chunks)
      BY <3>1
    <3>3. QED
      BY <2>1, <3>1, <3>2 DEF ChunksAreTheText, IsPage
  <2>4. PICK heights \in Heights(body) : EndAt(body, heights)
    BY <2>3
  <2>5. y = heights[placed]
    BY <2>2, <2>4 DEF EndAt
  <2>6. sheet = SubSeq(body, 1, placed)
    <3>1. SubSeq(body, 1, 0) = <<>>
      BY SubSeqEmpty
    <3>2. QED
      BY <2>2, <3>1
  <2>7. ChunkIsDrawn
    BY <2>2, <2>4, <2>5, <2>6 DEF ChunkIsDrawn
  <2>8. ChunkIsDrawn'
    BY <1>1, <2>7 DEF ChunkIsDrawn
  <2>9. (ChunksAreTheText /\ ChunkIsNext)'
    BY <1>1, <2>1 DEF ChunksAreTheText, ChunkIsNext
  <2>10. QED
    BY <1>3, <2>1, <2>8, <2>9 DEF RenderInv
<1>7. QED
  BY <1>1, <1>5, <1>6 DEF Wrapping

\* A page starts with nothing on it, and with none of its lines wrapped.
LEMMA PageStarts ==
  ASSUME NEW chunk \in Seq(Lines), StartPage(chunk), LinesTyped'
  PROVE  (RenderTyped /\ LineBegunWraps /\ LinesWrap(wrapped) /\ ChunkIsWrapped)'
<1>1. /\ layout' = "wrap chunk" /\ body' = chunk /\ wrapped' = <<>>
      /\ placed' = 0 /\ y' = 0 /\ sheet' = <<>>
  BY DEF StartPage
<1>2. at' = 1 /\ word' = 1 /\ begun' = 1
  BY DEF StartPage
<1>3. Len(<<>>) = 0 /\ Len(chunk) \in Nat
  OBVIOUS
<1>4. Len(wrapped') = 0
  BY <1>1, <1>3, Zenon
<1>5. PlaceTyped'
  <2>1. at' \in 1..(Len(chunk) + 1)
    BY <1>2, <1>3
  <2>2. ASSUME at' <= Len(chunk)
        PROVE  word' \in 1..(Len(chunk[at']) + 1) /\ begun' \in 1..word' /\ ~(word' > 1)
    <3>1. chunk[1] \in Lines
      BY <1>2, <1>3, <2>2
    <3>2. Len(chunk[1]) \in Nat
      BY <3>1, LineParts
    <3>3. QED
      BY <1>2, <3>2
  <2>3. QED
    BY <1>1, <1>2, <2>1, <2>2 DEF PlaceTyped
<1>6. RenderTyped'
  <2>1. placed' \in 0..Len(wrapped') /\ y' \in Nat
    <3>1. placed' = 0 /\ y' = 0
      BY <1>1
    <3>2. QED
      BY <1>4, <3>1
  <2>2. layout' \in {"wrap text", "paginate", "wrap chunk", "draw", "done"}
    BY <1>1
  <2>3. QED
    BY <1>5, <2>1, <2>2 DEF RenderTyped
<1>7. LineBegunWraps' /\ LinesWrap(wrapped')
  BY <1>2, <1>4 DEF LineBegunWraps, LinesWrap
<1>8. ChunkIsWrapped'
  <2>1. at' - 1 = 0
    BY <1>2
  <2>2. SubSeq(body', 1, 0) = <<>>
    BY SubSeqEmpty
  <2>3. wrapped' = SubSeq(body', 1, at' - 1)
    BY <1>1, <2>1, <2>2
  <2>4. QED
    BY <1>1, <1>2, <2>3 DEF ChunkIsWrapped
<1>9. QED
  BY <1>6, <1>7, <1>8

\* The next line goes on the page or starts another, and fits where it goes.
LEMMA PaginateLineKeepsInv ==
  ASSUME RenderInv, PaginateLine
  PROVE  RenderInv'
<1> DEFINE line == wrapped[placed + 1]
           full == sheet # <<>> /\ y + HeightOf(line) > MaxHeight
<1>1. /\ RenderTyped /\ LineBegunWraps /\ LinesWrap(wrapped) /\ TextIsPaginated
      /\ layout = "paginate" /\ placed < Len(wrapped) /\ placed' = placed + 1
      /\ UNCHANGED <<text, layout, body, at, word, begun, wrapped, drawn>>
  BY DEF RenderInv, PaginateLine, wrapVars
<1>2. /\ full => chunks' = Append(chunks, sheet) /\ sheet' = <<line>> /\ y' = HeightOf(line)
      /\ ~full => /\ sheet' = Append(sheet, line) /\ y' = y + HeightOf(line)
                  /\ chunks' = chunks
  BY DEF PaginateLine
<1>3. LinesTyped /\ PlaceTyped /\ placed \in 0..Len(wrapped) /\ y \in Nat
  BY <1>1 DEF RenderTyped
<1>4. wrapped \in Seq(Lines) /\ sheet \in Seq(Lines) /\ chunks \in Seq(Seq(Lines))
  BY <1>3 DEF LinesTyped
<1>5. Len(wrapped) \in Nat
  BY <1>4
<1>6. placed + 1 \in 1..Len(wrapped) /\ placed' \in 0..Len(wrapped)
  BY <1>1, <1>3, <1>5
<1>7. line \in Lines /\ Wraps(line)
  BY <1>1, <1>4, <1>6 DEF LinesWrap
<1>8. PICK height : height = HeightOf(line)
  OBVIOUS
<1>9. MaxHeight \in Nat /\ height \in 0..MaxHeight
  BY <1>7, <1>8, LinesFitOnPages
<1>10. /\ FlattenSeq(chunks) \o sheet = SubSeq(wrapped, 1, placed)
       /\ \A c \in 1..Len(chunks) : IsPage(chunks[c])
       /\ LinesWrap(sheet)
  BY <1>1 DEF TextIsPaginated
<1>11. PICK heights \in Heights(sheet) : EndAt(sheet, heights) /\ heights[Len(sheet)] = y
  BY <1>1 DEF TextIsPaginated
<1>12. SubSeq(wrapped, 1, placed') = Append(SubSeq(wrapped, 1, placed), line)
  <2>1. PICK n : n = placed + 1
    OBVIOUS
  <2>2. SubSeq(wrapped, 1, n) = Append(SubSeq(wrapped, 1, n - 1), wrapped[n])
    BY <1>4, <1>6, <2>1, PrefixStep
  <2>3. n - 1 = placed
    BY <1>3, <1>5, <2>1
  <2>4. QED
    BY <1>1, <2>1, <2>2, <2>3
<1>13. FlattenSeq(chunks) \in Seq(Lines)
  BY <1>4, FlattenIsSeq
<1>14. /\ sheet' \in Seq(Lines) /\ chunks' \in Seq(Seq(Lines)) /\ y' \in Nat
       /\ LinesWrap(sheet') /\ \A c \in 1..Len(chunks') : IsPage(chunks'[c])
       /\ \E new \in Heights(sheet') : EndAt(sheet', new) /\ new[Len(sheet')] = y'
       /\ FlattenSeq(chunks') \o sheet' = SubSeq(wrapped, 1, placed')
  <2>1. CASE full
    <3>1. chunks' = Append(chunks, sheet) /\ sheet' = <<line>> /\ y' = height
      BY <1>2, <1>8, <2>1
    <3>2. PICK none : none = <<>>
      OBVIOUS
    <3>3. none \in Seq(Lines) /\ LinesWrap(none) /\ sheet' = Append(none, line)
      <4>1. <<>> \in Seq(Lines) /\ Append(<<>>, line) = <<line>>
        OBVIOUS
      <4>2. QED
        BY <3>1, <3>2, <4>1, EmptyPage
    <3>4. PICK start \in Heights(none) : EndAt(none, start) /\ start[Len(none)] = 0
      BY <3>2, EmptyPage
    <3>5. start[Len(none)] + height <= MaxHeight /\ start[Len(none)] + height = y'
      BY <1>9, <3>1, <3>4
    <3>6. \E new \in Heights(sheet') : EndAt(sheet', new) /\ new[Len(sheet')] = y'
      BY <1>7, <1>8, <3>3, <3>4, <3>5, HeightOfOneMore
    <3>7. sheet' \in Seq(Lines) /\ LinesWrap(sheet')
      BY <1>7, <3>3, OneLineMore
    <3>8. y' \in Nat
      BY <1>9, <3>1
    <3>9. chunks' \in Seq(Seq(Lines))
      BY <1>4, <3>1
    <3>10. IsPage(sheet)
      BY <1>10, <1>11 DEF IsPage
    <3>11. ASSUME NEW c \in 1..Len(chunks')
           PROVE  IsPage(chunks'[c])
      BY <1>4, <1>10, <3>1, <3>10
    <3>12. FlattenSeq(chunks') \o sheet' = SubSeq(wrapped, 1, placed')
      <4>1. FlattenSeq(chunks') = SubSeq(wrapped, 1, placed)
        BY <1>4, <1>10, <3>1, FlattenAppend
      <4>2. PICK before : before = SubSeq(wrapped, 1, placed)
        OBVIOUS
      <4>3. before \in Seq(Lines)
        BY <1>3, <1>4, <4>2, PrefixIsSeq
      <4>4. before \o <<line>> = Append(before, line)
        BY <1>7, <4>3
      <4>5. QED
        BY <1>12, <3>1, <4>1, <4>2, <4>4
    <3>13. QED
      BY <3>6, <3>7, <3>8, <3>9, <3>11, <3>12
  <2>2. CASE ~full
    <3>1. chunks' = chunks /\ sheet' = Append(sheet, line) /\ y' = y + height
      BY <1>2, <1>8, <2>2
    <3>2. y + height <= MaxHeight
      <4>1. CASE sheet = <<>>
        <5>1. heights[0] = 0 /\ Len(<<>>) = 0
          BY <1>11 DEF EndAt
        <5>2. y = 0
          BY <1>11, <4>1, <5>1
        <5>3. QED
          BY <1>9, <5>2
      <4>2. CASE ~(y + height > MaxHeight)
        BY <1>3, <1>9, <4>2
      <4>3. QED
        BY <1>8, <2>2, <4>1, <4>2
    <3>3. \E new \in Heights(sheet') : EndAt(sheet', new) /\ new[Len(sheet')] = y'
      BY <1>4, <1>7, <1>8, <1>11, <3>1, <3>2, HeightOfOneMore
    <3>4. sheet' \in Seq(Lines) /\ LinesWrap(sheet')
      BY <1>4, <1>7, <1>10, <3>1, OneLineMore
    <3>5. y' \in Nat
      BY <1>3, <1>9, <3>1
    <3>6. FlattenSeq(chunks') \o sheet' = SubSeq(wrapped, 1, placed')
      <4>1. FlattenSeq(chunks) \o Append(sheet, line) = Append(FlattenSeq(chunks) \o sheet, line)
        BY <1>4, <1>7, <1>13, ConcatAppend
      <4>2. QED
        BY <1>10, <1>12, <3>1, <4>1
    <3>7. QED
      BY <1>4, <1>10, <3>1, <3>3, <3>4, <3>5, <3>6
  <2>3. QED
    BY <2>1, <2>2
<1>15. RenderTyped'
  <2>1. LinesTyped'
    BY <1>1, <1>3, <1>14 DEF LinesTyped
  <2>2. PlaceTyped'
    BY <1>1, <1>3 DEF PlaceTyped
  <2>3. layout' \in {"wrap text", "paginate", "wrap chunk", "draw", "done"}
    BY <1>1
  <2>4. placed' \in 0..Len(wrapped') /\ y' \in Nat
    BY <1>1, <1>6, <1>14
  <2>5. QED
    BY <2>1, <2>2, <2>3, <2>4 DEF RenderTyped
<1>16. LineBegunWraps' /\ LinesWrap(wrapped')
  BY <1>1 DEF LineBegunWraps
<1>17. TextIsPaginated'
  <2>1. drawn = <<>> /\ FlattenSeq(wrapped) = FlattenSeq(text)
    BY <1>1 DEF TextIsPaginated
  <2>2. QED
    BY <1>1, <1>14, <2>1 DEF TextIsPaginated
<1>18. QED
  BY <1>1, <1>15, <1>16, <1>17 DEF RenderInv

\* The last page is a page as well: together the pages hold the text.
LEMMA EndPaginationKeepsInv ==
  ASSUME RenderInv, EndPagination
  PROVE  RenderInv'
<1>1. /\ RenderTyped /\ TextIsPaginated /\ placed = Len(wrapped)
      /\ chunks' = Append(chunks, sheet) /\ StartPage(chunks'[1])
      /\ text' = text /\ drawn' = drawn
  BY DEF RenderInv, EndPagination
<1>2. LinesTyped
  BY <1>1 DEF RenderTyped
<1>3. wrapped \in Seq(Lines) /\ sheet \in Seq(Lines) /\ chunks \in Seq(Seq(Lines))
  BY <1>2 DEF LinesTyped
<1>4. drawn = <<>> /\ FlattenSeq(wrapped) = FlattenSeq(text)
  BY <1>1 DEF TextIsPaginated
<1>5. /\ chunks' \in Seq(Seq(Lines)) /\ Len(chunks') = Len(chunks) + 1 /\ Len(chunks) \in Nat
      /\ \A c \in 1..Len(chunks) : chunks'[c] = chunks[c]
      /\ chunks'[Len(chunks) + 1] = sheet
  BY <1>1, <1>3
<1>6. PICK chunk : chunk = chunks'[1]
  OBVIOUS
<1>7. chunk \in Seq(Lines) /\ StartPage(chunk)
  BY <1>1, <1>5, <1>6
<1>8. /\ body' = chunk /\ wrapped' = <<>> /\ sheet' = <<>> /\ layout' = "wrap chunk"
  BY <1>7 DEF StartPage
<1>9. LinesTyped'
  <2>1. <<>> \in Seq(Lines) /\ drawn' \in Seq(Seq(Lines)) /\ text' \in Seq(Lines)
    BY <1>1, <1>2 DEF LinesTyped
  <2>2. QED
    BY <1>5, <1>7, <1>8, <2>1 DEF LinesTyped
<1>10. (RenderTyped /\ LineBegunWraps /\ LinesWrap(wrapped) /\ ChunkIsWrapped)'
  BY <1>7, <1>9, PageStarts
<1>11. IsPage(sheet)
  BY <1>1 DEF TextIsPaginated, IsPage
<1>12. ASSUME NEW c \in 1..Len(chunks')
       PROVE  IsPage(chunks'[c])
  <2>1. \A d \in 1..Len(chunks) : IsPage(chunks[d])
    BY <1>1 DEF TextIsPaginated
  <2>2. c \in 1..Len(chunks) \/ c = Len(chunks) + 1
    BY <1>5, <1>12
  <2>3. QED
    BY <1>5, <1>11, <2>1, <2>2
<1>13. FlattenSeq(chunks') = wrapped
  <2>1. FlattenSeq(Append(chunks, sheet)) = FlattenSeq(chunks) \o sheet
    BY <1>3, FlattenAppend
  <2>2. FlattenSeq(chunks) \o sheet = SubSeq(wrapped, 1, Len(wrapped))
    BY <1>1 DEF TextIsPaginated
  <2>3. SubSeq(wrapped, 1, Len(wrapped)) = wrapped
    BY <1>3, SubSeqFull
  <2>4. QED
    BY <1>1, <2>1, <2>2, <2>3
<1>14. ChunksAreTheText'
  BY <1>1, <1>4, <1>12, <1>13 DEF ChunksAreTheText
<1>15. ChunkIsNext'
  <2>1. Len(<<>>) = 0 /\ drawn' = <<>>
    BY <1>1, <1>4
  <2>2. Len(drawn') = 0
    BY <2>1, Zenon
  <2>3. SubSeq(chunks', 1, 0) = <<>>
    BY SubSeqEmpty
  <2>4. drawn' = SubSeq(chunks', 1, Len(drawn'))
    BY <2>1, <2>2, <2>3
  <2>5. Len(drawn') < Len(chunks') /\ Len(drawn') + 1 = 1
    BY <1>5, <2>2
  <2>6. QED
    BY <1>6, <1>8, <2>4, <2>5 DEF ChunkIsNext
<1>16. QED
  BY <1>8, <1>10, <1>14, <1>15 DEF RenderInv

\* A line of a chunk ends on its page where it ended when the text was divided.
LEMMA DrawLineKeepsInv ==
  ASSUME RenderInv, DrawLine
  PROVE  RenderInv'
<1> DEFINE line == wrapped[placed + 1]
<1>1. /\ RenderTyped /\ LineBegunWraps /\ LinesWrap(wrapped)
      /\ ChunksAreTheText /\ ChunkIsNext /\ ChunkIsDrawn
      /\ layout = "draw" /\ placed < Len(wrapped) /\ placed' = placed + 1
      /\ sheet' = Append(sheet, line) /\ y' = y + HeightOf(line)
      /\ UNCHANGED <<text, layout, body, at, word, begun, wrapped, chunks, drawn>>
  BY DEF RenderInv, DrawLine, wrapVars
<1>2. LinesTyped /\ PlaceTyped /\ placed \in 0..Len(wrapped) /\ y \in Nat
  BY <1>1 DEF RenderTyped
<1>3. wrapped \in Seq(Lines) /\ sheet \in Seq(Lines) /\ body \in Seq(Lines)
  BY <1>2 DEF LinesTyped
<1>4. Len(wrapped) \in Nat
  BY <1>3
<1>5. placed + 1 \in 1..Len(wrapped) /\ placed' \in 0..Len(wrapped)
  BY <1>1, <1>2, <1>4
<1>6. line \in Lines
  BY <1>3, <1>5
<1>7. wrapped = body /\ sheet = SubSeq(body, 1, placed)
  BY <1>1 DEF ChunkIsDrawn
<1>8. PICK heights \in Heights(body) : EndAt(body, heights) /\ y = heights[placed]
  BY <1>1 DEF ChunkIsDrawn
<1>9. y' = heights[placed'] /\ y' \in Nat
  <2>1. PICK n : n = placed + 1
    OBVIOUS
  <2>2. n \in 1..Len(body) /\ n - 1 = placed
    BY <1>2, <1>4, <1>5, <1>7, <2>1
  <2>3. heights[n] = heights[n - 1] + HeightOf(body[n])
    BY <1>8, <2>2 DEF EndAt
  <2>4. y' = heights[n]
    BY <1>1, <1>7, <1>8, <2>1, <2>2, <2>3
  <2>5. heights[n] \in Nat
    <3>1. heights \in [0..Len(body) -> 0..MaxHeight] /\ MaxHeight \in Nat
      BY <1>8, LinesFitOnPages DEF Heights
    <3>2. n \in 0..Len(body)
      BY <2>2
    <3>3. QED
      BY <3>1, <3>2
  <2>6. QED
    BY <1>1, <2>1, <2>4, <2>5
<1>10. sheet' = SubSeq(body, 1, placed') /\ sheet' \in Seq(Lines)
  <2>1. PICK n : n = placed + 1
    OBVIOUS
  <2>2. n \in 1..Len(body) /\ n - 1 = placed
    BY <1>2, <1>4, <1>5, <1>7, <2>1
  <2>3. SubSeq(body, 1, n) = Append(SubSeq(body, 1, n - 1), body[n])
    BY <1>3, <2>2, PrefixStep
  <2>4. Append(sheet, line) \in Seq(Lines)
    BY <1>3, <1>6
  <2>5. QED
    BY <1>1, <1>7, <2>1, <2>2, <2>3, <2>4
<1>11. RenderTyped'
  <2>1. LinesTyped'
    BY <1>1, <1>2, <1>10 DEF LinesTyped
  <2>2. PlaceTyped'
    BY <1>1, <1>2 DEF PlaceTyped
  <2>3. layout' \in {"wrap text", "paginate", "wrap chunk", "draw", "done"}
    BY <1>1
  <2>4. placed' \in 0..Len(wrapped') /\ y' \in Nat
    BY <1>1, <1>5, <1>9
  <2>5. QED
    BY <2>1, <2>2, <2>3, <2>4 DEF RenderTyped
<1>12. LineBegunWraps' /\ LinesWrap(wrapped')
  BY <1>1 DEF LineBegunWraps
<1>13. ChunkIsDrawn'
  BY <1>1, <1>7, <1>8, <1>9, <1>10 DEF ChunkIsDrawn
<1>14. (ChunksAreTheText /\ ChunkIsNext)'
  BY <1>1 DEF ChunksAreTheText, ChunkIsNext
<1>15. QED
  BY <1>1, <1>11, <1>12, <1>13, <1>14 DEF RenderInv

\* A page never ends before its chunk does: every line of the chunk fits.
LEMMA EveryLineFits ==
  ASSUME RenderInv, EndPage
  PROVE  sheet = body
<1>1. /\ LinesTyped /\ ChunkIsDrawn /\ placed \in 0..Len(wrapped)
      /\ placed < Len(wrapped) => ~FitsOnPage(wrapped[placed + 1])
  BY DEF RenderInv, RenderTyped, EndPage
<1>2. body \in Seq(Lines) /\ wrapped = body /\ sheet = SubSeq(body, 1, placed)
  BY <1>1 DEF LinesTyped, ChunkIsDrawn
<1>3. PICK heights \in Heights(body) : EndAt(body, heights) /\ y = heights[placed]
  BY <1>1 DEF ChunkIsDrawn
<1>4. Len(body) \in Nat
  BY <1>2
<1>5. PICK n : n = placed
  OBVIOUS
<1>6. n \in 0..Len(body)
  BY <1>1, <1>2, <1>5
<1>7. n = Len(body)
  <2>1. SUFFICES ASSUME n < Len(body)
                 PROVE  FALSE
    BY <1>4, <1>6
  <2>2. n + 1 \in 1..Len(body) /\ n + 1 \in 0..Len(body) /\ (n + 1) - 1 = n
    BY <1>4, <1>6, <2>1
  <2>3. heights[n + 1] = heights[n] + HeightOf(body[n + 1])
    BY <1>3, <2>2 DEF EndAt
  <2>4. heights[n + 1] <= MaxHeight
    <3>1. heights \in [0..Len(body) -> 0..MaxHeight] /\ MaxHeight \in Nat
      BY <1>3, LinesFitOnPages DEF Heights
    <3>2. heights[n + 1] \in 0..MaxHeight
      BY <2>2, <3>1
    <3>3. QED
      BY <3>1, <3>2
  <2>5. FitsOnPage(body[n + 1])
    BY <1>3, <1>5, <2>3, <2>4 DEF FitsOnPage
  <2>6. QED
    BY <1>1, <1>2, <1>5, <2>1, <2>5
<1>8. SubSeq(body, 1, Len(body)) = body
  BY <1>2, SubSeqFull
<1>9. QED
  BY <1>2, <1>5, <1>7, <1>8

\* The page is its chunk, and the next chunk is wrapped, or all are drawn.
LEMMA EndPageKeepsInv ==
  ASSUME RenderInv, EndPage
  PROVE  RenderInv'
<1>1. /\ RenderTyped /\ LineBegunWraps /\ LinesWrap(wrapped)
      /\ ChunksAreTheText /\ ChunkIsNext
      /\ drawn' = Append(drawn, sheet) /\ text' = text /\ chunks' = chunks
  BY DEF RenderInv, EndPage
<1>2. \/ Len(drawn') = Len(chunks) /\ layout' = "done" /\ UNCHANGED <<wrapVars, sheetVars>>
      \/ Len(drawn') # Len(chunks) /\ StartPage(chunks[Len(drawn') + 1])
  BY DEF EndPage
<1>3. LinesTyped /\ chunks \in Seq(Seq(Lines)) /\ drawn \in Seq(Seq(Lines)) /\ sheet \in Seq(Lines)
  BY <1>1 DEF RenderTyped, LinesTyped
<1>4. PICK n : n = Len(drawn)
  OBVIOUS
<1>5. /\ n \in Nat /\ Len(chunks) \in Nat /\ n < Len(chunks)
      /\ drawn = SubSeq(chunks, 1, n) /\ sheet = chunks[n + 1]
  <2>1. n \in Nat /\ Len(chunks) \in Nat
    BY <1>3, <1>4
  <2>2. n < Len(chunks) /\ drawn = SubSeq(chunks, 1, n) /\ body = chunks[n + 1]
    BY <1>1, <1>4 DEF ChunkIsNext
  <2>3. QED
    BY <2>1, <2>2, EveryLineFits
<1>6. Len(drawn') = n + 1 /\ drawn' \in Seq(Seq(Lines))
  BY <1>1, <1>3, <1>4
<1>7. drawn' = SubSeq(chunks, 1, n + 1)
  <2>1. n + 1 \in 1..Len(chunks) /\ (n + 1) - 1 = n
    BY <1>5
  <2>2. SubSeq(chunks, 1, n + 1) = Append(SubSeq(chunks, 1, (n + 1) - 1), chunks[n + 1])
    BY <1>3, <2>1, PrefixStep
  <2>3. QED
    BY <1>1, <1>5, <2>1, <2>2
<1>8. ChunksAreTheText'
  BY <1>1 DEF ChunksAreTheText
<1>9. CASE Len(drawn') = Len(chunks) /\ layout' = "done" /\ UNCHANGED <<wrapVars, sheetVars>>
  <2>1. UNCHANGED <<body, at, word, begun, wrapped>> /\ UNCHANGED <<placed, y, sheet>>
    BY <1>9 DEF wrapVars, sheetVars
  <2>2. LinesTyped'
    BY <1>1, <1>3, <1>6, <2>1 DEF LinesTyped
  <2>3. PlaceTyped'
    BY <1>1, <2>1 DEF RenderTyped, PlaceTyped
  <2>4. layout' \in {"wrap text", "paginate", "wrap chunk", "draw", "done"}
    BY <1>9
  <2>5. placed \in 0..Len(wrapped) /\ y \in Nat
    BY <1>1 DEF RenderTyped
  <2>6. RenderTyped'
    BY <2>1, <2>2, <2>3, <2>4, <2>5 DEF RenderTyped
  <2>7. LineBegunWraps' /\ LinesWrap(wrapped')
    BY <1>1, <2>1 DEF LineBegunWraps
  <2>8. drawn' = chunks'
    <3>1. SubSeq(chunks, 1, Len(chunks)) = chunks
      BY <1>3, SubSeqFull
    <3>2. QED
      BY <1>1, <1>6, <1>7, <1>9, <3>1
  <2>9. QED
    BY <1>8, <1>9, <2>6, <2>7, <2>8 DEF RenderInv
<1>10. CASE Len(drawn') # Len(chunks) /\ StartPage(chunks[Len(drawn') + 1])
  <2>1. PICK chunk : chunk = chunks[Len(drawn') + 1]
    OBVIOUS
  <2>2. Len(drawn') < Len(chunks) /\ (n + 1) + 1 \in 1..Len(chunks)
    BY <1>5, <1>6, <1>10
  <2>3. chunk \in Seq(Lines)
    BY <1>3, <1>6, <2>1, <2>2
  <2>4. StartPage(chunk)
    BY <1>10, <2>1
  <2>5. body' = chunk /\ wrapped' = <<>> /\ sheet' = <<>> /\ layout' = "wrap chunk"
    BY <2>4 DEF StartPage
  <2>6. LinesTyped'
    <3>1. <<>> \in Seq(Lines) /\ text' \in Seq(Lines) /\ chunks' \in Seq(Seq(Lines))
      BY <1>1, <1>3 DEF LinesTyped
    <3>2. QED
      BY <1>6, <2>3, <2>5, <3>1 DEF LinesTyped
  <2>7. (RenderTyped /\ LineBegunWraps /\ LinesWrap(wrapped) /\ ChunkIsWrapped)'
    BY <2>3, <2>4, <2>6, PageStarts
  <2>8. ChunkIsNext'
    BY <1>1, <1>6, <1>7, <2>1, <2>2, <2>5 DEF ChunkIsNext
  <2>9. QED
    BY <1>8, <2>5, <2>7, <2>8 DEF RenderInv
<1>11. QED
  BY <1>2, <1>9, <1>10

LEMMA RenderNextKeepsInv ==
  ASSUME RenderInv, [RenderNext]_renderVars
  PROVE  RenderInv'
<1>1. CASE PlaceWord
  BY <1>1, PlaceWordKeepsInv
<1>2. CASE EndLine
  BY <1>2, EndLineKeepsInv
<1>3. CASE EndWrapping
  BY <1>3, EndWrappingKeepsInv
<1>4. CASE PaginateLine
  BY <1>4, PaginateLineKeepsInv
<1>5. CASE EndPagination
  BY <1>5, EndPaginationKeepsInv
<1>6. CASE DrawLine
  BY <1>6, DrawLineKeepsInv
<1>7. CASE EndPage
  BY <1>7, EndPageKeepsInv
<1>8. CASE UNCHANGED renderVars
  <2>1. UNCHANGED <<text, layout, body, at, word, begun, wrapped, placed, y, sheet, chunks, drawn>>
    BY <1>8 DEF renderVars, wrapVars, sheetVars
  <2>2. RenderTyped' = RenderTyped
    BY <2>1 DEF RenderTyped, LinesTyped, PlaceTyped
  <2>3. LineBegunWraps' = LineBegunWraps /\ LinesWrap(wrapped)' = LinesWrap(wrapped)
    BY <2>1 DEF LineBegunWraps
  <2>4. TextIsWrapped' = TextIsWrapped /\ TextIsPaginated' = TextIsPaginated
    BY <2>1 DEF TextIsWrapped, TextIsPaginated
  <2>5. ChunksAreTheText' = ChunksAreTheText /\ ChunkIsNext' = ChunkIsNext
    BY <2>1 DEF ChunksAreTheText, ChunkIsNext
  <2>6. ChunkIsWrapped' = ChunkIsWrapped /\ ChunkIsDrawn' = ChunkIsDrawn
    BY <2>1 DEF ChunkIsWrapped, ChunkIsDrawn
  <2>7. QED
    BY <2>1, <2>2, <2>3, <2>4, <2>5, <2>6 DEF RenderInv
<1>9. QED
  BY <1>1, <1>2, <1>3, <1>4, <1>5, <1>6, <1>7, <1>8 DEF RenderNext

\* A line of several words is no wider than the space between the margins, so it
\* does not reach the edge.
ClippedAreWords == \A line \in clipped : Len(line) = 1

LEMMA RenderNextKeepsClipped ==
  ASSUME RenderInv, ClippedAreWords, [RenderNext]_renderVars
  PROVE  ClippedAreWords'
<1>1. CASE DrawLine
  <2>1. PICK line : line = wrapped[placed + 1]
    OBVIOUS
  <2>2. /\ wrapped \in Seq(Lines) /\ LinesWrap(wrapped) /\ placed \in 0..Len(wrapped)
        /\ placed < Len(wrapped)
        /\ clipped' = IF WidthOf(line) > EdgeWidth THEN clipped \cup {line} ELSE clipped
    BY <1>1, <2>1 DEF RenderInv, RenderTyped, LinesTyped, DrawLine
  <2>3. placed + 1 \in 1..Len(wrapped)
    BY <2>2
  <2>4. line \in Lines /\ Wraps(line)
    BY <2>1, <2>2, <2>3 DEF LinesWrap
  <2>5. line \in Seq(Words) /\ Len(line) \in Nat /\ WidthOf(line) \in Nat
    BY <2>4, LineParts, MarginsAreInside
  <2>6. CASE Len(line) >= 2
    <3>1. SubSeq(line, 1, Len(line)) = line
      BY <2>5, SubSeqFull
    <3>2. WidthOf(line) <= MaxWidth
      <4>1. Len(line) \in 2..Len(line)
        BY <2>5, <2>6
      <4>2. WidthOf(SubSeq(line, 1, Len(line))) <= MaxWidth
        BY <2>4, <4>1 DEF Wraps
      <4>3. QED
        BY <3>1, <4>2
    <3>3. clipped' = clipped
      BY <2>2, <2>5, <3>2, MarginsAreInside
    <3>4. QED
      BY <3>3 DEF ClippedAreWords
  <2>7. CASE Len(line) = 0
    <3>1. line = <<>>
      BY <2>5, <2>7
    <3>2. WidthOf(line) = 0
      BY ONLY <3>1, EmptyLineIsNarrow
    <3>3. ~(WidthOf(line) > EdgeWidth)
      BY ONLY <3>2, MarginsAreInside
    <3>4. clipped' = clipped
      BY <2>2, <3>3
    <3>5. QED
      BY <3>4 DEF ClippedAreWords
  <2>8. CASE Len(line) = 1
    BY <2>2, <2>8 DEF ClippedAreWords
  <2>9. Len(line) = 0 \/ Len(line) = 1 \/ Len(line) >= 2
    BY ONLY <2>5
  <2>10. QED
    BY ONLY <2>6, <2>7, <2>8, <2>9
<1>2. CASE PlaceWord \/ EndLine \/ EndWrapping \/ PaginateLine \/ EndPagination \/ EndPage
           \/ UNCHANGED renderVars
  <2>1. clipped' = clipped
    BY <1>2 DEF PlaceWord, EndLine, EndWrapping, PaginateLine, EndPagination, EndPage, renderVars
  <2>2. QED
    BY <2>1 DEF ClippedAreWords
<1>3. QED
  BY <1>1, <1>2 DEF RenderNext

LEMMA RenderInvariant == RenderSpec => [](RenderInv /\ ClippedAreWords)
<1>1. RenderInit => RenderInv /\ ClippedAreWords
  BY RenderInitInv DEF RenderInit, ClippedAreWords
<1>2. RenderInv /\ ClippedAreWords /\ [RenderNext]_renderVars => RenderInv' /\ ClippedAreWords'
  BY RenderNextKeepsInv, RenderNextKeepsClipped
<1>3. QED
  BY <1>1, <1>2, PTL DEF RenderSpec

\* However the lines of an answer wrap, and wherever its pages end: every line of a
\* page is drawn, and the words on the pages are those of the answer, in its order
\* (paginate_content and render_page, which measure the text independently).  At the
\* edge of the bitmap nothing is cut but a word that is alone on its line.
THEOREM EveryAnswerIsDrawnWhole == RenderSpec => []AnswerIsDrawnWhole
<1>1. RenderInv /\ ClippedAreWords => AnswerIsDrawnWhole
  <2>1. SUFFICES ASSUME RenderInv, layout = "done"
                 PROVE  drawn = chunks /\ FlattenSeq(FlattenSeq(drawn)) = FlattenSeq(text)
    BY DEF AnswerIsDrawnWhole, ClippedAreWords
  <2>2. drawn = chunks /\ ChunksAreTheText
    BY <2>1 DEF RenderInv
  <2>3. QED
    BY <2>2 DEF ChunksAreTheText
<1>2. QED
  BY <1>1, RenderInvariant, PTL

(***************************************************************************)
(* RattaRle: the encoding of a bitmap and what a decoder makes of it.      *)
(***************************************************************************)

Shades == {ColorOf(pixel) : pixel \in Nat} \cup {Background}
Pairs == Shades \X (0..(2 * Base - 2))

RleTyped ==
  /\ bitmap \in Seq(Nat) /\ codec \in {"count", "write", "read", "done"}
  /\ counted \in 0..Len(bitmap)
  /\ run \in [color: Shades, length: 0..counted]
  /\ data \in Seq(Pairs)

\* A pair makes the pixels of its own length, and those of the pair held before it.
PairLength(pairs, k) ==
  (IF k > 1 /\ pairs[k - 1][2] >= Base THEN (pairs[k - 1][2] - Base + 1) * Base ELSE 0)
    + pairs[k][2] + 1

\* The pairs are the first `total` pixels, ends[k] of them the first k pairs.  A
\* held pair adds its pixels with the next one, which is there, is of its colour,
\* and is not held.
PairEndsAt(pairs, pixels, k, ends) ==
  IF pairs[k][2] >= Base
    THEN /\ k < Len(pairs) /\ pairs[k + 1][1] = pairs[k][1] /\ pairs[k + 1][2] < Base
         /\ ends[k] = ends[k - 1]
    ELSE /\ ends[k] = ends[k - 1] + PairLength(pairs, k)
         /\ \A i \in (ends[k - 1] + 1)..ends[k] : ColorOf(pixels[i]) = pairs[k][1]

PairsEndAt(pairs, pixels, total, ends) ==
  /\ ends \in [0..Len(pairs) -> 0..total] /\ ends[0] = 0 /\ ends[Len(pairs)] = total
  /\ \A k \in 1..Len(pairs) : PairEndsAt(pairs, pixels, k, ends)

\* The pixels that are written, and those of the current run after them.
Written == counted - run.length
RunIsOfItsColor == \A i \in (Written + 1)..counted : ColorOf(bitmap[i]) = run.color

\* The decoder has made the pixels of the pairs that it has read.
ImageIsOf(ends) ==
  /\ decoded \in 0..Len(data)
  /\ image \in Seq(Shades) /\ Len(image) = ends[decoded]
  /\ \A i \in 1..Len(image) : image[i] = ColorOf(bitmap[i])
  /\ holder = IF decoded > 0 /\ data[decoded][2] >= Base THEN data[decoded] ELSE NoHolder

RleInv ==
  /\ RleTyped
  /\ RunIsOfItsColor
  /\ \E ends : PairsEndAt(data, bitmap, Written, ends) /\ (codec # "done" => ImageIsOf(ends))
  /\ codec \in {"count", "write"} => decoded = 0
  /\ codec = "write" => run.length > 0
  /\ codec \in {"read", "done"} => Written = Len(bitmap)
  /\ codec = "done" => image = [i \in 1..Len(bitmap) |-> ColorOf(bitmap[i])]

\* A chunk that is too long for one byte is so many times Base, and a rest.
LEMMA ChunkParts ==
  ASSUME NEW chunk \in Nat, Base < chunk, chunk <= MaxChunk
  PROVE  /\ (chunk - 1) \div Base \in 1..(Base - 1) /\ (chunk - 1) % Base \in 0..(Base - 1)
         /\ ((chunk - 1) \div Base) * Base + ((chunk - 1) % Base) = chunk - 1
<1> DEFINE q == (chunk - 1) \div Base
           r == (chunk - 1) % Base
<1>1. Base \in Nat /\ Base > 1
  BY BytesHaveAHighBit
<1>2. q \in Int /\ r \in 0..(Base - 1) /\ Base * q + r = chunk - 1
  BY <1>1
<1>3. Base * q + r < Base * Base
  BY <1>1, <1>2 DEF MaxChunk
<1> HIDE DEF q, r
<1>4. q > 0
  <2>1. SUFFICES ASSUME q <= 0
                 PROVE  FALSE
    BY <1>2
  <2>2. Base * q <= 0
    BY <1>1, <1>2, <2>1
  <2>3. QED
    BY <1>1, <1>2, <2>2
<1>5. q < Base
  <2>1. SUFFICES ASSUME q >= Base
                 PROVE  FALSE
    BY <1>1, <1>2
  <2>2. Base * q >= Base * Base
    BY <1>1, <1>2, <2>1
  <2>3. QED
    BY <1>1, <1>2, <1>3, <2>2
<1>6. q * Base = Base * q
  BY <1>1, <1>2
<1>7. QED
  BY <1>1, <1>2, <1>4, <1>5, <1>6 DEF q, r

LEMMA RleInitInv ==
  ASSUME RleInit
  PROVE  RleInv
<1>1. bitmap \in Seq(Nat) /\ Len(bitmap) \in Nat
  BY BitmapsAreGrey DEF RleInit
<1>2. RleTyped /\ Written = 0
  BY <1>1 DEF RleInit, RleTyped, Shades, Written
<1>3. PICK ends : ends = [k \in 0..0 |-> 0]
  OBVIOUS
<1>4. PairsEndAt(data, bitmap, Written, ends)
  BY <1>2, <1>3 DEF RleInit, PairsEndAt
<1>5. ImageIsOf(ends)
  BY <1>3 DEF RleInit, ImageIsOf
<1>6. QED
  BY <1>1, <1>2, <1>4, <1>5 DEF RleInit, RleInv, RunIsOfItsColor

LEMMA PairParts ==
  ASSUME NEW pair \in Pairs
  PROVE  pair[1] \in Shades /\ pair[2] \in Nat /\ pair[2] <= 2 * Base - 2
BY BytesHaveAHighBit DEF Pairs

\* Pairs that are put behind the others leave these as they are.
LEMMA EarlierPairsStay ==
  ASSUME NEW pairs \in Seq(Pairs), NEW more \in Seq(Pairs), NEW pixels, NEW ends, NEW new,
         Len(more) >= Len(pairs), \A k \in 1..Len(pairs) : more[k] = pairs[k],
         \A k \in 0..Len(pairs) : new[k] = ends[k],
         NEW k \in 1..Len(pairs), PairEndsAt(pairs, pixels, k, ends)
  PROVE  PairEndsAt(more, pixels, k, new)
<1>1. Len(pairs) \in Nat /\ Len(more) \in Nat
  OBVIOUS
<1>2. k - 1 \in 0..Len(pairs) /\ k \in 0..Len(pairs)
  BY <1>1
<1>3. more[k] = pairs[k] /\ new[k] = ends[k] /\ new[k - 1] = ends[k - 1]
  BY <1>2
<1>4. CASE pairs[k][2] >= Base
  <2>1. /\ k < Len(pairs) /\ pairs[k + 1][1] = pairs[k][1] /\ pairs[k + 1][2] < Base
        /\ ends[k] = ends[k - 1]
    BY <1>4 DEF PairEndsAt
  <2>2. k + 1 \in 1..Len(pairs) /\ k < Len(more)
    BY <1>1, <2>1
  <2>3. more[k + 1] = pairs[k + 1]
    BY <2>2
  <2>4. QED
    BY <1>3, <1>4, <2>1, <2>2, <2>3 DEF PairEndsAt
<1>5. CASE ~(pairs[k][2] >= Base)
  <2>1. /\ ends[k] = ends[k - 1] + PairLength(pairs, k)
        /\ \A i \in (ends[k - 1] + 1)..ends[k] : ColorOf(pixels[i]) = pairs[k][1]
    BY <1>5 DEF PairEndsAt
  <2>2. k > 1 => k - 1 \in 1..Len(pairs)
    BY <1>1
  <2>3. k > 1 => more[k - 1] = pairs[k - 1]
    BY <2>2
  <2>4. PairLength(more, k) = PairLength(pairs, k)
    BY <1>3, <2>3 DEF PairLength
  <2>5. QED
    BY <1>3, <1>5, <2>1, <2>4 DEF PairEndsAt
<1>6. QED
  BY <1>4, <1>5

\* A pair for n pixels of one colour goes behind the pairs of those before.
LEMMA OnePairMore ==
  ASSUME NEW pairs \in Seq(Pairs), NEW pixels, NEW total \in Nat, NEW ends,
         PairsEndAt(pairs, pixels, total, ends),
         NEW color \in Shades, NEW n \in 1..Base,
         \A i \in (total + 1)..(total + n) : ColorOf(pixels[i]) = color
  PROVE  /\ Append(pairs, <<color, n - 1>>) \in Seq(Pairs)
         /\ \E new : PairsEndAt(Append(pairs, <<color, n - 1>>), pixels, total + n, new)
<1> DEFINE last == Len(pairs)
           more == Append(pairs, <<color, n - 1>>)
<1>1. Base \in Nat /\ Base > 1 /\ last \in Nat
  BY BytesHaveAHighBit
<1>2. <<color, n - 1>> \in Pairs
  BY <1>1 DEF Pairs
<1>3. /\ more \in Seq(Pairs) /\ Len(more) = last + 1
      /\ \A k \in 1..last : more[k] = pairs[k]
      /\ more[last + 1] = <<color, n - 1>>
  BY <1>1, <1>2
<1>4. more[last + 1][1] = color /\ more[last + 1][2] = n - 1
  BY <1>3
<1> HIDE DEF more
<1>5. PICK new : new = [k \in 0..(last + 1) |-> IF k <= last THEN ends[k] ELSE total + n]
  OBVIOUS
<1>6. /\ ends \in [0..last -> 0..total] /\ ends[0] = 0 /\ ends[last] = total
      /\ \A k \in 0..last : new[k] = ends[k] /\ ends[k] \in 0..total
      /\ new[last + 1] = total + n
  <2>1. ends \in [0..last -> 0..total] /\ ends[0] = 0 /\ ends[last] = total
    BY DEF PairsEndAt
  <2>2. \A k \in 0..last : k \in 0..(last + 1) /\ k <= last /\ ends[k] \in 0..total
    BY <1>1, <2>1
  <2>3. QED
    BY <1>1, <1>5, <2>1, <2>2
<1>7. new \in [0..Len(more) -> 0..(total + n)] /\ new[0] = 0 /\ new[Len(more)] = total + n
  BY <1>1, <1>3, <1>5, <1>6
<1>8. ASSUME NEW k \in 1..last
      PROVE  PairEndsAt(more, pixels, k, new)
  <2>1. PairEndsAt(pairs, pixels, k, ends) /\ Len(more) >= Len(pairs)
    BY <1>1, <1>3 DEF PairsEndAt
  <2>2. QED
    BY <1>3, <1>6, <2>1, EarlierPairsStay
<1>9. ~(more[last + 1][2] >= Base)
  BY <1>1, <1>4
<1>10. PairLength(more, last + 1) = n
  <2>1. last + 1 > 1 => ~(more[last][2] >= Base)
    BY <1>1, <1>3 DEF PairsEndAt, PairEndsAt
  <2>2. QED
    BY <1>1, <1>4, <2>1 DEF PairLength
<1>11. /\ new[last + 1] = new[last] + PairLength(more, last + 1)
       /\ \A i \in (new[last] + 1)..new[last + 1] : ColorOf(pixels[i]) = more[last + 1][1]
  BY <1>1, <1>4, <1>6, <1>10
<1>12. PairsEndAt(more, pixels, total + n, new)
  <2>1. PairEndsAt(more, pixels, last + 1, new)
    BY <1>1, <1>9, <1>11 DEF PairEndsAt
  <2>2. \A k \in 1..Len(more) : k \in 1..last \/ k = last + 1
    BY <1>1, <1>3
  <2>3. QED
    BY <1>7, <1>8, <2>1, <2>2 DEF PairsEndAt
<1>13. QED
  BY <1>3, <1>12 DEF more

\* Two pairs for a longer chunk go there too: the first is held for the second.
LEMMA TwoPairsMore ==
  ASSUME NEW pairs \in Seq(Pairs), NEW pixels, NEW total \in Nat, NEW ends,
         PairsEndAt(pairs, pixels, total, ends),
         NEW color \in Shades, NEW high \in Base..(2 * Base - 2), NEW low \in 0..(Base - 1),
         NEW n \in Nat, n = (high - Base + 1) * Base + low + 1,
         \A i \in (total + 1)..(total + n) : ColorOf(pixels[i]) = color
  PROVE  /\ pairs \o <<(<<color, high>>), <<color, low>>>> \in Seq(Pairs)
         /\ \E new : PairsEndAt(pairs \o <<(<<color, high>>), <<color, low>>>>, pixels,
                                total + n, new)
<1> DEFINE last == Len(pairs)
           more == pairs \o <<(<<color, high>>), <<color, low>>>>
<1>1. /\ Base \in Nat /\ Base > 1 /\ last \in Nat /\ high \in Nat /\ low \in Nat
      /\ high >= Base /\ low < Base
  BY BytesHaveAHighBit
<1>2. <<color, high>> \in Pairs /\ <<color, low>> \in Pairs
  BY <1>1 DEF Pairs
<1>3. /\ more \in Seq(Pairs) /\ Len(more) = last + 2
      /\ \A k \in 1..last : more[k] = pairs[k]
      /\ more[last + 1] = <<color, high>> /\ more[last + 2] = <<color, low>>
  BY <1>1, <1>2
<1>4. /\ more[last + 1][1] = color /\ more[last + 1][2] = high
      /\ more[last + 2][1] = color /\ more[last + 2][2] = low
  BY <1>3
<1> HIDE DEF more
<1>5. PICK new : new = [k \in 0..(last + 2) |-> IF k <= last THEN ends[k]
                                                ELSE IF k = last + 1 THEN total ELSE total + n]
  OBVIOUS
<1>6. /\ ends \in [0..last -> 0..total] /\ ends[0] = 0 /\ ends[last] = total
      /\ \A k \in 0..last : new[k] = ends[k] /\ ends[k] \in 0..total
      /\ new[last + 1] = total /\ new[last + 2] = total + n
  <2>1. ends \in [0..last -> 0..total] /\ ends[0] = 0 /\ ends[last] = total
    BY DEF PairsEndAt
  <2>2. \A k \in 0..last : k \in 0..(last + 2) /\ k <= last /\ ends[k] \in 0..total
    BY <1>1, <2>1
  <2>3. QED
    BY <1>1, <1>5, <2>1, <2>2
<1>7. new \in [0..Len(more) -> 0..(total + n)] /\ new[0] = 0 /\ new[Len(more)] = total + n
  BY <1>1, <1>3, <1>5, <1>6
<1>8. ASSUME NEW k \in 1..last
      PROVE  PairEndsAt(more, pixels, k, new)
  <2>1. PairEndsAt(pairs, pixels, k, ends) /\ Len(more) >= Len(pairs)
    BY <1>1, <1>3 DEF PairsEndAt
  <2>2. QED
    BY <1>3, <1>6, <2>1, EarlierPairsStay
<1>9. /\ more[last + 1][2] >= Base /\ ~(more[last + 2][2] >= Base)
       /\ last + 1 < Len(more) /\ more[last + 2][1] = more[last + 1][1]
       /\ new[last + 1] = new[last]
  BY <1>1, <1>3, <1>4, <1>6
<1>10. PairLength(more, last + 2) = n
  <2>1. last + 2 > 1 /\ (last + 2) - 1 = last + 1
    BY <1>1
  <2>2. QED
    BY <1>1, <1>4, <1>9, <2>1 DEF PairLength
<1>11. /\ new[last + 2] = new[last + 1] + PairLength(more, last + 2)
       /\ \A i \in (new[last + 1] + 1)..new[last + 2] : ColorOf(pixels[i]) = more[last + 2][1]
  BY <1>1, <1>4, <1>6, <1>10
<1>12. \A k \in 1..Len(more) : k \in 1..last \/ k = last + 1 \/ k = last + 2
  BY <1>1, <1>3
<1>13. PairsEndAt(more, pixels, total + n, new)
  <2>1. (last + 1) + 1 = last + 2 /\ (last + 1) - 1 = last /\ (last + 2) - 1 = last + 1
    BY <1>1
  <2>2. more[last + 2][2] < Base
    BY <1>1, <1>4
  <2>3. PairEndsAt(more, pixels, last + 1, new) /\ PairEndsAt(more, pixels, last + 2, new)
    BY <1>9, <1>11, <2>1, <2>2 DEF PairEndsAt
  <2>4. QED
    BY <1>7, <1>8, <1>12, <2>3 DEF PairsEndAt
<1>14. QED
  BY <1>3, <1>13 DEF more

LEMMA RunParts ==
  ASSUME RleTyped
  PROVE  /\ run.color \in Shades /\ run.length \in Nat /\ run.length <= counted
         /\ counted \in Nat /\ counted <= Len(bitmap) /\ Len(bitmap) \in Nat
         /\ Written \in Nat /\ Written + run.length = counted
<1>1. /\ run.color \in Shades /\ run.length \in 0..counted
      /\ Len(bitmap) \in Nat /\ counted \in 0..Len(bitmap)
  BY DEF RleTyped
<1>2. QED
  BY <1>1 DEF Written

\* A pixel of the colour of the run makes it longer, and another one comes only
\* when nothing is left of the run.
LEMMA CountPixelKeepsInv ==
  ASSUME RleInv, CountPixel
  PROVE  RleInv'
<1> DEFINE color == ColorOf(bitmap[counted + 1])
           longer == [color |-> color, length |-> run.length + 1]
<1>1. RleTyped /\ RunIsOfItsColor
  BY DEF RleInv
<1>2. /\ counted < Len(bitmap) /\ counted' = counted + 1 /\ run' = longer
      /\ UNCHANGED <<bitmap, codec, data, decoded, holder, image>> /\ codec = "count"
      /\ run.length > 0 => color = run.color
  BY DEF CountPixel, decoderVars
<1>3. color \in Shades
  <2>1. bitmap[counted + 1] \in Nat
    BY <1>1, <1>2, RunParts DEF RleTyped
  <2>2. QED
    BY <2>1 DEF Shades
<1>4. longer.color = color /\ longer.length = run.length + 1
  OBVIOUS
<1>5. longer \in [color: Shades, length: 0..(counted + 1)]
  BY <1>1, <1>3, RunParts
<1> HIDE DEF longer, color
<1>6. RleTyped'
  BY <1>1, <1>2, <1>5, RunParts DEF RleTyped
<1>7. Written' = Written
  BY <1>1, <1>2, <1>4, RunParts DEF Written
<1>8. RunIsOfItsColor'
  <2>1. ASSUME NEW i \in (Written + 1)..(counted + 1)
        PROVE  ColorOf(bitmap[i]) = color
    <3>1. i = counted + 1 \/ (i \in (Written + 1)..counted /\ run.length > 0)
      BY <1>1, RunParts
    <3>2. QED
      BY <1>1, <1>2, <3>1 DEF RunIsOfItsColor, color
  <2>2. QED
    BY <1>2, <1>4, <1>7, <2>1 DEF RunIsOfItsColor
<1>9. QED
  BY <1>2, <1>6, <1>7, <1>8 DEF RleInv, ImageIsOf

LEMMA PixelsOfOneColor ==
  ASSUME NEW pixels \in Seq(Shades), NEW color \in Shades, NEW n \in Nat
  PROVE  /\ pixels \o Repeat(color, n) \in Seq(Shades)
         /\ Len(pixels \o Repeat(color, n)) = Len(pixels) + n
         /\ \A i \in 1..(Len(pixels) + n) :
              (pixels \o Repeat(color, n))[i] = IF i <= Len(pixels) THEN pixels[i] ELSE color
<1>1. Repeat(color, n) \in Seq(Shades) /\ Len(Repeat(color, n)) = n
  BY DEF Repeat
<1>2. \A i \in 1..n : Repeat(color, n)[i] = color
  BY DEF Repeat
<1>3. Len(pixels) \in Nat
  OBVIOUS
<1> HIDE DEF Repeat
<1>4. \A i \in 1..(Len(pixels) + n) : ~(i <= Len(pixels)) => i - Len(pixels) \in 1..n
  BY <1>3
<1>5. /\ pixels \o Repeat(color, n) \in Seq(Shades)
      /\ Len(pixels \o Repeat(color, n)) = Len(pixels) + n
      /\ \A i \in 1..(Len(pixels) + n) :
           (pixels \o Repeat(color, n))[i] =
              IF i <= Len(pixels) THEN pixels[i] ELSE Repeat(color, n)[i - Len(pixels)]
  BY <1>1, ConcatProperties
<1>6. QED
  BY <1>2, <1>4, <1>5

\* Every chunk goes behind the pairs of the pixels before it.
LEMMA EncodeRunKeepsInv ==
  ASSUME RleInv, EncodeRun
  PROVE  RleInv'
<1> DEFINE chunk == IF run.length < MaxChunk THEN run.length ELSE MaxChunk
           color == run.color
<1>1. RleTyped /\ RunIsOfItsColor /\ codec = "write" /\ decoded = 0 /\ run.length > 0
  BY DEF EncodeRun, RleInv
<1>2. /\ data' = data \o EncodeChunk(color, chunk)
      /\ run' = [run EXCEPT !.length = run.length - chunk]
      /\ codec' = IF run.length = chunk THEN "count" ELSE "write"
      /\ UNCHANGED <<bitmap, counted, decoded, holder, image>>
  BY DEF EncodeRun, decoderVars
<1>3. Base \in Nat /\ Base > 1 /\ MaxChunk \in Nat /\ MaxChunk > 0
  BY BytesHaveAHighBit DEF MaxChunk
<1>4. chunk \in Nat /\ chunk > 0 /\ chunk <= run.length /\ chunk <= MaxChunk
  BY <1>1, <1>3, RunParts
<1>5. /\ run' \in [color: Shades, length: 0..counted]
      /\ run'.color = color /\ run'.length = run.length - chunk
  <2>1. run.length - chunk \in 0..counted
    BY <1>1, <1>4, RunParts
  <2>2. QED
    BY <1>1, <1>2, <2>1 DEF RleTyped
<1> HIDE DEF chunk
<1>6. PICK ends : PairsEndAt(data, bitmap, Written, ends) /\ ImageIsOf(ends)
  BY <1>1 DEF RleInv
<1>7. \A i \in (Written + 1)..(Written + chunk) : ColorOf(bitmap[i]) = color
  BY <1>1, <1>4, RunParts DEF RunIsOfItsColor
<1>8. /\ data' \in Seq(Pairs)
      /\ \E new : PairsEndAt(data', bitmap, Written + chunk, new)
  <2>1. data \in Seq(Pairs) /\ Written \in Nat /\ color \in Shades
    BY <1>1, RunParts DEF RleTyped
  <2>2. CASE chunk <= Base
    <3>1. data' = Append(data, <<color, chunk - 1>>)
      BY <1>2, <2>1, <2>2 DEF EncodeChunk
    <3>2. chunk \in 1..Base
      BY <1>3, <1>4, <2>2
    <3>3. QED
      BY <1>6, <1>7, <2>1, <3>1, <3>2, OnePairMore
  <2>3. CASE ~(chunk <= Base)
    <3> DEFINE q == (chunk - 1) \div Base
               low == (chunk - 1) % Base
    <3>1. q \in 1..(Base - 1) /\ low \in 0..(Base - 1) /\ q * Base + low = chunk - 1
      BY <1>3, <1>4, <2>3, ChunkParts
    <3>2. data' = data \o <<(<<color, (q - 1) + Base>>), <<color, low>>>>
      BY <1>2, <2>3 DEF EncodeChunk
    <3> HIDE DEF q, low
    <3>3. PICK high : high = (q - 1) + Base
      OBVIOUS
    <3>4. high \in Base..(2 * Base - 2) /\ high - Base + 1 = q
      BY <1>3, <3>1, <3>3
    <3>5. q * Base \in Nat
      BY <1>3, <3>1
    <3>6. chunk = (high - Base + 1) * Base + low + 1
      BY <1>3, <1>4, <3>1, <3>4, <3>5
    <3>7. data' = data \o <<(<<color, high>>), <<color, low>>>>
      BY <3>2, <3>3
    <3>8. QED
      BY <1>4, <1>6, <1>7, <2>1, <3>1, <3>4, <3>6, <3>7, TwoPairsMore
  <2>4. QED
    BY <2>2, <2>3
<1>9. Written' = Written + chunk
  BY <1>1, <1>2, <1>4, <1>5, RunParts DEF Written
<1>10. RleTyped'
  BY <1>1, <1>2, <1>5, <1>8 DEF RleTyped
<1>11. RunIsOfItsColor'
  <2>1. \A i \in (Written + chunk + 1)..counted : i \in (Written + 1)..counted
    BY <1>1, <1>4, RunParts
  <2>2. QED
    BY <1>1, <1>2, <1>5, <1>9, <2>1 DEF RunIsOfItsColor
<1>12. PICK new : PairsEndAt(data', bitmap, Written + chunk, new)
  BY <1>8
<1>13. ImageIsOf(new)'
  <2>1. new[0] = 0 /\ ends[0] = 0
    BY <1>6, <1>12 DEF PairsEndAt
  <2>2. Len(data') \in Nat
    BY <1>8
  <2>3. QED
    BY <1>1, <1>2, <1>6, <2>1, <2>2 DEF ImageIsOf
<1>14. codec' = "write" => run'.length > 0
  BY <1>1, <1>2, <1>4, <1>5, RunParts
<1>15. codec' \in {"count", "write"}
  BY <1>2
<1>16. QED
  BY <1>1, <1>2, <1>9, <1>10, <1>11, <1>12, <1>13, <1>14, <1>15 DEF RleInv

\* A held pair is followed by its continuation, and any other pair makes all the
\* pixels up to the end of it.
LEMMA DecodePairKeepsInv ==
  ASSUME RleInv, DecodePair
  PROVE  RleInv'
<1> DEFINE k == decoded + 1
           pair == data[k]
<1>1. /\ RleTyped /\ codec = "read" /\ codec' = "read" /\ decoded < Len(data)
      /\ UNCHANGED <<bitmap, counted, run, data>> /\ decoded' = k
  BY DEF DecodePair, RleInv, encoderVars
<1>2. PICK ends : PairsEndAt(data, bitmap, Written, ends) /\ ImageIsOf(ends)
  BY <1>1 DEF RleInv
<1>3. /\ Base \in Nat /\ Base > 1 /\ Len(data) \in Nat
      /\ decoded \in 0..Len(data) /\ k \in 1..Len(data) /\ k - 1 = decoded
      /\ image \in Seq(Shades) /\ Len(image) = ends[decoded] /\ Len(image) \in Nat
      /\ \A i \in 1..Len(image) : image[i] = ColorOf(bitmap[i])
      /\ pair \in Pairs /\ pair[1] \in Shades /\ pair[2] \in Nat
      /\ decoded > 0 => data[decoded] \in Pairs /\ data[decoded][2] \in Nat
  <2>1. Base \in Nat /\ Base > 1 /\ Len(data) \in Nat /\ data \in Seq(Pairs)
    BY <1>1, BytesHaveAHighBit DEF RleTyped
  <2>2. /\ decoded \in 0..Len(data) /\ image \in Seq(Shades) /\ Len(image) = ends[decoded]
        /\ \A i \in 1..Len(image) : image[i] = ColorOf(bitmap[i])
    BY <1>2 DEF ImageIsOf
  <2>3. k \in 1..Len(data) /\ k - 1 = decoded /\ (decoded > 0 => decoded \in 1..Len(data))
    BY <1>1, <2>1, <2>2
  <2>4. pair \in Pairs /\ (decoded > 0 => data[decoded] \in Pairs)
    BY <2>1, <2>3
  <2>5. QED
    BY <2>1, <2>2, <2>3, <2>4, PairParts
<1>4. /\ holder = IF decoded > 0 /\ data[decoded][2] >= Base THEN data[decoded] ELSE NoHolder
      /\ NoHolder \notin Pairs
  BY <1>2 DEF ImageIsOf, NoHolder, Pairs
<1>5. PairEndsAt(data, bitmap, k, ends)
  BY <1>2, <1>3 DEF PairsEndAt
<1>6. ASSUME decoded > 0, data[decoded][2] >= Base
      PROVE  data[k][1] = data[decoded][1] /\ data[k][2] < Base
  <2>1. PairEndsAt(data, bitmap, decoded, ends)
    BY <1>2, <1>3, <1>6 DEF PairsEndAt
  <2>2. QED
    BY <1>6, <2>1 DEF PairEndsAt
<1>7. /\ Len(image') = ends[k] /\ image' \in Seq(Shades)
      /\ \A i \in 1..Len(image') : image'[i] = ColorOf(bitmap[i])
      /\ holder' = IF data[k][2] >= Base THEN data[k] ELSE NoHolder
  <2>1. CASE pair[2] >= Base
    <3>1. holder = NoHolder /\ ends[k] = ends[decoded]
      BY <1>3, <1>4, <1>5, <1>6, <2>1 DEF PairEndsAt
    <3>2. pair[2] # SpecialLengthMarker
      BY <1>3, PairParts DEF SpecialLengthMarker
    <3>3. holder' = pair /\ image' = image
      BY <2>1, <3>1, <3>2 DEF DecodePair
    <3>4. QED
      BY <1>3, <2>1, <3>1, <3>3
  <2>2. CASE ~(pair[2] >= Base)
    <3>1. pair[2] # SpecialLengthMarker
      BY <1>3, <2>2 DEF SpecialLengthMarker
    <3>2. /\ ends[k] = ends[decoded] + PairLength(data, k)
          /\ \A i \in (ends[decoded] + 1)..ends[k] : ColorOf(bitmap[i]) = pair[1]
      BY <1>3, <1>5, <2>2 DEF PairEndsAt
    <3>3. /\ PairLength(data, k) \in Nat /\ holder' = NoHolder
          /\ image' = image \o Repeat(pair[1], PairLength(data, k))
      <4>1. CASE decoded > 0 /\ data[decoded][2] >= Base
        <5>1. holder = data[decoded] /\ holder # NoHolder /\ holder[1] = pair[1]
          BY <1>3, <1>4, <1>6, <4>1
        <5>2. PairLength(data, k) = HeldLength + pair[2] + 1
          BY <1>3, <4>1, <5>1 DEF PairLength, HeldLength
        <5>3. HeldLength \in Nat
          <6>1. holder[2] - Base + 1 \in Nat
            BY <1>3, <4>1, <5>1
          <6>2. PICK m \in Nat : m = holder[2] - Base + 1
            BY <6>1
          <6>3. m * Base \in Nat
            BY <1>3
          <6>4. QED
            BY <6>2, <6>3 DEF HeldLength
        <5>4. image' = image \o Repeat(pair[1], HeldLength + pair[2] + 1)
              /\ holder' = NoHolder
          BY <5>1 DEF DecodePair
        <5>5. HeldLength + pair[2] + 1 \in Nat
          BY <1>3, <5>3
        <5>6. QED
          BY <5>2, <5>4, <5>5
      <4>2. CASE ~(decoded > 0 /\ data[decoded][2] >= Base)
        <5>1. holder = NoHolder
          BY <1>4, <4>2
        <5>2. PairLength(data, k) = pair[2] + 1
          BY <1>3, <4>2 DEF PairLength
        <5>3. image' = image \o Repeat(pair[1], pair[2] + 1) /\ holder' = NoHolder
          BY <2>2, <3>1, <5>1 DEF DecodePair
        <5>4. pair[2] + 1 \in Nat
          BY <1>3
        <5>5. QED
          BY <5>2, <5>3, <5>4
      <4>3. QED
        BY <4>1, <4>2
    <3>4. PICK n \in Nat : n = PairLength(data, k)
      BY <3>3
    <3>5. /\ image' \in Seq(Shades) /\ Len(image') = Len(image) + n
          /\ \A i \in 1..(Len(image) + n) :
               image'[i] = IF i <= Len(image) THEN image[i] ELSE pair[1]
      <4>1. image' = image \o Repeat(pair[1], n)
        BY <3>3, <3>4
      <4>2. image \in Seq(Shades) /\ pair[1] \in Shades
        BY <1>3
      <4>3. QED
        BY <4>1, <4>2, PixelsOfOneColor
    <3>6. \A i \in 1..(Len(image) + n) : i <= Len(image) => i \in 1..Len(image)
      BY <1>3
    <3>7. \A i \in 1..(Len(image) + n) :
            ~(i <= Len(image)) => i \in (ends[decoded] + 1)..ends[k]
      BY <1>3, <3>2, <3>4
    <3>8. QED
      BY <1>3, <2>2, <3>2, <3>3, <3>4, <3>5, <3>6, <3>7
  <2>3. QED
    BY <2>1, <2>2
<1>8. ImageIsOf(ends)'
  <2>1. k > 0 /\ k \in 0..Len(data)
    BY <1>3
  <2>2. QED
    BY <1>1, <1>7, <2>1 DEF ImageIsOf
<1>9. RleTyped' /\ Written' = Written /\ RunIsOfItsColor'
  BY <1>1 DEF RleTyped, Written, RunIsOfItsColor, RleInv
<1>10. QED
  BY <1>1, <1>2, <1>8, <1>9 DEF RleInv

\* The pairs are all read, or what they make is long enough: both are the end.
LEMMA FinishImageKeepsInv ==
  ASSUME RleInv, FinishImage
  PROVE  RleInv'
<1>1. /\ RleTyped /\ codec = "read" /\ codec' = "done" /\ Written = Len(bitmap)
      /\ UNCHANGED <<bitmap, counted, run, data, decoded, holder>>
      /\ decoded < Len(data) => Len(image) >= Len(bitmap)
  BY DEF FinishImage, RleInv, encoderVars
<1>2. PICK ends : PairsEndAt(data, bitmap, Written, ends) /\ ImageIsOf(ends)
  BY <1>1 DEF RleInv
<1>3. Len(image) = Len(bitmap)
  <2>1. /\ ends \in [0..Len(data) -> 0..Written] /\ ends[Len(data)] = Written
        /\ decoded \in 0..Len(data) /\ Len(image) = ends[decoded]
    BY <1>2 DEF PairsEndAt, ImageIsOf
  <2>2. ends[decoded] \in 0..Written /\ Len(bitmap) \in Nat /\ Len(data) \in Nat
    BY <1>1, <2>1 DEF RleTyped
  <2>3. QED
    BY <1>1, <2>1, <2>2
<1>4. image' = [i \in 1..Len(bitmap) |-> ColorOf(bitmap[i])]
  <2>1. \A i \in 1..Len(bitmap) : i <= Len(image) /\ image[i] = ColorOf(bitmap[i])
    BY <1>1, <1>2, <1>3 DEF ImageIsOf, RleTyped
  <2>2. image' = [i \in 1..Len(bitmap) |->
                    IF i <= Len(image) THEN image[i]
                    ELSE IF holder # NoHolder THEN holder[1] ELSE Background]
    BY DEF FinishImage
  <2>3. QED
    BY <2>1, <2>2
<1>5. RleTyped' /\ Written' = Written /\ RunIsOfItsColor'
  BY <1>1 DEF RleTyped, Written, RunIsOfItsColor, RleInv
<1>6. QED
  BY <1>1, <1>2, <1>4, <1>5 DEF RleInv

LEMMA RleNextKeepsInv ==
  ASSUME RleInv, [RleNext]_rleVars
  PROVE  RleInv'
<1>1. CASE RunEnds
  BY <1>1 DEF RunEnds, encoderVars, decoderVars, RleInv, RleTyped, Written, RunIsOfItsColor,
              ImageIsOf
<1>2. CASE StartDecoding
  <2>1. /\ codec = "count" /\ codec' = "read" /\ run.length = 0 /\ counted = Len(bitmap)
        /\ UNCHANGED <<bitmap, counted, run, data, decoded, holder, image>>
    BY <1>2 DEF StartDecoding, encoderVars, decoderVars
  <2>2. RleTyped' /\ Written' = Written /\ RunIsOfItsColor'
    BY <2>1 DEF RleTyped, Written, RunIsOfItsColor, RleInv
  <2>3. Written = Len(bitmap)
    BY <2>1, RunParts DEF RleInv
  <2>4. QED
    BY <2>1, <2>2, <2>3 DEF RleInv, ImageIsOf
<1>3. CASE UNCHANGED rleVars
  BY <1>3 DEF rleVars, RleInv, RleTyped, Written, RunIsOfItsColor, ImageIsOf
<1>4. QED
  BY <1>1, <1>2, <1>3, CountPixelKeepsInv, EncodeRunKeepsInv, DecodePairKeepsInv,
     FinishImageKeepsInv DEF RleNext

LEMMA RleInvariant == RleSpec => []RleInv
BY RleInitInv, RleNextKeepsInv, PTL DEF RleSpec

\* Whatever the bitmap, the palette and the number of values of a length byte,
\* what is uploaded decodes to what was drawn, in the colours of the palette, and
\* the encoder writes no byte that decoders read in different ways.
THEOREM EveryBitmapRoundTrips == RleSpec => []BitmapRoundTrips
<1>1. RleInv => BitmapRoundTrips
  <2>1. SUFFICES ASSUME RleInv
                 PROVE  BitmapRoundTrips
    OBVIOUS
  <2>2. /\ bitmap \in Seq(Nat) /\ DOMAIN bitmap = 1..Len(bitmap)
        /\ data \in Seq(Pairs) /\ DOMAIN data = 1..Len(data)
    BY <2>1 DEF RleInv, RleTyped
  <2>3. \A i \in DOMAIN data : data[i][2] # SpecialLengthMarker
    <3>1. \A i \in DOMAIN data : data[i] \in Pairs
      BY <2>2
    <3>2. \A pair \in Pairs : pair[2] # SpecialLengthMarker
      BY PairParts, BytesHaveAHighBit DEF SpecialLengthMarker
    <3>3. QED
      BY <3>1, <3>2
  <2>4. QED
    BY <2>1, <2>2, <2>3 DEF RleInv, BitmapRoundTrips
<1>2. QED
  BY <1>1, RleInvariant, PTL

=============================================================================
