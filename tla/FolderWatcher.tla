---------------------------- MODULE FolderWatcher ----------------------------
(***************************************************************************)
(* The local watcher (watcher.py) of one note file, and the callback with  *)
(* which ingest_service.py hands the file to the ingest service.           *)
(*                                                                         *)
(*   content, readable  the file: its bytes, and whether they can be read  *)
(*   notified    whether the operating system owes the watcher an event    *)
(*   pending     the time of the last event not claimed, or 0: _pending    *)
(*   threads     the threads that handle_event started                     *)
(*   checksum    the last content processed, or 0: _checksums              *)
(*   taken       the bytes of the last coroutine given to the event loop,  *)
(*               or 0                                                      *)
(*   given, unread  (history) the bytes given to the event loop, and those *)
(*               that could not be read when it was their turn             *)
(*   past        (history) the bytes that the file had before              *)
(*   overlapped  (history) whether two callbacks ever were between reading *)
(*               the file and scheduling their coroutine at the same time  *)
(*                                                                         *)
(* Threads interleave at every lock, file access, shared dictionary and    *)
(* call of the event loop, which runs coroutines in the order given.  How  *)
(* long the debounce lasts is not modelled: a thread wakes up at any time. *)
(*                                                                         *)
(* Abstractions: the bytes of the file are a number; time.monotonic()      *)
(* counts events.                                                          *)
(***************************************************************************)
EXTENDS Naturals

CONSTANTS
  MaxContents,   \* bound: different bytes of the file
  MaxEvents      \* bound: events of the operating system

Contents == 1..MaxContents

VARIABLES content, readable, notified, pending, threads, checksum, taken,
          given, unread, past, overlapped, events

fileVars == <<content, readable, notified, past>>
handoverVars == <<taken, given, unread, overlapped>>
folderVars == <<fileVars, pending, threads, checksum, handoverVars, events>>

(***************************************************************************)
(* The file.                                                               *)
(***************************************************************************)

\* A write is followed by a notification; several may be merged into one.
EditFile ==
  /\ content' \in Contents \ {content} /\ notified' = TRUE
  /\ past' = past \cup {content}
  /\ UNCHANGED <<readable, pending, threads, checksum, handoverVars, events>>

\* The sync client moves, locks or replaces the file, and is done with that.
ToggleReadable ==
  /\ readable' = ~readable
  /\ UNCHANGED <<content, past, notified, pending, threads, checksum, handoverVars, events>>

(***************************************************************************)
(* SupernoteWatcher.handle_event and the thread that it starts.            *)
(***************************************************************************)

\* The operating system may report a write more than once.
HandleEvent ==
  /\ notified /\ events < MaxEvents
  /\ notified' \in BOOLEAN
  /\ events' = events + 1
  /\ pending' = events + 1
  /\ threads' = threads \cup {[time |-> events + 1, pc |-> "sleep"]}
  /\ UNCHANGED <<content, readable, past, checksum, handoverVars>>

Exit(t) == threads' = threads \ {t}

GoTo(t, next) == threads' = (threads \ {t}) \cup {next}

\* Mutant: a thread that was superseded takes the event with it.
SupersededClears(t) ==
  /\ t.pc = "sleep" /\ pending # t.time
  /\ pending' = 0
  /\ Exit(t)
  /\ UNCHANGED <<fileVars, checksum, handoverVars, events>>

\* A newer event has its own thread.
Superseded(t) ==
  /\ t.pc = "sleep" /\ pending # t.time
  /\ Exit(t)
  /\ UNCHANGED <<fileVars, pending, checksum, handoverVars, events>>

Claim(t) ==
  /\ t.pc = "sleep" /\ pending = t.time
  /\ pending' = 0
  /\ GoTo(t, [t EXCEPT !.pc = "read"])
  /\ UNCHANGED <<fileVars, checksum, handoverVars, events>>

\* _checksum reads the whole file; an unreadable one ends the thread.
Checksum(t) ==
  /\ t.pc = "read"
  /\ IF readable
       THEN /\ GoTo(t, [time |-> t.time, pc |-> "compare", sum |-> content])
            /\ UNCHANGED unread
       ELSE Exit(t) /\ unread' = unread \cup {content}
  /\ UNCHANGED <<fileVars, pending, checksum, taken, given, overlapped, events>>

\* The checksum is recorded before the callback runs.
Compare(t) ==
  /\ t.pc = "compare"
  /\ IF t.sum = checksum
       THEN Exit(t) /\ UNCHANGED checksum
       ELSE checksum' = t.sum /\ GoTo(t, [time |-> t.time, pc |-> "callback"])
  /\ UNCHANGED <<fileVars, pending, handoverVars, events>>

\* on_file_changed reads the file again, and gives up if it cannot.
ReadBytes(t) ==
  /\ t.pc = "callback"
  /\ IF readable
       THEN /\ GoTo(t, [time |-> t.time, pc |-> "schedule", bytes |-> content])
            /\ overlapped' = (overlapped \/ \E u \in threads : u.pc = "schedule")
            /\ UNCHANGED unread
       ELSE /\ Exit(t) /\ unread' = unread \cup {content}
            /\ UNCHANGED overlapped
  /\ UNCHANGED <<fileVars, pending, checksum, taken, given, events>>

\* run_coroutine_threadsafe.
ScheduleCoroutine(t) ==
  /\ t.pc = "schedule"
  /\ Exit(t)
  /\ taken' = t.bytes /\ given' = given \cup {t.bytes}
  /\ UNCHANGED <<fileVars, pending, checksum, unread, overlapped, events>>

(***************************************************************************)
(* Specification.                                                          *)
(***************************************************************************)

FolderInit ==
  /\ content = 1 /\ past = {1} /\ readable = TRUE /\ notified = FALSE
  /\ pending = 0 /\ threads = {} /\ events = 0
  /\ checksum = 0 /\ taken = 0 /\ given = {} /\ unread = {} /\ overlapped = FALSE

FolderNext ==
  \/ EditFile
  \/ ToggleReadable
  \/ HandleEvent
  \/ \E t \in threads :
       \/ Superseded(t) \/ Claim(t) \/ Checksum(t) \/ Compare(t)
       \/ ReadBytes(t) \/ ScheduleCoroutine(t)

FolderSpec == FolderInit /\ [][FolderNext]_folderVars

(***************************************************************************)
(* Properties.                                                             *)
(***************************************************************************)

\* Once no thread is left and no event is on its way, the latest bytes of the
\* file were given to the ingest service, if they are new and could be read: the
\* last edit of a burst is never the one that the debounce drops.  They were given
\* last, too, unless two callbacks overlapped: then the one that read the file
\* first may be the second to schedule what it read, and nothing follows it.
QuietMeansTaken ==
  threads = {} /\ ~notified /\ content \notin past \cup unread =>
    /\ content \in given
    /\ taken = content \/ overlapped

=============================================================================
