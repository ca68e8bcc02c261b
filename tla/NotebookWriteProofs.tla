------------------------- MODULE NotebookWriteProofs -------------------------
(***************************************************************************)
(* Proofs about NotebookWrite, for any number of requests, organizers and  *)
(* disturbances: a write request changes a notebook once at most, however  *)
(* often it is delivered, and an append that is reported as completed has  *)
(* extended the revision that its agent had read.                          *)
(***************************************************************************)
EXTENDS NotebookWrite, FiniteSetTheorems, TLAPS

Steps == {"check", "download", "siblings", "locate", "delete", "absent", "upload",
          "settle", "verify"}

\* The steps of an operation that has made its new content.
Built == {"siblings", "locate", "delete", "absent", "upload", "settle", "verify"}

Change == {"original", "edit", "request", "reorder"} \X Nat

\* A content has each request once at most, and only the first n of them.
Sound(note, n) ==
  /\ note \in Contents
  /\ \A i \in DOMAIN note : note[i][1] = "request" => note[i][2] <= n
  /\ \A i, j \in DOMAIN note : note[i] = note[j] /\ note[i][1] = "request" => i = j

(***************************************************************************)
(* Contents.                                                               *)
(***************************************************************************)

LEMMA SoundIsContent ==
  ASSUME NEW note, NEW n, Sound(note, n)
  PROVE  note \in Contents
BY DEF Sound

LEMMA SoundLater ==
  ASSUME NEW note, NEW n \in Nat, NEW m \in Nat, n <= m, Sound(note, n)
  PROVE  Sound(note, m)
<1>1. \A i \in DOMAIN note : note[i] \in Change
  BY DEF Sound, Contents, Change
<1>2. \A i \in DOMAIN note : note[i][2] \in Nat
  BY <1>1 DEF Change
<1>3. QED
  BY <1>2 DEF Sound

\* A change that a content does not have yet may be appended to it.
LEMMA AppendIsSound ==
  ASSUME NEW note, NEW n \in Nat, Sound(note, n), NEW change \in Change,
         change[1] = "request" =>
           change[2] <= n /\ \A i \in DOMAIN note : note[i] # change
  PROVE  Sound(Append(note, change), n)
<1> DEFINE longer == Append(note, change)
           last == Len(note) + 1
<1>1. note \in Seq(Change)
  BY DEF Sound, Contents, Change
<1>2. /\ longer \in Seq(Change)
      /\ DOMAIN longer = 1..last
      /\ longer[last] = change
      /\ \A i \in DOMAIN note : longer[i] = note[i]
      /\ \A i \in 1..last : i = last \/ i \in DOMAIN note
      /\ Len(note) \in Nat
  BY <1>1
<1> HIDE DEF longer, last
<1>3. longer \in Contents
  BY <1>2 DEF Contents, Change
<1>4. \A i \in DOMAIN longer : longer[i][1] = "request" => longer[i][2] <= n
  BY <1>2 DEF Sound
<1>5. \A i, j \in DOMAIN longer :
        longer[i] = longer[j] /\ longer[i][1] = "request" => i = j
  BY <1>2 DEF Sound
<1>6. QED
  BY <1>3, <1>4, <1>5 DEF Sound, longer

LEMMA ChangesAreTyped ==
  ASSUME NEW k \in Nat
  PROVE  /\ Edit(k) \in Change /\ Edit(k)[1] = "edit"
         /\ Request(k) \in Change /\ Request(k)[1] = "request" /\ Request(k)[2] = k
         /\ Reorder(k) \in Change /\ Reorder(k)[1] = "reorder"
BY DEF Edit, Request, Reorder, Change

\* The first content of a notebook, and the one that replaces all pages.
LEMMA SingleIsSound ==
  ASSUME NEW n \in Nat, NEW change \in Change, change[1] = "request" => change[2] <= n
  PROVE  Sound(<<change>>, n)
<1>1. <<change>> \in Seq(Change) /\ DOMAIN <<change>> = {1} /\ <<change>>[1] = change
  OBVIOUS
<1>2. QED
  BY <1>1 DEF Sound, Contents, Change

\* The request that is published next is in no content yet.
LEMMA RequestIsNew ==
  ASSUME NEW k \in Nat \ {0}, NEW note, Sound(note, k - 1)
  PROVE  Sound(Append(note, Request(k)), k)
<1>1. \A i \in DOMAIN note : note[i] # Request(k)
  BY ChangesAreTyped DEF Sound
<1>2. Sound(note, k)
  BY SoundLater
<1>3. QED
  BY <1>1, <1>2, ChangesAreTyped, AppendIsSound

(***************************************************************************)
(* The inductive invariant.                                                *)
(***************************************************************************)

ServiceOperation ==
  [pc: Steps, kind: Kinds, event: Nat, base: Contents, change: Change,
   retried: BOOLEAN, new: Contents]

ReorderOperation ==
  [pc: Steps, kind: {"reorder"}, base: Contents, change: Change,
   retried: BOOLEAN, new: Contents]

\* The service carries out a published request on the revision it is based on;
\* an append that has its new content extends this revision.
CarriesOutRequest(o) ==
  /\ o \in ServiceOperation
  /\ o.event \in DOMAIN events
  /\ o.kind = events[o.event].kind
  /\ o.base = events[o.event].base
  /\ o.change = Request(o.event)
  /\ o.kind = "append" /\ o.pc \in Built => o.new = Append(o.base, o.change)

CarriesOutReorder(o) == o \in ReorderOperation /\ o.change[1] = "reorder"

OperationFits(p, o) ==
  /\ IF p = Service THEN CarriesOutRequest(o) ELSE CarriesOutReorder(o)
  /\ Sound(o.base, Len(events))
  /\ Sound(o.new, Len(events))

OperationsFit ==
  /\ DOMAIN op = Processes
  /\ \A p \in Processes : op[p] = Idle \/ OperationFits(p, op[p])

\* Wherever a notebook is kept, it is sound; a request is based on a revision
\* that is older than itself.
NotesAreSound ==
  /\ cloudNote = None \/ Sound(cloudNote, Len(events))
  /\ Sound(deviceNote, Len(events))
  /\ Sound(cached, Len(events))

BasesAreEarlier ==
  /\ events \in Seq([kind: Kinds, base: Contents])
  /\ \A k \in DOMAIN events : Sound(events[k].base, k - 1)

AnswersAreTyped ==
  /\ siblings \subseteq {"numbered", "conflict"}
  /\ outcome \in [1..Len(events) -> {None, "completed", "failed"}]
  /\ sinceId \in 0..Len(events)
  /\ disturbances \in Nat

WriteInv == NotesAreSound /\ BasesAreEarlier /\ AnswersAreTyped /\ OperationsFit

LEMMA BusyOperation ==
  ASSUME WriteInv, NEW p \in Processes, op[p].pc # "idle" \/ op[p] # Idle
  PROVE  OperationFits(p, op[p])
BY DEF WriteInv, OperationsFit, Idle

\* What an operation that fits has, whoever carries it out.
LEMMA FittingOperation ==
  ASSUME WriteInv, NEW p \in Processes, NEW o, OperationFits(p, o)
  PROVE  /\ o.pc \in Steps /\ o.retried \in BOOLEAN /\ o.change \in Change
         /\ Sound(o.base, Len(events)) /\ Sound(o.new, Len(events))
         /\ p # Service => o.kind = "reorder"
BY DEF OperationFits, CarriesOutRequest, CarriesOutReorder, ServiceOperation, ReorderOperation

\* An operation that goes on to a later step still fits.
LEMMA NextStepFits ==
  ASSUME NEW p \in Processes, NEW o, OperationFits(p, o), NEW pc \in Steps,
         pc \in Built => o.pc \in Built
  PROVE  OperationFits(p, [o EXCEPT !.pc = pc])
<1> DEFINE next == [o EXCEPT !.pc = pc]
<1>1. CASE p = Service
  <2>1. o \in ServiceOperation
    BY <1>1 DEF OperationFits, CarriesOutRequest
  <2>2. /\ next \in ServiceOperation /\ next.pc = pc /\ next.event = o.event
        /\ next.kind = o.kind /\ next.base = o.base /\ next.change = o.change
        /\ next.new = o.new
    BY <2>1 DEF ServiceOperation
  <2> HIDE DEF next
  <2>3. QED
    BY <1>1, <2>2 DEF OperationFits, CarriesOutRequest, next
<1>2. CASE p # Service
  <2>1. o \in ReorderOperation
    BY <1>2 DEF OperationFits, CarriesOutReorder
  <2>2. /\ next \in ReorderOperation /\ next.base = o.base /\ next.change = o.change
        /\ next.new = o.new
    BY <2>1 DEF ReorderOperation
  <2> HIDE DEF next
  <2>3. QED
    BY <1>2, <2>2 DEF OperationFits, CarriesOutReorder, next
<1>3. QED
  BY <1>1, <1>2

(***************************************************************************)
(* Steps of one operation.                                                 *)
(***************************************************************************)

\* An operation goes on; the Cloud may have been changed to what is sound.
LEMMA MoveKeepsInv ==
  ASSUME WriteInv, NEW p \in Processes, NEW o, OperationFits(p, o),
         op' = [op EXCEPT ![p] = o],
         UNCHANGED <<deviceNote, cached, events, sinceId, outcome>>,
         cloudNote' = None \/ Sound(cloudNote', Len(events)),
         siblings' \subseteq {"numbered", "conflict"}, disturbances' \in Nat
  PROVE  WriteInv'
<1>1. NotesAreSound' /\ BasesAreEarlier' /\ AnswersAreTyped'
  BY DEF WriteInv, NotesAreSound, BasesAreEarlier, AnswersAreTyped
<1>2. \A q \in Processes : op'[q] = IF q = p THEN o ELSE op[q]
  BY DEF WriteInv, OperationsFit
<1>3. \A q, r : OperationFits(q, r) => OperationFits(q, r)'
  BY DEF OperationFits, CarriesOutRequest, CarriesOutReorder
<1>4. OperationsFit'
  BY <1>2, <1>3 DEF WriteInv, OperationsFit
<1>5. QED
  BY <1>1, <1>4 DEF WriteInv

\* Everything but the operations and what the service has answered stays.
LEMMA IdleKeepsInv ==
  ASSUME WriteInv, NEW p \in Processes, op' = [op EXCEPT ![p] = Idle] \/ op' = op,
         UNCHANGED <<cloudNote, siblings, deviceNote, cached, events>>,
         outcome' \in [1..Len(events) -> {None, "completed", "failed"}],
         sinceId' \in 0..Len(events), disturbances' \in Nat
  PROVE  WriteInv'
<1>1. NotesAreSound' /\ BasesAreEarlier' /\ AnswersAreTyped'
  BY DEF WriteInv, NotesAreSound, BasesAreEarlier, AnswersAreTyped
<1>2. DOMAIN op' = Processes /\ \A q \in Processes : op'[q] = op[q] \/ op'[q] = Idle
  BY DEF WriteInv, OperationsFit
<1>3. \A q, r : OperationFits(q, r) => OperationFits(q, r)'
  BY DEF OperationFits, CarriesOutRequest, CarriesOutReorder
<1>4. OperationsFit'
  BY <1>2, <1>3 DEF WriteInv, OperationsFit
<1>5. QED
  BY <1>1, <1>4 DEF WriteInv

LEMMA EndKeepsInv ==
  ASSUME WriteInv, NEW p \in Processes, OperationFits(p, op[p]),
         NEW result \in {"completed", "failed"}, End(p, result),
         UNCHANGED <<cloudVars, deviceNote, cached, events, disturbances>>
  PROVE  WriteInv'
<1>1. p = Service => op[p].event \in 1..Len(events)
  BY DEF OperationFits, CarriesOutRequest, WriteInv, BasesAreEarlier
<1>2. Len(events) \in Nat
  BY DEF WriteInv, BasesAreEarlier
<1>3. /\ outcome' \in [1..Len(events) -> {None, "completed", "failed"}]
      /\ sinceId' \in 0..Len(events)
  BY <1>1, <1>2 DEF End, Answer, WriteInv, AnswersAreTyped
<1>4. disturbances' \in Nat
  BY DEF WriteInv, AnswersAreTyped
<1>5. QED
  BY <1>3, <1>4, IdleKeepsInv DEF End, cloudVars

LEMMA ProceedKeepsInv ==
  ASSUME WriteInv, NEW p \in Processes, Proceed(p)
  PROVE  WriteInv'
<1>0. OperationFits(p, op[p])
  <2>1. op[p].pc # "idle"
    BY DEF Proceed, CheckConflicts, Download, DownloadTemplate, CheckSiblings, Locate,
           Delete, WaitAbsent, Upload, Settle, Verify, At
  <2>2. QED
    BY <2>1, BusyOperation
<1>n. /\ Len(events) \in Nat /\ disturbances \in Nat
      /\ siblings \subseteq {"numbered", "conflict"}
      /\ cloudNote = None \/ Sound(cloudNote, Len(events))
  BY DEF WriteInv, BasesAreEarlier, AnswersAreTyped, NotesAreSound
<1>o. /\ op[p].pc \in Steps /\ Sound(op[p].base, Len(events))
      /\ Sound(op[p].new, Len(events)) /\ op[p].change \in Change
  BY <1>0, FittingOperation
<1>goto. ASSUME NEW pc \in Steps, pc \in Built => op[p].pc \in Built, Goto(p, pc),
                UNCHANGED <<deviceNote, cached, events, sinceId, outcome>>,
                cloudNote' = None \/ Sound(cloudNote', Len(events)),
                siblings' \subseteq {"numbered", "conflict"}, disturbances' = disturbances
         PROVE  WriteInv'
  <2> DEFINE next == [op[p] EXCEPT !.pc = pc]
  <2>1. OperationFits(p, next)
    BY <1>0, <1>goto, NextStepFits
  <2>2. op' = [op EXCEPT ![p] = next]
    BY <1>goto DEF Goto
  <2> HIDE DEF next
  <2>3. QED
    BY <1>n, <1>goto, <2>1, <2>2, MoveKeepsInv
<1>1. CASE CheckConflicts(p)
  <2>1. CASE Goto(p, "download") /\ UNCHANGED <<sinceId, outcome>>
    BY <1>1, <1>goto, <1>n, <2>1 DEF CheckConflicts, cloudVars, Steps, Built
  <2>2. CASE End(p, "failed")
    BY <1>0, <1>1, <2>2, EndKeepsInv DEF CheckConflicts
  <2>3. QED
    BY <1>1, <2>1, <2>2 DEF CheckConflicts
<1>2. CASE Download(p)
  <2>1. CASE cloudNote = None \/ cloudNote # op[p].base
    BY <1>0, <1>2, <2>1, EndKeepsInv DEF Download
  <2>2. CASE ~(cloudNote = None \/ cloudNote # op[p].base)
    <3> DEFINE new == Append(cloudNote, op[p].change)
               next == [op[p] EXCEPT !.pc = "siblings", !.new = new]
    <3>1. op' = [op EXCEPT ![p] = next]
      BY <1>2, <2>2 DEF Download
    <3>2. Sound(new, Len(events))
      <4>1. CASE p = Service
        <5>1. /\ op[p].event \in DOMAIN events /\ op[p].base = events[op[p].event].base
              /\ op[p].change = Request(op[p].event)
          BY <1>0, <4>1 DEF OperationFits, CarriesOutRequest
        <5>2. /\ op[p].event \in Nat \ {0} /\ op[p].event <= Len(events)
              /\ Sound(op[p].base, op[p].event - 1)
          BY <1>n, <5>1 DEF WriteInv, BasesAreEarlier
        <5>3. Sound(new, op[p].event)
          BY <2>2, <5>1, <5>2, RequestIsNew
        <5> HIDE DEF new
        <5>4. QED
          BY <1>n, <5>2, <5>3, SoundLater
      <4>2. CASE p # Service
        <5>1. op[p].change[1] = "reorder"
          BY <1>0, <4>2 DEF OperationFits, CarriesOutReorder
        <5>2. QED
          BY <1>n, <1>o, <2>2, <5>1, AppendIsSound
      <4>3. QED
        BY <4>1, <4>2
    <3>3. new = Append(op[p].base, op[p].change) /\ new \in Contents
      BY <2>2, <3>2, SoundIsContent
    <3> HIDE DEF new
    <3>4. OperationFits(p, next)
      <4>1. CASE p = Service
        <5>1. op[p] \in ServiceOperation
          BY <1>0, <4>1 DEF OperationFits, CarriesOutRequest
        <5>2. /\ next \in ServiceOperation /\ next.new = new /\ next.event = op[p].event
              /\ next.kind = op[p].kind /\ next.base = op[p].base
              /\ next.change = op[p].change
          BY <3>3, <5>1 DEF ServiceOperation, Steps
        <5> HIDE DEF next
        <5>3. QED
          BY <1>0, <1>o, <3>2, <3>3, <4>1, <5>2 DEF OperationFits, CarriesOutRequest
      <4>2. CASE p # Service
        <5>1. op[p] \in ReorderOperation
          BY <1>0, <4>2 DEF OperationFits, CarriesOutReorder
        <5>2. /\ next \in ReorderOperation /\ next.new = new /\ next.base = op[p].base
              /\ next.change = op[p].change
          BY <3>3, <5>1 DEF ReorderOperation, Steps
        <5> HIDE DEF next
        <5>3. QED
          BY <1>0, <1>o, <3>2, <4>2, <5>2 DEF OperationFits, CarriesOutReorder
      <4>3. QED
        BY <4>1, <4>2
    <3> HIDE DEF next
    <3>5. QED
      BY <1>2, <1>n, <2>2, <3>1, <3>4, MoveKeepsInv DEF Download, cloudVars
  <2>3. QED
    BY <2>1, <2>2
<1>3. CASE DownloadTemplate(p)
  <2> DEFINE new == <<op[p].change>>
             next == [op[p] EXCEPT !.pc = "siblings", !.new = new]
  <2>1. op' = [op EXCEPT ![p] = next] /\ op[p].kind = "replace_pages"
    BY <1>3 DEF DownloadTemplate
  <2>2. p = Service
    BY <1>0, <2>1, FittingOperation
  <2>3. op[p] \in ServiceOperation /\ op[p].event \in DOMAIN events
        /\ op[p].change = Request(op[p].event)
    BY <1>0, <2>2 DEF OperationFits, CarriesOutRequest
  <2>4. Sound(new, Len(events))
    <3>1. op[p].event \in Nat /\ op[p].event <= Len(events)
      BY <2>3, <1>n DEF WriteInv, BasesAreEarlier
    <3>2. QED
      BY <1>n, <1>o, <2>3, <3>1, ChangesAreTyped, SingleIsSound
  <2>5. new \in Contents
    BY <2>4, SoundIsContent
  <2> HIDE DEF new
  <2>6. /\ next \in ServiceOperation /\ next.new = new /\ next.event = op[p].event
        /\ next.kind = op[p].kind /\ next.base = op[p].base /\ next.change = op[p].change
    BY <2>3, <2>5 DEF ServiceOperation, Steps
  <2> HIDE DEF next
  <2>7. OperationFits(p, next)
    BY <1>0, <1>o, <2>1, <2>2, <2>4, <2>6 DEF OperationFits, CarriesOutRequest
  <2>8. QED
    BY <1>3, <1>n, <2>1, <2>7, MoveKeepsInv DEF DownloadTemplate, cloudVars, requestVars
<1>4. CASE CheckSiblings(p)
  <2>1. CASE Goto(p, "locate") /\ UNCHANGED <<sinceId, outcome>>
    BY <1>4, <1>goto, <1>n, <2>1 DEF CheckSiblings, At, cloudVars, Steps, Built
  <2>2. CASE End(p, "failed")
    BY <1>0, <1>4, <2>2, EndKeepsInv DEF CheckSiblings
  <2>3. QED
    BY <1>4, <2>1, <2>2 DEF CheckSiblings
<1>5. CASE Locate(p)
  BY <1>5, <1>goto, <1>n DEF Locate, At, cloudVars, requestVars, Steps, Built
<1>6. CASE Delete(p)
  BY <1>6, <1>goto, <1>n DEF Delete, At, requestVars, Steps, Built
<1>7. CASE WaitAbsent(p)
  <2>1. CASE Goto(p, "upload") /\ UNCHANGED <<sinceId, outcome>>
    BY <1>7, <1>goto, <1>n, <2>1 DEF WaitAbsent, At, cloudVars, Steps, Built
  <2>2. CASE End(p, "failed")
    BY <1>0, <1>7, <2>2, EndKeepsInv DEF WaitAbsent
  <2>3. QED
    BY <1>7, <2>1, <2>2 DEF WaitAbsent
<1>8. CASE Upload(p)
  BY <1>8, <1>goto, <1>n, <1>o DEF Upload, Store, At, requestVars, Steps, Built
<1>9. CASE Settle(p)
  <2>1. CASE Goto(p, "verify") /\ UNCHANGED <<sinceId, outcome>>
    BY <1>9, <1>goto, <1>n, <2>1 DEF Settle, At, cloudVars, Steps, Built
  <2>2. CASE End(p, "failed") \/ End(p, "completed")
    BY <1>0, <1>9, <2>2, EndKeepsInv DEF Settle
  <2>3. QED
    BY <1>9, <2>1, <2>2 DEF Settle
<1>10. CASE Verify(p)
  BY <1>0, <1>10, EndKeepsInv DEF Verify
<1>11. QED
  BY <1>1, <1>2, <1>3, <1>4, <1>5, <1>6, <1>7, <1>8, <1>9, <1>10 DEF Proceed

\* A retry starts from the first check, with the request it had.
LEMMA RetryKeepsInv ==
  ASSUME WriteInv, NEW p \in Processes, Retry(p)
  PROVE  WriteInv'
<1> DEFINE next == [op[p] EXCEPT !.pc = "check", !.retried = TRUE]
<1>1. OperationFits(p, op[p])
  BY BusyOperation DEF Retry
<1>2. p = Service
  BY <1>1, FittingOperation DEF Retry
<1>3. op[p] \in ServiceOperation
  BY <1>1, <1>2 DEF OperationFits, CarriesOutRequest
<1>4. /\ next \in ServiceOperation /\ next.pc = "check" /\ next.event = op[p].event
      /\ next.kind = op[p].kind /\ next.base = op[p].base /\ next.change = op[p].change
      /\ next.new = op[p].new
  BY <1>3 DEF ServiceOperation, Steps
<1>5. op' = [op EXCEPT ![p] = next]
  BY DEF Retry
<1> HIDE DEF next
<1>6. OperationFits(p, next)
  BY <1>1, <1>2, <1>4 DEF OperationFits, CarriesOutRequest, Built
<1>7. /\ cloudNote' = None \/ Sound(cloudNote', Len(events))
      /\ siblings' \subseteq {"numbered", "conflict"} /\ disturbances' \in Nat
  BY DEF Retry, cloudVars, WriteInv, NotesAreSound, AnswersAreTyped
<1>8. QED
  BY <1>5, <1>6, <1>7, MoveKeepsInv DEF Retry, requestVars

(***************************************************************************)
(* Requests, and where operations begin and stop.                          *)
(***************************************************************************)

\* A request is based on what is cached, which has no later request.
LEMMA PublishKeepsInv ==
  ASSUME WriteInv, NEW kind \in Kinds, Publish(kind)
  PROVE  WriteInv'
<1> DEFINE n == Len(events)
           event == [kind |-> kind, base |-> cached]
<1>1. /\ Sound(cached, n) /\ cached \in Contents /\ n \in Nat
      /\ events \in Seq([kind: Kinds, base: Contents])
  BY SoundIsContent DEF WriteInv, NotesAreSound, BasesAreEarlier
<1>2. /\ events' \in Seq([kind: Kinds, base: Contents]) /\ Len(events') = n + 1
      /\ events'[n + 1] = event
      /\ \A k \in 1..n : events'[k] = events[k]
      /\ DOMAIN events = 1..n /\ DOMAIN events' = 1..(n + 1)
  BY <1>1 DEF Publish
<1> HIDE DEF n
<1>3. \A note : Sound(note, n) => Sound(note, n + 1)
  BY <1>1, SoundLater
<1>4. NotesAreSound'
  BY <1>2, <1>3 DEF Publish, cloudVars, WriteInv, NotesAreSound, n
<1>5. BasesAreEarlier'
  BY <1>1, <1>2 DEF WriteInv, BasesAreEarlier
<1>6. AnswersAreTyped'
  <2>1. /\ outcome \in [1..n -> {None, "completed", "failed"}]
        /\ outcome' = Append(outcome, None)
    BY DEF Publish, WriteInv, AnswersAreTyped, n
  <2>2. outcome \in Seq({None, "completed", "failed"}) /\ Len(outcome) = n
    BY <1>1, <2>1
  <2>3. outcome' \in Seq({None, "completed", "failed"}) /\ Len(outcome') = n + 1
    BY <2>1, <2>2
  <2>4. outcome' \in [1..(n + 1) -> {None, "completed", "failed"}]
    BY <2>3
  <2>5. sinceId' \in 0..(n + 1) /\ siblings' \subseteq {"numbered", "conflict"}
        /\ disturbances' \in Nat
    BY <1>1 DEF Publish, cloudVars, WriteInv, AnswersAreTyped, n
  <2>6. QED
    BY <1>2, <2>4, <2>5 DEF AnswersAreTyped
<1>7. \A p, o : OperationFits(p, o) => OperationFits(p, o)'
  <2>1. ASSUME NEW p, NEW o, OperationFits(p, o)
        PROVE  OperationFits(p, o)'
    <3>1. Sound(o.base, n + 1) /\ Sound(o.new, n + 1)
      BY <1>3, <2>1 DEF OperationFits, n
    <3>2. CarriesOutRequest(o) => CarriesOutRequest(o)'
      BY <1>1, <1>2 DEF CarriesOutRequest
    <3>3. CarriesOutReorder(o) => CarriesOutReorder(o)'
      BY DEF CarriesOutReorder
    <3>4. QED
      BY <1>2, <2>1, <3>1, <3>2, <3>3 DEF OperationFits
  <2>2. QED
    BY <2>1
<1>8. OperationsFit'
  BY <1>7 DEF Publish, WriteInv, OperationsFit
<1>9. QED
  BY <1>4, <1>5, <1>6, <1>8 DEF WriteInv

LEMMA DeliverKeepsInv ==
  ASSUME WriteInv, Deliver
  PROVE  WriteInv'
<1> DEFINE k == sinceId + 1
           next == [pc |-> IF events[k].kind = "append" THEN "download" ELSE "check",
                    kind |-> events[k].kind, event |-> k, base |-> events[k].base,
                    change |-> Request(k), retried |-> FALSE, new |-> <<>>]
<1>e. events \in Seq([kind: Kinds, base: Contents])
  BY DEF WriteInv, BasesAreEarlier
<1>s. /\ sinceId \in 0..Len(events)
      /\ disturbances \in Nat /\ siblings \subseteq {"numbered", "conflict"}
      /\ cloudNote = None \/ Sound(cloudNote, Len(events))
      /\ \A j \in DOMAIN events : Sound(events[j].base, j - 1)
  BY DEF WriteInv, BasesAreEarlier, AnswersAreTyped, NotesAreSound
<1>k. k <= Len(events)
  BY DEF Deliver
<1>1. /\ Len(events) \in Nat /\ sinceId \in Nat /\ k \in Nat \ {0} /\ k \in DOMAIN events
      /\ events[k].kind \in Kinds /\ events[k].base \in Contents
      /\ Sound(events[k].base, k - 1) /\ disturbances \in Nat
      /\ cloudNote = None \/ Sound(cloudNote, Len(events))
      /\ siblings \subseteq {"numbered", "conflict"}
  <2>1. Len(events) \in Nat /\ DOMAIN events = 1..Len(events)
    BY <1>e
  <2>2. sinceId \in Nat /\ k \in Nat \ {0}
    BY <1>s, <2>1
  <2>3. k \in DOMAIN events
    BY <1>k, <2>1, <2>2
  <2> HIDE DEF k
  <2>4. \A j \in 1..Len(events) : events[j] \in [kind: Kinds, base: Contents]
    <3> DEFINE Event == [kind: Kinds, base: Contents]
    <3>1. events \in Seq(Event)
      BY <1>e
    <3> HIDE DEF Event
    <3>2. \A j \in 1..Len(events) : events[j] \in Event
      BY <3>1
    <3>3. QED
      BY <3>2 DEF Event
  <2>5. events[k] \in [kind: Kinds, base: Contents] /\ Sound(events[k].base, k - 1)
    BY <1>s, <2>1, <2>3, <2>4
  <2>6. QED
    BY <1>s, <2>1, <2>2, <2>3, <2>5 DEF k
<1>2. Service \in Processes
  BY DEF Processes
<1>3. CASE events[k].base # cached
  <2>1. Answer(k, "failed") /\ op' = op
    BY <1>3 DEF Deliver
  <2>2. /\ outcome' \in [1..Len(events) -> {None, "completed", "failed"}]
        /\ sinceId' \in 0..Len(events)
    BY <1>1, <2>1 DEF Answer, WriteInv, AnswersAreTyped, BasesAreEarlier
  <2>4. disturbances' \in Nat /\ UNCHANGED <<cloudNote, siblings, deviceNote, cached, events>>
    BY <1>1 DEF Deliver, cloudVars
  <2>5. QED
    BY <1>2, <2>1, <2>2, <2>4, IdleKeepsInv
<1>4. CASE events[k].base = cached
  <2>1. op' = [op EXCEPT ![Service] = next] /\ UNCHANGED <<sinceId, outcome>>
    BY <1>4 DEF Deliver
  <2>2. <<>> \in Contents /\ Sound(<<>>, Len(events))
    BY DEF Sound, Contents
  <2>3. Sound(events[k].base, Len(events))
    BY <1>1, SoundLater
  <2>4. Request(k) \in Change
    BY <1>1, ChangesAreTyped
  <2>5. /\ next \in ServiceOperation /\ next.pc \notin Built /\ next.event = k
        /\ next.kind = events[k].kind /\ next.base = events[k].base
        /\ next.change = Request(k) /\ next.new = <<>>
    BY <1>1, <2>2, <2>4 DEF ServiceOperation, Steps, Built
  <2> HIDE DEF next, k
  <2>6. OperationFits(Service, next)
    BY <1>1, <2>2, <2>3, <2>5 DEF OperationFits, CarriesOutRequest
  <2>7. UNCHANGED <<cloudNote, siblings, deviceNote, cached, events, disturbances>>
    BY DEF Deliver, cloudVars
  <2>8. QED
    BY <1>1, <1>2, <2>1, <2>6, <2>7, MoveKeepsInv
<1>5. QED
  BY <1>3, <1>4

LEMMA StartReorderKeepsInv ==
  ASSUME WriteInv, NEW p \in Organizers, StartReorder(p)
  PROVE  WriteInv'
<1> DEFINE next == [pc |-> "download", kind |-> "reorder", base |-> cloudNote,
                    change |-> Reorder(disturbances + 1), retried |-> TRUE, new |-> <<>>]
<1>1. /\ Sound(cloudNote, Len(events)) /\ cloudNote \in Contents /\ disturbances \in Nat
      /\ siblings \subseteq {"numbered", "conflict"}
  BY SoundIsContent DEF StartReorder, WriteInv, NotesAreSound, AnswersAreTyped
<1>2. <<>> \in Contents /\ Sound(<<>>, Len(events))
  BY DEF Sound, Contents
<1>3. /\ next \in ReorderOperation /\ next.change[1] = "reorder" /\ next.new = <<>>
      /\ next.base = cloudNote
  BY <1>1, <1>2, ChangesAreTyped DEF ReorderOperation, Steps
<1>4. op' = [op EXCEPT ![p] = next]
  BY DEF StartReorder
<1> HIDE DEF next
<1>5. OperationFits(p, next) /\ p \in Processes
  BY <1>1, <1>2, <1>3, ServiceIsNoOrganizer DEF OperationFits, CarriesOutReorder, Processes
<1>6. /\ UNCHANGED <<cloudNote, siblings, deviceNote, cached, events, sinceId, outcome>>
      /\ disturbances' \in Nat
  BY <1>1 DEF StartReorder, cloudVars, requestVars
<1>7. QED
  BY <1>1, <1>4, <1>5, <1>6, MoveKeepsInv

LEMMA StopKeepsInv ==
  ASSUME WriteInv, NEW p \in Processes, Fail(p) \/ Crash(p)
  PROVE  WriteInv'
<1>1. CASE Fail(p)
  BY <1>1, BusyOperation, EndKeepsInv DEF Fail
<1>2. CASE Crash(p)
  <2>1. /\ Len(events) \in Nat /\ sinceId \in 0..Len(events) /\ disturbances \in Nat
        /\ outcome \in [1..Len(events) -> {None, "completed", "failed"}]
    BY DEF WriteInv, AnswersAreTyped, BasesAreEarlier
  <2>2. /\ op' = [op EXCEPT ![p] = Idle] /\ outcome' = outcome
        /\ sinceId' = 0 \/ sinceId' = sinceId
        /\ disturbances' = disturbances + 1
        /\ UNCHANGED <<cloudNote, siblings, deviceNote, cached, events>>
    BY <1>2 DEF Crash, cloudVars
  <2>3. sinceId' \in 0..Len(events) /\ disturbances' \in Nat
    BY <2>1, <2>2
  <2>4. QED
    BY <2>1, <2>2, <2>3, IdleKeepsInv
<1>3. QED
  BY <1>1, <1>2

(***************************************************************************)
(* The poller, the device and its user.                                    *)
(***************************************************************************)

LEMMA EnvironmentKeepsInv ==
  ASSUME WriteInv,
         \/ Ingest \/ DeviceEdit \/ DeviceSync \/ DeviceRestores \/ DeviceConflict
         \/ UserRemovesSiblings \/ UNCHANGED vars
  PROVE  WriteInv'
<1>1. UNCHANGED <<events, sinceId, outcome, op>>
  BY DEF Ingest, DeviceEdit, DeviceSync, DeviceRestores, DeviceConflict,
         UserRemovesSiblings, vars, requestVars
<1>2. OperationsFit' /\ BasesAreEarlier'
  BY <1>1 DEF WriteInv, OperationsFit, OperationFits, CarriesOutRequest, CarriesOutReorder,
              BasesAreEarlier
<1>3. AnswersAreTyped'
  <2>1. siblings' = siblings \/ siblings' = siblings \cup {"conflict"} \/ siblings' = {}
    BY DEF Ingest, DeviceEdit, DeviceSync, DeviceRestores, DeviceConflict,
           UserRemovesSiblings, vars, cloudVars
  <2>2. disturbances' = disturbances \/ disturbances' = disturbances + 1
    BY DEF Ingest, DeviceEdit, DeviceSync, DeviceRestores, DeviceConflict,
           UserRemovesSiblings, vars
  <2>3. /\ siblings' \subseteq {"numbered", "conflict"}
        /\ disturbances' \in Nat
    <3>1. siblings' \subseteq {"numbered", "conflict"}
      BY <2>1 DEF WriteInv, AnswersAreTyped
    <3>2. disturbances \in Nat
      BY DEF WriteInv, AnswersAreTyped
    <3>3. QED
      BY <2>2, <3>1, <3>2
  <2>4. /\ outcome' \in [1..Len(events)' -> {None, "completed", "failed"}]
        /\ sinceId' \in 0..Len(events)'
    BY <1>1 DEF WriteInv, AnswersAreTyped
  <2>5. QED
    BY <2>3, <2>4 DEF AnswersAreTyped
<1>4. NotesAreSound'
  <2>1. CASE DeviceEdit
    <3>1. Sound(cloudNote, Len(events)) /\ Len(events) \in Nat /\ disturbances + 1 \in Nat
      BY <2>1 DEF DeviceEdit, WriteInv, NotesAreSound, BasesAreEarlier, AnswersAreTyped
    <3>2. Sound(Append(cloudNote, Edit(disturbances + 1)), Len(events))
      BY <3>1, ChangesAreTyped, AppendIsSound
    <3>3. QED
      BY <1>1, <2>1, <3>2 DEF DeviceEdit, WriteInv, NotesAreSound
  <2>2. CASE ~DeviceEdit
    BY <1>1, <2>2 DEF Ingest, DeviceSync, DeviceRestores, DeviceConflict,
         UserRemovesSiblings, vars, cloudVars, WriteInv, NotesAreSound
  <2>3. QED
    BY <2>1, <2>2
<1>5. QED
  BY <1>2, <1>3, <1>4 DEF WriteInv

LEMMA WriteNextKeepsInv ==
  ASSUME WriteInv, [WriteNext]_vars
  PROVE  WriteInv'
BY PublishKeepsInv, DeliverKeepsInv, StartReorderKeepsInv, ProceedKeepsInv, RetryKeepsInv,
   StopKeepsInv, EnvironmentKeepsInv DEF WriteNext

LEMMA WriteInitInv ==
  ASSUME WriteInit
  PROVE  WriteInv
<1>1. Sound(<<Original>>, 0)
  <2>1. Original \in Change /\ Original[1] # "request"
    BY DEF Original, Change
  <2>2. QED
    BY <2>1, SingleIsSound
<1>2. QED
  BY <1>1 DEF WriteInit, WriteInv, NotesAreSound, BasesAreEarlier, AnswersAreTyped,
              OperationsFit

LEMMA WriteInvariant == WriteSpec => []WriteInv
<1>1. WriteInit => WriteInv
  BY WriteInitInv
<1>2. WriteInv /\ [WriteNext]_vars => WriteInv'
  BY WriteNextKeepsInv
<1>3. QED
  BY <1>1, <1>2, PTL DEF WriteSpec

(***************************************************************************)
(* Theorems.                                                               *)
(***************************************************************************)

\* Contents, answers and operations in progress keep their type.
THEOREM WriteTypeCorrect == WriteSpec => []WriteTypeOK
<1>1. WriteInv => WriteTypeOK
  <2> SUFFICES ASSUME WriteInv
               PROVE  WriteTypeOK
    OBVIOUS
  <2>1. /\ cloudNote \in Contents \cup {None} /\ deviceNote \in Contents
        /\ cached \in Contents
    BY SoundIsContent DEF WriteInv, NotesAreSound
  <2>2. \A p \in Processes :
          op[p] = Idle \/ /\ op[p].pc \in Steps
                          /\ op[p].base \in Contents /\ op[p].new \in Contents
    BY BusyOperation, FittingOperation, SoundIsContent
  <2>3. QED
    BY <2>1, <2>2 DEF WriteTypeOK, WriteInv, AnswersAreTyped, Steps
<1>2. QED
  BY <1>1, WriteInvariant, PTL

\* However often a request is delivered, and whatever its first delivery has
\* done before it failed, its page is in the notebook once at most.
THEOREM RequestsAreAppliedOnce == WriteSpec => []NoRequestAppliedTwice
<1>1. WriteInv => NoRequestAppliedTwice
  <2> SUFFICES ASSUME WriteInv, cloudNote # None, NEW k \in DOMAIN events
               PROVE  Cardinality(Occurrences(cloudNote, Request(k))) <= 1
    BY DEF NoRequestAppliedTwice
  <2> DEFINE found == Occurrences(cloudNote, Request(k))
  <2>1. Request(k)[1] = "request"
    BY DEF Request
  <2>2. \A i, j \in found : i = j
    BY <2>1 DEF WriteInv, NotesAreSound, Sound, Occurrences
  <2>3. found = {} \/ \E i : found = {i}
    BY <2>2
  <2> HIDE DEF found
  <2>4. Cardinality(found) = 0 \/ Cardinality(found) = 1
    BY <2>3, FS_EmptySet, FS_Singleton
  <2>5. QED
    BY <2>4 DEF found
<1>2. QED
  BY <1>1, WriteInvariant, PTL

\* A completed append is the revision that its agent had read, with its page.
THEOREM CompletedAppendsExtendTheirBase == WriteSpec => CompletedAppendExtendsItsBase
<1> DEFINE Extends(k) ==
             events[k].kind = "append" /\ Completes(k) =>
               cloudNote = Append(events[k].base, Request(k))
<1>1. WriteInv /\ [WriteNext]_vars => [\A k \in DOMAIN events : Extends(k)]_vars
  <2> SUFFICES ASSUME WriteInv, WriteNext, NEW k \in DOMAIN events,
                      events[k].kind = "append", Completes(k)
               PROVE  cloudNote = Append(events[k].base, Request(k))
    OBVIOUS
  <2>1. /\ events \in Seq([kind: Kinds, base: Contents]) /\ k \in 1..Len(events)
        /\ outcome \in [1..Len(events) -> {None, "completed", "failed"}]
        /\ outcome[k] # "completed" /\ outcome'[k] = "completed"
    BY DEF WriteInv, BasesAreEarlier, AnswersAreTyped, Completes
  <2>2. ASSUME NEW j, NEW result, outcome' = [outcome EXCEPT ![j] = result]
        PROVE  j = k /\ result = "completed"
    BY <2>1, <2>2
  <2>3. ~UNCHANGED outcome
    BY <2>1
  <2>4. ~\E kind \in Kinds : Publish(kind)
    <3>1. SUFFICES ASSUME NEW kind \in Kinds, Publish(kind)
                   PROVE  FALSE
      OBVIOUS
    <3>2. outcome \in Seq({None, "completed", "failed"}) /\ Len(outcome) = Len(events)
      BY <2>1
    <3>3. outcome' = Append(outcome, None)
      BY <3>1 DEF Publish
    <3>4. outcome'[k] = outcome[k]
      BY <2>1, <3>2, <3>3
    <3>5. QED
      BY <2>1, <3>4
  <2>5. ~Deliver
    BY <2>2, <2>3 DEF Deliver, Answer
  <2>6. PICK p \in Processes : Proceed(p) \/ Fail(p)
    BY <2>3, <2>4, <2>5
       DEF WriteNext, StartReorder, Retry, Crash, Ingest, DeviceEdit, DeviceSync,
           DeviceRestores, DeviceConflict, UserRemovesSiblings, requestVars
  <2>7. ~End(p, "failed")
    BY <2>2, <2>3 DEF End, Answer
  <2>8. /\ End(p, "completed")
        /\ \/ op[p].pc = "settle" /\ op[p].kind # "append"
           \/ op[p].pc = "verify" /\ cloudNote = op[p].new
    BY <2>3, <2>6, <2>7
       DEF Proceed, Fail, CheckConflicts, Download, DownloadTemplate, CheckSiblings, Locate,
           Delete, WaitAbsent, Upload, Settle, Verify, At, requestVars
  <2>9. p = Service /\ op[p].event = k
    BY <2>2, <2>3, <2>8 DEF End, Answer
  <2>10. OperationFits(p, op[p])
    BY <2>8, BusyOperation
  <2>11. /\ op[p].kind = "append" /\ op[p].base = events[k].base
         /\ op[p].change = Request(k)
         /\ op[p].pc \in Built => op[p].new = Append(op[p].base, op[p].change)
    BY <2>9, <2>10 DEF OperationFits, CarriesOutRequest
  <2>12. QED
    BY <2>8, <2>11 DEF Built
<1>2. QED
  BY <1>1, WriteInvariant, PTL DEF WriteSpec, CompletedAppendExtendsItsBase

=============================================================================
