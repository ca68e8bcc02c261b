------------------------ MODULE NotebookFilingProofs ------------------------
(***************************************************************************)
(* Proofs about NotebookFiling, for every finite set of pages, every set   *)
(* of targets and any number of runs, operations and edits.                *)
(***************************************************************************)
EXTENDS NotebookFiling, FiniteSetTheorems, TLAPS

(***************************************************************************)
(* The inductive invariant.  What a run still intends to do has to fit the *)
(* ledger it works on: it cleans up only what is written, and the bytes it *)
(* will overwrite the source with still hold every page filing knows of    *)
(* that is in no target, and none of an operation cleaned before.          *)
(***************************************************************************)

\* Copies of a page that were put into a target and are there, or went with it.
Put(t, p) == target[t][p] + destroyed[t][p]

EverFiled == {p \in Pages : \E t \in Targets : Put(t, p) > 0}

PagesKept == \A o \in DOMAIN ledger : Moved(o) \subseteq source.pages \cup EverFiled

WrittenIsPut == \A o \in DOMAIN ledger : Written(o) => \A p \in o.pages : Put(o.target, p) > 0

CleanedIsOut == \A o \in DOMAIN ledger : Cleaned(o) => Moved(o) \cap source.pages \subseteq returned

PutIsAccountedFor ==
  \A t \in Targets, p \in Pages :
    Put(t, p) = unrecorded[t][p] + Cardinality(WritersOf(t, p))

RunFitsLedger ==
  /\ IsFiniteSet(DOMAIN ledger)
  /\ run.pc = "mark" => /\ ~Written(run.op)
                        /\ \A p \in run.op.pages : unrecorded[run.op.target][p] > 0
                        /\ \A p \in run.op.pages : Put(run.op.target, p) > 0
  /\ run # Idle => \A o \in run.done : Written(o)
  /\ run.pc \in {"file", "mark"} =>
       \A o \in DOMAIN ledger :
         /\ Moved(o) \subseteq run.bytes.pages \cup EverFiled
         /\ Cleaned(o) => Moved(o) \cap run.bytes.pages \subseteq returned
  /\ run.pc = "close" => \A o \in run.done : Moved(o) \cap source.pages \subseteq returned

FilingInv ==
  /\ FilingTypeOK
  /\ PagesKept /\ WrittenIsPut /\ CleanedIsOut /\ PutIsAccountedFor
  /\ RunFitsLedger

\* A target that is missing holds no copy: what it held was put down as gone.
MissingHoldsNothing ==
  \A t \in Targets : t \in missing => \A p \in Pages : target[t][p] = 0

(***************************************************************************)
(* Facts about the steps of a run.                                         *)
(***************************************************************************)

\* A run that is not idle is a record with the fields of Runs.
LEMMA RunFields ==
  ASSUME FilingTypeOK
  PROVE  /\ Idle.pc = "idle"
         /\ run.pc = "idle" <=> run = Idle
         /\ run # Idle => run \in Runs
BY DEF FilingTypeOK, Idle, Runs

\* Only an upload changes what was put into the targets.
LEMMA PutStays ==
  ASSUME UNCHANGED <<target, destroyed>>
  PROVE  /\ \A t, p : Put(t, p)' = Put(t, p)
         /\ EverFiled' = EverFiled
BY DEF Put, EverFiled

\* Nothing happens to the invariant when what was put into each target is there,
\* or went with it, as before.
LEMMA QuietKeepsInv ==
  ASSUME FilingInv, FilingTypeOK', UNCHANGED <<source, returned, ledger, unrecorded>>,
         \A t \in Targets, p \in Pages : Put(t, p)' = Put(t, p),
         run' = Idle \/ run' = run
  PROVE  FilingInv'
<1>1. EverFiled' = EverFiled
  BY DEF EverFiled
<1>2. \A o \in DOMAIN ledger : o.target \in Targets /\ o.pages \subseteq Pages
  BY DEF FilingInv, FilingTypeOK, Operations
<1>3. PagesKept'
  BY <1>1 DEF FilingInv, PagesKept
<1>4. WrittenIsPut'
  BY <1>2 DEF FilingInv, WrittenIsPut, Written
<1>5. CleanedIsOut'
  BY DEF FilingInv, CleanedIsOut, Cleaned
<1>6. PutIsAccountedFor'
  <2>1. \A t \in Targets, p \in Pages : WritersOf(t, p)' = WritersOf(t, p)
    BY DEF WritersOf, Written
  <2>2. QED
    BY <2>1 DEF FilingInv, PutIsAccountedFor
<1>7. RunFitsLedger'
  <2>1. CASE run' = Idle
    BY <2>1 DEF FilingInv, RunFitsLedger, Idle
  <2>2. CASE run' = run
    <3>1. CASE run.pc = "mark"
      <4>1. run.op \in DOMAIN ledger
        BY <3>1, RunFields DEF FilingInv, FilingTypeOK
      <4>2. PICK o \in DOMAIN ledger : o = run.op
        BY <4>1
      <4>3. /\ ~Written(o)
            /\ \A p \in o.pages : unrecorded[o.target][p] > 0
            /\ \A p \in o.pages : Put(o.target, p) > 0
        BY <3>1, <4>2 DEF FilingInv, RunFitsLedger
      <4>4. \A p \in o.pages : Put(o.target, p)' > 0
        BY <1>2, <4>3
      <4>5. run'.op = o /\ ledger' = ledger /\ unrecorded' = unrecorded /\ source' = source
        BY <2>2, <4>2
      <4>6. QED
        BY <1>1, <2>2, <3>1, <4>3, <4>4, <4>5 DEF FilingInv, RunFitsLedger, Written, Cleaned
    <3>2. CASE run.pc # "mark"
      BY <1>1, <2>2, <3>2 DEF FilingInv, RunFitsLedger, Written, Cleaned
    <3>3. QED
      BY <3>1, <3>2
  <2>3. QED
    BY <2>1, <2>2
<1>8. QED
  BY <1>3, <1>4, <1>5, <1>6, <1>7 DEF FilingInv

\* Starting a run records operations on pages of the source as detected.
LEMMA StartKeepsInv ==
  ASSUME FilingInv, NEW operations \in SUBSET Operations, IsFiniteSet(operations),
         \A o \in operations : o.pages \subseteq source.pages,
         StartRun(operations)
  PROVE  FilingInv'
<1> DEFINE todo == {o \in operations : o \notin DOMAIN ledger \/ ledger[o] # "completed"}
<1>1. /\ DOMAIN ledger' = DOMAIN ledger \cup todo
      /\ \A o \in DOMAIN ledger : ledger'[o] = ledger[o]
      /\ \A o \in todo \ DOMAIN ledger : ledger'[o] = "detected"
      /\ run' = [pc |-> "file", bytes |-> source, todo |-> todo, done |-> {}]
      /\ UNCHANGED <<source, returned, target, destroyed, missing, unrecorded>>
      /\ \A t, p : Put(t, p)' = Put(t, p)
      /\ EverFiled' = EverFiled
  BY PutStays DEF StartRun, UpsertDetected, cloudVars
<1>2. FilingTypeOK'
  <2>1. DOMAIN ledger' \subseteq Operations
    BY <1>1 DEF FilingInv, FilingTypeOK
  <2>2. ledger' \in [DOMAIN ledger' -> Statuses]
    BY DEF StartRun, UpsertDetected, FilingInv, FilingTypeOK, Statuses
  <2>3. run' \in Runs
    BY <1>1 DEF FilingInv, FilingTypeOK, Runs
  <2>4. QED
    BY <1>1, <2>1, <2>2, <2>3 DEF FilingInv, FilingTypeOK
<1>3. PagesKept'
  BY <1>1 DEF FilingInv, PagesKept, Moved
<1>4. WrittenIsPut' /\ CleanedIsOut'
  BY <1>1 DEF FilingInv, WrittenIsPut, CleanedIsOut, Written, Cleaned
<1>5. PutIsAccountedFor'
  <2>1. \A t \in Targets, p \in Pages : WritersOf(t, p)' = WritersOf(t, p)
    BY <1>1 DEF WritersOf, Written
  <2>2. QED
    BY <1>1, <2>1 DEF FilingInv, PutIsAccountedFor
<1>6. RunFitsLedger'
  <2>1. IsFiniteSet(DOMAIN ledger')
    <3>1. IsFiniteSet(todo)
      BY FS_Subset
    <3>2. IsFiniteSet(DOMAIN ledger)
      BY DEF FilingInv, RunFitsLedger
    <3>3. IsFiniteSet(DOMAIN ledger \cup todo)
      BY ONLY <3>1, <3>2, FS_Union
    <3>4. QED
      BY <1>1, <3>3
  <2>2. ASSUME NEW o \in DOMAIN ledger'
        PROVE  /\ Moved(o) \subseteq (run.bytes.pages \cup EverFiled)'
               /\ Cleaned(o)' => Moved(o) \cap run'.bytes.pages \subseteq returned
    BY <1>1, <2>2 DEF FilingInv, PagesKept, CleanedIsOut, Cleaned, Moved
  <2>3. run'.pc = "file" /\ run'.done = {}
    BY <1>1
  <2>4. QED
    BY <1>1, <2>1, <2>2, <2>3 DEF RunFitsLedger
<1>7. QED
  BY <1>2, <1>3, <1>4, <1>5, <1>6 DEF FilingInv

LEMMA ResumeKeepsInv ==
  ASSUME FilingInv, NEW o \in DOMAIN ledger, Resume(o)
  PROVE  FilingInv'
<1>1. run \in Runs /\ run.pc = "file" /\ run # Idle
  BY RunFields DEF FilingInv, Resume, FilingTypeOK
<1>2. /\ ledger' \in [DOMAIN ledger -> Statuses]
      /\ DOMAIN ledger' = DOMAIN ledger
      /\ \A q \in DOMAIN ledger : Written(q)' = Written(q)
      /\ \A q \in DOMAIN ledger : Cleaned(q)' = Cleaned(q)
      /\ UNCHANGED <<source, returned, target, destroyed, missing, unrecorded>>
      /\ \A t, p : Put(t, p)' = Put(t, p)
      /\ EverFiled' = EverFiled
  BY PutStays DEF Resume, FilingInv, FilingTypeOK, Statuses, Written, Cleaned, cloudVars
<1>3. /\ run' \in Runs /\ run'.pc = "file" /\ run' # Idle
      /\ run'.bytes = run.bytes
      /\ run'.todo \subseteq run.todo
      /\ run'.done \subseteq run.done \cup {o}
      /\ Written(o)
  <2>1. Written(o)
    BY DEF Resume, Resumable, Written
  <2>2. o \in Operations
    BY DEF FilingInv, FilingTypeOK
  <2>3. CASE run' = [run EXCEPT !.todo = @ \ {o}]
    BY <1>1, <2>1, <2>3 DEF Runs, Idle
  <2>4. CASE run' = [run EXCEPT !.todo = @ \ {o}, !.done = @ \cup {o}]
    BY <1>1, <2>1, <2>2, <2>4 DEF Runs, Idle
  <2>5. QED
    BY <2>3, <2>4 DEF Resume
<1>4. FilingTypeOK'
  BY <1>1, <1>2, <1>3 DEF FilingInv, FilingTypeOK
<1>5. PagesKept'
  BY <1>2 DEF FilingInv, PagesKept
<1>6. WrittenIsPut' /\ CleanedIsOut'
  BY <1>2 DEF FilingInv, WrittenIsPut, CleanedIsOut
<1>7. PutIsAccountedFor'
  <2>1. \A t \in Targets, p \in Pages : WritersOf(t, p)' = WritersOf(t, p)
    BY <1>2 DEF WritersOf
  <2>2. QED
    BY <1>2, <2>1 DEF FilingInv, PutIsAccountedFor
<1>8. RunFitsLedger'
  <2>1. \A q \in run'.done : Written(q)'
    BY <1>1, <1>2, <1>3 DEF FilingInv, RunFitsLedger, FilingTypeOK
  <2>2. \A q \in DOMAIN ledger' :
          /\ Moved(q) \subseteq (run.bytes.pages \cup EverFiled)'
          /\ Cleaned(q)' => Moved(q) \cap run'.bytes.pages \subseteq returned
    BY <1>1, <1>2, <1>3 DEF FilingInv, RunFitsLedger
  <2>3. QED
    BY <1>2, <1>3, <2>1, <2>2 DEF FilingInv, RunFitsLedger
<1>9. QED
  BY <1>4, <1>5, <1>6, <1>7, <1>8 DEF FilingInv

\* One more copy of each page of the operation, none of another page.
LEMMA CopiesAdded ==
  ASSUME NEW copies \in [Targets -> [Pages -> Nat]], NEW o \in Operations
  PROVE  /\ AddCopies(copies, o) \in [Targets -> [Pages -> Nat]]
         /\ \A t \in Targets, p \in Pages :
              AddCopies(copies, o)[t][p] =
                IF t = o.target /\ p \in o.pages THEN copies[t][p] + 1 ELSE copies[t][p]
<1>1. o.target \in Targets
  BY DEF Operations
<1> DEFINE row == [p \in Pages |-> copies[o.target][p] + (IF p \in o.pages THEN 1 ELSE 0)]
<1>2. AddCopies(copies, o) = [copies EXCEPT ![o.target] = row]
  BY DEF AddCopies
<1>3. row \in [Pages -> Nat]
  BY <1>1
<1>4. QED
  BY <1>1, <1>2, <1>3

LEMMA WriteTargetKeepsInv ==
  ASSUME FilingInv, NEW o \in DOMAIN ledger, WriteTarget(o)
  PROVE  FilingInv'
<1>1. run \in Runs /\ run.pc = "file" /\ run # Idle /\ o \in run.todo
  BY RunFields DEF FilingInv, WriteTarget, WritesTarget, FilingTypeOK
<1>2. o \in Operations /\ o.target \in Targets /\ o.pages \subseteq Pages
  BY DEF FilingInv, FilingTypeOK, Operations
<1>3. /\ target' \in [Targets -> [Pages -> Nat]]
      /\ unrecorded' \in [Targets -> [Pages -> Nat]]
      /\ \A t \in Targets, p \in Pages :
           /\ target'[t][p] =
                IF t = o.target /\ p \in o.pages THEN target[t][p] + 1 ELSE target[t][p]
           /\ unrecorded'[t][p] =
                IF t = o.target /\ p \in o.pages THEN unrecorded[t][p] + 1
                                               ELSE unrecorded[t][p]
  BY <1>2, CopiesAdded DEF WriteTarget, FilingInv, FilingTypeOK
<1>4. /\ target \in [Targets -> [Pages -> Nat]]
      /\ unrecorded \in [Targets -> [Pages -> Nat]]
      /\ destroyed \in [Targets -> [Pages -> Nat]]
      /\ UNCHANGED <<source, missing, ledger, destroyed, returned>>
  BY DEF WriteTarget, FilingInv, FilingTypeOK
<1>5. /\ run' \in Runs /\ run' # Idle /\ run'.pc = "mark"
      /\ run'.bytes = run.bytes /\ run'.todo = run.todo /\ run'.done = run.done
      /\ run'.op = o
  BY <1>1, <1>2 DEF WriteTarget, Runs, Idle
<1>6. ~Written(o)
  BY DEF WriteTarget, WritesTarget, Resumable, Written, FilingInv, FilingTypeOK, Statuses
<1>7. /\ \A t \in Targets, p \in Pages :
           /\ Put(t, p) \in Nat
           /\ Put(t, p)' = IF t = o.target /\ p \in o.pages THEN Put(t, p) + 1 ELSE Put(t, p)
      /\ EverFiled \subseteq EverFiled'
  <2>1. \A t \in Targets, p \in Pages :
          /\ Put(t, p) \in Nat
          /\ Put(t, p)' = IF t = o.target /\ p \in o.pages THEN Put(t, p) + 1 ELSE Put(t, p)
    BY <1>3, <1>4 DEF Put
  <2>2. QED
    BY <2>1 DEF EverFiled
<1>8. FilingTypeOK'
  BY <1>1, <1>3, <1>4, <1>5 DEF FilingInv, FilingTypeOK
<1>9. PagesKept'
  BY <1>4, <1>7 DEF FilingInv, PagesKept
<1>10. WrittenIsPut' /\ CleanedIsOut'
  <2>1. ASSUME NEW q \in DOMAIN ledger, Written(q), NEW p \in q.pages
        PROVE  Put(q.target, p)' > 0
    <3>1. q.target \in Targets /\ p \in Pages
      BY DEF FilingInv, FilingTypeOK, Operations
    <3>2. Put(q.target, p) > 0
      BY <2>1 DEF FilingInv, WrittenIsPut, CleanedIsOut
    <3>3. QED
      BY <1>7, <3>1, <3>2
  <2>2. QED
    BY <1>4, <2>1 DEF FilingInv, WrittenIsPut, CleanedIsOut, Written, Cleaned
<1>11. PutIsAccountedFor'
  <2>1. SUFFICES ASSUME NEW t \in Targets, NEW p \in Pages
                 PROVE  Put(t, p)' = unrecorded'[t][p] + Cardinality(WritersOf(t, p)')
    BY DEF PutIsAccountedFor
  <2>2. WritersOf(t, p)' = WritersOf(t, p)
    BY <1>4 DEF WritersOf, Written
  <2>3. IsFiniteSet(WritersOf(t, p))
    BY FS_Subset DEF WritersOf, FilingInv, RunFitsLedger
  <2>4. Cardinality(WritersOf(t, p)) \in Nat
    BY <2>3, FS_CardinalityType
  <2>5. Put(t, p) = unrecorded[t][p] + Cardinality(WritersOf(t, p))
    BY DEF FilingInv, PutIsAccountedFor
  <2>6. QED
    BY <1>3, <1>4, <1>7, <2>2, <2>4, <2>5
<1>12. RunFitsLedger'
  <2>1. \A p \in o.pages : unrecorded'[o.target][p] > 0 /\ Put(o.target, p)' > 0
    BY <1>2, <1>3, <1>4, <1>7
  <2>2. \A q \in DOMAIN ledger :
          /\ Moved(q) \subseteq run.bytes.pages \cup EverFiled'
          /\ Cleaned(q) => Moved(q) \cap run.bytes.pages \subseteq returned
    BY <1>1, <1>7 DEF FilingInv, RunFitsLedger
  <2>3. QED
    BY <1>1, <1>4, <1>5, <1>6, <2>1, <2>2 DEF FilingInv, RunFitsLedger, Written, Cleaned
<1>13. QED
  BY <1>8, <1>9, <1>10, <1>11, <1>12 DEF FilingInv

LEMMA MarkTargetWrittenKeepsInv ==
  ASSUME FilingInv, MarkTargetWritten
  PROVE  FilingInv'
<1>0. PICK o \in DOMAIN ledger : o = run.op
  BY RunFields DEF FilingInv, MarkTargetWritten, FilingTypeOK
<1>1. /\ run \in Runs /\ run.pc = "mark" /\ run # Idle /\ o \in run.todo
      /\ o \in DOMAIN ledger
  BY <1>0, RunFields DEF FilingInv, MarkTargetWritten, FilingTypeOK
<1>2. o \in Operations /\ o.target \in Targets /\ o.pages \subseteq Pages
  BY <1>1 DEF FilingInv, FilingTypeOK, Operations
<1>3. /\ target \in [Targets -> [Pages -> Nat]]
      /\ unrecorded \in [Targets -> [Pages -> Nat]]
      /\ UNCHANGED <<source, target, missing, destroyed, returned>>
      /\ \A t, p : Put(t, p)' = Put(t, p)
      /\ EverFiled' = EverFiled
  BY DEF cloudVars, Put, EverFiled, MarkTargetWritten, FilingInv, FilingTypeOK
<1>4. /\ ~Written(o)
      /\ \A p \in o.pages : unrecorded[o.target][p] > 0
      /\ \A p \in o.pages : Put(o.target, p) > 0
  BY <1>0, <1>1 DEF FilingInv, RunFitsLedger
<1>5. /\ ledger' \in [DOMAIN ledger -> Statuses] /\ DOMAIN ledger' = DOMAIN ledger
      /\ ledger'[o] = "target_written"
      /\ \A q \in DOMAIN ledger : q # o => ledger'[q] = ledger[q]
  BY <1>0, <1>1 DEF MarkTargetWritten, FilingInv, FilingTypeOK, Statuses
<1>6. /\ Written(o)'
      /\ \A q \in DOMAIN ledger : q # o => Written(q)' = Written(q)
      /\ \A q \in DOMAIN ledger : Cleaned(q)' => Cleaned(q)
  BY <1>5 DEF Written, Cleaned
<1> DEFINE row == [p \in Pages |-> unrecorded[o.target][p] - (IF p \in o.pages THEN 1 ELSE 0)]
<1>7. /\ unrecorded' \in [Targets -> [Pages -> Nat]]
      /\ \A t \in Targets, p \in Pages :
           unrecorded'[t][p] =
             IF t = o.target /\ p \in o.pages THEN unrecorded[t][p] - 1 ELSE unrecorded[t][p]
  <2>1. unrecorded' = [unrecorded EXCEPT ![o.target] = row]
    BY <1>0 DEF MarkTargetWritten
  <2>2. row \in [Pages -> Nat]
    BY <1>2, <1>3, <1>4
  <2>3. QED
    BY ONLY <1>2, <1>3, <2>1, <2>2
<1>8. /\ run' \in Runs /\ run' # Idle /\ run'.pc = "file" /\ run'.bytes = run.bytes
      /\ run'.todo = run.todo \ {o} /\ run'.done = run.done \cup {o}
  <2>1. run' = [pc |-> "file", bytes |-> run.bytes, todo |-> run.todo \ {o},
                done |-> run.done \cup {o}]
    BY <1>0 DEF MarkTargetWritten
  <2>2. run.bytes \in Contents /\ run.todo \subseteq Operations /\ run.done \subseteq Operations
    BY <1>1 DEF Runs
  <2>3. QED
    BY ONLY <1>2, <2>1, <2>2 DEF Runs, Idle
<1>9. FilingTypeOK'
  <2>1. run.todo \cup run.done \subseteq DOMAIN ledger
    BY <1>1 DEF FilingInv, FilingTypeOK
  <2>2. run'.todo \cup run'.done \subseteq DOMAIN ledger'
    BY <1>1, <1>5, <1>8, <2>1
  <2>3. QED
    BY <1>3, <1>5, <1>7, <1>8, <2>2 DEF FilingInv, FilingTypeOK
<1>10. PagesKept'
  BY <1>3, <1>5 DEF FilingInv, PagesKept, EverFiled, Put
<1>11. WrittenIsPut' /\ CleanedIsOut'
  <2>1. ASSUME NEW q \in DOMAIN ledger, Written(q)'
        PROVE  \A p \in q.pages : Put(q.target, p) > 0
    <3>1. CASE q = o
      BY <1>4, <3>1
    <3>2. CASE q # o
      BY <1>6, <2>1, <3>2 DEF FilingInv, WrittenIsPut, CleanedIsOut
    <3>3. QED
      BY <3>1, <3>2
  <2>2. ASSUME NEW q \in DOMAIN ledger, Cleaned(q)'
        PROVE  Moved(q) \cap source.pages \subseteq returned
    BY <1>6, <2>2 DEF FilingInv, WrittenIsPut, CleanedIsOut
  <2>3. QED
    BY <1>3, <1>5, <2>1, <2>2 DEF WrittenIsPut, CleanedIsOut
<1>12. PutIsAccountedFor'
  <2>1. SUFFICES ASSUME NEW t \in Targets, NEW p \in Pages
                 PROVE  Put(t, p) = unrecorded'[t][p] + Cardinality(WritersOf(t, p)')
    BY <1>3 DEF PutIsAccountedFor
  <2>2. IsFiniteSet(WritersOf(t, p))
    BY FS_Subset DEF WritersOf, FilingInv, RunFitsLedger
  <2>3. Cardinality(WritersOf(t, p)) \in Nat
    BY <2>2, FS_CardinalityType
  <2>4. Put(t, p) = unrecorded[t][p] + Cardinality(WritersOf(t, p))
    BY DEF FilingInv, PutIsAccountedFor
  <2>5. CASE t = o.target /\ p \in o.pages
    <3>1. WritersOf(t, p)' = WritersOf(t, p) \cup {o}
      BY <1>1, <1>5, <1>6, <2>5 DEF WritersOf
    <3>2. o \notin WritersOf(t, p)
      BY <1>4 DEF WritersOf
    <3>3. Cardinality(WritersOf(t, p)') = Cardinality(WritersOf(t, p)) + 1
      BY ONLY <2>2, <3>1, <3>2, FS_AddElement
    <3>4. unrecorded'[t][p] = unrecorded[t][p] - 1 /\ unrecorded[t][p] \in Nat
      BY <1>3, <1>7, <2>5
    <3>5. QED
      BY ONLY <2>3, <2>4, <3>3, <3>4
  <2>6. CASE ~(t = o.target /\ p \in o.pages)
    <3>1. WritersOf(t, p)' = WritersOf(t, p)
      BY <1>1, <1>5, <1>6, <2>6 DEF WritersOf
    <3>2. unrecorded'[t][p] = unrecorded[t][p]
      BY <1>7, <2>6
    <3>3. QED
      BY <2>4, <3>1, <3>2
  <2>7. QED
    BY <2>5, <2>6
<1>13. RunFitsLedger'
  <2>1. \A q \in run'.done : Written(q)'
    <3>1. \A q \in run.done : q \in DOMAIN ledger /\ Written(q)
      BY <1>1 DEF FilingInv, RunFitsLedger, FilingTypeOK
    <3>2. QED
      BY <1>6, <1>8, <3>1
  <2>2. \A q \in DOMAIN ledger :
          /\ Moved(q) \subseteq run.bytes.pages \cup EverFiled
          /\ Cleaned(q) => Moved(q) \cap run.bytes.pages \subseteq returned
    BY <1>1 DEF FilingInv, RunFitsLedger
  <2>3. EverFiled' = EverFiled
    BY <1>3
  <2>4. IsFiniteSet(DOMAIN ledger')
    BY <1>5 DEF FilingInv, RunFitsLedger
  <2>5. QED
    BY <1>3, <1>5, <1>6, <1>8, <2>1, <2>2, <2>3, <2>4 DEF RunFitsLedger
<1>14. QED
  BY <1>9, <1>10, <1>11, <1>12, <1>13 DEF FilingInv

\* What the run writes over the source holds every page that filing knows of
\* and that is in no target, and no page of an operation that is cleaned.
LEMMA CleanedSourceFits ==
  ASSUME FilingInv, ReadyToClean
  PROVE  /\ CleanedSource \in Contents
         /\ \A o \in DOMAIN ledger :
              /\ Moved(o) \subseteq CleanedSource.pages \cup EverFiled
              /\ Cleaned(o) => Moved(o) \cap CleanedSource.pages \subseteq returned
         /\ \A o \in run.done : Moved(o) \cap CleanedSource.pages = {}
<1>1. run \in Runs /\ run.pc = "file" /\ run # Idle
  BY RunFields DEF FilingInv, ReadyToClean
<1>2. run.bytes \in Contents
  BY <1>1 DEF Runs
<1> DEFINE filed == UNION {o.pages : o \in run.done}
<1>3. /\ CleanedSource \in Contents
      /\ run.bytes.pages \ filed \subseteq CleanedSource.pages
      /\ CleanedSource.pages \subseteq (run.bytes.pages \ filed) \cup {Blank}
  BY <1>2, BlankIsAPage DEF CleanedSource, Contents
<1>4. filed \subseteq EverFiled
  <2>1. ASSUME NEW o \in run.done, NEW p \in o.pages
        PROVE  p \in EverFiled
    <3>1. o \in DOMAIN ledger /\ Written(o)
      BY <1>1 DEF FilingInv, FilingTypeOK, RunFitsLedger
    <3>2. Put(o.target, p) > 0
      BY <3>1 DEF FilingInv, WrittenIsPut, CleanedIsOut
    <3>3. o.target \in Targets /\ p \in Pages
      BY <3>1 DEF FilingInv, FilingTypeOK, Operations
    <3>4. QED
      BY <3>2, <3>3 DEF EverFiled, Put
  <2>2. QED
    BY <2>1
<1>5. \A o \in DOMAIN ledger :
        /\ Moved(o) \subseteq run.bytes.pages \cup EverFiled
        /\ Cleaned(o) => Moved(o) \cap run.bytes.pages \subseteq returned
  BY <1>1 DEF FilingInv, RunFitsLedger
<1>6. QED
  BY <1>3, <1>4, <1>5 DEF Moved

LEMMA UploadSourceKeepsInv ==
  ASSUME FilingInv, UploadSource
  PROVE  FilingInv'
<1>1. /\ run \in Runs /\ run.pc = "file" /\ run # Idle
      /\ run.todo \cup run.done \subseteq DOMAIN ledger
  BY RunFields DEF FilingInv, UploadSource, ReadyToClean, FilingTypeOK
<1>2. /\ source' = CleanedSource /\ returned' = returned \cap source'.pages
      /\ UNCHANGED <<target, destroyed, missing, ledger, unrecorded>>
      /\ \A t, p : Put(t, p)' = Put(t, p)
      /\ EverFiled' = EverFiled
  BY PutStays DEF UploadSource
<1>3. /\ run' \in Runs /\ run' # Idle /\ run'.pc = "close"
      /\ run'.todo = run.todo /\ run'.done = run.done
  BY <1>1 DEF UploadSource, Runs, Idle
<1>4. /\ CleanedSource \in Contents
      /\ \A o \in DOMAIN ledger :
           /\ Moved(o) \subseteq CleanedSource.pages \cup EverFiled
           /\ Cleaned(o) => Moved(o) \cap CleanedSource.pages \subseteq returned
      /\ \A o \in run.done : Moved(o) \cap CleanedSource.pages = {}
  BY CleanedSourceFits DEF UploadSource
<1>5. FilingTypeOK'
  BY <1>1, <1>2, <1>3, <1>4 DEF FilingInv, FilingTypeOK
<1>6. PagesKept'
  BY <1>2, <1>4 DEF PagesKept
<1>7. WrittenIsPut' /\ CleanedIsOut'
  BY <1>2, <1>4 DEF FilingInv, WrittenIsPut, CleanedIsOut, Written, Cleaned
<1>8. PutIsAccountedFor'
  <2>1. \A t \in Targets, p \in Pages : WritersOf(t, p)' = WritersOf(t, p)
    BY <1>2 DEF WritersOf, Written
  <2>2. QED
    BY <1>2, <2>1 DEF FilingInv, PutIsAccountedFor
<1>9. RunFitsLedger'
  BY <1>1, <1>2, <1>3, <1>4 DEF FilingInv, RunFitsLedger, Written
<1>10. QED
  BY <1>5, <1>6, <1>7, <1>8, <1>9 DEF FilingInv

\* A run that ends at the cleanup has marked its operations or not.
LEMMA FailedCleanupKeepsInv ==
  ASSUME FilingInv, ReadyToClean, source' \in {source, CleanedSource},
         MarkSourcePending \/ UNCHANGED ledger,
         run' = Idle, returned' = returned \cap source'.pages \/ UNCHANGED <<source, returned>>,
         UNCHANGED <<target, destroyed, unrecorded>>,
         missing' \subseteq Targets \cup {Source}
  PROVE  FilingInv'
<1>1. /\ run \in Runs /\ run.pc = "file" /\ run # Idle
      /\ run.done \subseteq DOMAIN ledger
  BY RunFields DEF FilingInv, ReadyToClean, FilingTypeOK
<1>2. /\ Idle.pc = "idle"
      /\ \A t, p : Put(t, p)' = Put(t, p)
      /\ EverFiled' = EverFiled
  BY PutStays DEF Idle
<1>3. /\ ledger' \in [DOMAIN ledger -> Statuses] /\ DOMAIN ledger' = DOMAIN ledger
      /\ \A o \in DOMAIN ledger : Written(o)' = Written(o)
      /\ \A o \in DOMAIN ledger : Cleaned(o)' => Cleaned(o)
  <2>1. \A o \in run.done : Written(o)
    BY <1>1 DEF FilingInv, RunFitsLedger
  <2>2. QED
    BY <2>1 DEF MarkSourcePending, FilingInv, FilingTypeOK, Statuses, Written, Cleaned
<1>4. /\ source' \in Contents
      /\ \A o \in DOMAIN ledger :
           /\ Moved(o) \subseteq source'.pages \cup EverFiled
           /\ Cleaned(o) => Moved(o) \cap source'.pages \subseteq returned'
  <2>1. CASE source' = source
    BY <2>1 DEF FilingInv, FilingTypeOK, PagesKept, WrittenIsPut, CleanedIsOut
  <2>2. CASE source' = CleanedSource
    BY <2>2, CleanedSourceFits
  <2>3. QED
    BY <2>1, <2>2
<1>5. FilingTypeOK'
  BY <1>2, <1>3, <1>4 DEF FilingInv, FilingTypeOK
<1>6. PagesKept'
  BY <1>2, <1>3, <1>4 DEF PagesKept
<1>7. WrittenIsPut' /\ CleanedIsOut'
  BY <1>2, <1>3, <1>4 DEF FilingInv, WrittenIsPut, CleanedIsOut
<1>8. PutIsAccountedFor'
  <2>1. \A t \in Targets, p \in Pages : WritersOf(t, p)' = WritersOf(t, p)
    BY <1>3 DEF WritersOf
  <2>2. QED
    BY <1>2, <2>1 DEF FilingInv, PutIsAccountedFor
<1>9. RunFitsLedger'
  BY <1>2, <1>3 DEF FilingInv, RunFitsLedger
<1>10. QED
  BY <1>5, <1>6, <1>7, <1>8, <1>9 DEF FilingInv

LEMMA MarkSourceRemovedKeepsInv ==
  ASSUME FilingInv, NEW o \in DOMAIN ledger, MarkSourceRemoved(o)
  PROVE  FilingInv'
<1>1. /\ run.pc = "close" /\ run # Idle /\ o \in run.done
      /\ UNCHANGED <<source, returned, target, destroyed, missing, run, unrecorded>>
      /\ \A t, p : Put(t, p)' = Put(t, p)
      /\ EverFiled' = EverFiled
  BY RunFields, PutStays DEF FilingInv, MarkSourceRemoved, cloudVars
<1>2. Written(o) /\ Moved(o) \cap source.pages \subseteq returned
  BY <1>1 DEF FilingInv, RunFitsLedger
<1>3. /\ ledger' \in [DOMAIN ledger -> Statuses] /\ DOMAIN ledger' = DOMAIN ledger
      /\ \A q \in DOMAIN ledger : Written(q)' = Written(q)
      /\ \A q \in DOMAIN ledger : Cleaned(q)' => q = o \/ Cleaned(q)
  BY <1>2 DEF MarkSourceRemoved, FilingInv, FilingTypeOK, Statuses, Written, Cleaned
<1>4. FilingTypeOK'
  BY <1>1, <1>3 DEF FilingInv, FilingTypeOK
<1>5. PagesKept'
  BY <1>1, <1>3 DEF FilingInv, PagesKept
<1>6. WrittenIsPut' /\ CleanedIsOut'
  BY <1>1, <1>2, <1>3 DEF FilingInv, WrittenIsPut, CleanedIsOut
<1>7. PutIsAccountedFor'
  <2>1. \A t \in Targets, p \in Pages : WritersOf(t, p)' = WritersOf(t, p)
    BY <1>3 DEF WritersOf
  <2>2. QED
    BY <1>1, <2>1 DEF FilingInv, PutIsAccountedFor
<1>8. RunFitsLedger'
  BY <1>1, <1>3 DEF FilingInv, FilingTypeOK, RunFitsLedger
<1>9. QED
  BY <1>4, <1>5, <1>6, <1>7, <1>8 DEF FilingInv

LEMMA MarkCompletedKeepsInv ==
  ASSUME FilingInv, NEW o \in DOMAIN ledger, MarkCompleted(o)
  PROVE  FilingInv'
<1>1. /\ run \in Runs /\ run.pc = "close" /\ run # Idle
      /\ run.todo \cup run.done \subseteq DOMAIN ledger
      /\ UNCHANGED <<source, returned, target, destroyed, missing, unrecorded>>
      /\ \A t, p : Put(t, p)' = Put(t, p)
      /\ EverFiled' = EverFiled
  BY RunFields, PutStays DEF FilingInv, FilingTypeOK, MarkCompleted, cloudVars
<1>2. /\ run' \in Runs /\ run'.pc = "close" /\ run' # Idle
      /\ run'.todo = run.todo /\ run'.done \subseteq run.done
  BY <1>1 DEF MarkCompleted, Runs, Idle
<1>3. /\ ledger' \in [DOMAIN ledger -> Statuses] /\ DOMAIN ledger' = DOMAIN ledger
      /\ \A q \in DOMAIN ledger : Written(q)' = Written(q)
      /\ \A q \in DOMAIN ledger : Cleaned(q)' = Cleaned(q)
  BY DEF MarkCompleted, FilingInv, FilingTypeOK, Statuses, Written, Cleaned
<1>4. FilingTypeOK'
  BY <1>1, <1>2, <1>3 DEF FilingInv, FilingTypeOK
<1>5. PagesKept'
  BY <1>1, <1>3 DEF FilingInv, PagesKept
<1>6. WrittenIsPut' /\ CleanedIsOut'
  BY <1>1, <1>3 DEF FilingInv, WrittenIsPut, CleanedIsOut
<1>7. PutIsAccountedFor'
  <2>1. \A t \in Targets, p \in Pages : WritersOf(t, p)' = WritersOf(t, p)
    BY <1>3 DEF WritersOf
  <2>2. QED
    BY <1>1, <2>1 DEF FilingInv, PutIsAccountedFor
<1>8. RunFitsLedger'
  BY <1>1, <1>2, <1>3 DEF FilingInv, RunFitsLedger
<1>9. QED
  BY <1>4, <1>5, <1>6, <1>7, <1>8 DEF FilingInv

\* An upload that ends after the deletion, and the return of what it deleted.
LEMMA LoseTargetKeepsInv ==
  ASSUME FilingInv, NEW o \in DOMAIN ledger, LoseTarget(o)
  PROVE  FilingInv'
<1>1. /\ target \in [Targets -> [Pages -> Nat]]
      /\ destroyed \in [Targets -> [Pages -> Nat]]
      /\ o.target \in Targets
  BY DEF FilingInv, FilingTypeOK, Operations
<1> DEFINE row == [p \in Pages |-> destroyed[o.target][p] + target[o.target][p]]
<1>2. /\ NoCopies \in [Pages -> Nat] /\ \A p \in Pages : NoCopies[p] = 0
      /\ row \in [Pages -> Nat] /\ \A p \in Pages : row[p] = destroyed[o.target][p] + target[o.target][p]
  BY <1>1 DEF NoCopies
<1>3. /\ target' = [target EXCEPT ![o.target] = NoCopies]
      /\ destroyed' = [destroyed EXCEPT ![o.target] = row]
  BY DEF LoseTarget
<1> HIDE DEF row
<1>4. /\ target' \in [Targets -> [Pages -> Nat]]
      /\ destroyed' \in [Targets -> [Pages -> Nat]]
  BY <1>1, <1>2, <1>3
<1>5. \A t \in Targets, p \in Pages : Put(t, p)' = Put(t, p)
  BY <1>1, <1>2, <1>3 DEF Put
<1>6. /\ missing' \subseteq Targets \cup {Source} /\ run' = Idle /\ Idle.pc = "idle"
      /\ UNCHANGED <<source, returned, ledger, unrecorded>>
  BY <1>1 DEF LoseTarget, FilingInv, FilingTypeOK, Idle
<1>7. FilingTypeOK'
  BY <1>4, <1>6 DEF FilingInv, FilingTypeOK
<1>8. QED
  BY <1>5, <1>6, <1>7, QuietKeepsInv

LEMMA RestoreTargetKeepsInv ==
  ASSUME FilingInv, MissingHoldsNothing, NEW t \in Targets, RestoreTarget(t)
  PROVE  FilingInv'
<1>1. /\ target \in [Targets -> [Pages -> Nat]]
      /\ destroyed \in [Targets -> [Pages -> Nat]]
      /\ missing \subseteq Targets \cup {Source}
  BY DEF FilingInv, FilingTypeOK
<1> DEFINE row(copies) == [p \in Pages |-> destroyed[t][p] - copies[p]]
<1>2. PICK copies \in CopiesUpTo(destroyed[t]) :
        /\ target' = [target EXCEPT ![t] = copies]
        /\ destroyed' = [destroyed EXCEPT ![t] = row(copies)]
  BY DEF RestoreTarget
<1>3. copies \in [Pages -> Nat] /\ \A p \in Pages : copies[p] <= destroyed[t][p]
  BY <1>1 DEF CopiesUpTo
<1>4. PICK left : left = row(copies)
  OBVIOUS
<1>5. left \in [Pages -> Nat] /\ \A p \in Pages : left[p] = destroyed[t][p] - copies[p]
  BY <1>1, <1>3, <1>4
<1>6. target' = [target EXCEPT ![t] = copies] /\ destroyed' = [destroyed EXCEPT ![t] = left]
  BY <1>2, <1>4
<1> HIDE DEF row
<1>7. /\ target' \in [Targets -> [Pages -> Nat]]
      /\ destroyed' \in [Targets -> [Pages -> Nat]]
  BY <1>1, <1>3, <1>5, <1>6
<1>8. \A u \in Targets, p \in Pages : Put(u, p)' = Put(u, p)
  <2>1. ASSUME NEW u \in Targets, NEW p \in Pages
        PROVE  target'[u][p] + destroyed'[u][p] = target[u][p] + destroyed[u][p]
    <3>1. CASE u = t
      <4>1. target'[t] = copies /\ destroyed'[t] = left
        BY <1>1, <1>6
      <4>2. copies[p] \in Nat /\ destroyed[t][p] \in Nat /\ left[p] = destroyed[t][p] - copies[p]
        BY <1>1, <1>3, <1>5
      <4>3. target[t][p] = 0
        BY DEF RestoreTarget, MissingHoldsNothing
      <4>4. QED
        BY <3>1, <4>1, <4>2, <4>3
    <3>2. CASE u # t
      <4>1. target'[u] = target[u] /\ destroyed'[u] = destroyed[u]
        BY <1>1, <1>6, <3>2
      <4>2. QED
        BY <4>1
    <3>3. QED
      BY <3>1, <3>2
  <2>2. QED
    BY <2>1 DEF Put
<1>9. missing' \subseteq Targets \cup {Source} /\ UNCHANGED <<source, returned, ledger, run, unrecorded>>
  BY <1>1 DEF RestoreTarget
<1>10. FilingTypeOK'
  BY <1>7, <1>9 DEF FilingInv, FilingTypeOK
<1>11. QED
  BY <1>8, <1>9, <1>10, QuietKeepsInv

LEMMA RestoreSourceKeepsInv ==
  ASSUME FilingInv, RestoreSource
  PROVE  FilingInv'
<1>1. PICK old \in SUBSET UNION {Moved(o) : o \in DOMAIN ledger} :
        /\ source' = [source EXCEPT !.pages = IF old = {} THEN @ ELSE (@ \ {Blank}) \cup old]
        /\ returned' = returned \cup (old \ source.pages)
  BY DEF RestoreSource
<1>2. /\ missing' \subseteq missing
      /\ UNCHANGED <<target, ledger, run, unrecorded, destroyed>>
      /\ \A t, p : Put(t, p)' = Put(t, p)
      /\ EverFiled' = EverFiled
  BY PutStays DEF RestoreSource
<1>3. old \subseteq Pages
  BY DEF FilingInv, FilingTypeOK, Operations, Moved
<1>4. /\ source' \in Contents /\ source.pages \ {Blank} \subseteq source'.pages
      /\ source'.pages \subseteq source.pages \cup old
      /\ returned \subseteq returned' /\ returned' \subseteq Pages
      /\ source'.pages \subseteq source.pages \cup returned'
  <2>1. source \in Contents /\ returned \subseteq Pages
    BY DEF FilingInv, FilingTypeOK
  <2>2. source'.pages = IF old = {} THEN source.pages ELSE (source.pages \ {Blank}) \cup old
    BY <1>1, <2>1 DEF Contents
  <2>3. source' \in Contents
    BY <1>1, <1>3, <2>1 DEF Contents
  <2>4. QED
    BY <1>1, <1>3, <2>1, <2>2, <2>3
<1>5. FilingTypeOK'
  BY <1>2, <1>4 DEF FilingInv, FilingTypeOK
<1>6. PagesKept'
  BY <1>2, <1>4 DEF FilingInv, PagesKept, Moved
<1>7. WrittenIsPut' /\ CleanedIsOut'
  BY <1>2, <1>4 DEF FilingInv, WrittenIsPut, CleanedIsOut, Written, Cleaned
<1>8. PutIsAccountedFor'
  <2>1. \A t \in Targets, p \in Pages : WritersOf(t, p)' = WritersOf(t, p)
    BY <1>2 DEF WritersOf, Written
  <2>2. QED
    BY <1>2, <2>1 DEF FilingInv, PutIsAccountedFor
<1>9. RunFitsLedger'
  BY <1>2, <1>4 DEF FilingInv, RunFitsLedger, Written, Cleaned
<1>10. QED
  BY <1>5, <1>6, <1>7, <1>8, <1>9 DEF FilingInv

LEMMA StopKeepsInv ==
  ASSUME FilingInv, Stop
  PROVE  FilingInv'
<1>1. /\ run' = Idle /\ Idle.pc = "idle"
      /\ UNCHANGED <<source, returned, target, missing, destroyed, ledger, unrecorded>>
  BY DEF Stop, Idle, cloudVars
<1>2. FilingTypeOK'
  BY <1>1 DEF FilingInv, FilingTypeOK
<1>3. QED
  BY <1>1, <1>2, PutStays, QuietKeepsInv

LEMMA DeviceEditKeepsInv ==
  ASSUME FilingInv, NEW new \in SUBSET Pages, DeviceEdit(new)
  PROVE  FilingInv'
<1>1. /\ source.pages \ {Blank} \subseteq source'.pages
      /\ source'.pages \subseteq source.pages \cup new
      /\ \A o \in DOMAIN ledger : new \cap o.pages = {}
      /\ UNCHANGED <<returned, target, destroyed, missing, ledger, run, unrecorded>>
      /\ \A t, p : Put(t, p)' = Put(t, p)
      /\ EverFiled' = EverFiled
  BY PutStays DEF DeviceEdit, cloudVars
<1>2. source' \in Contents
  BY MaxEditsIsNatural DEF DeviceEdit, FilingInv, FilingTypeOK, Contents
<1>3. FilingTypeOK'
  BY <1>1, <1>2 DEF FilingInv, FilingTypeOK
<1>4. PagesKept'
  BY <1>1 DEF FilingInv, PagesKept, Moved
<1>5. WrittenIsPut' /\ CleanedIsOut'
  BY <1>1 DEF FilingInv, WrittenIsPut, CleanedIsOut, Written, Cleaned, Moved
<1>6. PutIsAccountedFor'
  <2>1. \A t \in Targets, p \in Pages : WritersOf(t, p)' = WritersOf(t, p)
    BY <1>1 DEF WritersOf, Written
  <2>2. QED
    BY <1>1, <2>1 DEF FilingInv, PutIsAccountedFor
<1>7. RunFitsLedger'
  <2>1. run.pc = "close" => run.done \subseteq DOMAIN ledger
    BY RunFields DEF FilingInv, FilingTypeOK
  <2>2. run.pc = "close" => \A o \in run.done : Moved(o) \cap source'.pages \subseteq returned
    BY <1>1, <2>1 DEF FilingInv, RunFitsLedger, Moved
  <2>3. QED
    BY <1>1, <2>2 DEF FilingInv, RunFitsLedger, Written, Cleaned
<1>8. QED
  BY <1>3, <1>4, <1>5, <1>6, <1>7 DEF FilingInv

\* The operations of both kinds of run are finitely many, on pages of the source.
LEMMA StartByStarsKeepsInv ==
  ASSUME FilingInv, NEW starred \in SUBSET Pages,
         NEW route \in [starred -> Targets \cup {NoTarget}],
         StartByStars(starred, route)
  PROVE  FilingInv'
<1> DEFINE routed == {q \in starred : route[q] # NoTarget}
           op(p) == [by |-> "stars", pages |-> {p}, revision |-> source,
                     target |-> route[p]]
           operations == {op(p) : p \in routed}
<1>1. starred \subseteq source.pages /\ source \in Contents
  BY DEF StartByStars, FilingInv, FilingTypeOK
<1>2. \A p \in routed : op(p) \in Operations /\ op(p).pages = {p}
  BY <1>1 DEF Operations
<1>3. IsFiniteSet(operations)
  <2>1. IsFiniteSet(routed)
    BY PagesAreFinite, FS_Subset
  <2>2. [p \in routed |-> op(p)] \in Surjection(routed, operations)
    BY DEF Surjection
  <2>3. QED
    BY ONLY <2>1, <2>2, FS_Surjection DEF ExistsSurjection
<1>4. operations \in SUBSET Operations /\ \A o \in operations : o.pages \subseteq source.pages
  BY <1>1, <1>2
<1>5. StartRun(operations)
  BY DEF StartByStars
<1> HIDE DEF operations
<1>6. QED
  BY <1>3, <1>4, <1>5, StartKeepsInv

LEMMA StartExplicitKeepsInv ==
  ASSUME FilingInv, NEW pages \in SUBSET Pages, NEW t \in Targets, StartExplicit(pages, t)
  PROVE  FilingInv'
<1> DEFINE op == [by |-> "pages", pages |-> pages, revision |-> source, target |-> t]
<1>1. pages \subseteq source.pages /\ source \in Contents /\ StartRun({op})
  BY DEF StartExplicit, FilingInv, FilingTypeOK
<1>2. op \in Operations /\ op.pages = pages
  BY <1>1 DEF Operations
<1> HIDE DEF op
<1>3. IsFiniteSet({op})
  BY FS_Singleton
<1>4. QED
  BY <1>1, <1>2, <1>3, StartKeepsInv

(***************************************************************************)
(* The theorems.                                                           *)
(***************************************************************************)

\* Before the first run nothing is recorded and no target holds a copy.
LEMMA InitEstablishesInv ==
  ASSUME FilingInit
  PROVE  FilingInv
<1>1. /\ DOMAIN ledger = {} /\ ledger = <<>>
      /\ target = [t \in Targets |-> NoCopies] /\ missing = {}
      /\ unrecorded = target /\ destroyed = target /\ returned = {}
      /\ run = Idle /\ Idle.pc = "idle"
  BY DEF FilingInit, Idle
<1>2. source \in Contents
  BY InitialPagesArePages, MaxEditsIsNatural DEF FilingInit, Contents
<1>3. ledger \in [DOMAIN ledger -> Statuses]
  BY <1>1
<1>4. target \in [Targets -> [Pages -> Nat]] /\ \A t \in Targets, p \in Pages : target[t][p] = 0
  BY <1>1 DEF NoCopies
<1>5. FilingTypeOK
  BY <1>1, <1>2, <1>3, <1>4 DEF FilingTypeOK
<1>6. PagesKept /\ WrittenIsPut /\ CleanedIsOut
  BY <1>1 DEF PagesKept, WrittenIsPut, CleanedIsOut
<1>7. PutIsAccountedFor
  <2>1. \A t \in Targets, p \in Pages : WritersOf(t, p) = {}
    BY <1>1 DEF WritersOf
  <2>2. QED
    BY <1>1, <1>4, <2>1, FS_EmptySet DEF PutIsAccountedFor, Put
<1>8. RunFitsLedger
  BY <1>1, FS_EmptySet DEF RunFitsLedger
<1>9. QED
  BY <1>5, <1>6, <1>7, <1>8 DEF FilingInv

\* Every step of a run, every stop and every edit preserves the invariant.
LEMMA NextKeepsInv ==
  ASSUME FilingInv, MissingHoldsNothing, [FilingNext]_vars
  PROVE  FilingInv'
<1>1. ASSUME NEW starred \in SUBSET Pages,
             NEW route \in [starred -> Targets \cup {NoTarget}],
             StartByStars(starred, route)
      PROVE  FilingInv'
  BY <1>1, StartByStarsKeepsInv
<1>2. ASSUME NEW pages \in SUBSET Pages, NEW t \in Targets, StartExplicit(pages, t)
      PROVE  FilingInv'
  BY <1>2, StartExplicitKeepsInv
<1>3. ASSUME NEW o \in DOMAIN ledger, Resume(o)
      PROVE  FilingInv'
  BY <1>3, ResumeKeepsInv
<1>4. ASSUME NEW o \in DOMAIN ledger, WriteTarget(o)
      PROVE  FilingInv'
  BY <1>4, WriteTargetKeepsInv
<1>5. ASSUME NEW o \in DOMAIN ledger, MarkSourceRemoved(o)
      PROVE  FilingInv'
  BY <1>5, MarkSourceRemovedKeepsInv
<1>6. ASSUME NEW o \in DOMAIN ledger, MarkCompleted(o)
      PROVE  FilingInv'
  BY <1>6, MarkCompletedKeepsInv
<1>7. CASE MarkTargetWritten
  BY <1>7, MarkTargetWrittenKeepsInv
<1>8. CASE UploadSource
  BY <1>8, UploadSourceKeepsInv
<1>9. CASE UploadSourceFails \/ LoseSource
  <2>1. /\ ReadyToClean /\ source' \in {source, CleanedSource}
        /\ MarkSourcePending \/ UNCHANGED ledger
        /\ returned' = returned \cap source'.pages \/ UNCHANGED <<source, returned>>
        /\ run' = Idle /\ UNCHANGED <<target, destroyed, unrecorded>>
    BY <1>9 DEF UploadSourceFails, LoseSource
  <2>2. missing' \subseteq Targets \cup {Source}
    BY <1>9 DEF UploadSourceFails, LoseSource, FilingInv, FilingTypeOK
  <2>3. QED
    BY <2>1, <2>2, FailedCleanupKeepsInv
<1>10. CASE Stop
  BY <1>10, StopKeepsInv
<1>11. ASSUME NEW new \in SUBSET Pages, DeviceEdit(new)
       PROVE  FilingInv'
  BY <1>11, DeviceEditKeepsInv
<1>12. ASSUME NEW o \in DOMAIN ledger, LoseTarget(o)
       PROVE  FilingInv'
  BY <1>12, LoseTargetKeepsInv
<1>13. ASSUME NEW t \in Targets, RestoreTarget(t)
       PROVE  FilingInv'
  BY <1>13, RestoreTargetKeepsInv
<1>14. CASE RestoreSource
  BY <1>14, RestoreSourceKeepsInv
<1>15. CASE UNCHANGED vars
  <2>1. UNCHANGED <<source, returned, target, missing, destroyed, ledger, run, unrecorded>>
    BY <1>15 DEF vars, cloudVars
  <2>2. FilingTypeOK'
    BY <2>1 DEF FilingInv, FilingTypeOK
  <2>3. QED
    BY <2>1, <2>2, PutStays, QuietKeepsInv
<1>16. QED
  BY <1>1, <1>2, <1>3, <1>4, <1>5, <1>6, <1>7, <1>8, <1>9, <1>10, <1>11, <1>12,
     <1>13, <1>14, <1>15 DEF FilingNext

\* A target goes missing with its copies, is not written while it is missing, and
\* is no longer missing when it holds copies again.
LEMMA NextKeepsMissingEmpty ==
  ASSUME FilingInv, MissingHoldsNothing, [FilingNext]_vars
  PROVE  MissingHoldsNothing'
<1>1. target \in [Targets -> [Pages -> Nat]]
  BY DEF FilingInv, FilingTypeOK
<1>2. ASSUME NEW o \in DOMAIN ledger, WriteTarget(o)
      PROVE  MissingHoldsNothing'
  <2>1. o.target \notin missing /\ missing' = missing
    BY <1>2 DEF WriteTarget, WritesTarget
  <2>2. \A t \in Targets : t # o.target => target'[t] = target[t]
    BY <1>1, <1>2 DEF WriteTarget, AddCopies
  <2>3. QED
    BY <2>1, <2>2 DEF MissingHoldsNothing
<1>3. ASSUME NEW o \in DOMAIN ledger, LoseTarget(o)
      PROVE  MissingHoldsNothing'
  <2>1. \A t \in Targets : target'[t] = IF t = o.target THEN NoCopies ELSE target[t]
    BY <1>1, <1>3 DEF LoseTarget
  <2>2. missing' = missing \cup {o.target} /\ \A p \in Pages : NoCopies[p] = 0
    BY <1>3 DEF LoseTarget, NoCopies
  <2>3. QED
    BY <2>1, <2>2 DEF MissingHoldsNothing
<1>4. ASSUME NEW t \in Targets, RestoreTarget(t)
      PROVE  MissingHoldsNothing'
  <2>1. missing' = missing \ {t} /\ \A u \in Targets : u # t => target'[u] = target[u]
    BY <1>1, <1>4 DEF RestoreTarget
  <2>2. QED
    BY <2>1 DEF MissingHoldsNothing
<1>5. ASSUME target' = target, missing' \subseteq missing \cup {Source}
      PROVE  MissingHoldsNothing'
  BY <1>5, SourceIsNoTarget DEF MissingHoldsNothing
<1>6. ASSUME NEW o \in DOMAIN ledger, Resume(o) \/ MarkSourceRemoved(o) \/ MarkCompleted(o)
      PROVE  target' = target /\ missing' \subseteq missing \cup {Source}
  BY <1>6 DEF Resume, MarkSourceRemoved, MarkCompleted, cloudVars
<1>7. ASSUME NEW starred \in SUBSET Pages,
             NEW route \in [starred -> Targets \cup {NoTarget}],
             StartByStars(starred, route)
      PROVE  target' = target /\ missing' \subseteq missing \cup {Source}
  BY <1>7 DEF StartByStars, StartRun, cloudVars
<1>8. ASSUME NEW pages \in SUBSET Pages, NEW t \in Targets, StartExplicit(pages, t)
      PROVE  target' = target /\ missing' \subseteq missing \cup {Source}
  BY <1>8 DEF StartExplicit, StartRun, cloudVars
<1>9. ASSUME MarkTargetWritten \/ UploadSource \/ UploadSourceFails \/ LoseSource \/ Stop
             \/ RestoreSource \/ UNCHANGED vars
      PROVE  target' = target /\ missing' \subseteq missing \cup {Source}
  BY <1>9 DEF MarkTargetWritten, UploadSource, UploadSourceFails, LoseSource, Stop,
     RestoreSource, vars, cloudVars
<1>10. ASSUME NEW new \in SUBSET Pages, DeviceEdit(new)
       PROVE  target' = target /\ missing' \subseteq missing \cup {Source}
  BY <1>10 DEF DeviceEdit
<1>11. QED
  BY <1>2, <1>3, <1>4, <1>5, <1>6, <1>7, <1>8, <1>9, <1>10 DEF FilingNext

\* The invariant holds throughout, however runs stop and resume.
THEOREM FilingInvariant == FilingSpec => []FilingInv
<1>1. FilingInit => FilingInv /\ MissingHoldsNothing
  BY InitEstablishesInv DEF FilingInit, MissingHoldsNothing
<1>2. FilingInv /\ MissingHoldsNothing /\ [FilingNext]_vars
        => FilingInv' /\ MissingHoldsNothing'
  BY NextKeepsInv, NextKeepsMissingEmpty
<1>3. QED
  BY <1>1, <1>2, PTL DEF FilingSpec

\* Runs, operations and statuses have the form the code gives them, and a run
\* executes recorded operations only.
THEOREM FilingTypeCorrect == FilingSpec => []FilingTypeOK
<1>1. FilingInv => FilingTypeOK
  BY DEF FilingInv
<1>2. QED
  BY <1>1, FilingInvariant, PTL

\* A page that filing was asked to move is in a notebook of the Cloud, or it
\* went with a notebook whose upload ended after the deletion.
THEOREM FilingLosesNoPage == FilingSpec => []NoPageLost
<1>1. FilingInv => NoPageLost
  <2> SUFFICES ASSUME FilingInv, NEW o \in DOMAIN ledger, NEW p \in Moved(o)
               PROVE  p \in InSource \cup Filed \cup WentWithNotebook
    BY DEF NoPageLost
  <2>1. CASE p \in source.pages
    BY <2>1 DEF InSource, WentWithNotebook
  <2>2. CASE p \in EverFiled
    <3>1. PICK t \in Targets : p \in Pages /\ Put(t, p) > 0
      BY <2>2 DEF EverFiled
    <3>2. target[t][p] > 0 \/ destroyed[t][p] > 0
      BY <3>1 DEF Put, FilingInv, FilingTypeOK
    <3>3. QED
      BY <3>1, <3>2 DEF Filed, WentWithNotebook
  <2>3. QED
    BY <2>1, <2>2 DEF FilingInv, PagesKept
<1>2. QED
  BY <1>1, FilingInvariant, PTL

\* What the ledger records of an operation is true in the Cloud, but for what
\* went with a target.
THEOREM FilingLedgerIsHonest == FilingSpec => []LedgerIsHonest
<1>1. FilingInv => LedgerIsHonest
  <2> SUFFICES ASSUME FilingInv
               PROVE  LedgerIsHonest
    OBVIOUS
  <2>1. ASSUME NEW o \in DOMAIN ledger, Written(o), NEW p \in o.pages
        PROVE  target[o.target][p] > 0 \/ destroyed[o.target][p] > 0
    <3>1. o.target \in Targets /\ p \in Pages
      BY DEF FilingInv, FilingTypeOK, Operations
    <3>2. Put(o.target, p) > 0
      BY <2>1 DEF FilingInv, WrittenIsPut
    <3>3. QED
      BY <3>1, <3>2 DEF Put, FilingInv, FilingTypeOK
  <2>2. QED
    BY <2>1 DEF FilingInv, CleanedIsOut, LedgerIsHonest
<1>2. QED
  BY <1>1, FilingInvariant, PTL

\* A target holds, or lost with its deletion, one copy of a page for each
\* written operation, besides those whose upload was not recorded: a failed
\* cleanup never appends again.
THEOREM FilingAccountsForCopies == FilingSpec => []EveryCopyIsAccountedFor
<1>1. FilingInv => EveryCopyIsAccountedFor
  BY DEF FilingInv, PutIsAccountedFor, Put, EveryCopyIsAccountedFor
<1>2. QED
  BY <1>1, FilingInvariant, PTL

=============================================================================
