------------------------- MODULE LedgerIngestProofs -------------------------
(***************************************************************************)
(* Proofs about LedgerIngest, for any deployments, notes, pages and edits, *)
(* any page cap, and any failures and restarts: what the ledger calls      *)
(* ready has been read, and the text served for it is its own.             *)
(***************************************************************************)
EXTENDS LedgerIngest, CloudChangeLedgerProofs, WellFoundedInduction

\* A page and an index it was at.
Place(p, n) == [page_id |-> p, index |-> n]

(***************************************************************************)
(* Facts about notes.                                                      *)
(***************************************************************************)

\* What the device may write: lists of pages without repeated IDs.
Notes == UNION {d.notes : d \in Deployments}

LEMMA NoteParts ==
  ASSUME NEW note \in Notes
  PROVE  /\ Len(note) \in Nat /\ DOMAIN note = 1..Len(note)
         /\ \A k \in DOMAIN note : note[k] \in NotePage
         /\ \A j, k \in DOMAIN note : note[j].page_id = note[k].page_id => j = k
         /\ PageRevisions(note) \in Snapshots
<1>1. PICK d \in Deployments : note \in d.notes
  BY DEF Notes
<1>2. note \in Seq(NotePage)
  BY <1>1, DeploymentsAreOfNotes
<1>3. /\ Len(note) \in Nat /\ DOMAIN note = 1..Len(note)
      /\ \A k \in DOMAIN note : note[k] \in NotePage
  BY <1>2
<1>4. QED
  BY <1>1, <1>3, DeploymentsAreOfNotes

\* Indexes count from 0, and there are no more of them than page IDs.
LEMMA IndexesOfNote ==
  ASSUME NEW note \in Notes
  PROVE  /\ IndexesOf(note) \subseteq PageIndexes
         /\ IndexesOf(note) \subseteq Nat
         /\ \A k \in DOMAIN note : k - 1 \in IndexesOf(note) /\ note[k] = PageAt(note, k - 1)
         /\ \A n \in IndexesOf(note) : n + 1 \in DOMAIN note /\ PageAt(note, n) \in NotePage
<1> DEFINE idOf == [k \in 1..Len(note) |-> note[k].page_id]
<1>1. /\ Len(note) \in Nat /\ DOMAIN note = 1..Len(note)
      /\ \A k \in DOMAIN note : note[k] \in NotePage
      /\ \A j, k \in DOMAIN note : note[j].page_id = note[k].page_id => j = k
  BY NoteParts
<1>2. PICK length \in Nat : length = Len(note)
  BY <1>1
<1>3. idOf \in Injection(1..length, PageIds)
  <2>1. idOf \in [1..length -> PageIds]
    BY <1>1, <1>2 DEF NotePage
  <2>2. \A j, k \in 1..length : idOf[j] = idOf[k] => j = k
    BY <1>1, <1>2
  <2>3. QED
    BY <2>1, <2>2 DEF Injection, IsInjective
<1>4. Cardinality(PageIds) \in Nat
  BY PageIdsAreOrdered, FS_CardinalityType
<1>5. length <= Cardinality(PageIds)
  <2>1. Cardinality(1..length) <= Cardinality(PageIds)
    BY <1>3, PageIdsAreOrdered, FS_Injection
  <2>2. Cardinality(1..length) = length
    <3>1. Cardinality(1..length) = IF 1 > length THEN 0 ELSE length - 1 + 1
      BY FS_Interval
    <3>2. QED
      BY <3>1
  <2>3. QED
    BY <2>1, <2>2
<1>6. IndexesOf(note) = 0..(length - 1)
  BY <1>2 DEF IndexesOf
<1>7. /\ IndexesOf(note) \subseteq PageIndexes
      /\ IndexesOf(note) \subseteq Nat
  BY <1>4, <1>5, <1>6 DEF PageIndexes
<1>8. ASSUME NEW k \in DOMAIN note
      PROVE  k - 1 \in IndexesOf(note) /\ note[k] = PageAt(note, k - 1)
  <2>1. k \in 1..length
    BY <1>1, <1>2
  <2>2. k - 1 \in 0..(length - 1) /\ (k - 1) + 1 = k
    BY <2>1
  <2>3. QED
    BY <1>6, <2>2 DEF PageAt
<1>9. ASSUME NEW n \in IndexesOf(note)
      PROVE  n + 1 \in DOMAIN note /\ PageAt(note, n) \in NotePage
  <2>1. n + 1 \in 1..length
    BY <1>6
  <2>2. QED
    BY <1>1, <1>2, <2>1 DEF PageAt
<1>10. QED
  BY <1>7, <1>8, <1>9

\* Without repeated IDs, the revision of a page is of the page at its index.
LEMMA RevisionsOfNote ==
  ASSUME NEW note \in Notes
  PROVE  /\ DOMAIN PageRevisions(note) = DOMAIN note
         /\ \A k \in DOMAIN note :
              PageRevisions(note)[k] = [page_id |-> note[k].page_id, page_index |-> k - 1,
                                        content_hash |-> note[k].content_hash]
<1>1. \A j, k \in DOMAIN note : note[j].page_id = note[k].page_id => j = k
  BY NoteParts
<1>2. DOMAIN note \subseteq Nat
  BY NoteParts
<1>3. ASSUME NEW k \in DOMAIN note
      PROVE  LastPosition(note, note[k].page_id) = k
  <2>1. \A j \in DOMAIN note : note[j].page_id = note[k].page_id => j <= k
    BY <1>1, <1>2
  <2>2. LastPosition(note, note[k].page_id) \in DOMAIN note
        /\ note[LastPosition(note, note[k].page_id)].page_id = note[k].page_id
    BY <2>1, Zenon DEF LastPosition
  <2>3. QED
    BY <1>1, <2>2
<1>4. QED
  BY <1>3, Zenon DEF PageRevisions

\* The pages of the snapshot of a note are the pages of the note.
LEMMA PagesOfNote ==
  ASSUME NEW note \in Notes
  PROVE  LET new == NewPages(PageRevisions(note))
         IN  /\ \A n \in IndexesOf(note) :
                  LET p == PageAt(note, n).page_id
                  IN  /\ p \in DOMAIN new /\ new[p].page_index = n
                      /\ new[p].content_hash = PageAt(note, n).content_hash
             /\ \A p \in DOMAIN new :
                  /\ new[p].page_index \in IndexesOf(note)
                  /\ Place(p, new[p].page_index) \in Places(note)
<1> DEFINE revisions == PageRevisions(note)
           new == NewPages(revisions)
           revision(k) == [page_id |-> note[k].page_id, page_index |-> k - 1,
                           content_hash |-> note[k].content_hash]
<1>1. Range(revisions) = {revision(k) : k \in DOMAIN note}
  <2>1. DOMAIN revisions = DOMAIN note /\ \A k \in DOMAIN note : revisions[k] = revision(k)
    BY RevisionsOfNote
  <2> HIDE DEF revisions, revision
  <2>2. QED
    BY <2>1 DEF Range
<1>2. \A j, k \in DOMAIN note : note[j].page_id = note[k].page_id => j = k
  BY NoteParts
<1>3. DOMAIN new = {r.page_id : r \in Range(revisions)}
  BY DEF NewPages
<1>4. ASSUME NEW k \in DOMAIN note
      PROVE  note[k].page_id \in DOMAIN new /\ new[note[k].page_id] = revision(k)
  <2>1. revision(k) \in Range(revisions) /\ revision(k).page_id = note[k].page_id
    BY <1>1
  <2>2. note[k].page_id \in DOMAIN new
    BY <1>3, <2>1
  <2>3. \A r \in Range(revisions) : r.page_id = note[k].page_id => r = revision(k)
    BY <1>1, <1>2
  <2>4. new[note[k].page_id] = CHOOSE r \in Range(revisions) : r.page_id = note[k].page_id
    BY <1>3, <2>2 DEF NewPages
  <2>5. QED
    BY <2>1, <2>2, <2>3, <2>4
<1>5. ASSUME NEW n \in IndexesOf(note)
      PROVE  LET p == PageAt(note, n).page_id
             IN  /\ p \in DOMAIN new /\ new[p].page_index = n
                 /\ new[p].content_hash = PageAt(note, n).content_hash
  <2>1. n + 1 \in DOMAIN note /\ n \in Nat /\ PageAt(note, n) = note[n + 1]
    BY IndexesOfNote DEF PageAt
  <2>2. /\ note[n + 1].page_id \in DOMAIN new
        /\ new[note[n + 1].page_id] = revision(n + 1)
    BY <1>4, <2>1
  <2>3. revision(n + 1).page_index = n
    BY <2>1
  <2>4. QED
    BY <2>1, <2>2, <2>3
<1>6. ASSUME NEW p \in DOMAIN new
      PROVE  /\ new[p].page_index \in IndexesOf(note)
             /\ Place(p, new[p].page_index) \in Places(note)
  <2>1. PICK k \in DOMAIN note : p = note[k].page_id
    BY <1>1, <1>3
  <2>2. new[p] = revision(k) /\ revision(k) \in Range(revisions)
    BY <1>1, <1>4, <2>1
  <2>3. new[p].page_index \in IndexesOf(note)
    BY <2>2, IndexesOfNote
  <2>4. Place(p, new[p].page_index) \in Places(note)
    BY <2>1, <2>2 DEF Places, Place
  <2>5. QED
    BY <2>3, <2>4
<1>7. QED
  BY <1>5, <1>6

LEMMA PlacesOfNote ==
  ASSUME NEW note \in Notes
  PROVE  /\ Places(note) \subseteq [page_id: PageIds, index: PageIndexes]
         /\ \A n \in IndexesOf(note) : Place(PageAt(note, n).page_id, n) \in Places(note)
<1>1. ASSUME NEW n \in IndexesOf(note)
      PROVE  Place(PageAt(note, n).page_id, n) \in Places(note)
  BY PagesOfNote
<1>2. ASSUME NEW place \in Places(note)
      PROVE  place \in [page_id: PageIds, index: PageIndexes]
  <2>1. PICK page \in Range(PageRevisions(note)) :
          place = [page_id |-> page.page_id, index |-> page.page_index]
    BY DEF Places
  <2>2. PICK k \in DOMAIN note :
          page = [page_id |-> note[k].page_id, page_index |-> k - 1,
                  content_hash |-> note[k].content_hash]
    BY RevisionsOfNote DEF Range
  <2>3. note[k].page_id \in PageIds /\ k - 1 \in PageIndexes
    BY NoteParts, IndexesOfNote DEF NotePage
  <2>4. QED
    BY <2>1, <2>2, <2>3
<1>3. QED
  BY <1>1, <1>2

(***************************************************************************)
(* The invariant.                                                          *)
(***************************************************************************)

RowOf(p) == pageSnapshot[Notebook][p]

Rows == DOMAIN pageSnapshot[Notebook]

\* The text of a page as it is in some revision is at an index of page_state.
HasText(n, p, hash) ==
  /\ n \in DOMAIN pageState
  /\ pageState[n].page_id = p
  /\ pageState[n].content_hash = hash
  /\ pageState[n].text = hash

\* No text is overwritten by another.
TextKept == \A n, p, hash : HasText(n, p, hash) => HasText(n, p, hash)'

\* A row of the ledger, even a removed one, is of a page that was at its index.
\* With one ingester, a ready one was read, and has its text as long as nothing
\* else was at its index.
RowOK(p) ==
  /\ Place(p, RowOf(p).page_index) \in placed
  /\ OneIngester /\ RowOf(p).ocr_status = "ready" =>
       /\ [page_id |-> p, content_hash |-> RowOf(p).content_hash] \in transcribed
       /\ AlwaysAtItsIndex(p) => HasText(RowOf(p).page_index, p, RowOf(p).content_hash)

RowsOK == \A p \in Rows : RowOK(p)

CloudOK ==
  /\ deployment \in Deployments
  /\ cloudNote \in deployment.notes
  /\ cloudTime \in 1..deployment.maxTime

TextOK ==
  /\ DOMAIN pageState \subseteq Nat
  /\ \A n \in DOMAIN pageState : /\ pageState[n] \in PageStateRow
                                 /\ Place(pageState[n].page_id, n) \in placed
  /\ RowTextIsOfItsRevision

MarkersOK ==
  /\ DOMAIN lastSeen = Pollers
  /\ \A i \in Pollers : lastSeen[i] = None \/ lastSeen[i] \in 1..cloudTime

\* The record a task that reads pages carries from await to await.
Reading == [pc: {"ocr", "mark"}, time: Nat, note: deployment.notes,
            todo: SUBSET PageIndexes, swept: BOOLEAN]

NextOf(t) == CHOOSE n \in t.todo : \A m \in t.todo : n <= m

\* The page a task has just read the text of.
PageRead(t) == PageAt(t.note, NextOf(t))

TaskTyped(t) ==
  \/ t = Idle
  \/ t.pc = "download" /\ t.time \in 0..cloudTime
  \/ t.pc = "apply" /\ t.time \in 0..cloudTime /\ t.note \in deployment.notes
  \/ /\ t \in Reading /\ t.time \in 0..cloudTime
     /\ ~t.swept => t.todo \subseteq IndexesOf(t.note)
     /\ t.pc = "mark" => t.todo # {}

\* With one ingester, the ledger holds the notebook that is being read, and
\* the text of the page to be marked is at its index.
ReadsTheLedger(t) ==
  /\ t.pc \in {"ocr", "mark"} => IsNoOp(Notebook, PageRevisions(t.note))
  /\ t.pc = "mark" => HasText(NextOf(t), PageRead(t).page_id, PageRead(t).content_hash)

\* A poller works for a listing; the pages being read are in the ledger or were;
\* a page is marked after it was read.
TaskOK(i, t) ==
  /\ TaskTyped(t)
  /\ i \in Pollers /\ t # Idle => t.time >= 1
  /\ i \notin deployment.ingesters => t = Idle
  /\ t.pc \in {"ocr", "mark"} => Places(t.note) \subseteq placed
  /\ t.pc = "mark" => /\ NextOf(t) \in IndexesOf(t.note)
                      /\ PageRead(t) \in transcribed
  /\ OneIngester => ReadsTheLedger(t)

TasksOK ==
  /\ task = [i \in Ingesters |-> task[i]]
  /\ \A i \in Ingesters : TaskOK(i, task[i])

IngestInv ==
  /\ RevisionInv
  /\ placed \subseteq [page_id: PageIds, index: PageIndexes]
  /\ RowsOK
  /\ CloudOK
  /\ TextOK
  /\ MarkersOK
  /\ TasksOK

(***************************************************************************)
(* Its parts.                                                              *)
(***************************************************************************)

LEMMA LeastIndex ==
  ASSUME NEW S \in SUBSET Nat, S # {}
  PROVE  (CHOOSE n \in S : \A m \in S : n <= m) \in S
<1>1. PICK k \in S : \A n \in S : <<n, k>> \notin OpToRel(<, Nat)
  BY WFMin, NatLessThanWellFounded, Zenon
<1>2. \A n \in S : ~(n < k)
  BY <1>1, Zenon DEF OpToRel
<1>3. \A n \in S : k <= n
  BY <1>2
<1>4. QED
  BY <1>3, Zenon

LEMMA IndexesAreNatural == PageIndexes \subseteq Nat
<1>1. Cardinality(PageIds) \in Nat
  BY PageIdsAreOrdered, FS_CardinalityType
<1>2. QED
  BY <1>1 DEF PageIndexes

LEMMA CloudParts ==
  ASSUME CloudOK
  PROVE  /\ cloudTime \in Nat /\ cloudTime >= 1 /\ cloudTime <= deployment.maxTime
         /\ deployment.maxTime \in Nat /\ deployment.notes \subseteq Notes
         /\ IsFiniteSet(deployment.ingesters)
<1>1. deployment.maxTime \in Nat /\ IsFiniteSet(deployment.ingesters)
  BY DeploymentsAreOfNotes DEF CloudOK
<1>2. deployment.notes \subseteq Notes
  BY DEF CloudOK, Notes
<1>3. QED
  BY <1>1, <1>2 DEF CloudOK

\* The tasks that read pages.
LEMMA ReadingTask ==
  ASSUME IngestInv, NEW i \in Ingesters, NEW t, t = task[i], t.pc \in {"ocr", "mark"}
  PROVE  /\ TaskOK(i, t)
         /\ t \in Reading /\ t.time \in 0..cloudTime
         /\ t.note \in deployment.notes /\ t.note \in Notes
         /\ t.todo \in SUBSET PageIndexes /\ t.todo \in SUBSET Nat
         /\ t.swept \in BOOLEAN
         /\ ~t.swept => t.todo \subseteq IndexesOf(t.note)
         /\ t.todo # {} => NextIndex(i) = NextOf(t) /\ NextOf(t) \in t.todo
         /\ t.pc = "mark" => t.todo # {}
         /\ i \in deployment.ingesters
<1>1. TaskOK(i, t)
  BY DEF IngestInv, TasksOK
<1>2. /\ t \in Reading /\ t.time \in 0..cloudTime
      /\ ~t.swept => t.todo \subseteq IndexesOf(t.note)
      /\ t.pc = "mark" => t.todo # {}
      /\ i \in deployment.ingesters
  BY <1>1 DEF TaskOK, TaskTyped, Idle
<1>3. /\ t.note \in deployment.notes
      /\ t.todo \in SUBSET PageIndexes /\ t.swept \in BOOLEAN
  BY <1>2 DEF Reading
<1>4. t.note \in Notes
  BY <1>3, CloudParts DEF IngestInv
<1>5. t.todo \in SUBSET Nat
  BY <1>3, IndexesAreNatural
<1>6. t.todo # {} => NextIndex(i) = NextOf(t) /\ NextOf(t) \in t.todo
  BY <1>5, LeastIndex DEF NextIndex, NextOf
<1>7. QED
  BY <1>1, <1>2, <1>3, <1>4, <1>5, <1>6

\* If one ingester works, another than it is idle.
LEMMA OthersAreIdle ==
  ASSUME IngestInv, OneIngester, NEW i \in Ingesters, i \in deployment.ingesters,
         NEW j \in Ingesters, j # i
  PROVE  task[j] = Idle
<1>1. \E x : deployment.ingesters = {x}
  BY CloudParts, FS_Singleton DEF IngestInv, OneIngester
<1>2. j \notin deployment.ingesters
  BY <1>1
<1>3. QED
  BY <1>2 DEF IngestInv, TasksOK, TaskOK

\* A task stays in order while the histories and the clock go on, if the tables
\* it relies on do not change.
LEMMA TaskStaysOK ==
  ASSUME CloudOK, CloudOK', NEW i, NEW t, TaskOK(i, t), deployment' = deployment,
         cloudTime <= cloudTime', placed \subseteq placed', transcribed \subseteq transcribed',
         OneIngester => t = Idle \/ (notebookSnapshot' = notebookSnapshot /\ TextKept)
  PROVE  TaskOK(i, t)'
<1>1. TaskTyped(t)'
  <2>1. cloudTime \in Nat /\ cloudTime' \in Nat
    BY CloudParts DEF CloudOK
  <2>2. 0..cloudTime \subseteq 0..cloudTime'
    BY <2>1
  <2>3. QED
    BY <2>2 DEF TaskOK, TaskTyped, Reading
<1>2. OneIngester' = OneIngester
  BY DEF OneIngester
<1>3. ReadsTheLedger(Idle)'
  BY DEF ReadsTheLedger, Idle
<1>4. OneIngester => ReadsTheLedger(t)'
  BY <1>3 DEF TaskOK, ReadsTheLedger, IsNoOp, TextKept
<1>5. QED
  BY <1>1, <1>2, <1>4 DEF TaskOK

(***************************************************************************)
(* Steps that leave the ledger and page_state alone.                       *)
(***************************************************************************)

LEMMA LedgerStays ==
  ASSUME RevisionInv, UNCHANGED ledgerVars
  PROVE  RevisionInv'
BY DEF ledgerVars, RevisionInv, LedgerTypeOK, PagesMatchRevision, CurrentIds

LEMMA RowsStay ==
  ASSUME RowsOK, UNCHANGED <<tableVars, transcribed, deployment>>, TextKept
  PROVE  RowsOK'
<1>1. UNCHANGED <<pageSnapshot, placed, transcribed, deployment>>
  BY DEF tableVars, ledgerVars
<1>2. QED
  BY <1>1 DEF RowsOK, RowOK, Rows, RowOf, OneIngester, AlwaysAtItsIndex, TextKept

LEMMA TextStays ==
  ASSUME TextOK, UNCHANGED <<placed, pageState>>
  PROVE  TextOK' /\ TextKept
BY DEF TextOK, RowTextIsOfItsRevision, TextKept, HasText

\* One task moves on.
LEMMA OneTaskMoves ==
  ASSUME IngestInv, CloudOK', NEW i \in Ingesters, i \in deployment.ingesters, NEW t,
         task' = [task EXCEPT ![i] = t], TaskOK(i, t)', deployment' = deployment,
         cloudTime <= cloudTime', placed \subseteq placed', transcribed \subseteq transcribed'
  PROVE  TasksOK'
<1>1. task = [j \in Ingesters |-> task[j]]
  BY DEF IngestInv, TasksOK
<1>2. task' = [j \in Ingesters |-> task'[j]] /\ task'[i] = t
  BY <1>1
<1>3. ASSUME NEW j \in Ingesters, j # i
      PROVE  TaskOK(j, task[j])'
  <2>1. PICK s : s = task[j] /\ s = task'[j]
    BY <1>1, <1>3
  <2>2. TaskOK(j, s)
    BY <2>1 DEF IngestInv, TasksOK
  <2>3. OneIngester => s = Idle
    BY <1>3, <2>1, OthersAreIdle
  <2>4. TaskOK(j, s)'
    <3>1. CloudOK
      BY DEF IngestInv
    <3>2. QED
      BY <2>2, <2>3, <3>1, TaskStaysOK
  <2>5. QED
    BY <2>1, <2>4 DEF TaskOK
<1>4. TaskOK(i, task[i])'
  BY <1>2 DEF TaskOK
<1>5. QED
  BY <1>2, <1>3, <1>4 DEF TasksOK

LEMMA OnlyATaskMoves ==
  ASSUME IngestInv, NEW i \in Ingesters, i \in deployment.ingesters, NEW t,
         task' = [task EXCEPT ![i] = t], TaskOK(i, t), MarkersOK',
         UNCHANGED <<tableVars, cloudVars, textVars, deployment>>
  PROVE  IngestInv'
<1>1. /\ UNCHANGED ledgerVars
      /\ UNCHANGED <<placed, pageState, transcribed, cloudNote, cloudTime>>
      /\ notebookSnapshot' = notebookSnapshot
  BY DEF tableVars, textVars, cloudVars, ledgerVars
<1>2. RevisionInv' /\ TextOK' /\ TextKept
  BY <1>1, LedgerStays, TextStays DEF IngestInv
<1>3. CloudOK' /\ RowsOK'
  BY <1>1, <1>2, RowsStay DEF IngestInv, CloudOK
<1>4. cloudTime <= cloudTime'
  BY <1>1, CloudParts DEF IngestInv
<1>5. TaskOK(i, t)'
  BY <1>1, <1>2, <1>3, <1>4, TaskStaysOK DEF IngestInv
<1>6. TasksOK'
  BY <1>1, <1>3, <1>4, <1>5, OneTaskMoves
<1>7. QED
  BY <1>1, <1>2, <1>3, <1>6 DEF IngestInv

LEMMA MarkersStay ==
  ASSUME IngestInv, UNCHANGED <<lastSeen, cloudTime>>
  PROVE  MarkersOK'
BY DEF IngestInv, MarkersOK

LEMMA IdleIsOK ==
  ASSUME NEW i \in Ingesters
  PROVE  TaskOK(i, Idle)
BY DEF TaskOK, TaskTyped, ReadsTheLedger, Idle

\* A task that starts with the listed time.
LEMMA DownloadIsOK ==
  ASSUME IngestInv, NEW i \in Ingesters, i \in deployment.ingesters, NEW cap
  PROVE  TaskOK(i, [pc |-> "download", time |-> cloudTime, cap |-> cap])
<1> DEFINE t == [pc |-> "download", time |-> cloudTime, cap |-> cap]
<1>1. t.pc = "download" /\ t.time = cloudTime
  OBVIOUS
<1>2. cloudTime \in 0..cloudTime /\ cloudTime >= 1
  BY CloudParts DEF IngestInv
<1> HIDE DEF t
<1>3. TaskOK(i, t)
  BY <1>1, <1>2 DEF TaskOK, TaskTyped, ReadsTheLedger
<1>4. QED
  BY <1>3 DEF t

LEMMA SeeFirstKeepsInv ==
  ASSUME IngestInv, NEW i \in Pollers, SeeFirst(i), i \in deployment.ingesters,
         UNCHANGED deployment
  PROVE  IngestInv'
<1>1. /\ lastSeen' = [lastSeen EXCEPT ![i] = cloudTime] /\ task' = task /\ task[i] = Idle
      /\ UNCHANGED <<tableVars, cloudVars, textVars>>
  BY DEF SeeFirst
<1>2. MarkersOK'
  BY <1>1, CloudParts DEF IngestInv, MarkersOK, cloudVars
<1>3. i \in Ingesters
  BY DEF Ingesters
<1>4. task' = [task EXCEPT ![i] = Idle]
  BY <1>1, <1>3, Zenon DEF IngestInv, TasksOK
<1>5. QED
  BY <1>1, <1>2, <1>3, <1>4, IdleIsOK, OnlyATaskMoves

LEMMA SeeChangeKeepsInv ==
  ASSUME IngestInv, NEW i \in Pollers, SeeChange(i), i \in deployment.ingesters,
         UNCHANGED deployment
  PROVE  IngestInv'
<1>1. i \in Ingesters
  BY DEF Ingesters
<1>2. MarkersOK'
  BY MarkersStay DEF SeeChange, cloudVars
<1>3. QED
  BY <1>1, <1>2, DownloadIsOK, OnlyATaskMoves DEF SeeChange

LEMMA StartOnceKeepsInv ==
  ASSUME IngestInv, NEW i \in Ingesters, StartOnce(i), i \in deployment.ingesters,
         UNCHANGED deployment
  PROVE  IngestInv'
<1>1. MarkersOK'
  BY MarkersStay DEF StartOnce, cloudVars
<1>2. QED
  BY <1>1, DownloadIsOK, OnlyATaskMoves DEF StartOnce

LEMMA DownloadKeepsInv ==
  ASSUME IngestInv, NEW i \in Ingesters, Download(i), i \in deployment.ingesters,
         UNCHANGED deployment
  PROVE  IngestInv'
<1> DEFINE t == [pc |-> "apply", time |-> task[i].time, cap |-> task[i].cap,
                 note |-> cloudNote]
<1>1. /\ task[i].pc = "download" /\ task' = [task EXCEPT ![i] = t]
      /\ UNCHANGED <<tableVars, cloudVars, textVars, lastSeen>>
  BY DEF Download
<1>2. MarkersOK'
  BY <1>1, MarkersStay DEF cloudVars
<1>3. PICK s : s = t
  OBVIOUS
<1>4. s.pc = "apply" /\ s.time = task[i].time /\ s.note = cloudNote
  BY <1>3
<1> HIDE DEF t
<1>5. TaskOK(i, s)
  <2>1. TaskOK(i, task[i])
    BY DEF IngestInv, TasksOK
  <2>2. /\ task[i].time \in 0..cloudTime /\ task[i] # Idle
        /\ i \in Pollers => task[i].time >= 1
    BY <1>1, <2>1 DEF TaskOK, TaskTyped, Idle, Reading
  <2>3. cloudNote \in deployment.notes
    BY DEF IngestInv, CloudOK
  <2>4. QED
    BY <1>4, <2>2, <2>3 DEF TaskOK, TaskTyped, ReadsTheLedger
<1>6. QED
  BY <1>1, <1>2, <1>3, <1>5, OnlyATaskMoves

\* A task that reads pages keeps doing so.
LEMMA ReadingGoesOn ==
  ASSUME NEW t \in Reading, t.pc = "ocr", NEW todo
  PROVE  [t EXCEPT !.pc = "ocr", !.todo = todo] = [t EXCEPT !.todo = todo]
<1>1. [t EXCEPT !.pc = "ocr"] = t
  BY DEF Reading
<1>2. [t EXCEPT !.pc = "ocr", !.todo = todo] = [[t EXCEPT !.pc = "ocr"] EXCEPT !.todo = todo]
  OBVIOUS
<1>3. QED
  BY <1>1, <1>2, Zenon

\* A task that reads pages goes on with other pages.
LEMMA NextReadingIsOK ==
  ASSUME IngestInv, NEW i \in Ingesters, NEW t, t = task[i], t.pc \in {"ocr", "mark"},
         NEW s \in Reading, s.pc = "ocr", s.time = t.time, s.note = t.note,
         ~s.swept => s.todo \subseteq IndexesOf(s.note)
  PROVE  TaskOK(i, s)
<1>1. /\ TaskOK(i, t) /\ t.time \in 0..cloudTime /\ i \in deployment.ingesters
  BY ReadingTask
<1>2. TaskTyped(s)
  BY <1>1 DEF TaskTyped
<1>3. /\ i \in Pollers => s.time >= 1
      /\ Places(s.note) \subseteq placed
  BY <1>1 DEF TaskOK, Idle
<1>4. OneIngester => ReadsTheLedger(s)
  BY <1>1 DEF TaskOK, ReadsTheLedger
<1>5. QED
  BY <1>1, <1>2, <1>3, <1>4 DEF TaskOK

\* The pages a sweep takes up are where a notebook can have pages.
LEMMA DueAreIndexes ==
  ASSUME IngestInv
  PROVE  Due \subseteq PageIndexes
<1>1. ASSUME NEW p \in CurrentIds(Notebook)
      PROVE  pageSnapshot[Notebook][p].page_index \in PageIndexes
  <2>1. p \in Rows
    BY DEF CurrentIds, Rows
  <2>2. Place(p, RowOf(p).page_index) \in [page_id: PageIds, index: PageIndexes]
    BY <2>1 DEF IngestInv, RowsOK, RowOK
  <2>3. QED
    BY <2>2 DEF Place, RowOf
<1>2. QED
  BY <1>1 DEF Due

LEMMA StartSweepKeepsInv ==
  ASSUME IngestInv, NEW i \in Ingesters, StartSweep(i), UNCHANGED deployment
  PROVE  IngestInv'
<1>1. PICK t : t = task[i]
  OBVIOUS
<1>2. /\ t.pc = "ocr" /\ task' = [task EXCEPT ![i] = [t EXCEPT !.todo = Due, !.swept = TRUE]]
      /\ UNCHANGED <<tableVars, cloudVars, textVars, lastSeen>>
  BY <1>1 DEF StartSweep
<1>3. t \in Reading /\ i \in deployment.ingesters
  BY <1>1, <1>2, ReadingTask
<1>4. PICK due \in SUBSET PageIndexes : due = Due
  BY DueAreIndexes
<1>5. PICK s : s = [t EXCEPT !.todo = due, !.swept = TRUE]
  OBVIOUS
<1>6. /\ s \in Reading /\ s.pc = "ocr" /\ s.swept = TRUE
      /\ s.time = t.time /\ s.note = t.note
  <2> DEFINE Edits == SUBSET PageIndexes
  <2>1. /\ t \in [pc: {"ocr", "mark"}, time: Nat, note: deployment.notes,
                  todo: Edits, swept: BOOLEAN]
        /\ due \in Edits
    BY <1>2, <1>3 DEF Reading
  <2> HIDE DEF Edits
  <2>2. /\ s \in [pc: {"ocr", "mark"}, time: Nat, note: deployment.notes,
                  todo: Edits, swept: BOOLEAN]
        /\ s.pc = t.pc /\ s.swept = TRUE
        /\ s.time = t.time /\ s.note = t.note
    BY <1>5, <2>1
  <2>3. QED
    BY <1>2, <2>2 DEF Edits, Reading
<1>7. TaskOK(i, s)
  BY <1>1, <1>2, <1>6, NextReadingIsOK
<1>8. MarkersOK'
  BY <1>2, MarkersStay DEF cloudVars
<1>9. QED
  BY <1>2, <1>3, <1>4, <1>5, <1>7, <1>8, OnlyATaskMoves

\* The page whose turn it was is done, or skipped.
LEMMA PageDoneIsOK ==
  ASSUME IngestInv, NEW i \in Ingesters, task[i].pc \in {"ocr", "mark"}
  PROVE  /\ i \in deployment.ingesters
         /\ TaskOK(i, PageDone(i))
         /\ task[i].pc = "ocr" =>
              PageDone(i) = [task[i] EXCEPT !.todo = @ \ {NextIndex(i)}]
<1>1. PICK t : t = task[i]
  OBVIOUS
<1>2. /\ t \in Reading /\ t.todo \in SUBSET PageIndexes
      /\ ~t.swept => t.todo \subseteq IndexesOf(t.note)
      /\ i \in deployment.ingesters
  BY <1>1, ReadingTask
<1>3. PICK todo \in SUBSET PageIndexes : todo = t.todo \ {NextIndex(i)}
  BY <1>2
<1>4. PICK s : s = [t EXCEPT !.pc = "ocr", !.todo = todo]
  OBVIOUS
<1>5. /\ s \in Reading /\ s.pc = "ocr" /\ s.todo = todo /\ s.swept = t.swept
      /\ s.time = t.time /\ s.note = t.note
  <2> DEFINE Edits == SUBSET PageIndexes
  <2>1. /\ t \in [pc: {"ocr", "mark"}, time: Nat, note: deployment.notes,
                  todo: Edits, swept: BOOLEAN]
        /\ todo \in Edits
    BY <1>2, <1>3 DEF Reading
  <2> HIDE DEF Edits
  <2>2. /\ s \in [pc: {"ocr", "mark"}, time: Nat, note: deployment.notes,
                  todo: Edits, swept: BOOLEAN]
        /\ s.pc = "ocr" /\ s.todo = todo /\ s.swept = t.swept
        /\ s.time = t.time /\ s.note = t.note
    BY <1>4, <2>1
  <2>3. QED
    BY <1>2, <2>2 DEF Edits, Reading
<1>6. ~s.swept => s.todo \subseteq IndexesOf(s.note)
  BY <1>2, <1>3, <1>5
<1>7. TaskOK(i, s)
  BY <1>1, <1>5, <1>6, NextReadingIsOK
<1>8. PageDone(i) = s
  BY <1>1, <1>3, <1>4 DEF PageDone
<1>9. QED
  BY <1>1, <1>2, <1>3, <1>4, <1>7, <1>8, ReadingGoesOn

LEMMA ReadPageEmptyKeepsInv ==
  ASSUME IngestInv, NEW i \in Ingesters, ReadPageEmpty(i), UNCHANGED deployment
  PROVE  IngestInv'
<1>1. task[i].pc = "ocr"
  BY DEF ReadPageEmpty, HasPageToRead
<1>2. MarkersOK'
  BY MarkersStay DEF ReadPageEmpty, cloudVars
<1>3. QED
  BY <1>1, <1>2, PageDoneIsOK, OnlyATaskMoves DEF ReadPageEmpty

LEMMA SkipPageKeepsInv ==
  ASSUME IngestInv, NEW i \in Ingesters, SkipPage(i), UNCHANGED deployment
  PROVE  IngestInv'
<1>1. task[i].pc = "ocr"
  BY DEF SkipPage, HasPageToRead
<1>2. task' = [task EXCEPT ![i] = PageDone(i)]
  BY <1>1, PageDoneIsOK DEF SkipPage
<1>3. MarkersOK'
  BY MarkersStay DEF SkipPage, cloudVars
<1>4. QED
  BY <1>1, <1>2, <1>3, PageDoneIsOK, OnlyATaskMoves DEF SkipPage

LEMMA FinishKeepsInv ==
  ASSUME IngestInv, NEW i \in Ingesters, Finish(i), UNCHANGED deployment
  PROVE  IngestInv'
<1>1. PICK t : t = task[i]
  OBVIOUS
<1>2. /\ t.pc = "ocr" /\ task' = [task EXCEPT ![i] = Idle]
      /\ lastSeen' = IF i \in Pollers THEN [lastSeen EXCEPT ![i] = t.time] ELSE lastSeen
      /\ UNCHANGED <<tableVars, cloudVars, textVars>>
  BY <1>1 DEF Finish
<1>3. /\ TaskOK(i, t) /\ t.time \in 0..cloudTime /\ i \in deployment.ingesters
  BY <1>1, <1>2, ReadingTask
<1>4. i \in Pollers => t.time \in 1..cloudTime
  <2>1. i \in Pollers => t.time >= 1
    BY <1>2, <1>3 DEF TaskOK, Idle
  <2>2. cloudTime \in Nat
    BY CloudParts DEF IngestInv
  <2>3. QED
    BY <1>3, <2>1, <2>2
<1>5. MarkersOK'
  <2>1. CASE i \in Pollers
    BY <1>2, <1>4, <2>1 DEF IngestInv, MarkersOK, cloudVars
  <2>2. CASE i \notin Pollers
    BY <1>2, <2>2, MarkersStay DEF cloudVars
  <2>3. QED
    BY <2>1, <2>2
<1>6. QED
  BY <1>2, <1>3, <1>5, IdleIsOK, OnlyATaskMoves

LEMMA FailKeepsInv ==
  ASSUME IngestInv, NEW i \in Ingesters, i \in deployment.ingesters, Fail(i),
         UNCHANGED deployment
  PROVE  IngestInv'
<1>1. MarkersOK'
  BY MarkersStay DEF Fail, cloudVars
<1>2. QED
  BY <1>1, IdleIsOK, OnlyATaskMoves DEF Fail

LEMMA RestartKeepsInv ==
  ASSUME IngestInv, NEW i \in Pollers, i \in deployment.ingesters, Restart(i),
         UNCHANGED deployment
  PROVE  IngestInv'
<1>1. i \in Ingesters
  BY DEF Ingesters
<1>2. MarkersOK'
  BY DEF Restart, cloudVars, IngestInv, MarkersOK
<1>3. QED
  BY <1>1, <1>2, IdleIsOK, OnlyATaskMoves DEF Restart

(***************************************************************************)
(* Steps that write page_state.                                            *)
(***************************************************************************)

LEMMA UpsertedText ==
  ASSUME TextOK, NEW n \in Nat, NEW row \in PageStateRow, Upsert(n, row),
         row.text \in {NoText, row.content_hash}, Place(row.page_id, n) \in placed,
         placed' = placed
  PROVE  /\ TextOK'
         /\ DOMAIN pageState' = DOMAIN pageState \cup {n} /\ pageState'[n] = row
         /\ \A j \in DOMAIN pageState \ {n} : pageState'[j] = pageState[j]
<1>1. /\ DOMAIN pageState' = DOMAIN pageState \cup {n} /\ pageState'[n] = row
      /\ \A j \in DOMAIN pageState \ {n} : pageState'[j] = pageState[j]
  BY DEF Upsert
<1>2. TextOK'
  BY <1>1 DEF TextOK, RowTextIsOfItsRevision
<1>3. QED
  BY <1>1, <1>2

\* One task moves on and page_state changes, but no text is lost.
LEMMA TextKeptByTask ==
  ASSUME IngestInv, NEW i \in Ingesters, i \in deployment.ingesters, NEW t,
         task' = [task EXCEPT ![i] = t], TaskOK(i, t), TextOK', TextKept,
         UNCHANGED <<tableVars, cloudVars, lastSeen, transcribed, deployment>>
  PROVE  IngestInv'
<1>1. /\ UNCHANGED ledgerVars
      /\ UNCHANGED <<placed, cloudNote, cloudTime>>
      /\ notebookSnapshot' = notebookSnapshot
  BY DEF tableVars, cloudVars, ledgerVars
<1>2. RevisionInv' /\ RowsOK' /\ CloudOK'
  BY <1>1, LedgerStays, RowsStay DEF IngestInv, CloudOK
<1>3. cloudTime <= cloudTime'
  BY <1>1, CloudParts DEF IngestInv
<1>4. TaskOK(i, t)'
  BY <1>1, <1>2, <1>3, TaskStaysOK DEF IngestInv
<1>5. TasksOK'
  BY <1>1, <1>2, <1>3, <1>4, OneTaskMoves
<1>6. MarkersOK'
  BY <1>1, MarkersStay
<1>7. QED
  BY <1>1, <1>2, <1>5, <1>6 DEF IngestInv

\* A page to be read is in the ledger or was, at its index.
LEMMA PageToRead ==
  ASSUME IngestInv, NEW i \in Ingesters, NEW t, t = task[i], t.pc \in {"ocr", "mark"},
         NEW n \in IndexesOf(t.note), NEW page, page = PageAt(t.note, n)
  PROVE  /\ n \in Nat /\ page \in NotePage
         /\ page.page_id \in PageIds /\ page.content_hash \in Hashes
         /\ page = [page_id |-> page.page_id, content_hash |-> page.content_hash]
         /\ Place(page.page_id, n) \in placed
<1>1. t.note \in Notes /\ Places(t.note) \subseteq placed
  BY ReadingTask DEF TaskOK
<1>2. /\ n \in Nat /\ page \in NotePage
      /\ Place(page.page_id, n) \in placed
  BY <1>1, IndexesOfNote, PlacesOfNote
<1>3. /\ page.page_id \in PageIds /\ page.content_hash \in Hashes
      /\ page = [page_id |-> page.page_id, content_hash |-> page.content_hash]
  BY <1>2 DEF NotePage
<1>4. QED
  BY <1>2, <1>3

LEMMA ReadPageFailsKeepsInv ==
  ASSUME IngestInv, NEW i \in Ingesters, ReadPageFails(i), UNCHANGED deployment
  PROVE  IngestInv'
<1>1. PICK t : t = task[i]
  OBVIOUS
<1>2. PICK n \in IndexesOf(t.note) : n = NextIndex(i)
  BY <1>1 DEF ReadPageFails
<1>3. PICK page : page = PageAt(t.note, n)
  OBVIOUS
<1>4. /\ t.pc = "ocr" /\ task' = [task EXCEPT ![i] = PageDone(i)]
      /\ RecordOcrFailure(n, page)
      /\ UNCHANGED <<tableVars, cloudVars, lastSeen, transcribed>>
  BY <1>1, <1>2, <1>3 DEF ReadPageFails, HasPageToRead
<1>5. i \in deployment.ingesters /\ TaskOK(i, PageDone(i))
  BY <1>1, <1>4, PageDoneIsOK
<1>6. /\ n \in Nat /\ page.page_id \in PageIds /\ page.content_hash \in Hashes
      /\ Place(page.page_id, n) \in placed
  BY <1>1, <1>3, <1>4, PageToRead
<1>7. placed' = placed /\ TextOK
  BY <1>4 DEF tableVars, IngestInv
<1>8. TextOK' /\ TextKept
  <2>1. CASE n \in DOMAIN pageState
    <3>1. pageState[n] \in PageStateRow /\ RowAt(n) = pageState[n] /\ RowAt(n) # None
      BY <1>7, <2>1, NoneIsNoPageState DEF TextOK, RowAt
    <3>2. PICK row : row = [pageState[n] EXCEPT !.backoff = TRUE]
      OBVIOUS
    <3>3. Upsert(n, row)
      BY <1>4, <3>1, <3>2 DEF RecordOcrFailure
    <3>4. /\ row \in PageStateRow /\ row.page_id = pageState[n].page_id
          /\ row.content_hash = pageState[n].content_hash /\ row.text = pageState[n].text
      BY <3>1, <3>2 DEF PageStateRow
    <3>5. /\ row.text \in {NoText, row.content_hash}
          /\ Place(row.page_id, n) \in placed
      BY <1>7, <2>1, <3>4 DEF TextOK, RowTextIsOfItsRevision
    <3>6. /\ TextOK'
          /\ DOMAIN pageState' = DOMAIN pageState \cup {n} /\ pageState'[n] = row
          /\ \A j \in DOMAIN pageState \ {n} : pageState'[j] = pageState[j]
      BY <1>6, <1>7, <3>3, <3>4, <3>5, UpsertedText
    <3>7. TextKept
      BY <3>4, <3>6 DEF TextKept, HasText
    <3>8. QED
      BY <3>6, <3>7
  <2>2. CASE n \notin DOMAIN pageState
    <3>1. PICK row : row = [page_id |-> page.page_id, content_hash |-> page.content_hash,
                            text |-> NoText, backoff |-> TRUE]
      OBVIOUS
    <3>2. Upsert(n, row)
      BY <1>4, <2>2, <3>1 DEF RecordOcrFailure, RowAt
    <3>3. row \in PageStateRow /\ row.text = NoText /\ row.page_id = page.page_id
      BY <1>6, <3>1 DEF PageStateRow
    <3>4. /\ TextOK'
          /\ DOMAIN pageState' = DOMAIN pageState \cup {n}
          /\ \A j \in DOMAIN pageState \ {n} : pageState'[j] = pageState[j]
      BY <1>6, <1>7, <3>2, <3>3, UpsertedText
    <3>5. TextKept
      BY <2>2, <3>4 DEF TextKept, HasText
    <3>6. QED
      BY <3>4, <3>5
  <2>3. QED
    BY <2>1, <2>2
<1>9. QED
  BY <1>4, <1>5, <1>8, TextKeptByTask

LEMMA BackoffElapsesKeepsInv ==
  ASSUME IngestInv, NEW n \in DOMAIN pageState, BackoffElapses(n), UNCHANGED deployment
  PROVE  IngestInv'
<1>1. /\ pageState' = [pageState EXCEPT ![n].backoff = FALSE]
      /\ UNCHANGED <<tableVars, cloudVars, ingestVars, transcribed>>
  BY DEF BackoffElapses
<1>2. /\ UNCHANGED ledgerVars
      /\ UNCHANGED <<placed, cloudNote, cloudTime, task, lastSeen>>
      /\ notebookSnapshot' = notebookSnapshot
  BY <1>1 DEF tableVars, cloudVars, ingestVars, ledgerVars
<1>3. /\ DOMAIN pageState' = DOMAIN pageState
      /\ \A j \in DOMAIN pageState :
           /\ pageState'[j] \in PageStateRow
           /\ pageState'[j].page_id = pageState[j].page_id
           /\ pageState'[j].content_hash = pageState[j].content_hash
           /\ pageState'[j].text = pageState[j].text
  BY <1>1 DEF IngestInv, TextOK, PageStateRow
<1>4. TextOK' /\ TextKept
  BY <1>2, <1>3 DEF IngestInv, TextOK, RowTextIsOfItsRevision, TextKept, HasText
<1>5. RevisionInv' /\ RowsOK' /\ CloudOK'
  BY <1>1, <1>2, <1>4, LedgerStays, RowsStay DEF IngestInv, CloudOK
<1>6. cloudTime <= cloudTime'
  BY <1>2, CloudParts DEF IngestInv
<1>7. ASSUME NEW i \in Ingesters
      PROVE  TaskOK(i, task[i])'
  <2>1. PICK t : t = task[i]
    OBVIOUS
  <2>2. TaskOK(i, t)
    BY <2>1 DEF IngestInv, TasksOK
  <2>3. TaskOK(i, t)'
    BY <1>1, <1>2, <1>4, <1>5, <1>6, <2>2, TaskStaysOK DEF IngestInv
  <2>4. QED
    BY <1>2, <2>1, <2>3
<1>8. TasksOK'
  BY <1>2, <1>7 DEF IngestInv, TasksOK
<1>9. MarkersOK'
  BY <1>2, MarkersStay
<1>10. QED
  BY <1>2, <1>4, <1>5, <1>8, <1>9 DEF IngestInv

LEMMA EditKeepsInv ==
  ASSUME IngestInv, NEW note \in deployment.notes, Edit(note), UNCHANGED deployment
  PROVE  IngestInv'
<1>1. /\ cloudNote' = note /\ cloudTime' = cloudTime + 1 /\ cloudTime < deployment.maxTime
      /\ UNCHANGED ledgerVars
      /\ UNCHANGED <<tableVars, placed, pageState, transcribed, task, lastSeen>>
      /\ notebookSnapshot' = notebookSnapshot
  BY DEF Edit, tableVars, textVars, ingestVars, ledgerVars
<1>2. cloudTime \in Nat /\ cloudTime >= 1 /\ deployment.maxTime \in Nat
  BY CloudParts DEF IngestInv
<1>3. /\ cloudTime' \in 1..deployment.maxTime /\ cloudTime <= cloudTime'
      /\ 1..cloudTime \subseteq 1..cloudTime'
  BY <1>1, <1>2
<1>4. CloudOK'
  BY <1>1, <1>3 DEF IngestInv, CloudOK
<1>5. TextOK' /\ TextKept
  BY <1>1, TextStays DEF IngestInv
<1>6. RevisionInv' /\ RowsOK'
  BY <1>1, <1>5, LedgerStays, RowsStay DEF IngestInv
<1>7. MarkersOK'
  BY <1>1, <1>3 DEF IngestInv, MarkersOK
<1>8. ASSUME NEW i \in Ingesters
      PROVE  TaskOK(i, task[i])'
  <2>1. PICK t : t = task[i]
    OBVIOUS
  <2>2. TaskOK(i, t)
    BY <2>1 DEF IngestInv, TasksOK
  <2>3. TaskOK(i, t)'
    BY <1>1, <1>3, <1>4, <1>5, <2>2, TaskStaysOK DEF IngestInv
  <2>4. QED
    BY <1>1, <2>1, <2>3
<1>9. TasksOK'
  BY <1>1, <1>8 DEF IngestInv, TasksOK
<1>10. QED
  BY <1>1, <1>4, <1>5, <1>6, <1>7, <1>9 DEF IngestInv

\* With one ingester, the page that is read is in the ledger as it is read.
LEMMA LedgerHasThePage ==
  ASSUME IngestInv, OneIngester, NEW i \in Ingesters, NEW t, t = task[i],
         t.pc \in {"ocr", "mark"}, NEW n \in IndexesOf(t.note),
         NEW page, page = PageAt(t.note, n)
  PROVE  /\ page.page_id \in CurrentIds(Notebook) /\ page.page_id \in Rows
         /\ RowOf(page.page_id).page_index = n
         /\ RowOf(page.page_id).content_hash = page.content_hash
<1>1. t.note \in Notes /\ IsNoOp(Notebook, PageRevisions(t.note))
  BY ReadingTask DEF TaskOK, ReadsTheLedger
<1>2. PICK new : new = NewPages(PageRevisions(t.note))
  OBVIOUS
<1>3. /\ CurrentIds(Notebook) = DOMAIN new
      /\ \A p \in DOMAIN new :
           /\ pageSnapshot[Notebook][p].content_hash = new[p].content_hash
           /\ pageSnapshot[Notebook][p].page_index = new[p].page_index
  BY <1>1, <1>2, OneNotebook DEF IngestInv, RevisionInv, PagesMatchRevision, IsNoOp
<1>4. /\ page.page_id \in DOMAIN new /\ new[page.page_id].page_index = n
      /\ new[page.page_id].content_hash = page.content_hash
  BY <1>1, <1>2, PagesOfNote
<1>5. QED
  BY <1>3, <1>4 DEF CurrentIds, Rows, RowOf

LEMMA ReadPageKeepsInv ==
  ASSUME IngestInv, NEW i \in Ingesters, ReadPage(i), UNCHANGED deployment
  PROVE  IngestInv'
<1>1. PICK t : t = task[i]
  OBVIOUS
<1>2. PICK n \in IndexesOf(t.note) : n = NextIndex(i)
  BY <1>1 DEF ReadPage
<1>3. PICK page : page = PageAt(t.note, n)
  OBVIOUS
<1>4. PICK s : s = [t EXCEPT !.pc = "mark"]
  OBVIOUS
<1>5. PICK row : row = [page_id |-> page.page_id, content_hash |-> page.content_hash,
                        text |-> page.content_hash, backoff |-> FALSE]
  OBVIOUS
<1>6. /\ t.pc = "ocr" /\ t.todo # {} /\ task' = [task EXCEPT ![i] = s]
      /\ Upsert(n, row) /\ transcribed' = transcribed \cup {page}
      /\ UNCHANGED <<tableVars, cloudVars, lastSeen>>
  BY <1>1, <1>2, <1>3, <1>4, <1>5 DEF ReadPage, HasPageToRead, UpsertOcrPage
<1>7. /\ TaskOK(i, t) /\ t \in Reading /\ t.time \in 0..cloudTime
      /\ n = NextOf(t) /\ i \in deployment.ingesters
      /\ ~t.swept => t.todo \subseteq IndexesOf(t.note)
  BY <1>1, <1>2, <1>6, ReadingTask
<1>8. /\ n \in Nat /\ page.page_id \in PageIds /\ page.content_hash \in Hashes
      /\ page = [page_id |-> page.page_id, content_hash |-> page.content_hash]
      /\ Place(page.page_id, n) \in placed
  BY <1>1, <1>3, <1>6, PageToRead
<1>9. /\ row \in PageStateRow /\ row.text = page.content_hash
      /\ row.page_id = page.page_id /\ row.content_hash = page.content_hash
  BY <1>5, <1>8 DEF PageStateRow
<1>10. /\ UNCHANGED ledgerVars
       /\ UNCHANGED <<placed, cloudNote, cloudTime, notebookSnapshot, pageSnapshot>>
  BY <1>6 DEF tableVars, cloudVars, ledgerVars
<1>11. /\ TextOK'
       /\ DOMAIN pageState' = DOMAIN pageState \cup {n} /\ pageState'[n] = row
       /\ \A j \in DOMAIN pageState \ {n} : pageState'[j] = pageState[j]
  BY <1>6, <1>8, <1>9, <1>10, UpsertedText DEF IngestInv
<1>12. RevisionInv' /\ CloudOK' /\ MarkersOK'
  BY <1>6, <1>10, LedgerStays, MarkersStay DEF IngestInv, CloudOK
<1>13. HasText(n, page.page_id, page.content_hash)'
  BY <1>9, <1>11 DEF HasText
<1>14. RowsOK'
  <2>1. SUFFICES ASSUME NEW p \in Rows
                 PROVE  RowOK(p)'
    BY <1>10 DEF RowsOK, Rows
  <2>2. RowOK(p) /\ RowOf(p)' = RowOf(p)
    BY <1>10 DEF IngestInv, RowsOK, RowOf
  <2>3. ASSUME OneIngester, RowOf(p).ocr_status = "ready", AlwaysAtItsIndex(p)
        PROVE  HasText(RowOf(p).page_index, p, RowOf(p).content_hash)'
    <3>1. HasText(RowOf(p).page_index, p, RowOf(p).content_hash)
      BY <2>2, <2>3 DEF RowOK
    <3>2. CASE RowOf(p).page_index = n
      <4>1. page.page_id = p
        BY <1>8, <2>3, <3>2 DEF AlwaysAtItsIndex, Place, RowOf
      <4>2. RowOf(p).content_hash = page.content_hash
        BY <1>1, <1>3, <1>6, <2>3, <4>1, LedgerHasThePage
      <4>3. QED
        BY <1>13, <2>2, <3>2, <4>1, <4>2 DEF HasText
    <3>3. CASE RowOf(p).page_index # n
      BY <1>11, <2>2, <3>1, <3>3 DEF HasText
    <3>4. QED
      BY <3>2, <3>3
  <2>4. /\ OneIngester' = OneIngester
        /\ AlwaysAtItsIndex(p)' => AlwaysAtItsIndex(p)
    BY <1>10 DEF OneIngester, AlwaysAtItsIndex
  <2>5. QED
    BY <1>6, <1>10, <2>2, <2>3, <2>4 DEF RowOK
<1>15. TaskOK(i, s)'
  <2>1. /\ s \in Reading /\ s.pc = "mark" /\ s.todo = t.todo /\ s.swept = t.swept
        /\ s.time = t.time /\ s.note = t.note
    <3> DEFINE Edits == SUBSET PageIndexes
    <3>1. t \in [pc: {"ocr", "mark"}, time: Nat, note: deployment.notes,
                 todo: Edits, swept: BOOLEAN]
      BY <1>7 DEF Reading
    <3> HIDE DEF Edits
    <3>2. /\ s \in [pc: {"ocr", "mark"}, time: Nat, note: deployment.notes,
                    todo: Edits, swept: BOOLEAN]
          /\ s.pc = "mark" /\ s.todo = t.todo /\ s.swept = t.swept
          /\ s.time = t.time /\ s.note = t.note
      BY <1>4, <3>1
    <3>3. QED
      BY <3>2 DEF Edits, Reading
  <2>2. TaskTyped(s)'
    BY <1>6, <1>7, <1>10, <2>1 DEF TaskTyped, Reading
  <2>3. NextOf(s) = n /\ PageRead(s) = page
    BY <1>3, <1>7, <2>1 DEF NextOf, PageRead
  <2>4. /\ i \in Pollers => s.time >= 1
        /\ Places(s.note) \subseteq placed'
    BY <1>6, <1>7, <1>10, <2>1 DEF TaskOK, Idle
  <2>5. OneIngester => ReadsTheLedger(s)'
    BY <1>6, <1>7, <1>10, <1>13, <2>1, <2>3 DEF TaskOK, ReadsTheLedger, IsNoOp, HasText
  <2>6. QED
    BY <1>6, <1>7, <1>10, <2>1, <2>2, <2>3, <2>4, <2>5 DEF TaskOK, OneIngester
<1>16. TasksOK'
  <2>1. cloudTime <= cloudTime'
    BY <1>10, CloudParts DEF IngestInv
  <2>2. QED
    BY <1>6, <1>7, <1>10, <1>12, <1>15, <2>1, OneTaskMoves
<1>17. QED
  BY <1>10, <1>11, <1>12, <1>14, <1>16 DEF IngestInv

LEMMA MarkReadyKeepsInv ==
  ASSUME IngestInv, NEW i \in Ingesters, MarkReady(i), UNCHANGED deployment
  PROVE  IngestInv'
<1>1. PICK t : t = task[i]
  OBVIOUS
<1>2. t.pc = "mark"
  BY <1>1 DEF MarkReady
<1>3. /\ TaskOK(i, t) /\ i \in deployment.ingesters /\ NextIndex(i) = NextOf(t)
      /\ t.note \in Notes
  BY <1>1, <1>2, ReadingTask
<1>4. PICK n \in IndexesOf(t.note) : n = NextIndex(i) /\ n = NextOf(t)
  BY <1>2, <1>3 DEF TaskOK
<1>5. PICK page : page = PageAt(t.note, n)
  OBVIOUS
<1>6. PICK q : q = page.page_id
  OBVIOUS
<1>7. /\ \/ MarkPageOcrStatus(Notebook, q, "ready")
         \/ q \notin CurrentIds(Notebook) /\ UNCHANGED ledgerVars
      /\ task' = [task EXCEPT ![i] = PageDone(i)]
      /\ UNCHANGED <<cloudVars, textVars, lastSeen, placed>>
  BY <1>1, <1>4, <1>5, <1>6 DEF MarkReady
<1>8. /\ q \in PageIds /\ page \in transcribed
      /\ page = [page_id |-> q, content_hash |-> page.content_hash]
      /\ OneIngester => HasText(n, q, page.content_hash)
  BY <1>1, <1>2, <1>3, <1>4, <1>5, <1>6, PageToRead DEF TaskOK, PageRead, ReadsTheLedger
<1>9. /\ RevisionInv'
      /\ notebookSnapshot' = notebookSnapshot
      /\ DOMAIN pageSnapshot'[Notebook] = Rows
      /\ \A p \in Rows :
           /\ RowOf(p)'.page_index = RowOf(p).page_index
           /\ RowOf(p)'.content_hash = RowOf(p).content_hash
           /\ p # q => RowOf(p)'.ocr_status = RowOf(p).ocr_status
  <2>1. CASE UNCHANGED ledgerVars
    <3>1. RevisionInv'
      BY <2>1, LedgerStays DEF IngestInv
    <3>2. QED
      BY <2>1, <3>1 DEF ledgerVars, RowOf, Rows
  <2>2. CASE MarkPageOcrStatus(Notebook, q, "ready")
    <3>1. /\ LedgerTypeOK /\ PagesMatchRevision /\ Notebook \in Notebooks
      BY OneNotebook DEF IngestInv, RevisionInv
    <3>2. LedgerTypeOK'
      BY <1>8, <2>2, <3>1, MarkKeepsType
    <3>3. RevisionInv'
      BY <1>8, <2>2, <3>1, LedgerKeepsMatch DEF RevisionInv, LedgerNext
    <3>4. pageSnapshot' = [pageSnapshot EXCEPT ![Notebook] =
                             [pageSnapshot[Notebook] EXCEPT ![q].ocr_status = "ready"]]
          /\ notebookSnapshot' = notebookSnapshot
      BY <2>2 DEF MarkPageOcrStatus
    <3>5. \A p \in Rows : pageSnapshot[Notebook][p] \in PageRow
      BY <3>1 DEF LedgerTypeOK, Rows
    <3>6. pageSnapshot'[Notebook] = [pageSnapshot[Notebook] EXCEPT ![q].ocr_status = "ready"]
      BY <3>1, <3>4 DEF LedgerTypeOK
    <3>7. QED
      BY <3>3, <3>4, <3>5, <3>6 DEF RowOf, Rows, PageRow
  <2>3. QED
    BY <1>7, <2>1, <2>2
<1>10. RowsOK'
  <2>1. SUFFICES ASSUME NEW p \in Rows
                 PROVE  RowOK(p)'
    BY <1>9 DEF RowsOK, Rows
  <2>2. RowOK(p)
    BY DEF IngestInv, RowsOK
  <2>3. /\ OneIngester' = OneIngester
        /\ AlwaysAtItsIndex(p)' = AlwaysAtItsIndex(p)
        /\ UNCHANGED <<placed, transcribed, pageState>>
    BY <1>7, <1>9 DEF OneIngester, AlwaysAtItsIndex, RowOf, textVars
  <2>4. CASE p # q
    BY <1>9, <2>2, <2>3, <2>4 DEF RowOK, HasText
  <2>5. CASE p = q
    <3>1. OneIngester => /\ RowOf(p).page_index = n
                         /\ RowOf(p).content_hash = page.content_hash
      BY <1>1, <1>2, <1>5, <1>6, <2>5, LedgerHasThePage
    <3>2. QED
      BY <1>8, <1>9, <2>2, <2>3, <2>5, <3>1 DEF RowOK, HasText
  <2>6. QED
    BY <2>4, <2>5
<1>11. /\ UNCHANGED <<cloudNote, cloudTime, pageState, transcribed>>
  BY <1>7 DEF cloudVars, textVars
<1>12. TextOK' /\ TextKept /\ CloudOK' /\ MarkersOK'
  BY <1>7, <1>11, TextStays, MarkersStay DEF IngestInv, CloudOK
<1>13. TaskOK(i, PageDone(i))
  BY <1>1, <1>2, PageDoneIsOK
<1>14. PICK s : s = PageDone(i)
  OBVIOUS
<1>15. cloudTime <= cloudTime'
  BY <1>11, CloudParts DEF IngestInv
<1>16. TaskOK(i, s)'
  BY <1>7, <1>9, <1>11, <1>12, <1>13, <1>14, <1>15, TaskStaysOK DEF IngestInv
<1>17. TasksOK'
  BY <1>3, <1>7, <1>11, <1>12, <1>14, <1>15, <1>16, OneTaskMoves
<1>18. QED
  BY <1>7, <1>9, <1>10, <1>12, <1>17 DEF IngestInv

(***************************************************************************)
(* The step that applies a notebook to the ledger.                         *)
(***************************************************************************)

LEMMA ChangedAreIndexes ==
  ASSUME NEW note \in Notes
  PROVE  ChangedIndexes(note) \subseteq IndexesOf(note)
<1> DEFINE new == NewPages(PageRevisions(note))
<1>1. \A p \in DOMAIN new : new[p].page_index \in IndexesOf(note)
  BY PagesOfNote
<1>2. \A old : (DOMAIN new \ DOMAIN old) \cup Updated(old, new) \subseteq DOMAIN new
  BY DEF Updated
<1>3. QED
  BY <1>1, <1>2 DEF ChangedIndexes

\* A row after a notebook was applied: of a page of the notebook, ready only if
\* it was with the same content, or what it was, but perhaps removed.
AppliedRow(p, new) ==
  \/ /\ p \in DOMAIN new
     /\ RowOf(p)'.page_index = new[p].page_index
     /\ RowOf(p)'.ocr_status = "ready" =>
          /\ p \in Rows /\ RowOf(p).ocr_status = "ready"
          /\ RowOf(p)'.content_hash = RowOf(p).content_hash
  \/ /\ p \in Rows
     /\ RowOf(p)'.page_index = RowOf(p).page_index
     /\ RowOf(p)'.ocr_status = RowOf(p).ocr_status
     /\ RowOf(p)'.content_hash = RowOf(p).content_hash

LEMMA AppliedRows ==
  ASSUME IngestInv, NEW note \in Notes, NEW rev \in Revisions, NEW snapshot \in Snapshots,
         snapshot = PageRevisions(note),
         \/ ApplySnapshot(Notebook, rev, snapshot)
         \/ IsNoOp(Notebook, snapshot) /\ UNCHANGED ledgerVars
  PROVE  /\ RevisionInv'
         /\ IsNoOp(Notebook, snapshot)'
         /\ \A p \in Rows' : AppliedRow(p, NewPages(snapshot))
<1>1. LedgerTypeOK /\ RevisionInv /\ Notebook \in Notebooks
  BY OneNotebook DEF IngestInv, RevisionInv
<1>2. CASE ApplySnapshot(Notebook, rev, snapshot)
  <2> DEFINE new == NewPages(snapshot)
             old == pageSnapshot[Notebook]
             gone == DOMAIN CurrentPages(Notebook) \ DOMAIN new
             rows == UpsertedPages(old, new, gone)
             row == [revision |-> rev, notebook_hash |-> snapshot]
  <2>1. RevisionInv'
    BY <1>1, <1>2, ApplyKeepsType, ApplyKeepsMatch DEF RevisionInv
  <2>2. /\ pageSnapshot' = [pageSnapshot EXCEPT ![Notebook] = rows]
        /\ notebookSnapshot' = [notebookSnapshot EXCEPT ![Notebook] = row]
    BY <1>2 DEF ApplySnapshot, CommitSnapshot
  <2>3. row \in [revision: Revisions, notebook_hash: Snapshots] /\ row # None
        /\ row.notebook_hash = snapshot
    BY NoneIsNoRow
  <2>4. DOMAIN rows = DOMAIN old \cup DOMAIN new
    BY DEF UpsertedPages
  <2>5. ASSUME NEW p \in DOMAIN new
        PROVE  /\ rows[p].page_index = new[p].page_index
               /\ rows[p].ocr_status = "ready" =>
                    /\ p \in DOMAIN old /\ old[p].ocr_status = "ready"
                    /\ rows[p].content_hash = old[p].content_hash
    BY DEF UpsertedPages
  <2>6. ASSUME NEW p \in DOMAIN old \ DOMAIN new
        PROVE  /\ rows[p].page_index = old[p].page_index
               /\ rows[p].ocr_status = old[p].ocr_status
               /\ rows[p].content_hash = old[p].content_hash
    <3>1. rows[p] = [old[p] EXCEPT !.removed = old[p].removed \/ p \in gone]
      BY DEF UpsertedPages
    <3>2. old[p] \in PageRow
      BY <1>1 DEF LedgerTypeOK
    <3>3. QED
      BY <3>1, <3>2 DEF PageRow
  <2> HIDE DEF rows, row, new
  <2>7. pageSnapshot'[Notebook] = rows /\ notebookSnapshot'[Notebook] = row
    BY <1>1, <2>2 DEF LedgerTypeOK
  <2>8. IsNoOp(Notebook, snapshot)'
    BY <2>3, <2>7 DEF IsNoOp
  <2>9. \A p \in Rows' : AppliedRow(p, new)
    BY <2>4, <2>5, <2>6, <2>7 DEF AppliedRow, Rows, RowOf
  <2>10. QED
    BY <2>1, <2>8, <2>9 DEF new
<1>3. CASE IsNoOp(Notebook, snapshot) /\ UNCHANGED ledgerVars
  BY <1>1, <1>3, LedgerStays DEF ledgerVars, IsNoOp, AppliedRow, Rows, RowOf
<1>4. QED
  BY <1>2, <1>3

LEMMA ApplyNoteKeepsInv ==
  ASSUME IngestInv, NEW i \in Ingesters, i \in deployment.ingesters,
         NEW note \in deployment.notes, NEW time \in 0..cloudTime, i \in Pollers => time >= 1,
         NEW cap, ApplyNote(i, note, time, cap), UNCHANGED deployment
  PROVE  IngestInv'
<1> DEFINE reading == [pc |-> "ocr", time |-> time, note |-> note,
                       todo |-> ChangedIndexes(note), swept |-> FALSE]
<1>1. note \in Notes /\ time \in Nat
  BY CloudParts DEF IngestInv
<1>2. PICK snapshot \in Snapshots : snapshot = PageRevisions(note)
  BY <1>1, NoteParts
<1>3. PICK rev \in Revisions : rev = [time |-> time, note |-> note]
  <2>1. time \in 0..deployment.maxTime
    BY CloudParts DEF IngestInv
  <2>2. QED
    BY <2>1, DeploymentsAreOfNotes DEF IngestInv, CloudOK
<1>4. /\ \/ ApplySnapshot(Notebook, rev, snapshot)
         \/ IsNoOp(Notebook, snapshot) /\ UNCHANGED ledgerVars
      /\ placed' = placed \cup Places(note)
      /\ UNCHANGED <<cloudVars, textVars, lastSeen>>
  BY <1>2, <1>3 DEF ApplyNote
<1>5. PICK t : t \in {Idle, reading} /\ task' = [task EXCEPT ![i] = t]
  BY DEF ApplyNote
<1>6. /\ RevisionInv'
      /\ IsNoOp(Notebook, snapshot)'
      /\ \A p \in Rows' : AppliedRow(p, NewPages(snapshot))
  BY <1>1, <1>2, <1>4, AppliedRows
<1>7. UNCHANGED <<cloudNote, cloudTime, pageState, transcribed>>
  BY <1>4 DEF cloudVars, textVars
<1>8. placed' \subseteq [page_id: PageIds, index: PageIndexes]
  BY <1>1, <1>4, PlacesOfNote DEF IngestInv
<1>9. RowsOK'
  <2>1. SUFFICES ASSUME NEW p \in Rows'
                 PROVE  RowOK(p)'
    BY DEF RowsOK
  <2>2. AppliedRow(p, NewPages(snapshot))
    BY <1>6
  <2>3. p \in Rows => RowOK(p)
    BY DEF IngestInv, RowsOK
  <2>4. OneIngester' = OneIngester /\ placed \subseteq placed'
    BY <1>4 DEF OneIngester
  <2>5. CASE /\ p \in DOMAIN NewPages(snapshot)
             /\ RowOf(p)'.page_index = NewPages(snapshot)[p].page_index
             /\ RowOf(p)'.ocr_status = "ready" =>
                  /\ p \in Rows /\ RowOf(p).ocr_status = "ready"
                  /\ RowOf(p)'.content_hash = RowOf(p).content_hash
    <3>1. Place(p, RowOf(p)'.page_index) \in placed'
      BY <1>1, <1>2, <1>4, <2>5, PagesOfNote
    <3>2. ASSUME p \in Rows, AlwaysAtItsIndex(p)'
          PROVE  RowOf(p)'.page_index = RowOf(p).page_index /\ AlwaysAtItsIndex(p)
      <4>1. Place(p, RowOf(p).page_index) \in placed'
        BY <2>3, <2>4, <3>2 DEF RowOK
      <4>2. RowOf(p)'.page_index = RowOf(p).page_index
        BY <3>2, <4>1 DEF AlwaysAtItsIndex, Place, RowOf
      <4>3. QED
        BY <2>4, <3>2, <4>2 DEF AlwaysAtItsIndex, RowOf
    <3>3. QED
      BY <1>7, <2>3, <2>4, <2>5, <3>1, <3>2 DEF RowOK, HasText
  <2>6. CASE /\ p \in Rows
             /\ RowOf(p)'.page_index = RowOf(p).page_index
             /\ RowOf(p)'.ocr_status = RowOf(p).ocr_status
             /\ RowOf(p)'.content_hash = RowOf(p).content_hash
    <3>1. AlwaysAtItsIndex(p)' => AlwaysAtItsIndex(p)
      BY <2>4, <2>6 DEF AlwaysAtItsIndex, RowOf
    <3>2. QED
      BY <1>7, <2>3, <2>4, <2>6, <3>1 DEF RowOK, HasText
  <2>7. QED
    BY <2>2, <2>5, <2>6 DEF AppliedRow
<1>10. TextOK' /\ TextKept
  BY <1>4, <1>7 DEF IngestInv, TextOK, RowTextIsOfItsRevision, TextKept, HasText
<1>11. CloudOK' /\ MarkersOK'
  BY <1>4, <1>7, MarkersStay DEF IngestInv, CloudOK
<1>12. TaskOK(i, t)'
  <2>1. CASE t = Idle
    BY <2>1 DEF TaskOK, TaskTyped, ReadsTheLedger, Idle
  <2>2. CASE t = reading
    <3>1. ChangedIndexes(note) \subseteq IndexesOf(note) /\ IndexesOf(note) \subseteq PageIndexes
      BY <1>1, ChangedAreIndexes, IndexesOfNote
    <3>2. PICK todo \in SUBSET PageIndexes : todo = ChangedIndexes(note)
      BY <3>1
    <3>3. t = [pc |-> "ocr", time |-> time, note |-> note, todo |-> todo, swept |-> FALSE]
      BY <2>2, <3>2
    <3>4. /\ t.pc = "ocr" /\ t.time = time /\ t.note = note /\ t.todo = todo
          /\ t.swept = FALSE
      BY <3>3
    <3>5. t \in Reading
      BY <1>1, <3>3 DEF Reading
    <3>6. TaskTyped(t)'
      BY <1>7, <3>1, <3>2, <3>4, <3>5 DEF TaskTyped, Reading
    <3>7. ReadsTheLedger(t)'
      BY <1>2, <1>6, <3>4 DEF ReadsTheLedger
    <3>8. QED
      BY <1>4, <3>4, <3>6, <3>7 DEF TaskOK
  <2>3. QED
    BY <1>5, <2>1, <2>2
<1>13. cloudTime <= cloudTime'
  BY <1>7, CloudParts DEF IngestInv
<1>14. TasksOK'
  BY <1>4, <1>5, <1>7, <1>11, <1>12, <1>13, OneTaskMoves
<1>15. QED
  BY <1>6, <1>8, <1>9, <1>10, <1>11, <1>14 DEF IngestInv

LEMMA ApplyKeepsInv ==
  ASSUME IngestInv, NEW i \in Ingesters, Apply(i), UNCHANGED deployment
  PROVE  IngestInv'
<1>1. TaskOK(i, task[i]) /\ task[i].pc = "apply"
  BY DEF IngestInv, TasksOK, Apply
<1>2. /\ task[i].time \in 0..cloudTime /\ task[i].note \in deployment.notes
      /\ i \in deployment.ingesters /\ (i \in Pollers => task[i].time >= 1)
  BY <1>1 DEF TaskOK, TaskTyped, Idle, Reading
<1>3. PICK note \in deployment.notes, time \in 0..cloudTime :
        note = task[i].note /\ time = task[i].time
  BY <1>2
<1>4. ApplyNote(i, note, time, task[i].cap)
  BY <1>3 DEF Apply
<1>5. QED
  BY <1>2, <1>3, <1>4, ApplyNoteKeepsInv

LEMMA LocalFileChangedKeepsInv ==
  ASSUME IngestInv, NEW i \in Watchers, i \in deployment.ingesters, LocalFileChanged(i),
         UNCHANGED deployment
  PROVE  IngestInv'
<1>1. i \in Ingesters /\ i \notin Pollers
  BY WatchersDoNotPoll DEF Ingesters
<1>2. 0 \in 0..cloudTime /\ cloudNote \in deployment.notes
  BY CloudParts DEF IngestInv, CloudOK
<1>3. ApplyNote(i, cloudNote, 0, None)
  BY DEF LocalFileChanged
<1>4. QED
  BY <1>1, <1>2, <1>3, ApplyNoteKeepsInv

(***************************************************************************)
(* The theorems.                                                           *)
(***************************************************************************)

LEMMA IngestInitHolds == IngestInit => IngestInv
<1> SUFFICES ASSUME IngestInit PROVE IngestInv
  OBVIOUS
<1>1. RevisionInv
  BY DEF IngestInit, LedgerInit, RevisionInv, LedgerTypeOK, PagesMatchRevision
<1>2. Rows = {}
  BY OneNotebook DEF IngestInit, LedgerInit, Rows
<1>3. CloudOK
  <2>1. deployment.maxTime \in Nat /\ deployment.maxTime >= 1
    BY DeploymentsAreOfNotes DEF IngestInit
  <2>2. QED
    BY <2>1 DEF IngestInit, CloudOK
<1>4. TextOK
  BY DEF IngestInit, TextOK, RowTextIsOfItsRevision
<1>5. MarkersOK
  BY DEF IngestInit, MarkersOK
<1>6. TasksOK
  BY IdleIsOK DEF IngestInit, TasksOK
<1>7. QED
  BY <1>1, <1>2, <1>3, <1>4, <1>5, <1>6 DEF IngestInit, IngestInv, RowsOK

LEMMA IngestStutterKeepsInv ==
  ASSUME IngestInv, UNCHANGED vars
  PROVE  IngestInv'
<1>1. /\ UNCHANGED ledgerVars
      /\ UNCHANGED <<tableVars, cloudNote, cloudTime, pageState, task, lastSeen, transcribed,
                     placed, deployment>>
      /\ notebookSnapshot' = notebookSnapshot
  BY DEF vars, stepVars, tableVars, cloudVars, ingestVars, textVars, ledgerVars
<1>2. TextOK' /\ TextKept
  BY <1>1, TextStays DEF IngestInv
<1>3. RevisionInv' /\ RowsOK' /\ CloudOK' /\ MarkersOK'
  BY <1>1, <1>2, LedgerStays, RowsStay, MarkersStay DEF IngestInv, CloudOK
<1>4. cloudTime <= cloudTime'
  BY <1>1, CloudParts DEF IngestInv
<1>5. ASSUME NEW i \in Ingesters
      PROVE  TaskOK(i, task[i])'
  <2>1. PICK t : t = task[i]
    OBVIOUS
  <2>2. TaskOK(i, t)
    BY <2>1 DEF IngestInv, TasksOK
  <2>3. TaskOK(i, t)'
    BY <1>1, <1>2, <1>3, <1>4, <2>2, TaskStaysOK DEF IngestInv
  <2>4. QED
    BY <1>1, <2>1, <2>3
<1>6. TasksOK'
  BY <1>1, <1>5 DEF IngestInv, TasksOK
<1>7. QED
  BY <1>1, <1>2, <1>3, <1>6 DEF IngestInv

LEMMA IngestStepKeepsInv ==
  ASSUME IngestInv, IngestNext
  PROVE  IngestInv'
<1>1. UNCHANGED deployment
  BY DEF IngestNext
<1>2. CASE \E i \in Running(Pollers) : SeeFirst(i) \/ SeeChange(i) \/ Restart(i)
  <2>1. PICK i \in Running(Pollers) : SeeFirst(i) \/ SeeChange(i) \/ Restart(i)
    BY <1>2
  <2>2. i \in Pollers /\ i \in deployment.ingesters
    BY DEF Running
  <2>3. QED
    BY <1>1, <2>1, <2>2, SeeFirstKeepsInv, SeeChangeKeepsInv, RestartKeepsInv
<1>3. CASE \E i \in Running(OnceRuns) : StartOnce(i)
  <2>1. PICK i \in Running(OnceRuns) : StartOnce(i)
    BY <1>3
  <2>2. i \in Ingesters /\ i \in deployment.ingesters
    BY DEF Running, Ingesters
  <2>3. QED
    BY <1>1, <2>1, <2>2, StartOnceKeepsInv
<1>4. CASE \E i \in Running(Watchers) : LocalFileChanged(i)
  <2>1. PICK i \in Running(Watchers) : LocalFileChanged(i)
    BY <1>4
  <2>2. i \in Watchers /\ i \in deployment.ingesters
    BY DEF Running
  <2>3. QED
    BY <1>1, <2>1, <2>2, LocalFileChangedKeepsInv
<1>5. CASE \E i \in Running(Ingesters) :
             Process(i) \/ ReadPageFails(i) \/ ReadPageEmpty(i) \/ Fail(i)
  <2>1. PICK i \in Running(Ingesters) :
          Process(i) \/ ReadPageFails(i) \/ ReadPageEmpty(i) \/ Fail(i)
    BY <1>5
  <2>2. i \in Ingesters /\ i \in deployment.ingesters
    BY DEF Running
  <2>3. CASE Process(i)
    BY <1>1, <2>2, <2>3, DownloadKeepsInv, ApplyKeepsInv, StartSweepKeepsInv,
       ReadPageKeepsInv, MarkReadyKeepsInv, SkipPageKeepsInv, FinishKeepsInv DEF Process
  <2>4. QED
    BY <1>1, <2>1, <2>2, <2>3, ReadPageFailsKeepsInv, ReadPageEmptyKeepsInv, FailKeepsInv
<1>6. CASE \E note \in deployment.notes : Edit(note)
  BY <1>1, <1>6, EditKeepsInv
<1>7. CASE \E n \in DOMAIN pageState : BackoffElapses(n)
  BY <1>1, <1>7, BackoffElapsesKeepsInv
<1>8. QED
  BY <1>2, <1>3, <1>4, <1>5, <1>6, <1>7 DEF IngestNext

LEMMA IngestInvHolds == IngestSpec => []IngestInv
<1>1. IngestInv /\ [IngestNext]_vars => IngestInv'
  BY IngestStepKeepsInv, IngestStutterKeepsInv
<1>2. QED
  BY <1>1, IngestInitHolds, PTL DEF IngestSpec

\* Tasks, markers and rows always have the fields and values the code gives
\* them: a marker is never ahead of the Cloud, and no task looks for a page
\* where its notebook, or any notebook, has none.
THEOREM IngestTypeCorrect == IngestSpec => []IngestTypeOK
<1>1. IngestInv => IngestTypeOK
  <2> SUFFICES ASSUME IngestInv PROVE IngestTypeOK
    OBVIOUS
  <2>1. ASSUME NEW i \in Ingesters
        PROVE  \/ task[i] = Idle
               \/ task[i].pc = "download"
               \/ task[i].pc = "apply" /\ task[i].note \in deployment.notes
               \/ /\ task[i].pc \in {"ocr", "mark"}
                  /\ task[i].note \in deployment.notes
                  /\ task[i].todo \subseteq IF task[i].swept THEN PageIndexes
                                           ELSE IndexesOf(task[i].note)
                  /\ task[i].pc = "mark" => task[i].todo # {}
    <3>1. TaskTyped(task[i])
      BY DEF IngestInv, TasksOK, TaskOK
    <3>2. CASE task[i].pc \in {"ocr", "mark"}
      BY <3>2, ReadingTask
    <3>3. CASE task[i].pc \notin {"ocr", "mark"}
      BY <3>1, <3>3 DEF TaskTyped, Reading
    <3>4. QED
      BY <3>2, <3>3
  <2>2. QED
    BY <2>1 DEF IngestInv, IngestTypeOK, RevisionInv, CloudOK, TextOK, MarkersOK
<1>2. QED
  BY <1>1, IngestInvHolds, PTL

\* Whatever fails, is retried or interrupted, and whichever ingesters write in
\* turn, a row of page_state never presents the text of one revision as another's.
THEOREM TextIsOfItsRevision == IngestSpec => []RowTextIsOfItsRevision
<1>1. IngestInv => RowTextIsOfItsRevision
  BY DEF IngestInv, TextOK
<1>2. QED
  BY <1>1, IngestInvHolds, PTL

\* With one ingester, a page that the ledger calls ready was transcribed as it is
\* now, through any edits, removals and returns, failures and restarts.
THEOREM ReadyPagesWereTranscribed == IngestSpec => []ReadyWasTranscribed
<1>1. IngestInv => ReadyWasTranscribed
  BY DEF IngestInv, RowsOK, RowOK, ReadyWasTranscribed, ReadyPages, CurrentIds, Rows, RowOf
<1>2. QED
  BY <1>1, IngestInvHolds, PTL

\* With one ingester, the text that the read contract finds for a ready page is
\* of its current content, if no other page was ever at its index and the page
\* at no other.
THEOREM ReadyPagesHaveTheirText == IngestSpec => []ReadyTextIsOfThePage
<1>1. IngestInv => ReadyTextIsOfThePage
  <2> SUFFICES ASSUME IngestInv, OneIngester, NEW p \in ReadyPages, AlwaysAtItsIndex(p)
               PROVE  /\ MatchPageState(p) # None
                      /\ MatchPageState(p).text = pageSnapshot[Notebook][p].content_hash
    BY DEF ReadyTextIsOfThePage
  <2>1. PICK n : n = RowOf(p).page_index
    OBVIOUS
  <2>2. PICK hash : hash = RowOf(p).content_hash
    OBVIOUS
  <2>3. p \in Rows /\ RowOf(p).ocr_status = "ready"
    BY DEF ReadyPages, CurrentIds, Rows, RowOf
  <2>4. HasText(n, p, hash)
    BY <2>1, <2>2, <2>3 DEF IngestInv, RowsOK, RowOK
  <2> DEFINE exact == {j \in DOMAIN pageState :
                         pageState[j].page_id = p /\ pageState[j].content_hash = hash}
  <2>5. exact = {n}
    <3>1. n \in exact
      BY <2>4 DEF HasText
    <3>2. ASSUME NEW j \in DOMAIN pageState, pageState[j].page_id = p
          PROVE  j = n
      <4>1. Place(p, j) \in placed
        BY <3>2 DEF IngestInv, TextOK
      <4>2. QED
        BY <2>1, <4>1 DEF AlwaysAtItsIndex, Place, RowOf
    <3>3. QED
      BY <3>1, <3>2
  <2>6. n \in Nat /\ pageState[n] # None
    BY <2>4, NoneIsNoPageState DEF IngestInv, TextOK, HasText
  <2>7. MatchPageState(p) = pageState[n]
    <3>1. MatchPageState(p) =
            IF exact # {} THEN pageState[CHOOSE j \in exact : \A k \in exact : j <= k]
            ELSE RowAt(n)
      BY <2>1, <2>2 DEF MatchPageState, RowOf
    <3>2. (CHOOSE j \in exact : \A k \in exact : j <= k) = n
      <4>1. n <= n
        BY <2>6
      <4>2. QED
        BY <2>5, <4>1
    <3>3. QED
      BY <2>5, <3>1, <3>2
  <2>8. QED
    BY <2>2, <2>4, <2>6, <2>7 DEF HasText, RowOf
<1>2. QED
  BY <1>1, IngestInvHolds, PTL

=============================================================================
