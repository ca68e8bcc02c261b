----------------------- MODULE CloudChangeLedgerProofs -----------------------
(***************************************************************************)
(* Proofs about CloudChangeLedger, for every set of notebooks, pages,      *)
(* hashes, revisions, snapshots and agents and every length of the log.    *)
(***************************************************************************)
EXTENDS CloudChangeLedger, FiniteSetTheorems, TLAPS

(***************************************************************************)
(* Facts about the operators.                                              *)
(***************************************************************************)

\* A map from page IDs to records that carry an index and a hash.
IsPageMap(pages) ==
  /\ DOMAIN pages \subseteq PageIds
  /\ \A p \in DOMAIN pages : /\ pages[p].page_index \in Nat
                             /\ pages[p].content_hash \in Hashes

\* A parsed snapshot yields a map from known page IDs to page revisions.
LEMMA NewPagesType ==
  ASSUME NEW snapshot \in Snapshots
  PROVE  /\ DOMAIN NewPages(snapshot) \subseteq PageIds
         /\ \A p \in DOMAIN NewPages(snapshot) :
              NewPages(snapshot)[p] \in PageRevision
<1>1. snapshot \in Seq(PageRevision)
  BY SnapshotsAreLists
<1>2. Range(snapshot) \subseteq PageRevision
  BY <1>1 DEF Range
<1>3. DOMAIN NewPages(snapshot) = {r.page_id : r \in Range(snapshot)}
  BY DEF NewPages
<1>4. ASSUME NEW p \in {r.page_id : r \in Range(snapshot)}
      PROVE  NewPages(snapshot)[p] \in PageRevision
  <2>1. PICK r \in Range(snapshot) : r.page_id = p
    BY <1>4
  <2>2. (CHOOSE s \in Range(snapshot) : s.page_id = p) \in Range(snapshot)
    BY <2>1
  <2>3. QED
    BY <1>2, <2>2 DEF NewPages
<1>5. QED
  BY <1>2, <1>3, <1>4 DEF PageRevision

COROLLARY NewPagesIsMap ==
  ASSUME NEW snapshot \in Snapshots
  PROVE  IsPageMap(NewPages(snapshot))
BY NewPagesType DEF IsPageMap, PageRevision

\* The current rows of a well-typed page_snapshot table form a page map.
LEMMA CurrentPagesIsMap ==
  ASSUME LedgerTypeOK, NEW nb \in Notebooks
  PROVE  /\ IsPageMap(CurrentPages(nb))
         /\ DOMAIN CurrentPages(nb) = CurrentIds(nb)
BY DEF LedgerTypeOK, IsPageMap, CurrentPages, CurrentIds, PageRow

\* Each change of a diff records the hash the page had and the hash it has,
\* None standing for a page that is not there.
LEMMA DiffRecords ==
  ASSUME NEW old, NEW new, IsPageMap(old), IsPageMap(new),
         NEW nb \in Notebooks, NEW rev \in Revisions,
         NEW c \in Diff(nb, rev, old, new)
  PROVE  /\ c \in Change
         /\ c.notebook = nb
         /\ c.page_id \in DOMAIN old \cup DOMAIN new
         /\ c.old_hash = HashIn(old, c.page_id)
         /\ c.new_hash = HashIn(new, c.page_id)
         /\ c = ChangeRecord(nb, rev, c.change_type, c.page_id, old, new)
<1>1. CASE \E p \in DOMAIN new \ DOMAIN old :
             c = ChangeRecord(nb, rev, "added", p, old, new)
  BY <1>1 DEF ChangeRecord, Change, ChangeTypes, HashIn, IsPageMap
<1>2. CASE \E p \in DOMAIN old \ DOMAIN new :
             c = ChangeRecord(nb, rev, "removed", p, old, new)
  BY <1>2 DEF ChangeRecord, Change, ChangeTypes, HashIn, IsPageMap
<1>3. CASE \E p \in Updated(old, new) :
             c = ChangeRecord(nb, rev, "updated", p, old, new)
  BY <1>3 DEF ChangeRecord, Change, ChangeTypes, HashIn, IsPageMap, Updated
<1>4. CASE \E p \in Reordered(old, new) :
             c = ChangeRecord(nb, rev, "reorder", p, old, new)
  BY <1>4 DEF ChangeRecord, Change, ChangeTypes, HashIn, IsPageMap,
              Reordered, SameHashCommon
<1>5. QED
  BY <1>1, <1>2, <1>3, <1>4 DEF Diff

\* A diff has one change of a page at most, and one of every page whose hash
\* differs, counting appearing and disappearing.
LEMMA DiffOnePerPage ==
  ASSUME NEW old, NEW new, IsPageMap(old), IsPageMap(new),
         NEW nb \in Notebooks, NEW rev \in Revisions
  PROVE  /\ \A c, d \in Diff(nb, rev, old, new) :
              c.page_id = d.page_id => c = d
         /\ \A p \in PageIds :
              HashIn(old, p) # HashIn(new, p) =>
                \E c \in Diff(nb, rev, old, new) : c.page_id = p
<1> DEFINE D == Diff(nb, rev, old, new)
           Record(type, p) == ChangeRecord(nb, rev, type, p, old, new)
<1>1. \A c \in D :
        \/ c.page_id \in DOMAIN new \ DOMAIN old /\ c.change_type = "added"
        \/ c.page_id \in DOMAIN old \ DOMAIN new /\ c.change_type = "removed"
        \/ c.page_id \in Updated(old, new) /\ c.change_type = "updated"
        \/ c.page_id \in Reordered(old, new) /\ c.change_type = "reorder"
  BY DEF Diff, ChangeRecord
<1>2. Updated(old, new) \cap Reordered(old, new) = {}
  BY DEF Updated, Reordered
<1>3. /\ Updated(old, new) \subseteq DOMAIN old \cap DOMAIN new
      /\ Reordered(old, new) \subseteq DOMAIN old \cap DOMAIN new
  BY DEF Updated, Reordered, SameHashCommon
<1>4. ASSUME NEW c \in D, NEW d \in D, c.page_id = d.page_id
      PROVE  c = d
  <2>1. c.change_type = d.change_type
    BY <1>1, <1>2, <1>3, <1>4
  <2>2. /\ c = Record(c.change_type, c.page_id)
        /\ d = Record(d.change_type, d.page_id)
    BY DiffRecords
  <2>3. QED
    BY <1>4, <2>1, <2>2
<1>5. ASSUME NEW p \in PageIds, HashIn(old, p) # HashIn(new, p)
      PROVE  \E c \in D : c.page_id = p
  <2>1. \/ p \in DOMAIN new \ DOMAIN old
        \/ p \in DOMAIN old \ DOMAIN new
        \/ p \in Updated(old, new)
    BY <1>5 DEF HashIn, Updated, SameHashCommon
  <2>2. \/ Record("added", p) \in D
        \/ Record("removed", p) \in D
        \/ Record("updated", p) \in D
    BY <2>1 DEF Diff
  <2>3. \A type : Record(type, p).page_id = p
    BY DEF ChangeRecord
  <2>4. QED
    BY <2>2, <2>3
<1>6. QED
  BY <1>4, <1>5

\* A diff of two page maps is finite: it has one change per page at most.
LEMMA DiffIsFinite ==
  ASSUME NEW old, NEW new, IsPageMap(old), IsPageMap(new),
         NEW nb \in Notebooks, NEW rev \in Revisions
  PROVE  /\ IsFiniteSet(Diff(nb, rev, old, new))
         /\ Cardinality(Diff(nb, rev, old, new)) \in Nat
<1> DEFINE D == Diff(nb, rev, old, new)
           page == [c \in D |-> c.page_id]
<1>1. page \in Injection(D, PageIds)
  <2>1. page \in [D -> PageIds]
    BY DiffRecords DEF IsPageMap
  <2>2. \A c, d \in D : page[c] = page[d] => c = d
    BY DiffOnePerPage
  <2>3. QED
    BY <2>1, <2>2 DEF Injection, IsInjective
<1>2. IsFiniteSet(D)
  BY <1>1, FS_Injection, PageIdsAreOrdered
<1>3. QED
  BY <1>2, FS_CardinalityType

\* A batch is a sequence of the diff's changes, each of them once.
LEMMA BatchIsSeq ==
  ASSUME NEW old, NEW new, IsPageMap(old), IsPageMap(new),
         NEW nb \in Notebooks, NEW rev \in Revisions,
         NEW batch \in Batches(Diff(nb, rev, old, new))
  PROVE  /\ batch \in Seq(Change)
         /\ \A i \in DOMAIN batch : batch[i] \in Diff(nb, rev, old, new)
         /\ \A c \in Diff(nb, rev, old, new) :
              \E i \in DOMAIN batch : batch[i] = c
         /\ \A i, j \in DOMAIN batch :
              batch[i].page_id = batch[j].page_id => i = j
<1> DEFINE D == Diff(nb, rev, old, new)
<1>1. Cardinality(D) \in Nat
  BY DiffIsFinite
<1>2. /\ batch \in [1..Cardinality(D) -> D]
      /\ Range(batch) = D
      /\ \A i, j \in DOMAIN batch : i < j => Precedes(batch[i], batch[j])
  BY DEF Batches
<1>3. D \subseteq Change
  BY DiffRecords
<1>4. batch \in Seq(Change)
  BY <1>1, <1>2, <1>3
<1>5. \A c \in D : \E i \in DOMAIN batch : batch[i] = c
  BY <1>2 DEF Range
<1>6. ASSUME NEW i \in DOMAIN batch, NEW j \in DOMAIN batch,
             batch[i].page_id = batch[j].page_id, i # j
      PROVE  FALSE
  <2>1. batch[i] = batch[j]
    BY <1>2, <1>6, DiffOnePerPage
  <2>2. Precedes(batch[i], batch[i])
    <3>1. i < j \/ j < i
      BY <1>1, <1>2, <1>6
    <3>2. QED
      BY <1>2, <2>1, <3>1
  <2>3. batch[i] \in Change
    BY <1>2, <1>3
  <2>4. batch[i].page_id \in Nat
    BY <2>3, PageIdsAreOrdered DEF Change
  <2>5. QED
    BY <2>2, <2>4 DEF Precedes, Group
<1>7. QED
  BY <1>2, <1>4, <1>5, <1>6

(***************************************************************************)
(* What the write transaction of apply_snapshot leaves in the tables.      *)
(***************************************************************************)

\* Well-typed rows, current for each page of a snapshot, with the snapshot's
\* hashes and indexes.
AreRowsWith(rows, new) ==
  /\ DOMAIN rows \subseteq PageIds
  /\ rows \in [DOMAIN rows -> PageRow]
  /\ DOMAIN new \subseteq {p \in DOMAIN rows : ~rows[p].removed}
  /\ \A p \in DOMAIN new : /\ rows[p].content_hash = new[p].content_hash
                          /\ rows[p].page_index = new[p].page_index

\* The rows after an upsert, whatever pages were found missing.
LEMMA UpsertedTypes ==
  ASSUME LedgerTypeOK, NEW nb \in Notebooks, NEW new, IsPageMap(new), NEW removedIds
  PROVE  AreRowsWith(UpsertedPages(pageSnapshot[nb], new, removedIds), new)
<1> DEFINE old == pageSnapshot[nb]
           rows == UpsertedPages(old, new, removedIds)
<1>1. /\ DOMAIN old \subseteq PageIds
      /\ \A p \in DOMAIN old : old[p] \in PageRow
  BY DEF LedgerTypeOK
<1>2. DOMAIN rows = DOMAIN old \cup DOMAIN new
  BY DEF UpsertedPages
<1>3. ASSUME NEW p \in DOMAIN new
      PROVE  /\ rows[p] \in PageRow
             /\ ~rows[p].removed
             /\ rows[p].content_hash = new[p].content_hash
             /\ rows[p].page_index = new[p].page_index
  BY <1>1 DEF UpsertedPages, PageRow, IsPageMap, OcrStatuses
<1>4. ASSUME NEW p \in DOMAIN old \ DOMAIN new
      PROVE  rows[p] \in PageRow
  <2>1. rows[p] = [old[p] EXCEPT !.removed = old[p].removed \/ p \in removedIds]
    BY DEF UpsertedPages
  <2>2. PICK gone \in BOOLEAN : rows[p] = [old[p] EXCEPT !.removed = gone]
    BY <2>1
  <2>3. old[p] \in PageRow
    BY <1>1
  <2>4. QED
    BY <2>2, <2>3 DEF PageRow
<1>5. \A p \in DOMAIN rows : rows[p] \in PageRow
  BY <1>2, <1>3, <1>4
<1>6. rows = [p \in DOMAIN rows |-> rows[p]]
  BY DEF UpsertedPages
<1>7. QED
  BY <1>1, <1>2, <1>3, <1>5, <1>6 DEF IsPageMap, AreRowsWith

\* If all current rows were looked at, no other row is left current.
LEMMA UpsertedRows ==
  ASSUME LedgerTypeOK, NEW nb \in Notebooks, NEW new, IsPageMap(new)
  PROVE  LET rows == UpsertedPages(pageSnapshot[nb], new,
                                   DOMAIN CurrentPages(nb) \ DOMAIN new)
         IN  /\ DOMAIN rows \subseteq PageIds
             /\ rows \in [DOMAIN rows -> PageRow]
             /\ DOMAIN new = {p \in DOMAIN rows : ~rows[p].removed}
             /\ \A p \in DOMAIN new :
                  /\ rows[p].content_hash = new[p].content_hash
                  /\ rows[p].page_index = new[p].page_index
<1> DEFINE old == pageSnapshot[nb]
           removedIds == DOMAIN CurrentPages(nb) \ DOMAIN new
           rows == UpsertedPages(old, new, removedIds)
<1>1. /\ DOMAIN rows \subseteq PageIds
      /\ rows \in [DOMAIN rows -> PageRow]
      /\ DOMAIN new \subseteq {p \in DOMAIN rows : ~rows[p].removed}
      /\ \A p \in DOMAIN new : /\ rows[p].content_hash = new[p].content_hash
                              /\ rows[p].page_index = new[p].page_index
  <2>1. AreRowsWith(rows, new)
    BY UpsertedTypes
  <2>2. QED
    BY <2>1 DEF AreRowsWith
<1>2. ASSUME NEW p \in DOMAIN rows \ DOMAIN new
      PROVE  rows[p].removed
  <2>1. /\ p \in DOMAIN old
        /\ rows[p] = [old[p] EXCEPT !.removed = old[p].removed \/ p \in removedIds]
    BY DEF UpsertedPages
  <2>2. old[p].removed \/ p \in removedIds
    BY <2>1, CurrentPagesIsMap DEF CurrentIds
  <2>3. old[p] \in PageRow
    BY <2>1 DEF LedgerTypeOK
  <2>4. QED
    BY <2>1, <2>2, <2>3 DEF PageRow
<1> HIDE DEF rows
<1>3. DOMAIN new = {p \in DOMAIN rows : ~rows[p].removed}
  BY <1>1, <1>2
<1>4. QED
  BY <1>1, <1>3 DEF rows

(***************************************************************************)
(* Type correctness.                                                       *)
(***************************************************************************)

LEMMA ApplyFacts ==
  ASSUME LedgerTypeOK, NEW nb \in Notebooks, NEW rev \in Revisions,
         NEW snapshot \in Snapshots, ApplySnapshot(nb, rev, snapshot)
  PROVE  \E batch \in Batches(Diff(nb, rev, CurrentPages(nb), NewPages(snapshot))) :
           pageChange' = pageChange \o batch
BY DEF ApplySnapshot, CommitSnapshot

\* The write transaction, for whatever page map was read before it.
LEMMA CommitKeepsType ==
  ASSUME LedgerTypeOK, NEW nb \in Notebooks, NEW rev \in Revisions,
         NEW snapshot \in Snapshots, NEW old, IsPageMap(old),
         CommitSnapshot(nb, rev, snapshot, old)
  PROVE  LedgerTypeOK'
<1> DEFINE new == NewPages(snapshot)
<1>1. IsPageMap(new)
  BY NewPagesIsMap
<1>2. pageChange' \in Seq(Change)
  <2>1. PICK batch \in Batches(Diff(nb, rev, old, new)) :
          pageChange' = pageChange \o batch
    BY DEF CommitSnapshot
  <2>2. batch \in Seq(Change)
    BY <1>1, BatchIsSeq
  <2>3. pageChange \in Seq(Change)
    BY DEF LedgerTypeOK
  <2>4. QED
    BY <2>1, <2>2, <2>3
<1>3. /\ DOMAIN pageSnapshot' = Notebooks
      /\ \A m \in Notebooks :
           /\ DOMAIN pageSnapshot'[m] \subseteq PageIds
           /\ pageSnapshot'[m] \in [DOMAIN pageSnapshot'[m] -> PageRow]
  <2> DEFINE rows == UpsertedPages(pageSnapshot[nb], new, DOMAIN old \ DOMAIN new)
  <2>1. pageSnapshot' = [pageSnapshot EXCEPT ![nb] = rows]
    BY DEF CommitSnapshot
  <2>2. AreRowsWith(rows, new)
    BY <1>1, UpsertedTypes
  <2> HIDE DEF rows
  <2>3. QED
    BY <2>1, <2>2 DEF LedgerTypeOK, AreRowsWith
<1>4. notebookSnapshot' \in [Notebooks -> NotebookRow \cup {None}]
  BY DEF CommitSnapshot, LedgerTypeOK, NotebookRow
<1>5. agentCursor' \in [Agents -> [Notebooks -> Nat]]
  BY DEF CommitSnapshot, LedgerTypeOK
<1>6. QED
  BY <1>2, <1>3, <1>4, <1>5 DEF LedgerTypeOK

COROLLARY ApplyKeepsType ==
  ASSUME LedgerTypeOK, NEW nb \in Notebooks, NEW rev \in Revisions,
         NEW snapshot \in Snapshots, ApplySnapshot(nb, rev, snapshot)
  PROVE  LedgerTypeOK'
BY CommitKeepsType, CurrentPagesIsMap DEF ApplySnapshot

LEMMA MarkKeepsType ==
  ASSUME LedgerTypeOK, NEW nb \in Notebooks, NEW p \in PageIds,
         MarkPageOcrStatus(nb, p, "ready")
  PROVE  LedgerTypeOK'
<1> DEFINE rows == [pageSnapshot[nb] EXCEPT ![p].ocr_status = "ready"]
<1>1. pageSnapshot' = [pageSnapshot EXCEPT ![nb] = rows]
  BY DEF MarkPageOcrStatus
<1>2. /\ DOMAIN rows = DOMAIN pageSnapshot[nb]
      /\ rows \in [DOMAIN rows -> PageRow]
  <2>1. DOMAIN rows = DOMAIN pageSnapshot[nb]
    OBVIOUS
  <2>2. \A q \in DOMAIN pageSnapshot[nb] : pageSnapshot[nb][q] \in PageRow
    BY DEF LedgerTypeOK
  <2>3. ASSUME NEW q \in DOMAIN pageSnapshot[nb], q # p
        PROVE  rows[q] \in PageRow
    BY <2>2, <2>3
  <2>4. p \in DOMAIN pageSnapshot[nb] => rows[p] \in PageRow
    BY <2>2 DEF PageRow, OcrStatuses
  <2>5. QED
    BY <2>1, <2>3, <2>4
<1> HIDE DEF rows
<1>3. /\ DOMAIN pageSnapshot' = Notebooks
      /\ \A m \in Notebooks :
           /\ DOMAIN pageSnapshot'[m] \subseteq PageIds
           /\ pageSnapshot'[m] \in [DOMAIN pageSnapshot'[m] -> PageRow]
  BY <1>1, <1>2 DEF LedgerTypeOK
<1>4. UNCHANGED <<pageChange, notebookSnapshot, agentCursor>>
  BY DEF MarkPageOcrStatus
<1>5. QED
  BY <1>3, <1>4 DEF LedgerTypeOK

LEMMA AdvanceKeepsType ==
  ASSUME LedgerTypeOK, NEW a \in Agents, NEW nb \in Notebooks,
         NEW k \in DOMAIN pageChange, AdvanceAgentCursor(a, nb, k)
  PROVE  LedgerTypeOK'
<1>1. k \in Nat
  BY DEF LedgerTypeOK
<1>2. agentCursor' \in [Agents -> [Notebooks -> Nat]]
  BY <1>1 DEF AdvanceAgentCursor, LedgerTypeOK
<1>3. UNCHANGED <<pageChange, pageSnapshot, notebookSnapshot>>
  BY DEF AdvanceAgentCursor
<1>4. QED
  BY <1>2, <1>3 DEF LedgerTypeOK

\* Every reachable state of the four tables is well typed.
THEOREM LedgerTypeCorrect == LedgerSpec => []LedgerTypeOK
<1>1. LedgerInit => LedgerTypeOK
  BY DEF LedgerInit, LedgerTypeOK
<1>2. LedgerTypeOK /\ [LedgerNext]_ledgerVars => LedgerTypeOK'
  <2> SUFFICES ASSUME LedgerTypeOK, [LedgerNext]_ledgerVars
               PROVE  LedgerTypeOK'
    OBVIOUS
  <2>1. CASE UNCHANGED ledgerVars
    BY <2>1 DEF LedgerTypeOK, ledgerVars
  <2>2. CASE LedgerNext
    BY <2>2, ApplyKeepsType, MarkKeepsType, AdvanceKeepsType DEF LedgerNext
  <2>3. QED
    BY <2>1, <2>2
<1>3. QED
  BY <1>1, <1>2, PTL DEF LedgerSpec

(***************************************************************************)
(* The log reproduces the pages, and the changes of a page chain.          *)
(***************************************************************************)

LogInv == LedgerTypeOK /\ LogReproducesPages /\ ChangesChain

\* The page map of each notebook after an applied snapshot.
LEMMA ApplyPages ==
  ASSUME LedgerTypeOK, NEW nb \in Notebooks, NEW rev \in Revisions,
         NEW snapshot \in Snapshots, ApplySnapshot(nb, rev, snapshot)
  PROVE  /\ \A p : HashIn(CurrentPages(nb)', p) = HashIn(NewPages(snapshot), p)
         /\ \A m \in Notebooks \ {nb} : pageSnapshot'[m] = pageSnapshot[m]
<1> DEFINE new == NewPages(snapshot)
           rows == UpsertedPages(pageSnapshot[nb], new,
                                 DOMAIN CurrentPages(nb) \ DOMAIN new)
<1>1. pageSnapshot' = [pageSnapshot EXCEPT ![nb] = rows]
  BY DEF ApplySnapshot, CommitSnapshot
<1>2. /\ DOMAIN new = {p \in DOMAIN rows : ~rows[p].removed}
      /\ \A p \in DOMAIN new : rows[p].content_hash = new[p].content_hash
  <2>1. IsPageMap(new)
    BY NewPagesIsMap
  <2>2. QED
    BY <2>1, UpsertedRows
<1>3. DOMAIN pageSnapshot = Notebooks
  BY DEF LedgerTypeOK
<1> HIDE DEF rows, new
<1>4. pageSnapshot'[nb] = rows
  BY <1>1, <1>3
<1>5. /\ DOMAIN CurrentPages(nb)' = DOMAIN new
      /\ \A p \in DOMAIN new : CurrentPages(nb)'[p] = rows[p]
  BY <1>2, <1>4 DEF CurrentPages, CurrentIds
<1>6. ASSUME NEW p
      PROVE  HashIn(CurrentPages(nb)', p) = HashIn(new, p)
  BY <1>2, <1>5 DEF HashIn
<1>7. QED
  BY <1>1, <1>3, <1>6 DEF new

\* Where a record of the extended log comes from.
LEMMA ExtendedLog ==
  ASSUME NEW log \in Seq(Change), NEW batch \in Seq(Change)
  PROVE  /\ log \o batch \in Seq(Change)
         /\ DOMAIN log \subseteq DOMAIN (log \o batch)
         /\ \A k \in DOMAIN log : (log \o batch)[k] = log[k]
         /\ \A k \in DOMAIN (log \o batch) \ DOMAIN log :
              /\ k - Len(log) \in DOMAIN batch
              /\ (log \o batch)[k] = batch[k - Len(log)]
         /\ \A i \in DOMAIN batch :
              /\ i + Len(log) \in DOMAIN (log \o batch) \ DOMAIN log
              /\ (log \o batch)[i + Len(log)] = batch[i]
         /\ \A j \in DOMAIN log, k \in DOMAIN (log \o batch) \ DOMAIN log : j < k
         /\ DOMAIN (log \o batch) \subseteq Nat
OBVIOUS

LEMMA ApplyKeepsReplay ==
  ASSUME LogInv, NEW nb \in Notebooks, NEW rev \in Revisions,
         NEW snapshot \in Snapshots, ApplySnapshot(nb, rev, snapshot)
  PROVE  LogReproducesPages'
<1> USE DEF LogInv
<1> DEFINE old == CurrentPages(nb)
           new == NewPages(snapshot)
           D == Diff(nb, rev, old, new)
<1>1. IsPageMap(old) /\ IsPageMap(new)
  BY CurrentPagesIsMap, NewPagesIsMap
<1>2. PICK batch \in Batches(D) : pageChange' = pageChange \o batch
  BY ApplyFacts
<1>3. /\ batch \in Seq(Change)
      /\ \A i \in DOMAIN batch : batch[i] \in D
      /\ \A c \in D : \E i \in DOMAIN batch : batch[i] = c
      /\ \A i, j \in DOMAIN batch : batch[i].page_id = batch[j].page_id => i = j
  BY <1>1, BatchIsSeq
<1>4. pageChange \in Seq(Change)
  BY DEF LedgerTypeOK
<1> DEFINE n == Len(pageChange)
<1>5. /\ DOMAIN pageChange \subseteq DOMAIN pageChange'
      /\ \A k \in DOMAIN pageChange : pageChange'[k] = pageChange[k]
      /\ \A k \in DOMAIN pageChange' \ DOMAIN pageChange :
           k - n \in DOMAIN batch /\ pageChange'[k] = batch[k - n]
      /\ \A i \in DOMAIN batch :
           /\ i + n \in DOMAIN pageChange' \ DOMAIN pageChange
           /\ pageChange'[i + n] = batch[i]
      /\ \A j \in DOMAIN pageChange, k \in DOMAIN pageChange' \ DOMAIN pageChange :
           j < k
      /\ DOMAIN pageChange' \subseteq Nat
      /\ DOMAIN batch \subseteq Nat
      /\ n \in Nat
  BY <1>2, <1>3, <1>4, ExtendedLog
<1>6. \A c \in D : /\ c.notebook = nb
                   /\ c.old_hash = HashIn(old, c.page_id)
                   /\ c.new_hash = HashIn(new, c.page_id)
  BY <1>1, DiffRecords
<1>7. \A p : HashIn(CurrentPages(nb)', p) = HashIn(new, p)
  BY ApplyPages
<1> HIDE DEF D, n, old, new
<1> SUFFICES ASSUME NEW m \in Notebooks, NEW p \in PageIds
             PROVE  \/ \E k \in DOMAIN pageChange' :
                         /\ IsLastChange(k, m, p)'
                         /\ pageChange'[k].new_hash = HashIn(CurrentPages(m)', p)
                    \/ /\ \A k \in DOMAIN pageChange' : ~About(k, m, p)'
                       /\ HashIn(CurrentPages(m)', p) = None
  BY DEF LogReproducesPages, HashIn
<1>8. CASE \E c \in D : m = nb /\ c.page_id = p
  <2>1. PICK i \in DOMAIN batch : batch[i].page_id = p
    BY <1>3, <1>8
  <2>2. batch[i].notebook = nb /\ batch[i].new_hash = HashIn(new, p)
    BY <1>3, <1>6, <2>1
  <2>3. PICK k \in DOMAIN pageChange' : /\ k = i + n
                                        /\ pageChange'[k] = batch[i]
                                        /\ \A j \in DOMAIN pageChange : j < k
    BY <1>5
  <2>4. \A j \in DOMAIN pageChange' : About(j, nb, p)' => j <= k
    <3> SUFFICES ASSUME NEW j \in DOMAIN pageChange', About(j, nb, p)'
                 PROVE  j <= k
      OBVIOUS
    <3>1. CASE j \in DOMAIN pageChange
      BY <1>5, <2>3, <3>1
    <3>2. CASE j \notin DOMAIN pageChange
      <4>1. j - n \in DOMAIN batch /\ batch[j - n].page_id = p
        BY <1>5, <3>2 DEF About
      <4>2. j - n = i
        BY <1>3, <2>1, <4>1
      <4>3. QED
        BY <1>5, <2>3, <4>2
    <3>3. QED
      BY <3>1, <3>2
  <2>5. About(k, nb, p)'
    BY <2>1, <2>2, <2>3 DEF About
  <2>6. IsLastChange(k, nb, p)'
    BY <2>4, <2>5 DEF IsLastChange
  <2>7. pageChange'[k].new_hash = HashIn(CurrentPages(nb)', p)
    BY <1>7, <2>2, <2>3
  <2>8. m = nb
    BY <1>8
  <2>9. QED
    BY <2>6, <2>7, <2>8
<1>9. CASE ~ \E c \in D : m = nb /\ c.page_id = p
  <2>1. HashIn(CurrentPages(m)', p) = HashIn(CurrentPages(m), p)
    <3>1. CASE m = nb
      <4>1. HashIn(old, p) = HashIn(new, p)
        BY <1>1, <1>9, <3>1, DiffOnePerPage DEF D
      <4>2. QED
        BY <1>7, <3>1, <4>1 DEF old
    <3>2. CASE m # nb
      BY <3>2, ApplyPages DEF CurrentPages, CurrentIds
    <3>3. QED
      BY <3>1, <3>2
  <2>2. \A k \in DOMAIN pageChange' \ DOMAIN pageChange : ~About(k, m, p)'
    BY <1>3, <1>5, <1>6, <1>9 DEF About
  <2>3. \A k \in DOMAIN pageChange : About(k, m, p)' <=> About(k, m, p)
    BY <1>5 DEF About
  <2>4. CASE \E k \in DOMAIN pageChange :
               /\ IsLastChange(k, m, p)
               /\ pageChange[k].new_hash = HashIn(CurrentPages(m), p)
    <3>1. PICK k \in DOMAIN pageChange :
            /\ IsLastChange(k, m, p)
            /\ pageChange[k].new_hash = HashIn(CurrentPages(m), p)
      BY <2>4
    <3>2. IsLastChange(k, m, p)'
      BY <1>5, <2>2, <2>3, <3>1 DEF IsLastChange
    <3>3. pageChange'[k].new_hash = HashIn(CurrentPages(m)', p)
      BY <1>5, <2>1, <3>1
    <3>4. QED
      BY <1>5, <3>2, <3>3
  <2>5. CASE /\ \A k \in DOMAIN pageChange : ~About(k, m, p)
             /\ HashIn(CurrentPages(m), p) = None
    BY <2>1, <2>2, <2>3, <2>5
  <2>6. QED
    BY <2>4, <2>5 DEF LogReproducesPages
<1>10. QED
  BY <1>8, <1>9

LEMMA ApplyKeepsChain ==
  ASSUME LogInv, NEW nb \in Notebooks, NEW rev \in Revisions,
         NEW snapshot \in Snapshots, ApplySnapshot(nb, rev, snapshot)
  PROVE  ChangesChain'
<1> USE DEF LogInv
<1> DEFINE old == CurrentPages(nb)
           new == NewPages(snapshot)
           D == Diff(nb, rev, old, new)
           n == Len(pageChange)
           log == DOMAIN pageChange
<1>1. IsPageMap(old) /\ IsPageMap(new)
  BY CurrentPagesIsMap, NewPagesIsMap
<1>2. PICK batch \in Batches(D) : pageChange' = pageChange \o batch
  BY ApplyFacts
<1>3. /\ batch \in Seq(Change)
      /\ \A i \in DOMAIN batch : batch[i] \in D
      /\ \A i, j \in DOMAIN batch : batch[i].page_id = batch[j].page_id => i = j
  BY <1>1, BatchIsSeq
<1>4. pageChange \in Seq(Change)
  BY DEF LedgerTypeOK
<1>5. /\ log \subseteq DOMAIN pageChange'
      /\ \A k \in log : pageChange'[k] = pageChange[k]
      /\ \A k \in DOMAIN pageChange' \ log :
           k - n \in DOMAIN batch /\ pageChange'[k] = batch[k - n]
      /\ \A j \in log, k \in DOMAIN pageChange' \ log : j < k
      /\ DOMAIN pageChange' \subseteq Nat
      /\ n \in Nat
  BY <1>2, <1>3, <1>4, ExtendedLog
<1>6. \A c \in D : /\ c.notebook = nb
                   /\ c.page_id \in PageIds
                   /\ c.old_hash = HashIn(old, c.page_id)
  BY <1>1, DiffRecords DEF Change
<1> HIDE DEF D, n, log, old, new
<1> SUFFICES ASSUME NEW k \in DOMAIN pageChange'
             PROVE  LET earlier == {j \in DOMAIN pageChange' : j < k /\ SamePage(j, k)'}
                    IN  IF earlier = {}
                          THEN pageChange'[k].old_hash = None
                          ELSE \E j \in earlier :
                                 /\ \A i \in earlier : i <= j
                                 /\ pageChange'[k].old_hash = pageChange'[j].new_hash
  BY DEF ChangesChain
<1> DEFINE earlier == {j \in DOMAIN pageChange' : j < k /\ SamePage(j, k)'}
<1>7. CASE k \in log
  <2>1. earlier = {j \in log : j < k /\ SamePage(j, k)}
    <3>1. \A j \in DOMAIN pageChange' : j < k => j \in log
      BY <1>5, <1>7
    <3>2. \A j \in log : SamePage(j, k)' <=> SamePage(j, k)
      BY <1>5, <1>7 DEF SamePage
    <3>3. QED
      BY <1>5, <3>1, <3>2
  <2>2. IF earlier = {}
          THEN pageChange[k].old_hash = None
          ELSE \E j \in earlier :
                 /\ \A i \in earlier : i <= j
                 /\ pageChange[k].old_hash = pageChange[j].new_hash
    BY <1>7, <2>1 DEF ChangesChain, log
  <2>3. \A j \in earlier : pageChange'[j] = pageChange[j]
    BY <1>5, <2>1
  <2>4. pageChange'[k] = pageChange[k]
    BY <1>5, <1>7
  <2> HIDE DEF earlier
  <2>5. IF earlier = {}
          THEN pageChange'[k].old_hash = None
          ELSE \E j \in earlier :
                 /\ \A i \in earlier : i <= j
                 /\ pageChange'[k].old_hash = pageChange'[j].new_hash
    BY <2>2, <2>3, <2>4
  <2>6. QED
    BY <2>5 DEF earlier
<1>8. CASE k \notin log
  <2>1. /\ k - n \in DOMAIN batch
        /\ pageChange'[k] = batch[k - n]
        /\ batch[k - n] \in D
    BY <1>3, <1>5, <1>8
  <2>2. PICK p \in PageIds : /\ p = pageChange'[k].page_id
                             /\ pageChange'[k].notebook = nb
                             /\ pageChange'[k].old_hash = HashIn(old, p)
    BY <1>6, <2>1
  <2>3. earlier = {j \in log : About(j, nb, p)}
    <3>1. \A j \in log : j < k
      BY <1>5, <1>8
    <3>2. \A j \in log : SamePage(j, k)' <=> About(j, nb, p)
      BY <1>5, <2>2 DEF SamePage, About
    <3>3. ASSUME NEW j \in DOMAIN pageChange', j \notin log, SamePage(j, k)'
          PROVE  j = k
      <4>1. /\ j - n \in DOMAIN batch
            /\ batch[j - n].page_id = batch[k - n].page_id
        BY <1>5, <2>1, <3>3 DEF SamePage
      <4>2. j - n = k - n
        BY <1>3, <2>1, <4>1
      <4>3. QED
        BY <1>5, <4>2
    <3>4. \A j \in DOMAIN pageChange' : j < k /\ SamePage(j, k)' => j \in log
      BY <1>5, <3>3
    <3>5. QED
      BY <1>5, <3>1, <3>2, <3>4
  <2>4. \/ \E j \in log : /\ IsLastChange(j, nb, p)
                          /\ pageChange[j].new_hash = HashIn(old, p)
        \/ (\A j \in log : ~About(j, nb, p)) /\ HashIn(old, p) = None
    BY DEF LogReproducesPages, old, log
  <2>5. CASE \E j \in log : /\ IsLastChange(j, nb, p)
                           /\ pageChange[j].new_hash = HashIn(old, p)
    <3>1. PICK j \in log : /\ IsLastChange(j, nb, p)
                           /\ pageChange[j].new_hash = HashIn(old, p)
      BY <2>5
    <3>2. j \in earlier /\ \A i \in earlier : i <= j
      BY <2>3, <3>1 DEF IsLastChange, log
    <3>3. pageChange'[k].old_hash = pageChange'[j].new_hash
      BY <1>5, <2>2, <3>1
    <3> HIDE DEF earlier
    <3>4. /\ earlier # {}
          /\ \E i \in earlier : /\ \A l \in earlier : l <= i
                                /\ pageChange'[k].old_hash = pageChange'[i].new_hash
      BY <3>2, <3>3
    <3>5. QED
      BY <3>4 DEF earlier
  <2>6. CASE (\A j \in log : ~About(j, nb, p)) /\ HashIn(old, p) = None
    BY <2>2, <2>3, <2>6
  <2>7. QED
    BY <2>4, <2>5, <2>6
<1>9. QED
  BY <1>7, <1>8

\* Marking a page's OCR status changes neither the log nor any hash.
LEMMA MarkKeepsHashes ==
  ASSUME LedgerTypeOK, NEW nb \in Notebooks, NEW p \in PageIds,
         MarkPageOcrStatus(nb, p, "ready"), NEW m \in Notebooks
  PROVE  /\ CurrentIds(m)' = CurrentIds(m)
         /\ \A q \in CurrentIds(m) :
              /\ pageSnapshot'[m][q].content_hash = pageSnapshot[m][q].content_hash
              /\ pageSnapshot'[m][q].page_index = pageSnapshot[m][q].page_index
         /\ \A q : HashIn(CurrentPages(m)', q) = HashIn(CurrentPages(m), q)
<1> DEFINE rows == pageSnapshot[m]
           rowsNext == pageSnapshot'[m]
<1>1. /\ DOMAIN rowsNext = DOMAIN rows
      /\ \A q \in DOMAIN rows :
           \/ rowsNext[q] = rows[q]
           \/ rowsNext[q] = [rows[q] EXCEPT !.ocr_status = "ready"]
  BY DEF LedgerTypeOK, MarkPageOcrStatus
<1>2. \A q \in DOMAIN rows : rows[q] \in PageRow
  BY DEF LedgerTypeOK
<1>3. \A q \in DOMAIN rows :
        /\ rowsNext[q].removed = rows[q].removed
        /\ rowsNext[q].content_hash = rows[q].content_hash
        /\ rowsNext[q].page_index = rows[q].page_index
  BY <1>1, <1>2 DEF PageRow
<1>4. CurrentIds(m)' = CurrentIds(m)
  BY <1>1, <1>3 DEF CurrentIds
<1>5. \A q : HashIn(CurrentPages(m)', q) = HashIn(CurrentPages(m), q)
  BY <1>3, <1>4 DEF HashIn, CurrentPages, CurrentIds
<1>6. QED
  BY <1>3, <1>4, <1>5 DEF CurrentIds

\* Every step of the ledger keeps the log faithful.
LEMMA LedgerKeepsLog ==
  ASSUME LogInv, [LedgerNext]_ledgerVars
  PROVE  LogInv'
<1>1. ASSUME NEW nb \in Notebooks, NEW rev \in Revisions,
             NEW snapshot \in Snapshots, ApplySnapshot(nb, rev, snapshot)
      PROVE  LogInv'
  BY <1>1, ApplyKeepsType, ApplyKeepsReplay, ApplyKeepsChain DEF LogInv
<1>2. ASSUME NEW nb \in Notebooks, NEW p \in PageIds,
             MarkPageOcrStatus(nb, p, "ready")
      PROVE  LogInv'
  <2>1. LedgerTypeOK'
    BY <1>2, MarkKeepsType DEF LogInv
  <2>2. pageChange' = pageChange
    BY <1>2 DEF MarkPageOcrStatus
  <2>3. \A m \in Notebooks, q \in PageIds :
          HashIn(CurrentPages(m)', q) = HashIn(CurrentPages(m), q)
    BY <1>2, MarkKeepsHashes DEF LogInv
  <2>4. LogReproducesPages'
    BY <2>2, <2>3 DEF LogInv, LogReproducesPages, HashIn, IsLastChange, About
  <2>5. ChangesChain'
    BY <2>2 DEF LogInv, ChangesChain, SamePage
  <2>6. QED
    BY <2>1, <2>4, <2>5 DEF LogInv
<1>3. ASSUME NEW a \in Agents, NEW nb \in Notebooks,
             NEW k \in DOMAIN pageChange, AdvanceAgentCursor(a, nb, k)
      PROVE  LogInv'
  <2>1. LedgerTypeOK'
    BY <1>3, AdvanceKeepsType DEF LogInv
  <2>2. UNCHANGED <<pageChange, pageSnapshot>>
    BY <1>3 DEF AdvanceAgentCursor
  <2>3. LogReproducesPages' /\ ChangesChain'
    BY <2>2 DEF LogInv, LogReproducesPages, ChangesChain, SamePage, HashIn,
                IsLastChange, About, CurrentPages, CurrentIds
  <2>4. QED
    BY <2>1, <2>3 DEF LogInv
<1>4. CASE UNCHANGED ledgerVars
  <2>1. LedgerTypeOK'
    BY <1>4 DEF ledgerVars, LogInv, LedgerTypeOK
  <2>2. UNCHANGED <<pageChange, pageSnapshot>>
    BY <1>4 DEF ledgerVars
  <2>3. LogReproducesPages' /\ ChangesChain'
    BY <2>2 DEF LogInv, LogReproducesPages, ChangesChain, SamePage, HashIn,
                IsLastChange, About, CurrentPages, CurrentIds
  <2>4. QED
    BY <2>1, <2>3 DEF LogInv
<1>5. QED
  BY <1>1, <1>2, <1>3, <1>4 DEF LedgerNext

\* Replaying the log yields the stored pages, and no change is missing from
\* or duplicated in the history of a page.
THEOREM LogIsFaithful == LedgerSpec => [](LogReproducesPages /\ ChangesChain)
<1>1. LedgerInit => LogInv
  BY DEF LedgerInit, LogInv, LedgerTypeOK, LogReproducesPages, ChangesChain,
         HashIn, CurrentPages, CurrentIds
<1>2. LogInv /\ [LedgerNext]_ledgerVars => LogInv'
  BY LedgerKeepsLog
<1>3. LogInv => LogReproducesPages /\ ChangesChain
  BY DEF LogInv
<1>4. QED
  BY <1>1, <1>2, <1>3, PTL DEF LedgerSpec

(***************************************************************************)
(* The rows a reader is served are the pages of the current revision.      *)
(***************************************************************************)

RevisionInv == LedgerTypeOK /\ PagesMatchRevision

LEMMA ApplyKeepsMatch ==
  ASSUME RevisionInv, NEW nb \in Notebooks, NEW rev \in Revisions,
         NEW snapshot \in Snapshots, ApplySnapshot(nb, rev, snapshot)
  PROVE  PagesMatchRevision'
<1> USE DEF RevisionInv
<1> DEFINE new == NewPages(snapshot)
           rows == UpsertedPages(pageSnapshot[nb], new,
                                 DOMAIN CurrentPages(nb) \ DOMAIN new)
           row == [revision |-> rev, notebook_hash |-> snapshot]
<1>1. /\ DOMAIN new = {p \in DOMAIN rows : ~rows[p].removed}
      /\ \A p \in DOMAIN new : /\ rows[p].content_hash = new[p].content_hash
                              /\ rows[p].page_index = new[p].page_index
  <2>1. IsPageMap(new)
    BY NewPagesIsMap
  <2>2. QED
    BY <2>1, UpsertedRows
<1>2. /\ pageSnapshot' = [pageSnapshot EXCEPT ![nb] = rows]
      /\ notebookSnapshot' = [notebookSnapshot EXCEPT ![nb] = row]
  BY DEF ApplySnapshot, CommitSnapshot
<1>3. DOMAIN pageSnapshot = Notebooks /\ DOMAIN notebookSnapshot = Notebooks
  BY DEF LedgerTypeOK
<1>4. row # None /\ row.notebook_hash = snapshot
  BY NoneIsNoRow
<1> HIDE DEF rows, row
<1> SUFFICES ASSUME NEW m \in Notebooks
             PROVE  IF notebookSnapshot'[m] = None
                      THEN pageSnapshot'[m] = [p \in {} |-> None]
                      ELSE LET pages == NewPages(notebookSnapshot'[m].notebook_hash)
                           IN  /\ CurrentIds(m)' = DOMAIN pages
                               /\ \A p \in DOMAIN pages :
                                    /\ pageSnapshot'[m][p].content_hash = pages[p].content_hash
                                    /\ pageSnapshot'[m][p].page_index = pages[p].page_index
  BY DEF PagesMatchRevision, NewPages
<1>5. CASE m = nb
  <2>1. pageSnapshot'[m] = rows /\ notebookSnapshot'[m] = row
    BY <1>2, <1>3, <1>5
  <2>2. CurrentIds(m)' = DOMAIN new
    BY <1>1, <2>1 DEF CurrentIds
  <2>3. QED
    BY <1>1, <1>4, <2>1, <2>2
<1>6. CASE m # nb
  <2>1. pageSnapshot'[m] = pageSnapshot[m] /\ notebookSnapshot'[m] = notebookSnapshot[m]
    BY <1>2, <1>3, <1>6
  <2>2. CurrentIds(m)' = CurrentIds(m)
    BY <2>1 DEF CurrentIds
  <2>3. QED
    BY <2>1, <2>2 DEF PagesMatchRevision
<1>7. QED
  BY <1>5, <1>6

\* Every step of the ledger keeps the two tables in step.
LEMMA LedgerKeepsMatch ==
  ASSUME RevisionInv, [LedgerNext]_ledgerVars
  PROVE  RevisionInv'
<1>1. ASSUME NEW nb \in Notebooks, NEW rev \in Revisions,
             NEW snapshot \in Snapshots, ApplySnapshot(nb, rev, snapshot)
      PROVE  RevisionInv'
  BY <1>1, ApplyKeepsType, ApplyKeepsMatch DEF RevisionInv
<1>2. ASSUME NEW nb \in Notebooks, NEW p \in PageIds,
             MarkPageOcrStatus(nb, p, "ready")
      PROVE  RevisionInv'
  <2>1. LedgerTypeOK'
    BY <1>2, MarkKeepsType DEF RevisionInv
  <2>2. notebookSnapshot' = notebookSnapshot
    BY <1>2 DEF MarkPageOcrStatus
  <2>3. ASSUME NEW m \in Notebooks, notebookSnapshot[m] = None
        PROVE  pageSnapshot'[m] = pageSnapshot[m]
    <3>1. CurrentIds(m) = {}
      BY <2>3 DEF RevisionInv, PagesMatchRevision, CurrentIds
    <3>2. m # nb
      BY <1>2, <3>1 DEF MarkPageOcrStatus
    <3>3. QED
      BY <1>2, <3>2 DEF MarkPageOcrStatus, RevisionInv, LedgerTypeOK
  <2>4. \A m \in Notebooks :
          /\ CurrentIds(m)' = CurrentIds(m)
          /\ \A q \in CurrentIds(m) :
               /\ pageSnapshot'[m][q].content_hash = pageSnapshot[m][q].content_hash
               /\ pageSnapshot'[m][q].page_index = pageSnapshot[m][q].page_index
    BY <1>2, MarkKeepsHashes DEF RevisionInv
  <2>5. PagesMatchRevision'
    BY <2>2, <2>3, <2>4 DEF RevisionInv, PagesMatchRevision
  <2>6. QED
    BY <2>1, <2>5 DEF RevisionInv
<1>3. ASSUME NEW a \in Agents, NEW nb \in Notebooks,
             NEW k \in DOMAIN pageChange, AdvanceAgentCursor(a, nb, k)
      PROVE  RevisionInv'
  <2>1. LedgerTypeOK'
    BY <1>3, AdvanceKeepsType DEF RevisionInv
  <2>2. UNCHANGED <<pageSnapshot, notebookSnapshot>>
    BY <1>3 DEF AdvanceAgentCursor
  <2>3. QED
    BY <2>1, <2>2 DEF RevisionInv, PagesMatchRevision, CurrentIds
<1>4. CASE UNCHANGED ledgerVars
  <2>1. LedgerTypeOK'
    BY <1>4 DEF ledgerVars, RevisionInv, LedgerTypeOK
  <2>2. UNCHANGED <<pageSnapshot, notebookSnapshot>>
    BY <1>4 DEF ledgerVars
  <2>3. QED
    BY <2>1, <2>2 DEF RevisionInv, PagesMatchRevision, CurrentIds
<1>5. QED
  BY <1>1, <1>2, <1>3, <1>4 DEF LedgerNext

\* At every moment the page table holds the pages, hashes and positions of
\* the notebook's current revision, neither more nor less.
THEOREM PagesAreTheRevision == LedgerSpec => []PagesMatchRevision
<1>1. LedgerInit => RevisionInv
  BY DEF LedgerInit, RevisionInv, LedgerTypeOK, PagesMatchRevision
<1>2. RevisionInv /\ [LedgerNext]_ledgerVars => RevisionInv'
  BY LedgerKeepsMatch
<1>3. RevisionInv => PagesMatchRevision
  BY DEF RevisionInv
<1>4. QED
  BY <1>1, <1>2, <1>3, PTL DEF LedgerSpec

(***************************************************************************)
(* What an agent that polls by cursor can rely on.                         *)
(***************************************************************************)

\* The changes of one page form an unbroken chain of hashes.
THEOREM ChangesAreChained == LedgerSpec => []ChangesChain
<1>1. LogReproducesPages /\ ChangesChain => ChangesChain
  OBVIOUS
<1>2. QED
  BY <1>1, LogIsFaithful, PTL

(***************************************************************************)
(* The last change of a notebook.  LatestChangeId chooses the greatest     *)
(* element of a set; that there is one has to be part of the invariant.    *)
(***************************************************************************)

ChangesOf(nb) == {k \in DOMAIN pageChange : pageChange[k].notebook = nb}

HasLatest(nb) ==
  ChangesOf(nb) # {} => \E k \in ChangesOf(nb) : \A j \in ChangesOf(nb) : j <= k

\* The greatest of a set of change IDs, as LatestChangeId computes it.
Greatest(ids) == IF ids = {} THEN 0 ELSE CHOOSE k \in ids : \A j \in ids : j <= k

LEMMA GreatestIsGreatest ==
  ASSUME NEW ids, ids \subseteq Nat,
         ids # {} => \E k \in ids : \A j \in ids : j <= k
  PROVE  /\ Greatest(ids) \in Nat
         /\ \A k \in ids : k <= Greatest(ids)
         /\ Greatest(ids) = 0 \/ Greatest(ids) \in ids
BY DEF Greatest

\* A log that grows by a batch of one notebook keeps its latest changes, or has
\* later ones.
LEMMA CommitKeepsLatest ==
  ASSUME LedgerTypeOK, \A m \in Notebooks : HasLatest(m),
         NEW nb \in Notebooks, NEW rev \in Revisions,
         NEW snapshot \in Snapshots, NEW old, IsPageMap(old),
         CommitSnapshot(nb, rev, snapshot, old)
  PROVE  /\ \A m \in Notebooks : HasLatest(m)'
         /\ \A m \in Notebooks : ChangesOf(m) \subseteq ChangesOf(m)'
         /\ \A m \in Notebooks \ {nb} : ChangesOf(m)' = ChangesOf(m)
         /\ Len(pageChange) <= Len(pageChange')
<1> DEFINE new == NewPages(snapshot)
           D == Diff(nb, rev, old, new)
           n == Len(pageChange)
<1>1. IsPageMap(old) /\ IsPageMap(new)
  BY NewPagesIsMap
<1>2. PICK batch \in Batches(D) : pageChange' = pageChange \o batch
  BY DEF CommitSnapshot
<1>3. batch \in Seq(Change) /\ \A i \in DOMAIN batch : batch[i].notebook = nb
  BY <1>1, BatchIsSeq, DiffRecords
<1>4. pageChange \in Seq(Change)
  BY DEF LedgerTypeOK
<1> HIDE DEF D, new
<1>5. /\ \A k \in DOMAIN pageChange : k \in DOMAIN pageChange' /\ pageChange'[k] = pageChange[k]
      /\ \A k \in DOMAIN pageChange' \ DOMAIN pageChange : pageChange'[k].notebook = nb
      /\ \A j \in DOMAIN pageChange, k \in DOMAIN pageChange' \ DOMAIN pageChange : j < k
      /\ DOMAIN pageChange' = 1..(n + Len(batch)) /\ DOMAIN pageChange = 1..n
      /\ n \in Nat /\ Len(batch) \in Nat
  BY <1>2, <1>3, <1>4, ExtendedLog
<1> HIDE DEF n
<1>6. \A m \in Notebooks : ChangesOf(m) \subseteq ChangesOf(m)'
  BY <1>5 DEF ChangesOf
<1>7. \A m \in Notebooks \ {nb} : ChangesOf(m)' = ChangesOf(m)
  BY <1>5 DEF ChangesOf
<1>8. HasLatest(nb)'
  <2>1. CASE Len(batch) = 0
    <3>1. ChangesOf(nb)' = ChangesOf(nb)
      BY <1>5, <2>1 DEF ChangesOf
    <3>2. QED
      BY <3>1 DEF HasLatest
  <2>2. CASE Len(batch) > 0
    <3>1. n + Len(batch) \in ChangesOf(nb)'
      BY <1>5, <2>2 DEF ChangesOf
    <3>2. \A j \in ChangesOf(nb)' : j <= n + Len(batch)
      BY <1>5 DEF ChangesOf
    <3>3. QED
      BY <3>1, <3>2 DEF HasLatest
  <2>3. QED
    BY <1>5, <2>1, <2>2
<1>9. Len(pageChange) <= Len(pageChange')
  <2>1. Len(pageChange') = n + Len(batch)
    BY <1>2, <1>3, <1>4 DEF n
  <2>2. QED
    BY <1>5, <2>1 DEF n
<1>10. QED
  BY <1>6, <1>7, <1>8, <1>9 DEF HasLatest

COROLLARY ApplyKeepsLatest ==
  ASSUME LedgerTypeOK, \A m \in Notebooks : HasLatest(m),
         NEW nb \in Notebooks, NEW rev \in Revisions,
         NEW snapshot \in Snapshots, ApplySnapshot(nb, rev, snapshot)
  PROVE  /\ \A m \in Notebooks : HasLatest(m)'
         /\ \A m \in Notebooks : ChangesOf(m) \subseteq ChangesOf(m)'
         /\ \A m \in Notebooks \ {nb} : ChangesOf(m)' = ChangesOf(m)
         /\ Len(pageChange) <= Len(pageChange')
BY CommitKeepsLatest, CurrentPagesIsMap DEF ApplySnapshot

CursorInv == /\ LedgerTypeOK
             /\ \A nb \in Notebooks : HasLatest(nb)
             /\ CursorWithinLog

\* The last change of a notebook whose log only grows is never an earlier one.
LEMMA LatestGrows ==
  ASSUME LedgerTypeOK, LedgerTypeOK', NEW m \in Notebooks, HasLatest(m), HasLatest(m)',
         ChangesOf(m) \subseteq ChangesOf(m)'
  PROVE  /\ LatestChangeId(m) \in Nat /\ LatestChangeId(m)' \in Nat
         /\ LatestChangeId(m) <= LatestChangeId(m)'
<1> DEFINE ids == ChangesOf(m)
           later == ChangesOf(m)'
<1>1. LatestChangeId(m) = Greatest(ids) /\ LatestChangeId(m)' = Greatest(later)
  BY DEF LatestChangeId, ChangesOf, Greatest
<1>2. ids \subseteq Nat /\ later \subseteq Nat /\ ids \subseteq later
  BY DEF LedgerTypeOK, ChangesOf
<1>3. /\ ids # {} => \E k \in ids : \A j \in ids : j <= k
      /\ later # {} => \E k \in later : \A j \in later : j <= k
  BY DEF HasLatest
<1> HIDE DEF ids, later
<1>4. /\ Greatest(ids) \in Nat
      /\ Greatest(ids) = 0 \/ Greatest(ids) \in ids
  BY <1>2, <1>3, GreatestIsGreatest
<1>5. /\ Greatest(later) \in Nat
      /\ \A k \in later : k <= Greatest(later)
  BY <1>2, <1>3, GreatestIsGreatest
<1>6. QED
  BY <1>1, <1>2, <1>4, <1>5

\* The greatest change of a notebook, when its log has one.
LEMMA LatestIsInLog ==
  ASSUME LedgerTypeOK, NEW nb \in Notebooks, HasLatest(nb)
  PROVE  /\ LatestChangeId(nb) \in Nat
         /\ LatestChangeId(nb) = 0 \/ LatestChangeId(nb) \in DOMAIN pageChange
         /\ \A k \in 1..LatestChangeId(nb) : k \in DOMAIN pageChange
<1> DEFINE ids == ChangesOf(nb)
<1>1. LatestChangeId(nb) = Greatest(ids)
  BY DEF LatestChangeId, ChangesOf, Greatest
<1>2. ids \subseteq Nat /\ (ids # {} => \E k \in ids : \A j \in ids : j <= k)
  BY DEF LedgerTypeOK, ChangesOf, HasLatest
<1>3. ids \subseteq DOMAIN pageChange
  BY DEF ChangesOf
<1> HIDE DEF ids
<1>4. /\ Greatest(ids) \in Nat
      /\ Greatest(ids) = 0 \/ Greatest(ids) \in ids
  BY <1>2, GreatestIsGreatest
<1>5. LatestChangeId(nb) = 0 \/ LatestChangeId(nb) \in DOMAIN pageChange
  BY <1>1, <1>3, <1>4
<1>6. DOMAIN pageChange = 1..Len(pageChange) /\ Len(pageChange) \in Nat
  BY DEF LedgerTypeOK
<1>7. QED
  BY <1>1, <1>4, <1>5, <1>6

\* A notebook whose log only grows keeps the cursors that point into it.
LEMMA CursorsStayWithin ==
  ASSUME CursorInv, LedgerTypeOK', \A m \in Notebooks : HasLatest(m)',
         \A m \in Notebooks : ChangesOf(m) \subseteq ChangesOf(m)',
         UNCHANGED agentCursor
  PROVE  CursorWithinLog'
<1>1. ASSUME NEW m \in Notebooks
      PROVE  /\ LatestChangeId(m) \in Nat /\ LatestChangeId(m)' \in Nat
             /\ LatestChangeId(m) <= LatestChangeId(m)'
  BY LatestGrows DEF CursorInv
<1>2. \A a \in Agents, m \in Notebooks : agentCursor[a][m] \in Nat
  BY DEF CursorInv, LedgerTypeOK
<1>3. QED
  BY <1>1, <1>2 DEF CursorInv, CursorWithinLog

LEMMA LedgerStartsWithin ==
  ASSUME LedgerInit
  PROVE  CursorInv
<1>1. LedgerTypeOK
  BY DEF LedgerInit, LedgerTypeOK
<1>2. \A nb \in Notebooks : ChangesOf(nb) = {}
  BY DEF LedgerInit, ChangesOf
<1>3. \A nb \in Notebooks : LatestChangeId(nb) = 0
  BY <1>2 DEF LatestChangeId, ChangesOf
<1>4. QED
  BY <1>1, <1>2, <1>3 DEF CursorInv, HasLatest, CursorWithinLog, LedgerInit

\* Every step of the ledger keeps the cursors within its log.
LEMMA LedgerKeepsCursors ==
  ASSUME CursorInv, [LedgerNext]_ledgerVars
  PROVE  CursorInv'
<1>1. ASSUME NEW nb \in Notebooks, NEW rev \in Revisions,
             NEW snapshot \in Snapshots, ApplySnapshot(nb, rev, snapshot)
      PROVE  CursorInv'
  <2>1. LedgerTypeOK' /\ UNCHANGED agentCursor
    BY <1>1, ApplyKeepsType DEF CursorInv, ApplySnapshot, CommitSnapshot
  <2>2. /\ \A m \in Notebooks : HasLatest(m)'
        /\ \A m \in Notebooks : ChangesOf(m) \subseteq ChangesOf(m)'
    BY <1>1, ApplyKeepsLatest DEF CursorInv
  <2>3. QED
    BY <2>1, <2>2, CursorsStayWithin DEF CursorInv
<1>2. ASSUME NEW nb \in Notebooks, NEW p \in PageIds,
             MarkPageOcrStatus(nb, p, "ready")
      PROVE  CursorInv'
  <2>1. LedgerTypeOK' /\ UNCHANGED <<pageChange, agentCursor>>
    BY <1>2, MarkKeepsType DEF CursorInv, MarkPageOcrStatus
  <2>2. QED
    BY <2>1 DEF CursorInv, HasLatest, ChangesOf, CursorWithinLog, LatestChangeId
<1>3. ASSUME NEW a \in Agents, NEW nb \in Notebooks,
             NEW k \in DOMAIN pageChange, AdvanceAgentCursor(a, nb, k)
      PROVE  CursorInv'
  <2>1. LedgerTypeOK' /\ UNCHANGED pageChange
    BY <1>3, AdvanceKeepsType DEF CursorInv, AdvanceAgentCursor
  <2>2. \A m \in Notebooks : HasLatest(m)' /\ LatestChangeId(m)' = LatestChangeId(m)
    BY <2>1 DEF CursorInv, HasLatest, ChangesOf, LatestChangeId
  <2>3. \A b \in Agents, m \in Notebooks :
          \/ agentCursor'[b][m] = agentCursor[b][m]
          \/ m = nb /\ agentCursor'[b][m] = k
    BY <1>3 DEF AdvanceAgentCursor, CursorInv, LedgerTypeOK
  <2>4. k <= LatestChangeId(nb)
    BY <1>3 DEF AdvanceAgentCursor
  <2>5. CursorWithinLog'
    BY <2>2, <2>3, <2>4 DEF CursorInv, CursorWithinLog
  <2>6. QED
    BY <2>1, <2>2, <2>5 DEF CursorInv
<1>4. CASE UNCHANGED ledgerVars
  <2>1. LedgerTypeOK'
    BY <1>4 DEF ledgerVars, CursorInv, LedgerTypeOK
  <2>2. \A m \in Notebooks : HasLatest(m)' /\ LatestChangeId(m)' = LatestChangeId(m)
    BY <1>4 DEF ledgerVars, CursorInv, HasLatest, ChangesOf, LatestChangeId
  <2>3. QED
    BY <1>4, <2>1, <2>2 DEF ledgerVars, CursorInv, CursorWithinLog
<1>5. QED
  BY <1>1, <1>2, <1>3, <1>4 DEF LedgerNext

\* advance_agent_cursor never moves a cursor past the last change of its
\* notebook, and the log never shrinks under one: after any number of calls by
\* any agents, each cursor stands for changes that exist.
THEOREM CursorsAreWithinLog == LedgerSpec => []CursorWithinLog
<1>1. LedgerInit => CursorInv
  BY LedgerStartsWithin
<1>2. CursorInv /\ [LedgerNext]_ledgerVars => CursorInv'
  BY LedgerKeepsCursors
<1>3. CursorInv => CursorWithinLog
  BY DEF CursorInv
<1>4. QED
  BY <1>1, <1>2, <1>3, PTL DEF LedgerSpec


(***************************************************************************)
(* Nothing is missing from the log.                                        *)
(***************************************************************************)

\* The page that comes first among the pages of S has the smaller position.
LEMMA PositionsAreOrdered ==
  ASSUME NEW pages, IsPageMap(pages), NEW S, S \subseteq DOMAIN pages, IsFiniteSet(S),
         NEW p \in S, NEW q \in S, Before(pages, p, q)
  PROVE  /\ RelativePosition(pages, S, p) \in Nat
         /\ RelativePosition(pages, S, q) \in Nat
         /\ RelativePosition(pages, S, p) < RelativePosition(pages, S, q)
<1> DEFINE first(r) == {s \in S : pages[s].page_index < pages[r].page_index}
<1>1. \A s \in S : pages[s].page_index \in Nat
  BY DEF IsPageMap
<1>2. /\ first(p) \in SUBSET first(q)
      /\ first(p) \in SUBSET S /\ first(q) \in SUBSET S
      /\ p \in first(q) /\ p \notin first(p)
  BY <1>1 DEF Before
<1>3. IsFiniteSet(first(p)) /\ IsFiniteSet(first(q))
  BY <1>2, FS_Subset
<1>4. /\ RelativePosition(pages, S, p) = Cardinality(first(p))
      /\ RelativePosition(pages, S, q) = Cardinality(first(q))
  BY DEF RelativePosition
<1> HIDE DEF first
<1>5. Cardinality(first(p)) \in Nat /\ Cardinality(first(q)) \in Nat
  BY <1>3, FS_CardinalityType
<1>6. /\ Cardinality(first(p)) <= Cardinality(first(q))
      /\ Cardinality(first(q)) = Cardinality(first(p)) => first(q) = first(p)
  BY <1>2, <1>3, FS_Subset
<1>7. QED
  BY <1>2, <1>4, <1>5, <1>6

\* Of two pages that change places, the diff has a change of at least one.
LEMMA SwappedPagesAreInDiff ==
  ASSUME NEW old, NEW new, IsPageMap(old), IsPageMap(new),
         NEW nb \in Notebooks, NEW rev \in Revisions,
         NEW p \in DOMAIN old \cap DOMAIN new, NEW q \in DOMAIN old \cap DOMAIN new,
         Before(old, p, q), Before(new, q, p)
  PROVE  \E c \in Diff(nb, rev, old, new) : c.page_id \in {p, q}
<1> DEFINE S == SameHashCommon(old, new)
           D == Diff(nb, rev, old, new)
<1>1. ASSUME NEW r \in {p, q}, r \in Reordered(old, new) \/ r \in Updated(old, new)
      PROVE  \E c \in D : c.page_id \in {p, q}
  <2>1. CASE r \in Reordered(old, new)
    <3>1. ChangeRecord(nb, rev, "reorder", r, old, new) \in D
      BY <2>1 DEF Diff
    <3>2. QED
      BY <3>1 DEF ChangeRecord
  <2>2. CASE r \in Updated(old, new)
    <3>1. ChangeRecord(nb, rev, "updated", r, old, new) \in D
      BY <2>2 DEF Diff
    <3>2. QED
      BY <3>1 DEF ChangeRecord
  <2>3. QED
    BY <1>1, <2>1, <2>2
<1>2. CASE p \notin S \/ q \notin S
  BY <1>1, <1>2 DEF Updated
<1>3. CASE p \in S /\ q \in S
  <2>1. S \subseteq DOMAIN old /\ S \subseteq DOMAIN new
    BY DEF SameHashCommon
  <2>2. IsFiniteSet(S)
    BY <2>1, PageIdsAreOrdered, FS_Subset DEF IsPageMap
  <2> HIDE DEF S
  <2>3. /\ RelativePosition(old, S, p) \in Nat /\ RelativePosition(old, S, q) \in Nat
        /\ RelativePosition(old, S, p) < RelativePosition(old, S, q)
    BY <1>3, <2>1, <2>2, PositionsAreOrdered
  <2>4. /\ RelativePosition(new, S, p) \in Nat /\ RelativePosition(new, S, q) \in Nat
        /\ RelativePosition(new, S, q) < RelativePosition(new, S, p)
    BY <1>3, <2>1, <2>2, PositionsAreOrdered
  <2>5. \/ RelativePosition(old, S, p) # RelativePosition(new, S, p)
        \/ RelativePosition(old, S, q) # RelativePosition(new, S, q)
    BY <2>3, <2>4
  <2>6. p \in Reordered(old, new) \/ q \in Reordered(old, new)
    BY <1>3, <2>5 DEF Reordered, S
  <2>7. QED
    BY <1>1, <2>6
<1>4. QED
  BY <1>2, <1>3

\* After a snapshot the current rows are its pages.
LEMMA ApplyRows ==
  ASSUME LedgerTypeOK, NEW nb \in Notebooks, NEW rev \in Revisions,
         NEW snapshot \in Snapshots, ApplySnapshot(nb, rev, snapshot)
  PROVE  /\ DOMAIN CurrentPages(nb)' = DOMAIN NewPages(snapshot)
         /\ \A p \in DOMAIN NewPages(snapshot) :
              /\ CurrentPages(nb)'[p].page_index = NewPages(snapshot)[p].page_index
              /\ CurrentPages(nb)'[p].content_hash = NewPages(snapshot)[p].content_hash
<1> DEFINE new == NewPages(snapshot)
           rows == UpsertedPages(pageSnapshot[nb], new,
                                 DOMAIN CurrentPages(nb) \ DOMAIN new)
<1>1. pageSnapshot' = [pageSnapshot EXCEPT ![nb] = rows]
  BY DEF ApplySnapshot, CommitSnapshot
<1>2. IsPageMap(new)
  BY NewPagesIsMap
<1>3. /\ DOMAIN new = {p \in DOMAIN rows : ~rows[p].removed}
      /\ \A p \in DOMAIN new : /\ rows[p].content_hash = new[p].content_hash
                              /\ rows[p].page_index = new[p].page_index
  BY <1>2, UpsertedRows
<1> HIDE DEF rows, new
<1>4. pageSnapshot'[nb] = rows
  BY <1>1 DEF LedgerTypeOK
<1>5. /\ DOMAIN CurrentPages(nb)' = DOMAIN new
      /\ \A p \in DOMAIN new : CurrentPages(nb)'[p] = rows[p]
  BY <1>3, <1>4 DEF CurrentPages, CurrentIds
<1>6. QED
  BY <1>3, <1>5 DEF new

\* What a snapshot changes is in the batch it appends.
LEMMA ApplyLogsEverything ==
  ASSUME LedgerTypeOK, LedgerTypeOK', NEW nb \in Notebooks, NEW rev \in Revisions,
         NEW snapshot \in Snapshots, ApplySnapshot(nb, rev, snapshot)
  PROVE  /\ \A p \in PageIds :
              HashIn(CurrentPages(nb), p) # HashIn(CurrentPages(nb)', p) => NewlyLogged(nb, p)
         /\ \A p, q \in DOMAIN CurrentPages(nb) \cap DOMAIN CurrentPages(nb)' :
              Before(CurrentPages(nb), p, q) /\ Before(CurrentPages(nb)', q, p)
                => NewlyLogged(nb, p) \/ NewlyLogged(nb, q)
<1> DEFINE old == CurrentPages(nb)
           new == NewPages(snapshot)
           next == CurrentPages(nb)'
           D == Diff(nb, rev, old, new)
           n == Len(pageChange)
<1>1. IsPageMap(old) /\ IsPageMap(new)
  BY CurrentPagesIsMap, NewPagesIsMap
<1>2. PICK batch \in Batches(D) : pageChange' = pageChange \o batch
  BY ApplyFacts
<1>3. /\ batch \in Seq(Change)
      /\ \A c \in D : \E i \in DOMAIN batch : batch[i] = c
  BY <1>1, BatchIsSeq
<1>4. \A c \in D : c.notebook = nb
  BY <1>1, DiffRecords
<1>5. pageChange \in Seq(Change)
  BY DEF LedgerTypeOK
<1>6. /\ DOMAIN next = DOMAIN new
      /\ \A p \in DOMAIN new : /\ next[p].page_index = new[p].page_index
                              /\ next[p].content_hash = new[p].content_hash
  BY ApplyRows
<1>7. \A p : HashIn(next, p) = HashIn(new, p)
  BY <1>6 DEF HashIn
<1> HIDE DEF D, old, new, next
<1>8. ASSUME NEW c \in D
      PROVE  NewlyLogged(nb, c.page_id)
  <2>1. PICK i \in DOMAIN batch : batch[i] = c
    BY <1>3
  <2>2. /\ i + n \in DOMAIN pageChange' \ DOMAIN pageChange
        /\ pageChange'[i + n] = c
    BY <1>2, <1>3, <1>5, <2>1, ExtendedLog
  <2>3. QED
    BY <1>4, <2>2 DEF NewlyLogged
<1>9. \A p \in PageIds : HashIn(old, p) # HashIn(next, p) => NewlyLogged(nb, p)
  BY <1>1, <1>7, <1>8, DiffOnePerPage DEF D
<1>10. ASSUME NEW p \in DOMAIN old \cap DOMAIN next, NEW q \in DOMAIN old \cap DOMAIN next,
              Before(old, p, q), Before(next, q, p)
       PROVE  NewlyLogged(nb, p) \/ NewlyLogged(nb, q)
  <2>1. Before(new, q, p)
    BY <1>6, <1>10 DEF Before
  <2>2. \E c \in D : c.page_id \in {p, q}
    BY <1>1, <1>6, <1>10, <2>1, SwappedPagesAreInDiff DEF D
  <2>3. QED
    BY <1>8, <2>2
<1>11. QED
  BY <1>9, <1>10 DEF old, next


\* A notebook that no snapshot is applied to keeps its hashes and positions.
LEMMA QuietPages ==
  ASSUME LedgerTypeOK, NEW nb \in Notebooks,
         DOMAIN CurrentPages(nb)' = DOMAIN CurrentPages(nb),
         \A p \in DOMAIN CurrentPages(nb) :
           /\ CurrentPages(nb)'[p].page_index = CurrentPages(nb)[p].page_index
           /\ CurrentPages(nb)'[p].content_hash = CurrentPages(nb)[p].content_hash
  PROVE  /\ \A p : HashIn(CurrentPages(nb), p) = HashIn(CurrentPages(nb)', p)
         /\ \A p, q \in DOMAIN CurrentPages(nb) \cap DOMAIN CurrentPages(nb)' :
              ~(Before(CurrentPages(nb), p, q) /\ Before(CurrentPages(nb)', q, p))
<1> DEFINE old == CurrentPages(nb)
           next == CurrentPages(nb)'
<1>1. IsPageMap(old)
  BY CurrentPagesIsMap
<1> HIDE DEF old, next
<1>2. /\ DOMAIN next = DOMAIN old
      /\ \A p \in DOMAIN old : /\ next[p].page_index = old[p].page_index
                              /\ next[p].content_hash = old[p].content_hash
  BY DEF old, next
<1>3. \A p : HashIn(old, p) = HashIn(next, p)
  BY <1>2 DEF HashIn
<1>4. \A p, q \in DOMAIN old : ~(Before(old, p, q) /\ Before(next, q, p))
  BY <1>1, <1>2 DEF Before, IsPageMap
<1>5. QED
  BY <1>2, <1>3, <1>4 DEF old, next

\* An agent that polls by cursor misses nothing: in every step, a page whose
\* content or existence changes, and one of any two pages that change places,
\* gets a new record in the log.
THEOREM EveryChangeGetsLogged == LedgerSpec => EveryChangeIsLogged
<1> DEFINE Logged(nb) ==
             /\ \A p \in PageIds : HashIn(CurrentPages(nb), p) # HashIn(CurrentPages(nb)', p)
                                     => NewlyLogged(nb, p)
             /\ \A p, q \in DOMAIN CurrentPages(nb) \cap DOMAIN CurrentPages(nb)' :
                  Before(CurrentPages(nb), p, q) /\ Before(CurrentPages(nb)', q, p)
                    => NewlyLogged(nb, p) \/ NewlyLogged(nb, q)
<1>1. LedgerTypeOK /\ LedgerTypeOK' /\ [LedgerNext]_ledgerVars =>
        [\A nb \in Notebooks : Logged(nb)]_ledgerVars
  <2> SUFFICES ASSUME LedgerTypeOK, LedgerTypeOK', LedgerNext, NEW m \in Notebooks
               PROVE  Logged(m)
    OBVIOUS
  <2>1. ASSUME pageSnapshot'[m] = pageSnapshot[m]
        PROVE  Logged(m)
    <3>1. CurrentPages(m)' = CurrentPages(m)
      BY <2>1 DEF CurrentPages, CurrentIds
    <3>2. QED
      BY <3>1, QuietPages
  <2>2. ASSUME NEW nb \in Notebooks, NEW rev \in Revisions,
               NEW snapshot \in Snapshots, ApplySnapshot(nb, rev, snapshot)
        PROVE  Logged(m)
    <3>1. CASE m = nb
      BY <2>2, <3>1, ApplyLogsEverything
    <3>2. CASE m # nb
      BY <2>1, <2>2, <3>2, ApplyPages
    <3>3. QED
      BY <3>1, <3>2
  <2>3. ASSUME NEW nb \in Notebooks, NEW p \in PageIds,
               MarkPageOcrStatus(nb, p, "ready")
        PROVE  Logged(m)
    <3>1. /\ DOMAIN CurrentPages(m)' = DOMAIN CurrentPages(m)
          /\ \A q \in DOMAIN CurrentPages(m) :
               /\ CurrentPages(m)'[q].page_index = CurrentPages(m)[q].page_index
               /\ CurrentPages(m)'[q].content_hash = CurrentPages(m)[q].content_hash
      BY <2>3, MarkKeepsHashes DEF CurrentPages
    <3>2. QED
      BY <3>1, QuietPages
  <2>4. ASSUME NEW a \in Agents, NEW nb \in Notebooks,
               NEW k \in DOMAIN pageChange, AdvanceAgentCursor(a, nb, k)
        PROVE  Logged(m)
    BY <2>1, <2>4 DEF AdvanceAgentCursor
  <2>5. QED
    BY <2>2, <2>3, <2>4 DEF LedgerNext
<1>2. QED
  BY <1>1, LedgerTypeCorrect, PTL DEF LedgerSpec, EveryChangeIsLogged


(***************************************************************************)
(* Nothing in the log is without cause.                                    *)
(***************************************************************************)

\* A page whose position among the pages of S differs in two maps has another
\* page of S before it in one of them only.
LEMMA MovedPastSomePage ==
  ASSUME NEW old, NEW new, NEW S, NEW p \in S,
         RelativePosition(old, S, p) # RelativePosition(new, S, p)
  PROVE  \E q \in S : Before(old, q, p) # Before(new, q, p)
<1>1. SUFFICES ASSUME \A q \in S : Before(old, q, p) <=> Before(new, q, p)
               PROVE  FALSE
  BY DEF Before
<1>2. {q \in S : old[q].page_index < old[p].page_index} =
      {q \in S : new[q].page_index < new[p].page_index}
  BY <1>1 DEF Before
<1>3. QED
  BY <1>2 DEF RelativePosition

\* A page is reported as reordered only if it changed places with a page that is
\* in both snapshots with the same content: what is added, removed or edited
\* around a page does not move it.
THEOREM ReordersAreReal == LedgerSpec => NoSpuriousReorder
<1> DEFINE Real(nb) ==
             \A k \in DOMAIN pageChange' \ DOMAIN pageChange :
               /\ pageChange'[k].notebook = nb
               /\ pageChange'[k].change_type = "reorder"
               =>
                 \E q \in SameHashCommon(CurrentPages(nb), CurrentPages(nb)') :
                   Before(CurrentPages(nb), q, pageChange'[k].page_id)
                     # Before(CurrentPages(nb)', q, pageChange'[k].page_id)
<1>1. LedgerTypeOK /\ [LedgerNext]_ledgerVars => [\A nb \in Notebooks : Real(nb)]_ledgerVars
  <2> SUFFICES ASSUME LedgerTypeOK, LedgerNext, NEW m \in Notebooks
               PROVE  Real(m)
    OBVIOUS
  <2>1. ASSUME NEW nb \in Notebooks, NEW rev \in Revisions,
               NEW snapshot \in Snapshots, ApplySnapshot(nb, rev, snapshot)
        PROVE  Real(m)
    <3> DEFINE old == CurrentPages(nb)
               new == NewPages(snapshot)
               next == CurrentPages(nb)'
               D == Diff(nb, rev, old, new)
               n == Len(pageChange)
    <3>1. IsPageMap(old) /\ IsPageMap(new)
      BY CurrentPagesIsMap, NewPagesIsMap
    <3>2. PICK batch \in Batches(D) : pageChange' = pageChange \o batch
      BY <2>1, ApplyFacts
    <3>3. batch \in Seq(Change) /\ \A i \in DOMAIN batch : batch[i] \in D
      BY <3>1, BatchIsSeq
    <3>4. pageChange \in Seq(Change)
      BY DEF LedgerTypeOK
    <3>5. /\ DOMAIN next = DOMAIN new
          /\ \A p \in DOMAIN new : /\ next[p].page_index = new[p].page_index
                                  /\ next[p].content_hash = new[p].content_hash
      BY <2>1, ApplyRows
    <3>6. \A c \in D : /\ c.notebook = nb
                       /\ c.change_type = "reorder" => c.page_id \in Reordered(old, new)
      BY <3>1, DiffRecords DEF Diff, ChangeRecord
    <3> HIDE DEF D, old, new, next
    <3>7. SameHashCommon(old, next) = SameHashCommon(old, new)
      BY <3>5 DEF SameHashCommon
    <3> SUFFICES ASSUME NEW k \in DOMAIN pageChange' \ DOMAIN pageChange,
                        pageChange'[k].notebook = m, pageChange'[k].change_type = "reorder"
                 PROVE  \E q \in SameHashCommon(CurrentPages(m), CurrentPages(m)') :
                          Before(CurrentPages(m), q, pageChange'[k].page_id)
                            # Before(CurrentPages(m)', q, pageChange'[k].page_id)
      OBVIOUS
    <3>8. k - n \in DOMAIN batch /\ pageChange'[k] = batch[k - n]
      BY <3>2, <3>3, <3>4, ExtendedLog
    <3>9. m = nb /\ pageChange'[k].page_id \in Reordered(old, new)
      BY <3>3, <3>6, <3>8
    <3>10. PICK p \in SameHashCommon(old, new) :
             /\ p = pageChange'[k].page_id
             /\ RelativePosition(old, SameHashCommon(old, new), p) #
                  RelativePosition(new, SameHashCommon(old, new), p)
      BY <3>9 DEF Reordered
    <3>11. PICK q \in SameHashCommon(old, new) : Before(old, q, p) # Before(new, q, p)
      BY <3>10, MovedPastSomePage
    <3>12. p \in DOMAIN new /\ q \in DOMAIN new
      BY DEF SameHashCommon
    <3>13. Before(next, q, p) = Before(new, q, p)
      BY <3>5, <3>12 DEF Before
    <3>14. QED
      BY <3>7, <3>9, <3>10, <3>11, <3>13 DEF old, next
  <2>2. ASSUME UNCHANGED pageChange
        PROVE  Real(m)
    BY <2>2
  <2>3. QED
    BY <2>1, <2>2 DEF LedgerNext, MarkPageOcrStatus, AdvanceAgentCursor
<1>2. QED
  BY <1>1, LedgerTypeCorrect, PTL DEF LedgerSpec, NoSpuriousReorder

=============================================================================
