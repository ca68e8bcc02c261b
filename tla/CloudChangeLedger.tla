-------------------------- MODULE CloudChangeLedger --------------------------
(***************************************************************************)
(* The durable change ledger of src/paia_supernote/cloud_change_ledger.py: *)
(* four SQLite tables that hold the last known pages of each allowlisted   *)
(* notebook, the page changes observed so far and one cursor per agent and *)
(* notebook.                                                               *)
(*                                                                         *)
(*   pageChange        page_change rows; the position is the change_id     *)
(*   pageSnapshot      page_snapshot rows, one per notebook and page ID    *)
(*   notebookSnapshot  the notebook_snapshot row with status 'current'     *)
(*                     (superseded rows are never read again)              *)
(*   agentCursor       agent_cursor rows; a missing row reads as 0         *)
(*                                                                         *)
(* apply_snapshot is synchronous code in a single-threaded event loop and  *)
(* commits one transaction, so within a process it is one step.  What two  *)
(* processes do to each other is the subject of LedgerProcesses.           *)
(*                                                                         *)
(* Abstractions: a content hash is an element of Hashes; a notebook hash   *)
(* is the very list of page revisions it digests; timestamps, page_count   *)
(* and the first/last-seen columns, which nothing reads back, are left out.*)
(***************************************************************************)
EXTENDS Naturals, Sequences, FiniteSets, Functions

CONSTANTS
  Notebooks,   \* allowlisted notebooks
  PageIds,     \* stable page IDs, numbered in the order sorted() gives them
  Hashes,      \* page content hashes
  Revisions,   \* cloud revision labels
  Snapshots,   \* page-revision lists a parsed notebook can yield
  Agents,
  None,        \* SQL NULL, and "no current snapshot row"
  MaxChanges   \* bound: no snapshot is applied once the log is this long

PageRevision == [page_id: PageIds, page_index: Nat, content_hash: Hashes]

ASSUME PageIdsAreOrdered == PageIds \subseteq Nat /\ IsFiniteSet(PageIds)
ASSUME NoneIsNoValue == None \notin Hashes /\ None \notin Nat
ASSUME SnapshotsAreLists == Snapshots \subseteq Seq(PageRevision)
ASSUME NoneIsNoRow == None \notin [revision: Revisions, notebook_hash: Snapshots]

VARIABLES pageChange, pageSnapshot, notebookSnapshot, agentCursor

ledgerVars == <<pageChange, pageSnapshot, notebookSnapshot, agentCursor>>

ChangeTypes == {"added", "removed", "updated", "reorder"}
OcrStatuses == {"pending", "ready"}

Change == [notebook: Notebooks, revision: Revisions, page_id: PageIds,
           change_type: ChangeTypes,
           old_hash: Hashes \cup {None}, new_hash: Hashes \cup {None},
           old_index: Nat \cup {None}, new_index: Nat \cup {None}]

PageRow == [page_index: Nat, content_hash: Hashes, removed: BOOLEAN,
            ocr_status: OcrStatuses]

NotebookRow == [revision: Revisions, notebook_hash: Snapshots]

(***************************************************************************)
(* Reading.                                                                *)
(***************************************************************************)

\* {p.page_id: p for p in snapshot.pages}: a page ID that occurs twice in a
\* notebook occurs twice in the list with the same record, and collapses.
NewPages(snapshot) ==
  [p \in {r.page_id : r \in Range(snapshot)} |->
     CHOOSE r \in Range(snapshot) : r.page_id = p]

\* Mutant: the query without its removed_at IS NULL condition.
CurrentIdsWithRemoved(nb) == DOMAIN pageSnapshot[nb]

CurrentIds(nb) ==
  {p \in DOMAIN pageSnapshot[nb] : ~pageSnapshot[nb][p].removed}

CurrentPages(nb) == [p \in CurrentIds(nb) |-> pageSnapshot[nb][p]]

LatestChangeId(nb) ==
  LET ids == {k \in DOMAIN pageChange : pageChange[k].notebook = nb}
  IN  IF ids = {} THEN 0 ELSE CHOOSE k \in ids : \A j \in ids : j <= k

ChangesSince(nb, after) ==
  {k \in DOMAIN pageChange : pageChange[k].notebook = nb /\ k > after}

(***************************************************************************)
(* The diff of two page maps.                                              *)
(***************************************************************************)

\* Rank of p among the pages of S, ordered by index.
RelativePosition(pages, S, p) ==
  Cardinality({q \in S : pages[q].page_index < pages[p].page_index})

SameHashCommon(old, new) ==
  {p \in DOMAIN old \cap DOMAIN new : old[p].content_hash = new[p].content_hash}

\* Mutant: compares the stored indexes instead of the relative order.
ReorderedByIndex(old, new) ==
  {p \in SameHashCommon(old, new) : old[p].page_index # new[p].page_index}

\* Mutant: looks for moves only while the set of pages stays the same.
ReorderedIfSamePages(old, new) ==
  {p \in SameHashCommon(old, new) :
     /\ DOMAIN old = DOMAIN new
     /\ RelativePosition(old, DOMAIN old, p) # RelativePosition(new, DOMAIN new, p)}

Reordered(old, new) ==
  LET S == SameHashCommon(old, new)
  IN  {p \in S : RelativePosition(old, S, p) # RelativePosition(new, S, p)}

Updated(old, new) == (DOMAIN old \cap DOMAIN new) \ SameHashCommon(old, new)

ChangeRecord(nb, rev, type, p, old, new) ==
  [notebook |-> nb, revision |-> rev, page_id |-> p, change_type |-> type,
   old_hash  |-> IF type = "added" THEN None ELSE old[p].content_hash,
   new_hash  |-> IF type = "removed" THEN None ELSE new[p].content_hash,
   old_index |-> IF type = "added" THEN None ELSE old[p].page_index,
   new_index |-> IF type = "removed" THEN None ELSE new[p].page_index]

Diff(nb, rev, old, new) ==
  LET changesOf(type, S) == {ChangeRecord(nb, rev, type, p, old, new) : p \in S}
  IN  changesOf("added", DOMAIN new \ DOMAIN old)
      \cup changesOf("removed", DOMAIN old \ DOMAIN new)
      \cup changesOf("updated", Updated(old, new))
      \cup changesOf("reorder", Reordered(old, new))

\* Additions first, then removals, then the common pages; by page ID in each.
Group(change) == IF change.change_type = "added" THEN 1
                 ELSE IF change.change_type = "removed" THEN 2 ELSE 3

Precedes(c, d) == \/ Group(c) < Group(d)
                  \/ Group(c) = Group(d) /\ c.page_id < d.page_id

Batches(changes) ==
  {b \in [1..Cardinality(changes) -> changes] :
     /\ Range(b) = changes
     /\ \A i, j \in DOMAIN b : i < j => Precedes(b[i], b[j])}

(***************************************************************************)
(* Writing.                                                                *)
(***************************************************************************)

\* Mutant: the OCR status of an edited page is left unset.
UpsertedPagesWithoutStatus(rows, new, removedIds) ==
  [p \in DOMAIN rows \cup DOMAIN new |->
     IF p \in DOMAIN new
       THEN [page_index   |-> new[p].page_index,
             content_hash |-> new[p].content_hash,
             removed      |-> FALSE,
             ocr_status   |-> IF p \in DOMAIN rows
                                THEN IF rows[p].content_hash = new[p].content_hash
                                       THEN rows[p].ocr_status ELSE None
                                ELSE "pending"]
       ELSE [rows[p] EXCEPT !.removed = @ \/ p \in removedIds]]

\* Mutant: the row of a page that comes back keeps its removed_at.
UpsertedPagesStillRemoved(rows, new, removedIds) ==
  [p \in DOMAIN rows \cup DOMAIN new |->
     IF p \in DOMAIN new
       THEN [page_index   |-> new[p].page_index,
             content_hash |-> new[p].content_hash,
             removed      |-> p \in DOMAIN rows /\ rows[p].removed,
             ocr_status   |-> "pending"]
       ELSE [rows[p] EXCEPT !.removed = @ \/ p \in removedIds]]

\* Mutant: a page with unchanged content is not written again.
UpsertedPagesOnContent(rows, new, removedIds) ==
  [p \in DOMAIN rows \cup DOMAIN new |->
     IF p \in DOMAIN new
       THEN IF /\ p \in DOMAIN rows
               /\ rows[p].content_hash = new[p].content_hash
              THEN [rows[p] EXCEPT !.removed = FALSE]
              ELSE [page_index   |-> new[p].page_index,
                    content_hash |-> new[p].content_hash,
                    removed      |-> FALSE,
                    ocr_status   |-> "pending"]
       ELSE [rows[p] EXCEPT !.removed = @ \/ p \in removedIds]]

\* The upsert of one snapshot into the page_snapshot rows.
UpsertedPages(rows, new, removedIds) ==
  [p \in DOMAIN rows \cup DOMAIN new |->
     IF p \in DOMAIN new
       THEN [page_index   |-> new[p].page_index,
             content_hash |-> new[p].content_hash,
             removed      |-> FALSE,
             ocr_status   |-> IF /\ p \in DOMAIN rows
                                 /\ rows[p].content_hash = new[p].content_hash
                                THEN rows[p].ocr_status ELSE "pending"]
       ELSE [rows[p] EXCEPT !.removed = @ \/ p \in removedIds]]

\* The write transaction of apply_snapshot, given the pages `old` read before.
CommitSnapshot(nb, rev, snapshot, old) ==
  LET new == NewPages(snapshot)
  IN  /\ \E batch \in Batches(Diff(nb, rev, old, new)) :
            pageChange' = pageChange \o batch
      /\ pageSnapshot' = [pageSnapshot EXCEPT
           ![nb] = UpsertedPages(@, new, DOMAIN old \ DOMAIN new)]
      /\ notebookSnapshot' = [notebookSnapshot EXCEPT
           ![nb] = [revision |-> rev, notebook_hash |-> snapshot]]
      /\ UNCHANGED agentCursor

IsNoOp(nb, snapshot) ==
  /\ notebookSnapshot[nb] # None
  /\ notebookSnapshot[nb].notebook_hash = snapshot

\* A snapshot equal to the current one changes nothing, not even the revision.
ApplySnapshot(nb, rev, snapshot) ==
  /\ ~IsNoOp(nb, snapshot)
  /\ CommitSnapshot(nb, rev, snapshot, CurrentPages(nb))

\* Matches by page ID alone; no row matches once the page is removed.
MarkPageOcrStatus(nb, p, status) ==
  /\ p \in CurrentIds(nb)
  /\ pageSnapshot' = [pageSnapshot EXCEPT ![nb][p].ocr_status = status]
  /\ UNCHANGED <<pageChange, notebookSnapshot, agentCursor>>

\* Through the read contract: the notebook is known and the cursor is not
\* beyond its last change.  The ledger applies forward moves only.
AdvanceAgentCursor(agent, nb, changeId) ==
  /\ notebookSnapshot[nb] # None
  /\ changeId <= LatestChangeId(nb)
  /\ agentCursor[agent][nb] < changeId
  /\ agentCursor' = [agentCursor EXCEPT ![agent][nb] = changeId]
  /\ UNCHANGED <<pageChange, pageSnapshot, notebookSnapshot>>

(***************************************************************************)
(* Specification.                                                          *)
(***************************************************************************)

LedgerInit ==
  /\ pageChange = <<>>
  /\ pageSnapshot = [nb \in Notebooks |-> [p \in {} |-> None]]
  /\ notebookSnapshot = [nb \in Notebooks |-> None]
  /\ agentCursor = [a \in Agents |-> [nb \in Notebooks |-> 0]]

LedgerNext ==
  \/ \E nb \in Notebooks, rev \in Revisions, snapshot \in Snapshots :
       Len(pageChange) < MaxChanges /\ ApplySnapshot(nb, rev, snapshot)
  \/ \E nb \in Notebooks, p \in PageIds : MarkPageOcrStatus(nb, p, "ready")
  \/ \E a \in Agents, nb \in Notebooks, k \in DOMAIN pageChange :
       AdvanceAgentCursor(a, nb, k)

LedgerSpec == LedgerInit /\ [][LedgerNext]_ledgerVars

(***************************************************************************)
(* Properties.                                                             *)
(***************************************************************************)

\* Every table row has the columns and values its schema allows.
LedgerTypeOK ==
  /\ pageChange \in Seq(Change)
  /\ DOMAIN pageSnapshot = Notebooks
  /\ \A nb \in Notebooks :
       /\ DOMAIN pageSnapshot[nb] \subseteq PageIds
       /\ pageSnapshot[nb] \in [DOMAIN pageSnapshot[nb] -> PageRow]
  /\ notebookSnapshot \in [Notebooks -> NotebookRow \cup {None}]
  /\ agentCursor \in [Agents -> [Notebooks -> Nat]]

SamePage(j, k) == /\ pageChange[j].notebook = pageChange[k].notebook
                  /\ pageChange[j].page_id = pageChange[k].page_id

About(k, nb, p) == pageChange[k].notebook = nb /\ pageChange[k].page_id = p

IsLastChange(k, nb, p) ==
  /\ About(k, nb, p)
  /\ \A j \in DOMAIN pageChange : About(j, nb, p) => j <= k

\* The hash a page has in a page map, None when it is not there.
HashIn(pages, p) == IF p \in DOMAIN pages THEN pages[p].content_hash ELSE None

\* An agent that replays page_change from the start ends with exactly the
\* pages and hashes the page_snapshot table holds: the last change of a page
\* carries its current hash, None once it is removed, and a page no change
\* mentions is not there.
LogReproducesPages ==
  \A nb \in Notebooks, p \in PageIds :
    \/ \E k \in DOMAIN pageChange :
         /\ IsLastChange(k, nb, p)
         /\ pageChange[k].new_hash = HashIn(CurrentPages(nb), p)
    \/ /\ \A k \in DOMAIN pageChange : ~About(k, nb, p)
       /\ HashIn(CurrentPages(nb), p) = None

\* The changes of one page chain: each starts from the hash the previous one
\* left (nothing before the first and after a removal), so a consumer that
\* resumes from any cursor never meets a change it cannot apply.
ChangesChain ==
  \A k \in DOMAIN pageChange :
    LET earlier == {j \in DOMAIN pageChange : j < k /\ SamePage(j, k)}
    IN  IF earlier = {}
          THEN pageChange[k].old_hash = None
          ELSE \E j \in earlier :
                 /\ \A i \in earlier : i <= j
                 /\ pageChange[k].old_hash = pageChange[j].new_hash

\* The two tables agree: the pages a reader is served are the pages of the
\* revision the write guard compares with, at the same positions.
PagesMatchRevision ==
  \A nb \in Notebooks :
    IF notebookSnapshot[nb] = None
      THEN pageSnapshot[nb] = [p \in {} |-> None]
      ELSE LET new == NewPages(notebookSnapshot[nb].notebook_hash)
           IN  /\ CurrentIds(nb) = DOMAIN new
               /\ \A p \in DOMAIN new :
                    /\ pageSnapshot[nb][p].content_hash = new[p].content_hash
                    /\ pageSnapshot[nb][p].page_index = new[p].page_index

\* A cursor never points beyond the notebook's last change.
CursorWithinLog ==
  \A a \in Agents, nb \in Notebooks : agentCursor[a][nb] <= LatestChangeId(nb)

Before(pages, p, q) == pages[p].page_index < pages[q].page_index

NewlyLogged(nb, p) ==
  \E k \in DOMAIN pageChange' \ DOMAIN pageChange :
    pageChange'[k].notebook = nb /\ pageChange'[k].page_id = p

\* An agent that polls by cursor learns of everything that happens to a
\* notebook: a page whose content or existence changes is in the log, and so
\* is one of any two pages that change places, whatever happens around them.
EveryChangeIsLogged ==
  [][\A nb \in Notebooks :
       LET old == CurrentPages(nb)
           new == CurrentPages(nb)'
       IN  /\ \A p \in PageIds : HashIn(old, p) # HashIn(new, p) => NewlyLogged(nb, p)
           /\ \A p, q \in DOMAIN old \cap DOMAIN new :
                Before(old, p, q) /\ Before(new, q, p)
                  => NewlyLogged(nb, p) \/ NewlyLogged(nb, q)]_ledgerVars

\* A reorder is reported only for a page that really changed places with an
\* unchanged page: additions, removals and edits around it produce none.
NoSpuriousReorder ==
  [][\A nb \in Notebooks :
       LET old == CurrentPages(nb)
           new == CurrentPages(nb)'
       IN  \A k \in DOMAIN pageChange' \ DOMAIN pageChange :
             /\ pageChange'[k].notebook = nb
             /\ pageChange'[k].change_type = "reorder"
             =>
               \E q \in SameHashCommon(old, new) :
                 LET p == pageChange'[k].page_id
                 IN  Before(old, q, p) # Before(new, q, p)]_ledgerVars

=============================================================================
