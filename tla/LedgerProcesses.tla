--------------------------- MODULE LedgerProcesses ---------------------------
(***************************************************************************)
(* CloudChangeLedger used by several operating-system processes at once:   *)
(* the ingest daemon, an `ingest --once` started beside it, and the CLI    *)
(* processes of agents that acknowledge changes.                           *)
(*                                                                         *)
(* A connection of src/paia_supernote/db.py is in Python's default mode:   *)
(* SELECTs run in autocommit, and the transaction that `with connect(...)` *)
(* commits begins at the first INSERT or UPDATE.  What apply_snapshot and  *)
(* advance_agent_cursor read before they write is therefore not protected  *)
(* by the transaction, and each of these calls is several steps here.      *)
(*                                                                         *)
(*   call[p]     the call a process is in: `pc` is the next statement, the *)
(*               other fields are its local variables                      *)
(*   overlapped  (history) two calls of one kind on one notebook have been *)
(*               in progress at the same time                              *)
(*                                                                         *)
(* The last connection to close leaves the WAL behind it, so the commit is *)
(* atomic and durable; a crash, or a lock waited for longer than the busy  *)
(* timeout, ends a call before it with nothing written.                    *)
(***************************************************************************)
EXTENDS CloudChangeLedger

CONSTANTS
  Ingesters,   \* processes that apply snapshots and mark OCR results
  Clients,     \* processes that advance a cursor, ...
  AgentOf      \* ... each for this agent

ASSUME KindsOfProcesses == Ingesters \cap Clients = {}
ASSUME AgentsOfClients == AgentOf \in [Clients -> Agents]

VARIABLES call, overlapped

processVars == <<ledgerVars, call, overlapped>>

Processes == Ingesters \cup Clients

Idle == [pc |-> "idle"]

Return(p) == call' = [call EXCEPT ![p] = Idle] /\ UNCHANGED overlapped

Begin(p, record, sameKind) ==
  /\ call' = [call EXCEPT ![p] = record]
  /\ overlapped' = (overlapped \/ \E q \in sameKind :
                                    call[q] # Idle /\ call[q].nb = record.nb)

(***************************************************************************)
(* apply_snapshot: compare hashes, read the current pages, write.          *)
(***************************************************************************)

BeginApply(p, nb, rev, snapshot) ==
  /\ call[p] = Idle
  /\ IF IsNoOp(nb, snapshot)
       THEN UNCHANGED <<call, overlapped>>
       ELSE Begin(p, [pc |-> "read_pages", nb |-> nb, rev |-> rev,
                      snapshot |-> snapshot], Ingesters)
  /\ UNCHANGED ledgerVars

ReadOldPages(p) ==
  /\ call[p].pc = "read_pages"
  /\ call' = [call EXCEPT ![p] =
       [pc |-> "write", nb |-> @.nb, rev |-> @.rev, snapshot |-> @.snapshot,
        old |-> [id \in CurrentIds(@.nb) |->
                   [page_index   |-> pageSnapshot[@.nb][id].page_index,
                    content_hash |-> pageSnapshot[@.nb][id].content_hash]]]]
  /\ UNCHANGED <<ledgerVars, overlapped>>

WriteSnapshot(p) ==
  /\ call[p].pc = "write"
  /\ CommitSnapshot(call[p].nb, call[p].rev, call[p].snapshot, call[p].old)
  /\ Return(p)

MarkReady(p, nb, id) ==
  /\ call[p] = Idle
  /\ MarkPageOcrStatus(nb, id, "ready")
  /\ UNCHANGED <<call, overlapped>>

(***************************************************************************)
(* advance_agent_cursor of the read contract and of the ledger: check the  *)
(* requested change ID, read the cursor, write it.                         *)
(***************************************************************************)

\* Mutant: the requested change ID is not compared with the log.
BeginAnyAdvance(p, nb, changeId) ==
  /\ call[p] = Idle
  /\ notebookSnapshot[nb] # None
  /\ Begin(p, [pc |-> "read_cursor", nb |-> nb, id |-> changeId], Clients)
  /\ UNCHANGED ledgerVars

BeginAdvance(p, nb, changeId) ==
  /\ call[p] = Idle
  /\ notebookSnapshot[nb] # None
  /\ changeId <= LatestChangeId(nb)
  /\ Begin(p, [pc |-> "read_cursor", nb |-> nb, id |-> changeId], Clients)
  /\ UNCHANGED ledgerVars

\* Mutant: the write follows whatever cursor was read.
ReadCursorAndWrite(p) ==
  /\ call[p].pc = "read_cursor"
  /\ call' = [call EXCEPT ![p].pc = "write_cursor"]
  /\ UNCHANGED <<ledgerVars, overlapped>>

ReadCursor(p) ==
  /\ call[p].pc = "read_cursor"
  /\ IF agentCursor[AgentOf[p]][call[p].nb] >= call[p].id
       THEN Return(p)
       ELSE /\ call' = [call EXCEPT ![p].pc = "write_cursor"]
            /\ UNCHANGED overlapped
  /\ UNCHANGED ledgerVars

WriteCursor(p) ==
  /\ call[p].pc = "write_cursor"
  /\ agentCursor' = [agentCursor EXCEPT ![AgentOf[p]][call[p].nb] = call[p].id]
  /\ Return(p)
  /\ UNCHANGED <<pageChange, pageSnapshot, notebookSnapshot>>

\* A crash of the process, or "database is locked" after the busy timeout.
Abort(p) ==
  /\ call[p] # Idle
  /\ Return(p)
  /\ UNCHANGED ledgerVars

ProcessInit == LedgerInit /\ call = [p \in Processes |-> Idle] /\ overlapped = FALSE

ProcessNext ==
  \/ \E p \in Ingesters :
       \/ \E nb \in Notebooks, rev \in Revisions, snapshot \in Snapshots :
            BeginApply(p, nb, rev, snapshot)
       \/ ReadOldPages(p)
       \/ Len(pageChange) < MaxChanges /\ WriteSnapshot(p)
       \/ \E nb \in Notebooks, id \in PageIds : MarkReady(p, nb, id)
  \/ \E p \in Clients :
       \/ \E nb \in Notebooks, id \in 1..(Len(pageChange) + 1) : BeginAdvance(p, nb, id)
       \/ ReadCursor(p)
       \/ WriteCursor(p)
  \/ \E p \in Processes : Abort(p)

ProcessSpec == ProcessInit /\ [][ProcessNext]_processVars

(***************************************************************************)
(* Properties.                                                             *)
(***************************************************************************)

\* Every local variable of a call in progress has a value the code can read.
ProcessTypeOK ==
  /\ LedgerTypeOK
  /\ \A p \in Ingesters :
       \/ call[p] = Idle
       \/ /\ call[p].pc \in {"read_pages", "write"}
          /\ call[p].snapshot \in Snapshots
          /\ call[p].pc = "write" => DOMAIN call[p].old \subseteq PageIds
  /\ \A p \in Clients :
       \/ call[p] = Idle
       \/ /\ call[p].pc \in {"read_cursor", "write_cursor"}
          /\ call[p].id \in Nat

\* The unprotected reads do no harm by themselves: as long as no two calls of
\* one kind overlap on a notebook, the statements of each call take effect
\* together, at its commit, as the one-step operations of CloudChangeLedger.
ImplementsLedger == LedgerInit /\ [][overlapped' \/ LedgerNext]_ledgerVars

\* Whatever the processes do to each other, the last committed snapshot is
\* served complete: each of its pages is current, with its hash and position.
CommittedPagesAreServed ==
  \A nb \in Notebooks :
    notebookSnapshot[nb] # None =>
      LET new == NewPages(notebookSnapshot[nb].notebook_hash)
      IN  \A id \in DOMAIN new :
            /\ id \in CurrentIds(nb)
            /\ pageSnapshot[nb][id].content_hash = new[id].content_hash
            /\ pageSnapshot[nb][id].page_index = new[id].page_index

=============================================================================
