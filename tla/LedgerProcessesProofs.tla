------------------------ MODULE LedgerProcessesProofs ------------------------
(***************************************************************************)
(* Proofs about LedgerProcesses, for any number of ingesters and clients   *)
(* whose calls interleave in any way and may be cut short anywhere.        *)
(***************************************************************************)
EXTENDS LedgerProcesses, CloudChangeLedgerProofs

(***************************************************************************)
(* The inductive invariant.                                                *)
(***************************************************************************)

\* The local variables of apply_snapshot.
IngestCallOK(p) ==
  \/ call[p] = Idle
  \/ /\ call[p].pc \in {"read_pages", "write"}
     /\ call[p].nb \in Notebooks
     /\ call[p].rev \in Revisions
     /\ call[p].snapshot \in Snapshots
     /\ call[p].pc = "write" => IsPageMap(call[p].old)

\* The local variables of advance_agent_cursor.  What was checked of the
\* requested change stays true: notebooks are not forgotten, the log grows.
AdvanceCallOK(p) ==
  \/ call[p] = Idle
  \/ /\ call[p] \in [pc: {"read_cursor", "write_cursor"}, nb: Notebooks, id: Nat \ {0}]
     /\ notebookSnapshot[call[p].nb] # None
     /\ call[p].id <= LatestChangeId(call[p].nb)

CallsOK == /\ \A p \in Ingesters : IngestCallOK(p)
           /\ \A p \in Clients : AdvanceCallOK(p)

ProcessInv == /\ CursorInv
              /\ DOMAIN call = Processes
              /\ CallsOK

\* Two page maps that differ at most in what a diff does not look at.
SamePages(old, pages) ==
  /\ DOMAIN old = DOMAIN pages
  /\ \A id \in DOMAIN pages : /\ old[id].page_index = pages[id].page_index
                             /\ old[id].content_hash = pages[id].content_hash

OnDistinctNotebooks(kind) ==
  \A p, q \in kind :
    p # q /\ call[p] # Idle /\ call[q] # Idle => call[p].nb # call[q].nb

\* What apply_snapshot has read is still so.
IngestFresh(p) ==
  call[p] # Idle =>
    /\ ~IsNoOp(call[p].nb, call[p].snapshot)
    /\ call[p].pc = "write" => SamePages(call[p].old, CurrentPages(call[p].nb))

\* What advance_agent_cursor has read is still so.
AdvanceFresh(p) ==
  call[p].pc = "write_cursor" => agentCursor[AgentOf[p]][call[p].nb] < call[p].id

AllFresh == /\ OnDistinctNotebooks(Ingesters)
            /\ OnDistinctNotebooks(Clients)
            /\ \A p \in Ingesters : IngestFresh(p)
            /\ \A p \in Clients : AdvanceFresh(p)

\* Calls that do not overlap write on the state they read.
ReadsAreFresh == ~overlapped => AllFresh

(***************************************************************************)
(* Facts about the operators.                                              *)
(***************************************************************************)

\* A diff looks at the pages, their positions and hashes, and nothing else.
LEMMA SamePagesSameDiff ==
  ASSUME NEW old, NEW pages, SamePages(old, pages), NEW new,
         NEW nb, NEW rev
  PROVE  Diff(nb, rev, old, new) = Diff(nb, rev, pages, new)
<1>1. DOMAIN old = DOMAIN pages
  BY DEF SamePages
<1>2. SameHashCommon(old, new) = SameHashCommon(pages, new)
  BY DEF SamePages, SameHashCommon
<1>3. Updated(old, new) = Updated(pages, new)
  BY <1>1, <1>2 DEF Updated
<1>4. Reordered(old, new) = Reordered(pages, new)
  <2> DEFINE S == SameHashCommon(pages, new)
  <2>1. S \subseteq DOMAIN pages
    BY DEF SameHashCommon
  <2> HIDE DEF S
  <2>2. ASSUME NEW p \in S
        PROVE  RelativePosition(old, S, p) = RelativePosition(pages, S, p)
    <3>1. {q \in S : old[q].page_index < old[p].page_index} =
          {q \in S : pages[q].page_index < pages[p].page_index}
      BY <2>1 DEF SamePages
    <3>2. QED
      BY <3>1 DEF RelativePosition
  <2>3. QED
    BY <1>2, <2>2 DEF Reordered, S
<1>5. ASSUME NEW p, NEW type, type = "added" \/ p \in DOMAIN old
      PROVE  ChangeRecord(nb, rev, type, p, old, new) =
             ChangeRecord(nb, rev, type, p, pages, new)
  BY <1>5 DEF SamePages, ChangeRecord
<1>6. /\ DOMAIN old \ DOMAIN new \subseteq DOMAIN old
      /\ Updated(old, new) \subseteq DOMAIN old
      /\ Reordered(old, new) \subseteq DOMAIN old
  BY DEF Updated, Reordered, SameHashCommon
<1> DEFINE Of(type, S, m) == {ChangeRecord(nb, rev, type, p, m, new) : p \in S}
<1>7. ASSUME NEW type, NEW S, type = "added" \/ S \subseteq DOMAIN old
      PROVE  Of(type, S, old) = Of(type, S, pages)
  BY <1>5, <1>7
<1>8. /\ Of("added", DOMAIN new \ DOMAIN old, old) = Of("added", DOMAIN new \ DOMAIN pages, pages)
      /\ Of("removed", DOMAIN old \ DOMAIN new, old) = Of("removed", DOMAIN pages \ DOMAIN new, pages)
      /\ Of("updated", Updated(old, new), old) = Of("updated", Updated(pages, new), pages)
      /\ Of("reorder", Reordered(old, new), old) = Of("reorder", Reordered(pages, new), pages)
  BY <1>1, <1>3, <1>4, <1>6, <1>7
<1>9. QED
  BY <1>8 DEF Diff

\* The transaction of apply_snapshot, with pages read before that are still
\* the current ones, is the one-step operation.
LEMMA FreshCommitIsApply ==
  ASSUME LedgerTypeOK, NEW nb \in Notebooks, NEW rev \in Revisions,
         NEW snapshot \in Snapshots, NEW old, SamePages(old, CurrentPages(nb)),
         ~IsNoOp(nb, snapshot), CommitSnapshot(nb, rev, snapshot, old)
  PROVE  ApplySnapshot(nb, rev, snapshot)
<1> DEFINE pages == CurrentPages(nb)
           new == NewPages(snapshot)
<1>1. Diff(nb, rev, old, new) = Diff(nb, rev, pages, new)
  BY SamePagesSameDiff
<1>2. DOMAIN old \ DOMAIN new = DOMAIN pages \ DOMAIN new
  BY DEF SamePages
<1> HIDE DEF pages, new
<1>3. CommitSnapshot(nb, rev, snapshot, pages)
  BY <1>1, <1>2 DEF CommitSnapshot, new
<1>4. QED
  BY <1>3 DEF ApplySnapshot, pages

(***************************************************************************)
(* Every step preserves the invariant.                                     *)
(***************************************************************************)

\* What a call has checked is not undone by what others write.
LedgerGrows ==
  \A m \in Notebooks :
    /\ notebookSnapshot[m] # None => notebookSnapshot'[m] # None
    /\ LatestChangeId(m) \in Nat /\ LatestChangeId(m)' \in Nat
    /\ LatestChangeId(m) <= LatestChangeId(m)'

LEMMA CommitGrows ==
  ASSUME CursorInv, NEW nb \in Notebooks, NEW rev \in Revisions,
         NEW snapshot \in Snapshots, NEW old, IsPageMap(old),
         CommitSnapshot(nb, rev, snapshot, old)
  PROVE  CursorInv' /\ LedgerGrows
<1>1. LedgerTypeOK'
  BY CommitKeepsType DEF CursorInv
<1>2. /\ \A m \in Notebooks : HasLatest(m)'
      /\ \A m \in Notebooks : ChangesOf(m) \subseteq ChangesOf(m)'
  BY CommitKeepsLatest DEF CursorInv
<1>3. UNCHANGED agentCursor
  BY DEF CommitSnapshot
<1>4. CursorInv'
  BY <1>1, <1>2, <1>3, CursorsStayWithin DEF CursorInv
<1>5. ASSUME NEW m \in Notebooks
      PROVE  /\ LatestChangeId(m) \in Nat /\ LatestChangeId(m)' \in Nat
             /\ LatestChangeId(m) <= LatestChangeId(m)'
  BY <1>1, <1>2, LatestGrows DEF CursorInv
<1>6. ASSUME NEW m \in Notebooks, notebookSnapshot[m] # None
      PROVE  notebookSnapshot'[m] # None
  <2>1. notebookSnapshot' = [notebookSnapshot EXCEPT
           ![nb] = [revision |-> rev, notebook_hash |-> snapshot]]
    BY DEF CommitSnapshot
  <2>2. [revision |-> rev, notebook_hash |-> snapshot] # None
    BY NoneIsNoRow
  <2>3. DOMAIN notebookSnapshot = Notebooks
    BY DEF CursorInv, LedgerTypeOK
  <2>4. QED
    BY <1>6, <2>1, <2>2, <2>3
<1>7. QED
  BY <1>4, <1>5, <1>6 DEF LedgerGrows

LEMMA QuietLedgerGrows ==
  ASSUME CursorInv, UNCHANGED <<pageChange, notebookSnapshot>>
  PROVE  LedgerGrows
<1>1. ASSUME NEW m \in Notebooks
      PROVE  LatestChangeId(m) \in Nat /\ LatestChangeId(m)' = LatestChangeId(m)
  <2>1. LatestChangeId(m) \in Nat
    BY LatestIsInLog DEF CursorInv
  <2>2. QED
    BY <2>1 DEF LatestChangeId
<1>2. QED
  BY <1>1 DEF LedgerGrows

\* What a call that stays where it is has checked still holds.
LEMMA CallStays ==
  ASSUME ProcessInv, LedgerGrows, NEW q \in Processes, call'[q] = call[q]
  PROVE  /\ q \in Ingesters => IngestCallOK(q)'
         /\ q \in Clients => AdvanceCallOK(q)'
<1>1. ASSUME q \in Ingesters
      PROVE  IngestCallOK(q)'
  BY <1>1 DEF ProcessInv, CallsOK, IngestCallOK, Idle
<1>2. ASSUME q \in Clients
      PROVE  AdvanceCallOK(q)'
  <2>1. AdvanceCallOK(q)
    BY <1>2 DEF ProcessInv, CallsOK
  <2>2. CASE call[q] = Idle
    BY <2>2 DEF AdvanceCallOK
  <2>3. CASE call[q] # Idle
    <3>1. /\ call[q] \in [pc: {"read_cursor", "write_cursor"}, nb: Notebooks, id: Nat \ {0}]
          /\ notebookSnapshot[call[q].nb] # None
          /\ call[q].id <= LatestChangeId(call[q].nb)
      BY <2>1, <2>3 DEF AdvanceCallOK
    <3>2. PICK m \in Notebooks : m = call[q].nb
      BY <3>1
    <3>3. /\ notebookSnapshot'[m] # None
          /\ LatestChangeId(m) \in Nat /\ LatestChangeId(m)' \in Nat
          /\ LatestChangeId(m) <= LatestChangeId(m)'
      BY <3>1, <3>2 DEF LedgerGrows
    <3>4. call[q].id \in Nat
      BY <3>1
    <3>5. call[q].id <= LatestChangeId(m)'
      BY <3>1, <3>2, <3>3, <3>4
    <3>6. (call[q].id <= LatestChangeId(call[q].nb))'
      BY <3>2, <3>5
    <3>7. QED
      BY <3>1, <3>2, <3>3, <3>6 DEF AdvanceCallOK
  <2>4. QED
    BY <2>2, <2>3
<1>3. QED
  BY <1>1, <1>2

LEMMA SameCalls ==
  ASSUME ProcessInv, CursorInv', LedgerGrows, UNCHANGED call
  PROVE  ProcessInv'
BY CallStays DEF ProcessInv, CallsOK, Processes

\* One process goes on in its call; the others stay where they are.
LEMMA OneCallMoves ==
  ASSUME ProcessInv, CursorInv', LedgerGrows, NEW p \in Processes, NEW next,
         call' = [call EXCEPT ![p] = next],
         p \in Ingesters => IngestCallOK(p)', p \in Clients => AdvanceCallOK(p)'
  PROVE  ProcessInv'
<1>1. DOMAIN call' = Processes /\ \A q \in Processes \ {p} : call'[q] = call[q]
  BY DEF ProcessInv
<1>2. /\ \A q \in Ingesters \ {p} : IngestCallOK(q)'
      /\ \A q \in Clients \ {p} : AdvanceCallOK(q)'
  BY <1>1, CallStays DEF Processes
<1>3. QED
  BY <1>1, <1>2 DEF ProcessInv, CallsOK

LEMMA ReturnKeepsCalls ==
  ASSUME ProcessInv, CursorInv', LedgerGrows, NEW p \in Processes, Return(p)
  PROVE  ProcessInv'
<1>1. call'[p] = Idle /\ call' = [call EXCEPT ![p] = Idle]
  BY DEF Return, ProcessInv
<1>2. IngestCallOK(p)' /\ AdvanceCallOK(p)'
  BY <1>1 DEF IngestCallOK, AdvanceCallOK
<1>3. QED
  BY <1>1, <1>2, OneCallMoves

\* A call that only reads, or begins, leaves the ledger alone.
LEMMA QuietLedgerInv ==
  ASSUME CursorInv, UNCHANGED ledgerVars
  PROVE  CursorInv' /\ LedgerGrows
<1>1. UNCHANGED <<pageChange, pageSnapshot, notebookSnapshot, agentCursor>>
  BY DEF ledgerVars
<1>2. LedgerTypeOK'
  BY <1>1 DEF CursorInv, LedgerTypeOK
<1>3. \A m \in Notebooks : HasLatest(m)' /\ LatestChangeId(m)' = LatestChangeId(m)
  BY <1>1 DEF CursorInv, HasLatest, ChangesOf, LatestChangeId
<1>4. CursorInv'
  BY <1>1, <1>2, <1>3 DEF CursorInv, CursorWithinLog
<1>5. QED
  BY <1>1, <1>4, QuietLedgerGrows

\* The pages read_pages has read, by what the code keeps of them.
LEMMA OldPagesAreMap ==
  ASSUME LedgerTypeOK, NEW nb \in Notebooks
  PROVE  LET old == [id \in CurrentIds(nb) |->
                       [page_index   |-> pageSnapshot[nb][id].page_index,
                        content_hash |-> pageSnapshot[nb][id].content_hash]]
         IN  IsPageMap(old) /\ SamePages(old, CurrentPages(nb))
<1>1. IsPageMap(CurrentPages(nb)) /\ DOMAIN CurrentPages(nb) = CurrentIds(nb)
  BY CurrentPagesIsMap
<1>2. \A id \in CurrentIds(nb) : CurrentPages(nb)[id] = pageSnapshot[nb][id]
  BY DEF CurrentPages
<1>3. QED
  BY <1>1, <1>2 DEF IsPageMap, SamePages

\* The local variables of a call at each of its statements.
LEMMA IngestCallFields ==
  ASSUME ProcessInv, NEW p \in Ingesters, call[p].pc \in {"read_pages", "write"}
  PROVE  /\ call[p].nb \in Notebooks /\ call[p].rev \in Revisions
         /\ call[p].snapshot \in Snapshots
         /\ call[p].pc = "write" => IsPageMap(call[p].old)
<1>1. call[p] # Idle
  BY DEF Idle
<1>2. QED
  BY <1>1 DEF ProcessInv, CallsOK, IngestCallOK

LEMMA AdvanceCallFields ==
  ASSUME ProcessInv, NEW p \in Clients, call[p].pc \in {"read_cursor", "write_cursor"}
  PROVE  /\ call[p] \in [pc: {"read_cursor", "write_cursor"}, nb: Notebooks,
                         id: Nat \ {0}]
         /\ notebookSnapshot[call[p].nb] # None
         /\ call[p].id <= LatestChangeId(call[p].nb)
<1>1. call[p] # Idle
  BY DEF Idle
<1>2. QED
  BY <1>1 DEF ProcessInv, CallsOK, AdvanceCallOK

\* A cursor that is set to a change within the log.
LEMMA CursorWriteKeepsInv ==
  ASSUME CursorInv, NEW a \in Agents, NEW nb \in Notebooks, NEW id \in Nat,
         id <= LatestChangeId(nb),
         agentCursor' = [agentCursor EXCEPT ![a][nb] = id],
         UNCHANGED <<pageChange, pageSnapshot, notebookSnapshot>>
  PROVE  CursorInv'
<1>1. LedgerTypeOK'
  BY DEF CursorInv, LedgerTypeOK
<1>2. \A m \in Notebooks : HasLatest(m)' /\ LatestChangeId(m)' = LatestChangeId(m)
  BY DEF CursorInv, HasLatest, ChangesOf, LatestChangeId
<1>3. \A b \in Agents, m \in Notebooks :
        \/ agentCursor'[b][m] = agentCursor[b][m]
        \/ m = nb /\ agentCursor'[b][m] = id
  BY DEF CursorInv, LedgerTypeOK
<1>4. CursorWithinLog'
  BY <1>2, <1>3 DEF CursorInv, CursorWithinLog
<1>5. QED
  BY <1>1, <1>2, <1>4 DEF CursorInv

\* The invariant holds in every reachable state.
LEMMA ProcessInvariant == ProcessSpec => []ProcessInv
<1>1. ProcessInit => ProcessInv
  <2> SUFFICES ASSUME ProcessInit
               PROVE  ProcessInv
    OBVIOUS
  <2>1. CursorInv
    BY LedgerStartsWithin DEF ProcessInit
  <2>2. DOMAIN call = Processes /\ \A p \in Processes : call[p] = Idle
    BY DEF ProcessInit
  <2>3. QED
    BY <2>1, <2>2 DEF ProcessInv, CallsOK, IngestCallOK, AdvanceCallOK, Processes
<1>2. ProcessInv /\ [ProcessNext]_processVars => ProcessInv'
  <2> SUFFICES ASSUME ProcessInv, [ProcessNext]_processVars
               PROVE  ProcessInv'
    OBVIOUS
  <2>1. ASSUME NEW p \in Ingesters, NEW nb \in Notebooks, NEW rev \in Revisions,
               NEW snapshot \in Snapshots, BeginApply(p, nb, rev, snapshot)
        PROVE  ProcessInv'
    <3>1. CursorInv' /\ LedgerGrows
      BY <2>1, QuietLedgerInv DEF ProcessInv, BeginApply
    <3>2. CASE UNCHANGED call
      BY <2>1, <3>1, <3>2, SameCalls
    <3> DEFINE next == [pc |-> "read_pages", nb |-> nb, rev |-> rev,
                        snapshot |-> snapshot]
    <3>3. CASE call' = [call EXCEPT ![p] = next]
      <4>1. call'[p] = next
        BY <3>3 DEF ProcessInv, Processes
      <4>2. IngestCallOK(p)'
        BY <4>1 DEF IngestCallOK
      <4> HIDE DEF next
      <4>3. QED
        BY <3>1, <3>3, <4>2, OneCallMoves, KindsOfProcesses DEF Processes
    <3>4. QED
      BY <2>1, <3>2, <3>3 DEF BeginApply, Begin
  <2>2. ASSUME NEW p \in Ingesters, ReadOldPages(p)
        PROVE  ProcessInv'
    <3>1. CursorInv' /\ LedgerGrows
      BY <2>2, QuietLedgerInv DEF ProcessInv, ReadOldPages
    <3> DEFINE old == [id \in CurrentIds(call[p].nb) |->
                   [page_index   |-> pageSnapshot[call[p].nb][id].page_index,
                    content_hash |-> pageSnapshot[call[p].nb][id].content_hash]]
               next == [pc |-> "write", nb |-> call[p].nb, rev |-> call[p].rev,
                        snapshot |-> call[p].snapshot, old |-> old]
    <3>2. /\ call[p].nb \in Notebooks /\ call[p].rev \in Revisions
          /\ call[p].snapshot \in Snapshots
      BY <2>2, IngestCallFields DEF ReadOldPages
    <3>3. IsPageMap(old)
      BY <3>2, OldPagesAreMap DEF ProcessInv, CursorInv
    <3> HIDE DEF old
    <3>4. call' = [call EXCEPT ![p] = next] /\ call'[p] = next
      BY <2>2 DEF ReadOldPages, ProcessInv, Processes, old
    <3>5. IngestCallOK(p)'
      BY <3>2, <3>3, <3>4 DEF IngestCallOK
    <3> HIDE DEF next
    <3>6. QED
      BY <3>1, <3>4, <3>5, OneCallMoves, KindsOfProcesses DEF Processes
  <2>3. ASSUME NEW p \in Ingesters, WriteSnapshot(p)
        PROVE  ProcessInv'
    <3>1. /\ call[p].nb \in Notebooks /\ call[p].rev \in Revisions
          /\ call[p].snapshot \in Snapshots /\ IsPageMap(call[p].old)
      BY <2>3, IngestCallFields DEF WriteSnapshot
    <3>2. CursorInv' /\ LedgerGrows
      BY <2>3, <3>1, CommitGrows DEF ProcessInv, WriteSnapshot
    <3>3. QED
      BY <2>3, <3>2, ReturnKeepsCalls DEF WriteSnapshot, Processes
  <2>4. ASSUME NEW p \in Ingesters, NEW nb \in Notebooks, NEW id \in PageIds,
               MarkReady(p, nb, id)
        PROVE  ProcessInv'
    <3>1. MarkPageOcrStatus(nb, id, "ready") /\ UNCHANGED call
      BY <2>4 DEF MarkReady
    <3>2. LedgerTypeOK' /\ UNCHANGED <<pageChange, notebookSnapshot, agentCursor>>
      BY <3>1, MarkKeepsType DEF ProcessInv, CursorInv, MarkPageOcrStatus
    <3>3. CursorInv'
      BY <3>2 DEF ProcessInv, CursorInv, HasLatest, ChangesOf, CursorWithinLog,
                  LatestChangeId
    <3>4. QED
      BY <3>1, <3>2, <3>3, QuietLedgerGrows, SameCalls DEF ProcessInv
  <2>5. ASSUME NEW p \in Clients, NEW nb \in Notebooks,
               NEW id \in 1..(Len(pageChange) + 1), BeginAdvance(p, nb, id)
        PROVE  ProcessInv'
    <3>1. CursorInv' /\ LedgerGrows
      BY <2>5, QuietLedgerInv DEF ProcessInv, BeginAdvance
    <3> DEFINE next == [pc |-> "read_cursor", nb |-> nb, id |-> id]
    <3>2. call' = [call EXCEPT ![p] = next] /\ call'[p] = next
      BY <2>5 DEF BeginAdvance, Begin, ProcessInv, Processes
    <3>3. id \in Nat \ {0}
      BY DEF ProcessInv, CursorInv, LedgerTypeOK
    <3>4. notebookSnapshot'[nb] # None /\ id <= LatestChangeId(nb)'
      BY <2>5, <3>1, <3>3 DEF BeginAdvance, LedgerGrows
    <3>5. AdvanceCallOK(p)'
      BY <3>2, <3>3, <3>4 DEF AdvanceCallOK
    <3> HIDE DEF next
    <3>6. QED
      BY <3>1, <3>2, <3>5, OneCallMoves, KindsOfProcesses DEF Processes
  <2>6. ASSUME NEW p \in Clients, ReadCursor(p)
        PROVE  ProcessInv'
    <3>1. CursorInv' /\ LedgerGrows
      BY <2>6, QuietLedgerInv DEF ProcessInv, ReadCursor
    <3>2. CASE Return(p)
      BY <3>1, <3>2, ReturnKeepsCalls DEF Processes
    <3> DEFINE next == [call[p] EXCEPT !.pc = "write_cursor"]
    <3>3. CASE call' = [call EXCEPT ![p] = next]
      <4>1. /\ call[p] \in [pc: {"read_cursor", "write_cursor"}, nb: Notebooks,
                            id: Nat \ {0}]
            /\ notebookSnapshot[call[p].nb] # None
            /\ call[p].id <= LatestChangeId(call[p].nb)
        BY <2>6, AdvanceCallFields DEF ReadCursor
      <4>2. /\ next \in [pc: {"read_cursor", "write_cursor"}, nb: Notebooks,
                         id: Nat \ {0}]
            /\ next.nb = call[p].nb /\ next.id = call[p].id
        BY <4>1
      <4> HIDE DEF next
      <4>3. call'[p] = next
        BY <3>3 DEF ProcessInv, Processes
      <4>4. /\ notebookSnapshot' = notebookSnapshot
            /\ \A m : LatestChangeId(m)' = LatestChangeId(m)
        BY <2>6 DEF ReadCursor, ledgerVars, LatestChangeId
      <4>5. AdvanceCallOK(p)'
        BY <4>1, <4>2, <4>3, <4>4 DEF AdvanceCallOK
      <4>6. QED
        BY <3>1, <3>3, <4>5, OneCallMoves, KindsOfProcesses DEF Processes
    <3>4. QED
      BY <2>6, <3>2, <3>3 DEF ReadCursor
  <2>7. ASSUME NEW p \in Clients, WriteCursor(p)
        PROVE  ProcessInv'
    <3>1. /\ call[p] \in [pc: {"read_cursor", "write_cursor"}, nb: Notebooks,
                          id: Nat \ {0}]
          /\ call[p].id <= LatestChangeId(call[p].nb)
      BY <2>7, AdvanceCallFields DEF WriteCursor
    <3>2. AgentOf[p] \in Agents
      BY AgentsOfClients
    <3> DEFINE a == AgentOf[p]
               nb == call[p].nb
               id == call[p].id
    <3>3. nb \in Notebooks /\ id \in Nat /\ a \in Agents
      BY <3>1, <3>2
    <3>4. agentCursor' = [agentCursor EXCEPT ![a][nb] = id]
      BY <2>7 DEF WriteCursor
    <3>5. id <= LatestChangeId(nb)
      BY <3>1
    <3>6. UNCHANGED <<pageChange, pageSnapshot, notebookSnapshot>>
      BY <2>7 DEF WriteCursor
    <3> HIDE DEF a, nb, id
    <3>7. CursorInv'
      BY <3>3, <3>4, <3>5, <3>6, CursorWriteKeepsInv DEF ProcessInv
    <3>8. LedgerGrows
      BY <3>6, QuietLedgerGrows DEF ProcessInv
    <3>9. QED
      BY <2>7, <3>7, <3>8, ReturnKeepsCalls DEF WriteCursor, Processes
  <2>8. ASSUME NEW p \in Processes, Abort(p)
        PROVE  ProcessInv'
    BY <2>8, QuietLedgerInv, ReturnKeepsCalls DEF Abort, ProcessInv
  <2>9. CASE UNCHANGED processVars
    BY <2>9, QuietLedgerInv, SameCalls DEF processVars, ProcessInv
  <2>10. QED
    BY <2>1, <2>2, <2>3, <2>4, <2>5, <2>6, <2>7, <2>8, <2>9 DEF ProcessNext
<1>3. QED
  BY <1>1, <1>2, PTL DEF ProcessSpec

\* A call never works on a notebook, a revision or a page the tables cannot
\* hold, whatever was committed since it began.
THEOREM ProcessTypeCorrect == ProcessSpec => []ProcessTypeOK
<1>1. ProcessInv => ProcessTypeOK
  <2> SUFFICES ASSUME ProcessInv
               PROVE  ProcessTypeOK
    OBVIOUS
  <2>1. LedgerTypeOK
    BY DEF ProcessInv, CursorInv
  <2>2. ASSUME NEW p \in Ingesters, call[p] # Idle
        PROVE  /\ call[p].pc \in {"read_pages", "write"}
               /\ call[p].snapshot \in Snapshots
               /\ call[p].pc = "write" => DOMAIN call[p].old \subseteq PageIds
    BY <2>2 DEF ProcessInv, CallsOK, IngestCallOK, IsPageMap
  <2>3. ASSUME NEW p \in Clients, call[p] # Idle
        PROVE  call[p].pc \in {"read_cursor", "write_cursor"} /\ call[p].id \in Nat
    BY <2>3 DEF ProcessInv, CallsOK, AdvanceCallOK
  <2>4. QED
    BY <2>1, <2>2, <2>3 DEF ProcessTypeOK
<1>2. QED
  BY <1>1, ProcessInvariant, PTL

\* advance_agent_cursor checks the requested change in one statement and writes
\* it in another.  No order of the calls of any processes leaves a cursor
\* beyond the last change of its notebook.
THEOREM InterleavedCursorsAreWithinLog == ProcessSpec => []CursorWithinLog
<1>1. ProcessInv => CursorWithinLog
  BY DEF ProcessInv, CursorInv
<1>2. QED
  BY <1>1, ProcessInvariant, PTL

(***************************************************************************)
(* A committed snapshot is served complete.                                *)
(***************************************************************************)

LEMMA CommitServes ==
  ASSUME ProcessInv, CommittedPagesAreServed, NEW p \in Ingesters, WriteSnapshot(p)
  PROVE  CommittedPagesAreServed'
<1>1. /\ call[p].nb \in Notebooks /\ call[p].snapshot \in Snapshots
      /\ LedgerTypeOK
  BY IngestCallFields DEF WriteSnapshot, ProcessInv, CursorInv
<1> DEFINE nb == call[p].nb
           new == NewPages(call[p].snapshot)
           rows == UpsertedPages(pageSnapshot[nb], new, DOMAIN call[p].old \ DOMAIN new)
           row == [revision |-> call[p].rev, notebook_hash |-> call[p].snapshot]
<1>2. IsPageMap(new)
  BY <1>1, NewPagesIsMap
<1>3. /\ pageSnapshot' = [pageSnapshot EXCEPT ![nb] = rows]
      /\ notebookSnapshot' = [notebookSnapshot EXCEPT ![nb] = row]
  BY DEF WriteSnapshot, CommitSnapshot
<1>4. AreRowsWith(rows, new)
  BY <1>1, <1>2, UpsertedTypes
<1>5. row.notebook_hash = call[p].snapshot
  OBVIOUS
<1>6. nb \in Notebooks /\ DOMAIN pageSnapshot = Notebooks /\ DOMAIN notebookSnapshot = Notebooks
  BY <1>1 DEF LedgerTypeOK
<1> SUFFICES ASSUME NEW m \in Notebooks, notebookSnapshot'[m] # None,
                    NEW id \in DOMAIN NewPages(notebookSnapshot'[m].notebook_hash)
             PROVE  LET pages == NewPages(notebookSnapshot'[m].notebook_hash)
                    IN  /\ id \in CurrentIds(m)'
                        /\ pageSnapshot'[m][id].content_hash = pages[id].content_hash
                        /\ pageSnapshot'[m][id].page_index = pages[id].page_index
  BY DEF CommittedPagesAreServed, NewPages
<1> HIDE DEF rows, row, nb
<1>7. CASE m = nb
  <2>1. pageSnapshot'[m] = rows /\ notebookSnapshot'[m] = row
    BY <1>3, <1>6, <1>7
  <2>2. NewPages(notebookSnapshot'[m].notebook_hash) = new
    BY <1>5, <2>1
  <2> HIDE DEF new
  <2>3. id \in DOMAIN new /\ CurrentIds(m)' = {q \in DOMAIN rows : ~rows[q].removed}
    BY <2>1, <2>2 DEF CurrentIds
  <2>4. QED
    BY <1>4, <2>1, <2>2, <2>3 DEF AreRowsWith
<1>8. CASE m # nb
  <2>1. pageSnapshot'[m] = pageSnapshot[m] /\ notebookSnapshot'[m] = notebookSnapshot[m]
    BY <1>3, <1>6, <1>8
  <2>2. CurrentIds(m)' = CurrentIds(m)
    BY <2>1 DEF CurrentIds
  <2>3. QED
    BY <2>1, <2>2 DEF CommittedPagesAreServed
<1>9. QED
  BY <1>7, <1>8

\* Two ingesters that read the same old pages and commit one after the other
\* may leave removed pages behind, and log a change twice; but each page of the
\* snapshot committed last is current, at its position and with its hash.
THEOREM LastCommitIsServed == ProcessSpec => []CommittedPagesAreServed
<1>1. ProcessInit => CommittedPagesAreServed
  BY DEF ProcessInit, LedgerInit, CommittedPagesAreServed
<1>2. /\ ProcessInv
      /\ CommittedPagesAreServed
      /\ [ProcessNext]_processVars
      => CommittedPagesAreServed'
  <2> SUFFICES ASSUME ProcessInv, CommittedPagesAreServed, [ProcessNext]_processVars
               PROVE  CommittedPagesAreServed'
    OBVIOUS
  <2>1. CASE UNCHANGED <<pageSnapshot, notebookSnapshot>>
    <3>1. \A m \in Notebooks : CurrentIds(m)' = CurrentIds(m)
      BY <2>1 DEF CurrentIds
    <3>2. QED
      BY <2>1, <3>1 DEF CommittedPagesAreServed
  <2>2. ASSUME NEW p \in Ingesters, WriteSnapshot(p)
        PROVE  CommittedPagesAreServed'
    BY <2>2, CommitServes
  <2>3. ASSUME NEW p \in Ingesters, NEW nb \in Notebooks, NEW id \in PageIds,
               MarkReady(p, nb, id)
        PROVE  CommittedPagesAreServed'
    <3>1. MarkPageOcrStatus(nb, id, "ready") /\ notebookSnapshot' = notebookSnapshot
      BY <2>3 DEF MarkReady, MarkPageOcrStatus
    <3>2. \A m \in Notebooks :
            /\ CurrentIds(m)' = CurrentIds(m)
            /\ \A q \in CurrentIds(m) :
                 /\ pageSnapshot'[m][q].content_hash = pageSnapshot[m][q].content_hash
                 /\ pageSnapshot'[m][q].page_index = pageSnapshot[m][q].page_index
      BY <3>1, MarkKeepsHashes DEF ProcessInv, CursorInv
    <3>3. QED
      BY <3>1, <3>2 DEF CommittedPagesAreServed
  <2>4. QED
    BY <2>1, <2>2, <2>3
    DEF ProcessNext, BeginApply, ReadOldPages, BeginAdvance, ReadCursor, WriteCursor,
        Abort, ledgerVars, processVars
<1>3. QED
  BY <1>1, <1>2, ProcessInvariant, PTL DEF ProcessSpec

(***************************************************************************)
(* Calls that do not overlap are one step each.                            *)
(***************************************************************************)

\* A notebook as apply_snapshot reads it is the same after the step.
SameForIngest(nb) ==
  /\ notebookSnapshot'[nb] = notebookSnapshot[nb]
  /\ CurrentIds(nb)' = CurrentIds(nb)
  /\ \A id \in CurrentIds(nb) :
       /\ pageSnapshot'[nb][id].page_index = pageSnapshot[nb][id].page_index
       /\ pageSnapshot'[nb][id].content_hash = pageSnapshot[nb][id].content_hash

LEMMA IngestStaysFresh ==
  ASSUME NEW q \in Ingesters, IngestFresh(q), call'[q] = call[q],
         call[q] # Idle => SameForIngest(call[q].nb)
  PROVE  IngestFresh(q)'
<1> SUFFICES ASSUME call[q] # Idle
             PROVE  /\ ~IsNoOp(call[q].nb, call[q].snapshot)'
                    /\ call[q].pc = "write" =>
                         SamePages(call[q].old, CurrentPages(call[q].nb))'
  BY DEF IngestFresh, IsNoOp, SamePages, CurrentPages, CurrentIds
<1> DEFINE nb == call[q].nb
<1>1. SameForIngest(nb) /\ nb = call'[q].nb
  OBVIOUS
<1>2. ~IsNoOp(nb, call[q].snapshot)'
  BY <1>1 DEF IngestFresh, IsNoOp, SameForIngest
<1>3. ASSUME call[q].pc = "write"
      PROVE  SamePages(call[q].old, CurrentPages(nb))'
  <2>1. SamePages(call[q].old, CurrentPages(nb))
    BY <1>3 DEF IngestFresh
  <2>2. QED
    BY <1>1, <2>1 DEF SamePages, SameForIngest, CurrentPages
<1>4. QED
  BY <1>2, <1>3

LEMMA UnchangedForIngest ==
  ASSUME NEW nb, notebookSnapshot'[nb] = notebookSnapshot[nb],
         pageSnapshot'[nb] = pageSnapshot[nb]
  PROVE  SameForIngest(nb)
BY DEF SameForIngest, CurrentIds

\* A process that goes on with its notebook, or returns, meets no other call.
LEMMA DistinctStays ==
  ASSUME NEW kind \in SUBSET Processes, DOMAIN call = Processes,
         OnDistinctNotebooks(kind), NEW p \in Processes, NEW next,
         call' = [call EXCEPT ![p] = next],
         next = Idle \/ (call[p] # Idle /\ next.nb = call[p].nb)
  PROVE  OnDistinctNotebooks(kind)'
<1>1. call'[p] = next /\ \A q \in kind \ {p} : call'[q] = call[q]
  OBVIOUS
<1>2. QED
  BY <1>1 DEF OnDistinctNotebooks

\* So does one that begins on a notebook no call of its kind works on, and a
\* process of the other kind.
LEMMA DistinctBegins ==
  ASSUME NEW kind \in SUBSET Processes, DOMAIN call = Processes,
         OnDistinctNotebooks(kind), NEW p \in Processes, NEW next,
         call' = [call EXCEPT ![p] = next],
         p \in kind => \A q \in kind : call[q] # Idle => call[q].nb # next.nb
  PROVE  OnDistinctNotebooks(kind)'
<1>1. call'[p] = next /\ \A q \in kind \ {p} : call'[q] = call[q]
  OBVIOUS
<1>2. QED
  BY <1>1 DEF OnDistinctNotebooks

LEMMA QuietCallsStayFresh ==
  ASSUME AllFresh, UNCHANGED <<call, agentCursor>>,
         \A nb \in Notebooks : SameForIngest(nb), ProcessInv
  PROVE  AllFresh'
<1>1. OnDistinctNotebooks(Ingesters)' /\ OnDistinctNotebooks(Clients)'
  BY DEF AllFresh, OnDistinctNotebooks
<1>2. ASSUME NEW q \in Ingesters
      PROVE  IngestFresh(q)'
  <2>1. call[q] # Idle => call[q].nb \in Notebooks
    BY DEF ProcessInv, CallsOK, IngestCallOK
  <2>2. QED
    BY <2>1, IngestStaysFresh DEF AllFresh
<1>3. \A q \in Clients : AdvanceFresh(q)'
  BY DEF AllFresh, AdvanceFresh
<1>4. QED
  BY <1>1, <1>2, <1>3 DEF AllFresh

\* An ingester's step, given what the step leaves of the notebooks of others.
LEMMA IngesterStaysFresh ==
  ASSUME ProcessInv, AllFresh, NEW p \in Ingesters, NEW next,
         call' = [call EXCEPT ![p] = next], UNCHANGED agentCursor,
         OnDistinctNotebooks(Ingesters)', IngestFresh(p)',
         \A q \in Ingesters \ {p} : call[q] # Idle => SameForIngest(call[q].nb)
  PROVE  AllFresh'
<1>1. p \in Processes /\ p \notin Clients
  BY KindsOfProcesses DEF Processes
<1>2. \A q \in Processes \ {p} : call'[q] = call[q]
  BY DEF ProcessInv
<1>3. OnDistinctNotebooks(Clients)'
  BY <1>1, DistinctBegins DEF AllFresh, ProcessInv, Processes
<1>4. \A q \in Ingesters \ {p} : IngestFresh(q)'
  BY <1>2, IngestStaysFresh DEF AllFresh, Processes
<1>5. \A q \in Clients : AdvanceFresh(q)'
  BY <1>1, <1>2 DEF AllFresh, AdvanceFresh, Processes
<1>6. QED
  BY <1>3, <1>4, <1>5 DEF AllFresh

\* A client's step; it leaves what apply_snapshot reads alone.
LEMMA ClientStaysFresh ==
  ASSUME ProcessInv, AllFresh, NEW p \in Clients, NEW next,
         call' = [call EXCEPT ![p] = next], UNCHANGED <<pageSnapshot, notebookSnapshot>>,
         OnDistinctNotebooks(Clients)', AdvanceFresh(p)',
         \A q \in Clients \ {p} :
           call[q] # Idle =>
             agentCursor'[AgentOf[q]][call[q].nb] = agentCursor[AgentOf[q]][call[q].nb]
  PROVE  AllFresh'
<1>1. p \in Processes /\ p \notin Ingesters
  BY KindsOfProcesses DEF Processes
<1>2. \A q \in Processes \ {p} : call'[q] = call[q]
  BY DEF ProcessInv
<1>3. OnDistinctNotebooks(Ingesters)'
  BY <1>1, DistinctBegins DEF AllFresh, ProcessInv, Processes
<1>4. \A q \in Ingesters : IngestFresh(q)'
  BY <1>1, <1>2, IngestStaysFresh, UnchangedForIngest DEF AllFresh, Processes
<1>5. ASSUME NEW q \in Clients \ {p}
      PROVE  AdvanceFresh(q)'
  <2>1. call'[q] = call[q] /\ AdvanceFresh(q)
    BY <1>2 DEF AllFresh, Processes
  <2>2. call[q].pc = "write_cursor" => call[q] # Idle
    BY DEF Idle
  <2>3. QED
    BY <2>1, <2>2 DEF AdvanceFresh
<1>6. QED
  BY <1>3, <1>4, <1>5 DEF AllFresh

\* A call that returns leaves the others fresh, if its write, when it has made
\* one, is to its own notebook.
LEMMA IngesterReturns ==
  ASSUME ProcessInv, AllFresh, NEW p \in Ingesters, Return(p), UNCHANGED agentCursor,
         \A q \in Ingesters \ {p} : call[q] # Idle => SameForIngest(call[q].nb)
  PROVE  AllFresh'
<1>1. p \in Processes /\ Ingesters \in SUBSET Processes
  BY DEF Processes
<1>2. call' = [call EXCEPT ![p] = Idle] /\ call'[p] = Idle
  BY <1>1 DEF Return, ProcessInv
<1>3. OnDistinctNotebooks(Ingesters)'
  BY <1>1, <1>2, DistinctStays DEF AllFresh, ProcessInv
<1>4. IngestFresh(p)'
  BY <1>2 DEF IngestFresh
<1>5. QED
  BY <1>2, <1>3, <1>4, IngesterStaysFresh

LEMMA ClientReturns ==
  ASSUME ProcessInv, AllFresh, NEW p \in Clients, Return(p),
         UNCHANGED <<pageSnapshot, notebookSnapshot>>,
         \A q \in Clients \ {p} :
           call[q] # Idle =>
             agentCursor'[AgentOf[q]][call[q].nb] = agentCursor[AgentOf[q]][call[q].nb]
  PROVE  AllFresh'
<1>1. p \in Processes /\ Clients \in SUBSET Processes
  BY DEF Processes
<1>2. call' = [call EXCEPT ![p] = Idle] /\ call'[p] = Idle
  BY <1>1 DEF Return, ProcessInv
<1>3. OnDistinctNotebooks(Clients)'
  BY <1>1, <1>2, DistinctStays DEF AllFresh, ProcessInv
<1>4. AdvanceFresh(p)'
  BY <1>2 DEF AdvanceFresh, Idle
<1>5. QED
  BY <1>2, <1>3, <1>4, ClientStaysFresh

\* The calls on the notebooks that a call does not write to.
LEMMA OthersWorkElsewhere ==
  ASSUME NEW kind, OnDistinctNotebooks(kind), NEW p \in kind, call[p] # Idle
  PROVE  \A q \in kind \ {p} : call[q] # Idle => call[q].nb # call[p].nb
BY DEF OnDistinctNotebooks

LEMMA FreshnessInvariant == ProcessSpec => []ReadsAreFresh
<1>1. ProcessInit => ReadsAreFresh
  <2> SUFFICES ASSUME ProcessInit
               PROVE  AllFresh
    BY DEF ReadsAreFresh
  <2>1. \A p \in Processes : call[p] = Idle
    BY DEF ProcessInit
  <2>2. QED
    BY <2>1 DEF AllFresh, OnDistinctNotebooks, IngestFresh, AdvanceFresh, Processes, Idle
<1>2. ProcessInv /\ ReadsAreFresh /\ [ProcessNext]_processVars => ReadsAreFresh'
  <2> SUFFICES ASSUME ProcessInv, AllFresh, [ProcessNext]_processVars, ~overlapped'
               PROVE  AllFresh'
    <3>1. [ProcessNext]_processVars /\ ~overlapped' => ~overlapped
      BY DEF ProcessNext, processVars, BeginApply, ReadOldPages, WriteSnapshot, MarkReady,
             BeginAdvance, ReadCursor, WriteCursor, Abort, Begin, Return
    <3>2. QED
      BY <3>1 DEF ReadsAreFresh
  <2>1. ASSUME UNCHANGED ledgerVars
        PROVE  \A nb : SameForIngest(nb)
    BY <2>1, UnchangedForIngest DEF ledgerVars
  <2>2. ASSUME NEW p \in Ingesters, NEW nb \in Notebooks, NEW rev \in Revisions,
               NEW snapshot \in Snapshots, BeginApply(p, nb, rev, snapshot)
        PROVE  AllFresh'
    <3>1. (\A m : SameForIngest(m)) /\ UNCHANGED agentCursor
      BY <2>1, <2>2 DEF BeginApply, ledgerVars
    <3>2. CASE UNCHANGED call
      BY <3>1, <3>2, QuietCallsStayFresh
    <3> DEFINE next == [pc |-> "read_pages", nb |-> nb, rev |-> rev,
                        snapshot |-> snapshot]
    <3>3. CASE /\ ~IsNoOp(nb, snapshot)
               /\ Begin(p, next, Ingesters)
      <4>1. /\ call' = [call EXCEPT ![p] = next]
            /\ call'[p] = next
            /\ \A q \in Ingesters : call[q] # Idle => call[q].nb # next.nb
        BY <3>3 DEF Begin, ProcessInv, Processes
      <4>2. notebookSnapshot' = notebookSnapshot
        BY <2>2 DEF BeginApply, ledgerVars
      <4>3. IngestFresh(p)'
        BY <3>3, <4>1, <4>2 DEF IngestFresh, IsNoOp
      <4> HIDE DEF next
      <4>4. p \in Processes /\ Ingesters \in SUBSET Processes
        BY DEF Processes
      <4>5. OnDistinctNotebooks(Ingesters)'
        BY <4>1, <4>4, DistinctBegins DEF AllFresh, ProcessInv
      <4>6. QED
        BY <3>1, <4>1, <4>3, <4>5, IngesterStaysFresh
    <3>4. QED
      BY <2>2, <3>2, <3>3 DEF BeginApply
  <2>3. ASSUME NEW p \in Ingesters, ReadOldPages(p)
        PROVE  AllFresh'
    <3>1. (\A m : SameForIngest(m)) /\ UNCHANGED ledgerVars
      BY <2>1, <2>3 DEF ReadOldPages
    <3> DEFINE nb == call[p].nb
               old == [id \in CurrentIds(nb) |->
                   [page_index   |-> pageSnapshot[nb][id].page_index,
                    content_hash |-> pageSnapshot[nb][id].content_hash]]
               next == [pc |-> "write", nb |-> nb, rev |-> call[p].rev,
                        snapshot |-> call[p].snapshot, old |-> old]
    <3>2. nb \in Notebooks /\ call[p] # Idle
      BY <2>3, IngestCallFields DEF ReadOldPages, Idle
    <3>3. SamePages(old, CurrentPages(nb))
      BY <3>2, OldPagesAreMap DEF ProcessInv, CursorInv
    <3>4. ~IsNoOp(nb, call[p].snapshot)
      BY <3>2 DEF AllFresh, IngestFresh
    <3>5. call' = [call EXCEPT ![p] = next] /\ call'[p] = next
      BY <2>3 DEF ReadOldPages, ProcessInv, Processes
    <3> HIDE DEF old
    <3>6. IngestFresh(p)'
      <4>1. PICK m \in Notebooks : m = nb
        BY <3>2
      <4>2. /\ call'[p].nb = m /\ call'[p].old = old
            /\ call'[p].snapshot = call[p].snapshot
        BY <3>5, <4>1
      <4>3. CurrentPages(m)' = CurrentPages(m) /\ notebookSnapshot' = notebookSnapshot
        BY <3>1 DEF CurrentPages, CurrentIds, ledgerVars
      <4>4. IsNoOp(call[p].nb, call[p].snapshot)' <=> IsNoOp(m, call[p].snapshot)
        BY <4>1, <4>2, <4>3 DEF IsNoOp
      <4>5. SamePages(call[p].old, CurrentPages(call[p].nb))'
        <5>1. SamePages(old, CurrentPages(m)')
          BY <3>3, <4>1, <4>3
        <5>2. (call'[p].nb = m) /\ (CurrentPages(call[p].nb)' = CurrentPages(m)')
          BY <4>2 DEF CurrentPages, CurrentIds
        <5>3. QED
          BY <4>2, <5>1, <5>2 DEF SamePages
      <4>6. QED
        BY <3>4, <4>1, <4>4, <4>5 DEF IngestFresh
    <3>7. next.nb = call[p].nb
      OBVIOUS
    <3> HIDE DEF next
    <3>8. p \in Processes /\ Ingesters \in SUBSET Processes
      BY DEF Processes
    <3>9. OnDistinctNotebooks(Ingesters)'
      BY <3>2, <3>5, <3>7, <3>8, DistinctStays DEF AllFresh, ProcessInv
    <3>10. QED
      BY <3>1, <3>5, <3>6, <3>9, IngesterStaysFresh DEF ledgerVars
  <2>4. ASSUME NEW p \in Ingesters, WriteSnapshot(p)
        PROVE  AllFresh'
    <3>1. call[p] # Idle
      BY <2>4 DEF WriteSnapshot, Idle
    <3>2. \A m : m # call[p].nb =>
            /\ notebookSnapshot'[m] = notebookSnapshot[m]
            /\ pageSnapshot'[m] = pageSnapshot[m]
      BY <2>4 DEF WriteSnapshot, CommitSnapshot, ProcessInv, CursorInv, LedgerTypeOK
    <3>3. \A q \in Ingesters \ {p} : call[q] # Idle => SameForIngest(call[q].nb)
      BY <3>1, <3>2, OthersWorkElsewhere, UnchangedForIngest DEF AllFresh
    <3>4. UNCHANGED agentCursor
      BY <2>4 DEF WriteSnapshot, CommitSnapshot
    <3>5. QED
      BY <2>4, <3>3, <3>4, IngesterReturns DEF WriteSnapshot
  <2>5. ASSUME NEW p \in Ingesters, NEW nb \in Notebooks, NEW id \in PageIds,
               MarkReady(p, nb, id)
        PROVE  AllFresh'
    <3>1. /\ MarkPageOcrStatus(nb, id, "ready")
          /\ UNCHANGED <<notebookSnapshot, agentCursor, call>>
      BY <2>5 DEF MarkReady, MarkPageOcrStatus
    <3>2. \A m \in Notebooks : SameForIngest(m)
      BY <3>1, MarkKeepsHashes DEF ProcessInv, CursorInv, SameForIngest
    <3>3. QED
      BY <3>1, <3>2, QuietCallsStayFresh
  <2>6. ASSUME NEW p \in Clients, NEW nb \in Notebooks,
               NEW id \in 1..(Len(pageChange) + 1), BeginAdvance(p, nb, id)
        PROVE  AllFresh'
    <3> DEFINE next == [pc |-> "read_cursor", nb |-> nb, id |-> id]
    <3>1. /\ call' = [call EXCEPT ![p] = next]
          /\ call'[p] = next
          /\ \A q \in Clients : call[q] # Idle => call[q].nb # next.nb
      BY <2>6 DEF BeginAdvance, Begin, ProcessInv, Processes
    <3>2. AdvanceFresh(p)'
      BY <3>1 DEF AdvanceFresh
    <3> HIDE DEF next
    <3>3. p \in Processes /\ Clients \in SUBSET Processes
      BY DEF Processes
    <3>4. OnDistinctNotebooks(Clients)'
      BY <3>1, <3>3, DistinctBegins DEF AllFresh, ProcessInv
    <3>5. QED
      BY <2>6, <3>1, <3>2, <3>4, ClientStaysFresh DEF BeginAdvance, ledgerVars
  <2>7. ASSUME NEW p \in Clients, ReadCursor(p)
        PROVE  AllFresh'
    <3>1. UNCHANGED ledgerVars
      BY <2>7 DEF ReadCursor
    <3>2. CASE Return(p)
      BY <3>1, <3>2, ClientReturns DEF ledgerVars
    <3> DEFINE next == [call[p] EXCEPT !.pc = "write_cursor"]
    <3>3. CASE /\ ~(agentCursor[AgentOf[p]][call[p].nb] >= call[p].id)
               /\ call' = [call EXCEPT ![p] = next]
      <4>1. /\ call[p] \in [pc: {"read_cursor", "write_cursor"}, nb: Notebooks,
                            id: Nat \ {0}]
            /\ call[p] # Idle
        BY <2>7, AdvanceCallFields DEF ReadCursor, Idle
      <4>2. next.nb = call[p].nb /\ next.id = call[p].id
        BY <4>1
      <4> HIDE DEF next
      <4>3. p \in Processes /\ Clients \in SUBSET Processes
        BY DEF Processes
      <4>4. call'[p] = next
        BY <3>3, <4>3 DEF ProcessInv
      <4>5. agentCursor[AgentOf[p]][call[p].nb] \in Nat
        BY <4>1, AgentsOfClients DEF ProcessInv, CursorInv, LedgerTypeOK
      <4>6. agentCursor[AgentOf[p]][call[p].nb] < call[p].id
        BY <3>3, <4>1, <4>5
      <4>7. AdvanceFresh(p)'
        BY <3>1, <4>2, <4>4, <4>6 DEF AdvanceFresh, ledgerVars
      <4>8. OnDistinctNotebooks(Clients)'
        BY <3>3, <4>1, <4>2, <4>3, DistinctStays DEF AllFresh, ProcessInv
      <4>9. QED
        BY <3>1, <3>3, <4>7, <4>8, ClientStaysFresh DEF ledgerVars
    <3>4. QED
      BY <2>7, <3>2, <3>3 DEF ReadCursor
  <2>8. ASSUME NEW p \in Clients, WriteCursor(p)
        PROVE  AllFresh'
    <3>1. call[p] # Idle
      BY <2>8 DEF WriteCursor, Idle
    <3>2. \A a, m : m # call[p].nb => agentCursor'[a][m] = agentCursor[a][m]
      BY <2>8 DEF WriteCursor, ProcessInv, CursorInv, LedgerTypeOK
    <3>3. \A q \in Clients \ {p} : call[q] # Idle => call[q].nb # call[p].nb
      BY <3>1, OthersWorkElsewhere DEF AllFresh
    <3>4. QED
      BY <2>8, <3>2, <3>3, ClientReturns DEF WriteCursor
  <2>9. ASSUME NEW p \in Processes, Abort(p)
        PROVE  AllFresh'
    <3>1. (\A m : SameForIngest(m)) /\ UNCHANGED ledgerVars /\ Return(p)
      BY <2>1, <2>9 DEF Abort
    <3>2. CASE p \in Ingesters
      BY <3>1, <3>2, IngesterReturns DEF ledgerVars
    <3>3. CASE p \in Clients
      BY <3>1, <3>3, ClientReturns DEF ledgerVars
    <3>4. QED
      BY <3>2, <3>3 DEF Processes
  <2>10. CASE UNCHANGED processVars
    <3>1. (\A m : SameForIngest(m)) /\ UNCHANGED <<call, agentCursor>>
      BY <2>1, <2>10 DEF processVars, ledgerVars
    <3>2. QED
      BY <3>1, QuietCallsStayFresh
  <2>11. QED
    BY <2>2, <2>3, <2>4, <2>5, <2>6, <2>7, <2>8, <2>9, <2>10 DEF ProcessNext
<1>3. QED
  BY <1>1, <1>2, ProcessInvariant, PTL DEF ProcessSpec

\* The statements of a call are not protected by a transaction, but as long as
\* no two calls of one kind overlap on a notebook, each commit is a step of the
\* one-step ledger of CloudChangeLedger and every other statement changes
\* nothing: what is proved of that ledger holds until calls first overlap.
THEOREM ProcessesImplementLedger == ProcessSpec => ImplementsLedger
<1>1. ProcessInit => LedgerInit
  BY DEF ProcessInit
<1>2. /\ ProcessInv
      /\ ReadsAreFresh
      /\ [ProcessNext]_processVars
      => [overlapped' \/ LedgerNext]_ledgerVars
  <2> SUFFICES ASSUME ProcessInv, ReadsAreFresh, ProcessNext, ~overlapped'
               PROVE  LedgerNext \/ UNCHANGED ledgerVars
    BY DEF processVars
  <2>1. AllFresh
    <3>1. ~overlapped
      BY DEF ProcessNext, BeginApply, ReadOldPages, WriteSnapshot, MarkReady,
             BeginAdvance, ReadCursor, WriteCursor, Abort, Begin, Return
    <3>2. QED
      BY <3>1 DEF ReadsAreFresh
  <2>2. ASSUME NEW p \in Ingesters, Len(pageChange) < MaxChanges, WriteSnapshot(p)
        PROVE  LedgerNext
    <3>1. /\ call[p].nb \in Notebooks /\ call[p].rev \in Revisions
          /\ call[p].snapshot \in Snapshots /\ call[p] # Idle
      BY <2>2, IngestCallFields DEF WriteSnapshot, Idle
    <3>2. /\ ~IsNoOp(call[p].nb, call[p].snapshot)
          /\ SamePages(call[p].old, CurrentPages(call[p].nb))
      BY <2>1, <2>2, <3>1 DEF AllFresh, IngestFresh, WriteSnapshot
    <3>3. ApplySnapshot(call[p].nb, call[p].rev, call[p].snapshot)
      BY <2>2, <3>1, <3>2, FreshCommitIsApply DEF WriteSnapshot, ProcessInv, CursorInv
    <3>4. QED
      BY <2>2, <3>1, <3>3 DEF LedgerNext
  <2>3. ASSUME NEW p \in Ingesters, NEW nb \in Notebooks, NEW id \in PageIds,
               MarkReady(p, nb, id)
        PROVE  LedgerNext
    BY <2>3 DEF MarkReady, LedgerNext
  <2>4. ASSUME NEW p \in Clients, WriteCursor(p)
        PROVE  LedgerNext
    <3> DEFINE a == AgentOf[p]
               nb == call[p].nb
               id == call[p].id
    <3>1. /\ nb \in Notebooks /\ id \in Nat \ {0}
          /\ notebookSnapshot[nb] # None /\ id <= LatestChangeId(nb)
      BY <2>4, AdvanceCallFields DEF WriteCursor
    <3>2. a \in Agents
      BY AgentsOfClients
    <3>3. agentCursor[a][nb] < id
      BY <2>1, <2>4 DEF AllFresh, AdvanceFresh, WriteCursor
    <3>4. AdvanceAgentCursor(a, nb, id)
      BY <2>4, <3>1, <3>3 DEF AdvanceAgentCursor, WriteCursor
    <3> HIDE DEF a, nb, id
    <3>5. id \in DOMAIN pageChange
      <4>1. LatestChangeId(nb) \in Nat /\ \A k \in 1..LatestChangeId(nb) : k \in DOMAIN pageChange
        BY <3>1, LatestIsInLog DEF ProcessInv, CursorInv
      <4>2. QED
        BY <3>1, <4>1
    <3>6. QED
      BY <3>1, <3>2, <3>4, <3>5 DEF LedgerNext
  <2>5. QED
    BY <2>2, <2>3, <2>4 DEF ProcessNext, BeginApply, ReadOldPages, BeginAdvance,
                            ReadCursor, Abort
<1>3. QED
  BY <1>1, <1>2, ProcessInvariant, FreshnessInvariant, PTL
  DEF ProcessSpec, ImplementsLedger

\* The ledger of processes whose calls have not overlapped is as faithful as
\* that of one process: replaying its log yields its pages, the changes of a
\* page chain, and the pages are those of the current revision.
THEOREM LogIsFaithfulUntilOverlap ==
  ProcessSpec => [](~overlapped => LogReproducesPages /\ ChangesChain /\ PagesMatchRevision)
<1> DEFINE Faithful == ~overlapped => LogInv /\ RevisionInv
<1>1. LedgerInit => LogInv /\ RevisionInv
  BY DEF LedgerInit, LogInv, RevisionInv, LedgerTypeOK, LogReproducesPages, ChangesChain,
         PagesMatchRevision, HashIn, CurrentPages, CurrentIds
<1>2. /\ Faithful
      /\ [overlapped' \/ LedgerNext]_ledgerVars
      /\ [ProcessNext]_processVars
      => Faithful'
  <2> SUFFICES ASSUME Faithful, [overlapped' \/ LedgerNext]_ledgerVars,
                      [ProcessNext]_processVars, ~overlapped'
               PROVE  LogInv' /\ RevisionInv'
    OBVIOUS
  <2>1. ~overlapped
    BY DEF ProcessNext, processVars, BeginApply, ReadOldPages, WriteSnapshot, MarkReady,
           BeginAdvance, ReadCursor, WriteCursor, Abort, Begin, Return
  <2>2. [LedgerNext]_ledgerVars
    OBVIOUS
  <2>3. QED
    BY <2>1, <2>2, LedgerKeepsLog, LedgerKeepsMatch
<1>3. Faithful => (~overlapped => LogReproducesPages /\ ChangesChain /\ PagesMatchRevision)
  BY DEF LogInv, RevisionInv
<1>4. ProcessInit => LedgerInit
  BY DEF ProcessInit
<1>5. QED
  BY <1>1, <1>2, <1>3, <1>4, ProcessesImplementLedger, PTL
  DEF ProcessSpec, ImplementsLedger

=============================================================================
