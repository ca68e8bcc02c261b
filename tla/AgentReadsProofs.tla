-------------------------- MODULE AgentReadsProofs --------------------------
(***************************************************************************)
(* Proofs about AgentReads, for any number of clients that read while      *)
(* snapshots of any notebooks are ingested.                                *)
(***************************************************************************)
EXTENDS AgentReads, CloudChangeLedgerProofs

(***************************************************************************)
(* The inductive invariant.                                                *)
(***************************************************************************)

CurrentHashes(nb) == [p \in CurrentIds(nb) |-> pageSnapshot[nb][p].content_hash]

\* The revision a command has read is the current one or one that was left.
RevisionWasRead(r) ==
  /\ r.nb \in Notebooks
  /\ Known(r.nb)
  /\ \/ r.revision = notebookSnapshot[r.nb].revision
     \/ r.revision \in left[r.nb]

IsCurrent(r) == r.revision = notebookSnapshot[r.nb].revision /\ ~HasComeBack(r.nb)

\* What a command reads after the revision is read of that revision, or of one
\* after it: then the revision has been left, and is not the current one unless
\* it has come back.
PagesWereRead(r) ==
  RevisionWasRead(r) /\ (IsCurrent(r) => r.pages = CurrentHashes(r.nb))

ChangesWereRead(r) ==
  /\ RevisionWasRead(r)
  /\ r.cursor \in Nat
  /\ IsCurrent(r) => r.changes = ChangesSince(r.nb, r.cursor)

\* The local variables of a command before each of its connections.
ReadingOK(r) ==
  \/ r = NotReading
  \/ /\ r.step \in {"cursor", "changes", "pages"}
     /\ RevisionWasRead(r)
     /\ r.cursor \in Nat
     /\ r.step = "pages" <=> r.command = "latest"
  \/ r.step = "next" /\ r.command = "latest" /\ PagesWereRead(r)
  \/ r.step = "next" /\ r.command # "latest" /\ ChangesWereRead(r)
  \/ r.step = "advance" /\ r.nb \in Notebooks /\ r.next \in 0..Len(pageChange)

ResponseOK(r) ==
  /\ r.next \in 0..Len(pageChange)
  /\ \/ r = NoResponse
     \/ r.kind = "pages" /\ PagesWereRead(r)
     \/ r.kind = "changes" /\ ChangesWereRead(r)

ReadInv ==
  /\ CursorInv
  /\ left \in [Notebooks -> SUBSET Revisions]
  /\ DOMAIN reading = Clients /\ DOMAIN response = Clients
  /\ \A c \in Clients : ReadingOK(reading[c]) /\ ResponseOK(response[c])

(***************************************************************************)
(* Reads and ingests are steps of the ledger.                              *)
(***************************************************************************)

LEMMA ReadStepsAreLedgerSteps ==
  ASSUME ReadInv, [ReadNext]_vars
  PROVE  [LedgerNext]_ledgerVars
<1>1. ASSUME NEW nb \in Notebooks, NEW rev \in Revisions, NEW snapshot \in Snapshots,
             Ingest(nb, rev, snapshot)
      PROVE  LedgerNext
  BY <1>1 DEF Ingest, LedgerNext
<1>2. ASSUME NEW c \in Clients, Advance(c)
      PROVE  [LedgerNext]_ledgerVars
  <2>1. PICK r : r = reading[c]
    OBVIOUS
  <2>2. r.nb \in Notebooks /\ r.next \in 0..Len(pageChange)
    <3>1. ReadingOK(r) /\ r.step = "advance"
      BY <1>2, <2>1 DEF ReadInv, Advance
    <3>2. QED
      BY <3>1 DEF ReadingOK, NotReading
  <2>3. CASE UNCHANGED ledgerVars
    BY <2>3
  <2>4. CASE AdvanceAgentCursor(c, r.nb, r.next)
    <3>1. agentCursor[c][r.nb] \in Nat /\ agentCursor[c][r.nb] < r.next
      BY <2>2, <2>4, ClientsAreAgents
      DEF ReadInv, CursorInv, LedgerTypeOK, AdvanceAgentCursor
    <3>2. Len(pageChange) \in Nat /\ DOMAIN pageChange = 1..Len(pageChange)
      BY DEF ReadInv, CursorInv, LedgerTypeOK
    <3>3. r.next \in DOMAIN pageChange
      BY <2>2, <3>1, <3>2
    <3>4. QED
      BY <2>2, <2>4, <3>3, ClientsAreAgents DEF LedgerNext
  <2>5. QED
    BY <1>2, <2>1, <2>3, <2>4 DEF Advance
<1>3. QED
  BY <1>1, <1>2 DEF ReadNext, vars, ReadRevision, ReadAgentCursor, ReadChanges,
                    ReadPages, PrintPages, PrintChanges, TakeNextCursor

(***************************************************************************)
(* What was read stays right.                                              *)
(***************************************************************************)

\* Nothing a command has read of a notebook is different now.
SameReads(nb) ==
  /\ notebookSnapshot'[nb] = notebookSnapshot[nb] /\ left'[nb] = left[nb]
  /\ CurrentHashes(nb)' = CurrentHashes(nb)
  /\ \A cursor : ChangesSince(nb, cursor)' = ChangesSince(nb, cursor)

\* The notebook has another revision now, and has left all it had before.
OtherRevision(nb) ==
  /\ Known(nb)' /\ left[nb] \subseteq left'[nb]
  /\ Known(nb) => notebookSnapshot[nb].revision \in left'[nb]

ReadsStayRight ==
  /\ Len(pageChange) \in Nat /\ Len(pageChange)' \in Nat
  /\ Len(pageChange) <= Len(pageChange)'
  /\ \A nb \in Notebooks : SameReads(nb) \/ OtherRevision(nb)

LEMMA IngestKeepsReads ==
  ASSUME CursorInv, CursorInv', left \in [Notebooks -> SUBSET Revisions], NEW nb \in Notebooks, NEW rev \in Revisions,
         NEW snapshot \in Snapshots, Ingest(nb, rev, snapshot)
  PROVE  ReadsStayRight /\ left' \in [Notebooks -> SUBSET Revisions]
<1>1. ApplySnapshot(nb, rev, snapshot)
  BY DEF Ingest
<1>2. /\ \A m \in Notebooks \ {nb} : ChangesOf(m)' = ChangesOf(m)
      /\ Len(pageChange) <= Len(pageChange')
  BY <1>1, ApplyKeepsLatest DEF CursorInv
<1>3. Len(pageChange) \in Nat /\ Len(pageChange)' \in Nat
  BY DEF CursorInv, LedgerTypeOK
<1>4. Known(nb) => notebookSnapshot[nb].revision \in Revisions
  <2>1. Known(nb) => notebookSnapshot[nb] \in NotebookRow
    BY DEF Known, CursorInv, LedgerTypeOK
  <2>2. QED
    BY <2>1 DEF NotebookRow
<1>5. PICK before \in SUBSET Revisions :
        /\ before = (IF Known(nb) THEN {notebookSnapshot[nb].revision} ELSE {})
        /\ left' = [left EXCEPT ![nb] = @ \cup before]
  BY <1>4 DEF Ingest
<1>6. left' \in [Notebooks -> SUBSET Revisions]
  BY <1>5
<1>7. OtherRevision(nb)
  <2> DEFINE row == [revision |-> rev, notebook_hash |-> snapshot]
  <2>1. notebookSnapshot'[nb] = row
    BY <1>1 DEF ApplySnapshot, CommitSnapshot, CursorInv, LedgerTypeOK
  <2>2. row # None
    BY NoneIsNoRow
  <2> HIDE DEF row
  <2>3. left'[nb] = left[nb] \cup before
    BY <1>5
  <2>4. QED
    BY <1>5, <2>1, <2>2, <2>3 DEF OtherRevision, Known
<1>8. ASSUME NEW m \in Notebooks \ {nb}
      PROVE  SameReads(m)
  <2>1. /\ notebookSnapshot'[m] = notebookSnapshot[m] /\ pageSnapshot'[m] = pageSnapshot[m]
        /\ left'[m] = left[m]
    BY <1>1, <1>5 DEF ApplySnapshot, CommitSnapshot, CursorInv, LedgerTypeOK
  <2>2. CurrentHashes(m)' = CurrentHashes(m)
    BY <2>1 DEF CurrentHashes, CurrentIds
  <2>3. \A cursor : /\ ChangesSince(m, cursor) = {k \in ChangesOf(m) : k > cursor}
                    /\ ChangesSince(m, cursor)' = {k \in ChangesOf(m)' : k > cursor}
    BY DEF ChangesSince, ChangesOf
  <2>4. QED
    BY <1>2, <2>1, <2>2, <2>3 DEF SameReads
<1>9. QED
  BY <1>2, <1>3, <1>6, <1>7, <1>8 DEF ReadsStayRight

\* A command that reads leaves alone what others have read, and so does an
\* agent cursor that moves.
LEMMA QuietKeepsReads ==
  ASSUME CursorInv, UNCHANGED <<pageChange, pageSnapshot, notebookSnapshot, left>>
  PROVE  ReadsStayRight
<1>1. Len(pageChange) \in Nat
  BY DEF CursorInv, LedgerTypeOK
<1>2. \A nb \in Notebooks : SameReads(nb)
  BY DEF SameReads, CurrentHashes, CurrentIds, ChangesSince
<1>3. QED
  BY <1>1, <1>2 DEF ReadsStayRight

LEMMA RevisionStaysRead ==
  ASSUME ReadsStayRight, NEW r, RevisionWasRead(r)
  PROVE  /\ RevisionWasRead(r)'
         /\ IsCurrent(r)' => IsCurrent(r) /\ SameReads(r.nb)
<1>1. PICK nb \in Notebooks : nb = r.nb
  BY DEF RevisionWasRead
<1>2. CASE SameReads(nb)
  BY <1>1, <1>2 DEF RevisionWasRead, SameReads, Known, IsCurrent, HasComeBack
<1>3. CASE OtherRevision(nb)
  <2>1. r.revision \in left'[nb] /\ Known(nb)'
    BY <1>1, <1>3 DEF OtherRevision, RevisionWasRead
  <2>2. QED
    BY <1>1, <2>1 DEF RevisionWasRead, IsCurrent, HasComeBack, Known
<1>4. QED
  BY <1>1, <1>2, <1>3 DEF ReadsStayRight

LEMMA ReadsStay ==
  ASSUME ReadsStayRight, NEW r
  PROVE  /\ ReadingOK(r) => ReadingOK(r)'
         /\ ResponseOK(r) => ResponseOK(r)'
<1>1. RevisionWasRead(r) => RevisionWasRead(r)'
  BY RevisionStaysRead
<1>2. PagesWereRead(r) => PagesWereRead(r)'
  BY RevisionStaysRead DEF PagesWereRead, SameReads
<1>3. ChangesWereRead(r) => ChangesWereRead(r)'
  <2> SUFFICES ASSUME ChangesWereRead(r), IsCurrent(r)'
               PROVE  r.changes = ChangesSince(r.nb, r.cursor)'
    BY <1>1 DEF ChangesWereRead
  <2>1. IsCurrent(r) /\ SameReads(r.nb)
    BY RevisionStaysRead DEF ChangesWereRead
  <2>2. QED
    BY <2>1 DEF ChangesWereRead, SameReads
<1>4. \A n \in 0..Len(pageChange) : n \in 0..Len(pageChange)'
  BY DEF ReadsStayRight
<1>5. ReadingOK(r) => ReadingOK(r)'
  BY <1>1, <1>2, <1>3, <1>4 DEF ReadingOK
<1>6. ResponseOK(r) => ResponseOK(r)'
  BY <1>2, <1>3, <1>4 DEF ResponseOK
<1>7. QED
  BY <1>5, <1>6

(***************************************************************************)
(* Every step preserves the invariant.                                     *)
(***************************************************************************)

\* One client goes on in its command; the others stay where they are.
LEMMA OneClientMoves ==
  ASSUME ReadInv, CursorInv', left' = left, ReadsStayRight, NEW c \in Clients, NEW next,
         reading' = [reading EXCEPT ![c] = next], ReadingOK(next)',
         UNCHANGED response
  PROVE  ReadInv'
<1>1. ASSUME NEW d \in Clients
      PROVE  ReadingOK(reading[d])' /\ ResponseOK(response[d])'
  <2>1. PICK r, s : r = reading[d] /\ s = response[d]
    OBVIOUS
  <2>2. ReadingOK(r)' /\ ResponseOK(s)'
    BY <2>1, ReadsStay DEF ReadInv
  <2>3. reading'[d] = IF d = c THEN next ELSE r
    BY <2>1 DEF ReadInv
  <2>4. QED
    BY <2>1, <2>2, <2>3
<1>2. QED
  BY <1>1 DEF ReadInv

\* One client prints the response of its command.
LEMMA OneClientPrints ==
  ASSUME ReadInv, CursorInv', left' = left, ReadsStayRight, NEW c \in Clients, NEW printed,
         response' = [response EXCEPT ![c] = printed], ResponseOK(printed)',
         reading' = [reading EXCEPT ![c] = NotReading]
  PROVE  ReadInv'
<1>1. ASSUME NEW d \in Clients
      PROVE  ReadingOK(reading[d])' /\ ResponseOK(response[d])'
  <2>1. PICK r, s : r = reading[d] /\ s = response[d]
    OBVIOUS
  <2>2. ReadingOK(r)' /\ ResponseOK(s)'
    BY <2>1, ReadsStay DEF ReadInv
  <2>3. /\ reading'[d] = IF d = c THEN NotReading ELSE r
        /\ response'[d] = IF d = c THEN printed ELSE s
    BY <2>1 DEF ReadInv
  <2>4. ReadingOK(NotReading)'
    BY DEF ReadingOK
  <2>5. QED
    BY <2>2, <2>3, <2>4
<1>2. QED
  BY <1>1 DEF ReadInv

LEMMA ReadInvariant == ReadSpec => []ReadInv
<1>1. ReadInit => ReadInv
  <2> SUFFICES ASSUME ReadInit
               PROVE  ReadInv
    OBVIOUS
  <2>1. CursorInv
    BY LedgerStartsWithin DEF ReadInit
  <2>2. Len(pageChange) = 0
    BY DEF ReadInit, LedgerInit
  <2>3. ReadingOK(NotReading) /\ ResponseOK(NoResponse)
    BY <2>2 DEF ReadingOK, ResponseOK, NoResponse
  <2>4. QED
    BY <2>1, <2>3 DEF ReadInv, ReadInit
<1>2. ReadInv /\ [ReadNext]_vars => ReadInv'
  <2> SUFFICES ASSUME ReadInv, [ReadNext]_vars
               PROVE  ReadInv'
    OBVIOUS
  <2>1. CursorInv /\ CursorInv'
    BY ReadStepsAreLedgerSteps, LedgerKeepsCursors DEF ReadInv
  <2>2. ASSUME NEW nb \in Notebooks, NEW rev \in Revisions, NEW snapshot \in Snapshots,
               Ingest(nb, rev, snapshot)
        PROVE  ReadInv'
    <3>1. /\ ReadsStayRight /\ UNCHANGED <<reading, response>>
          /\ left' \in [Notebooks -> SUBSET Revisions]
      BY <2>1, <2>2, IngestKeepsReads DEF ReadInv, Ingest
    <3>2. ASSUME NEW c \in Clients
          PROVE  ReadingOK(reading[c])' /\ ResponseOK(response[c])'
      <4>1. PICK r, s : r = reading[c] /\ s = response[c]
        OBVIOUS
      <4>2. ReadingOK(r)' /\ ResponseOK(s)'
        BY <3>1, <4>1, ReadsStay DEF ReadInv
      <4>3. QED
        BY <3>1, <4>1, <4>2
    <3>3. QED
      BY <2>1, <3>1, <3>2 DEF ReadInv
  <2>3. ASSUME UNCHANGED <<ledgerVars, left>>
        PROVE  /\ UNCHANGED <<pageChange, pageSnapshot, notebookSnapshot, agentCursor, left>>
               /\ ReadsStayRight
    BY <2>1, <2>3, QuietKeepsReads DEF ledgerVars
  <2>4. ASSUME NEW c \in Clients, NEW nb \in Notebooks, NEW command \in Commands,
               ReadRevision(c, nb, command)
        PROVE  ReadInv'
    <3> DEFINE next ==
          [step |-> IF command \in {"agent", "advance"} THEN "cursor"
                    ELSE IF command = "latest" THEN "pages" ELSE "changes",
           command |-> command, nb |-> nb,
           revision |-> notebookSnapshot[nb].revision,
           cursor |-> IF command = "since" THEN response[c].next ELSE 0]
    <3>1. PICK r : r = next
      OBVIOUS
    <3>2. /\ r.nb = nb /\ r.command = command
          /\ r.revision = notebookSnapshot[nb].revision
          /\ r.cursor = IF command = "since" THEN response[c].next ELSE 0
          /\ r.step \in {"cursor", "changes", "pages"}
          /\ r.step = "pages" <=> r.command = "latest"
      BY <3>1
    <3>3. reading' = [reading EXCEPT ![c] = r] /\ UNCHANGED <<ledgerVars, response, left>>
      BY <2>4, <3>1 DEF ReadRevision
    <3> HIDE DEF next
    <3>5. RevisionWasRead(r)
      BY <2>4, <3>2 DEF ReadRevision, RevisionWasRead
    <3>6. r.cursor \in Nat
      <4>1. response[c].next \in 0..Len(pageChange)
        BY DEF ReadInv, ResponseOK
      <4>2. QED
        BY <3>2, <4>1
    <3>7. ReadingOK(r)
      BY <3>2, <3>5, <3>6 DEF ReadingOK
    <3>8. QED
      BY <2>1, <2>3, <3>3, <3>7, OneClientMoves, ReadsStay
  <2>5. ASSUME NEW c \in Clients, ReadAgentCursor(c)
        PROVE  ReadInv'
    <3>1. PICK r, s : /\ r = reading[c]
                      /\ s = [r EXCEPT !.step = "changes",
                                       !.cursor = agentCursor[c][r.nb]]
      OBVIOUS
    <3>2. reading' = [reading EXCEPT ![c] = s] /\ UNCHANGED <<ledgerVars, response, left>>
      BY <2>5, <3>1 DEF ReadAgentCursor
    <3>3. /\ RevisionWasRead(r) /\ r.command # "latest" /\ r.cursor \in Nat
      BY <2>5, <3>1 DEF ReadAgentCursor, ReadInv, ReadingOK, NotReading
    <3>4. agentCursor[c][r.nb] \in Nat
      BY <2>1, <3>3, ClientsAreAgents DEF RevisionWasRead, CursorInv, LedgerTypeOK
    <3>5. ReadingOK(s)
      BY <3>1, <3>3, <3>4 DEF ReadingOK, RevisionWasRead
    <3>6. QED
      BY <2>1, <2>3, <3>2, <3>5, OneClientMoves, ReadsStay
  <2>6. ASSUME NEW c \in Clients, ReadChanges(c)
        PROVE  ReadInv'
    <3>1. PICK r, s : /\ r = reading[c]
                      /\ s = [step |-> "next", command |-> r.command, nb |-> r.nb,
                              revision |-> r.revision, cursor |-> r.cursor,
                              changes |-> ChangesSince(r.nb, r.cursor)]
      OBVIOUS
    <3>2. reading' = [reading EXCEPT ![c] = s] /\ UNCHANGED <<ledgerVars, response, left>>
      BY <2>6, <3>1 DEF ReadChanges, ReadInv
    <3>3. RevisionWasRead(r) /\ r.command # "latest" /\ r.cursor \in Nat
      BY <2>6, <3>1 DEF ReadChanges, ReadInv, ReadingOK, NotReading
    <3>4. ReadingOK(s)
      BY <3>1, <3>3 DEF ReadingOK, ChangesWereRead, RevisionWasRead
    <3>5. QED
      BY <2>1, <2>3, <3>2, <3>4, OneClientMoves, ReadsStay
  <2>7. ASSUME NEW c \in Clients, ReadPages(c)
        PROVE  ReadInv'
    <3>1. PICK r, s : /\ r = reading[c]
                      /\ s = [step |-> "next", command |-> r.command, nb |-> r.nb,
                              revision |-> r.revision, pages |-> CurrentHashes(r.nb)]
      OBVIOUS
    <3>2. reading' = [reading EXCEPT ![c] = s] /\ UNCHANGED <<ledgerVars, response, left>>
      BY <2>7, <3>1 DEF ReadPages, ReadInv, CurrentHashes
    <3>3. RevisionWasRead(r) /\ r.command = "latest"
      BY <2>7, <3>1 DEF ReadPages, ReadInv, ReadingOK, NotReading
    <3>4. ReadingOK(s)
      BY <3>1, <3>3 DEF ReadingOK, PagesWereRead, RevisionWasRead
    <3>5. QED
      BY <2>1, <2>3, <3>2, <3>4, OneClientMoves, ReadsStay
  <2>8. ASSUME NEW nb \in Notebooks
        PROVE  LatestChangeId(nb) \in 0..Len(pageChange)
    <3>1. LatestChangeId(nb) \in Nat /\ (LatestChangeId(nb) = 0 \/ LatestChangeId(nb) \in DOMAIN pageChange)
      BY <2>1, LatestIsInLog DEF CursorInv
    <3>2. Len(pageChange) \in Nat /\ DOMAIN pageChange = 1..Len(pageChange)
      BY <2>1 DEF CursorInv, LedgerTypeOK
    <3>3. QED
      BY <3>1, <3>2
  <2>9. ASSUME NEW c \in Clients, PrintPages(c)
        PROVE  ReadInv'
    <3>1. PICK r, s : /\ r = reading[c]
                      /\ s = [kind |-> "pages", nb |-> r.nb, revision |-> r.revision,
                              next |-> LatestChangeId(r.nb), pages |-> r.pages]
      OBVIOUS
    <3>2. /\ response' = [response EXCEPT ![c] = s]
          /\ reading' = [reading EXCEPT ![c] = NotReading]
          /\ UNCHANGED <<ledgerVars, left>>
      BY <2>9, <3>1 DEF PrintPages
    <3>3. PagesWereRead(r) /\ r.nb \in Notebooks
      BY <2>9, <3>1 DEF PrintPages, ReadInv, ReadingOK, NotReading, PagesWereRead,
                        RevisionWasRead
    <3>4. PagesWereRead(s)
      BY <3>1, <3>3 DEF PagesWereRead, RevisionWasRead, IsCurrent
    <3>5. ResponseOK(s)
      BY <2>8, <3>1, <3>3, <3>4 DEF ResponseOK
    <3>6. QED
      BY <2>1, <2>3, <3>2, <3>5, OneClientPrints, ReadsStay
  <2>10. ASSUME NEW c \in Clients, PrintChanges(c)
         PROVE  ReadInv'
    <3>1. PICK r, s : /\ r = reading[c]
                      /\ s = [kind |-> "changes", nb |-> r.nb, revision |-> r.revision,
                              next |-> LatestChangeId(r.nb), cursor |-> r.cursor,
                              changes |-> r.changes]
      OBVIOUS
    <3>2. /\ response' = [response EXCEPT ![c] = s]
          /\ reading' = [reading EXCEPT ![c] = NotReading]
          /\ UNCHANGED <<ledgerVars, left>>
      BY <2>10, <3>1 DEF PrintChanges
    <3>3. ChangesWereRead(r) /\ r.nb \in Notebooks
      BY <2>10, <3>1 DEF PrintChanges, ReadInv, ReadingOK, NotReading, ChangesWereRead,
                         RevisionWasRead
    <3>4. ChangesWereRead(s)
      BY <3>1, <3>3 DEF ChangesWereRead, RevisionWasRead, IsCurrent
    <3>5. ResponseOK(s)
      BY <2>8, <3>1, <3>3, <3>4 DEF ResponseOK
    <3>6. QED
      BY <2>1, <2>3, <3>2, <3>5, OneClientPrints, ReadsStay
  <2>11. ASSUME NEW c \in Clients, TakeNextCursor(c)
         PROVE  ReadInv'
    <3>1. PICK r, s : /\ r = reading[c]
                      /\ s = [step |-> "advance", nb |-> r.nb,
                              next |-> LatestChangeId(r.nb)]
      OBVIOUS
    <3>2. reading' = [reading EXCEPT ![c] = s] /\ UNCHANGED <<ledgerVars, response, left>>
      BY <2>11, <3>1 DEF TakeNextCursor
    <3>3. r.nb \in Notebooks
      BY <2>11, <3>1 DEF TakeNextCursor, ReadInv, ReadingOK, NotReading, ChangesWereRead,
                         RevisionWasRead
    <3>4. ReadingOK(s)
      BY <2>8, <3>1, <3>3 DEF ReadingOK
    <3>5. QED
      BY <2>1, <2>3, <3>2, <3>4, OneClientMoves, ReadsStay
  <2>12. ASSUME NEW c \in Clients, Advance(c)
         PROVE  ReadInv'
    <3>1. UNCHANGED <<pageChange, pageSnapshot, notebookSnapshot, response, left>>
      BY <2>12 DEF Advance, AdvanceAgentCursor, ledgerVars
    <3>2. reading' = [reading EXCEPT ![c] = NotReading]
      BY <2>12 DEF Advance
    <3>3. ReadsStayRight
      BY <2>1, <3>1, QuietKeepsReads
    <3>4. ReadingOK(NotReading)'
      BY DEF ReadingOK
    <3>5. QED
      BY <2>1, <3>1, <3>2, <3>3, <3>4, OneClientMoves
  <2>13. CASE UNCHANGED vars
    <3>1. ReadsStayRight /\ UNCHANGED <<reading, response, left>>
      BY <2>3, <2>13 DEF vars, readVars
    <3>2. ASSUME NEW c \in Clients
          PROVE  ReadingOK(reading[c])' /\ ResponseOK(response[c])'
      <4>1. PICK r, s : r = reading[c] /\ s = response[c]
        OBVIOUS
      <4>2. ReadingOK(r)' /\ ResponseOK(s)'
        BY <3>1, <4>1, ReadsStay DEF ReadInv
      <4>3. QED
        BY <3>1, <4>1, <4>2
    <3>3. QED
      BY <2>1, <3>1, <3>2 DEF ReadInv
  <2>14. QED
    BY <2>2, <2>4, <2>5, <2>6, <2>7, <2>9, <2>10, <2>11, <2>12, <2>13 DEF ReadNext
<1>3. QED
  BY <1>1, <1>2, PTL DEF ReadSpec

(***************************************************************************)
(* The theorems.                                                           *)
(***************************************************************************)

\* A command that reads opens a connection for each of its reads and writes
\* with none but the last of `--advance`: whatever clients do between the
\* ingests, the ledger only takes steps of its own specification, and what is
\* proved of it holds beside any number of readers.
THEOREM ReadsImplementLedger == ReadSpec => LedgerSpec
<1>1. ReadInit => LedgerInit
  BY DEF ReadInit
<1>2. ReadInv /\ [ReadNext]_vars => [LedgerNext]_ledgerVars
  BY ReadStepsAreLedgerSteps
<1>3. QED
  BY <1>1, <1>2, ReadInvariant, PTL DEF ReadSpec, LedgerSpec

\* Commands and responses have the fields their statements use, and the cursor
\* a response hands out is a change that exists.
THEOREM ReadTypeCorrect == ReadSpec => []ReadTypeOK
<1>1. ReadInv => ReadTypeOK
  BY DEF ReadInv, CursorInv, ReadTypeOK, ReadingOK, ResponseOK, NotReading, NoResponse
<1>2. QED
  BY <1>1, ReadInvariant, PTL

\* All changes of a notebook, replayed, are its pages.
LEMMA AllChangesShowPages ==
  ASSUME LogInv, NEW nb \in Notebooks, NEW r, r.kind # "pages", r.nb = nb,
         r.changes = ChangesSince(nb, 0)
  PROVE  PagesIn(r) = CurrentHashes(nb)
<1> DEFINE S == ChangesSince(nb, 0)
           alive == {p \in PageIds :
                       /\ \E k \in S : About(k, nb, p)
                       /\ pageChange[LastAbout(S, nb, p)].new_hash # None}
<1>1. \A k : k \in S <=> k \in DOMAIN pageChange /\ pageChange[k].notebook = nb
  BY DEF ChangesSince, LogInv, LedgerTypeOK
<1>2. S \subseteq Nat
  BY DEF ChangesSince, LogInv, LedgerTypeOK
<1>3. PagesIn(r) = [p \in alive |-> pageChange[LastAbout(S, nb, p)].new_hash]
  BY DEF PagesIn
<1> HIDE DEF S
<1>4. ASSUME NEW p \in PageIds
      PROVE  IF \E k \in S : About(k, nb, p)
               THEN pageChange[LastAbout(S, nb, p)].new_hash = HashIn(CurrentPages(nb), p)
               ELSE HashIn(CurrentPages(nb), p) = None
  <2>1. CASE \E k \in S : About(k, nb, p)
    <3>1. PICK k \in DOMAIN pageChange :
            /\ IsLastChange(k, nb, p)
            /\ pageChange[k].new_hash = HashIn(CurrentPages(nb), p)
      BY <1>1, <2>1 DEF LogInv, LogReproducesPages
    <3>2. k \in S /\ About(k, nb, p) /\ \A j \in S : About(j, nb, p) => j <= k
      BY <1>1, <3>1 DEF IsLastChange, About
    <3>3. PICK m : m = LastAbout(S, nb, p)
      OBVIOUS
    <3>4. m \in S /\ About(m, nb, p) /\ \A j \in S : About(j, nb, p) => j <= m
      BY <3>2, <3>3 DEF LastAbout
    <3>5. m \in Nat /\ k \in Nat /\ m <= k /\ k <= m
      BY <1>2, <3>2, <3>4
    <3>6. LastAbout(S, nb, p) = k
      BY <3>3, <3>5
    <3>7. QED
      BY <2>1, <3>1, <3>6
  <2>2. CASE ~\E k \in S : About(k, nb, p)
    BY <1>1, <2>2 DEF LogInv, LogReproducesPages, IsLastChange, About
  <2>3. QED
    BY <2>1, <2>2
<1>5. /\ DOMAIN CurrentPages(nb) = CurrentIds(nb) /\ CurrentIds(nb) \subseteq PageIds
      /\ \A p \in CurrentIds(nb) : /\ CurrentPages(nb)[p].content_hash \in Hashes
                                   /\ CurrentPages(nb)[p] = pageSnapshot[nb][p]
  BY CurrentPagesIsMap DEF LogInv, IsPageMap, CurrentPages
<1>6. \A p \in PageIds : HashIn(CurrentPages(nb), p) # None <=> p \in CurrentIds(nb)
  BY <1>5, NoneIsNoValue DEF HashIn
<1>7. alive = CurrentIds(nb)
  BY <1>4, <1>5, <1>6
<1>8. \A p \in alive : pageChange[LastAbout(S, nb, p)].new_hash = pageSnapshot[nb][p].content_hash
  BY <1>4, <1>5, <1>7 DEF HashIn
<1> HIDE DEF alive
<1>9. QED
  BY <1>3, <1>7, <1>8 DEF CurrentHashes

\* The revision an agent writes with is compared with the current one: if the
\* guard accepts it, and the revision has not come back, the agent's last whole
\* read of the notebook, however many ingests fell between the connections of
\* that read, shows every page as it is now.
THEOREM AcceptedWriteIsInformed == ReadSpec => []AcceptedWriteSawCurrentPages
<1>1. ReadInv /\ LogInv => AcceptedWriteSawCurrentPages
  <2> SUFFICES ASSUME ReadInv, LogInv, NEW c \in Clients, NEW r, r = response[c],
                      ReadsWholeNotebook(r), GuardAccepts(r.nb, r.revision),
                      ~HasComeBack(r.nb)
               PROVE  PagesIn(r) = CurrentHashes(r.nb)
    BY DEF AcceptedWriteSawCurrentPages, CurrentHashes
  <2>1. ResponseOK(r) /\ IsCurrent(r)
    BY DEF ReadInv, GuardAccepts, IsCurrent
  <2>2. CASE r.kind = "pages"
    BY <2>1, <2>2 DEF ResponseOK, NoResponse, PagesWereRead, PagesIn
  <2>3. CASE r.kind = "changes" /\ r.cursor = 0
    <3>1. ChangesWereRead(r)
      BY <2>1, <2>3 DEF ResponseOK, NoResponse
    <3>2. r.nb \in Notebooks /\ r.changes = ChangesSince(r.nb, 0)
      BY <2>1, <2>3, <3>1 DEF ChangesWereRead, RevisionWasRead
    <3>3. QED
      BY <2>3, <3>2, AllChangesShowPages
  <2>4. QED
    BY <2>2, <2>3 DEF ReadsWholeNotebook
<1>2. LedgerSpec => []LogInv
  <2>1. LedgerInit => LogInv
    BY DEF LedgerInit, LogInv, LedgerTypeOK, LogReproducesPages, ChangesChain,
           HashIn, CurrentPages, CurrentIds
  <2>2. QED
    BY <2>1, LedgerKeepsLog, PTL DEF LedgerSpec
<1>3. QED
  BY <1>1, <1>2, ReadInvariant, ReadsImplementLedger, PTL

=============================================================================
