----------------------------- MODULE AgentReads -----------------------------
(***************************************************************************)
(* The cached read contract of src/paia_supernote/agent_read_contracts.py  *)
(* and the CLI command `supernote changes` built on it, while the ingest   *)
(* daemon keeps committing snapshots.  Each ledger method opens its own    *)
(* connection, so one response is put together from several transactions:  *)
(* here, one step per connection.                                          *)
(*                                                                         *)
(*   reading[c]   the command a client process is executing: `step` is the *)
(*                next connection, the other fields its local variables    *)
(*   response[c]  the last response that command printed                   *)
(*                                                                         *)
(* A client may repeat these commands:                                     *)
(*   latest    changes NB --latest                                         *)
(*   all       changes NB                                                  *)
(*   since     changes NB --since <next_cursor of its last response>       *)
(*   agent     changes NB --agent A                                        *)
(*   advance   changes NB --agent A --advance                              *)
(*                                                                         *)
(* An ingest is one step here (LedgerProcesses shows when that is sound).  *)
(* A revision is an update time and the hash of the bytes.  The watcher of *)
(* a local folder gives no time: its revisions come back when a file has   *)
(* earlier bytes again, and so does one that an ingest commits late.       *)
(*                                                                         *)
(*   left[nb]     (history) the revisions that nb had and left             *)
(***************************************************************************)
EXTENDS CloudChangeLedger

CONSTANTS
  Clients,     \* client processes; each works for the agent of the same name
  Commands     \* the commands they use

ASSUME ClientsAreAgents == Clients = Agents

VARIABLES reading, response, left

readVars == <<reading, response, left>>
vars == <<ledgerVars, readVars>>

NotReading == [step |-> "none"]

NoResponse == [kind |-> "none", revision |-> None, next |-> 0]

\* What _canonical_notebook leaves of a request: one allowlisted notebook.
Known(nb) == notebookSnapshot[nb] # None

(***************************************************************************)
(* get_latest_notebook_state and get_changes.                              *)
(***************************************************************************)

\* _require_latest_state; an unknown notebook ends the command with an error.
ReadRevision(c, nb, command) ==
  /\ reading[c] = NotReading
  /\ Known(nb)
  /\ reading' = [reading EXCEPT ![c] =
       [step |-> IF command \in {"agent", "advance"} THEN "cursor"
                 ELSE IF command = "latest" THEN "pages" ELSE "changes",
        command |-> command, nb |-> nb,
        revision |-> notebookSnapshot[nb].revision,
        cursor |-> IF command = "since" THEN response[c].next ELSE 0]]
  /\ UNCHANGED <<ledgerVars, response, left>>

ReadAgentCursor(c) ==
  /\ reading[c].step = "cursor"
  /\ reading' = [reading EXCEPT ![c].step = "changes",
                                ![c].cursor = agentCursor[c][reading[c].nb]]
  /\ UNCHANGED <<ledgerVars, response, left>>

ReadChanges(c) ==
  /\ reading[c].step = "changes"
  /\ reading' = [reading EXCEPT ![c] =
       [step |-> "next", command |-> @.command, nb |-> @.nb,
        revision |-> @.revision, cursor |-> @.cursor,
        changes |-> ChangesSince(@.nb, @.cursor)]]
  /\ UNCHANGED <<ledgerVars, response, left>>

ReadPages(c) ==
  /\ reading[c].step = "pages"
  /\ reading' = [reading EXCEPT ![c] =
       [step |-> "next", command |-> @.command, nb |-> @.nb,
        revision |-> @.revision,
        pages |-> [p \in CurrentIds(@.nb) |-> pageSnapshot[@.nb][p].content_hash]]]
  /\ UNCHANGED <<ledgerVars, response, left>>

\* Mutant: the revision is read again for the response, after the pages.
PrintPagesWithLastRevision(c) ==
  LET r == reading[c]
  IN  /\ r.step = "next" /\ r.command = "latest"
      /\ response' = [response EXCEPT ![c] =
           [kind |-> "pages", nb |-> r.nb,
            revision |-> notebookSnapshot[r.nb].revision,
            next |-> LatestChangeId(r.nb), pages |-> r.pages]]
      /\ reading' = [reading EXCEPT ![c] = NotReading]
      /\ UNCHANGED <<ledgerVars, left>>

\* latest_change_id comes last, and the response is built from what was read.
PrintPages(c) ==
  LET r == reading[c]
  IN  /\ r.step = "next" /\ r.command = "latest"
      /\ response' = [response EXCEPT ![c] =
           [kind |-> "pages", nb |-> r.nb, revision |-> r.revision,
            next |-> LatestChangeId(r.nb), pages |-> r.pages]]
      /\ reading' = [reading EXCEPT ![c] = NotReading]
      /\ UNCHANGED <<ledgerVars, left>>

\* Mutant: next_cursor is one past the last change, where the next one will be.
PrintChangesWithNextId(c) ==
  LET r == reading[c]
  IN  /\ r.step = "next" /\ r.command \in {"all", "since", "agent"}
      /\ response' = [response EXCEPT ![c] =
           [kind |-> "changes", nb |-> r.nb, revision |-> r.revision,
            next |-> LatestChangeId(r.nb) + 1, cursor |-> r.cursor,
            changes |-> r.changes]]
      /\ reading' = [reading EXCEPT ![c] = NotReading]
      /\ UNCHANGED <<ledgerVars, left>>

PrintChanges(c) ==
  LET r == reading[c]
  IN  /\ r.step = "next" /\ r.command \in {"all", "since", "agent"}
      /\ response' = [response EXCEPT ![c] =
           [kind |-> "changes", nb |-> r.nb, revision |-> r.revision,
            next |-> LatestChangeId(r.nb), cursor |-> r.cursor,
            changes |-> r.changes]]
      /\ reading' = [reading EXCEPT ![c] = NotReading]
      /\ UNCHANGED <<ledgerVars, left>>

\* With --advance the response is not printed: its next_cursor is what the
\* command acknowledges.
TakeNextCursor(c) ==
  LET r == reading[c]
  IN  /\ r.step = "next" /\ r.command = "advance"
      /\ reading' = [reading EXCEPT ![c] =
           [step |-> "advance", nb |-> r.nb, next |-> LatestChangeId(r.nb)]]
      /\ UNCHANGED <<ledgerVars, response, left>>

\* advance_agent_cursor of the contract: a cursor already there is a no-op.
Advance(c) ==
  /\ reading[c].step = "advance"
  /\ \/ AdvanceAgentCursor(c, reading[c].nb, reading[c].next)
     \/ /\ agentCursor[c][reading[c].nb] >= reading[c].next
        /\ UNCHANGED ledgerVars
  /\ reading' = [reading EXCEPT ![c] = NotReading]
  /\ UNCHANGED <<response, left>>

(***************************************************************************)
(* The write guard, validate_agent_write_request.                          *)
(***************************************************************************)

GuardAccepts(nb, base) == Known(nb) /\ base = notebookSnapshot[nb].revision

(***************************************************************************)
(* Specification.                                                          *)
(***************************************************************************)

\* The same revision is the same bytes: nothing to commit.
Ingest(nb, rev, snapshot) ==
  /\ Len(pageChange) < MaxChanges
  /\ Known(nb) => rev # notebookSnapshot[nb].revision
  /\ ApplySnapshot(nb, rev, snapshot)
  /\ left' = [left EXCEPT ![nb] =
       @ \cup (IF Known(nb) THEN {notebookSnapshot[nb].revision} ELSE {})]
  /\ UNCHANGED <<reading, response>>

ReadInit ==
  /\ LedgerInit
  /\ reading = [c \in Clients |-> NotReading]
  /\ response = [c \in Clients |-> NoResponse]
  /\ left = [nb \in Notebooks |-> {}]

ReadNext ==
  \/ \E nb \in Notebooks, rev \in Revisions, snapshot \in Snapshots :
       Ingest(nb, rev, snapshot)
  \/ \E c \in Clients :
       \/ \E nb \in Notebooks, command \in Commands : ReadRevision(c, nb, command)
       \/ ReadAgentCursor(c)
       \/ ReadChanges(c)
       \/ ReadPages(c)
       \/ PrintPages(c)
       \/ PrintChanges(c)
       \/ TakeNextCursor(c)
       \/ Advance(c)

ReadSpec == ReadInit /\ [][ReadNext]_vars

(***************************************************************************)
(* Properties.                                                             *)
(***************************************************************************)

\* Commands and responses have the fields their models declare, and every
\* change in them exists in the log.
ReadTypeOK ==
  /\ LedgerTypeOK
  /\ left \in [Notebooks -> SUBSET Revisions]
  /\ \A c \in Clients :
       /\ reading[c].step \in {"none", "cursor", "changes", "pages", "next", "advance"}
       /\ response[c].kind \in {"none", "pages", "changes"}
       /\ response[c].next \in 0..Len(pageChange)

\* The last of the changes in S about page p.
LastAbout(S, nb, p) ==
  CHOOSE k \in S : About(k, nb, p) /\ \A j \in S : About(j, nb, p) => j <= k

\* The pages and hashes a response tells its reader of.
PagesIn(r) ==
  IF r.kind = "pages" THEN r.pages
  ELSE LET alive == {p \in PageIds :
                       /\ \E k \in r.changes : About(k, r.nb, p)
                       /\ pageChange[LastAbout(r.changes, r.nb, p)].new_hash # None}
       IN  [p \in alive |-> pageChange[LastAbout(r.changes, r.nb, p)].new_hash]

ReadsWholeNotebook(r) ==
  r.kind = "pages" \/ (r.kind = "changes" /\ r.cursor = 0)

\* The notebook had its current revision before.
HasComeBack(nb) == notebookSnapshot[nb].revision \in left[nb]

\* An agent that read the whole notebook, as `--latest` or as all changes, and
\* then writes with the revision of that response has seen every page as it is
\* at the moment the guard accepts the write: a snapshot that commits between
\* the reads of one response makes its revision stale, never its pages.  That is
\* so as long as the revision has not come back: of a local file that has earlier
\* bytes again the pages may be those of the revision in between.
AcceptedWriteSawCurrentPages ==
  \A c \in Clients :
    LET r == response[c]
    IN  ReadsWholeNotebook(r) /\ GuardAccepts(r.nb, r.revision) /\ ~HasComeBack(r.nb)
          => PagesIn(r) = [p \in CurrentIds(r.nb) |->
                             pageSnapshot[r.nb][p].content_hash]

=============================================================================
