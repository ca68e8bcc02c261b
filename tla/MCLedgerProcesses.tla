------------------------- MODULE MCLedgerProcesses -------------------------
(***************************************************************************)
(* Small instances of LedgerProcesses.                                     *)
(***************************************************************************)
EXTENDS LedgerProcesses, NoteSnapshot, TLC

CONSTANTS page, other   \* two page IDs

\* A page in any content, alone or after another page.
MCSnapshots ==
  {PageRevisions(<<[page_id |-> page, content_hash |-> h]>>) : h \in Hashes} \cup
  {PageRevisions(<<[page_id |-> other, content_hash |-> h],
                   [page_id |-> page, content_hash |-> h]>>) : h \in Hashes}

\* Every client works for the same agent.
MCAgentOf == [p \in Clients |-> CHOOSE a \in Agents : TRUE]

\* Processes of one kind are interchangeable, and so are contents.
MCSymmetry ==
  Permutations(Ingesters) \cup Permutations(Clients) \cup Permutations(Hashes)

=============================================================================
