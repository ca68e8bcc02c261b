---------------------------- MODULE MCLedgerReads ----------------------------
(***************************************************************************)
(* Small instances of the ledger and of the reads on it.  A behaviour has  *)
(* one of two scopes, which `scope` names: "pages" has every change of a   *)
(* list of pages, in a single revision and with no reader; "reads" has one *)
(* page at a time in revisions that come and go, and may come back, read   *)
(* while they are ingested.                                                *)
(* Page IDs may be repeated, as build_snapshot and IngestService turn them *)
(* into page revisions.                                                    *)
(***************************************************************************)
EXTENDS AgentReads, NoteSnapshot, TLC

VARIABLE scope

Plain == CHOOSE h \in Hashes : TRUE

NotesOf(n, pages) == [1..n -> pages]

IsInjectiveNote(note) == \A i, j \in DOMAIN note : note[i].page_id = note[j].page_id => i = j

\* Every permutation, addition and removal of the pages with one content,
\* single pages with every content, and pairs with the same page ID.
MCNotes ==
  LET plain == [page_id: PageIds, content_hash: {Plain}]
  IN  {note \in UNION {NotesOf(n, plain) : n \in 1..Cardinality(PageIds)} :
         IsInjectiveNote(note)}
      \cup NotesOf(1, [page_id: PageIds, content_hash: Hashes])
      \cup {note \in NotesOf(2, plain) : note[1] = note[2]}

MCSnapshots == {PageRevisions(note) : note \in MCNotes}

\* Between two snapshots of a notebook in scope.
InScope(nb) ==
  IF scope = "pages"
    THEN Known(nb) => notebookSnapshot'[nb].revision = notebookSnapshot[nb].revision
    ELSE /\ Len(pageChange') <= MaxChanges
         /\ Known(nb)' => \E p \in PageIds \ {3} :
              CurrentIds(nb)' = {p} /\ pageSnapshot'[nb][p].page_index = 0

RevisionSymmetry == Permutations(Revisions)

LedgerReadsInit == ReadInit /\ scope \in {"pages", "reads"}

LedgerReadsNext ==
  /\ UNCHANGED scope
  /\ \/ scope = "pages" /\ LedgerNext /\ UNCHANGED readVars
     \/ scope = "reads" /\ ReadNext
  /\ \A nb \in Notebooks : InScope(nb)

LedgerReadsSpec == LedgerReadsInit /\ [][LedgerReadsNext]_<<vars, scope>>

=============================================================================
