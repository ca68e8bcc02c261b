--------------------------- MODULE MCLedgerIngest ---------------------------
(***************************************************************************)
(* Small instances of LedgerIngest.                                        *)
(***************************************************************************)
EXTENDS LedgerIngest

NotesOver(Pages) ==
  {note \in UNION {[1..n -> Pages] : n \in 1..Cardinality(PageIds)} :
     \A i, j \in DOMAIN note : note[i].page_id = note[j].page_id => i = j}

AllPages == [page_id: PageIds \cap {1, 2}, content_hash: Hashes]

\* Every arrangement of the pages.
MCNotes == NotesOver(AllPages)

\* Pages are edited where they are, and added and removed at the end.
MCNotesInPlace == {note \in MCNotes : \A i \in DOMAIN note : note[i].page_id = i}

\* One page in any content, or all pages in the same one.
MCNotesFew ==
  {note \in MCNotesInPlace :
     \/ Len(note) = 1
     \/ \A i \in DOMAIN note : note[i].content_hash = (CHOOSE h \in Hashes : TRUE)}

\* A page takes the place of another, and only that other one, and a third, are
\* in the records of changes.
MCNotesShifted ==
  {note \in [1..2 -> [page_id: PageIds, content_hash: Hashes]] :
     /\ <<note[1].page_id, note[2].page_id>> \in {<<1, 2>>, <<3, 1>>}
     /\ \A i \in DOMAIN note :
          note[i].page_id = 1 <=> note[i].content_hash = (CHOOSE h \in Hashes : TRUE)}

MCSnapshots == {PageRevisions(note) : note \in MCNotes \cup MCNotesShifted}

MCRevisions == [time: 0..4, note: MCNotes \cup MCNotesShifted]

Runs(ingesters, notes, maxTime) ==
  [ingesters |-> ingesters, notes |-> notes, maxTime |-> maxTime]

\* The daemon alone with any arrangement of two pages, or with a page that
\* shifts, and a capped once run beside a callback of the local watcher.
MCIngest ==
  {Runs(Pollers, MCNotes, 3), Runs(Pollers, MCNotesShifted, 4),
   Runs(OnceRuns \cup Watchers, MCNotesFew, 2)}

\* The daemon that ingests one page, and once runs repeated by hand that
\* ingest several.
MCLive ==
  {Runs(Pollers, {note \in MCNotesInPlace : Len(note) = 1}, 4),
   Runs(OnceRuns, {note \in MCNotesInPlace : \A i \in DOMAIN note :
                      note[i].content_hash = (CHOOSE h \in Hashes : TRUE)}, 3)}

\* A page inserted before another one and removed again.
MCIndexKey == {Runs(Pollers, MCNotes, 3)}

=============================================================================
