---------------------------- MODULE NoteSnapshot ----------------------------
(***************************************************************************)
(* src/paia_supernote/note_snapshot.py: from the pages of a parsed .note   *)
(* file, in order, to the snapshot keyed by page ID that ingest, filing    *)
(* and the organizer work from.  A note is a sequence of records           *)
(* [page_id, content_hash]; indexes count from 0.                          *)
(***************************************************************************)
LOCAL INSTANCE Naturals
LOCAL INSTANCE Sequences

\* Position of the last page with an ID: a later page replaces an earlier
\* one with the same ID in the `pages` dictionary.
LastPosition(note, p) ==
  CHOOSE i \in DOMAIN note :
    /\ note[i].page_id = p
    /\ \A j \in DOMAIN note : note[j].page_id = p => j <= i

\* One page revision per entry of page_order, taken from the dictionary.
PageRevisions(note) ==
  [i \in DOMAIN note |->
     LET last == LastPosition(note, note[i].page_id)
     IN  [page_id      |-> note[i].page_id,
          page_index   |-> last - 1,
          content_hash |-> note[last].content_hash]]

=============================================================================
