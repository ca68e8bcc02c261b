------------------------------- MODULE PageOps -------------------------------
(***************************************************************************)
(* src/paia_supernote/note_page_ops.py: copying, removing and reordering   *)
(* the pages of a parsed .note file.  A note is a record                   *)
(*                                                                         *)
(*   pages    a sequence of records [id, ink, star]: the PAGEID, what is   *)
(*            written on the page, its star; the code counts from 0        *)
(*   footers  the titles, keywords and links of the footer, as a set of    *)
(*            records [kind, of, at]: the position `at` that the file      *)
(*            stores (in KEYWORDPAGE too), and the ink `of` that the user  *)
(*            attached the record to                                       *)
(*                                                                         *)
(* Abstractions: recognition data, which every operation clears; layers.   *)
(***************************************************************************)
EXTENDS Naturals, Sequences, FiniteSets, SequencesExt

CONSTANT Blank   \* the ink of a page with an empty main layer

Page(id, ink, star) == [id |-> id, ink |-> ink, star |-> star]

PageIds(note) == [i \in DOMAIN note.pages |-> note.pages[i].id]

Inks(note) == {note.pages[i].ink : i \in DOMAIN note.pages} \ {Blank}

\* The first position of a page ID.
PositionOf(note, id) == SelectInSeq(note.pages, LAMBDA page : page.id = id)

\* Copies keep their PAGEID and lose their star; footers stay behind.
CopyPagesToEnd(source, target, positions) ==
  [target EXCEPT !.pages =
     @ \o [i \in DOMAIN positions |->
             [source.pages[positions[i]] EXCEPT !.star = FALSE]]]

\* The i-th of a set of positions.
Ith(stay, i) == CHOOSE p \in stay : Cardinality({q \in stay : q <= p}) = i

\* A notebook keeps at least one page: a blank one with the PAGEID of the
\* first.  Footers keep the indexes they had.
RemovePages(source, positions) ==
  LET stay == DOMAIN source.pages \ positions
      kept == [i \in 1..Cardinality(stay) |-> source.pages[Ith(stay, i)]]
  IN  [source EXCEPT !.pages =
         IF kept = <<>> THEN <<[source.pages[1] EXCEPT !.ink = Blank]>> ELSE kept]

\* Each record of the footer is on the page that the user attached it to.
FootersFit(note) ==
  \A f \in note.footers : f.at \in DOMAIN note.pages /\ note.pages[f.at].ink = f.of

\* Both lists name each page once, and the same pages.
ValidPageOrder(note, order) ==
  /\ IsInjective(PageIds(note))
  /\ IsInjective(order)
  /\ ToSet(order) = ToSet(PageIds(note))

\* Mutant: footers keep the index they had.
FootersAsTheyWere(note, order) == note.footers

\* A title or keyword that points to no page is left alone.
RemappedFooters(note, order) ==
  {IF f.at \in DOMAIN note.pages
     THEN [f EXCEPT !.at = CHOOSE i \in DOMAIN order : order[i] = note.pages[f.at].id]
     ELSE f : f \in note.footers}

\* UnsupportedLinkMetadataError: a link that points to no page.
HasDanglingLink(note) ==
  \E f \in note.footers : f.kind = "link" /\ f.at \notin DOMAIN note.pages

CanReorder(note, order) == ValidPageOrder(note, order) /\ ~HasDanglingLink(note)

ReorderPages(note, order) ==
  [pages   |-> [i \in DOMAIN order |-> note.pages[PositionOf(note, order[i])]],
   footers |-> RemappedFooters(note, order)]

=============================================================================
