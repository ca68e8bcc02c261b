---------------------------- MODULE PageRendering ----------------------------
(***************************************************************************)
(* From the text of an agent to handwritten pages (writer.py): wrapping,   *)
(* pagination, and the drawing of every page, which wraps and measures its *)
(* own part of the text again.  Only the replacement of pages paginates    *)
(* (notebook_artifacts.py): an append draws one page and drops the rest.   *)
(*                                                                         *)
(* A line is a sequence of words, a text is a sequence of lines.           *)
(*                                                                         *)
(*   text     what the agent wrote                                         *)
(*   layout   the loop that runs: over the words of the text, over its     *)
(*            lines for pagination, over the words of a chunk, over its    *)
(*            lines for drawing, or none any more                          *)
(*   body     what is being wrapped, the text or a chunk of it             *)
(*   at, word the next word: body[at][word]                                *)
(*   begun    the first word of the line that is begun                     *)
(*   wrapped  the lines that are wrapped                                   *)
(*   placed   how many of them the loop over the lines has dealt with      *)
(*   y        the height that they take on the page                        *)
(*   sheet    the lines on the page                                        *)
(*   chunks   the chunks of the text, one for each page                    *)
(*   drawn    the pages that are drawn, each the lines on it               *)
(*   clipped  (history) the lines drawn beyond the edge of the bitmap      *)
(*                                                                         *)
(* Abstractions: fonts.  A line has a width and a height; it starts at the *)
(* left margin, and y starts at 0.                                         *)
(***************************************************************************)
EXTENDS Naturals, Sequences, SequencesExt

CONSTANTS
  Words,
  Lines,        \* the lines of the texts and all parts of them
  Texts,        \* the texts that are rendered
  WidthOf(_), HeightOf(_),
  MaxWidth, MaxHeight,   \* between the margins
  EdgeWidth     \* from the left margin to the edge of the bitmap

ASSUME PartsAreLines ==
  \A line \in Lines : /\ line \in Seq(Words)
                      /\ \A m, n \in 0..Len(line) : SubSeq(line, m + 1, n) \in Lines
\* Even the font of the body is much smaller than a page.
ASSUME LinesFitOnPages ==
  MaxHeight \in Nat /\ \A line \in Lines : HeightOf(line) \in 0..MaxHeight
ASSUME MarginsAreInside ==
  /\ MaxWidth \in Nat /\ EdgeWidth \in Nat /\ MaxWidth <= EdgeWidth
  /\ \A line \in Lines : WidthOf(line) \in Nat
\* An empty line has no width.
ASSUME EmptyLineIsNarrow == WidthOf(<<>>) = 0
\* Splitting a text at its newlines gives one line at least.
ASSUME TextsHaveLines == \A t \in Texts : t \in Seq(Lines) /\ t # <<>>

VARIABLES text, layout, body, at, word, begun, wrapped, placed, y, sheet, chunks, drawn,
          clipped

wrapVars == <<body, at, word, begun, wrapped>>
sheetVars == <<placed, y, sheet>>
renderVars == <<text, layout, wrapVars, sheetVars, chunks, drawn, clipped>>

(***************************************************************************)
(* _iter_wrapped_body_lines and _wrap_text.                                *)
(***************************************************************************)

Wrapping == layout \in {"wrap text", "wrap chunk"}

LineBegun == SubSeq(body[at], begun, word - 1)

\* A word goes on the line if it fits, or if the line is empty.
PlaceWord ==
  /\ Wrapping /\ at <= Len(body) /\ word <= Len(body[at])
  /\ IF begun = word \/ WidthOf(SubSeq(body[at], begun, word)) <= MaxWidth
       THEN UNCHANGED <<begun, wrapped>>
       ELSE begun' = word /\ wrapped' = Append(wrapped, LineBegun)
  /\ word' = word + 1
  /\ UNCHANGED <<text, layout, body, at, sheetVars, chunks, drawn, clipped>>

\* A line without words is a line.
EndLine ==
  /\ Wrapping /\ at <= Len(body) /\ word = Len(body[at]) + 1
  /\ wrapped' = Append(wrapped, LineBegun)
  /\ at' = at + 1 /\ word' = 1 /\ begun' = 1
  /\ UNCHANGED <<text, layout, body, sheetVars, chunks, drawn, clipped>>

EndWrapping ==
  /\ Wrapping /\ at = Len(body) + 1
  /\ layout' = IF layout = "wrap text" THEN "paginate" ELSE "draw"
  /\ UNCHANGED <<text, wrapVars, sheetVars, chunks, drawn, clipped>>

(***************************************************************************)
(* paginate_content.                                                       *)
(***************************************************************************)

\* The first line of a page is never refused.
PaginateLine ==
  LET line == wrapped[placed + 1]
  IN  /\ layout = "paginate" /\ placed < Len(wrapped)
      /\ IF sheet # <<>> /\ y + HeightOf(line) > MaxHeight
           THEN /\ chunks' = Append(chunks, sheet)
                /\ sheet' = <<line>> /\ y' = HeightOf(line)
           ELSE /\ sheet' = Append(sheet, line) /\ y' = y + HeightOf(line)
                /\ UNCHANGED chunks
      /\ placed' = placed + 1
      /\ UNCHANGED <<text, layout, wrapVars, drawn, clipped>>

\* render_page starts with a chunk.
StartPage(chunk) ==
  /\ layout' = "wrap chunk"
  /\ body' = chunk /\ at' = 1 /\ word' = 1 /\ begun' = 1 /\ wrapped' = <<>>
  /\ placed' = 0 /\ y' = 0 /\ sheet' = <<>>

EndPagination ==
  /\ layout = "paginate" /\ placed = Len(wrapped)
  /\ chunks' = Append(chunks, sheet)
  /\ StartPage(chunks'[1])
  /\ UNCHANGED <<text, drawn, clipped>>

(***************************************************************************)
(* render_page, for every chunk.                                           *)
(***************************************************************************)

\* Mutant: a line that ends exactly at the limit is not drawn.
FitsOnPageBelow(line) == y + HeightOf(line) < MaxHeight

FitsOnPage(line) == y + HeightOf(line) <= MaxHeight

\* A word wider than a page is drawn as far as the bitmap goes.
DrawLine ==
  LET line == wrapped[placed + 1]
  IN  /\ layout = "draw" /\ placed < Len(wrapped) /\ FitsOnPage(line)
      /\ sheet' = Append(sheet, line) /\ y' = y + HeightOf(line)
      /\ clipped' = IF WidthOf(line) > EdgeWidth THEN clipped \cup {line} ELSE clipped
      /\ placed' = placed + 1
      /\ UNCHANGED <<text, layout, wrapVars, chunks, drawn>>

\* The drawing of a page stops at the first line that does not fit.
EndPage ==
  /\ layout = "draw"
  /\ placed < Len(wrapped) => ~FitsOnPage(wrapped[placed + 1])
  /\ drawn' = Append(drawn, sheet)
  /\ IF Len(drawn') = Len(chunks)
       THEN layout' = "done" /\ UNCHANGED <<wrapVars, sheetVars>>
       ELSE StartPage(chunks[Len(drawn') + 1])
  /\ UNCHANGED <<text, chunks, clipped>>

(***************************************************************************)
(* Specification.                                                          *)
(***************************************************************************)

RenderInit ==
  /\ text \in Texts
  /\ layout = "wrap text"
  /\ body = text /\ at = 1 /\ word = 1 /\ begun = 1 /\ wrapped = <<>>
  /\ placed = 0 /\ y = 0 /\ sheet = <<>>
  /\ chunks = <<>> /\ drawn = <<>> /\ clipped = {}

RenderNext ==
  \/ PlaceWord \/ EndLine \/ EndWrapping
  \/ PaginateLine \/ EndPagination
  \/ DrawLine \/ EndPage

RenderSpec == RenderInit /\ [][RenderNext]_renderVars

\* An answer with which an agent replaces a page is written whole: however its
\* lines wrap, and wherever a page ends, no page drops a line, and the words on
\* the pages are those of the answer, in its order (the docstring of
\* paginate_content).  Only a word that is alone on its line, and wider than the
\* page, is cut at the edge.
AnswerIsDrawnWhole ==
  /\ layout = "done" => /\ drawn = chunks
                        /\ FlattenSeq(FlattenSeq(drawn)) = FlattenSeq(text)
  /\ \A line \in clipped : Len(line) = 1

=============================================================================
