----------------------------- MODULE FolioMirror -----------------------------
(***************************************************************************)
(* What enrichment promises: folio follows the transcribed pages.  A page  *)
(* of folio only ever moves forward, to a revision that the page has had,  *)
(* and reaches the current one if that one stays.                          *)
(*                                                                         *)
(*   source[p]  the revision of the text of page p; 0 before the first     *)
(*   mirror[p]  the revision that folio shows; 0 if it has no such object  *)
(***************************************************************************)
EXTENDS Naturals

CONSTANTS
  Mirrored,  \* the pages of the notebooks that go to folio
  Reliable   \* those of them whose text the language model can handle

VARIABLES source, mirror

mirrorVars == <<source, mirror>>

MirrorInit ==
  /\ source = [p \in Mirrored |-> 0]
  /\ mirror = [p \in Mirrored |-> 0]

\* A page is read in a newer revision.
Advance(p) ==
  /\ source'[p] \in Nat /\ source'[p] > source[p]
  /\ source' = [source EXCEPT ![p] = source'[p]]
  /\ UNCHANGED mirror

\* Folio receives a revision newer than the one it shows.
Publish(p, revision) ==
  /\ mirror[p] < revision /\ revision <= source[p]
  /\ mirror' = [mirror EXCEPT ![p] = revision]
  /\ UNCHANGED source

MirrorNext ==
  \E p \in Mirrored :
    Advance(p) \/ \E revision \in 1..source[p] : Publish(p, revision)

MirrorSpec ==
  /\ MirrorInit
  /\ [][MirrorNext]_mirrorVars
  /\ \A p \in Reliable : WF_mirrorVars(Publish(p, source[p]))

=============================================================================
