-------------------------- MODULE MCNotebookFiling --------------------------
(***************************************************************************)
(* Small instances of NotebookFiling, with as many operations and copies   *)
(* of a page as the configuration allows.                                  *)
(***************************************************************************)
EXTENDS NotebookFiling, TLC

CONSTANTS MaxOperations, MaxCopies

FewMoves ==
  /\ Cardinality(DOMAIN ledger) <= MaxOperations
  /\ \A t \in Targets, p \in Pages : target[t][p] + destroyed[t][p] <= MaxCopies

TargetSymmetry == Permutations(Targets)

=============================================================================
