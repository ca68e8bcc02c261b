-------------------------- MODULE MCNotebookWrite --------------------------
(***************************************************************************)
(* Small instances of NotebookWrite.                                       *)
(***************************************************************************)
EXTENDS NotebookWrite

=============================================================================
