---------------------------- MODULE MCEnrichment -----------------------------
(***************************************************************************)
(* Small instance of Enrichment: two mirrored pages, one of which the      *)
(* model never handles, and a page of another notebook.                    *)
(***************************************************************************)
EXTENDS Enrichment

=============================================================================
