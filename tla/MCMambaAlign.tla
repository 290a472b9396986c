--------------------------- MODULE MCMambaAlign ---------------------------
(* Blocks of three tokens and two drafts: a step can end before, at and     *)
(* after a boundary; thirteen tokens make four boundaries.                  *)
EXTENDS MambaAlign
=============================================================================
