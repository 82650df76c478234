--------------------------- MODULE MCRenderOutput ---------------------------
(***************************************************************************)
(* Model-checking instance of RenderOutput.                                *)
(***************************************************************************)
EXTENDS RenderOutput, TLC

\* Entries, workers and clients are interchangeable among themselves.
OutputSymmetry == Permutations(Entries) \cup Permutations(Workers) \cup Permutations(Clients)
=============================================================================
