--------------------------- MODULE MCRenderWorker ---------------------------
(***************************************************************************)
(* Model-checking instance of RenderWorker.                                *)
(***************************************************************************)
EXTENDS RenderWorker, TLC

\* Processes are interchangeable: none is named by a definition.
ProcSymmetry == Permutations(Proc)
=============================================================================
