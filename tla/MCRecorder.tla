----------------------------- MODULE MCRecorder -----------------------------
(***************************************************************************)
(* PiRecorder for TLC's safety run: recorders and workers are model values *)
(* that no definition tells apart.                                         *)
(***************************************************************************)
EXTENDS PiRecorder, TLC

Symmetry == Permutations(Recorder) \union Permutations(Worker)
=============================================================================
