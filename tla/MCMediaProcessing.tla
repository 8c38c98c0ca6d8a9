-------------------------- MODULE MCMediaProcessing --------------------------
(* The media workers on a small instance.  Workers are interchangeable. *)
EXTENDS MediaProcessing, TLC

Symmetry == Permutations(Workers)
=============================================================================
