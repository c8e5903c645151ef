---------------------------- MODULE MCAssignment ----------------------------
(* Assignment on a few variables, texts and cells.  Variables are only ever *)
(* compared with one another, so permuting them changes nothing.            *)
EXTENDS Assignment

Symmetry == Permutations(Names)
=============================================================================
