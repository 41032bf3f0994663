---------------------------- MODULE MCMxMDStream ----------------------------
(* Instances of MxMDStream for TLC. *)
EXTENDS MxMDStream

CONSTANTS x, y, z

MCSymmetry == Permutations(Ids)
=============================================================================
