---------------------------- MODULE MCIntegration ----------------------------
(* Instances of Integration for TLC. *)
EXTENDS Integration, TLC
RecordSymmetry == Permutations(Records)
=============================================================================
