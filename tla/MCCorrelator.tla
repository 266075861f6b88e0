---------------------------- MODULE MCCorrelator ----------------------------
(* Correlator on a small instance: two ids, either direction, four events. *)
EXTENDS Correlator, TLC

Symmetry == Permutations(Id)
=============================================================================
