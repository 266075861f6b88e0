---------------------------- MODULE MCTailReader ----------------------------
(* The instances of TailReader that TLC checks.                             *)
EXTENDS TailReader
=============================================================================
