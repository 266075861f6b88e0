----------------------------- MODULE MCLogIndexes -----------------------------
(***************************************************************************)
(* Instances of LogIndexes for TLC.                                        *)
(***************************************************************************)
EXTENDS LogIndexes, TLC
=============================================================================
