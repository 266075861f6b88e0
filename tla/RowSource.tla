------------------------------ MODULE RowSource ------------------------------
(***************************************************************************)
(* What the consumers of an open log rely on: the rows of the log change   *)
(* only as the frames emitted say, so a reader that takes a snapshot and   *)
(* then applies every later frame in order holds the current rows.  "out"  *)
(* is the sequence of frames emitted by the last step.                     *)
(***************************************************************************)
EXTENDS RowFrames

VARIABLES rows, out

Init == rows = <<>> /\ out = <<>>

Emit ==
  /\ rows' = RowsAfter(rows, out')
  /\ \A n \in DOMAIN out' : Fits(RowsAfter(rows, SubSeq(out', 1, n - 1)), out'[n])

Spec == Init /\ [][Emit]_<<rows, out>>
=============================================================================
