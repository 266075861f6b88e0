----------------------------- MODULE MCLogStream -----------------------------
(***************************************************************************)
(* LogStream on two small instances, each with one stream for what it      *)
(* carries and one more, on an empty log, for the slot both need.  The log *)
(* of the one has rows, patches and rotations and no watch error; that of  *)
(* the other has errors and is one file.  The first file of a log without  *)
(* errors has MaxRows rows, any other fewer.                               *)
(***************************************************************************)
EXTENDS LogStream

CONSTANT MaxFewRows  \* bound: rows after a rotation, or beside watch errors

VARIABLE erroneous

Errors(c) == IF stream'[c].pc = "closed" THEN 0 ELSE ErrorsIn(stream'[c].queue)

StreamInit == Init /\ erroneous \in BOOLEAN

StreamNext ==
  /\ Next
  /\ UNCHANGED erroneous
  /\ (erroneous \/ file' > 0) => Len(rows') <= MaxFewRows
  /\ IF erroneous THEN file' = 0 ELSE \A c \in Stream : Errors(c) = 0

StreamSpec == StreamInit /\ [][StreamNext]_<<vars, erroneous>> /\ Fairness
=============================================================================
