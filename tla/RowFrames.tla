------------------------------ MODULE RowFrames ------------------------------
(***************************************************************************)
(* The frames by which the rows of a log travel (SsePayload, app-state.ts) *)
(* and what a reader does with one.  Rows count from 1.  An append frame   *)
(* extends the rows from position "from", a patch frame replaces rows, a   *)
(* rotation frame empties the log; other frames leave the rows alone.      *)
(***************************************************************************)
EXTENDS Integers, Sequences, SequencesExt

AppendFrame(from, newRows) == [kind |-> "append", from |-> from, rows |-> newRows]
PatchFrame(updates)        == [kind |-> "patch", updates |-> updates]
RowPatch(i, row)           == PatchFrame([j \in {i} |-> row])
RotationFrame              == [kind |-> "rotation"]
ProgressFrame(phase)       == [kind |-> "load-progress", phase |-> phase]
WatchErrorFrame(code)      == [kind |-> "watch-error", code |-> code]

\* rows[from + i] = newRows[i], positions past the end included
Placed(rs, from, newRows) ==
  [i \in DOMAIN rs \cup (from .. from + Len(newRows) - 1) |->
     IF i >= from /\ i < from + Len(newRows) THEN newRows[i - from + 1] ELSE rs[i]]

\* rows[i] is replaced for the indexes i both patched and present
Patched(rs, updates) ==
  [i \in DOMAIN rs |-> IF i \in DOMAIN updates THEN updates[i] ELSE rs[i]]

Apply(rs, frame) ==
  CASE frame.kind = "append"   -> Placed(rs, frame.from, frame.rows)
    [] frame.kind = "patch"    -> Patched(rs, frame.updates)
    [] frame.kind = "rotation" -> <<>>
    [] OTHER                   -> rs

\* no hole, no row twice, no patch of a row that is not there
Fits(rs, frame) ==
  CASE frame.kind = "append" -> frame.from = Len(rs) + 1 /\ frame.rows # <<>>
    [] frame.kind = "patch"  -> /\ DOMAIN frame.updates # {}
                                /\ DOMAIN frame.updates \subseteq DOMAIN rs
    [] OTHER                 -> TRUE

\* the rows once the frames have been applied in order
RowsAfter(rs, frames) ==
  LET after[n \in 0..Len(frames)] ==
        IF n = 0 THEN rs ELSE Apply(after[n - 1], frames[n])
  IN  after[Len(frames)]
=============================================================================
