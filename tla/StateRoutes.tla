----------------------------- MODULE StateRoutes -----------------------------
(***************************************************************************)
(* What /api/state-at says of a replay (server/src/state-routes.ts): the   *)
(* resources, the one selected, and one confidence for the answer.         *)
(***************************************************************************)
EXTENDS Replay


Confidences == {ctx.resources[i].confidence : i \in DOMAIN ctx.resources}

\* The resource of this kind and name, None where the replay has none.
SelectedResource(kind, uri) ==
  LET i == SelectInSeq(ctx.resources, LAMBDA r : r.id = <<kind, uri>>)
  IN  IF i = 0 THEN None ELSE ctx.resources[i]

\* That of the selected resource; without a selection, partial when one of them is.
AggregateConfidence(selected, hadSelection) ==
  IF selected # None THEN selected.confidence
  ELSE IF hadSelection \/ ctx.resources = <<>> THEN "unknown"
  ELSE IF "partial" \in Confidences THEN "partial" ELSE "complete"

\* What is called complete is so, in the list of resources and in the answer about a selected one; an
\* answer about a resource the replay does not have is not called complete. The replay is typed.
AnswersAreHonest ==
  /\ TypeOK
  /\ CompleteIsContiguous
  /\ \A kind \in SnapshotKind, uri \in Uri :
       LET r == SelectedResource(kind, uri)
       IN  AggregateConfidence(r, TRUE) = "complete" => r # None /\ Contiguous(r)
=============================================================================
