------------------------------- MODULE Replay -------------------------------
(***************************************************************************)
(* replayToIndex (packages/core/src/replay.ts): the state of every         *)
(* resource, rebuilt from the events of the log up to the one selected.    *)
(* `ctx' is the ReplayContext after a prefix of the log; the next event    *)
(* is any event a log can hold, so every log is a behaviour.               *)
(*                                                                         *)
(* What a reducer makes of a state is the subject of Channels; here a      *)
(* state is the list of the server sequence numbers whose actions were     *)
(* applied to it since its snapshot.                                       *)
(***************************************************************************)
EXTENDS Integers, KeyedLists

CONSTANTS
  Uri,              \* names of resources
  Kind,             \* the kinds of the snapshots, and with others of the actions
  ActionKind,
  RequestId,
  MaxSeq,           \* bounds: server sequence numbers,
  MaxIntents,       \* client intents,
  MaxPage,          \* and snapshots or actions in one response
  Malformed,        \* what does not decode: a snapshot or an envelope
  None

ASSUME KindAssumption == "unknown" \notin ActionKind /\ "session" \in Kind /\ Kind \subseteq ActionKind
ASSUME BoundAssumption == MaxSeq \in Nat /\ MaxIntents \in Nat /\ MaxPage \in Nat

VARIABLE ctx        \* resources, requests, intents


-----------------------------------------------------------------------------
(* What a log holds. *)

ReplayConfidence == {"complete", "partial", "unknown"}
ServerSeq == 0..MaxSeq

\* What the shape of a state says it is (inferSnapshotKind): the first kind whose fields it has.
SnapshotKind == Kind \cup {"unknown"}

\* What the prefix of an action's type says it acts on (inferKnownActionTarget).
TargetKind == ActionKind \cup {"unknown"}

\* `legacy': a combined session state of an old protocol, of kind "session" too.
Snapshot ==
  {s \in [uri : Uri, kind : SnapshotKind, fromSeq : ServerSeq, legacy : BOOLEAN] :
     s.legacy => s.kind = "session"}

\* An action; one whose type the registry does not know acts on nothing known.  `old': one that
\* states of the old protocol understand.
Action ==
  {a \in [kind : TargetKind, old : BOOLEAN] : a.old => a.kind = "session"}

\* origin: the number the client gave the action it dispatched.
ActionEnvelope ==
  [uri : Uri, action : Action, serverSeq : ServerSeq, origin : 1..MaxIntents \cup {None}, rejected : BOOLEAN]

Method == {"initialize", "subscribe", "reconnect", "other"}

\* applied: what the state consists of; diagnosed: whether the resource has diagnostics of its own.
Resource ==
  [id : SnapshotKind \X Uri, fromSeq : ServerSeq, lastServerSeq : ServerSeq,
   applied : Seq(ServerSeq), legacy : BOOLEAN, confidence : ReplayConfidence,
   diagnosed : BOOLEAN]

\* An intent and the action that was taken for its acceptance: the client is not looked at.
Intent == [clientSeq : 1..MaxIntents, acceptedBy : ServerSeq \cup {None}]

TypeOK ==
  /\ ctx.resources \in Seq(Resource)
  /\ DOMAIN ctx.requests \subseteq RequestId
  /\ \A r \in DOMAIN ctx.requests : ctx.requests[r] \in Method
  /\ ctx.intents \in Seq(Intent)

Init ==
  ctx = [resources |-> <<>>, requests |-> <<>>, intents |-> <<>>]

-----------------------------------------------------------------------------
(* Snapshots. *)

\* A snapshot replaces the resource of its kind and name, whatever was known of it.
InstallSnapshot(c, s) ==
  IF s = Malformed THEN c
  ELSE [c EXCEPT !.resources = Upsert(@,
          [id |-> <<s.kind, s.uri>>, fromSeq |-> s.fromSeq, lastServerSeq |-> s.fromSeq,
           applied |-> <<>>, legacy |-> s.legacy,
           confidence |-> IF s.kind = "unknown" THEN "unknown" ELSE "complete",
           diagnosed |-> s.kind = "unknown"])]

\* ... one after the other.
InstallSnapshots(c, snapshots) ==
  LET done[n \in 0..Len(snapshots)] ==
        IF n = 0 THEN c ELSE InstallSnapshot(done[n - 1], snapshots[n])
  IN  done[Len(snapshots)]

-----------------------------------------------------------------------------
(* Envelopes. *)

\* The resource of the action's kind and channel, else the first one of that channel; 0 if none.
ResourceIndex(c, e) ==
  IF <<e.action.kind, e.uri>> \in Ids(c.resources)
  THEN IndexOfId(c.resources, <<e.action.kind, e.uri>>)
  ELSE SelectInSeq(c.resources, LAMBDA r : r.id[2] = e.uri)

\* A diagnostic of a resource lowers its confidence (or raises it from unknown).
AddResourceDiagnostic(r) == [r EXCEPT !.diagnosed = TRUE, !.confidence = "partial"]

\* mutated forms: an old number is taken for a new one; a gap goes unnoticed
AppliesUnlessRepeated(r, n) == n # r.lastServerSeq
GapsUnchecked(r, n) == IF n > r.lastServerSeq THEN r ELSE AddResourceDiagnostic(r)

\* The numbers to apply are the new ones; a gap, a duplicate or an old number is diagnosed.
ShouldApplyServerSeq(r, n) == n > r.lastServerSeq

SeqChecked(r, n) == IF n = r.lastServerSeq + 1 THEN r ELSE AddResourceDiagnostic(r)

\* An action that is new but cannot be applied: its number is taken, the state is in doubt.
Doubted(r, n) ==
  [AddResourceDiagnostic(r) EXCEPT !.lastServerSeq = n, !.confidence = "unknown"]

\* A state of the old protocol ignores an action it does not understand.
LegacyIgnores(r, e) == r.legacy /\ ~e.action.old

\* The reducer of the resource's kind.
Reduced(r, e) ==
  LET moved == [r EXCEPT !.lastServerSeq = e.serverSeq]
  IN  IF LegacyIgnores(r, e) THEN AddResourceDiagnostic(moved)
      ELSE [moved EXCEPT !.applied = Append(@, e.serverSeq)]

Applied(r, e) ==
  IF e.action.kind = "unknown" \/ r.id[1] # e.action.kind THEN Doubted(r, e.serverSeq)
  ELSE Reduced(r, e)

\* The first intent with this clientSeq that is not accepted yet is taken for the one the server
\* accepted.
LinkAcceptedIntent(intents, e) ==
  LET i == IF e.origin = None THEN 0
           ELSE SelectInSeq(intents, LAMBDA x : x.clientSeq = e.origin /\ x.acceptedBy = None)
  IN  IF i = 0 THEN intents ELSE [intents EXCEPT ![i].acceptedBy = e.serverSeq]

ApplyEnvelope(c, e) ==
  LET i == IF e = Malformed THEN 0 ELSE ResourceIndex(c, e)
      r == c.resources[i]
  IN  IF i = 0 THEN c
      ELSE IF e.rejected
      THEN [c EXCEPT !.resources[i] = AddResourceDiagnostic(r)]
      ELSE IF ~ShouldApplyServerSeq(r, e.serverSeq)
      THEN [c EXCEPT !.resources[i] = SeqChecked(r, e.serverSeq)]
      ELSE [c EXCEPT !.resources[i] = Applied(SeqChecked(r, e.serverSeq), e),
                     !.intents = LinkAcceptedIntent(@, e)]

\* ... one after the other.
ApplyEnvelopes(c, envelopes) ==
  LET done[n \in 0..Len(envelopes)] ==
        IF n = 0 THEN c ELSE ApplyEnvelope(done[n - 1], envelopes[n])
  IN  done[Len(envelopes)]

-----------------------------------------------------------------------------
(* Events.  Lines that did not parse, and events of other kinds, change nothing. *)

\* A later request with the same id takes the place of the earlier one, answered or not.
Request(id, method) ==
  ctx' = [ctx EXCEPT !.requests =
            [x \in DOMAIN @ \cup {id} |-> IF x = id THEN method ELSE @[x]]]

\* initialize, and a reconnect whose gap exceeds the server's buffer.
SnapshotsResponse(id, list) ==
  /\ id \in DOMAIN ctx.requests
  /\ ctx.requests[id] \in {"initialize", "reconnect"}
  /\ ctx' = InstallSnapshots(ctx, list)

SubscribeResponse(id, s) ==
  /\ id \in DOMAIN ctx.requests
  /\ ctx.requests[id] = "subscribe"
  /\ ctx' = InstallSnapshot(ctx, s)

\* The missed actions in their order, malformed ones skipped; resources that could not be resumed
\* are only reported.
ReplayResponse(id, envelopes) ==
  /\ id \in DOMAIN ctx.requests
  /\ ctx.requests[id] = "reconnect"
  /\ ctx' = ApplyEnvelopes(ctx, envelopes)

DispatchAction(clientSeq) ==
  /\ Len(ctx.intents) < MaxIntents
  /\ ctx' = [ctx EXCEPT !.intents =
               Append(@, [clientSeq |-> clientSeq, acceptedBy |-> None])]

ServerAction(e) == ctx' = ApplyEnvelope(ctx, e)

-----------------------------------------------------------------------------
\* What a server replays to one client: actions it accepted, from nobody in particular.
Replayed == {Malformed} \cup {e \in ActionEnvelope : ~e.rejected /\ e.origin = None /\ ~e.action.old}

Next ==
  \/ \E id \in RequestId, method \in Method : Request(id, method)
  \/ \E id \in RequestId :
       \/ \E list \in BoundedSeq(Snapshot \cup {Malformed}, MaxPage) : SnapshotsResponse(id, list)
       \/ \E s \in Snapshot \cup {Malformed} : SubscribeResponse(id, s)
       \/ \E list \in BoundedSeq(Replayed, MaxPage) : ReplayResponse(id, list)
  \/ \E n \in 1..MaxIntents : DispatchAction(n)
  \/ \E e \in ActionEnvelope : ServerAction(e)

Spec == Init /\ [][Next]_ctx

-----------------------------------------------------------------------------
(* Properties. *)

\* The state is the snapshot and every action since, in order and none missing.
Contiguous(r) ==
  r.applied = [k \in 1..(r.lastServerSeq - r.fromSeq) |-> r.fromSeq + k]

\* A resource shown as complete is its snapshot and every action since, in order and none missing:
\* no gap, duplicate, rejection, unknown or misdirected action is forgotten by a later one.
CompleteIsContiguous ==
  \A i \in DOMAIN ctx.resources :
    LET r == ctx.resources[i]
    IN  ~r.diagnosed \/ r.confidence = "complete" => Contiguous(r)

\* No action is applied twice or after a later one, whatever the log repeats or reorders, and a
\* resource is listed once.
AppliedOnceInOrder ==
  /\ DistinctIds(ctx.resources)
  /\ \A i \in DOMAIN ctx.resources :
       LET r == ctx.resources[i]
       IN  /\ \A j, k \in DOMAIN r.applied : j < k => r.applied[j] < r.applied[k]
           /\ \A k \in DOMAIN r.applied : r.applied[k] \in r.fromSeq + 1..r.lastServerSeq

\* A step takes nothing back: short of a new snapshot a resource never regains confidence, loses
\* what was applied or goes back in the sequence; an intent accepted stays accepted by that action.
NothingIsTakenBack ==
  /\ \A i \in DOMAIN ctx.resources :
       LET r == ctx.resources[i]
           q == ctx'.resources[i]
       IN  \/ q.applied = <<>> /\ q.lastServerSeq = q.fromSeq
           \/ /\ r.confidence # "complete" => q.confidence # "complete"
              /\ r.diagnosed => q.diagnosed
              /\ IsPrefix(r.applied, q.applied)
              /\ r.lastServerSeq <= q.lastServerSeq
  /\ \A i \in DOMAIN ctx.intents :
       /\ i \in DOMAIN ctx'.intents
       /\ ctx.intents[i].acceptedBy # None => ctx'.intents[i] = ctx.intents[i]

\* The history of a resource is kept: whatever the log repeats, reorders or skips, each action is
\* applied once and in its turn, and no step takes any of it back.
HistoryIsKept == [][AppliedOnceInOrder' /\ NothingIsTakenBack]_ctx

=============================================================================
