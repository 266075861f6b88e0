------------------------------ MODULE AppState ------------------------------
(***************************************************************************)
(* One open log on the server (packages/server/src/app-state.ts): the      *)
(* callbacks the log reader calls, the flush ticker, subscribe, dispose.   *)
(* Every callback runs to its end before another, so each is one step.     *)
(*                                                                         *)
(* A line is taken after parsing and normalisation: an Event of module     *)
(* Correlator.  A row is the part of the displayed row that can change     *)
(* after the append.  Watch errors are numbered in the order they occur.   *)
(***************************************************************************)
EXTENDS RowFrames

CONSTANTS
  Id, MAX_PENDING, Timeout, MaxTime, MaxEvents,  \* see Correlator
  MAX_STICKY_WATCH_ERRORS,  \* errors kept for later subscribers
  MaxErrors                 \* bound: number of watch errors

ASSUME StickyAssumption == MAX_STICKY_WATCH_ERRORS \in Nat \ {0}
ASSUME MaxErrorsAssumption == MaxErrors \in Nat

VARIABLES
  events, cor,      \* the EventStore and the Correlator
  rows,             \* rows as shown
  out,              \* frames emitted by the last step
  phase,            \* initialReadPhase
  watchErrors,      \* sticky errors
  errorCount,       \* number of errors so far (they are named 1..errorCount)
  oversizedWarningActive,
  subscribed,       \* whether one given listener is subscribed
  heard,            \* the errors it has been told
  now,              \* Date.now()
  life              \* "open", "closing" (dispose called) or "closed"

C == INSTANCE Correlator
R == INSTANCE RowSource WITH rows <- rows, out <- out

ingestVars == <<events, cor, rows>>
errorVars  == <<watchErrors, errorCount, oversizedWarningActive, subscribed, heard>>
vars == <<events, cor, rows, out, phase, watchErrors, errorCount,
          oversizedWarningActive, subscribed, heard, now, life>>

Phase == {"idle", "loading", "complete"}
MaxClock == MaxTime + Timeout  \* bound: the clock stops when all has timed out

-----------------------------------------------------------------------------
(* Rows and patches.                                                       *)

latencyOf(c, i) == IF c.latencyMs[i] < 0 THEN -1 ELSE c.latencyMs[i]

buildRow(c, i) == [status    |-> c.status[i],
                   latencyMs |-> latencyOf(c, i),
                   pairIdx   |-> c.pairIdx[i]]

buildPatchUpdates(c, indexes) ==
  LET stale == {i \in indexes \cap DOMAIN rows : rows[i] # buildRow(c, i)}
  IN  [i \in stale |-> buildRow(c, i)]

patchFrames(updates) ==
  IF DOMAIN updates = {} THEN <<>> ELSE <<PatchFrame(updates)>>

\* store.append(ev) with its two subscribers, the Correlator first
ingestLine(ev) ==
  LET evs     == Append(events, ev)
      i       == Len(evs)
      c       == C!OnAppend(cor, evs, i)
      updates == buildPatchUpdates(c, {j \in c.changedIndexes : j < i})
  IN  [events |-> evs,
       cor    |-> C!Drained(c),
       rows   |-> Append(Patched(rows, updates), buildRow(c, i)),
       frames |-> <<AppendFrame(i, <<buildRow(c, i)>>)>> \o patchFrames(updates)]

Ingested(ingest) == /\ events' = ingest.events
                    /\ cor' = ingest.cor
                    /\ rows' = ingest.rows

-----------------------------------------------------------------------------
(* emit: sticky errors, and the listeners.                                 *)

LastOf(s, n) == SubSeq(s, IF Len(s) > n THEN Len(s) - n + 1 ELSE 1, Len(s))

\* no watch-error among the frames
EmitQuiet(frames) ==
  /\ out' = frames
  /\ UNCHANGED <<watchErrors, errorCount, subscribed, heard>>

\* one watch-error, then the other frames
EmitError(frames) ==
  LET n == errorCount + 1
  IN  /\ errorCount < MaxErrors
      /\ errorCount' = n
      /\ out' = <<WatchErrorFrame(n)>> \o frames
      /\ watchErrors' = LastOf(Append(watchErrors, n), MAX_STICKY_WATCH_ERRORS)
      /\ heard' = IF subscribed THEN Append(heard, n) ELSE heard
      /\ UNCHANGED subscribed

\* bytes of an oversized line dropped; "terminated": its newline was dropped too
onOversizedBytes(terminated, frames) ==
  /\ IF oversizedWarningActive THEN EmitQuiet(frames) ELSE EmitError(frames)
  /\ oversizedWarningActive' = ~terminated

-----------------------------------------------------------------------------
(* The callbacks of watchLog.                                              *)

onInitialReadStart ==
  /\ life # "closed"
  /\ phase' = "loading"
  /\ EmitQuiet(<<ProgressFrame("loading")>>)
  /\ UNCHANGED <<ingestVars, oversizedWarningActive, now, life>>

\* the splitter's checkpoint drops an oversized tail, or a complete JSON value
\* without a newline is ingested as a line, or neither
onInitialReadComplete ==
  /\ life # "closed"
  /\ phase' = "complete"
  /\ \/ /\ onOversizedBytes(FALSE, <<ProgressFrame("complete")>>)
        /\ UNCHANGED ingestVars
     \/ \E ev \in C!Event :
          LET ingest == ingestLine(ev)
          IN  /\ Len(events) < MaxEvents
              /\ Ingested(ingest)
              /\ EmitQuiet(ingest.frames \o <<ProgressFrame("complete")>>)
              /\ UNCHANGED oversizedWarningActive
     \/ /\ EmitQuiet(<<ProgressFrame("complete")>>)
        /\ UNCHANGED <<ingestVars, oversizedWarningActive>>
  /\ UNCHANGED <<now, life>>

\* one complete line of a chunk
onChunkLine(ev) ==
  LET ingest == ingestLine(ev)
  IN  /\ life = "open"
      /\ Len(events) < MaxEvents
      /\ Ingested(ingest)
      /\ EmitQuiet(ingest.frames)
      /\ UNCHANGED <<phase, oversizedWarningActive, now, life>>

\* a run of bytes of an oversized line in a chunk
onChunkOversized(terminated) ==
  /\ life = "open"
  /\ onOversizedBytes(terminated, <<>>)
  /\ UNCHANGED <<ingestVars, phase, now, life>>

\* mutated form: the rotation is not announced
onResetUnannounced ==
  /\ life # "closed"
  /\ oversizedWarningActive' = FALSE
  /\ events' = <<>>
  /\ cor' = C!NoCorrelation
  /\ rows' = <<>>
  /\ watchErrors' = <<>>
  /\ phase' = "idle"
  /\ out' = <<ProgressFrame("idle")>>
  /\ UNCHANGED <<errorCount, subscribed, heard, now, life>>

onReset ==
  /\ life # "closed"
  /\ oversizedWarningActive' = FALSE
  /\ events' = <<>>
  /\ cor' = C!NoCorrelation
  /\ rows' = <<>>
  /\ watchErrors' = <<>>
  /\ phase' = "idle"
  /\ out' = <<ProgressFrame("idle"), RotationFrame>>
  /\ UNCHANGED <<errorCount, subscribed, heard, now, life>>

onError ==
  /\ life # "closed"
  /\ EmitError(<<>>)
  /\ UNCHANGED <<ingestVars, phase, oversizedWarningActive, now, life>>

-----------------------------------------------------------------------------
(* The ticker and the public methods.                                      *)

runFlush ==
  LET c       == C!FlushAt(cor, events, now)
      updates == buildPatchUpdates(c, c.changedIndexes)
  IN  /\ life = "open"
      /\ cor' = C!Drained(c)
      /\ rows' = Patched(rows, updates)
      /\ EmitQuiet(patchFrames(updates))
      /\ UNCHANGED <<events, phase, oversizedWarningActive, now, life>>

Tick ==
  /\ now < MaxClock
  /\ now' = now + 1
  /\ EmitQuiet(<<>>)
  /\ UNCHANGED <<ingestVars, phase, oversizedWarningActive, life>>

\* mutated form: nothing is replayed
subscribeUntold ==
  /\ life # "closed"
  /\ ~subscribed
  /\ subscribed' = TRUE
  /\ heard' = <<>>
  /\ out' = <<>>
  /\ UNCHANGED <<ingestVars, phase, watchErrors, errorCount,
                 oversizedWarningActive, now, life>>

\* the sticky errors are replayed to the new listener alone
subscribe ==
  /\ life # "closed"
  /\ ~subscribed
  /\ subscribed' = TRUE
  /\ heard' = watchErrors
  /\ out' = <<>>
  /\ UNCHANGED <<ingestVars, phase, watchErrors, errorCount,
                 oversizedWarningActive, now, life>>

unsubscribe ==
  /\ subscribed
  /\ subscribed' = FALSE
  /\ heard' = <<>>
  /\ out' = <<>>
  /\ UNCHANGED <<ingestVars, phase, watchErrors, errorCount,
                 oversizedWarningActive, now, life>>

\* the ticker stops; the reader is asked to stop
dispose ==
  /\ life = "open"
  /\ life' = "closing"
  /\ EmitQuiet(<<>>)
  /\ UNCHANGED <<ingestVars, phase, oversizedWarningActive, now>>

\* host.close has returned: the subscriptions to the store end, the
\* correlator's maps and the listeners are cleared
disposed ==
  /\ life = "closing"
  /\ life' = "closed"
  /\ cor' = [cor EXCEPT !.pendingRequests = <<>>, !.pendingResponses = <<>>]
  /\ subscribed' = FALSE
  /\ heard' = <<>>
  /\ out' = <<>>
  /\ UNCHANGED <<events, rows, phase, watchErrors, errorCount,
                 oversizedWarningActive, now>>

-----------------------------------------------------------------------------

Init ==
  /\ events = <<>> /\ cor = C!NoCorrelation /\ rows = <<>> /\ out = <<>>
  /\ phase = "idle"
  /\ watchErrors = <<>> /\ errorCount = 0 /\ oversizedWarningActive = FALSE
  /\ subscribed = FALSE /\ heard = <<>>
  /\ now = 0
  /\ life = "open"

Next ==
  \/ onInitialReadStart \/ onInitialReadComplete
  \/ \E ev \in C!Event : onChunkLine(ev)
  \/ \E terminated \in BOOLEAN : onChunkOversized(terminated)
  \/ onReset \/ onError
  \/ runFlush \/ Tick
  \/ subscribe \/ unsubscribe
  \/ dispose \/ disposed

\* the ticker and the clock go on as long as the log is open
Fairness == WF_vars(runFlush) /\ WF_vars(Tick)

Spec == Init /\ [][Next]_vars /\ Fairness

-----------------------------------------------------------------------------
(* Properties.                                                             *)

\* Every change of the correlator is drained by the step that makes it; errors
\* kept and heard are errors that occurred, and the sticky buffer keeps its cap.
TypeOK ==
  /\ events \in Seq(C!Event)
  /\ cor.changedIndexes = {}
  /\ phase \in Phase /\ life \in {"open", "closing", "closed"} /\ now \in Nat
  /\ subscribed \in BOOLEAN /\ oversizedWarningActive \in BOOLEAN
  /\ errorCount \in 0..MaxErrors
  /\ watchErrors \in Seq(1..errorCount) /\ Len(watchErrors) <= MAX_STICKY_WATCH_ERRORS
  /\ heard \in Seq(1..errorCount)

\* Every row shows what the correlator holds for its event, though a row is
\* only rebuilt when its index was reported changed: no change of status, pair
\* or latency is lost by the change set, the filter on new rows or the reset.
RowsMirrorCorrelator ==
  /\ DOMAIN rows = DOMAIN events
  /\ \A i \in DOMAIN rows : rows[i] = buildRow(cor, i)

\* A subscriber, whenever it joined, has been told every error of the current
\* file that is still kept, each exactly once and in order (the comment on
\* subscribe, app-state.ts:510-514).
ErrorsHeardOnce ==
  subscribed =>
    /\ \A m, n \in DOMAIN heard : m < n => heard[m] < heard[n]
    /\ ToSet(watchErrors) \subseteq ToSet(heard)

\* The rows change only as the emitted frames say (refinement of RowSource).
RowsFollowFrames == R!Spec

\* While the log stays open, no row shows "pending" for ever.
PendingSettles ==
  \A i \in 1..MaxEvents :
    (i \in DOMAIN rows /\ rows[i].status = "pending")
      ~> (life # "open" \/ i \notin DOMAIN rows \/ rows[i].status # "pending")

=============================================================================
