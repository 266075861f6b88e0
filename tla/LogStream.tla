------------------------------ MODULE LogStream ------------------------------
(***************************************************************************)
(* GET /api/log/stream (packages/server/src/sse-routes.ts): the streams    *)
(* that carry one open log to its readers.                                 *)
(*                                                                         *)
(* The handler of a stream is one coroutine.  "pc" names the await it is   *)
(* suspended at, and an action is what runs when that await returns, up to *)
(* the next await.  Between two such steps the log emits frames, which the *)
(* listener of the stream queues at once, the session may be replaced, and *)
(* the reader may go away.                                                 *)
(*                                                                         *)
(* The log is a RowSource whose rows are told apart by the file revision   *)
(* and the number of patches; the reader places what it receives by        *)
(* position (packages/ui/src/state/store.ts, not paused).                  *)
(***************************************************************************)
EXTENDS RowFrames, FiniteSets

CONSTANTS
  Stream,               \* streams ever opened
  MAX_SSE_CONNECTIONS,  \* streams open at a time
  SNAPSHOT_CHUNK,       \* rows in a snapshot chunk
  maxBytes, maxFrames, maxRows,  \* limits of what a stream may owe its reader
  Rival,       \* bound: streams that only open on a log that stays empty
  MaxRows,     \* bound: rows in the log
  MaxPatches,  \* bound: patches of a row
  MaxFiles,    \* bound: rotations and session changes
  MaxErrors    \* bound: watch errors in a queue

ASSUME CapAssumption == MAX_SSE_CONNECTIONS \in Nat \ {0}
ASSUME ChunkAssumption == SNAPSHOT_CHUNK \in Nat \ {0}
ASSUME RivalAssumption == Rival \subseteq Stream
ASSUME LimitsAssumption == {maxBytes, maxFrames, maxRows} \subseteq Nat
ASSUME BoundsAssumption == {MaxRows, MaxPatches, MaxFiles, MaxErrors} \subseteq Nat

VARIABLES
  rows,           \* rows of the log
  phase,          \* its load phase
  file,           \* revision of the file shown
  activeStreams,  \* the counter of open streams
  stream,         \* the handlers
  view            \* what each reader has

vars == <<rows, phase, file, activeStreams, stream, view>>

Phase == {"idle", "loading", "complete"}
Row(f, n) == [file |-> f, patches |-> n]
Rows == [file : 0..MaxFiles, patches : 0..MaxPatches]

-----------------------------------------------------------------------------
(* Frames in the queue of a stream.                                        *)

payloadRowCount(payload) ==
  CASE payload.kind \in {"append", "snapshot-chunk"} -> Len(payload.rows)
    [] payload.kind = "patch" -> Cardinality(DOMAIN payload.updates)
    [] OTHER -> 0

\* a frame weighs one byte for its envelope and one for each row
HeaderBytes == 1
byteLength(frame) == HeaderBytes + frame.rowCount

makeQueuedFrame(payload) ==
  [payload |-> payload, rowCount |-> payloadRowCount(payload), coalesced |-> FALSE]

SameKind(p, q, kind) == p.kind = kind /\ q.kind = kind

Mergeable(p, q) ==
  \/ SameKind(p, q, "append") /\ p.from + Len(p.rows) = q.from
  \/ SameKind(p, q, "patch")
  \/ SameKind(p, q, "load-progress")

\* of two updates of a row the later stands
BothUpdates(first, second) ==
  [i \in DOMAIN first \cup DOMAIN second |->
     IF i \in DOMAIN second THEN second[i] ELSE first[i]]

coalescePayloads(p, q) ==
  CASE p.kind = "append" -> AppendFrame(p.from, p.rows \o q.rows)
    [] p.kind = "patch"  -> PatchFrame(BothUpdates(p.updates, q.updates))
    [] OTHER             -> q

\* progress frames replace one another; of rows only a pair is ever merged
canCoalesce(last, payload) ==
  IF last.payload.kind = "load-progress" THEN payload.kind = "load-progress"
                                         ELSE ~last.coalesced

\* both lists of updates travel, so their lengths add up
Replacement(last, payload) ==
  [payload   |-> coalescePayloads(last.payload, payload),
   rowCount  |-> IF payload.kind = "load-progress" THEN 0
                 ELSE last.rowCount + payloadRowCount(payload),
   coalesced |-> TRUE]

-----------------------------------------------------------------------------
(* The handler's local functions, on its variables s.                      *)

NoPayload == [kind |-> "none"]

\* not open: never opened, or closed
Idle == [pc |-> "closed", snap |-> <<>>, snapPhase |-> "idle", next |-> 1,
         queue |-> <<>>, pendingBytes |-> 0, pendingFrames |-> 0, pendingRows |-> 0,
         heartbeatDue |-> FALSE, endReason |-> "none", aborted |-> FALSE,
         writing |-> NoPayload]

Ended(s) == s.endReason # "none" \/ s.aborted

Total(weights) ==
  LET sum[n \in 0..Len(weights)] == IF n = 0 THEN 0 ELSE sum[n - 1] + weights[n]
  IN  sum[Len(weights)]

SumOf(op(_), queue) == Total([n \in DOMAIN queue |-> op(queue[n])])
rowCountOf(frame) == frame.rowCount

\* mutated form: what is being written is written off too
clearAllFrames(s) ==
  [s EXCEPT !.pendingBytes = 0, !.pendingFrames = 0, !.pendingRows = 0, !.queue = <<>>]

clearQueuedFrames(s) ==
  [s EXCEPT !.pendingBytes = @ - SumOf(byteLength, s.queue),
            !.pendingFrames = @ - Len(s.queue),
            !.pendingRows = @ - SumOf(rowCountOf, s.queue),
            !.queue = <<>>]

\* the first reason stands; from then on the listener is detached
requestEnd(s, reason) ==
  IF s.pc = "closed" \/ s.endReason # "none" THEN s
  ELSE [clearQueuedFrames(s) EXCEPT !.endReason = reason]

exceedsLimits(s) == \/ s.pendingBytes > maxBytes
                    \/ s.pendingFrames > maxFrames
                    \/ s.pendingRows > maxRows

Merged(s, payload) ==
  LET last == Last(s.queue)
      new  == Replacement(last, payload)
  IN  [s EXCEPT !.queue = Append(Front(@), new),
                !.pendingBytes = @ - byteLength(last) + byteLength(new),
                !.pendingRows = @ - last.rowCount + new.rowCount]

Pushed(s, payload) ==
  LET new == makeQueuedFrame(payload)
  IN  [s EXCEPT !.queue = Append(@, new),
                !.pendingBytes = @ + byteLength(new),
                !.pendingFrames = @ + 1,
                !.pendingRows = @ + new.rowCount]

\* mutated form: the listener is attached after the snapshot
enqueueAfterSnapshot(s, payload) ==
  LET merges == /\ s.queue # <<>>
                /\ canCoalesce(Last(s.queue), payload)
                /\ Mergeable(Last(s.queue).payload, payload)
      grown  == IF merges THEN Merged(s, payload) ELSE Pushed(s, payload)
  IN  IF s.pc \in {"closed", "begin", "chunk", "sleep"} \/ s.endReason # "none" THEN s
      ELSE IF exceedsLimits(grown) THEN requestEnd(s, "overflow")
      ELSE grown

enqueue(s, payload) ==
  LET merges == /\ s.queue # <<>>
                /\ canCoalesce(Last(s.queue), payload)
                /\ Mergeable(Last(s.queue).payload, payload)
      grown  == IF merges THEN Merged(s, payload) ELSE Pushed(s, payload)
  IN  IF s.pc = "closed" \/ s.endReason # "none" THEN s
      ELSE IF exceedsLimits(grown) THEN requestEnd(s, "overflow")
      ELSE grown

Await(s, pc, payload) == [s EXCEPT !.pc = pc, !.writing = payload]

\* the finally clause; the other locals end with the handler
Finally(s) ==
  LET t == clearQueuedFrames(s)
  IN  [Idle EXCEPT !.pendingBytes = t.pendingBytes, !.pendingFrames = t.pendingFrames,
                   !.pendingRows = t.pendingRows,
                   !.endReason = t.endReason, !.aborted = t.aborted]

\* mutated form: an overflow closes the stream without a word
writeTerminationSilently(s) ==
  IF s.aborted \/ s.endReason \in {"abort", "overflow"} THEN Finally(s)
  ELSE Await(s, "log-reset", [kind |-> "log-reset"])

writeTermination(s) ==
  IF s.aborted \/ s.endReason = "abort" THEN Finally(s)
  ELSE IF s.endReason = "overflow" THEN Await(s, "error", [kind |-> "error"])
  ELSE Await(s, "log-reset", [kind |-> "log-reset"])

NextChunk(s) ==
  IF s.next > Len(s.snap) THEN Await(s, "end", [kind |-> "snapshot-end"])
  ELSE Await(s, "chunk",
             [kind |-> "snapshot-chunk", from |-> s.next,
              rows |-> SubSeq(s.snap, s.next,
                              IF s.next + SNAPSHOT_CHUNK - 1 < Len(s.snap)
                              THEN s.next + SNAPSHOT_CHUNK - 1 ELSE Len(s.snap))])

\* queue.shift() and the write of the frame; what is written stays pending
Shift(s, pc) == Await([s EXCEPT !.queue = Tail(@)], pc, Head(s.queue))

Settle(s) ==
  [s EXCEPT !.pendingBytes = @ - byteLength(s.writing),
            !.pendingFrames = @ - 1,
            !.pendingRows = @ - s.writing.rowCount]

\* the while loop of the live stream, up to its next await
LiveLoop(s) ==
  CASE Ended(s)        -> writeTermination(s)
    [] ~Ended(s) /\ s.queue # <<>> -> Shift(s, "drain")
    [] ~Ended(s) /\ s.queue = <<>> /\ s.heartbeatDue ->
         Await([s EXCEPT !.heartbeatDue = FALSE], "ping", [kind |-> "ping"])
    [] OTHER           -> Await(s, "wait", NoPayload)

\* after the snapshot: the frames queued meanwhile, announced, then the loop
Baseline(s) ==
  CASE Ended(s) -> writeTermination(s)
    [] ~Ended(s) /\ s.queue # <<>> -> Await(s, "backlog", [kind |-> "stream-backlog"])
    [] OTHER -> LiveLoop(s)

DrainBacklog(s) ==
  CASE Ended(s) -> writeTermination(s)
    [] ~Ended(s) /\ s.queue # <<>> -> Shift(s, "drain-backlog")
    [] OTHER -> Await(s, "backlog-done", [kind |-> "stream-backlog"])

-----------------------------------------------------------------------------
(* The reader of a stream: the rows and phase it shows, and the last word  *)
(* it had about the stream itself.                                         *)

NoView == [rows |-> <<>>, phase |-> "idle", state |-> "connecting"]

\* mutated form: a rotation leaves the rows in place
ReceiveKeepsRows(v, payload) ==
  CASE payload.kind = "snapshot-begin" -> [v EXCEPT !.rows = <<>>]
    [] payload.kind = "snapshot-chunk" ->
         [v EXCEPT !.rows = Placed(@, payload.from, payload.rows)]
    [] payload.kind = "snapshot-end"   -> [v EXCEPT !.state = "connected"]
    [] payload.kind = "load-progress"  -> [v EXCEPT !.phase = payload.phase]
    [] payload.kind = "rotation"       -> [v EXCEPT !.phase = "idle"]
    [] payload.kind = "log-reset"      -> [NoView EXCEPT !.state = "reset"]
    [] payload.kind = "bye"            -> [v EXCEPT !.state = "disconnected"]
    [] OTHER                           -> [v EXCEPT !.rows = Apply(@, payload)]

Receive(v, payload) ==
  CASE payload.kind = "snapshot-begin" -> [v EXCEPT !.rows = <<>>]
    [] payload.kind = "snapshot-chunk" ->
         [v EXCEPT !.rows = Placed(@, payload.from, payload.rows)]
    [] payload.kind = "snapshot-end"   -> [v EXCEPT !.state = "connected"]
    [] payload.kind = "load-progress"  -> [v EXCEPT !.phase = payload.phase]
    [] payload.kind = "rotation"       -> [v EXCEPT !.rows = <<>>, !.phase = "idle"]
    [] payload.kind = "log-reset"      -> [NoView EXCEPT !.state = "reset"]
    [] payload.kind = "bye"            -> [v EXCEPT !.state = "disconnected"]
    [] OTHER                           -> [v EXCEPT !.rows = Apply(@, payload)]

\* the payloads reach the reader one after the other
Received(v, payloads) ==
  LET after[n \in 0..Len(payloads)] ==
        IF n = 0 THEN v ELSE Receive(after[n - 1], payloads[n])
  IN  after[Len(payloads)]

PayloadOf(writing) == IF "payload" \in DOMAIN writing THEN writing.payload ELSE writing

-----------------------------------------------------------------------------
(* The log.                                                                *)

Emitted(payload) == stream' = [c \in Stream |-> enqueue(stream[c], payload)]

SourceAppend ==
  /\ Len(rows) < MaxRows
  /\ \A c \in Rival : stream[c] = Idle
  /\ rows' = Append(rows, Row(file, 0))
  /\ Emitted(AppendFrame(Len(rows) + 1, <<Row(file, 0)>>))
  /\ UNCHANGED <<phase, file, activeStreams, view>>

SourcePatch(i) ==
  /\ rows[i].patches < MaxPatches
  /\ LET patch == RowPatch(i, Row(file, rows[i].patches + 1))
     IN  /\ rows' = Patched(rows, patch.updates)
         /\ Emitted(patch)
  /\ UNCHANGED <<phase, file, activeStreams, view>>

SourceProgress(p) ==
  /\ phase' = p
  /\ Emitted(ProgressFrame(p))
  /\ UNCHANGED <<rows, file, activeStreams, view>>

\* the file could not be watched or read
WatchError == WatchErrorFrame("WATCH_ERROR")

ErrorsIn(queue) == Cardinality({n \in DOMAIN queue : queue[n].payload = WatchError})

SourceError ==
  /\ \A c \in Stream : ErrorsIn(stream[c].queue) < MaxErrors
  /\ Emitted(WatchError)
  /\ UNCHANGED <<rows, phase, file, activeStreams, view>>

SourceRotation ==
  /\ file < MaxFiles
  /\ file' = file + 1
  /\ rows' = <<>>
  /\ phase' = "idle"
  /\ stream' = [c \in Stream |->
       enqueue(enqueue(stream[c], ProgressFrame("idle")), RotationFrame)]
  /\ UNCHANGED <<activeStreams, view>>

\* sessions.onChange: another log is open from now on
SessionChange ==
  /\ file < MaxFiles
  /\ file' = file + 1
  /\ rows' = <<>>
  /\ phase' = "idle"
  /\ stream' = [c \in Stream |-> requestEnd(stream[c], "reset")]
  /\ UNCHANGED <<activeStreams, view>>

-----------------------------------------------------------------------------
(* The streams.                                                            *)

\* subscribe tells the new listener the errors kept, one after the other
Replayed(s, errors) ==
  LET after[n \in 0..errors] == IF n = 0 THEN s ELSE enqueue(after[n - 1], WatchError)
  IN  after[errors]

\* subscribe and snapshot in one step, then the write of snapshot-begin; over
\* the cap the request is refused with 503
Open(c) ==
  /\ stream[c] = Idle
  /\ c \in Rival => rows = <<>>
  /\ activeStreams < MAX_SSE_CONNECTIONS
  /\ activeStreams' = activeStreams + 1
  /\ \E errors \in 0..MaxErrors :
       stream' = [stream EXCEPT ![c] =
         Replayed(Await([Idle EXCEPT !.snap = rows, !.snapPhase = phase],
                        "begin", [kind |-> "snapshot-begin"]), errors)]
  /\ view' = [view EXCEPT ![c] = NoView]
  /\ UNCHANGED <<rows, phase, file>>

\* the await returns, its frame (if it wrote one) has reached the reader, and
\* the handler runs on to state s
Resume(c, s) ==
  /\ stream' = [stream EXCEPT ![c] = s]
  /\ activeStreams' = IF s.pc = "closed" THEN activeStreams - 1 ELSE activeStreams
  /\ view' = IF stream[c].aborted THEN view
             ELSE [view EXCEPT ![c] = Receive(@, PayloadOf(stream[c].writing))]
  /\ UNCHANGED <<rows, phase, file>>

At(c, pc) == stream[c].pc = pc

SnapshotBegun(c) ==
  /\ At(c, "begin")
  /\ Resume(c, IF Ended(stream[c]) THEN writeTermination(stream[c])
                                   ELSE NextChunk(stream[c]))

ChunkWritten(c) ==
  /\ At(c, "chunk")
  /\ Resume(c, IF Ended(stream[c]) THEN writeTermination(stream[c])
               ELSE Await([stream[c] EXCEPT !.next = @ + SNAPSHOT_CHUNK],
                          "sleep", NoPayload))

\* stream.sleep(0); the next chunk follows without another look at endReason
Slept(c) == At(c, "sleep") /\ Resume(c, NextChunk(stream[c]))

SnapshotEnded(c) ==
  /\ At(c, "end")
  /\ Resume(c, IF stream[c].snapPhase # "idle"
               THEN Await(stream[c], "progress", ProgressFrame(stream[c].snapPhase))
               ELSE Baseline(stream[c]))

ProgressWritten(c) == At(c, "progress") /\ Resume(c, Baseline(stream[c]))

BacklogAnnounced(c) == At(c, "backlog") /\ Resume(c, DrainBacklog(stream[c]))

BacklogFrameWritten(c) ==
  At(c, "drain-backlog") /\ Resume(c, DrainBacklog(Settle(stream[c])))

BacklogDone(c) == At(c, "backlog-done") /\ Resume(c, LiveLoop(stream[c]))

FrameWritten(c) == At(c, "drain") /\ Resume(c, LiveLoop(Settle(stream[c])))

\* mutated forms: a frame queued, or the end requested, wakes nobody
WokenByHeartbeat(c) ==
  /\ At(c, "wait")
  /\ stream[c].heartbeatDue \/ Ended(stream[c])
  /\ Resume(c, LiveLoop(stream[c]))

WokenByWork(c) ==
  /\ At(c, "wait")
  /\ stream[c].queue # <<>> \/ stream[c].heartbeatDue
  /\ Resume(c, LiveLoop(stream[c]))

\* waitForWork returns once notify was called with something to do
Woken(c) ==
  /\ At(c, "wait")
  /\ stream[c].queue # <<>> \/ stream[c].heartbeatDue \/ Ended(stream[c])
  /\ Resume(c, LiveLoop(stream[c]))

PingWritten(c) == At(c, "ping") /\ Resume(c, LiveLoop(stream[c]))

ErrorWritten(c) ==
  At(c, "error") /\ Resume(c, Await(stream[c], "log-reset", [kind |-> "log-reset"]))

ResetWritten(c) ==
  At(c, "log-reset") /\ Resume(c, Await(stream[c], "bye", [kind |-> "bye"]))

ByeWritten(c) == At(c, "bye") /\ Resume(c, Finally(stream[c]))

Step(c) ==
  \/ SnapshotBegun(c) \/ ChunkWritten(c) \/ Slept(c) \/ SnapshotEnded(c)
  \/ ProgressWritten(c)
  \/ BacklogAnnounced(c) \/ BacklogFrameWritten(c) \/ BacklogDone(c)
  \/ FrameWritten(c) \/ Woken(c) \/ PingWritten(c)
  \/ ErrorWritten(c) \/ ResetWritten(c) \/ ByeWritten(c)

\* the interval timer exists only while the live loop runs
HeartbeatDue(c) ==
  /\ stream[c].pc \in {"wait", "drain", "ping"}
  /\ ~stream[c].heartbeatDue
  /\ stream' = [stream EXCEPT ![c].heartbeatDue = TRUE]
  /\ UNCHANGED <<rows, phase, file, activeStreams, view>>

\* the reader closes the connection; what it shows is not followed any more
Abort(c) ==
  /\ stream[c].pc # "closed"
  /\ ~stream[c].aborted
  /\ stream' = [stream EXCEPT ![c] =
       [requestEnd(@, "abort") EXCEPT !.aborted = TRUE]]
  /\ view' = [view EXCEPT ![c] = NoView]
  /\ UNCHANGED <<rows, phase, file, activeStreams>>

-----------------------------------------------------------------------------

Init ==
  /\ rows = <<>> /\ phase = "idle" /\ file = 0
  /\ activeStreams = 0
  /\ stream = [c \in Stream |-> Idle]
  /\ view = [c \in Stream |-> NoView]

Source ==
  \/ SourceAppend
  \/ \E i \in DOMAIN rows : SourcePatch(i)
  \/ \E p \in {"loading", "complete"} : SourceProgress(p)
  \/ SourceError
  \/ SourceRotation
  \/ SessionChange

Next ==
  \/ Source
  \/ \E c \in Stream : Open(c) \/ Step(c) \/ HeartbeatDue(c) \/ Abort(c)

\* a reader that does not go away reads on, so that every write returns
Fairness == \A c \in Stream : WF_vars(Step(c))

Spec == Init /\ [][Next]_vars /\ Fairness

-----------------------------------------------------------------------------
(* Properties.                                                             *)

IsOpen(c) == stream[c].pc # "closed"
Draining(s) == s.pc \in {"drain", "drain-backlog"}

EndReason == {"none", "abort", "overflow", "reset"}

TypeOK ==
  /\ rows \in Seq(Rows) /\ phase \in Phase /\ file \in 0..MaxFiles
  /\ activeStreams \in 0..MAX_SSE_CONNECTIONS
  /\ \A c \in Stream : /\ stream[c].endReason \in EndReason
                       /\ stream[c].snap \in Seq(Rows)
                       /\ stream[c].heartbeatDue \in BOOLEAN
                       /\ view[c].phase \in Phase

\* the payloads a stream has yet to deliver, in order
SnapshotRest(s) ==
  CASE s.pc \in {"begin", "sleep"} -> s.next
    [] s.pc = "chunk" -> s.next + SNAPSHOT_CHUNK
    [] OTHER -> Len(s.snap) + 1

Owed(s) ==
  <<PayloadOf(s.writing),
    [kind |-> "snapshot-chunk", from |-> SnapshotRest(s),
     rows |-> SubSeq(s.snap, SnapshotRest(s), Len(s.snap))]>>
  \o (IF s.pc \in {"begin", "chunk", "sleep", "end"} /\ s.snapPhase # "idle"
      THEN <<ProgressFrame(s.snapPhase)>> ELSE <<>>)
  \o [n \in DOMAIN s.queue |-> s.queue[n].payload]

\* A live stream owes its reader exactly what separates it from the log: when
\* the rest of the snapshot and the queued frames have been applied in order,
\* the reader shows the rows and the phase of the server, whatever was emitted
\* while the snapshot was on its way and however frames were merged.
NothingLost ==
  \A c \in Stream : (IsOpen(c) /\ ~Ended(stream[c])) =>
    LET v == Received(view[c], Owed(stream[c]))
    IN  v.rows = rows /\ v.phase = phase

\* The three counters a stream is limited by are exactly the frames queued
\* plus the one being written, through every merge, clear and early end, and
\* they stay within the limits.
PendingExact ==
  \A c \in Stream :
    LET s == stream[c]
        inFlight == IF Draining(s) THEN <<s.writing>> ELSE <<>>
        owing == s.queue \o inFlight
    IN  /\ s.pendingFrames = Len(owing)
        /\ s.pendingBytes = SumOf(byteLength, owing)
        /\ s.pendingRows = SumOf(rowCountOf, owing)
        /\ ~exceedsLimits(s)

\* Every stream holds one of the MAX_SSE_CONNECTIONS slots from the request to
\* its finally clause, and gives it back once, however it ends.
SlotsCounted ==
  /\ activeStreams = Cardinality({c \in Stream : IsOpen(c)})
  /\ activeStreams <= MAX_SSE_CONNECTIONS

\* What a stream holds of the server, its slot and its share of the limits, is
\* counted exactly; the state is typed.
CountersExact == TypeOK /\ PendingExact /\ SlotsCounted

\* A reader shows the rows of one file revision, without holes: rows of the
\* file before a rotation never sit beside, or come after, those of the next.
OneFileShown ==
  \A c \in Stream :
    /\ view[c].rows \in Seq(Rows)
    /\ \A i, j \in DOMAIN view[c].rows : view[c].rows[i].file = view[c].rows[j].file

\* A stream that ended with its reader still there has said so, and a reader
\* so told keeps no row of the log ("emit log-reset and bye cleanly",
\* session-manager.ts:3-5).
EndIsTold ==
  \A c \in Stream :
    /\ (~IsOpen(c) /\ stream[c] # Idle /\ ~stream[c].aborted)
         => view[c].state = "disconnected"
    /\ view[c].state \in {"reset", "disconnected"} => view[c].rows = <<>>

\* In a step no row goes back to an earlier state, nor the rows to an earlier
\* file.
NothingGoesBack ==
  \A c \in Stream : \A i \in DOMAIN view[c].rows \cap DOMAIN view'[c].rows :
    LET was == view[c].rows[i]
        is  == view'[c].rows[i]
    IN  \/ is.file > was.file
        \/ is.file = was.file /\ is.patches >= was.patches

\* What a reader shows only advances: rows of one file, which are never those
\* of an earlier one nor older than they were.
ViewOnlyAdvances == [][OneFileShown' /\ NothingGoesBack]_vars

\* Once the log grows no more, a stream that stays open shows all of it.
CatchesUp ==
  \A c \in Stream : <>[](IsOpen(c) => view[c].rows = rows)

\* A stream that has to end (overflow, session change, reader gone) releases
\* its slot, whatever await it was suspended at.
EndedStreamCloses ==
  \A c \in Stream : Ended(stream[c]) ~> ~IsOpen(c)

=============================================================================
