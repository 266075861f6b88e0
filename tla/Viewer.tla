-------------------------------- MODULE Viewer --------------------------------
(***************************************************************************)
(* The browser's end of the event stream: the client of                    *)
(* packages/ui/src/transport/sse-client.ts, which queues row frames for    *)
(* the next animation frame and acts on the others at once, and the store  *)
(* of packages/ui/src/state/store.ts, which holds new rows back while the  *)
(* reader has paused.                                                      *)
(*                                                                         *)
(* One client is connected at a time.  "due" says that a drain of the      *)
(* current generation will run: one that a clear of the queue outdated     *)
(* does nothing.  A page that is hidden gets its frames and no animation   *)
(* frame.  The server is any RowSource; "wire" holds the frames sent and   *)
(* not yet received.                                                       *)
(***************************************************************************)
EXTENDS RowFrames, FiniteSets, FiniteSetsExt

CONSTANTS
  MAX_DRAIN_FRAMES,  \* frames taken from the queue by a drain
  ChunkRows,         \* rows in a snapshot chunk
  MaxRows,           \* bound: rows in the log
  MaxPatches,        \* bound: patches of a row
  MaxFiles,          \* bound: rotations and session changes
  MaxStreams         \* bound: streams opened

ASSUME DrainAssumption == MAX_DRAIN_FRAMES \in Nat \ {0}
ASSUME ChunkAssumption == ChunkRows \in Nat \ {0}
ASSUME BoundAssumption == {MaxRows, MaxPatches, MaxFiles, MaxStreams} \subseteq Nat

VARIABLES
  rows, file,   \* the log, and the revision of the file open
  streams,      \* streams opened so far
  wire,         \* frames on their way
  es,           \* readyState of the EventSource
  client,       \* the client's queue and flags
  view,         \* the store
  shown         \* the page is in view, so that its animation frames are run

vars == <<rows, file, streams, wire, es, client, view, shown>>

Row(i, f, n) == [idx |-> i, file |-> f, patches |-> n]

-----------------------------------------------------------------------------
(* The store.                                                              *)

\* inStep is read by no action: it tells whether the rows held back are still
\* the continuation of those shown
NoView == [rows |-> <<>>, pendingBuffer |-> <<>>, livePaused |-> FALSE,
           connection |-> "connecting", inStep |-> TRUE]

appendSnapshotRows(v, from, newRows) ==
  [v EXCEPT !.rows = Placed(@, from, newRows)]

appendRows(v, from, newRows) ==
  IF v.livePaused THEN [v EXCEPT !.pendingBuffer = @ \o newRows]
                  ELSE [v EXCEPT !.rows = Placed(@, from, newRows)]

\* mutated form: rows held back are not patched
applyPatchShown(v, updates) == [v EXCEPT !.rows = Patched(@, updates)]

\* of the rows held back, the first one with the index
FirstOf(held, n) == \A m \in 1..(n - 1) : held[m].idx # held[n].idx

PatchedFirst(held, updates) ==
  [n \in DOMAIN held |-> IF held[n].idx \in DOMAIN updates /\ FirstOf(held, n)
                         THEN updates[held[n].idx] ELSE held[n]]

applyPatch(v, updates) ==
  [v EXCEPT !.rows = Patched(@, updates),
            !.pendingBuffer = PatchedFirst(@, updates)]

\* the length of an array with holes is one past its last index
LengthOf(rs) == Max(DOMAIN rs \cup {0})

flushPendingBuffer(v) ==
  [v EXCEPT !.rows = Placed(@, LengthOf(@) + 1, v.pendingBuffer),
            !.pendingBuffer = <<>>]

resetForRotation(v) ==
  [v EXCEPT !.rows = <<>>, !.pendingBuffer = <<>>, !.inStep = TRUE]

\* resetForLogSwitch, switchToLog: everything starts anew, following live
logSwitchState(v) == NoView

-----------------------------------------------------------------------------
(* The client.                                                             *)

NewClient == [queue |-> <<>>, drainScheduled |-> FALSE, due |-> FALSE,
              graceful |-> FALSE, hasConnected |-> FALSE]

\* mutated form: the drain that was scheduled is taken for one yet to come
clearQueueOnly(c) == [c EXCEPT !.queue = <<>>, !.due = FALSE]

\* a new generation: the drain scheduled, if any, will do nothing
clearQueuedFrames(c) ==
  [c EXCEPT !.queue = <<>>, !.drainScheduled = FALSE, !.due = FALSE]

scheduleDrain(c) ==
  IF c.drainScheduled \/ c.graceful THEN c
  ELSE [c EXCEPT !.drainScheduled = TRUE, !.due = TRUE]

enqueue(c, frame) == scheduleDrain([c EXCEPT !.queue = Append(@, frame)])

Queued == {"snapshot-chunk", "snapshot-end", "append", "patch"}

\* what drainFrames does with one frame
Drained(v, frame) ==
  CASE frame.kind = "snapshot-chunk" -> appendSnapshotRows(v, frame.from, frame.rows)
    [] frame.kind = "snapshot-end"   -> [v EXCEPT !.connection = "connected"]
    [] frame.kind = "append"         -> appendRows(v, frame.from, frame.rows)
    [] frame.kind = "patch"          -> applyPatch(v, frame.updates)

\* the frames a drain has taken, one after the other
drainFrames(v, frames) ==
  LET done[n \in 0..Len(frames)] ==
        IF n = 0 THEN v ELSE Drained(done[n - 1], frames[n])
  IN  done[Len(frames)]

onError(c, v, ready) ==
  IF c.graceful THEN v
  ELSE [v EXCEPT !.connection =
          IF c.hasConnected \/ ready = "CLOSED" THEN "disconnected" ELSE "connecting"]

\* mutated form: the end of the snapshot overtakes the chunks in the queue
HeardHasty(c, v, frame) ==
  CASE frame.kind = "snapshot-begin" ->
         [v EXCEPT !.rows = <<>>, !.inStep = v.pendingBuffer = <<>>]
    [] frame.kind = "snapshot-end"   -> [v EXCEPT !.connection = "connected"]
    [] frame.kind = "rotation"       -> resetForRotation(v)
    [] frame.kind = "log-reset"      -> logSwitchState(v)
    [] frame.kind = "error"          -> onError(c, v, "OPEN")
    [] frame.kind = "bye"            -> [v EXCEPT !.connection = "disconnected"]
    [] OTHER                         -> v

\* what the listener of a frame does at once with the store
Heard(c, v, frame) ==
  CASE frame.kind = "snapshot-begin" ->
         [v EXCEPT !.rows = <<>>, !.inStep = v.pendingBuffer = <<>>]
    [] frame.kind = "rotation"       -> resetForRotation(v)
    [] frame.kind = "log-reset"      -> logSwitchState(v)
    [] frame.kind = "error"          -> onError(c, v, "OPEN")
    [] frame.kind = "bye"            -> [v EXCEPT !.connection = "disconnected"]
    [] OTHER                         -> v

\* ... and with its own state
Listened(c, frame) ==
  IF frame.kind \in Queued THEN enqueue(c, frame)
  ELSE IF frame.kind \in {"snapshot-begin", "rotation", "log-reset"}
       THEN clearQueuedFrames(c)
  ELSE IF frame.kind = "bye" THEN [c EXCEPT !.graceful = TRUE]
  ELSE c

-----------------------------------------------------------------------------
(* The log and its server.                                                 *)

\* what a new stream brings: the rows of the moment, in chunks
Snapshot ==
  <<[kind |-> "snapshot-begin"]>>
  \o [n \in 1 .. (Len(rows) + ChunkRows - 1) \div ChunkRows |->
        LET from == (n - 1) * ChunkRows + 1
        IN  [kind |-> "snapshot-chunk", from |-> from,
             rows |-> SubSeq(rows, from, Min({from + ChunkRows - 1, Len(rows)}))]]
  \o <<[kind |-> "snapshot-end"]>>

Sent(frames) == wire' = IF es = "OPEN" THEN wire \o frames ELSE wire

SourceAppend ==
  LET row == Row(Len(rows) + 1, file, 0)
  IN  /\ Len(rows) < MaxRows
      /\ rows' = Append(rows, row)
      /\ Sent(<<AppendFrame(Len(rows) + 1, <<row>>)>>)
      /\ UNCHANGED <<file, streams, es, client, view, shown>>

SourcePatch(i) ==
  /\ rows[i].patches < MaxPatches
  /\ rows' = [rows EXCEPT ![i].patches = @ + 1]
  /\ Sent(<<RowPatch(i, rows'[i])>>)
  /\ UNCHANGED <<file, streams, es, client, view, shown>>

SourceRotation ==
  /\ file < MaxFiles
  /\ file' = file + 1
  /\ rows' = <<>>
  /\ Sent(<<RotationFrame>>)
  /\ UNCHANGED <<streams, es, client, view, shown>>

LastWords == <<[kind |-> "log-reset"], [kind |-> "bye"]>>

\* the server ends the stream and closes it: another log was opened, or the
\* reader was too slow, which is announced by an error
SessionChange ==
  /\ file < MaxFiles
  /\ file' = file + 1
  /\ rows' = <<>>
  /\ Sent(LastWords)
  /\ es' = IF es = "OPEN" THEN "CLOSED" ELSE es
  /\ UNCHANGED <<streams, client, view, shown>>

Overflow ==
  /\ es = "OPEN"
  /\ Sent(<<[kind |-> "error"]>> \o LastWords)
  /\ es' = "CLOSED"
  /\ UNCHANGED <<rows, file, streams, client, view, shown>>

-----------------------------------------------------------------------------
(* The EventSource.                                                        *)

\* the next frame of the stream is dispatched to its listener
Deliver ==
  /\ wire # <<>>
  /\ client' = Listened(client, Head(wire))
  /\ view' = Heard(client, view, Head(wire))
  /\ wire' = Tail(wire)
  /\ UNCHANGED <<rows, file, streams, es, shown>>

\* the connection breaks off: what was on its way is lost, and the browser
\* connects again by itself
Break ==
  /\ es = "OPEN"
  /\ es' = "CONNECTING"
  /\ wire' = <<>>
  /\ view' = onError(client, view, "CONNECTING")
  /\ UNCHANGED <<rows, file, streams, client, shown>>

Reopen ==
  /\ es = "CONNECTING"
  /\ streams < MaxStreams
  /\ streams' = streams + 1
  /\ es' = "OPEN"
  /\ wire' = Snapshot
  /\ UNCHANGED <<rows, file, client, view, shown>>

\* an answer other than a stream ends the attempts
Refused ==
  /\ es = "CONNECTING"
  /\ es' = "CLOSED"
  /\ view' = onError(client, view, "CLOSED")
  /\ UNCHANGED <<rows, file, streams, wire, client, shown>>

\* the animation frame, which the browser runs while the page is in view
Drain ==
  LET k == Min({MAX_DRAIN_FRAMES, Len(client.queue)})
      taken == SubSeq(client.queue, 1, k)
      rest  == SubSeq(client.queue, k + 1, Len(client.queue))
  IN  /\ shown
      /\ client.due /\ ~client.graceful
      /\ view' = drainFrames(view, taken)
      /\ client' = [client EXCEPT
           !.queue = rest, !.drainScheduled = rest # <<>>, !.due = rest # <<>>,
           !.hasConnected = @ \/ \E n \in DOMAIN taken : taken[n].kind = "snapshot-end"]
      /\ UNCHANGED <<rows, file, streams, wire, es, shown>>

-----------------------------------------------------------------------------
(* The user.                                                               *)

\* replaceLogStream: the handle is closed, another client connects
Connected(v) ==
  /\ streams < MaxStreams
  /\ streams' = streams + 1
  /\ client' = NewClient
  /\ es' = "OPEN"
  /\ wire' = Snapshot
  /\ view' = [v EXCEPT !.connection = "connecting"]
  /\ UNCHANGED <<rows, file, shown>>

onWatchErrorRetry == Connected(view)
onPickerSelect    == Connected(logSwitchState(view))

\* the pill: flush, then follow
onResumeFollowing ==
  /\ view.livePaused
  /\ view' = [flushPendingBuffer(view) EXCEPT !.livePaused = FALSE]
  /\ UNCHANGED <<rows, file, streams, wire, es, client, shown>>

\* the button and the space bar
setLivePaused ==
  /\ view' = [view EXCEPT !.livePaused = ~@,
                          !.inStep = @ /\ (view.livePaused => view.pendingBuffer = <<>>)]
  /\ UNCHANGED <<rows, file, streams, wire, es, client, shown>>

\* the page is hidden, or comes back into view
VisibilityChange ==
  /\ shown' = ~shown
  /\ UNCHANGED <<rows, file, streams, wire, es, client, view>>

-----------------------------------------------------------------------------

Init ==
  /\ rows = <<>> /\ file = 0
  /\ streams = 1
  /\ es = "OPEN"
  /\ client = NewClient
  /\ view = NoView
  /\ wire = Snapshot
  /\ shown \in BOOLEAN

Source ==
  SourceAppend \/ (\E i \in DOMAIN rows : SourcePatch(i)) \/ SourceRotation
  \/ SessionChange \/ Overflow

User ==
  onWatchErrorRetry \/ onPickerSelect \/ onResumeFollowing \/ setLivePaused \/ VisibilityChange

Next == Source \/ Deliver \/ Break \/ Reopen \/ Refused \/ Drain \/ User

\* the browser dispatches what it received, and runs the animation frames of a
\* page that stays in view
Fairness == WF_vars(Deliver) /\ WF_vars(Drain)

Spec == Init /\ [][Next]_vars /\ Fairness

-----------------------------------------------------------------------------
(* Properties.                                                             *)

\* all the reader has of the log: the rows shown, then those held back
Held(v) == Placed(v.rows, LengthOf(v.rows) + 1, v.pendingBuffer)

\* the store once the frames have been received and drained
After(v, frames) ==
  LET after[n \in 0..Len(frames)] ==
        IF n = 0 THEN v
        ELSE IF frames[n].kind \in Queued THEN Drained(after[n - 1], frames[n])
        ELSE Heard(client, after[n - 1], frames[n])
  IN  after[Len(frames)]

\* However frames are queued, drained and cut off by a rotation, a new stream
\* or a change of the log, what the reader shows and holds back, and what is
\* still queued and on its way, make up exactly the rows of the log: paused or
\* following, none lost, twice, out of place, or of an earlier file.  It holds
\* as long as the reader resumes by the pill, and no stream replaces another
\* while rows are held back.
NothingMisplaced ==
  es = "OPEN" =>
    LET v == After(view, client.queue \o wire)
    IN  v.inStep => Held(v) = rows

\* The reader is told "connected" only when the snapshot of the stream has been
\* shown in full, though its chunks wait for animation frames and its end comes
\* right behind them.
ConnectedAfterBaseline ==
  [][(view.connection # "connected" /\ view'.connection = "connected") =>
       \A n \in DOMAIN client'.queue : client'.queue[n].kind # "snapshot-chunk"]_vars

\* Once the log leaves it alone, an open stream brings the reader of a page that
\* stays in view everything: no frame, one queued while the page was hidden
\* included, stays in the queue for want of a scheduled drain.
CatchesUp == <>[]shown => <>[](es = "OPEN" /\ view.inStep => Held(view) = rows)

\* What the guide says of the pill, "Click the pill to flush the buffer and
\* resume" (USER_GUIDE.md:79): the rows that were held back take their places
\* after those shown, each row of the log once.  Violated: the snapshot of a
\* new stream leaves the buffer in place, and the flush puts its rows after
\* the very same rows of the snapshot.
FlushKeepsOrder == \A i \in DOMAIN view.rows : view.rows[i].idx = i

=============================================================================
