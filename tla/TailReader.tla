----------------------------- MODULE TailReader -----------------------------
(***************************************************************************)
(* host-node/src/tail-reader.ts: the reader that follows a log file and    *)
(* gives its bytes to a sink, and around it what it reads through: a file  *)
(* that grows, is written anew in place, removed and created, and the      *)
(* watcher (chokidar, external) that notices it.                           *)
(*                                                                         *)
(* A revision of the file is what was written since its last creation or   *)
(* truncation; a byte is the revision it belongs to and the offset it was  *)
(* given with.  Operations run one at a time in the order they were        *)
(* queued; pc names the await the head of the queue is suspended at.  What *)
(* a stat returned is used in the step of the stat: nothing that uses it   *)
(* looks at the file again before the next await.                          *)
(***************************************************************************)
EXTENDS Naturals, Sequences

CONSTANTS
  MaxSize,       \* bound: bytes in a revision
  MaxRevisions,  \* bound: revisions of the file
  MaxFaults      \* bound: failures of a read, of the watcher or of the sink

ASSUME BoundsAssumption == {MaxSize, MaxFaults} \subseteq Nat /\ MaxRevisions \in Nat \ {0}

VARIABLES
  inodes,   \* every file there has been at the path, the last one last
  present,  \* is there one now?
  watcher,  \* what it knows of the path, the event it holds until the size is
            \* stable, and whether watchReady is resolved
  ops, pc,  \* the operation queue, and where its head is
  stream,   \* the read under way
  reader,   \* lastOffset, unlinkPending, reconcileQueued, disposed, and what
            \* readInitial's readSnapshot returned
  sink,     \* bytes, load phase and errors given to the sink, and what changed
            \* in the file with no onReset (overlooked)
  faults    \* failures so far

disk == <<inodes, present>>
queue == <<ops, pc>>
vars == <<disk, watcher, queue, stream, reader, sink, faults>>

-----------------------------------------------------------------------------
(* The file at the path.                                                   *)

NoFile == [rev |-> 0, size |-> 0]
File == inodes[Len(inodes)]
Path == IF present THEN File ELSE NoFile

FileGrows ==
  /\ present /\ File.size < MaxSize
  /\ inodes' = [inodes EXCEPT ![Len(inodes)].size = @ + 1]
  /\ UNCHANGED <<present, watcher, queue, stream, reader, sink, faults>>

\* written anew in place, or rotated by copy and truncate
FileRewritten ==
  /\ present /\ File.size > 0 /\ File.rev < MaxRevisions
  /\ inodes' = [inodes EXCEPT ![Len(inodes)] = [rev |-> File.rev + 1, size |-> 0]]
  /\ UNCHANGED <<present, watcher, queue, stream, reader, sink, faults>>

FileRemoved ==
  /\ present
  /\ present' = FALSE
  /\ UNCHANGED <<inodes, watcher, queue, stream, reader, sink, faults>>

FileCreated ==
  /\ ~present /\ File.rev < MaxRevisions
  /\ inodes' = Append(inodes, [rev |-> File.rev + 1, size |-> 0])
  /\ present' = TRUE
  /\ UNCHANGED <<watcher, queue, stream, reader, sink, faults>>

-----------------------------------------------------------------------------
(* What the watcher tells, and what its handlers queue.                    *)

enqueue(op) == ops' = Append(ops, op)

queueReconcile ==
  IF reader.reconcileQueued THEN UNCHANGED <<ops, reader>>
  ELSE enqueue("reconcile") /\ reader' = [reader EXCEPT !.reconcileQueued = TRUE]

WithError(s, code, fatal) == [s EXCEPT !.told = @ \cup {<<code, fatal>>}]

WatcherReady ==
  /\ ~watcher.ready
  /\ watcher' = [watcher EXCEPT !.ready = TRUE, !.seen = Path]
  /\ UNCHANGED <<disk, queue, stream, reader, sink, faults>>

Looks == watcher.ready /\ ~reader.disposed /\ watcher.seen # Path

\* a removal takes the place of what was waiting; a file that came and went
\* while its "add" was waiting is not told of
NoticesRemoval ==
  /\ Looks /\ ~present
  /\ watcher' = [watcher EXCEPT !.seen = Path, !.waiting = "none"]
  /\ IF watcher.waiting = "add" THEN UNCHANGED ops ELSE enqueue("unlink")
  /\ UNCHANGED <<disk, pc, stream, reader, sink, faults>>

\* a file removed and created between two looks is a "change" like any other
NoticesContent ==
  /\ Looks /\ present
  /\ watcher' = [watcher EXCEPT !.seen = Path,
                                !.waiting = IF watcher.seen = NoFile \/ @ = "add"
                                            THEN "add" ELSE "change"]
  /\ UNCHANGED <<disk, queue, stream, reader, sink, faults>>

\* awaitWriteFinish
SizeStable ==
  /\ watcher.seen = Path /\ ~reader.disposed
  /\ watcher' = [watcher EXCEPT !.waiting = "none"]
  /\ \/ watcher.waiting = "change" /\ queueReconcile
     \/ watcher.waiting = "add" /\ enqueue("add") /\ UNCHANGED reader
  /\ UNCHANGED <<disk, pc, stream, sink, faults>>

WatcherFails ==
  /\ faults < MaxFaults /\ ~reader.disposed
  /\ faults' = faults + 1
  /\ watcher' = [watcher EXCEPT !.ready = TRUE]
  /\ sink' = WithError(sink, "watch-failed", TRUE)
  /\ UNCHANGED <<disk, queue, stream, reader>>

-----------------------------------------------------------------------------
(* The operations.  Each action is the code from one await to the next.    *)

NoRead == [ino |-> 0, cursor |-> 0, end |-> 0, destroyed |-> FALSE]
ReadFrom(start, end) == [NoRead EXCEPT !.cursor = start, !.end = end]

OpDone == pc' = "idle" /\ ops' = Tail(ops)
Goes(to) == pc' = to /\ UNCHANGED ops

\* what follows #reconcile: the end of the operation, or the rest of readInitial
ReconcileDone(snapshotRead) ==
  IF Head(ops) = "initial" /\ snapshotRead = "false" THEN Goes("recoverStat") ELSE OpDone

\* a disposed reader runs no operation
Skip ==
  /\ pc = "idle" /\ ops # <<>> /\ reader.disposed
  /\ OpDone
  /\ UNCHANGED <<disk, watcher, stream, reader, sink, faults>>

Begins(op) == pc = "idle" /\ ops # <<>> /\ Head(ops) = op /\ ~reader.disposed

BeginInitial ==
  /\ Begins("initial") /\ Goes("ready")
  /\ UNCHANGED <<disk, watcher, stream, reader, sink, faults>>

\* mutated form: the flag is never taken back
BeginReconcileFlagged ==
  /\ Begins("reconcile") /\ Goes("recStat")
  /\ UNCHANGED <<disk, watcher, stream, reader, sink, faults>>

BeginReconcile ==
  /\ Begins("reconcile") /\ Goes("recStat")
  /\ reader' = [reader EXCEPT !.reconcileQueued = FALSE]
  /\ UNCHANGED <<disk, watcher, stream, sink, faults>>

Unlink ==
  /\ Begins("unlink") /\ OpDone
  /\ reader' = [reader EXCEPT !.unlinkPending = TRUE]
  /\ UNCHANGED <<disk, watcher, stream, sink, faults>>

\* a file that appears where the watcher knew of none to be removed is not read
BeginAdd ==
  /\ Begins("add")
  /\ reader' = [reader EXCEPT !.unlinkPending = FALSE]
  /\ IF reader.unlinkPending
     THEN Goes("rotStat") /\ UNCHANGED sink
     ELSE OpDone /\ sink' = [sink EXCEPT !.overlooked = @ \cup {"creation"}]
  /\ UNCHANGED <<disk, watcher, stream, faults>>

\* await this.#watchReady
WatchReady ==
  /\ pc = "ready" /\ watcher.ready
  /\ IF reader.disposed THEN OpDone ELSE Goes("snapStat")
  /\ UNCHANGED <<disk, watcher, stream, reader, sink, faults>>

\* #readSnapshot of a file of known size, for sink s; one that is empty is
\* complete at once
Snapshot(s, size, reading) ==
  IF size = 0
  THEN sink' = [s EXCEPT !.phase = "complete"] /\ UNCHANGED stream
  ELSE /\ sink' = [s EXCEPT !.phase = "loading"]
       /\ stream' = ReadFrom(0, size) /\ Goes(reading)

AfterReset(s) == [s EXCEPT !.got = <<>>, !.phase = "idle", !.overlooked = {}]

\* readInitial: stat, and the snapshot
SnapshotStat ==
  /\ pc = "snapStat"
  /\ IF present
     THEN /\ Snapshot(sink, File.size, "initRead")
          /\ File.size = 0 => Goes("recStat")
          /\ reader' = [reader EXCEPT !.snapshotRead = IF File.size = 0 THEN "true" ELSE @]
     ELSE /\ sink' = WithError(sink, "read-stat-failed", TRUE)
          /\ Goes("recStat") /\ UNCHANGED <<stream, reader>>
  /\ UNCHANGED <<disk, watcher, faults>>

\* #onRotation once the size is known
Rotate(size) ==
  /\ reader' = [reader EXCEPT !.lastOffset = 0]
  /\ Snapshot(AfterReset(sink), size, "rotRead")
  /\ size = 0 => ReconcileDone(reader.snapshotRead)

GoneAtReconcile ==
  /\ ~present
  /\ sink' = WithError(sink, "read-stat-failed", FALSE)
  /\ ReconcileDone(reader.snapshotRead) /\ UNCHANGED <<stream, reader>>

Grown ==
  /\ present /\ File.size >= reader.lastOffset
  /\ IF File.size = reader.lastOffset
     THEN ReconcileDone(reader.snapshotRead) /\ UNCHANGED stream
     ELSE Goes("recRead") /\ stream' = ReadFrom(reader.lastOffset, File.size)
  /\ sink' = [sink EXCEPT !.overlooked = @ \cup
                {"rewrite" : i \in {j \in DOMAIN sink.got : sink.got[j].rev # File.rev}}]
  /\ UNCHANGED reader

ReconcileStat ==
  /\ pc = "recStat"
  /\ \/ GoneAtReconcile
     \/ present /\ File.size < reader.lastOffset /\ Rotate(File.size)
     \/ Grown
  /\ UNCHANGED <<disk, watcher, faults>>

\* #onRotation after an "add"; when the stat fails nothing is read
RotationStat ==
  /\ pc = "rotStat"
  /\ IF present THEN Rotate(File.size)
     ELSE /\ reader' = [reader EXCEPT !.lastOffset = 0]
          /\ sink' = AfterReset(WithError(sink, "read-stat-failed", FALSE))
          /\ OpDone /\ UNCHANGED stream
  /\ UNCHANGED <<disk, watcher, faults>>

\* #completeRecoveredInitialRead
RecoverStat ==
  /\ pc = "recoverStat" /\ OpDone
  /\ sink' = IF ~present THEN WithError(sink, "read-stat-failed", FALSE)
             ELSE IF reader.lastOffset >= File.size
             THEN [sink EXCEPT !.phase = "complete"] ELSE sink
  /\ UNCHANGED <<disk, watcher, stream, reader, faults>>

-----------------------------------------------------------------------------
(* #readRange: a stream is created by the path, which it opens later; it   *)
(* keeps the file it opened, whatever becomes of the path.                 *)

Reading == pc \in {"initRead", "recRead", "rotRead"}

\* mutated form: the end of the range, though the read came short
rangeEnd == stream.end
nextOffset == stream.cursor

Whole(completed) == completed /\ nextOffset >= stream.end

\* the read settles, with sink s, and its caller goes on
Finish(completed, s) ==
  LET result == IF pc # "initRead" THEN reader.snapshotRead
                ELSE IF Whole(completed) THEN "true" ELSE "false" IN
  /\ stream' = NoRead
  /\ reader' = [reader EXCEPT !.lastOffset = nextOffset, !.snapshotRead = result]
  /\ sink' = IF Whole(completed) /\ pc # "recRead" THEN [s EXCEPT !.phase = "complete"]
                                                   ELSE s
  /\ IF pc = "initRead" THEN Goes("recStat") ELSE ReconcileDone(result)

StreamOpens ==
  /\ Reading /\ stream.ino = 0 /\ present /\ ~stream.destroyed
  /\ stream' = [stream EXCEPT !.ino = Len(inodes)]
  /\ UNCHANGED <<disk, watcher, queue, reader, sink, faults>>

More == /\ Reading /\ stream.ino # 0
        /\ stream.cursor < stream.end /\ stream.cursor < inodes[stream.ino].size

\* onChunk(bytes, cursor)
Given == [sink EXCEPT !.got = Append(@, [rev |-> inodes[stream.ino].rev,
                                         at  |-> stream.cursor])]

StreamData ==
  /\ More /\ ~reader.disposed
  /\ sink' = Given
  /\ stream' = [stream EXCEPT !.cursor = @ + 1]
  /\ UNCHANGED <<disk, watcher, queue, reader, faults>>

\* at the end of the range or of the file; what a disposed reader reads is dropped
StreamEnds ==
  /\ Reading /\ stream.ino # 0 /\ ~stream.destroyed
  /\ reader.disposed \/ ~More
  /\ Finish(TRUE, sink)
  /\ UNCHANGED <<disk, watcher, faults>>

\* "error": the path is gone when it is opened, or a read fails
StreamFails ==
  /\ Reading /\ ~stream.destroyed
  /\ \/ stream.ino = 0 /\ ~present /\ UNCHANGED faults
     \/ faults < MaxFaults /\ faults' = faults + 1
  /\ Finish(FALSE, IF reader.disposed THEN sink
                   ELSE WithError(sink, "read-stream-failed", FALSE))
  /\ UNCHANGED <<disk, watcher>>

\* "close" of a stream that dispose() destroyed
StreamCloses ==
  /\ Reading /\ stream.destroyed
  /\ Finish(FALSE, sink)
  /\ UNCHANGED <<disk, watcher, faults>>

\* mutated form: nothing runs after a failed operation
OpFailsForGood == Goes("failed")
OpFails == OpDone

dropRead == stream' = NoRead

\* the sink throws, with the bytes or without: the operation ends there
SinkThrows ==
  /\ More /\ ~reader.disposed /\ faults < MaxFaults
  /\ faults' = faults + 1
  /\ \E s \in {sink, Given} : sink' = WithError(s, "reader-callback-failed", TRUE)
  /\ dropRead /\ OpFails
  /\ UNCHANGED <<disk, watcher, reader>>

dispose ==
  /\ ~reader.disposed
  /\ reader' = [reader EXCEPT !.disposed = TRUE]
  /\ watcher' = [watcher EXCEPT !.ready = TRUE]
  /\ stream' = IF Reading THEN [stream EXCEPT !.destroyed = TRUE] ELSE stream
  /\ UNCHANGED <<disk, queue, sink, faults>>

Ended == reader.disposed /\ ops = <<>> /\ UNCHANGED vars

-----------------------------------------------------------------------------
\* watchLog of host-adapter.ts: startWatch, then readInitial
Init ==
  /\ inodes \in {<<[rev |-> 1, size |-> n]>> : n \in 0..MaxSize} /\ present = TRUE
  /\ watcher = [seen |-> NoFile, waiting |-> "none", ready |-> FALSE]
  /\ ops = <<"initial">> /\ pc = "idle" /\ stream = NoRead
  /\ reader = [lastOffset |-> 0, unlinkPending |-> FALSE, reconcileQueued |-> FALSE,
               disposed |-> FALSE, snapshotRead |-> "null"]
  /\ sink = [got |-> <<>>, phase |-> "idle", told |-> {}, overlooked |-> {}]
  /\ faults = 0

WatcherSteps == WatcherReady \/ NoticesRemoval \/ NoticesContent \/ SizeStable
ReaderSteps ==
  \/ Skip \/ BeginInitial \/ BeginReconcile \/ Unlink \/ BeginAdd
  \/ WatchReady \/ SnapshotStat \/ ReconcileStat \/ RotationStat \/ RecoverStat
  \/ StreamOpens \/ StreamData \/ StreamEnds \/ StreamFails \/ StreamCloses

Next ==
  \/ FileGrows \/ FileRewritten \/ FileRemoved \/ FileCreated
  \/ WatcherSteps \/ ReaderSteps \/ WatcherFails \/ SinkThrows \/ dispose \/ Ended

(***************************************************************************)
(* A stat returns, a stream gives its data, its end or its error, and the  *)
(* watcher looks again, whatever else happens.  Nobody has to write to the *)
(* file or to dispose of the reader.                                       *)
(***************************************************************************)
Spec == Init /\ [][Next]_vars /\ WF_vars(ReaderSteps) /\ WF_vars(WatcherSteps)

-----------------------------------------------------------------------------
Sizes == 0..MaxSize
Revision == [rev : 1..MaxRevisions, size : Sizes]
Bytes == [rev : 1..MaxRevisions, at : Sizes]
Codes == {"read-stat-failed", "read-stream-failed", "reader-callback-failed",
          "watch-failed"}

Op == {"initial", "reconcile", "unlink", "add"}
Await == {"ready", "snapStat", "initRead", "recStat", "recRead", "rotStat", "rotRead",
          "recoverStat"}
Sinks == [got : Seq(Bytes), phase : {"idle", "loading", "complete"},
          told : SUBSET (Codes \X BOOLEAN), overlooked : SUBSET {"rewrite", "creation"}]
Read == [ino : Nat, cursor : Sizes, end : Sizes, destroyed : BOOLEAN]

DiskType == inodes \in Seq(Revision) /\ inodes # <<>> /\ present \in BOOLEAN
WatcherType ==
  watcher \in [seen : Revision \cup {NoFile}, waiting : {"none", "change", "add"},
              ready : BOOLEAN]
QueueType == ops \in Seq(Op) /\ pc \in Await \cup {"idle"} /\ (pc # "idle" => ops # <<>>)
StreamType ==
  stream \in Read /\ stream.ino <= Len(inodes) /\ (Reading <=> stream # NoRead)
ReaderType ==
  reader \in [lastOffset : Sizes, unlinkPending : BOOLEAN, reconcileQueued : BOOLEAN,
             disposed : BOOLEAN, snapshotRead : {"null", "true", "false"}]
SinkType == sink \in Sinks

\* Every variable has its type: offsets are within a revision, an await is that
\* of an operation in the queue, and a read is under way exactly where the code
\* awaits one.
TypeOK ==
  DiskType /\ WatcherType /\ QueueType /\ StreamType /\ ReaderType /\ SinkType

Told(codes) == \E e \in sink.told : e[1] \in codes

\* The bytes given since the last onReset are those from 0 on, each once, in
\* order and never of an older revision than the one before, and the next read
\* goes on behind them, for as long as the sink throws nothing.
BytesInPlace ==
  LET got == sink.got IN
  Told({"reader-callback-failed"}) \/
    /\ Len(got) = IF Reading THEN stream.cursor ELSE reader.lastOffset
    /\ \A i \in DOMAIN got : got[i].at = i - 1
    /\ \A i, j \in DOMAIN got : i <= j => got[i].rev <= got[j].rev

\* Nothing is under way: the watcher has seen the file as it is, and every
\* operation its events queued has run.
AtRest == watcher.ready /\ watcher.waiting = "none" /\ watcher.seen = Path /\ ops = <<>>

Unhurt == ~Told({"read-stream-failed", "reader-callback-failed", "watch-failed"})
Watching == AtRest /\ ~reader.disposed /\ present

\* At rest the sink has the whole file and nothing else, whatever was written,
\* removed or created in whatever order, unless an error was told that stops a
\* read, or the change was one the reader cannot know of.
ExactAtRest ==
  Watching /\ Unhurt /\ sink.overlooked = {} =>
    sink.got = [i \in 1..File.size |-> [rev |-> File.rev, at |-> i - 1]]

\* A file that only grew is shown as loaded when all is at rest, though it grew
\* while it was first read.
InitialLoadEnds ==
  Watching /\ Unhurt /\ File.rev = 1 => sink.phase = "complete"

\* At rest everything has been read and told.
RestIsComplete == ExactAtRest /\ InitialLoadEnds

\* When the file stops changing the reader comes to rest, and a disposed one
\* runs out of operations, so dispose() returns: no failure stops the queue.
ComesToRest == <>[](AtRest \/ (reader.disposed /\ ops = <<>>))

=============================================================================
