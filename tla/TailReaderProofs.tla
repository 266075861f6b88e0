-------------------------- MODULE TailReaderProofs --------------------------
(***************************************************************************)
(* Proofs about the TailReader: its types, and that the bytes the sink has *)
(* are those from 0 on, for files of any size rewritten any number of      *)
(* times.                                                                  *)
(***************************************************************************)
EXTENDS TailReader, SequenceTheorems, TLAPS

-----------------------------------------------------------------------------
(* What the parts of the type invariant rest on.                           *)

\* The file at the path is a revision within the bounds.
LEMMA FileType ==
  ASSUME DiskType
  PROVE  /\ Len(inodes) \in Nat \ {0}
         /\ File \in Revision /\ File.size \in Sizes /\ File.rev \in 1..MaxRevisions
         /\ Path \in Revision \cup {NoFile}
<1>1. Len(inodes) \in Nat \ {0}
  BY DEF DiskType
<1>2. File \in Revision
  BY <1>1 DEF DiskType, File
<1>3. File.size \in Sizes /\ File.rev \in 1..MaxRevisions
  BY <1>2 DEF Revision
<1> QED BY <1>1, <1>2, <1>3 DEF Path

\* Parts of the state a step leaves alone keep their types.
LEMMA Kept ==
  ASSUME TypeOK
  PROVE  /\ UNCHANGED disk => DiskType'
         /\ UNCHANGED watcher => WatcherType'
         /\ UNCHANGED queue => QueueType'
         /\ UNCHANGED reader => ReaderType'
         /\ UNCHANGED sink => SinkType'
         /\ UNCHANGED <<inodes, stream>> /\ Reading' = Reading => StreamType'
<1>1. UNCHANGED disk => DiskType'
  BY DEF TypeOK, DiskType, disk
<1>2. UNCHANGED watcher => WatcherType'
  BY DEF TypeOK, WatcherType
<1>3. UNCHANGED queue => QueueType'
  BY DEF TypeOK, QueueType, queue
<1>4. UNCHANGED reader => ReaderType'
  BY DEF TypeOK, ReaderType
<1>5. UNCHANGED sink => SinkType'
  BY DEF TypeOK, SinkType
<1>6. UNCHANGED <<inodes, stream>> /\ Reading' = Reading => StreamType'
  BY DEF TypeOK, StreamType
<1> QED BY <1>1, <1>2, <1>3, <1>4, <1>5, <1>6

\* An operation an event queues leaves the queue well formed.
LEMMA Queued ==
  ASSUME TypeOK, NEW op \in Op, enqueue(op), UNCHANGED pc
  PROVE  QueueType'
BY DEF TypeOK, QueueType, enqueue

\* At the end of an operation its await and its read are over.
LEMMA Done ==
  ASSUME TypeOK, ops # <<>>, OpDone
  PROVE  QueueType' /\ ~Reading'
BY DEF TypeOK, QueueType, OpDone, Reading

\* At the next await of an operation a read is under way if that await is of one.
LEMMA Gone ==
  ASSUME TypeOK, ops # <<>>, NEW to \in Await, Goes(to)
  PROVE  QueueType' /\ (Reading' <=> to \in {"initRead", "recRead", "rotRead"})
BY DEF TypeOK, QueueType, Goes, Reading

\* An operation that awaits something is in the queue.
LEMMA Awaits ==
  ASSUME TypeOK, pc # "idle"
  PROVE  ops # <<>>
BY DEF TypeOK, QueueType

\* After a reconcile the operation goes on without a read, or is done.
LEMMA ReconcileDoneType ==
  ASSUME TypeOK, ops # <<>>, NEW r, ReconcileDone(r)
  PROVE  QueueType' /\ ~Reading'
<1>1. CASE OpDone
  BY <1>1, Done
<1>2. CASE Goes("recoverStat")
  BY <1>2, Gone DEF Await
<1> QED BY <1>1, <1>2 DEF ReconcileDone

\* Where nothing is read there is no stream.
LEMMA NoReadType ==
  ASSUME DiskType, stream' = NoRead, UNCHANGED inodes, ~Reading'
  PROVE  StreamType'
<1>1. 0 \in Sizes
  BY BoundsAssumption DEF Sizes
<1> QED BY <1>1, FileType DEF StreamType, NoRead, Read

\* A read starts within the file.
LEMMA ReadType ==
  ASSUME DiskType, UNCHANGED inodes, Reading', NEW start \in Sizes, NEW end \in Sizes,
         start < end, stream' = ReadFrom(start, end)
  PROVE  StreamType' /\ stream'.ino = 0 /\ stream'.cursor = start
<1>1. stream' = [ino |-> 0, cursor |-> start, end |-> end, destroyed |-> FALSE]
  BY DEF ReadFrom, NoRead
<1>2. end # 0
  BY BoundsAssumption DEF Sizes
<1> QED BY <1>1, <1>2, FileType DEF StreamType, NoRead, Read

\* What a step may do to the sink keeps its type.
LEMMA SinkTypes ==
  ASSUME NEW s \in Sinks
  PROVE  /\ \A code \in Codes, fatal \in BOOLEAN : WithError(s, code, fatal) \in Sinks
         /\ AfterReset(s) \in Sinks /\ AfterReset(s).got = <<>>
         /\ \A p \in {"idle", "loading", "complete"} : [s EXCEPT !.phase = p] \in Sinks
         /\ \A o \in SUBSET {"rewrite", "creation"} :
              [s EXCEPT !.overlooked = @ \cup o] \in Sinks
<1>1. \A code \in Codes, fatal \in BOOLEAN : WithError(s, code, fatal) \in Sinks
  BY DEF WithError, Sinks
<1>2. AfterReset(s) \in Sinks /\ AfterReset(s).got = <<>>
  <2> DEFINE emptied == [s EXCEPT !.got = <<>>]
             idled == [emptied EXCEPT !.phase = "idle"]
  <2>0. <<>> \in Seq(Bytes)
    OBVIOUS
  <2>1. emptied \in Sinks /\ emptied.got = <<>>
    BY <2>0 DEF Sinks
  <2>2. idled \in Sinks /\ idled.got = <<>>
    <3> HIDE DEF emptied
    <3> QED BY <2>1 DEF Sinks
  <2>3. /\ [idled EXCEPT !.overlooked = {}] \in Sinks
        /\ [idled EXCEPT !.overlooked = {}].got = <<>>
    <3> HIDE DEF idled
    <3> QED BY <2>2 DEF Sinks
  <2> QED BY <2>3 DEF AfterReset
<1>3. \A p \in {"idle", "loading", "complete"} : [s EXCEPT !.phase = p] \in Sinks
  BY DEF Sinks
<1>4. \A o \in SUBSET {"rewrite", "creation"} :
        [s EXCEPT !.overlooked = @ \cup o] \in Sinks
  BY DEF Sinks
<1> QED BY <1>1, <1>2, <1>3, <1>4

\* A snapshot of a file of the size it has, in the code that follows a stat.
LEMMA SnapshotType ==
  ASSUME TypeOK, ops # <<>>, ~Reading, UNCHANGED disk, NEW s \in Sinks,
         NEW reading \in {"initRead", "rotRead"}, Snapshot(s, File.size, reading),
         File.size = 0 => QueueType' /\ ~Reading'
  PROVE  QueueType' /\ StreamType' /\ SinkType'
<1>1. SinkType'
  BY SinkTypes DEF Snapshot, SinkType
<1>2. CASE File.size = 0
  <2>1. StreamType'
    BY <1>2 DEF Snapshot, TypeOK, StreamType, disk
  <2> QED BY <1>1, <1>2, <2>1
<1>3. CASE File.size # 0
  <2>1. stream' = ReadFrom(0, File.size) /\ Goes(reading)
    BY <1>3 DEF Snapshot
  <2>2. 0 \in Sizes /\ File.size \in Sizes /\ 0 < File.size
    BY <1>3, FileType, BoundsAssumption DEF TypeOK, Sizes
  <2>3. QueueType' /\ Reading'
    BY <2>1, Gone DEF Await
  <2> QED BY <1>1, <2>1, <2>2, <2>3, ReadType DEF TypeOK, disk
<1> QED BY <1>2, <1>3

\* A rotation keeps the types of the reader, its queue and the sink.
LEMMA RotateType ==
  ASSUME TypeOK, ops # <<>>, ~Reading, UNCHANGED disk, Rotate(File.size)
  PROVE  QueueType' /\ StreamType' /\ ReaderType' /\ SinkType'
<1>1. ReaderType'
  BY BoundsAssumption DEF Rotate, TypeOK, ReaderType, Sizes
<1>2. Snapshot(AfterReset(sink), File.size, "rotRead")
  BY DEF Rotate
<1>3. File.size = 0 => QueueType' /\ ~Reading'
  BY ReconcileDoneType DEF Rotate
<1>4. AfterReset(sink) \in Sinks
  BY SinkTypes DEF TypeOK, SinkType
<1> QED BY <1>1, <1>2, <1>3, <1>4, SnapshotType

\* The end of a read keeps them too.
LEMMA FinishType ==
  ASSUME TypeOK, Reading, UNCHANGED disk, NEW completed \in BOOLEAN, NEW s \in Sinks,
         Finish(completed, s)
  PROVE  QueueType' /\ StreamType' /\ ReaderType' /\ SinkType' /\ ~Reading'
<1>1. SinkType'
  BY SinkTypes DEF Finish, SinkType
<1>2. ReaderType'
  BY DEF Finish, TypeOK, ReaderType, StreamType, Read, nextOffset
<1>3. ops # <<>>
  BY Awaits DEF Reading
<1>4. QueueType' /\ ~Reading'
  <2>1. CASE Goes("recStat")
    BY <1>3, <2>1, Gone DEF Await
  <2> QED BY <1>3, <2>1, ReconcileDoneType DEF Finish
<1>5. StreamType'
  BY <1>4, NoReadType DEF Finish, TypeOK, disk
<1> QED BY <1>1, <1>2, <1>4, <1>5

\* Bytes given are of a revision of the file, at an offset in it.
LEMMA GivenType ==
  ASSUME TypeOK, More
  PROVE  Given \in Sinks
<1>1. stream.ino \in 1..Len(inodes) /\ stream.cursor \in Sizes
  BY FileType DEF More, TypeOK, StreamType, Read
<1>2. inodes[stream.ino] \in Revision
  BY <1>1 DEF TypeOK, DiskType
<1>3. [rev |-> inodes[stream.ino].rev, at |-> stream.cursor] \in Bytes
  BY <1>1, <1>2 DEF Bytes, Revision
<1>4. sink \in Sinks
  BY DEF TypeOK, SinkType
<1>5. Append(sink.got, [rev |-> inodes[stream.ino].rev, at |-> stream.cursor])
        \in Seq(Bytes)
  BY <1>3, <1>4 DEF Sinks
<1> QED BY <1>4, <1>5 DEF Given, Sinks

\* The file's last inode is the one that changes.
LEMMA LastChanged ==
  ASSUME DiskType, NEW f \in Revision,
         inodes' = [inodes EXCEPT ![Len(inodes)] = f], UNCHANGED present
  PROVE  /\ DiskType' /\ Len(inodes') = Len(inodes)
         /\ \A j \in DOMAIN inodes : inodes'[j] = IF j = Len(inodes) THEN f ELSE inodes[j]
<1>1. Len(inodes) \in 1..Len(inodes)
  BY FileType
<1>2. inodes \in Seq(Revision)
  BY DEF DiskType
<1>3. /\ inodes' \in Seq(Revision) /\ Len(inodes') = Len(inodes)
      /\ \A j \in 1..Len(inodes) : inodes'[j] = IF j = Len(inodes) THEN f ELSE inodes[j]
  BY <1>1, <1>2, ExceptSeq
<1>4. inodes' # <<>>
  BY <1>1, <1>3
<1> QED BY <1>2, <1>3, <1>4 DEF DiskType

\* Whatever is written, removed or created, the file keeps its type.
LEMMA WriterType ==
  ASSUME DiskType, FileGrows \/ FileRewritten \/ FileRemoved \/ FileCreated
  PROVE  DiskType' /\ Len(inodes) <= Len(inodes')
<1>1. CASE FileGrows
  <2>1. [File EXCEPT !.size = @ + 1] \in Revision
    BY <1>1, FileType, BoundsAssumption DEF FileGrows, Revision, Sizes
  <2>2. inodes' = [inodes EXCEPT ![Len(inodes)] = [File EXCEPT !.size = @ + 1]]
    BY <1>1 DEF FileGrows, File
  <2>3. DiskType' /\ Len(inodes') = Len(inodes)
    BY <1>1, <2>1, <2>2, LastChanged DEF FileGrows
  <2> QED BY <2>3, FileType
<1>2. CASE FileRewritten
  <2>1. [rev |-> File.rev + 1, size |-> 0] \in Revision
    BY <1>2, FileType, BoundsAssumption DEF FileRewritten, Revision, Sizes
  <2>2. DiskType' /\ Len(inodes') = Len(inodes)
    BY <1>2, <2>1, LastChanged DEF FileRewritten
  <2> QED BY <2>2, FileType
<1>3. CASE FileRemoved
  <2>1. inodes' = inodes /\ present' \in BOOLEAN
    BY <1>3 DEF FileRemoved
  <2>2. Len(inodes') <= Len(inodes')
    BY <2>1, FileType
  <2> QED BY <2>1, <2>2 DEF DiskType
<1>4. CASE FileCreated
  <2>1. [rev |-> File.rev + 1, size |-> 0] \in Revision
    BY <1>4, FileType, BoundsAssumption DEF FileCreated, Revision, Sizes
  <2> QED BY <1>4, <2>1 DEF FileCreated, DiskType
<1> QED BY <1>1, <1>2, <1>3, <1>4

-----------------------------------------------------------------------------
\* Every step keeps the types.
LEMMA TypeNext == TypeOK /\ [Next]_vars => TypeOK'
<1> SUFFICES ASSUME TypeOK, [Next]_vars PROVE TypeOK'
  OBVIOUS
<1>1. CASE FileGrows \/ FileRewritten \/ FileRemoved \/ FileCreated
  <2>1. DiskType' /\ Len(inodes) <= Len(inodes')
    BY <1>1, WriterType DEF TypeOK
  <2>2. UNCHANGED <<watcher, queue, stream, reader, sink>>
    BY <1>1 DEF FileGrows, FileRewritten, FileRemoved, FileCreated
  <2>3. StreamType'
    BY <2>1, <2>2, FileType DEF TypeOK, StreamType, Read, Reading, queue, DiskType
  <2> QED BY <2>1, <2>2, <2>3, Kept DEF TypeOK
<1>2. CASE WatcherReady \/ NoticesContent \/ WatcherFails
  <2>1. UNCHANGED <<disk, queue, stream, reader>>
    BY <1>2 DEF WatcherReady, NoticesContent, WatcherFails
  <2>2. WatcherType'
    BY <1>2, FileType DEF WatcherReady, NoticesContent, WatcherFails, TypeOK, WatcherType
  <2>3. SinkType'
    BY <1>2, SinkTypes DEF WatcherReady, NoticesContent, WatcherFails, TypeOK, SinkType,
                           Codes
  <2>4. StreamType'
    BY <2>1 DEF TypeOK, StreamType, disk, queue, Reading
  <2> QED BY <2>1, <2>2, <2>3, <2>4, Kept DEF TypeOK
<1>3. CASE NoticesRemoval \/ SizeStable
  <2>1. UNCHANGED <<disk, pc, stream, sink>>
    BY <1>3 DEF NoticesRemoval, SizeStable
  <2>2. WatcherType'
    BY <1>3, FileType DEF NoticesRemoval, SizeStable, TypeOK, WatcherType
  <2>3. ReaderType'
    BY <1>3 DEF NoticesRemoval, SizeStable, queueReconcile, TypeOK, ReaderType
  <2>4. QueueType'
    <3>1. CASE UNCHANGED ops
      BY <2>1, <3>1 DEF TypeOK, QueueType
    <3>2. \/ UNCHANGED ops
          \/ enqueue("unlink") \/ enqueue("add") \/ enqueue("reconcile")
      BY <1>3 DEF NoticesRemoval, SizeStable, queueReconcile
    <3> QED BY <2>1, <3>1, <3>2, Queued DEF Op
  <2>5. StreamType'
    BY <2>1 DEF TypeOK, StreamType, disk, Reading
  <2> QED BY <2>1, <2>2, <2>3, <2>4, <2>5, Kept DEF TypeOK
<1>4. CASE Skip \/ BeginInitial \/ BeginReconcile \/ Unlink \/ BeginAdd \/ WatchReady
  <2>1. UNCHANGED <<disk, watcher, stream>> /\ ops # <<>> /\ ~Reading
    BY <1>4, Awaits DEF Skip, BeginInitial, BeginReconcile, Unlink, BeginAdd, WatchReady,
                        Begins, Reading
  <2>2. ReaderType'
    BY <1>4 DEF Skip, BeginInitial, BeginReconcile, Unlink, BeginAdd, WatchReady,
                TypeOK, ReaderType
  <2>3. SinkType'
    BY <1>4, SinkTypes DEF Skip, BeginInitial, BeginReconcile, Unlink, BeginAdd,
                           WatchReady, TypeOK, SinkType
  <2>4. QueueType' /\ ~Reading'
    <3>1. OpDone \/ Goes("ready") \/ Goes("recStat") \/ Goes("rotStat") \/ Goes("snapStat")
      BY <1>4 DEF Skip, BeginInitial, BeginReconcile, Unlink, BeginAdd, WatchReady
    <3> QED BY <2>1, <3>1, Done, Gone DEF Await
  <2>5. StreamType'
    BY <2>1, <2>4 DEF TypeOK, StreamType, disk
  <2> QED BY <2>1, <2>2, <2>3, <2>4, <2>5, Kept DEF TypeOK
<1>5. CASE SnapshotStat
  <2>1. ops # <<>> /\ ~Reading /\ UNCHANGED <<disk, watcher>>
    BY <1>5, Awaits DEF SnapshotStat, Reading
  <2>2. ReaderType'
    BY <1>5, BoundsAssumption DEF SnapshotStat, TypeOK, ReaderType
  <2>3. QueueType' /\ StreamType' /\ SinkType'
    <3>1. CASE present
      <4>1. Snapshot(sink, File.size, "initRead")
        BY <1>5, <3>1 DEF SnapshotStat
      <4>2. File.size = 0 => QueueType' /\ ~Reading'
        BY <1>5, <2>1, <3>1, Gone DEF SnapshotStat, Await
      <4> QED BY <2>1, <4>1, <4>2, SnapshotType DEF TypeOK, SinkType
    <3>2. CASE ~present
      <4>1. UNCHANGED stream /\ Goes("recStat")
        BY <1>5, <3>2 DEF SnapshotStat
      <4>2. QueueType' /\ ~Reading'
        BY <2>1, <4>1, Gone DEF Await
      <4>3. SinkType'
        BY <1>5, <3>2, SinkTypes DEF SnapshotStat, TypeOK, SinkType, Codes
      <4> QED BY <2>1, <4>1, <4>2, <4>3 DEF TypeOK, StreamType, disk
    <3> QED BY <3>1, <3>2
  <2> QED BY <2>1, <2>2, <2>3, Kept DEF TypeOK
<1>6. CASE ReconcileStat
  <2>1. ops # <<>> /\ ~Reading /\ UNCHANGED <<disk, watcher>>
    BY <1>6, Awaits DEF ReconcileStat, Reading
  <2>2. QueueType' /\ StreamType' /\ ReaderType' /\ SinkType'
    <3>1. CASE GoneAtReconcile
      <4>1. SinkType'
        BY <3>1, SinkTypes DEF GoneAtReconcile, TypeOK, SinkType, Codes
      <4>2. QueueType' /\ ~Reading' /\ UNCHANGED <<stream, reader>>
        BY <2>1, <3>1, ReconcileDoneType DEF GoneAtReconcile
      <4> QED BY <2>1, <4>1, <4>2, Kept DEF TypeOK, StreamType, disk
    <3>2. CASE Rotate(File.size)
      BY <2>1, <3>2, RotateType
    <3>3. CASE Grown
      <4>1. SinkType' /\ UNCHANGED reader
        BY <3>3, SinkTypes DEF Grown, TypeOK, SinkType
      <4>2. CASE File.size = reader.lastOffset
        <5>1. QueueType' /\ ~Reading' /\ UNCHANGED stream
          BY <2>1, <3>3, <4>2, ReconcileDoneType DEF Grown
        <5> QED BY <2>1, <4>1, <5>1, Kept DEF TypeOK, StreamType, disk
      <4>3. CASE File.size # reader.lastOffset
        <5>1. Goes("recRead") /\ stream' = ReadFrom(reader.lastOffset, File.size)
          BY <3>3, <4>3 DEF Grown
        <5>2. /\ reader.lastOffset \in Sizes /\ File.size \in Sizes
              /\ reader.lastOffset < File.size
          BY <3>3, <4>3, FileType, BoundsAssumption DEF Grown, TypeOK, ReaderType, Sizes
        <5>3. QueueType' /\ Reading'
          BY <2>1, <5>1, Gone DEF Await
        <5>4. StreamType'
          BY <2>1, <5>1, <5>2, <5>3, ReadType DEF TypeOK, disk
        <5> QED BY <4>1, <5>3, <5>4, Kept
      <4> QED BY <4>2, <4>3
    <3> QED BY <1>6, <3>1, <3>2, <3>3 DEF ReconcileStat
  <2> QED BY <2>1, <2>2, Kept DEF TypeOK
<1>7. CASE RotationStat
  <2>1. ops # <<>> /\ ~Reading /\ UNCHANGED <<disk, watcher>>
    BY <1>7, Awaits DEF RotationStat, Reading
  <2>2. QueueType' /\ StreamType' /\ ReaderType' /\ SinkType'
    <3>1. CASE present
      BY <1>7, <2>1, <3>1, RotateType DEF RotationStat
    <3>2. CASE ~present
      <4>1. ReaderType'
        BY <1>7, <3>2, BoundsAssumption DEF RotationStat, TypeOK, ReaderType, Sizes
      <4>2. SinkType'
        BY <1>7, <3>2, SinkTypes DEF RotationStat, TypeOK, SinkType, Codes
      <4>3. QueueType' /\ ~Reading' /\ UNCHANGED stream
        BY <1>7, <2>1, <3>2, Done DEF RotationStat
      <4> QED BY <2>1, <4>1, <4>2, <4>3 DEF TypeOK, StreamType, disk
    <3> QED BY <3>1, <3>2
  <2> QED BY <2>1, <2>2, Kept DEF TypeOK
<1>8. CASE RecoverStat
  <2>1. ops # <<>> /\ ~Reading /\ UNCHANGED <<disk, watcher, stream, reader>>
    BY <1>8, Awaits DEF RecoverStat, Reading
  <2>2. QueueType' /\ ~Reading'
    BY <1>8, <2>1, Done DEF RecoverStat
  <2>3. SinkType'
    BY <1>8, SinkTypes DEF RecoverStat, TypeOK, SinkType, Codes
  <2>4. StreamType'
    BY <2>1, <2>2 DEF TypeOK, StreamType, disk
  <2> QED BY <2>1, <2>2, <2>3, <2>4, Kept DEF TypeOK
<1>9. CASE StreamOpens \/ StreamData
  <2>1. UNCHANGED <<disk, watcher, queue, reader>> /\ Reading
    BY <1>9 DEF StreamOpens, StreamData, More
  <2>2. SinkType'
    BY <1>9, GivenType DEF StreamOpens, StreamData, TypeOK, SinkType
  <2>3. Reading' /\ UNCHANGED inodes
    BY <2>1 DEF Reading, queue, disk
  <2>4. stream' \in Read /\ stream'.ino \in 1..Len(inodes)
    BY <1>9, FileType, BoundsAssumption
       DEF StreamOpens, StreamData, More, TypeOK, StreamType, Read, Sizes
  <2>5. stream' # NoRead
    BY <2>4 DEF NoRead
  <2>6. StreamType'
    BY <2>3, <2>4, <2>5, FileType DEF TypeOK, StreamType
  <2> QED BY <2>1, <2>2, <2>6, Kept DEF TypeOK
<1>10. CASE StreamEnds \/ StreamFails \/ StreamCloses
  <2>1. PICK completed \in BOOLEAN, s \in Sinks : Finish(completed, s)
    BY <1>10, SinkTypes DEF StreamEnds, StreamFails, StreamCloses, TypeOK, SinkType, Codes
  <2>2. Reading /\ UNCHANGED <<disk, watcher>>
    BY <1>10 DEF StreamEnds, StreamFails, StreamCloses
  <2> QED BY <2>1, <2>2, FinishType, Kept DEF TypeOK
<1>11. CASE SinkThrows
  <2>1. ops # <<>> /\ UNCHANGED <<disk, watcher, reader>>
    BY <1>11, Awaits DEF SinkThrows, More, Reading
  <2>2. QueueType' /\ ~Reading' /\ stream' = NoRead
    BY <1>11, <2>1, Done DEF SinkThrows, OpFails, dropRead
  <2>3. SinkType'
    BY <1>11, GivenType, SinkTypes DEF SinkThrows, TypeOK, SinkType, Codes
  <2>4. StreamType'
    BY <2>1, <2>2, NoReadType DEF TypeOK, disk
  <2> QED BY <2>1, <2>2, <2>3, <2>4, Kept DEF TypeOK
<1>12. CASE dispose
  <2>1. UNCHANGED <<disk, queue, sink>>
    BY <1>12 DEF dispose
  <2>2. WatcherType' /\ ReaderType'
    BY <1>12 DEF dispose, TypeOK, WatcherType, ReaderType
  <2>3. /\ stream' = IF Reading THEN [stream EXCEPT !.destroyed = TRUE] ELSE stream
        /\ Reading' <=> Reading
    BY <1>12, <2>1 DEF dispose, Reading, queue
  <2>4. StreamType'
    <3>1. CASE Reading
      <4>1. stream' \in Read /\ stream'.destroyed = TRUE /\ stream'.ino = stream.ino
        BY <2>3, <3>1 DEF TypeOK, StreamType, Read
      <4>2. stream' # NoRead
        BY <4>1 DEF NoRead
      <4> QED BY <2>1, <2>3, <3>1, <4>1, <4>2 DEF TypeOK, StreamType, disk
    <3>2. CASE ~Reading
      BY <2>1, <2>3, <3>2 DEF TypeOK, StreamType, disk
    <3> QED BY <3>1, <3>2
  <2> QED BY <2>1, <2>2, <2>4, Kept DEF TypeOK
<1>13. CASE Ended \/ UNCHANGED vars
  <2>1. UNCHANGED <<disk, watcher, queue, stream, reader, sink>>
    BY <1>13 DEF Ended, vars
  <2>2. StreamType'
    BY <2>1 DEF TypeOK, StreamType, disk, queue, Reading
  <2> QED BY <2>1, <2>2, Kept DEF TypeOK
<1> QED BY <1>1, <1>2, <1>3, <1>4, <1>5, <1>6, <1>7, <1>8, <1>9, <1>10, <1>11, <1>12, <1>13
        DEF Next, WatcherSteps, ReaderSteps

\* The types hold at the start.
LEMMA TypeInit == Init => TypeOK
<1> SUFFICES ASSUME Init PROVE TypeOK
  OBVIOUS
<1>1. 0 \in Sizes
  BY BoundsAssumption DEF Sizes
<1>2. DiskType /\ WatcherType
  <2>1. PICK n \in Sizes : inodes = <<[rev |-> 1, size |-> n]>>
    BY DEF Init, Sizes
  <2>2. [rev |-> 1, size |-> n] \in Revision
    BY BoundsAssumption DEF Revision
  <2> QED BY <2>1, <2>2 DEF Init, DiskType, WatcherType
<1>3. QueueType
  BY DEF Init, QueueType, Op
<1>4. StreamType
  BY <1>1, <1>2, FileType DEF Init, StreamType, NoRead, Read, Reading
<1>5. ReaderType
  BY <1>1 DEF Init, ReaderType
<1>6. SinkType
  BY DEF Init, SinkType, Sinks
<1> QED BY <1>2, <1>3, <1>4, <1>5, <1>6 DEF TypeOK

\* Whatever the sizes, the number of revisions and the failures, every variable
\* keeps its type.
THEOREM TypeCorrect == Spec => []TypeOK
BY TypeInit, TypeNext, PTL DEF Spec

-----------------------------------------------------------------------------
(* The bytes.  A byte given is no younger than the file the next one comes *)
(* from, and the first read starts with nothing given.                     *)

Ordered ==
  /\ \A i, j \in DOMAIN inodes : i <= j => inodes[i].rev <= inodes[j].rev
  /\ \A i \in DOMAIN sink.got : sink.got[i].rev <= File.rev
  /\ Reading /\ stream.ino # 0 =>
       \A i \in DOMAIN sink.got : sink.got[i].rev <= inodes[stream.ino].rev

Fresh ==
  /\ \A i \in DOMAIN ops : ops[i] = "initial" => i = 1
  /\ pc \in {"ready", "snapStat"} => Head(ops) = "initial"
  /\ ops # <<>> /\ Head(ops) = "initial" /\ pc \in {"idle", "ready", "snapStat"} =>
       reader.lastOffset = 0 /\ sink.got = <<>>

IInv == TypeOK /\ Ordered /\ Fresh /\ BytesInPlace

\* The queue: only its head is the first read, and only until it has begun.
LEMMA FreshNext ==
  ASSUME TypeOK, Fresh, [Next]_vars
  PROVE  Fresh'
<1> DEFINE First(q) == \A i \in DOMAIN q : q[i] = "initial" => i = 1
           Begun == pc' \notin {"ready", "snapStat"}
<1>0. ops \in Seq(Op) /\ First(ops)
  BY DEF TypeOK, QueueType, Fresh
<1>1. ASSUME NEW op \in Op \ {"initial"}, ops # <<>> \/ pc = "idle", enqueue(op),
             UNCHANGED <<pc, sink.got, reader.lastOffset>>
      PROVE  Fresh'
  <2>1. ops' = Append(ops, op) /\ pc' = pc
    BY <1>1 DEF enqueue
  <2>2. First(ops')
    BY <1>0, <1>1, <2>1 DEF Op
  <2>3. CASE ops = <<>>
    <3>1. Head(ops') = op /\ pc' = "idle"
      BY <1>1, <2>1, <2>3
    <3> QED BY <1>1, <2>2, <3>1 DEF Fresh
  <2>4. CASE ops # <<>>
    <3>1. Head(ops') = Head(ops)
      BY <1>0, <1>1, <2>1, <2>4
    <3> QED BY <1>1, <2>1, <2>2, <2>4, <3>1 DEF Fresh
  <2> QED BY <2>3, <2>4
<1>2. ASSUME OpDone, ops # <<>> PROVE Fresh'
  <2>1. ops' = Tail(ops) /\ pc' = "idle"
    BY <1>2 DEF OpDone
  <2>2. \A i \in DOMAIN ops' : ops'[i] = ops[i + 1] /\ i + 1 \in DOMAIN ops /\ i + 1 # 1
    BY <1>0, <1>2, <2>1
  <2>3. \A i \in DOMAIN ops' : ops'[i] # "initial"
    BY <1>0, <2>2
  <2>4. ops' # <<>> => Head(ops') # "initial"
    <3>1. ops' \in Seq(Op)
      BY <1>0, <1>2, <2>1
    <3> QED BY <2>3, <3>1
  <2> QED BY <2>1, <2>3, <2>4 DEF Fresh
<1>3. ASSUME UNCHANGED ops, pc' \in {"initRead", "recStat", "recRead", "rotStat", "rotRead",
                                     "recoverStat"}
      PROVE  Fresh'
  BY <1>3 DEF Fresh
<1>4. ASSUME UNCHANGED <<ops, pc>>, UNCHANGED <<sink.got, reader.lastOffset>>
      PROVE  Fresh'
  BY <1>4 DEF Fresh
<1>5. ASSUME ops # <<>>, NEW r, ReconcileDone(r) PROVE Fresh'
  BY <1>2, <1>3, <1>5 DEF ReconcileDone, Goes
<1>6. CASE FileGrows \/ FileRewritten \/ FileRemoved \/ FileCreated \/ WatcherReady \/
           NoticesContent \/ WatcherFails \/ dispose \/ StreamOpens \/ Ended \/
           UNCHANGED vars
  <2>1. UNCHANGED <<ops, pc, sink.got, reader.lastOffset>>
    <3>1. UNCHANGED <<ops, pc>>
      BY <1>6 DEF FileGrows, FileRewritten, FileRemoved, FileCreated, WatcherReady,
                  NoticesContent, WatcherFails, dispose, StreamOpens, Ended, vars, queue
    <3>2. UNCHANGED sink.got
      BY <1>6 DEF FileGrows, FileRewritten, FileRemoved, FileCreated, WatcherReady,
                  NoticesContent, WatcherFails, dispose, StreamOpens, Ended, vars,
                  WithError, TypeOK, SinkType, Sinks
    <3>3. UNCHANGED reader.lastOffset
      BY <1>6 DEF FileGrows, FileRewritten, FileRemoved, FileCreated, WatcherReady,
                  NoticesContent, WatcherFails, dispose, StreamOpens, Ended, vars,
                  TypeOK, ReaderType
    <3> QED BY <3>1, <3>2, <3>3
  <2> QED BY <1>4, <2>1
<1>7. CASE NoticesRemoval \/ SizeStable
  <2>1. UNCHANGED <<pc, sink.got, reader.lastOffset>>
    BY <1>7 DEF NoticesRemoval, SizeStable, queueReconcile, TypeOK, ReaderType
  <2>2. UNCHANGED ops \/ \E op \in Op \ {"initial"} : enqueue(op)
    BY <1>7 DEF NoticesRemoval, SizeStable, queueReconcile, Op
  <2>3. ops # <<>> \/ pc = "idle"
    BY Awaits
  <2> QED BY <1>1, <1>4, <2>1, <2>2, <2>3
<1>8. CASE Skip \/ Unlink \/ RecoverStat \/ SinkThrows
  <2>1. ops # <<>> /\ OpDone
    BY <1>8, Awaits DEF Skip, Unlink, Begins, RecoverStat, SinkThrows, More, Reading, OpFails
  <2> QED BY <1>2, <2>1
<1>9. CASE BeginInitial \/ WatchReady
  <2>1. CASE OpDone
    BY <1>2, <1>9, <2>1, Awaits DEF BeginInitial, WatchReady, Begins
  <2>2. CASE UNCHANGED ops /\ pc' \in {"ready", "snapStat"}
    <3>1. UNCHANGED <<reader, sink>> /\ pc \in {"idle", "ready"} /\ Head(ops) = "initial"
          /\ ops # <<>>
      BY <1>9, <2>2, Awaits DEF BeginInitial, WatchReady, Begins, Fresh
    <3> QED BY <2>2, <3>1 DEF Fresh
  <2> QED BY <1>9, <2>1, <2>2 DEF BeginInitial, WatchReady, Goes
<1>10. CASE BeginReconcile \/ BeginAdd
  <2>1. ops # <<>>
    BY <1>10 DEF BeginReconcile, BeginAdd, Begins
  <2>2. OpDone \/ Goes("recStat") \/ Goes("rotStat")
    BY <1>10 DEF BeginReconcile, BeginAdd
  <2> QED BY <1>2, <1>3, <2>1, <2>2 DEF Goes
<1>11. CASE SnapshotStat \/ StreamData
  BY <1>3, <1>11 DEF SnapshotStat, Snapshot, StreamData, More, Reading, Goes, queue
<1>12. ASSUME ops # <<>>, NEW size, Rotate(size) PROVE Fresh'
  BY <1>3, <1>5, <1>12 DEF Rotate, Snapshot, Goes
<1>13. CASE ReconcileStat \/ RotationStat
  <2>1. ops # <<>>
    BY <1>13, Awaits DEF ReconcileStat, RotationStat
  <2>2. \/ Rotate(File.size) \/ OpDone \/ ReconcileDone(reader.snapshotRead)
        \/ Goes("recRead")
    BY <1>13 DEF ReconcileStat, RotationStat, GoneAtReconcile, Grown
  <2> QED BY <1>2, <1>3, <1>5, <1>12, <2>1, <2>2 DEF Goes
<1>14. CASE StreamEnds \/ StreamFails \/ StreamCloses
  <2>1. PICK completed, s : Finish(completed, s)
    BY <1>14 DEF StreamEnds, StreamFails, StreamCloses
  <2>2. ops # <<>>
    BY <1>14, Awaits DEF StreamEnds, StreamFails, StreamCloses, Reading
  <2>3. Goes("recStat") \/ \E r : ReconcileDone(r)
    BY <2>1 DEF Finish
  <2> QED BY <1>3, <1>5, <2>2, <2>3 DEF Goes
<1> QED BY <1>6, <1>7, <1>8, <1>9, <1>10, <1>11, <1>13, <1>14
        DEF Next, WatcherSteps, ReaderSteps

\* A step that gives no bytes and leaves the file and the read in place.
LEMMA SameBytes ==
  ASSUME IInv, UNCHANGED <<inodes, sink.got, reader.lastOffset>>, Reading' <=> Reading,
         UNCHANGED <<stream.ino, stream.cursor>>, sink.told \subseteq sink'.told
  PROVE  Ordered' /\ BytesInPlace'
<1>1. Ordered'
  BY DEF IInv, Ordered, File
<1>2. BytesInPlace'
  BY DEF IInv, BytesInPlace, Told
<1> QED BY <1>1, <1>2

\* The sink starts anew, and the reader at 0.
LEMMA Anew ==
  ASSUME IInv, UNCHANGED inodes, sink'.got = <<>>, reader'.lastOffset = 0,
         Reading' => stream'.ino = 0 /\ stream'.cursor = 0
  PROVE  Ordered' /\ BytesInPlace'
<1>1. Ordered'
  BY DEF IInv, Ordered
<1>2. Len(sink'.got) = IF Reading' THEN stream'.cursor ELSE reader'.lastOffset
  OBVIOUS
<1> QED BY <1>1, <1>2 DEF BytesInPlace

\* The bytes of a typed sink are those of revisions.
LEMMA BytesTyped ==
  ASSUME NEW got \in Seq(Bytes)
  PROVE  \A i \in DOMAIN got : got[i] \in Bytes /\ got[i].rev \in Nat
<1>1. \A i \in DOMAIN got : got[i] \in Bytes
  OBVIOUS
<1>2. \A b \in Bytes : b.rev \in Nat
  BY BoundsAssumption DEF Bytes
<1> QED BY <1>1, <1>2

\* A file written anew is younger than any before.
LEMMA WriterOrdered ==
  ASSUME DiskType, FileGrows \/ FileRewritten \/ FileRemoved \/ FileCreated,
         \A i, j \in DOMAIN inodes : i <= j => inodes[i].rev <= inodes[j].rev
  PROVE  /\ Len(inodes') >= Len(inodes)
         /\ \A j \in DOMAIN inodes : inodes'[j].rev >= inodes[j].rev
         /\ \A j \in DOMAIN inodes : j # Len(inodes) => inodes'[j] = inodes[j]
         /\ \A j \in DOMAIN inodes' : j \notin DOMAIN inodes => inodes'[j].rev >= File.rev
         /\ \A i, j \in DOMAIN inodes' : i <= j => inodes'[i].rev <= inodes'[j].rev
<1>0. /\ Len(inodes) \in Nat \ {0} /\ inodes \in Seq(Revision) /\ File = inodes[Len(inodes)]
      /\ \A j \in DOMAIN inodes : inodes[j].rev \in Nat
  <2>1. inodes \in Seq(Revision)
    BY DEF DiskType
  <2>2. \A j \in DOMAIN inodes : inodes[j] \in Revision
    BY <2>1
  <2>3. \A f \in Revision : f.rev \in Nat
    BY BoundsAssumption DEF Revision
  <2> QED BY <2>1, <2>2, <2>3, FileType DEF File
<1>1. ASSUME NEW f \in Revision, inodes' = [inodes EXCEPT ![Len(inodes)] = f],
             UNCHANGED present, f.rev >= File.rev
      PROVE  /\ Len(inodes') = Len(inodes) /\ DOMAIN inodes' = DOMAIN inodes
             /\ \A j \in DOMAIN inodes : inodes'[j] = IF j = Len(inodes) THEN f ELSE inodes[j]
  BY <1>1, <1>0, LastChanged DEF DiskType
<1>2. CASE FileGrows
  <2> DEFINE f == [File EXCEPT !.size = @ + 1]
  <2>1. f \in Revision /\ f.rev = File.rev
    BY <1>2, FileType, BoundsAssumption DEF FileGrows, Revision, Sizes
  <2>2. inodes' = [inodes EXCEPT ![Len(inodes)] = f] /\ UNCHANGED present
    BY <1>2 DEF FileGrows, File
  <2> HIDE DEF f
  <2> QED BY <1>0, <1>1, <2>1, <2>2
<1>3. CASE FileRewritten
  <2> DEFINE f == [rev |-> File.rev + 1, size |-> 0]
  <2>1. f \in Revision /\ f.rev = File.rev + 1
    BY <1>3, FileType, BoundsAssumption DEF FileRewritten, Revision, Sizes
  <2>2. inodes' = [inodes EXCEPT ![Len(inodes)] = f] /\ UNCHANGED present
    BY <1>3 DEF FileRewritten
  <2> HIDE DEF f
  <2> QED BY <1>0, <1>1, <2>1, <2>2
<1>4. CASE FileRemoved
  BY <1>0, <1>4 DEF FileRemoved
<1>5. CASE FileCreated
  <2> DEFINE f == [rev |-> File.rev + 1, size |-> 0]
  <2>1. f \in Revision /\ f.rev = File.rev + 1
    BY <1>5, FileType, BoundsAssumption DEF FileCreated, Revision, Sizes
  <2>2. inodes' = Append(inodes, f)
    BY <1>5 DEF FileCreated
  <2> HIDE DEF f
  <2>3. /\ Len(inodes') = Len(inodes) + 1 /\ DOMAIN inodes' = 1..(Len(inodes) + 1)
        /\ \A j \in DOMAIN inodes : inodes'[j] = inodes[j]
        /\ inodes'[Len(inodes) + 1] = f
    BY <1>0, <2>1, <2>2
  <2>4. \A j \in DOMAIN inodes' : j \in DOMAIN inodes \/ j = Len(inodes) + 1
    BY <1>0, <2>3
  <2>5. \A j \in DOMAIN inodes : j \in Nat /\ j < Len(inodes) + 1 /\ inodes[j].rev <= File.rev
    BY <1>0
  <2>6. ASSUME NEW i \in DOMAIN inodes', NEW j \in DOMAIN inodes', i <= j
        PROVE  inodes'[i].rev <= inodes'[j].rev
    <3>1. CASE j \in DOMAIN inodes
      <4>1. i \in DOMAIN inodes
        BY <2>4, <2>5, <2>6, <3>1
      <4> QED BY <1>0, <2>3, <2>6, <3>1, <4>1
    <3>2. CASE j = Len(inodes) + 1
      BY <1>0, <2>1, <2>3, <2>4, <2>5, <3>2
    <3> QED BY <2>4, <3>1, <3>2
  <2>7. \A j \in DOMAIN inodes' : j \notin DOMAIN inodes => inodes'[j].rev >= File.rev
    BY <1>0, <2>1, <2>3, <2>4
  <2> QED BY <1>0, <2>3, <2>6, <2>7
<1> QED BY <1>2, <1>3, <1>4, <1>5

\* What does not touch the bytes.
LEMMA SinkParts ==
  ASSUME NEW s \in Sinks
  PROVE  /\ \A code \in Codes, fatal \in BOOLEAN :
              /\ WithError(s, code, fatal).got = s.got
              /\ WithError(s, code, fatal).told = s.told \cup {<<code, fatal>>}
         /\ \A p : [s EXCEPT !.phase = p].got = s.got /\ [s EXCEPT !.phase = p].told = s.told
         /\ \A o : /\ [s EXCEPT !.overlooked = @ \cup o].got = s.got
                  /\ [s EXCEPT !.overlooked = @ \cup o].told = s.told
BY DEF WithError, Sinks

\* Every step keeps the bytes in place and the revisions of the file in order.
LEMMA BytesNext == IInv /\ [Next]_vars => Ordered' /\ BytesInPlace'
<1> SUFFICES ASSUME IInv, [Next]_vars PROVE Ordered' /\ BytesInPlace'
  OBVIOUS
<1>0. TypeOK /\ Ordered /\ Fresh /\ BytesInPlace /\ sink \in Sinks
  BY DEF IInv, TypeOK, SinkType
<1>1. CASE FileGrows \/ FileRewritten \/ FileRemoved \/ FileCreated
  <2>1. UNCHANGED <<queue, stream, reader, sink>> /\ (Reading' <=> Reading)
    BY <1>1 DEF FileGrows, FileRewritten, FileRemoved, FileCreated, Reading, queue
  <2>2. BytesInPlace'
    BY <1>0, <2>1 DEF BytesInPlace, Told
  <2>3. /\ Len(inodes') >= Len(inodes)
        /\ \A j \in DOMAIN inodes : inodes'[j].rev >= inodes[j].rev
        /\ \A j \in DOMAIN inodes : j # Len(inodes) => inodes'[j] = inodes[j]
        /\ \A j \in DOMAIN inodes' : j \notin DOMAIN inodes => inodes'[j].rev >= File.rev
        /\ \A i, j \in DOMAIN inodes' : i <= j => inodes'[i].rev <= inodes'[j].rev
    BY <1>0, <1>1, WriterOrdered DEF TypeOK, Ordered
  <2>4. Ordered'
    <3>1. /\ Len(inodes) \in Nat \ {0} /\ inodes \in Seq(Revision) /\ inodes' \in Seq(Revision)
          /\ File.rev \in Nat /\ \A f \in Revision : f.rev \in Nat
      BY <1>0, <1>1, FileType, WriterType, BoundsAssumption DEF TypeOK, DiskType, Revision
    <3>2. sink.got \in Seq(Bytes) /\ \A i \in DOMAIN sink.got : sink.got[i].rev \in Nat
      BY <1>0, BytesTyped DEF Sinks
    <3>3. (File').rev \in Nat /\ (File').rev >= File.rev
      BY <2>3, <3>1 DEF File
    <3>4. \A i \in DOMAIN sink'.got : sink'.got[i].rev <= (File').rev
      BY <1>0, <2>1, <3>1, <3>2, <3>3 DEF Ordered
    <3>5. ASSUME Reading', stream'.ino # 0
          PROVE  \A i \in DOMAIN sink'.got : sink'.got[i].rev <= inodes'[stream'.ino].rev
      <4>1. stream.ino \in 1..Len(inodes)
        BY <1>0, <2>1, <3>1, <3>5 DEF TypeOK, StreamType, Read
      <4>2. /\ inodes'[stream.ino].rev >= inodes[stream.ino].rev
            /\ inodes'[stream.ino].rev \in Nat /\ inodes[stream.ino].rev \in Nat
        BY <2>3, <3>1, <4>1
      <4> QED BY <1>0, <2>1, <3>2, <3>5, <4>2 DEF Ordered
    <3> QED BY <2>3, <3>4, <3>5 DEF Ordered
  <2> QED BY <2>2, <2>4
<1>2. CASE WatcherReady \/ NoticesRemoval \/ NoticesContent \/ SizeStable \/ WatcherFails
           \/ Skip \/ BeginInitial \/ BeginReconcile \/ Unlink \/ BeginAdd \/ WatchReady
           \/ RecoverStat \/ dispose \/ Ended \/ UNCHANGED vars
  <2>1. UNCHANGED inodes
    <3>1. CASE WatcherReady \/ NoticesRemoval \/ NoticesContent \/ SizeStable \/
               WatcherFails \/ dispose \/ Ended \/ UNCHANGED vars
      BY <3>1 DEF WatcherReady, NoticesRemoval, NoticesContent, SizeStable, WatcherFails,
                  dispose, Ended, vars, disk
    <3>2. CASE Skip \/ BeginInitial \/ BeginReconcile \/ Unlink \/ BeginAdd \/ WatchReady
               \/ RecoverStat
      BY <3>2 DEF Skip, BeginInitial, BeginReconcile, Unlink, BeginAdd, WatchReady,
                  RecoverStat, disk
    <3> QED BY <1>2, <3>1, <3>2
  <2>2. sink'.got = sink.got /\ sink.told \subseteq sink'.told
    <3>1. CASE UNCHANGED sink
      BY <3>1
    <3>2. CASE WatcherFails
      BY <1>0, <3>2, SinkParts DEF WatcherFails, Codes
    <3>3. CASE BeginAdd
      <4>1. \/ sink' = sink
            \/ sink' = [sink EXCEPT !.overlooked = @ \cup {"creation"}]
        BY <3>3 DEF BeginAdd
      <4> QED BY <1>0, <4>1 DEF Sinks
    <3>4. CASE RecoverStat
      BY <1>0, <3>4, SinkParts DEF RecoverStat, Codes
    <3>5. CASE WatcherReady \/ NoticesRemoval \/ NoticesContent \/ SizeStable \/ Skip \/
               BeginInitial \/ BeginReconcile \/ Unlink \/ WatchReady \/ dispose \/ Ended
      BY <3>1, <3>5 DEF WatcherReady, NoticesRemoval, NoticesContent, SizeStable, Skip,
                BeginInitial, BeginReconcile, Unlink, WatchReady, dispose, Ended, vars
    <3> QED BY <1>2, <3>1, <3>2, <3>3, <3>4, <3>5 DEF vars
  <2>3. UNCHANGED reader.lastOffset
    BY <1>0, <1>2 DEF WatcherReady, NoticesRemoval, NoticesContent, SizeStable,
                WatcherFails, Skip, BeginInitial, BeginReconcile, Unlink, BeginAdd,
                WatchReady, RecoverStat, dispose, Ended, vars, queueReconcile,
                TypeOK, ReaderType
  <2>4. UNCHANGED <<stream.ino, stream.cursor>>
    BY <1>0, <1>2 DEF WatcherReady, NoticesRemoval, NoticesContent, SizeStable,
                WatcherFails, Skip, BeginInitial, BeginReconcile, Unlink, BeginAdd,
                WatchReady, RecoverStat, dispose, Ended, vars, TypeOK, StreamType, Read
  <2>5. Reading' <=> Reading
    BY <1>2 DEF WatcherReady, NoticesRemoval, NoticesContent, SizeStable,
                WatcherFails, Skip, BeginInitial, BeginReconcile, Unlink, BeginAdd,
                WatchReady, RecoverStat, dispose, Ended, vars, queue, OpDone, Goes,
                Reading, Begins
  <2> QED BY <2>1, <2>2, <2>3, <2>4, <2>5, SameBytes
<1>3. CASE SnapshotStat
  <2>1. UNCHANGED disk /\ ops # <<>> /\ Head(ops) = "initial"
    BY <1>0, <1>3, Awaits DEF SnapshotStat, Fresh
  <2>2. sink.got = <<>> /\ reader.lastOffset = 0
    BY <1>0, <1>3, <2>1 DEF SnapshotStat, Fresh
  <2>3. sink'.got = <<>> /\ reader'.lastOffset = 0
    BY <1>0, <1>3, <2>2 DEF SnapshotStat, Snapshot, WithError, Sinks, TypeOK, ReaderType
  <2>4. Reading' => stream'.ino = 0 /\ stream'.cursor = 0
    BY <1>3 DEF SnapshotStat, Snapshot, Goes, Reading, ReadFrom, NoRead
  <2> QED BY <2>1, <2>3, <2>4, Anew DEF disk
<1>4. ASSUME Rotate(File.size), UNCHANGED disk, ~Reading, ops # <<>>
      PROVE  Ordered' /\ BytesInPlace'
  <2>1. AfterReset(sink).got = <<>> /\ AfterReset(sink) \in Sinks
    BY <1>0, SinkTypes
  <2>2. sink'.got = <<>> /\ reader'.lastOffset = 0
    BY <1>0, <1>4, <2>1 DEF Rotate, Snapshot, Sinks, TypeOK, ReaderType
  <2>3. Reading' => stream'.ino = 0 /\ stream'.cursor = 0
    <3>1. CASE File.size = 0
      BY <1>0, <1>4, <3>1, ReconcileDoneType DEF Rotate
    <3>2. CASE File.size # 0
      BY <1>4, <3>2 DEF Rotate, Snapshot, ReadFrom, NoRead
    <3> QED BY <3>1, <3>2
  <2> QED BY <1>4, <2>2, <2>3, Anew DEF disk
<1>5. CASE ReconcileStat
  <2>1. ops # <<>> /\ ~Reading /\ UNCHANGED disk
    BY <1>0, <1>5, Awaits DEF ReconcileStat, Reading
  <2>2. CASE Rotate(File.size)
    BY <1>4, <2>1, <2>2
  <2>3. CASE GoneAtReconcile
    <3>1. sink'.got = sink.got /\ sink.told \subseteq sink'.told
      BY <1>0, <2>3 DEF GoneAtReconcile, WithError, Sinks
    <3>2. ~Reading' /\ UNCHANGED <<stream, reader>>
      BY <1>0, <2>1, <2>3, ReconcileDoneType DEF GoneAtReconcile
    <3> QED BY <2>1, <3>1, <3>2, SameBytes DEF disk
  <2>4. CASE Grown
    <3>1. sink'.got = sink.got /\ sink.told = sink'.told /\ UNCHANGED reader
      BY <1>0, <2>4 DEF Grown, Sinks
    <3>2. CASE ~Reading'
      <4>1. UNCHANGED stream
        BY <2>4, <3>2 DEF Grown, Goes, Reading
      <4> QED BY <2>1, <3>1, <3>2, <4>1, SameBytes DEF disk
    <3>3. CASE Reading'
      <4>1. stream' = ReadFrom(reader.lastOffset, File.size)
        BY <1>0, <2>1, <2>4, <3>3, ReconcileDoneType DEF Grown
      <4>2. stream'.ino = 0 /\ stream'.cursor = reader.lastOffset
        BY <4>1 DEF ReadFrom, NoRead
      <4>3. Ordered'
        BY <1>0, <2>1, <3>1, <4>2 DEF Ordered, File, disk
      <4>4. BytesInPlace'
        BY <1>0, <2>1, <3>1, <3>3, <4>2 DEF BytesInPlace, Told
      <4> QED BY <4>3, <4>4
    <3> QED BY <3>2, <3>3
  <2> QED BY <1>5, <2>2, <2>3, <2>4 DEF ReconcileStat
<1>6. CASE RotationStat
  <2>1. ops # <<>> /\ ~Reading /\ UNCHANGED disk
    BY <1>0, <1>6, Awaits DEF RotationStat, Reading
  <2>2. CASE present
    BY <1>4, <1>6, <2>1, <2>2 DEF RotationStat
  <2>3. CASE ~present
    <3>0. AfterReset(WithError(sink, "read-stat-failed", FALSE)).got = <<>>
      BY <1>0, SinkTypes DEF Codes
    <3>1. sink'.got = <<>> /\ reader'.lastOffset = 0
      BY <1>0, <1>6, <2>3, <3>0 DEF RotationStat, TypeOK, ReaderType
    <3>2. ~Reading'
      BY <1>0, <1>6, <2>1, <2>3, Done DEF RotationStat
    <3> QED BY <2>1, <3>1, <3>2, Anew DEF disk
  <2> QED BY <2>2, <2>3
<1>7. CASE StreamOpens
  <2>1. /\ UNCHANGED <<disk, queue, reader, sink>> /\ Reading /\ (Reading' <=> Reading)
        /\ stream'.ino = Len(inodes) /\ stream'.cursor = stream.cursor
    BY <1>0, <1>7 DEF StreamOpens, Reading, queue, TypeOK, StreamType, Read
  <2>2. Ordered'
    BY <1>0, <2>1 DEF Ordered, File, disk
  <2>3. BytesInPlace'
    BY <1>0, <2>1 DEF BytesInPlace, Told
  <2> QED BY <2>2, <2>3
<1>8. CASE StreamData \/ SinkThrows
  <2> DEFINE byte == [rev |-> inodes[stream.ino].rev, at |-> stream.cursor]
             got == sink.got
  <2>1. /\ Reading /\ stream.ino \in 1..Len(inodes) /\ UNCHANGED disk /\ got \in Seq(Bytes)
        /\ stream.cursor \in Nat /\ stream.ino # 0
    <3>1. More /\ UNCHANGED disk
      BY <1>8 DEF StreamData, SinkThrows
    <3>2. stream.ino \in Nat /\ stream.ino <= Len(inodes) /\ stream.cursor \in Nat
      BY <1>0, BoundsAssumption DEF TypeOK, StreamType, Read, Sizes
    <3> QED BY <1>0, <3>1, <3>2, FileType DEF More, TypeOK, Sinks
  <2>2. Given \in Sinks /\ Given.got = Append(got, byte) /\ Given.told = sink.told
    BY <1>0, <1>8, GivenType DEF StreamData, SinkThrows, Given, Sinks
  <2>3. byte.rev \in Nat /\ byte.rev <= File.rev
        /\ \A i \in DOMAIN got : got[i].rev <= byte.rev /\ got[i].rev \in Nat
    <3>1. inodes[stream.ino] \in Revision /\ Len(inodes) \in DOMAIN inodes
      BY <1>0, <2>1 DEF TypeOK, DiskType
    <3>2. inodes[stream.ino].rev <= inodes[Len(inodes)].rev
      BY <1>0, <2>1, <3>1 DEF Ordered, TypeOK, DiskType
    <3>3. inodes[stream.ino].rev \in Nat
      BY <3>1, BoundsAssumption DEF Revision
    <3>4. \A i \in DOMAIN got : got[i].rev \in Nat
      BY <2>1, BytesTyped
    <3>5. \A i \in DOMAIN got : got[i].rev <= inodes[stream.ino].rev
      BY <1>0, <2>1 DEF Ordered
    <3> QED BY <3>2, <3>3, <3>4, <3>5 DEF File
  <2>4. sink'.got \in {got, Append(got, byte)}
    <3>1. CASE StreamData
      BY <2>2, <3>1 DEF StreamData
    <3>2. CASE SinkThrows
      <4>1. PICK s \in {sink, Given} : sink' = WithError(s, "reader-callback-failed", TRUE)
        BY <3>2 DEF SinkThrows
      <4>2. sink'.got = s.got
        BY <1>0, <2>2, <4>1, SinkParts DEF Codes
      <4> QED BY <2>2, <4>2
    <3> QED BY <1>8, <3>1, <3>2
  <2> HIDE DEF byte, got
  <2>10. \A i \in DOMAIN sink'.got :
           sink'.got[i] = byte \/ \E j \in DOMAIN got : sink'.got[i] = got[j]
    <3>1. ASSUME sink'.got = Append(got, byte), NEW i \in DOMAIN sink'.got, i \notin DOMAIN got
          PROVE  sink'.got[i] = byte
      BY <2>1, <3>1
    <3>2. ASSUME sink'.got = Append(got, byte), NEW i \in DOMAIN got
          PROVE  sink'.got[i] = got[i]
      BY <2>1, <3>2
    <3> QED BY <2>4, <3>1, <3>2
  <2>5. \A i \in DOMAIN sink'.got : sink'.got[i].rev <= byte.rev
    BY <2>3, <2>10
  <2>6. byte.rev = inodes[stream.ino].rev
    BY DEF byte
  <2>7. (Reading' => stream'.ino = stream.ino) /\ UNCHANGED inodes
    BY <1>0, <1>8, <2>1 DEF StreamData, SinkThrows, dropRead, OpFails, OpDone, Reading,
                            disk, TypeOK, StreamType, Read
  <2>8. Ordered'
    <3>1. \A i \in DOMAIN sink'.got : sink'.got[i].rev \in Nat
      BY <2>3, <2>10
    <3>2. File.rev \in Nat
      BY <1>0, FileType DEF TypeOK
    <3> QED BY <1>0, <2>3, <2>5, <2>6, <2>7, <3>1, <3>2 DEF Ordered, File
  <2>9. BytesInPlace'
    <3>1. CASE SinkThrows
      <4>1. <<"reader-callback-failed", TRUE>> \in sink'.told
        <5>1. PICK s \in {sink, Given} : sink' = WithError(s, "reader-callback-failed", TRUE)
          BY <3>1 DEF SinkThrows
        <5>2. s \in Sinks
          BY <1>0, <2>2, <5>1
        <5> QED BY <5>1, <5>2, SinkParts DEF Codes
      <4>2. <<"reader-callback-failed", TRUE>>[1] = "reader-callback-failed"
        OBVIOUS
      <4> QED BY <4>1, <4>2 DEF BytesInPlace, Told
    <3>2. CASE StreamData
      <4>1. /\ sink'.got = Append(got, byte) /\ sink'.told = sink.told
            /\ Reading' /\ stream'.cursor = stream.cursor + 1
        BY <1>0, <2>1, <2>2, <3>2
           DEF StreamData, Reading, queue, TypeOK, StreamType, Read, got, byte
      <4>2. SUFFICES ASSUME ~Told({"reader-callback-failed"}) PROVE BytesInPlace'
        BY <4>1 DEF BytesInPlace, Told
      <4>3. /\ Len(got) = stream.cursor /\ \A i \in DOMAIN got : got[i].at = i - 1
            /\ \A i, j \in DOMAIN got : i <= j => got[i].rev <= got[j].rev
        BY <1>0, <2>1, <4>2 DEF BytesInPlace, got
      <4>4. byte.at = stream.cursor
        BY DEF byte
      <4>5. /\ Len(sink'.got) = Len(got) + 1 /\ sink'.got[Len(got) + 1] = byte
            /\ \A i \in 1..Len(got) : sink'.got[i] = got[i]
            /\ DOMAIN sink'.got = 1..(Len(got) + 1) /\ DOMAIN got = 1..Len(got)
        BY <2>1, <4>1
      <4>8. \A i \in DOMAIN sink'.got : i \in DOMAIN got \/ i = Len(got) + 1
        BY <2>1, <4>5
      <4>9. Len(got) \in Nat /\ \A i \in DOMAIN got : i \in Nat /\ i < Len(got) + 1
        BY <2>1, <4>5
      <4>6. \A i \in DOMAIN sink'.got : sink'.got[i].at = i - 1
        BY <4>3, <4>4, <4>5, <4>8, <4>9
      <4>7. \A i, j \in DOMAIN sink'.got : i <= j => sink'.got[i].rev <= sink'.got[j].rev
        <5> SUFFICES ASSUME NEW i \in DOMAIN sink'.got, NEW j \in DOMAIN sink'.got, i <= j
                     PROVE  sink'.got[i].rev <= sink'.got[j].rev
          OBVIOUS
        <5>1. CASE i \in DOMAIN got /\ j \in DOMAIN got
          BY <4>3, <4>5, <5>1
        <5>2. CASE i \in DOMAIN got /\ j = Len(got) + 1
          BY <2>3, <4>5, <5>2
        <5>3. CASE i = Len(got) + 1
          <6>1. j = Len(got) + 1
            BY <4>8, <4>9, <5>3
          <6> QED BY <2>3, <4>5, <5>3, <6>1
        <5> QED BY <4>8, <5>1, <5>2, <5>3
      <4> QED BY <4>1, <4>3, <4>5, <4>6, <4>7 DEF BytesInPlace
    <3> QED BY <1>8, <3>1, <3>2
  <2> QED BY <2>8, <2>9
<1>9. CASE StreamEnds \/ StreamFails \/ StreamCloses
  <2>1. PICK completed \in BOOLEAN, s \in Sinks :
          Finish(completed, s) /\ s.got = sink.got /\ sink.told \subseteq s.told
    <3> DEFINE failed == WithError(sink, "read-stream-failed", FALSE)
    <3>1. failed \in Sinks /\ failed.got = sink.got /\ sink.told \subseteq failed.told
      BY <1>0, SinkTypes, SinkParts DEF Codes
    <3> HIDE DEF failed
    <3>2. \/ Finish(TRUE, sink) \/ Finish(FALSE, sink)
          \/ Finish(FALSE, failed)
      BY <1>9 DEF StreamEnds, StreamFails, StreamCloses, failed
    <3> QED BY <1>0, <3>1, <3>2
  <2>2. Reading /\ UNCHANGED disk
    BY <1>9 DEF StreamEnds, StreamFails, StreamCloses
  <2>3. ~Reading'
    BY <1>0, <2>1, <2>2, FinishType
  <2>4. sink'.got = sink.got /\ sink.told \subseteq sink'.told
    BY <2>1 DEF Finish, Sinks
  <2>5. reader'.lastOffset = stream.cursor
    BY <1>0, <2>1 DEF Finish, nextOffset, TypeOK, ReaderType
  <2>6. Ordered'
    BY <1>0, <2>2, <2>3, <2>4 DEF Ordered, File, disk
  <2>7. BytesInPlace'
    BY <1>0, <2>2, <2>3, <2>4, <2>5 DEF BytesInPlace, Told
  <2> QED BY <2>6, <2>7
<1> QED BY <1>1, <1>2, <1>3, <1>5, <1>6, <1>7, <1>8, <1>9
        DEF Next, WatcherSteps, ReaderSteps

\* The bytes given are those from 0 on, in order, whatever is done to the file.
THEOREM BytesCorrect == Spec => []BytesInPlace
<1>1. Init => IInv
  <2> SUFFICES ASSUME Init PROVE Ordered /\ Fresh /\ BytesInPlace
    BY TypeInit DEF IInv
  <2>1. Ordered
    BY DEF Init, Ordered, Reading
  <2>2. Fresh
    BY DEF Init, Fresh
  <2>3. BytesInPlace
    BY DEF Init, BytesInPlace, Reading
  <2> QED BY <2>1, <2>2, <2>3
<1>2. IInv /\ [Next]_vars => IInv'
  BY TypeNext, FreshNext, BytesNext DEF IInv
<1>3. IInv => BytesInPlace
  BY DEF IInv
<1> QED BY <1>1, <1>2, <1>3, PTL DEF Spec

-----------------------------------------------------------------------------
(* What is given at rest.  While the watcher holds nothing back and has    *)
(* seen the file as it is, the file is looked at again, or what was given  *)
(* and what is being read of it is all there is.                           *)

\* an operation that is queued and has not begun
Waits(op) == \E i \in DOMAIN ops : ops[i] = op /\ (i = 1 => pc = "idle")

\* the file will be looked at
Upcoming ==
  \/ pc \in {"ready", "snapStat", "initRead", "recStat", "rotStat"}
  \/ Waits("initial") \/ Waits("reconcile") \/ Waits("add")

\* what there is of the file is given or being read
Current ==
  /\ \A i \in DOMAIN sink.got : sink.got[i].rev = File.rev
  /\ IF Reading THEN stream.end = File.size /\ stream.ino \in {0, Len(inodes)}
                ELSE reader.lastOffset = File.size

Attentive == ~reader.disposed /\ Unhurt

Soon ==
  Attentive /\ present /\ watcher.seen = Path /\ watcher.waiting = "none"
    /\ sink.overlooked = {} => Upcoming \/ Current

\* the watcher has seen nothing that is still to come
Behind ==
  \/ watcher.seen.rev < File.rev
  \/ watcher.seen.rev = File.rev /\ watcher.seen.size <= File.size

\* before the watcher is ready the first read waits for it
Looking ==
  ~watcher.ready => /\ ~reader.disposed
                    /\ watcher.seen = NoFile /\ watcher.waiting = "none"
                    /\ ops # <<>> /\ Head(ops) = "initial" /\ pc \in {"idle", "ready"}

\* the flag that stands for a queued reconcile has one
Promised == reader.reconcileQueued /\ ~reader.disposed => Waits("reconcile")

InRange == (stream.destroyed => reader.disposed) /\ stream.cursor <= stream.end

\* nothing is told of a file that only grew but that it grows, no read of it comes
\* short, and the first read ends
OnlyGrows ==
  /\ Len(inodes) = 1
  /\ watcher.ready => watcher.seen # NoFile
  /\ watcher.waiting # "add"
OnlyReconciles ==
  /\ \A i \in DOMAIN ops : ops[i] \in {"initial", "reconcile"}
  /\ pc \notin {"rotStat", "rotRead"}
NoneShort ==
  /\ reader.lastOffset <= File.size
  /\ Reading => stream.end <= File.size
Loaded ==
  \/ sink.phase = "complete"
  \/ /\ ops # <<>> /\ Head(ops) = "initial"
     /\ pc \in {"idle", "ready", "snapStat", "initRead"}

Original ==
  Attentive /\ present /\ File.rev = 1 =>
    OnlyGrows /\ OnlyReconciles /\ NoneShort /\ Loaded

RestInv ==
  IInv /\ Behind /\ Looking /\ Promised /\ InRange /\ Soon /\ Original

\* What a change does to the file at the path.
LEMMA FileAfter ==
  ASSUME DiskType
  PROVE  /\ FileGrows => /\ Len(inodes') = Len(inodes) /\ UNCHANGED present
                         /\ (File').rev = File.rev /\ (File').size = File.size + 1
         /\ FileRewritten \/ FileCreated =>
              (File').rev = File.rev + 1 /\ (File').size = 0 /\ present'
         /\ FileRemoved => ~present' /\ File' = File
<1>0. inodes \in Seq(Revision) /\ Len(inodes) \in DOMAIN inodes
  BY DEF DiskType
<1>1. ASSUME FileGrows
      PROVE  /\ Len(inodes') = Len(inodes) /\ UNCHANGED present
             /\ (File').rev = File.rev /\ (File').size = File.size + 1
  <2> DEFINE f == [File EXCEPT !.size = @ + 1]
  <2>1. f \in Revision /\ f.rev = File.rev /\ f.size = File.size + 1
    BY <1>1, FileType, BoundsAssumption DEF FileGrows, Revision, Sizes
  <2>2. inodes' = [inodes EXCEPT ![Len(inodes)] = f] /\ UNCHANGED present
    BY <1>1 DEF FileGrows, File
  <2> HIDE DEF f
  <2>3. Len(inodes') = Len(inodes) /\ inodes'[Len(inodes)] = f
    BY <1>0, <2>1, <2>2, LastChanged
  <2> QED BY <2>1, <2>2, <2>3 DEF File
<1>2. ASSUME FileRewritten
      PROVE  (File').rev = File.rev + 1 /\ (File').size = 0 /\ present'
  <2> DEFINE f == [rev |-> File.rev + 1, size |-> 0]
  <2>1. f \in Revision /\ f.rev = File.rev + 1 /\ f.size = 0
    BY <1>2, FileType, BoundsAssumption DEF FileRewritten, Revision, Sizes
  <2>2. inodes' = [inodes EXCEPT ![Len(inodes)] = f] /\ UNCHANGED present /\ present
    BY <1>2 DEF FileRewritten
  <2> HIDE DEF f
  <2>3. Len(inodes') = Len(inodes) /\ inodes'[Len(inodes)] = f
    BY <1>0, <2>1, <2>2, LastChanged
  <2> QED BY <2>1, <2>2, <2>3 DEF File
<1>3. ASSUME FileCreated
      PROVE  (File').rev = File.rev + 1 /\ (File').size = 0 /\ present'
  <2> DEFINE f == [rev |-> File.rev + 1, size |-> 0]
  <2>1. f \in Revision /\ f.rev = File.rev + 1 /\ f.size = 0
    BY <1>3, FileType, BoundsAssumption DEF FileCreated, Revision, Sizes
  <2>2. inodes' = Append(inodes, f) /\ present'
    BY <1>3 DEF FileCreated
  <2> HIDE DEF f
  <2>3. Len(inodes') = Len(inodes) + 1 /\ inodes'[Len(inodes) + 1] = f
    BY <1>0, <2>1, <2>2
  <2> QED BY <2>1, <2>2, <2>3 DEF File
<1>4. ASSUME FileRemoved PROVE ~present' /\ File' = File
  BY <1>4 DEF FileRemoved, File
<1> QED BY <1>1, <1>2, <1>3, <1>4

\* What waits goes on to wait, while others are queued behind it or end or go on
\* before it.
LEMMA WaitsOn ==
  ASSUME TypeOK, NEW op, Waits(op)
  PROVE  /\ UNCHANGED queue => Waits(op)'
         /\ \A other : enqueue(other) /\ UNCHANGED pc => Waits(op)'
         /\ \A to : pc # "idle" \/ Head(ops) # op => (OpDone \/ Goes(to) => Waits(op)')
<1>0. ops \in Seq(Op)
  BY DEF TypeOK, QueueType
<1>1. PICK i \in DOMAIN ops : ops[i] = op /\ (i = 1 => pc = "idle")
  BY DEF Waits
<1>2. ASSUME UNCHANGED queue PROVE Waits(op)'
  BY <1>1, <1>2 DEF Waits, queue
<1>3. ASSUME NEW other, enqueue(other), UNCHANGED pc PROVE Waits(op)'
  <2>1. i \in DOMAIN ops' /\ ops'[i] = ops[i]
    <3>1. ops' = Append(ops, other)
      BY <1>3 DEF enqueue
    <3> QED BY <1>0, <1>1, <3>1
  <2> QED BY <1>1, <1>3, <2>1 DEF Waits
<1>4. ASSUME NEW to, pc # "idle" \/ Head(ops) # op, OpDone \/ Goes(to) PROVE Waits(op)'
  <2>1. i # 1
    BY <1>0, <1>1, <1>4
  <2>2. CASE OpDone
    <3>1. i - 1 \in DOMAIN ops' /\ ops'[i - 1] = ops[i] /\ pc' = "idle"
      BY <1>0, <1>1, <2>1, <2>2 DEF OpDone
    <3> QED BY <1>1, <3>1 DEF Waits
  <2>3. CASE Goes(to)
    BY <1>1, <2>1, <2>3 DEF Goes, Waits
  <2> QED BY <1>4, <2>2, <2>3
<1> QED BY <1>2, <1>3, <1>4

\* What is queued waits.
LEMMA QueuedWaits ==
  ASSUME TypeOK, NEW op, enqueue(op), UNCHANGED pc
  PROVE  Waits(op)'
<1>0. ops \in Seq(Op) /\ (pc # "idle" => ops # <<>>)
  BY DEF TypeOK, QueueType
<1>1. ops' = Append(ops, op)
  BY DEF enqueue
<1>2. Len(ops) + 1 \in DOMAIN ops' /\ ops'[Len(ops) + 1] = op
  BY <1>0, <1>1
<1>3. Len(ops) + 1 = 1 => pc' = "idle"
  BY <1>0
<1> QED BY <1>2, <1>3 DEF Waits

\* An error told is told, whatever else the codes.
LEMMA ErrorHurts ==
  ASSUME NEW s \in Sinks, NEW code \in Codes, NEW fatal \in BOOLEAN
  PROVE  /\ s.told \subseteq WithError(s, code, fatal).told
         /\ sink'.told = WithError(s, code, fatal).told
              /\ code \in {"read-stream-failed", "reader-callback-failed", "watch-failed"}
            => ~Unhurt'
<1>1. WithError(s, code, fatal).told = s.told \cup {<<code, fatal>>}
  BY SinkParts
<1>2. <<code, fatal>>[1] = code
  OBVIOUS
<1> QED BY <1>1, <1>2 DEF Unhurt, Told

\* What ends a read without its bytes hurts, or was disposed of.
LEMMA FailureHurts ==
  ASSUME TypeOK, InRange, StreamFails \/ StreamCloses \/ SinkThrows \/ WatcherFails
  PROVE  sink.told \subseteq sink'.told /\ (~reader.disposed => ~Unhurt')
<1>0. sink \in Sinks
  BY DEF TypeOK, SinkType
<1>1. ASSUME NEW s \in Sinks, NEW completed, Finish(completed, s)
      PROVE  sink'.told = s.told
  BY <1>1 DEF Finish, Sinks
<1>2. CASE StreamFails
  <2>1. CASE reader.disposed
    BY <1>0, <1>1, <1>2, <2>1 DEF StreamFails
  <2>2. CASE ~reader.disposed
    <3> DEFINE s == WithError(sink, "read-stream-failed", FALSE)
    <3>1. s \in Sinks
      BY <1>0, SinkTypes DEF Codes
    <3>2. Finish(FALSE, s)
      BY <1>2, <2>2 DEF StreamFails
    <3>3. sink'.told = s.told
      <4> HIDE DEF s
      <4> QED BY <1>1, <3>1, <3>2
    <3> QED BY <1>0, <3>3, ErrorHurts DEF Codes
  <2> QED BY <2>1, <2>2
<1>3. CASE StreamCloses
  BY <1>0, <1>1, <1>3 DEF StreamCloses, InRange
<1>4. CASE SinkThrows
  <2>1. PICK s \in {sink, Given} : sink' = WithError(s, "reader-callback-failed", TRUE)
    BY <1>4 DEF SinkThrows
  <2>2. s \in Sinks /\ s.told = sink.told
    BY <1>0, <1>4, GivenType DEF SinkThrows, Given, Sinks
  <2> QED BY <2>1, <2>2, ErrorHurts DEF Codes
<1>5. CASE WatcherFails
  BY <1>0, <1>5, ErrorHurts DEF WatcherFails, Codes
<1> QED BY <1>2, <1>3, <1>4, <1>5

\* A reader that is attentive was: nothing brings a disposed one back, and what
\* was told stays told.
LEMMA AttentiveBefore ==
  ASSUME TypeOK, InRange, [Next]_vars
  PROVE  Attentive' => Attentive
<1>0. sink \in Sinks
  BY DEF TypeOK, SinkType
<1>1. reader.disposed => reader'.disposed
  <2>1. CASE SizeStable \/ BeginReconcile \/ Unlink \/ BeginAdd \/ SnapshotStat \/ dispose
    BY <2>1 DEF TypeOK, ReaderType, SizeStable, queueReconcile, BeginReconcile, Unlink,
                BeginAdd, SnapshotStat, dispose
  <2>2. CASE ReconcileStat \/ RotationStat
    BY <2>2 DEF TypeOK, ReaderType, ReconcileStat, RotationStat, Rotate, GoneAtReconcile,
                Grown
  <2>3. CASE StreamEnds \/ StreamFails \/ StreamCloses
    <3>1. PICK completed, s : Finish(completed, s)
      BY <2>3 DEF StreamEnds, StreamFails, StreamCloses
    <3> QED BY <3>1 DEF TypeOK, ReaderType, Finish
  <2>4. CASE FileGrows \/ FileRewritten \/ FileRemoved \/ FileCreated \/ WatcherReady
             \/ NoticesRemoval \/ NoticesContent \/ WatcherFails \/ Ended \/ UNCHANGED vars
    BY <2>4 DEF FileGrows, FileRewritten, FileRemoved, FileCreated, WatcherReady,
                NoticesRemoval, NoticesContent, WatcherFails, Ended, vars
  <2>5. CASE Skip \/ BeginInitial \/ WatchReady \/ RecoverStat \/ StreamOpens
             \/ StreamData \/ SinkThrows
    BY <2>5 DEF Skip, BeginInitial, WatchReady, RecoverStat, StreamOpens, StreamData,
                SinkThrows
  <2> QED BY <2>1, <2>2, <2>3, <2>4, <2>5 DEF Next, WatcherSteps, ReaderSteps
<1>2. sink.told \subseteq sink'.told
  <2>1. CASE WatcherFails \/ SinkThrows \/ StreamFails \/ StreamCloses
    BY <2>1, FailureHurts
  <2>2. CASE BeginAdd
    BY <1>0, <2>2 DEF BeginAdd, Sinks
  <2>11. ASSUME NEW s \in Sinks,
                sink' = s \/ \E p \in {"complete", "loading"} : sink' = [s EXCEPT !.phase = p]
         PROVE  sink'.told = s.told
    BY <2>11 DEF Sinks
  <2>3. CASE SnapshotStat \/ RecoverStat
    <3>1. sink.told \subseteq WithError(sink, "read-stat-failed", TRUE).told
          /\ sink.told \subseteq WithError(sink, "read-stat-failed", FALSE).told
      BY <1>0, ErrorHurts DEF Codes
    <3>2. CASE SnapshotStat
      BY <1>0, <2>11, <3>1, <3>2 DEF SnapshotStat, Snapshot
    <3>3. CASE RecoverStat
      BY <1>0, <2>11, <3>1, <3>3 DEF RecoverStat
    <3> QED BY <2>3, <3>2, <3>3
  <2>4. ASSUME NEW s \in Sinks PROVE AfterReset(s).told = s.told
    BY <2>4 DEF AfterReset, Sinks
  <2>5. ASSUME Rotate(File.size) PROVE sink'.told = sink.told
    <3> DEFINE s == AfterReset(sink)
    <3>1. s \in Sinks /\ s.told = sink.told
      BY <1>0, <2>4, SinkTypes
    <3>2. sink' = s \/ \E p \in {"complete", "loading"} : sink' = [s EXCEPT !.phase = p]
      BY <2>5 DEF Rotate, Snapshot
    <3> HIDE DEF s
    <3> QED BY <2>11, <3>1, <3>2
  <2>6. CASE ReconcileStat \/ RotationStat
    <3> DEFINE s == WithError(sink, "read-stat-failed", FALSE)
    <3>1. s \in Sinks /\ sink.told \subseteq s.told
      BY <1>0, SinkTypes, ErrorHurts DEF Codes
    <3>2. \/ Rotate(File.size) \/ Grown
          \/ sink' = s \/ sink' = AfterReset(s)
      BY <2>6 DEF ReconcileStat, RotationStat, GoneAtReconcile
    <3>3. ASSUME Grown PROVE sink'.told = sink.told
      BY <1>0, <3>3 DEF Grown, Sinks
    <3> HIDE DEF s
    <3> QED BY <2>4, <2>5, <3>1, <3>2, <3>3
  <2>7. CASE StreamData
    BY <1>0, <2>7 DEF StreamData, Given, Sinks
  <2>8. CASE StreamEnds
    BY <1>0, <2>8 DEF StreamEnds, Finish, Sinks
  <2>9. CASE FileGrows \/ FileRewritten \/ FileRemoved \/ FileCreated \/ WatcherReady
             \/ NoticesRemoval \/ NoticesContent \/ SizeStable \/ Ended \/ UNCHANGED vars
    BY <2>9 DEF FileGrows, FileRewritten, FileRemoved, FileCreated, WatcherReady,
                NoticesRemoval, NoticesContent, SizeStable, Ended, vars
  <2>10. CASE Skip \/ BeginInitial \/ BeginReconcile \/ Unlink \/ WatchReady
              \/ StreamOpens \/ dispose
    BY <2>10 DEF Skip, BeginInitial, BeginReconcile, Unlink, WatchReady, StreamOpens,
                 dispose
  <2> QED BY <2>1, <2>2, <2>3, <2>6, <2>7, <2>8, <2>9, <2>10
          DEF Next, WatcherSteps, ReaderSteps
<1> QED BY <1>1, <1>2 DEF Attentive, Unhurt, Told

\* What the watcher has seen lies behind the file, whatever changes.
LEMMA BehindNext == TypeOK /\ Behind /\ [Next]_vars => Behind'
<1> SUFFICES ASSUME TypeOK, Behind, [Next]_vars PROVE Behind'
  OBVIOUS
<1>0. /\ File.rev \in Nat /\ File.size \in Nat /\ File.rev >= 1
      /\ watcher.seen.rev \in Nat /\ watcher.seen.size \in Nat
  <2>1. File \in Revision /\ watcher.seen \in Revision \cup {NoFile}
    BY FileType DEF TypeOK, WatcherType
  <2> QED BY <2>1, BoundsAssumption DEF Revision, NoFile, Sizes
<1>1. CASE FileGrows \/ FileRewritten \/ FileRemoved \/ FileCreated
  <2>1. UNCHANGED watcher
    BY <1>1 DEF FileGrows, FileRewritten, FileRemoved, FileCreated
  <2> QED BY <1>0, <1>1, <2>1, FileAfter DEF Behind, TypeOK
<1>2. CASE WatcherReady \/ NoticesRemoval \/ NoticesContent
  <2>1. watcher'.seen = Path /\ File' = File
    BY <1>2 DEF WatcherReady, NoticesRemoval, NoticesContent, TypeOK, WatcherType, disk,
                File
  <2>2. Path = File \/ Path = NoFile
    BY DEF Path
  <2> QED BY <1>0, <2>1, <2>2 DEF Behind, NoFile
<1>3. ASSUME UNCHANGED disk, watcher'.seen = watcher.seen PROVE Behind'
  BY <1>3 DEF Behind, disk, File
<1>4. CASE SizeStable \/ WatcherFails \/ dispose
  <2>1. UNCHANGED disk /\ watcher'.seen = watcher.seen
    BY <1>4 DEF SizeStable, WatcherFails, dispose, TypeOK, WatcherType
  <2> QED BY <1>3, <2>1
<1>5. CASE ReaderSteps \/ SinkThrows \/ Ended \/ UNCHANGED vars
  <2>1. UNCHANGED <<disk, watcher>>
    BY <1>5 DEF ReaderSteps, Skip, BeginInitial, BeginReconcile, Unlink, BeginAdd,
                WatchReady, SnapshotStat, ReconcileStat, RotationStat, RecoverStat,
                StreamOpens, StreamData, StreamEnds, StreamFails, StreamCloses,
                SinkThrows, Ended, vars
  <2> QED BY <1>3, <2>1
<1> QED BY <1>1, <1>2, <1>4, <1>5 DEF Next, WatcherSteps

\* Until the watcher is ready the first read waits for it.
LEMMA LookingNext == TypeOK /\ Looking /\ [Next]_vars => Looking'
<1> SUFFICES ASSUME TypeOK, Looking, [Next]_vars, ~watcher'.ready PROVE Looking'
  BY DEF Looking
<1>1. ASSUME UNCHANGED <<watcher, ops, reader>>, pc' \in {pc, "ready"} PROVE Looking'
  BY <1>1 DEF Looking
<1>2. CASE FileGrows \/ FileRewritten \/ FileRemoved \/ FileCreated \/ Ended
           \/ UNCHANGED vars
  BY <1>1, <1>2 DEF FileGrows, FileRewritten, FileRemoved, FileCreated, Ended, vars, queue
<1>3. CASE WatcherSteps \/ WatcherFails \/ dispose
  BY <1>3 DEF WatcherSteps, WatcherReady, NoticesRemoval, NoticesContent, SizeStable,
              WatcherFails, dispose, Looks, Looking, TypeOK, WatcherType
<1>4. CASE BeginInitial
  BY <1>1, <1>4 DEF BeginInitial, Goes
<1>5. CASE Skip \/ BeginReconcile \/ Unlink \/ BeginAdd \/ WatchReady \/ SnapshotStat
           \/ ReconcileStat \/ RotationStat \/ RecoverStat
  BY <1>5 DEF Skip, BeginReconcile, Unlink, BeginAdd, Begins, WatchReady, SnapshotStat,
              ReconcileStat, RotationStat, RecoverStat, Looking
<1>6. CASE StreamOpens \/ StreamData \/ StreamEnds \/ StreamFails \/ StreamCloses
           \/ SinkThrows
  BY <1>6 DEF StreamOpens, StreamData, StreamEnds, StreamFails, StreamCloses, SinkThrows,
              More, Reading, Looking
<1> QED BY <1>2, <1>3, <1>4, <1>5, <1>6 DEF Next, ReaderSteps

\* How the queue moves: left alone, behind it, before it.
LEMMA QueueMoves ==
  ASSUME TypeOK, [Next]_vars
  PROVE  \/ UNCHANGED queue
         \/ (NoticesRemoval \/ SizeStable) /\ UNCHANGED pc /\ \E op : enqueue(op)
         \/ /\ ops # <<>> /\ (OpDone \/ \E to : Goes(to))
            /\ pc # "idle" \/ Skip \/ BeginInitial \/ BeginReconcile \/ Unlink \/ BeginAdd
<1>1. CASE FileGrows \/ FileRewritten \/ FileRemoved \/ FileCreated \/ WatcherReady
           \/ NoticesContent \/ WatcherFails \/ dispose \/ Ended \/ UNCHANGED vars
           \/ StreamOpens \/ StreamData
  BY <1>1 DEF FileGrows, FileRewritten, FileRemoved, FileCreated, WatcherReady,
              NoticesContent, WatcherFails, dispose, Ended, vars, StreamOpens, StreamData
<1>2. CASE NoticesRemoval \/ SizeStable
  BY <1>2 DEF NoticesRemoval, SizeStable, queueReconcile, queue
<1>3. CASE Skip \/ BeginInitial \/ BeginReconcile \/ Unlink \/ BeginAdd
  BY <1>3 DEF Skip, BeginInitial, BeginReconcile, Unlink, BeginAdd, Begins
<1>4. ASSUME NEW r, ReconcileDone(r) PROVE OpDone \/ \E to : Goes(to)
  BY <1>4 DEF ReconcileDone
<1>5. CASE WatchReady \/ SnapshotStat \/ RecoverStat \/ SinkThrows
  <2>1. ops # <<>> /\ pc # "idle"
    BY <1>5, Awaits DEF WatchReady, SnapshotStat, RecoverStat, SinkThrows, More, Reading
  <2> QED BY <1>5, <2>1 DEF WatchReady, SnapshotStat, RecoverStat, SinkThrows, OpFails,
                            Snapshot
<1>6. CASE ReconcileStat \/ RotationStat
  <2>1. ops # <<>> /\ pc # "idle"
    BY <1>6, Awaits DEF ReconcileStat, RotationStat
  <2>2. ASSUME Rotate(File.size) PROVE OpDone \/ \E to : Goes(to)
    BY <1>4, <2>2 DEF Rotate, Snapshot
  <2> QED BY <1>4, <1>6, <2>1, <2>2 DEF ReconcileStat, RotationStat, GoneAtReconcile, Grown
<1>7. CASE StreamEnds \/ StreamFails \/ StreamCloses
  <2>1. PICK completed, s : Finish(completed, s)
    BY <1>7 DEF StreamEnds, StreamFails, StreamCloses
  <2>2. ops # <<>> /\ pc # "idle"
    BY <1>7, Awaits DEF StreamEnds, StreamFails, StreamCloses, Reading
  <2> QED BY <1>4, <2>1, <2>2 DEF Finish
<1> QED BY <1>1, <1>2, <1>3, <1>5, <1>6, <1>7 DEF Next, WatcherSteps, ReaderSteps

\* What waits goes on to wait, unless it begins.
LEMMA WaitsNext ==
  ASSUME TypeOK, [Next]_vars, ~reader.disposed,
         NEW op \in {"initial", "reconcile", "add"}, Waits(op),
         op = "initial" => ~BeginInitial, op = "reconcile" => ~BeginReconcile,
         op = "add" => ~BeginAdd
  PROVE  Waits(op)'
<1>1. CASE UNCHANGED queue
  BY <1>1, WaitsOn
<1>2. CASE UNCHANGED pc /\ \E other : enqueue(other)
  BY <1>2, WaitsOn
<1>3. CASE /\ OpDone \/ \E to : Goes(to)
           /\ pc # "idle" \/ Skip \/ BeginInitial \/ BeginReconcile \/ Unlink \/ BeginAdd
  <2>1. pc # "idle" \/ Head(ops) # op
    BY <1>3 DEF Skip, BeginInitial, BeginReconcile, Unlink, BeginAdd, Begins
  <2> QED BY <1>3, <2>1, WaitsOn
<1> QED BY <1>1, <1>2, <1>3, QueueMoves

\* The flag that keeps a second reconcile from the queue stands for one in it.
LEMMA PromisedNext == TypeOK /\ InRange /\ Promised /\ [Next]_vars => Promised'
<1> SUFFICES ASSUME TypeOK, InRange, Promised, [Next]_vars,
                    reader'.reconcileQueued, ~reader'.disposed
             PROVE  Waits("reconcile")'
  BY DEF Promised
<1>1. CASE SizeStable
  <2>1. CASE enqueue("reconcile")
    BY <1>1, <2>1, QueuedWaits DEF SizeStable
  <2>2. CASE UNCHANGED reader
    <3>1. Waits("reconcile") /\ UNCHANGED pc
      BY <1>1, <2>2 DEF Promised, SizeStable
    <3>2. UNCHANGED queue \/ \E other : enqueue(other)
      BY <1>1 DEF SizeStable, queueReconcile, queue
    <3> QED BY <3>1, <3>2, WaitsOn
  <2> QED BY <1>1, <2>1, <2>2 DEF SizeStable, queueReconcile
<1>2. CASE BeginReconcile
  BY <1>2 DEF BeginReconcile, TypeOK, ReaderType
<1>3. CASE ~SizeStable /\ ~BeginReconcile
  <2>1. reader.reconcileQueued /\ ~reader.disposed
    <3>1. CASE Unlink \/ BeginAdd \/ SnapshotStat \/ dispose
      BY <3>1 DEF TypeOK, ReaderType, Unlink, BeginAdd, SnapshotStat, dispose
    <3>2. CASE ReconcileStat \/ RotationStat
      BY <3>2 DEF TypeOK, ReaderType, ReconcileStat, RotationStat, Rotate,
                  GoneAtReconcile, Grown
    <3>3. CASE StreamEnds \/ StreamFails \/ StreamCloses
      <4>1. PICK completed, s : Finish(completed, s)
        BY <3>3 DEF StreamEnds, StreamFails, StreamCloses
      <4> QED BY <4>1 DEF TypeOK, ReaderType, Finish
    <3>4. CASE FileGrows \/ FileRewritten \/ FileRemoved \/ FileCreated \/ WatcherReady
               \/ NoticesRemoval \/ NoticesContent \/ WatcherFails \/ Ended
               \/ UNCHANGED vars
      BY <3>4 DEF FileGrows, FileRewritten, FileRemoved, FileCreated, WatcherReady,
                  NoticesRemoval, NoticesContent, WatcherFails, Ended, vars
    <3>5. CASE Skip \/ BeginInitial \/ WatchReady \/ RecoverStat \/ StreamOpens
               \/ StreamData \/ SinkThrows
      BY <3>5 DEF Skip, BeginInitial, WatchReady, RecoverStat, StreamOpens, StreamData,
                  SinkThrows
    <3> QED BY <1>3, <3>1, <3>2, <3>3, <3>4, <3>5 DEF Next, WatcherSteps, ReaderSteps
  <2> QED BY <1>3, <2>1, WaitsNext DEF Promised
<1> QED BY <1>1, <1>2, <1>3

\* A read stays within the range it was given, and only dispose destroys it.
LEMMA InRangeNext == TypeOK /\ InRange /\ [Next]_vars => InRange'
<1> SUFFICES ASSUME TypeOK, InRange, [Next]_vars PROVE InRange'
  OBVIOUS
<1>0. /\ stream.cursor \in Nat /\ stream.end \in Nat /\ reader.lastOffset \in Nat
      /\ File.size \in Nat
  BY FileType, BoundsAssumption DEF TypeOK, StreamType, Read, ReaderType, Sizes
<1>1. ASSUME UNCHANGED stream, reader.disposed => reader'.disposed PROVE InRange'
  BY <1>1 DEF InRange
<1>2. ASSUME stream' = NoRead PROVE InRange'
  BY <1>2 DEF InRange, NoRead
<1>3. ASSUME NEW start \in Nat, NEW end \in Nat, start <= end,
             stream' = ReadFrom(start, end)
      PROVE  InRange'
  BY <1>3 DEF InRange, ReadFrom, NoRead
<1>4. ASSUME Rotate(File.size) PROVE InRange'
  <2>1. CASE File.size = 0
    BY <1>1, <1>4, <2>1 DEF Rotate, Snapshot, TypeOK, ReaderType
  <2>2. CASE File.size # 0
    BY <1>0, <1>3, <1>4, <2>2 DEF Rotate, Snapshot
  <2> QED BY <2>1, <2>2
<1>5. CASE FileGrows \/ FileRewritten \/ FileRemoved \/ FileCreated \/ WatcherReady
           \/ NoticesRemoval \/ NoticesContent \/ WatcherFails \/ Ended \/ UNCHANGED vars
  BY <1>1, <1>5 DEF FileGrows, FileRewritten, FileRemoved, FileCreated, WatcherReady,
                    NoticesRemoval, NoticesContent, WatcherFails, Ended, vars
<1>6. CASE SizeStable \/ Skip \/ BeginInitial \/ BeginReconcile \/ Unlink \/ BeginAdd
           \/ WatchReady \/ RecoverStat
  BY <1>1, <1>6 DEF SizeStable, queueReconcile, Skip, BeginInitial, BeginReconcile, Unlink,
                    BeginAdd, WatchReady, RecoverStat, TypeOK, ReaderType
<1>7. CASE SnapshotStat
  <2>1. CASE UNCHANGED stream
    BY <1>1, <1>7, <2>1 DEF SnapshotStat, TypeOK, ReaderType
  <2>2. CASE stream' = ReadFrom(0, File.size)
    BY <1>0, <1>3, <2>2
  <2> QED BY <1>7, <2>1, <2>2 DEF SnapshotStat, Snapshot
<1>8. CASE ReconcileStat
  <2>1. CASE GoneAtReconcile
    BY <1>1, <2>1 DEF GoneAtReconcile
  <2>2. CASE Grown
    BY <1>0, <1>1, <1>3, <2>2 DEF Grown
  <2> QED BY <1>4, <1>8, <2>1, <2>2 DEF ReconcileStat
<1>9. CASE RotationStat
  BY <1>1, <1>4, <1>9 DEF RotationStat, TypeOK, ReaderType
<1>10. CASE StreamOpens \/ StreamData \/ dispose
  BY <1>0, <1>10 DEF StreamOpens, StreamData, More, dispose, InRange, TypeOK, StreamType,
                     Read, ReaderType
<1>11. CASE StreamEnds \/ StreamFails \/ StreamCloses \/ SinkThrows
  BY <1>2, <1>11 DEF StreamEnds, StreamFails, StreamCloses, SinkThrows, Finish, dropRead
<1> QED BY <1>5, <1>6, <1>7, <1>8, <1>9, <1>10, <1>11 DEF Next, WatcherSteps, ReaderSteps

\* Whatever is written, removed or created, the watcher has yet to see it.
LEMMA ChangeIsUnseen ==
  ASSUME TypeOK, Behind, FileGrows \/ FileRewritten \/ FileRemoved \/ FileCreated,
         present'
  PROVE  watcher'.seen # Path'
<1>0. /\ File.rev \in Nat /\ File.size \in Nat
      /\ watcher.seen.rev \in Nat /\ watcher.seen.size \in Nat
  <2>1. File \in Revision /\ watcher.seen \in Revision \cup {NoFile}
    BY FileType DEF TypeOK, WatcherType
  <2> QED BY <2>1, BoundsAssumption DEF Revision, NoFile, Sizes
<1>1. UNCHANGED watcher
  BY DEF FileGrows, FileRewritten, FileRemoved, FileCreated
<1>2. Path' = File'
  BY DEF Path
<1>3. \/ (File').rev = File.rev /\ (File').size = File.size + 1
      \/ (File').rev = File.rev + 1
  BY FileAfter DEF TypeOK
<1>4. ASSUME watcher.seen = File' PROVE FALSE
  BY <1>0, <1>3, <1>4 DEF Behind
<1> QED BY <1>1, <1>2, <1>4

\* After a rotation the file is being read from its start, or is empty.
LEMMA RotateCurrent ==
  ASSUME TypeOK, ops # <<>>, ~Reading, UNCHANGED disk, Rotate(File.size)
  PROVE  Current'
<1>0. sink \in Sinks /\ File' = File /\ Len(inodes') = Len(inodes)
  BY DEF TypeOK, SinkType, File, disk
<1>1. AfterReset(sink).got = <<>> /\ AfterReset(sink) \in Sinks
  BY <1>0, SinkTypes
<1>2. sink'.got = <<>> /\ reader'.lastOffset = 0
  BY <1>0, <1>1 DEF Rotate, Snapshot, Sinks, TypeOK, ReaderType
<1>3. CASE File.size = 0
  <2>1. ~Reading'
    BY <1>3, ReconcileDoneType DEF Rotate
  <2> QED BY <1>0, <1>2, <1>3, <2>1 DEF Current
<1>4. CASE File.size # 0
  <2>1. stream' = ReadFrom(0, File.size) /\ Goes("rotRead")
    BY <1>4 DEF Rotate, Snapshot
  <2>2. stream'.end = File.size /\ stream'.ino = 0 /\ Reading'
    BY <2>1 DEF ReadFrom, NoRead, Goes, Reading
  <2> QED BY <1>0, <1>2, <2>2 DEF Current
<1> QED BY <1>3, <1>4

\* A file that grew is read on from where it was.
LEMMA GrownCurrent ==
  ASSUME TypeOK, ops # <<>>, ~Reading, UNCHANGED disk, Grown, sink'.overlooked = {}
  PROVE  Current'
<1>0. sink \in Sinks /\ File' = File /\ Len(inodes') = Len(inodes)
  BY DEF TypeOK, SinkType, File, disk
<1>1. sink'.got = sink.got /\ \A i \in DOMAIN sink.got : sink.got[i].rev = File.rev
  <2> DEFINE rewritten ==
        {"rewrite" : i \in {j \in DOMAIN sink.got : sink.got[j].rev # File.rev}}
  <2>1. sink' = [sink EXCEPT !.overlooked = @ \cup rewritten]
    BY DEF Grown
  <2>2. sink'.got = sink.got /\ rewritten = {}
    <3> HIDE DEF rewritten
    <3> QED BY <1>0, <2>1 DEF Sinks
  <2> QED BY <2>2
<1>2. CASE File.size = reader.lastOffset
  <2>1. ~Reading' /\ UNCHANGED reader
    BY <1>2, ReconcileDoneType DEF Grown
  <2> QED BY <1>0, <1>1, <1>2, <2>1 DEF Current
<1>3. CASE File.size # reader.lastOffset
  <2>1. stream' = ReadFrom(reader.lastOffset, File.size) /\ Goes("recRead")
    BY <1>3 DEF Grown
  <2>2. stream'.end = File.size /\ stream'.ino = 0 /\ Reading'
    BY <2>1 DEF ReadFrom, NoRead, Goes, Reading
  <2> QED BY <1>0, <1>1, <2>2 DEF Current
<1> QED BY <1>2, <1>3

\* While a stream reads on, what it gives is of the file it opened.
LEMMA StreamCurrent ==
  ASSUME TypeOK, Current, StreamOpens \/ StreamData
  PROVE  Current'
<1>0. /\ sink \in Sinks /\ UNCHANGED <<disk, queue, reader>> /\ Reading
      /\ stream \in Read /\ Len(inodes) \in Nat \ {0}
  BY FileType DEF TypeOK, SinkType, StreamType, StreamOpens, StreamData, More
<1>1. (Reading' <=> Reading) /\ File' = File /\ Len(inodes') = Len(inodes)
  BY <1>0 DEF Reading, queue, File, disk
<1>2. CASE StreamOpens
  <2>1. sink' = sink /\ stream'.end = stream.end /\ stream'.ino = Len(inodes)
    BY <1>0, <1>2 DEF StreamOpens, Read
  <2> QED BY <1>0, <1>1, <2>1 DEF Current
<1>3. CASE StreamData
  <2> DEFINE byte == [rev |-> inodes[stream.ino].rev, at |-> stream.cursor]
  <2>1. /\ stream'.end = stream.end /\ stream'.ino = stream.ino
        /\ sink'.got = Append(sink.got, byte)
    BY <1>0, <1>3 DEF StreamData, Read, Given, Sinks
  <2>2. stream.ino = Len(inodes)
    BY <1>0, <1>3 DEF Current, StreamData, More
  <2>3. byte.rev = File.rev
    BY <2>2 DEF File
  <2>4. sink.got \in Seq(Bytes)
    BY <1>0 DEF Sinks
  <2> HIDE DEF byte
  <2>5. \A i \in DOMAIN sink'.got : sink'.got[i].rev = File.rev
    <3> SUFFICES ASSUME NEW i \in DOMAIN sink'.got PROVE sink'.got[i].rev = File.rev
      OBVIOUS
    <3>1. i \in DOMAIN sink.got => sink'.got[i] = sink.got[i]
      BY <2>1, <2>4
    <3>2. i \notin DOMAIN sink.got => sink'.got[i] = byte
      BY <2>1, <2>4
    <3> QED BY <2>3, <3>1, <3>2 DEF Current
  <2> QED BY <1>0, <1>1, <2>1, <2>5 DEF Current
<1> QED BY <1>2, <1>3

\* A read that ends has given what there is of the file.
LEMMA EndsCurrent ==
  ASSUME TypeOK, InRange, Current, StreamEnds, ~reader.disposed
  PROVE  Current'
<1>0. /\ sink \in Sinks /\ UNCHANGED disk /\ Reading /\ stream.ino # 0
      /\ File' = File /\ stream.cursor \in Nat /\ stream.end \in Nat
  BY BoundsAssumption DEF TypeOK, SinkType, StreamType, Read, Sizes, StreamEnds, File, disk
<1>1. Finish(TRUE, sink)
  BY DEF StreamEnds
<1>2. stream.cursor = File.size
  BY <1>0 DEF StreamEnds, More, Current, InRange, File
<1>3. ~Reading' /\ sink'.got = sink.got /\ reader'.lastOffset = stream.cursor
  <2>1. ~Reading'
    BY <1>0, <1>1, FinishType
  <2>2. sink'.got = sink.got
    BY <1>0, <1>1 DEF Finish, Sinks
  <2> QED BY <1>1, <2>1, <2>2 DEF Finish, nextOffset, TypeOK, ReaderType
<1> QED BY <1>0, <1>2, <1>3 DEF Current

\* Every step leaves the file as it is read, being read, or to be looked at.
LEMMA SoonNext == RestInv /\ [Next]_vars => Soon'
<1> SUFFICES ASSUME RestInv, [Next]_vars, Attentive', present', watcher'.seen = Path',
                    watcher'.waiting = "none", sink'.overlooked = {}
             PROVE  Upcoming' \/ Current'
  BY DEF Soon
<1>0. /\ TypeOK /\ Fresh /\ Behind /\ Looking /\ Promised /\ InRange /\ Soon
      /\ Attentive /\ ~reader.disposed /\ ~reader'.disposed
  BY AttentiveBefore DEF RestInv, IInv, Attentive
<1>1. ASSUME pc' \in {"ready", "snapStat", "initRead", "recStat", "rotStat"}
             \/ Waits("initial")' \/ Waits("reconcile")' \/ Waits("add")'
      PROVE  Upcoming'
  BY <1>1 DEF Upcoming
<1>2. CASE FileGrows \/ FileRewritten \/ FileRemoved \/ FileCreated
  BY <1>0, <1>2, ChangeIsUnseen
<1>3. CASE WatcherReady
  <2>1. UNCHANGED queue /\ ~watcher.ready /\ ops \in Seq(Op)
    BY <1>0, <1>3 DEF WatcherReady, TypeOK, QueueType
  <2>2. Waits("initial") \/ pc = "ready"
    BY <1>0, <2>1 DEF Looking, Waits
  <2> QED BY <1>0, <1>1, <2>1, <2>2, WaitsOn DEF queue
<1>4. CASE NoticesRemoval \/ NoticesContent \/ dispose \/ Ended \/ Skip
  BY <1>0, <1>4 DEF NoticesRemoval, NoticesContent, dispose, Ended, Skip, disk,
                    TypeOK, WatcherType, ReaderType
<1>5. CASE StreamFails \/ StreamCloses \/ SinkThrows \/ WatcherFails
  BY <1>0, <1>5, FailureHurts DEF Attentive
<1>6. CASE SizeStable
  <2>1. CASE enqueue("reconcile") \/ enqueue("add")
    BY <1>0, <1>1, <1>6, <2>1, QueuedWaits DEF SizeStable
  <2>2. CASE reader.reconcileQueued /\ UNCHANGED ops
    <3>1. Waits("reconcile") /\ UNCHANGED queue
      BY <1>0, <1>6, <2>2 DEF Promised, SizeStable, queue
    <3> QED BY <1>0, <1>1, <3>1, WaitsOn
  <2> QED BY <1>6, <2>1, <2>2 DEF SizeStable, queueReconcile
<1>7. CASE BeginInitial \/ BeginReconcile \/ WatchReady
  BY <1>0, <1>1, <1>7 DEF BeginInitial, BeginReconcile, WatchReady, Goes
<1>8. CASE BeginAdd
  <2>1. sink \in Sinks
    BY <1>0 DEF TypeOK, SinkType
  <2>2. reader.unlinkPending
    BY <1>8, <2>1 DEF BeginAdd, Sinks
  <2> QED BY <1>1, <1>8, <2>2 DEF BeginAdd, Goes
<1>9. CASE SnapshotStat
  BY <1>0, <1>1, <1>9 DEF SnapshotStat, Snapshot, Goes
<1>10. CASE ReconcileStat \/ RotationStat
  <2>1. ops # <<>> /\ ~Reading /\ UNCHANGED disk /\ present
    BY <1>0, <1>10, Awaits DEF ReconcileStat, RotationStat, Reading, disk
  <2>2. Rotate(File.size) \/ Grown
    BY <1>10, <2>1 DEF ReconcileStat, RotationStat, GoneAtReconcile
  <2> QED BY <1>0, <2>1, <2>2, RotateCurrent, GrownCurrent
<1>11. ASSUME UNCHANGED <<disk, watcher, sink.overlooked>> PROVE Upcoming \/ Current
  BY <1>0, <1>11 DEF Soon, Path, File, disk
<1>12. CASE Unlink \/ RecoverStat
  <2>1. UNCHANGED <<disk, watcher, stream>> /\ sink'.overlooked = sink.overlooked
        /\ sink'.got = sink.got /\ reader'.lastOffset = reader.lastOffset
    BY <1>0, <1>12 DEF Unlink, RecoverStat, WithError, TypeOK, SinkType, Sinks, ReaderType
  <2>2. ~Reading /\ ~Reading' /\ pc \in {"idle", "recoverStat"}
        /\ ~BeginInitial /\ ~BeginReconcile /\ ~BeginAdd
    BY <1>12 DEF Unlink, RecoverStat, Reading, OpDone, Begins, BeginInitial,
                 BeginReconcile, BeginAdd
  <2>3. CASE Upcoming
    <3>1. Waits("initial") \/ Waits("reconcile") \/ Waits("add")
      BY <2>2, <2>3 DEF Upcoming
    <3> QED BY <1>0, <1>1, <2>2, <3>1, WaitsNext
  <2>4. CASE Current
    BY <2>1, <2>2, <2>4 DEF Current, File, disk
  <2> QED BY <1>11, <2>1, <2>3, <2>4
<1>13. CASE StreamOpens \/ StreamData
  <2>1. UNCHANGED <<disk, watcher, queue>> /\ sink'.overlooked = sink.overlooked
    BY <1>0, <1>13 DEF StreamOpens, StreamData, Given, TypeOK, SinkType, Sinks
  <2>2. CASE Upcoming
    BY <1>0, <1>1, <2>1, <2>2, WaitsOn DEF Upcoming, queue
  <2>3. CASE Current
    BY <1>0, <1>13, <2>3, StreamCurrent
  <2> QED BY <1>11, <2>1, <2>2, <2>3
<1>14. CASE StreamEnds
  <2>1. /\ UNCHANGED <<disk, watcher>> /\ sink'.overlooked = sink.overlooked
        /\ Reading /\ Finish(TRUE, sink)
    BY <1>0, <1>14 DEF StreamEnds, Finish, TypeOK, SinkType, Sinks
  <2>2. CASE pc = "initRead"
    BY <1>1, <2>1, <2>2 DEF Finish, Goes
  <2>3. CASE pc # "initRead" /\ Upcoming
    <3>1. Waits("initial") \/ Waits("reconcile") \/ Waits("add")
      BY <2>1, <2>3 DEF Upcoming, Reading
    <3>2. ~BeginInitial /\ ~BeginReconcile /\ ~BeginAdd
      BY <2>1 DEF Begins, BeginInitial, BeginReconcile, BeginAdd, Reading
    <3> QED BY <1>0, <1>1, <3>1, <3>2, WaitsNext
  <2>4. CASE Current
    BY <1>0, <1>14, <2>4, EndsCurrent
  <2> QED BY <1>11, <2>1, <2>2, <2>3, <2>4
<1>15. CASE UNCHANGED vars
  <2>1. Upcoming \/ Current
    BY <1>11, <1>15 DEF vars
  <2>2. Current => Current'
    BY <1>15 DEF vars, queue, disk, Current, Reading, File
  <2>3. Upcoming => Upcoming'
    BY <1>0, <1>1, <1>15, WaitsOn DEF vars, queue, Upcoming
  <2> QED BY <2>1, <2>2, <2>3
<1> QED BY <1>2, <1>3, <1>4, <1>5, <1>6, <1>7, <1>8, <1>9, <1>10, <1>12, <1>13, <1>14,
           <1>15 DEF Next, WatcherSteps, ReaderSteps

\* A file that only grew goes on so for as long as it does.
LEMMA OriginalNext == RestInv /\ [Next]_vars => Original'
<1> SUFFICES ASSUME RestInv, [Next]_vars, Attentive', present', (File').rev = 1
             PROVE  OnlyGrows' /\ OnlyReconciles' /\ NoneShort' /\ Loaded'
  BY DEF Original
<1>0. /\ TypeOK /\ Fresh /\ Behind /\ Looking /\ InRange /\ Original
      /\ Attentive /\ ~reader.disposed /\ ~reader'.disposed
  BY AttentiveBefore DEF RestInv, IInv, Attentive
<1>t. /\ File.rev \in Nat /\ File.rev >= 1 /\ File.size \in Nat
      /\ stream.cursor \in Nat /\ stream.end \in Nat /\ reader.lastOffset \in Nat
      /\ sink \in Sinks /\ ops \in Seq(Op) /\ (pc # "idle" => ops # <<>>)
  BY <1>0, FileType, BoundsAssumption
     DEF TypeOK, StreamType, Read, ReaderType, SinkType, QueueType, Sizes
<1>1. ASSUME UNCHANGED disk
      PROVE  /\ present /\ File' = File /\ File.rev = 1 /\ Path = File /\ Path' = File
             /\ OnlyGrows /\ OnlyReconciles /\ NoneShort /\ Loaded
  BY <1>0, <1>1 DEF Original, disk, File, Path
<1>2. CASE FileGrows \/ FileRewritten \/ FileRemoved \/ FileCreated
  <2>1. UNCHANGED <<watcher, queue, stream, reader, sink>>
    BY <1>2 DEF FileGrows, FileRewritten, FileRemoved, FileCreated
  <2>2. FileGrows /\ present /\ File.rev = 1 /\ Len(inodes') = Len(inodes)
        /\ (File').size = File.size + 1
    <3>1. DiskType
      BY <1>0 DEF TypeOK
    <3>2. FileGrows
      <4>1. ASSUME FileRewritten \/ FileCreated PROVE FALSE
        BY <1>t, <3>1, <4>1, FileAfter
      <4>2. ~FileRemoved
        BY <3>1, FileAfter
      <4> QED BY <1>2, <4>1, <4>2
    <3> QED BY <3>1, <3>2, FileAfter DEF FileGrows
  <2>3. OnlyGrows /\ OnlyReconciles /\ NoneShort /\ Loaded
    BY <1>0, <2>2 DEF Original
  <2>4. OnlyGrows' /\ OnlyReconciles' /\ Loaded'
    BY <2>1, <2>2, <2>3 DEF OnlyGrows, OnlyReconciles, Loaded, queue
  <2>5. NoneShort'
    BY <1>t, <2>1, <2>2, <2>3 DEF NoneShort, queue, Reading
  <2> QED BY <2>4, <2>5
<1>3. CASE NoticesRemoval \/ dispose \/ Ended \/ Skip
  BY <1>0, <1>3 DEF NoticesRemoval, dispose, Ended, Skip, disk, TypeOK, ReaderType
<1>4. CASE StreamFails \/ StreamCloses \/ SinkThrows \/ WatcherFails
  BY <1>0, <1>4, FailureHurts DEF Attentive
<1>5. ASSUME UNCHANGED <<disk, watcher>> PROVE OnlyGrows'
  BY <1>1, <1>5 DEF OnlyGrows, disk
<1>6. ASSUME UNCHANGED <<disk, stream>>, reader'.lastOffset = reader.lastOffset,
             Reading' => Reading
      PROVE  NoneShort'
  BY <1>1, <1>6 DEF NoneShort
<1>7. ASSUME UNCHANGED <<disk, queue, stream, sink>>,
             reader'.lastOffset = reader.lastOffset
      PROVE  OnlyReconciles' /\ NoneShort' /\ Loaded'
  BY <1>1, <1>6, <1>7 DEF OnlyReconciles, Loaded, queue, Reading
<1>8. ASSUME OnlyReconciles, OpDone \/ \E to : Goes(to),
             pc' \notin {"rotStat", "rotRead"}, ops # <<>>
      PROVE  OnlyReconciles'
  <2>1. CASE UNCHANGED ops
    BY <1>8, <2>1 DEF OnlyReconciles
  <2>2. CASE ops' = Tail(ops)
    <3>1. \A i \in DOMAIN ops' : i + 1 \in DOMAIN ops /\ ops'[i] = ops[i + 1]
      BY <1>t, <1>8, <2>2
    <3> QED BY <1>8, <3>1 DEF OnlyReconciles
  <2> QED BY <1>8, <2>1, <2>2 DEF OpDone, Goes
<1>9. CASE WatcherReady \/ NoticesContent
  <2>1. UNCHANGED <<disk, queue, stream, reader, sink>>
    BY <1>9 DEF WatcherReady, NoticesContent
  <2>2. OnlyGrows'
    <3>1. File # NoFile
      BY <1>t DEF NoFile
    <3>2. OnlyGrows /\ Path = File /\ UNCHANGED inodes
      BY <1>1, <2>1 DEF disk
    <3>3. watcher'.seen = Path /\ watcher'.waiting # "add"
      BY <1>0, <1>9, <3>2 DEF WatcherReady, NoticesContent, Looks, OnlyGrows, TypeOK,
                             WatcherType
    <3> QED BY <3>1, <3>2, <3>3 DEF OnlyGrows
  <2> QED BY <1>7, <2>1, <2>2
<1>10. CASE SizeStable
  <2>1. UNCHANGED <<disk, pc, stream, sink>>
    BY <1>10 DEF SizeStable
  <2>2. OnlyGrows /\ OnlyReconciles /\ NoneShort /\ Loaded
    BY <1>1, <2>1
  <2>3. OnlyGrows'
    BY <1>0, <1>10, <2>1, <2>2 DEF OnlyGrows, SizeStable, TypeOK, WatcherType, disk
  <2>4. /\ queueReconcile /\ reader'.lastOffset = reader.lastOffset
        /\ UNCHANGED ops \/ ops' = Append(ops, "reconcile")
    BY <1>0, <1>10, <2>2 DEF SizeStable, OnlyGrows, queueReconcile, enqueue, TypeOK,
                            ReaderType
  <2>5. OnlyReconciles'
    <3>1. \A i \in DOMAIN ops' : (i \in DOMAIN ops /\ ops'[i] = ops[i]) \/ ops'[i] = "reconcile"
      BY <1>t, <2>4
    <3> QED BY <2>1, <2>2, <3>1 DEF OnlyReconciles
  <2>6. NoneShort'
    BY <1>6, <2>1, <2>4 DEF Reading
  <2>7. Loaded'
    <3>1. ops # <<>> => ops' # <<>> /\ Head(ops') = Head(ops)
      BY <1>t, <2>4
    <3> QED BY <2>1, <2>2, <3>1 DEF Loaded
  <2> QED BY <2>3, <2>5, <2>6, <2>7
<1>11. CASE Unlink \/ BeginAdd
  <2>1. UNCHANGED disk /\ ops # <<>> /\ Head(ops) \in {"unlink", "add"}
    BY <1>11 DEF Unlink, BeginAdd, Begins
  <2>2. ops[1] \in {"initial", "reconcile"}
    BY <1>1, <1>t, <2>1 DEF OnlyReconciles
  <2> QED BY <1>t, <2>1, <2>2
<1>12. CASE BeginInitial \/ BeginReconcile \/ WatchReady
  <2>1. /\ UNCHANGED <<disk, watcher, stream, sink>> /\ ops # <<>>
        /\ reader'.lastOffset = reader.lastOffset
    BY <1>0, <1>12, Awaits DEF BeginInitial, BeginReconcile, WatchReady, Begins, TypeOK,
                              ReaderType
  <2>2. Goes("ready") \/ Goes("recStat") \/ Goes("snapStat")
    BY <1>0, <1>12 DEF BeginInitial, BeginReconcile, WatchReady
  <2>3. OnlyReconciles'
    BY <1>1, <1>8, <2>1, <2>2 DEF Goes
  <2>4. NoneShort'
    BY <1>6, <2>1, <2>2 DEF Goes, Reading
  <2>5. Loaded'
    <3>1. Loaded
      BY <1>1, <2>1
    <3>2. CASE BeginReconcile
      BY <2>1, <3>1, <3>2 DEF Loaded, BeginReconcile, Begins
    <3>3. CASE BeginInitial \/ WatchReady
      BY <1>0, <2>1, <3>1, <3>3 DEF Loaded, BeginInitial, WatchReady, Begins, Goes, Fresh
    <3> QED BY <1>12, <3>2, <3>3
  <2> QED BY <1>5, <2>1, <2>3, <2>4, <2>5
<1>13. CASE SnapshotStat
  <2>1. UNCHANGED <<disk, watcher>> /\ ops # <<>> /\ Head(ops) = "initial"
    BY <1>0, <1>13, Awaits DEF SnapshotStat, Fresh
  <2>2. reader'.lastOffset = reader.lastOffset /\ present
    BY <1>0, <1>1, <1>13, <2>1 DEF SnapshotStat, TypeOK, ReaderType
  <2>3. CASE File.size = 0
    <3>1. Goes("recStat") /\ sink'.phase = "complete" /\ UNCHANGED stream
      BY <1>t, <1>13, <2>2, <2>3 DEF SnapshotStat, Snapshot, Sinks
    <3>2. OnlyReconciles' /\ NoneShort'
      BY <1>1, <1>6, <1>8, <2>1, <2>2, <3>1 DEF Goes, Reading
    <3> QED BY <1>5, <2>1, <3>1, <3>2 DEF Loaded
  <2>4. CASE File.size # 0
    <3>1. Goes("initRead") /\ stream' = ReadFrom(0, File.size)
      BY <1>13, <2>2, <2>4 DEF SnapshotStat, Snapshot
    <3>2. OnlyReconciles'
      BY <1>1, <1>8, <2>1, <3>1 DEF Goes
    <3>3. stream'.end = File.size
      BY <3>1 DEF ReadFrom, NoRead
    <3>4. NoneShort'
      BY <1>1, <1>t, <2>1, <2>2, <3>3 DEF NoneShort
    <3>5. Loaded'
      BY <2>1, <3>1 DEF Loaded, Goes
    <3> QED BY <1>5, <2>1, <3>2, <3>4, <3>5
  <2> QED BY <2>3, <2>4
<1>14. CASE ReconcileStat \/ RotationStat \/ RecoverStat
  <2>1. UNCHANGED <<disk, watcher>> /\ ops # <<>> /\ ~Reading
        /\ pc \in {"recStat", "rotStat", "recoverStat"}
    BY <1>0, <1>14, Awaits DEF ReconcileStat, RotationStat, RecoverStat, Reading
  <2>2. /\ present /\ File' = File /\ OnlyReconciles /\ NoneShort /\ Loaded
        /\ sink.phase = "complete" /\ pc # "rotStat"
    BY <1>1, <2>1 DEF Loaded, OnlyReconciles
  <2>3. CASE RecoverStat
    <3>1. sink'.phase = "complete" /\ OpDone /\ UNCHANGED <<stream, reader>>
      BY <1>t, <2>2, <2>3 DEF RecoverStat, Sinks
    <3> QED BY <1>5, <1>6, <1>8, <2>1, <2>2, <3>1 DEF OpDone, Loaded, Reading
  <2>4. CASE ReconcileStat
    <3>1. Grown
      BY <1>t, <2>2, <2>4 DEF ReconcileStat, GoneAtReconcile, NoneShort
    <3>2. sink'.phase = "complete" /\ UNCHANGED reader
      BY <1>t, <2>2, <3>1 DEF Grown, Sinks
    <3>3. CASE UNCHANGED stream /\ ReconcileDone(reader.snapshotRead)
      <4>1. OpDone \/ Goes("recoverStat")
        BY <3>3 DEF ReconcileDone
      <4>2. pc' \in {"idle", "recoverStat"}
        BY <4>1 DEF OpDone, Goes
      <4> QED BY <1>5, <1>6, <1>8, <2>1, <2>2, <3>2, <3>3, <4>1, <4>2 DEF Loaded, Reading
    <3>4. CASE Goes("recRead") /\ stream' = ReadFrom(reader.lastOffset, File.size)
      <4>1. stream'.end = File.size /\ pc' = "recRead"
        BY <3>4 DEF ReadFrom, NoRead, Goes
      <4>2. NoneShort'
        BY <1>t, <2>2, <3>2, <4>1 DEF NoneShort
      <4> QED BY <1>5, <1>8, <2>1, <2>2, <3>2, <3>4, <4>1, <4>2 DEF Loaded
    <3> QED BY <3>1, <3>3, <3>4 DEF Grown
  <2> QED BY <1>14, <2>2, <2>3, <2>4 DEF RotationStat
<1>15. CASE StreamOpens \/ StreamData
  <2>1. /\ UNCHANGED <<disk, watcher, queue, reader>> /\ sink'.phase = sink.phase
        /\ stream'.end = stream.end /\ (Reading' <=> Reading)
    BY <1>0, <1>t, <1>15 DEF StreamOpens, StreamData, Given, Sinks, TypeOK, StreamType,
                            Read, Reading, queue
  <2>2. File' = File /\ OnlyReconciles /\ NoneShort /\ Loaded
    BY <1>1, <2>1
  <2> QED BY <1>5, <2>1, <2>2 DEF OnlyReconciles, NoneShort, Loaded, queue
<1>16. CASE StreamEnds
  <2>1. UNCHANGED <<disk, watcher>> /\ Reading /\ Finish(TRUE, sink) /\ ops # <<>>
        /\ stream.ino # 0 /\ ~More /\ pc # "idle"
    BY <1>0, <1>16, Awaits DEF StreamEnds, Reading
  <2>2. /\ File' = File /\ OnlyGrows /\ OnlyReconciles /\ NoneShort /\ Loaded
    BY <1>1, <2>1
  <2>3. stream.cursor = stream.end /\ stream.end <= File.size
    <3>1. stream.ino = 1
      BY <1>0, <2>1, <2>2 DEF OnlyGrows, TypeOK, StreamType, Read
    <3>2. inodes[stream.ino] = File
      BY <2>2, <3>1 DEF OnlyGrows, File
    <3> QED BY <1>0, <1>t, <2>1, <2>2, <3>2 DEF More, InRange, NoneShort
  <2>4. Whole(TRUE)
    BY <1>t, <2>3 DEF Whole, nextOffset
  <2>5. ~Reading' /\ reader'.lastOffset = stream.cursor
    <3>1. ~Reading'
      BY <1>0, <1>t, <2>1, FinishType
    <3> QED BY <1>0, <2>1, <3>1 DEF Finish, nextOffset, TypeOK, ReaderType
  <2>6. NoneShort'
    BY <2>2, <2>3, <2>5 DEF NoneShort
  <2>7. sink'.phase = "complete"
    BY <1>t, <2>1, <2>2, <2>4 DEF Finish, Loaded, Sinks, Reading
  <2>8. OnlyReconciles'
    <3>1. OpDone \/ Goes("recStat") \/ Goes("recoverStat")
      BY <2>1 DEF Finish, ReconcileDone
    <3>2. pc' \in {"idle", "recStat", "recoverStat"}
      BY <3>1 DEF OpDone, Goes
    <3> QED BY <1>8, <2>1, <2>2, <3>1, <3>2
  <2> QED BY <1>5, <2>1, <2>6, <2>7, <2>8 DEF Loaded
<1>17. CASE UNCHANGED vars
  BY <1>5, <1>7, <1>17 DEF vars
<1> QED BY <1>2, <1>3, <1>4, <1>9, <1>10, <1>11, <1>12, <1>13, <1>14, <1>15, <1>16, <1>17
        DEF Next, WatcherSteps, ReaderSteps

\* Nothing has been read when the reader starts.
LEMMA RestInit == Init => RestInv
<1> SUFFICES ASSUME Init PROVE RestInv
  OBVIOUS
<1>1. Ordered /\ Fresh /\ BytesInPlace
  BY DEF Init, Ordered, Fresh, BytesInPlace, Reading
<1>2. /\ File.rev = 1 /\ File.size \in Nat /\ Len(inodes) = 1 /\ File # NoFile
  <2>1. PICK n \in 0..MaxSize : inodes = <<[rev |-> 1, size |-> n]>>
    BY DEF Init
  <2>2. [rev |-> 1, size |-> n].rev = 1 /\ [rev |-> 1, size |-> n].size = n /\ n \in Nat
    BY BoundsAssumption
  <2>3. Len(inodes) = 1 /\ inodes[1] = [rev |-> 1, size |-> n]
    BY <2>1
  <2> QED BY <2>2, <2>3 DEF File, NoFile
<1>3. Behind /\ Looking /\ Promised /\ InRange
  BY <1>2 DEF Init, Behind, Looking, Promised, InRange, NoFile, NoRead
<1>4. Soon
  BY <1>2 DEF Init, Soon, Path
<1>5. Original
  BY <1>2 DEF Init, Original, OnlyGrows, OnlyReconciles, NoneShort, Loaded, Reading
<1> QED BY <1>1, <1>3, <1>4, <1>5, TypeInit DEF RestInv, IInv

\* At rest there is nothing to come.
LEMMA RestIsAll ==
  ASSUME RestInv
  PROVE  RestIsComplete
<1>0. /\ TypeOK /\ BytesInPlace /\ Soon /\ Original /\ inodes # <<>>
      /\ sink.got \in Seq(Bytes)
  BY DEF RestInv, IInv, TypeOK, DiskType, SinkType, Sinks
<1>1. ASSUME Watching, Unhurt PROVE Attentive /\ ops = <<>> /\ pc = "idle" /\ ~Reading
  BY <1>0, <1>1 DEF Watching, AtRest, Attentive, TypeOK, QueueType, Reading
<1>2. ASSUME Watching, Unhurt, sink.overlooked = {}
      PROVE  sink.got = [i \in 1..File.size |-> [rev |-> File.rev, at |-> i - 1]]
  <2>1. Current
    <3>1. ~Upcoming
      BY <1>1, <1>2 DEF Upcoming, Waits
    <3> QED BY <1>0, <1>1, <1>2, <3>1 DEF Soon, Watching, AtRest
  <2>2. /\ Len(sink.got) = File.size
        /\ \A i \in DOMAIN sink.got : sink.got[i].at = i - 1 /\ sink.got[i].rev = File.rev
    BY <1>0, <1>1, <1>2, <2>1 DEF Current, BytesInPlace, Unhurt, Told
  <2>3. \A i \in DOMAIN sink.got : sink.got[i] = [rev |-> File.rev, at |-> i - 1]
    BY <1>0, <2>2, BytesTyped DEF Bytes
  <2>4. DOMAIN sink.got = 1..File.size
    BY <1>0, <2>2
  <2>5. sink.got = [i \in DOMAIN sink.got |-> sink.got[i]]
    BY <1>0
  <2> DEFINE whole == [i \in 1..File.size |-> [rev |-> File.rev, at |-> i - 1]]
  <2>6. DOMAIN whole = DOMAIN sink.got /\ \A i \in DOMAIN whole : whole[i] = sink.got[i]
    BY <2>3, <2>4
  <2>7. whole = [i \in DOMAIN whole |-> whole[i]]
    OBVIOUS
  <2> HIDE DEF whole
  <2>8. sink.got = whole
    BY <2>5, <2>6, <2>7
  <2> QED BY <2>8 DEF whole
<1>3. ASSUME Watching, Unhurt, File.rev = 1 PROVE sink.phase = "complete"
  BY <1>0, <1>1, <1>3 DEF Original, Loaded, Watching
<1> QED BY <1>2, <1>3 DEF RestIsComplete, ExactAtRest, InitialLoadEnds

\* When the watcher and the queue are at rest, the sink has the whole file and
\* nothing else and shows it as loaded, whatever was written, removed or created
\* in whatever order, for files of any size and any number of revisions.
THEOREM RestCorrect == Spec => []RestIsComplete
<1>1. RestInv /\ [Next]_vars => RestInv'
  BY TypeNext, FreshNext, BytesNext, BehindNext, LookingNext, PromisedNext, InRangeNext,
     SoonNext, OriginalNext DEF RestInv, IInv
<1> QED BY <1>1, RestInit, RestIsAll, PTL DEF Spec
=============================================================================
