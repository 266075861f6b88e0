# A TLA+ model of AHP Inspector

AHP Inspector tails a JSONL log of the Agent Host Protocol, pairs its requests
with their responses, rebuilds the state the log speaks of, and shows it in a
browser or in VS Code. These modules model the parts whose correctness depends
on order: what happens when lines, time-outs, rotations, readers, uploads, user
actions and shutdown come in an order nobody wrote a test for.

Paths below are relative to `src/packages/`.

## 1. Inventory

Everything on the server runs on one Node.js event loop, and everything in the
browser on another: a callback runs to its end, and others run only where the
code awaits. A TLA+ action is therefore what runs between two awaits, and the
interleavings are those of the awaits.

| Component | State it keeps | Operations | Interacts with | Correct when |
|---|---|---|---|---|
| EventStore (`core/src/event-store.ts`) | columns, one slot per event; subscribers | append, reset, subscribe | calls its subscribers inside append, in the order they subscribed | indexes are dense from the last reset |
| Correlator (`core/src/correlator.ts`, `shared/src/correlation.ts`) | `pairIdx`, `latencyMs`, `status`; two pending maps; change set | onAppend, flush, drainChangedIndexes, reset, dispose | EventStore (subscriber), AppState (caller) | pairs are a matching, verdicts are final, maps are bounded |
| AppState (`server/src/app-state.ts`) | rows, load phase, sticky errors, listeners, ticker | reader callbacks, flush, subscribe, snapshot, dispose | the reader calls it; it drives store, correlator, indexes; it emits frames | rows equal the correlator's columns; frames describe every change |
| Line splitter, parser (`parser/src/*`) | buffered tail, oversize skip | push, checkpoint, finalizeIf, reset | AppState | bytes accounted for; the line after a skipped one is whole |
| Event stream (`server/src/sse-routes.ts`) | per stream: queue, three counters, end reason, heartbeat; one counter of streams | subscribe, snapshot, write, merge, end | AppState frames, session changes, the browser | nothing lost or twice; counters exact; slots released |
| SSE client, UI store (`ui/src/transport/sse-client.ts`, `ui/src/state/store.ts`) | queue of frames, rows, pause buffer, connection | one handler per frame; pause, resume, retry, switch | the event stream; the user | the rows shown are those of the log |
| View persistence (`ui/src/persistence/persist-effect.ts`, `ui/src/state/persistence.ts`) | hydrated log, debounce timer, localStorage | hydrate, schedule, save | UI store | one log's view never saved under another's key |
| Session manager (`server/src/session-manager.ts`, `session-routes.ts`) | `active`, promise chain, listeners | open, close, dispose, onChange | creates and disposes AppStates; calls streams and uploads | one log at a time, none lost, listeners told |
| Upload routes (`server/src/upload-routes.ts`) | known directories, background cleanups, requests under way | upload, cleanup on close, dispose | opens through the session manager | the open file stays; nothing stays after dispose |
| Host adapter, tail reader (`host-node/src/host-adapter.ts`, `tail-reader.ts`) | offset, operation queue, unlink flag, reader groups | initial read, reconcile, rotation, dispose | chokidar and fs events; calls AppState | each byte of a revision delivered once, in order |
| Search index and routes (`server/src/search-index.ts`, `search-routes.ts`) | events, text cache, generation | append, reset, scanAsync | AppState, HTTP | answers belong to one revision |
| State replay (`core/src/replay.ts`, `server/src/state-replay-index.ts`, `state-routes.ts`) | resources with confidence, requests, intents; bounded cache | replayToIndex, stateAtIndex | EventStore, HTTP, channel reducers | honest confidence; same answer with or without the cache |
| Host protocol channels (`protocol/src/channels-*`) | one state per channel | one reducer per channel, one case per action | replay | lists and flags of a replica agree, whatever order actions come in |
| Detail routes, client cache (`server/src/detail-routes.ts`, `ui/src/transport/http-client.ts`) | LRU of 16 details | fetchEvent | store, HTTP | a cached detail is that of the row shown |
| Discovery (`host-node/src/discovery.ts` and others) | candidate ids | discover, resolve | session manager | an id resolves to the path it was given for |
| Log server (`server/src/log-server.ts` and middleware) | close promise | start, close | routes | closes the routes before its owner disposes the manager |
| VS Code extension (`extension/src/*`) | current, starting, closing | get or start, close | log server, session manager | one server at a time |
| Command line (`cli/src/index.ts`) | none | a sequence of awaits | all of the above | - |
| UI components, selectors, projections, summaries | view only | pure functions, rendering | UI store | - |

The behaviours that are hard, and where they bite, are the `hazards` of
`PROJECT.json`: ids reused or answered late, rows that are copies, frames
emitted while a snapshot is being written, counters changed in five places,
opens that overlap closes and dispose, uploads that overlap uploads, a reader
that pauses across a reconnection, a status recomputed handler by handler.

## 2. Modules

| Module | What it is |
|---|---|
| `Correlator` | the Correlator over the EventStore, as operators on the record of its fields (`OnAppend`, `FlushAt`, `Drained`) and actions that apply them |
| `RowFrames` | the frames by which rows travel and what a reader does with one |
| `RowSource` | abstract specification of an open log: the rows change only as the frames emitted say, and every frame fits |
| `AppState` | one open log: the reader's callbacks, the ticker, listeners, dispose; uses `Correlator`'s operators, implements `RowSource` |
| `LineSplitter` | the text of a log into lines, and the ingest that keeps their offsets |
| `LogStream` | the event streams over a `RowSource`, up to the rows of the reader |
| `Viewer` | the browser's end: the client's queue, the store, the user |
| `Preferences` | what the browser remembers of the view of each log |
| `SessionManager` | the owner of the open log, its chain, its listeners |
| `UploadRoutes` | uploads over `SessionManager` |
| `TailReader` | the reader that follows a file, with the file and the watcher around it |
| `LogIndexes` | search and the cache of replayed states over a log that changes |
| `Replay` | the resources of a replay, their confidence, requests and intents |
| `StateRoutes` | what `/api/state-at` says of a `Replay` |
| `ChatChannel`, `SessionChannel` (with `Customizations`), `TerminalChannel`, `ChangesetChannel`, `AnnotationsChannel`, `AutomationChannels`, `RootChannel` | one reducer each, one action per action type |
| `KeyedLists` | the list edits the reducers share |
| `Channels` | the channels side by side, in slices TLC can enumerate |
| `ExtensionServer` | the one server of the VS Code extension |
| `MCCorrelator`, `MCAppState`, `MCLogStream`, `MCUploadRoutes`, `MCTailReader`, `MCState`, `MCViewer`, `MCLogIndexes`, `MCParts` | the instances TLC checks |
| `CorrelatorProofs`, `TailReaderProofs`, `LogStreamProofs`, `ViewerProofs`, `ReplayProofs`, `ChatProofs`, `ChannelProofs`, `PartsProofs` | theorems; `PartsProofs` is about `ExtensionServer`, `UploadRoutes`, `Preferences` and `AppState`, `ChatProofs` about any `ChatChannel`, `ChannelProofs` about `Channels` |

Operators described in a comment as a *mutated form* are not part of the model.
Each is a plausible bug (a dropped guard, a missing reset, a swapped order) put
in the place of the definition that follows it, to see that a property fails.

How the modules fit: `AppState` applies `Correlator`'s operators and refines
`RowSource`; `LogStream` and `Viewer` each serve a `RowSource` reduced to what
their readers tell apart, the one up to the frames on the wire, the other from
the wire to the screen; `UploadRoutes` takes the actions of `SessionManager` and
adds its own; `Replay` says which actions reach a resource, `Channels` what a
resource makes of them.

### Correlator

Events count from 1; `NoIdx` is the code's -1. An event is its kind, direction,
id, time and, for a response, whether it is an error; everything that is neither
a request nor a response is `Other`. An id stands for the pair of JSON value and
id type, so the number 1 and the string "1" are two elements of `Id`. A
JavaScript `Map` is a function whose entries also hold the event that created
the entry (`at`), because `Map.set` on a present key keeps its place in the
insertion order that eviction follows. `latencyMs` may be negative, as in the
code; `latencyOf` of AppState hides it.

`append`, `flush`, `drainChangedIndexes` and `reset` are the four calls other
components make. Each is one step: the code has no await in them. `reset` stands
for the store's and the correlator's reset, which `onReset` calls in one run.

### AppState

A line is taken after parsing. `ingestLine` is `store.append` with both its
subscribers: the Correlator's, then AppState's, which appends the row, drains
the change set and emits an append frame and a patch frame. A row is its status,
latency and pair, the fields that change after the append. `out` is the
sequence of frames emitted by the last step; `R == INSTANCE RowSource` makes
"the rows are what the frames say" a refinement.

One given listener is followed (`subscribed`, `heard`), which is all
`ErrorsHeardOnce` needs: listeners do not see each other. `dispose` is two
steps, before and after `await host.close`; between them the reader may still
finish a snapshot (`onInitialReadComplete` stays enabled until `closed`).

### LineSplitter

A character is a line feed, a carriage return, a byte order mark (three bytes),
the end of a record or anything else; a text parses when its last character,
white space aside, ends a record. `pushDetailed` is the pipeline of the code:
the terminator left over from a line that the end of the file ended, the byte
order mark, the carriage return held back, the rest of an oversized line, the
lines. `onInitialReadComplete` is the checkpoint at the end of a read and
`finalizeIf`. A log is any text in which a record is followed by a line feed
(`IsLog`); the properties compare with the lines of the whole text split at
once.

### LogStream

The stream handler is one coroutine; `pc` names the await it is suspended at
and each action is the code from there to the next await. `Open` is `subscribe`
and `snapshot()` in one step, as no await separates them. A frame's size is one
byte plus one per row. The reader (`view`) applies frames at once and places
rows by position, as `store.ts` does when not paused. A handler that has ended
keeps the reason and the counters; a reader that has gone is not followed.

A watch error is a frame without rows. AppState keeps the errors since the last
rotation and tells them to a subscriber at once, so `Open` enqueues some number
of them (`Replayed`) before the snapshot begins; `SourceError` emits one to the
streams that live. They count against the limits like any frame, and enough of
them end a stream that has not written anything yet. `MaxErrors` bounds the
errors in a queue.

The log it serves is a `RowSource` reduced to what the properties tell apart: a
row is the revision of its file and a count of patches. `SourceAppend`,
`SourcePatch`, `SourceProgress` and `SourceRotation` emit the frames AppState
emits for them; `SessionChange` is a session manager notification.

### Viewer

`client` is the closure of `connectLogStream`: its queue, `drainScheduled`,
`graceful`, `hasConnected`; a generation is modelled by `due`, which says that
a drain of the current generation will run. `Deliver` dispatches a frame to its
listener: row frames are queued (`Listened`), the others act on the store at
once (`Heard`). `Drain` is the animation frame, `drainFrames` its loop over the
frames taken, `Drained` what it does with one frame. Nothing stands in for
animation frames where the browser calls none: `shown` says whether the page is
in view, `VisibilityChange` that this changes, and `Drain` runs only in view.
`view` is the store: rows by position (a function, since an array may
have holes), the pause buffer, the connection. `applyPatch` changes a row that
is shown, or else the first one held back with that index. A stream breaks, is opened again
by the browser, is refused, or is replaced by the user (`onWatchErrorRetry`,
`onPickerSelect`). `inStep` is read by no action: it says that rows held back
are still the continuation of those shown, which a stream that replaces another
while rows are held back ends (section 5), and so does a resume that does not
flush.

### Preferences

`Observed` is the subscriber of the effect, which sees every change of the
store before the next one; `hydrate`, `scheduleSave` and `flushSave` are its
parts, on a record of its own state and the storage. `SaveDue` is the timer,
`Reload` the page. Any write may be refused by localStorage, upon which the
effect saves no more. `hydrate` keeps the selection there is when the one stored
is none, or of a row that is not there. All view fields are one value, told apart by the log a
choice was made on. `chosen` and `carried` are read by no action.

### SessionManager

`chain` is the queue of requests, `pc` the await its head is suspended at
("stat", or the AppState whose disposal it awaits). `dispose` and `Disposed` are
the two halves of the manager's dispose, outside the chain. `CreateAppState` is
one step: `openLog` uses synchronous file calls, and what follows it up to
`notify` runs without I/O. The streams are the listeners; a stream attaches when
a log is open and ends at the first notification. Both owners (`cli`,
`extension`) close the server before they dispose the manager, so no request or
stream is new after dispose.

### UploadRoutes

Each upload is a request, a path and a directory. A write that fails
(`WriteFailed`) is "undoing" while `store.write` awaits the removal of the
directory it made, which the store does not know; when that fails too
(`UndoFailed`) the request is answered and the directory is "stranded": on the
disk, and in no variable of the routes (section 5). `cleanup[r]` is the set of
removals the cleanup started by `r` still waits for; `dirs` is the store's map,
`removing` the directories being removed. Two cleanups that remove the same
directory are merged into one removal that both wait for (`rm` with `force` is
idempotent); it may fail for both. A handler that awaits an open continues in
the microtasks that follow the open's settling, before any I/O: `CanContinue`
keeps the I/O steps back until it has. Removals that fail, of either sort, are bounded by
`MaxRmFailures`. The requests and streams of the manager that have nothing to do
with uploads are `ManagerRequests`; the manager is disposed after the routes.

### TailReader

The file at the path is a sequence of inodes, the last one the current, each a
revision and a size; a *revision* is what was written since a creation or a
truncation. `FileGrows`, `FileRewritten`, `FileRemoved` and `FileCreated` may
happen between any two awaits of the reader. A byte the sink gets is its
revision and the offset it was given with.

`ops` is the promise chain of `#enqueue`, `pc` the await its head is suspended
at. Each action is the code from there to the next await; what follows a `stat`
is in the step of the `stat`, since nothing after it looks at the file again
until the stream opens, which is a step of its own (`StreamOpens`): the file may
be another one by then. A stream keeps the inode it opened. Chunks are one byte.
`snapshotRead` is the local `completed` of `readInitial`.

The watcher is chokidar, an external part, modelled from the options given to it
and the events handled: it looks at the path at any time after something
changed, tells a removal at once, holds a change or a creation until the size is
stable (`awaitWriteFinish`), and tells a file that was removed and created
between two looks as a change. It never misses a difference for ever
(`WF_vars(WatcherSteps)`); it may fail once it runs (`WatcherFails`).

Left out: a `stat` that fails though the file is there, the progress callback,
and callbacks other than `onChunk` that throw.

Two changes the reader cannot know of are recorded in `sink.overlooked` and
excused in `RestIsComplete`: a file rewritten to at least the size read
("rewrite", section 5), and a file that was absent when the watcher took its
first look ("creation").

### LogIndexes

An event is the revision and position it was read from, whether it matches the
query, and the size of its text. `scanAsync` and `Resume` run a scan to its next
yield, its answer or its end; `ScanOn` takes the turns of the loop (`LookAt`)
one by one until one of them stops it. A reset between two yields restarts the
scan `MAX_SCAN_RESTARTS` times and then ends it as "changed". `texts` is the
text index and `cache` keeps replayed states, the least recently used first;
each carries the byte counter the code keeps beside it. A replayed state is the
sequence of events it was replayed from. `stateAtIndex` asks for one, with the
check that the log still ends where the cache saw it end (`PriorTailPreserved`),
the use that makes an entry the latest, and the evictions.

### Replay, StateRoutes

`ctx` is the ReplayContext after a prefix of the log; the next event is any
event a log can hold, so every log is a behaviour, malformed snapshots and
envelopes included. A resource is its kind and name, the sequence number of its
snapshot, the last number seen, and the numbers whose actions make up its state.
`ApplyEnvelope` is the whole handling of an action: which resource it is for,
rejection, a number that is old, repeated or leaves a gap, an unknown or
misdirected action, a combined session state of the old protocol that ignores
it, and the intent it accepts. `AggregateConfidence` is the answer of the route.

### The channels

Each module is a reducer: a state and one action per action type, taken with any
id and for an entry that is there or is not: a turn or a command may come under
an id that was used before, a default chat or a primary session may be one
nobody listed. A part of a response may come whole (`NewParts`), with a tool
call in any status or a request for input that is open. What the model does
assume of a host is that it sends values of their types, that the lists of a
whole state it publishes have no id twice, and that the turns it loads into a
history have ended there (`OldTurns`). A text, a
title or a location is a value of a small set; a number is a count. Operators
named as in the code (`EndTurn`, `RefreshSummaryStatus`, `RefreshUnread`)
are what the handlers share. Fields that are only ever replaced by what an
action carries are one field `info`. `Channels` takes each reducer in slices:
an instance has the ids one group of actions needs and none for the others, so
that independent fields do not multiply. The properties speak of all.

`unseen` of a chat is read by no action. `chat/responsePart` appends a part and
does not recompute the status, which is right for text; a part that waits for
the user leaves the status behind until the next recomputation (section 5), and
`unseen` says that there is one. `StatusFollowsWork` is the status in both
directions, but for the parts that `unseen` names. `sent` and `executing` of a
terminal are history too.

The default chat and the primary session need not be listed, so the property is
not that they are: `ReferencesAreCleared` says that what refers to an entry does
not outlive it, in every step that takes the entry away.

### ExtensionServer

A server is named by the call that starts it. What runs when a promise settles
comes before any new call, so an action is a call, or the end of a piece of I/O
with all that follows from it. `owed` remembers, for each close, the servers
that were alive when it was called.

## 3. Runs

One run for each question asked of the system; bounds are constants of the
configurations.

| Run | Bounds | Shows |
|---|---|---|
| `correlator` | 2 ids, 2 directions, 4 events, times 0..1, `MAX_PENDING` 2 | `MatchingIsComplete`, `PendingBounded`, `ExchangesDoNotCross`, action property `VerdictsAreFinal` |
| `app_state` | 1 id, 2 events, `MAX_PENDING` 1, time-out 1, 3 errors, sticky buffer of 2 | `RowsMirrorCorrelator`, `ErrorsHeardOnce`, refinement `RowsFollowFrames`, liveness `PendingSettles` |
| `stream` | 2 streams for 1 slot (the second on an empty log), 2 rows (1 after a rotation), 1 patch, chunk of 1 row, limits 5 bytes / 2 frames / 2 rows, 1 change of file; beside it the same with 1 row, 3 watch errors in a queue and one file | `NothingLost`, `CountersExact`, `EndIsTold`, action property `ViewOnlyAdvances`, liveness `CatchesUp`, `EndedStreamCloses` |
| `sessions` | 2 uploads, 1 other request, 3 paths, 2 streams, 1 failed removal | `FollowActive`, `NothingLeftBehind`, liveness `RequestsSettle`, `SupersededIsRemoved` |
| `tail` | 2 revisions of up to 2 bytes, 1 failure of a read, the watcher or the sink | `BytesInPlace`, `RestIsComplete`, liveness `ComesToRest` |
| `state` | 1 session and its chats by sequence numbers 1..3, 1 request, 1 intent, pages of 2; and the slices of every channel reducer | `AnswersAreHonest`, `ReplicaWellFormed`, `StatusTellsTruth`, `ToolsAreGoverned`, action properties `HistoryIsKept`, `ToolCallsOnlyAdvance`, `ReferencesAreCleared` |
| `viewer` | 2 streams, 2 rows, 1 patch, 1 rotation, chunk of 1 row, 2 frames a drain | `NothingMisplaced`, action property `ConnectedAfterBaseline`, liveness `CatchesUp` |
| `indexes` | 1 search, limit 1, a yield at every event, 1 restart, 2 bytes of text, 2 states of cost up to 3, 3 events, 2 files | `KeptIsSound`, action property `AnswersAreOfTheLog`, liveness `SearchesEnd` |
| `parts` | 4 opens and 2 closes of the server; texts of 7 characters in chunks of up to 3, lines of up to 2 bytes; 3 logs in 2 entries, 1 choice | `OneServer`, `CloseIsComplete`, `NobodyIsStranded`; `SplitIsExact`; `StoredIsShown`, `EntriesAreOwn` |
| `viewer_flush`, `choice_kept` | as `viewer` and `parts` | counterexamples, section 5 |
| `upload_kept` | as `sessions`, without failures and streams | counterexample, section 5 |

The types: `TypeOK` of `Correlator`, `AppState` and `TailReader`, `RoutesTypeOK` of
`UploadRoutes` (with `SessionManager`'s) and `ServerTypeOK` of `ExtensionServer` are
proved; that of `LogStream` is a
conjunct of `CountersExact`, that of `Replay` of `AnswersAreHonest`, those of the
channels of `ReplicaWellFormed`.

Why these bounds are enough to be interesting.

* `correlator`: four events and a cap of two let a full map be evicted, an id be
  reused twice, a request be answered early, late, after time-out and after
  displacement. Ids are interchangeable, so `Id` is a symmetry set; the action
  property is a safety property, and no liveness is checked under symmetry.
* `app_state`: two events with a cap of one give an eviction, a displacement and
  a row that changes after it was shown, at the same time as errors and
  rotations; the third error pushes the first out of the sticky buffer.
* `stream`: two rows with a chunk of one row give a snapshot of two chunks, with
  frames emitted before, between and after them; two frames and five bytes give
  a queue that merges a pair, holds a second and overflows. A second stream
  (`Rival`) needs the one slot there is, before, while and after the first has
  it; it only opens while the log has no rows, and from then on the log gets
  none, so that what two streams carry is not multiplied. The queue holds two
  frames, so three watch errors told at `Open` overflow it before the snapshot
  begins, and one or two stay in front of the frames that come while the
  snapshot is written. Errors have an instance of their own (`MCLogStream`): a
  row and a patch are enough for a merge behind an error, and what errors change
  is not multiplied by the rotations.
* `sessions`: two uploads suffice for every race the code has between uploads,
  because a cleanup only tells its own upload from all the others; the third
  request gives an open that fails between two opens, and a request on the
  chain at dispose. The second stream attaches to another log than the first. The
  one failed removal is that of a superseded upload, of a cleanup, of the last
  removals of dispose, or of a directory whose write failed.
* `tail`: revisions of two bytes let a read come short by one byte, start in the
  middle, and meet a file that is shorter than, as long as, or longer than what
  was read; the second revision may be written in place or in a new file, at any
  await of the read of the first. A read that fails because the file is gone
  needs no injected failure.
* `state`: with three numbers an action is late, repeated, or leaves a gap that
  the next one may follow or fill. The reducers get actions for ids that are
  there, that are not, that were removed, and that are there already. A chat with two
  parts holds a part that came whole beside one that streams, in every status
  of either; pages of two turns load a turn again beside one that is new, cut
  to the two turns a history may have. Three parts of a terminal are two
  commands, also with one id, and the output between them.
* `viewer`: two rows in chunks of one are two frames between begin and end, a
  drain takes two frames, so the end of a snapshot waits for a second drain; a
  second stream begins while frames of the first are still queued.
* `indexes`: with a yield at every event each of the rotations falls before,
  between and after them, and one restart allowed means that the second gives
  "changed"; three bytes and two entries force an eviction of each sort.
* `parts`: opens that share a start, wait for a close, and come after one; a
  text of seven characters holds a byte order mark, two records, a carriage
  return and a line feed in different chunks, and a line too long that ends in a
  later chunk; the third log pushes the first out of the entries.

`CHECK_DEADLOCK FALSE` is set where the system may stop for good: a closed log
(`app_state`), routes that are disposed (`sessions`, `upload_kept`), a log whose
bounds are used up with no search under way (`indexes`), the last event of a log
and a channel that is gone (`state`), every call of the extension returned or
the whole text split (`parts`, `choice_kept`). The others are checked for
deadlock.

### Fairness

* AppState: the flush ticker is a `setInterval` and the clock advances, so
  `runFlush` and `Tick` are weakly fair. The reader's callbacks, listeners and
  dispose are not: nothing forces a log to grow or to be closed.
* LogStream: the step of an open stream is weakly fair: a write returns when the
  browser has read it or has gone away (Hono's writes return on a closed
  stream), and `sleep(0)` and resolved promises return. A reader that stalls
  for ever without closing is excluded. The log, the heartbeat, `Open` and
  `Abort` are not fair. A log may rotate a bounded number of times.
* Viewer: a frame sent on an unbroken stream is delivered (`Deliver`), and the
  browser calls animation frames while the page is in view (`Drain`, which is
  disabled in a page that is not). A hidden page need not drain at all: the
  client schedules `requestAnimationFrame` and nothing else where there is one
  (`ui/src/transport/sse-client.ts`, lines 129-133). `CatchesUp` therefore
  speaks of a page that from some time on stays in view, and says of it that
  what was queued meanwhile is drained too. The server's log, the breaks, the
  visibility of the page and the user are not fair.
* SessionManager: `stat` and `AppState.dispose` settle. Requests, `dispose` and
  the streams are not fair.
* UploadRoutes: bodies arrive or fail, writes and removals return, the removals
  after a failed write included, promises settle, and dispose goes on when
  nothing is left to wait for.
* TailReader: a `stat` returns, a stream gives data, its end or an error, queued
  operations run, and the watcher looks again. Nobody has to write to the file,
  to fail, or to dispose of the reader; `ComesToRest` holds because writers are
  bounded, so that "the file stops changing" is so in every run of the model.
* LogIndexes: a scan goes on, as `setImmediate` runs its callback (`Resume`).
  Searches and the log are not fair.

## 4. Proofs

`CorrelatorProofs` proves, for every set of ids, every `MAX_PENDING` of at least
1, every time-out, time range and log length, what the run `correlator` checks
on one instance. It relies on the assumptions named in `Correlator`:
`MaxPendingAssumption`, `TimeAssumption`, `MaxEventsAssumption`.

| Theorem | States |
|---|---|
| `Invariance` | `Spec => []IInv` |
| `TypeCorrect` | `Spec => []TypeOK` |
| `MatchingCorrect` | `Spec => []PairingIsMatching` |
| `WaitingCorrect` | `Spec => []PendingIsWaiting` |
| `ParkedCorrect` | `Spec => [](ParkedIsUnsettled /\ NoMissedPair)` |
| `CompleteMatching` | `Spec => []MatchingIsComplete` |
| `BoundCorrect` | `Spec => []PendingBounded` |
| `ExchangesCorrect` | `Spec => []ExchangesDoNotCross` |
| `VerdictsCorrect` | `Spec => VerdictsAreFinal` |

None of the invariants is inductive alone. That a pair is a matching needs that
what `pairIdx` is written over was unpaired, so that parked responses and
pending requests are unsettled; that needs that a key waits on one side only
(`NoMissedPair`); that exchanges do not cross needs that whatever waits for a
key is later than every exchange of that key already over (`Later`). `IInv` is
the conjunction: types; `Good`, made of `Matched`, `Waiting`, `Parked`,
`NoneMissed`, `Later` and `Uncrossed`; the cap on both maps (`Bounded`); and
that a request always has a verdict (`Marked`), which `VerdictsAreFinal` uses.

The parts are stated on a record `c` of fields and a sequence of events, not on
the variables, so that a lemma on an operator (`OnAppendGood`, `FlushGood`,
`DrainGood`, ...) speaks of the operator and not of the action that applies it.
The bound on a map needs that `Oldest` exists and
that removing it makes room: `FullIsNotEmpty` and the library's theorems on
finite sets and cardinality.

`TailReaderProofs` proves, for every size and number of revisions and every
bound on failures (`BoundsAssumption`):

| Theorem | States |
|---|---|
| `TypeCorrect` | `Spec => []TypeOK` |
| `BytesCorrect` | `Spec => []BytesInPlace` |
| `RestCorrect` | `Spec => []RestIsComplete` |

`TypeOK` is inductive: that an offset is within a revision and that a read is
under way exactly in the awaits of one support each other. `BytesInPlace` is
not. That a byte appended is not of an older revision than those before needs
that no byte given is younger than the file the open stream reads, nor that file
younger than the one at the path, whatever was renamed meanwhile (`Ordered`);
that the first read starts with nothing given needs that only the head of the
queue is the first read and that nothing was given before it began (`Fresh`).
`IInv` is `TypeOK /\ Ordered /\ Fresh /\ BytesInPlace`.

`RestIsComplete` speaks of the moment when nothing is left to do, so its
invariant, `RestInv`, must say at every other moment why what is missing will
still come; the run `tail` had it as an invariant over all its 1263882 states
before it was proved. Its core is `Soon`: when the reader is not disposed,
nothing failed, the file is at the path, no change is one the reader cannot know
of (`overlooked`), and the watcher has seen and told all of it, then either the
file will be looked at (`Upcoming`: an operation that looks at it has not begun,
or waits for its `stat`), or what is given, with what the open stream will still
give, is all of it (`Current`). This needs that what the watcher has seen is
never ahead of the file (`Behind`), that nothing is seen or told before the
first read (`Looking`), that the flag which stands for a queued `reconcile` has
one queued (`Promised`: a flag left set would swallow every later event), and
that a cut stream is a disposed reader's (`InRange`). `Original` is the part for
a file that only grew: nothing but its growth is ever told, no read of it comes
short, and its first read has ended or will.

`PartsProofs` is about four parts of their own. Of `AppState` it proves, for every log,
cap and clock (`StickyAssumption`, `MaxErrorsAssumption`):

| Theorem | States |
|---|---|
| `TypeCorrect` | `Spec => []TypeOK` |
| `RowsCorrect` | `Spec => []RowsMirrorCorrelator` |
| `ErrorsCorrect` | `Spec => []ErrorsHeardOnce` |
| `FramesCorrect` | `Spec => RowsFollowFrames` |

A row is rebuilt only where the correlator reports a change, so the argument is
that it reports every one: `Reported(c, r, n)` says that from the fields `c` to
the fields `r` the columns of the first `n` events differ only where `r` has
the index in its change set. Each operator of `Correlator` is shown to do so
(`OnAppendReported`, `FlushReported`), and a step that drains what is reported
leaves the rows as they would be built anew (`Mirrored`). The errors rest on
`Told`: errors are kept and heard in rising order, and what is kept a
subscriber has heard.

`FramesCorrect` is the refinement of `RowSource`, the abstract log that
`LogStream` and `Viewer` serve. Under `Mirrored`, which gives the rows before
the step their length, every step of `AppState` is an `Emit` or a stutter
(`NextEmits`). A step emits at most three frames, and `RunIsEmit` says that it
is enough to name the rows between them. The step where this takes an argument
is the line that is ingested: its patches are computed for the rows that were
there before the line, and are emitted after the new row. `IngestFrames` shows
that the rows after the step, the old ones patched and the new one behind them,
are those a reader gets by the append and then the patch, because no patch is of
the new row, and that in the order emitted both frames fit.

Theorems of an instantiated module are out of the
prover's reach, so the types of the correlator's fields are not stated again
here.

`LogStreamProofs` proves, for any number of streams and any limits, for a log
that grows, is patched and rotates as often as one likes, whatever the size of a
chunk (`CapAssumption`, `ChunkAssumption`, `RivalAssumption`,
`LimitsAssumption`, `BoundsAssumption`):

| Theorem | States |
|---|---|
| `Invariance` | `Spec => []IInv` |
| `SlotsCorrect` | `Spec => []SlotsCounted` |
| `EndCorrect` | `Spec => []EndIsTold` |
| `CountersCorrect` | `Spec => []CountersExact` |
| `DeliveryCorrect` | `Spec => []NothingLost` |
| `AdvanceCorrect` | `Spec => ViewOnlyAdvances` |

`IInv` is the conjunction of four parts; the run `stream` had it as an invariant
over all its states before it was proved.

* `LogOK`: the log's rows are of one file, the present one.
* `Slots`: `activeStreams` counts the handlers that have not closed.
* `Kept`, of each handler and its reader. `log-reset` and `bye` are written at
  their own two awaits and nowhere else (`Spoken`), for which the frames of a
  queue have to be frames of the log (`Queued`); a reader has the one word while
  the other is written (`Told`); and the three counters are the sums over the
  queue, with the frame in flight while its write is awaited (`Counts`), which
  says also that a stream over its limits has been ended.
* `Delivers`, of each handler, its reader and the log. What is being written
  takes the reader forward (`Leads`), and from there the queue, applied frame by
  frame, ends at the log as it is (`Reaches`: there is a run of `Effect`s over
  the queue from the one to the other). While the snapshot is on its way the
  reader has the prefix of it that was written, and the queue starts from the
  snapshot (`Snapshot`, `Base`).

`NothingLost` follows for the same reason that it is worth stating: what is owed
at any moment is the rest of the snapshot, what is written and the queue, and
`OwedIsTheRest` shows that receiving them one after the other is such a run. The
case that makes it more than bookkeeping is the merge of two patches:
`MergeIsBoth` shows that a frame with the updates of both has the effect of the
one and then the other (`PlacedTwice`). `ViewOnlyAdvances` is the `Leads` of
each write.

Sums over a queue, the payloads received from it and the runs of `Reaches` would
be inductions over a sequence, whose theorems in the library take an operator as
a parameter. Here they are a least counterexample: the set of the positions at
which a statement fails has a least element (`LeastNumber`, from the
well-foundedness of the natural numbers), which is not 0 and whose predecessor
is no counterexample. `SameUpTo` (two functions that agree at 0 and take equal
steps are equal) and `SumsExist` are of that form; with them
`TotalAppend` and `TotalTail` say how a sum changes at either end of a queue.
The errors told again when a stream opens are unrolled in the same way into a run
of single enqueues (`Retells`, `RetellsExist`, `ReplayedRetells`), each of which
keeps the invariant because the effect of an error on the rows is nothing
(`ErrorIsNothing`, `ErrorKeeps`, `ReplayedDelivers`).

`ViewerProofs` proves, for the other end of the stream, for any log, any size of
chunks and drains, and any number of streams, rotations, patches and pauses
(`DrainAssumption`, `ChunkAssumption`):

| Theorem | States |
|---|---|
| `PlacesCorrect` | `Spec => []NothingMisplaced` |
| `ConnectionCorrect` | `Spec => ConnectedAfterBaseline` |

`NothingMisplaced` speaks of the store once all frames under way have been taken,
so its invariant, `Leading`, says that there is a way from the store to the log
for those frames: `Reaches` names the log as its reader knows it before each
frame (not begun, the part of the snapshot sent, live), `Moves` says what each
kind of frame may do to that, and the store agrees with the first (`Agrees`).
What agrees is stronger than what is shown: the rows shown and held back are the
two halves of the rows known, and nothing is held back while the reader follows
or a snapshot is under way. `TakenAgrees` is one frame, by kinds; `ReachesOn`
takes the first k frames as a drain does; `ReachesAnew` is the frame that
clears the queue, which may because from there the way begins anew, at nothing;
`SnapshotReaches` is a new stream behind the queue left over from an earlier
one, the reason for the place "before". Each way ends at the rows of the log,
and at an empty queue and wire the store agrees with its end.

`ConnectedAfterBaseline` needs the order of what is under way (`InOrder`): no
chunk is behind an end, in the queue or on the wire, and when the queue still
holds an end and the wire chunks, the wire begins with the `snapshot-begin`
that clears the queue. Only a drain connects (`OnlyDrainConnects`), only by an
end among the frames it takes (`NotConnectedYet`), and then no chunk is left
behind it (`EndsLastRest`). TLC had both parts as invariants of the run `viewer`
over all its states before they were proved.

`PartsProofs` proves, for any uploads, requests and streams (`UploadAssumption`),
about `UploadRoutes` with the `SessionManager` it uses:

| Theorem | States |
|---|---|
| `RoutesInvariance` | `RoutesSpec => []RoutesInv` |
| `RoutesTypeCorrect` | `RoutesSpec => []RoutesTypeOK` |
| `FollowActiveCorrect` | `RoutesSpec => []FollowActive` |
| `NothingLeftCorrect` | `RoutesSpec => []NothingLeftBehind` |

`RoutesInv` adds two parts to the types. `Managed` is the manager's: a request on the
chain has opened nothing yet and is there once (`Chained`); while the head
awaits a disposal nothing is open, and nothing else is being disposed of
(`Awaited`), without which the open that follows could make a second live
AppState. `Stored` is the routes': what is on disk is in the store, or of an
upload whose failed write is being undone ("undoing") or could not be
("stranded"); once the last removals are awaited nobody can add to it; and of those only what failed
stays, which the end reports.

`ReplayProofs` proves, for any resources, sequence numbers and sizes of responses
(`BoundAssumption`), about `Replay` and what `StateRoutes` says of it:

| Theorem | States |
|---|---|
| `AnswersHonest` | `Spec => []AnswersAreHonest` |
| `HistoryKept` | `Spec => HistoryIsKept` |

The invariant, `Good`, is the types and `Sound` of every resource, listed once:
what was applied is rising and within the numbers seen (`Increasing`), a
resource has a diagnostic exactly when it is not complete, and when it is
complete nothing is missing of it. The middle part is what makes the last one
inductive: an action is appended to a complete resource only when the check of
its number left it complete, hence only when it is the next one (`OneMore`), and
whatever lowers the confidence does so for good (`Diagnosed`, `DoubtedSound`).
What a step takes back is an argument about two contexts: actions go on from
every resource (`Onward`, `Ahead`), a snapshot leaves it or makes it anew
(`Renewed`). A response is many of either, one after the other; the recursive
functions `InstallSnapshots` and `ApplyEnvelopes` are unrolled into a run of
contexts (`RunsExist`, `RunGood`), by the least number for which the claim
fails.

The module proves as much about `LogIndexes`, for any searches, limits, logs and
numbers of files (`LimitsAssumption`):

| Theorem | States |
|---|---|
| `KeptCorrect` | `IndexSpec => []KeptIsSound` |
| `SearchAnswersCorrect` | `IndexSpec => AnswersAreOfTheLog` |

The invariant, `IndexOK`, is that the texts kept are of the log and counted
(`TextsOf`), that the replayed states are too, one for a target (`CacheOf`), and
that a scan is of the log as it is or of one replaced since (`Scanning`): a
search of the present revision has exactly the matches before the event it is to
look at next (`Scanned`). That is what a yield has to preserve: the log may have
grown behind `end` meanwhile, which leaves those matches as they are, or been
replaced, which the generation tells. `TurnReaches` is one turn of the loop,
`ScanRuns` the turns up to a stop, `AnswerIsFirst` what a scan that stops for
good has found. The counters rest on what a sum becomes with a number more, less
or changed (`TotalOfMore`, `TotalWithout`, `TotalWith`), and `EvictKeeps` on the
last entry: when nothing is left, nothing is counted and both limits hold.

Of `ExtensionServer` `PartsProofs` proves, for any number of opens and closes
(`CallAssumption`):

| Theorem | States |
|---|---|
| `ServerInvariance` | `ServerSpec => []ServerInv` |
| `OneServerCorrect` | `ServerSpec => []OneServer` |
| `CloseCorrect` | `ServerSpec => []CloseIsComplete` |
| `NobodyStrandedCorrect` | `ServerSpec => []NobodyIsStranded` |

`ServerInv` says that every server alive is one the module's variables know
(`Known`), that a call still to start a server has none (`Fresh`), that who
waits, waits for something under way (`Served`), and that what a close owes is
closed or is what the close under way closes (`Owed`). The last is what the
retry loop of `close` is for, and the reason one close may answer for another.

Of `Preferences` it proves, for any logs and choices and any number of entries,
without an assumption:

| Theorem | States |
|---|---|
| `OwnEntries` | `PrefsSpec => []EntriesAreOwn` |
| `StoredCorrect` | `PrefsSpec => []StoredIsShown` |

`SavedInv` says that the effect's own state and the store agree (`Agree`): a log has
one entry, the effect speaks of no log but the one in view (`Following`), so that
what is due is saved from the log it is due for, and what the store holds is
stored or due (`Shown`). Every action of the store goes through the subscriber,
and one lemma (`Kept`) says that the subscriber keeps the agreement for any new
store; the timer and the reload are the two others (`DueSave`, `StepAgrees`).

`ChannelProofs` proves about `Channels`, for any ids, any client that is not the
MCP server, and a value for what is absent that is none of the others
(`AbsentIsNoValue`):

| Theorem | States |
|---|---|
| `ToolsGoverned` | `ChannelSpec => []ToolsAreGoverned` |
| `ToolCallsAdvance` | `ChannelSpec => ToolCallsOnlyAdvance` |

What a chat does is proved once, for every `ChatChannel`, in `ChatProofs`: for
any sets of ids, clients and values and any bounds, each group of actions takes
a chat that is `Good` to one that is, and keeps of its calls and turns what
`Kept` says. `Good` joins what only holds together. That a call runs confirmed
(`ConfirmedCalls`) has to hold of every call of the turn under way, whatever
list operation last touched the parts; that a turn in the past is settled
(`Ended`) needs that a turn which ends settles all of its parts, and that no
action reaches a part of a turn in the past, which is so even when the turn
under way has the id of one. Ids of turns may repeat, and parts come whole in
any status; turns loaded into the history are trusted to have ended
(`OldTurns`). The status is what the turn under way calls for (`StatusOf`), but
for a part that came whole since it was last made (`unseen`), or "Error" over a turn that failed
last. `Kept` relates two states: a call moves at most one step of its life
(`Moved`), and a turn of the past is as it was.

A reducer's list edits are recursive functions (`KeepOnly`, the filter) or
operators of the community modules (`SelectInSeq`, `ReplaceAt`,
`RemoveFirstMatch`). What they return is again shown by a least counterexample
(`FiltersExist`, `KeptOnly`), so that no induction over a list is
needed where an action edits one.

`ChannelProofs` makes each of the five chat slices an instance of `ChatProofs`.
A slice's actions are the same formulas in `Channels`' instance of `ChatChannel`
and in that of `ChatProofs`, which the prover is shown group by group
(`ChatInputsTurnLifecycle` and the like). The properties are stated with the
operators of one slice and hold of all of them: `KeptAdvancesFor` says for the
clients of another slice what `CallAdvances` says for one's own.

Only model-checked: `ReplicaWellFormed` and `StatusTellsTruth`, of which the
conjuncts about chats are proved on the way (`ChatToolsTyped`, `ChatToolsTold`
and those of the other slices) but not those about the other channels;
`SplitIsExact`, which is about all that a recursive pass over a text computes,
an induction over data; and all liveness, which is out of the prover's reach.

## 5. Where the code and its comments disagree

Three disagreements are runs that end in a counterexample:

* **Rows out of place after a pause** (`viewer_flush`). `snapshot-begin` of a
  stream that connects again empties the rows and keeps `pendingBuffer`; the
  pill then concatenates the rows held back (`ui/src/state/store.ts`, line 320)
  behind a snapshot that holds them already.
* **A log opened again forgets its preferences** (`choice_kept`). `switchToLog`
  for the log in view resets the store under the same key; the subscriber takes
  the reset for the user's (`ui/src/persistence/persist-effect.ts`, line 156)
  and saves the defaults. Lines 130-132 mean to prevent exactly that, for
  another log.
* **Uploads delete each other** (`upload_kept`). An upload written while another
  one is being opened is removed by the other's cleanup; its own open then
  fails, and the failure path removes every upload, the open one included.
  `server/src/upload-routes.ts`, lines 162-165 and 219, promise otherwise.

Others were met while modelling. The modules behave as the code does and the
properties leave these cases out, by a condition that names them:

* An open that fails tells nobody: `doOpen` disposes the current session before
  it creates the next, and when the creation fails no listener is called
  (`server/src/session-manager.ts`, lines 98 and 108; the header, lines 3-5,
  promises a notification on every change). `FollowActive` speaks of the streams
  only while a log is open.
* A directory without an owner: when the write of an upload fails and the removal
  that undoes it fails too, nobody knows of the directory any more
  (`server/src/upload-routes.ts`, line 97), and a dispose that succeeds leaves it
  behind (`SECURITY.md`, lines 38-39, wants temporary uploads disposed of).
  `NothingLeftBehind` leaves out what is "stranded".
* A status left behind: `chat/responsePart` appends a tool call that waits for
  its user, or an open request for input, without recomputing the status
  (`protocol/src/channels-chat/reducer.ts`, line 422; the comment in lines
  172-176 asks it of every handler that changes one). `StatusFollowsWork` leaves
  out what is `unseen`.
* An open outlives dispose: `dispose` is not queued on the chain, so an open
  under way installs its AppState afterwards (line 144; line 25 promises that
  any active log is closed).
* A rotation that is not told: `#reconcile` tells a rotated file from one that
  grew by its size alone (`host-node/src/tail-reader.ts`, line 231); a file
  rewritten up to the size already read gives no reset (`USER_GUIDE.md`, line
  97, promises the banner and a reload).
* Preferences: a stream that connects again on another log (`setLogKey` without
  a reset) carries the view over to it and loads before the rows are there, so
  that a selection is dropped; what is edited while a log loads is overwritten;
  a save that is due is lost by a reload within its 250 ms; and the key of a log
  holds its modification time, so that a log that grew is another log.
* The extension: openers that share a start are given a server that a close
  waiting for the same start then closes; an opener that waits for a close
  starts a new server after deactivation.
* The viewer: a resume that does not flush leaves holes; a rotation clears a
  queued `snapshot-end`, so that the stream stays "connecting"; a queued
  `snapshot-end` applied after a break shows "connected"; and a page that is
  hidden drains nothing, so that its queue grows with the log
  (`ui/src/transport/sse-client.ts`, lines 129-133).
* The cache of details is by log key and index: after a rotation under the same
  key a row is shown with the detail of the old file's event
  (`ui/src/transport/http-client.ts`, line 74).
* Replay: an accepted intent is found by its `clientSeq` without the
  `clientId`; the resources a reconnection lists as missing stay "complete"; and
  the answer for no selection is "complete" though one resource is unknown
  (`USER_GUIDE.md`, line 260).
* Terminals: after a clear, the output of a command that still runs goes to a
  part that belongs to no command.

## 6. What is left

Not modelled, by choice:

* rendering, selectors and filters, row summaries and projections, which are
  pure functions of one event or of the store;
* authentication, CORS, CSP and static files, which are middleware without
  state;
* the command line, a sequence of awaits, and the commands of the protocol,
  which the inspector never sends;
* discovery, whose races have no consequence a property could name;
* the cache of details, one map from a key to an answer: what goes wrong with it
  takes no unlucky order (section 5 and the notes under `hazards`);
* the reader groups of the host adapter, which nothing in the server uses with
  more than one reader;
* the resource-watch channel and telemetry, which keep no history;
* the strict mode of the line splitter, used by tests only.
