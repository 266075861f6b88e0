------------------------------ MODULE LogIndexes ------------------------------
(***************************************************************************)
(* What the server derives from the events of an open log, and keeps: the  *)
(* text index the search runs over (packages/server/src/search-index.ts)   *)
(* and the replayed states already asked for (state-replay-index.ts).      *)
(*                                                                         *)
(* The log grows and is replaced while a search, which yields every few    *)
(* events, is under way.  An event is told apart by the file revision it   *)
(* was read from and its position; it matches the query of the searches or *)
(* not, and its text has a size.  A replayed state is the sequence of the  *)
(* events it was replayed from, and is estimated at the size of them all.  *)
(***************************************************************************)
EXTENDS Integers, Sequences, SequencesExt

CONSTANTS
  Search,              \* searches ever asked
  limit,               \* results a search may return
  yieldEvery,          \* events between two yields
  MAX_SCAN_RESTARTS,
  maxCachedTextBytes,  \* limit of the cached text
  maxEntries,          \* replayed states kept
  maxCostBytes,        \* limit of their estimated size
  MaxEvents,           \* bound: events in the log
  MaxFiles             \* bound: rotations

ASSUME LimitsAssumption ==
  {limit, MAX_SCAN_RESTARTS, maxCachedTextBytes, maxEntries, maxCostBytes} \subseteq Nat
ASSUME YieldAssumption == yieldEvery \in Nat \ {0}
ASSUME BoundsAssumption == {MaxEvents, MaxFiles} \subseteq Nat

VARIABLES
  store,        \* the events of the log
  generation,   \* of the search index: one more at every reset
  texts,        \* the texts kept, by position, and their size as it is counted
  scan,         \* the searches
  cache,        \* the replayed states kept, the least recently used first, and their cost
  observed      \* the size and the last event of the store as the cache saw them

searchVars == <<generation, texts, scan>>
replayVars == <<cache, observed>>
vars == <<store, searchVars, replayVars>>

TextBytes == 1..2
Event(i, hit, bytes) ==
  [file |-> generation, at |-> i, hit |-> hit, bytes |-> bytes]

Total(weights) ==
  LET sum[n \in 0..Len(weights)] == IF n = 0 THEN 0 ELSE sum[n - 1] + weights[n]
  IN  sum[Len(weights)]

-----------------------------------------------------------------------------
(* Search.                                                                 *)

NotAsked == [pc |-> "idle"]
NoTexts == [cached |-> <<>>, bytes |-> 0]

\* the texts kept once the text of event i was needed
textFor(kept, i) ==
  IF i \notin DOMAIN kept.cached /\ store[i].bytes <= maxCachedTextBytes - kept.bytes
  THEN [cached |-> [n \in DOMAIN kept.cached \cup {i} |->
                      IF n = i THEN store[i] ELSE kept.cached[n]],
        bytes  |-> kept.bytes + store[i].bytes]
  ELSE kept

\* what is searched: the text kept, or made from the event
Matches(kept, i) == IF i \in DOMAIN kept.cached THEN kept.cached[i].hit ELSE store[i].hit

\* one attempt: up to "end", the size of the index when it began
Attempt(n) ==
  [pc |-> "scanning", next |-> 1, end |-> Len(store), generation |-> generation,
   attempt |-> n, matches |-> <<>>]

Answered(s, truncated) ==
  [pc |-> "answered", matches |-> s.matches, end |-> s.end,
   generation |-> s.generation, truncated |-> truncated]

\* positions count from 0 in the code
YieldsAfter(i) == i > 1 /\ (i - 1) % yieldEvery = 0

\* one turn of the loop: a match there is no room for ends it
LookAt(t, i) ==
  LET full == Matches(t.kept, i) /\ Len(t.matches) >= limit
  IN  [kept    |-> textFor(t.kept, i),
       matches |-> IF Matches(t.kept, i) /\ ~full THEN Append(t.matches, i) ELSE t.matches,
       next    |-> i + 1,
       stop    |-> IF full THEN "full" ELSE IF YieldsAfter(i) THEN "yield" ELSE "none"]

\* run the scan s on: to the first match there is no room for, which answers, or
\* to the next yield, or to the end
ScanOn(r, s) ==
  LET begun == [kept |-> texts, matches |-> s.matches, next |-> s.next, stop |-> "none"]
      run[i \in 0..s.end] ==
        IF i < s.next THEN begun
        ELSE IF run[i - 1].stop # "none" THEN run[i - 1] ELSE LookAt(run[i - 1], i)
      on == [s EXCEPT !.matches = run[s.end].matches, !.next = run[s.end].next]
  IN  /\ scan' = [scan EXCEPT ![r] =
           IF run[s.end].stop = "yield" THEN on ELSE Answered(on, run[s.end].stop = "full")]
      /\ texts' = run[s.end].kept
      /\ UNCHANGED <<store, generation, replayVars>>

\* a request for a search
scanAsync(r) == scan[r].pc # "scanning" /\ ScanOn(r, Attempt(0))

\* mutated form: the scan goes on over whatever is there now
ResumeBlindly(r) ==
  /\ scan[r].pc = "scanning"
  /\ ScanOn(r, [scan[r] EXCEPT !.end = Len(store), !.generation = generation])

\* mutated form: a scan that finds the index reset is never heard of again
ResumeOrNever(r) ==
  /\ scan[r].pc = "scanning"
  /\ scan[r].generation = generation
  /\ ScanOn(r, scan[r])

\* setImmediate returns: a reset meanwhile starts the scan again, or ends it
Resume(r) ==
  /\ scan[r].pc = "scanning"
  /\ IF scan[r].generation = generation THEN ScanOn(r, scan[r])
     ELSE IF scan[r].attempt < MAX_SCAN_RESTARTS
     THEN ScanOn(r, Attempt(scan[r].attempt + 1))
     ELSE /\ scan' = [scan EXCEPT ![r] = [pc |-> "changed"]]
          /\ UNCHANGED <<store, generation, texts, replayVars>>

-----------------------------------------------------------------------------
(* Replayed states.                                                        *)

replayToIndex(target) == SubSeq(store, 1, target)

\* the estimate stops one past the limit
estimateReplayResultBytes(result) ==
  LET bytes == Total([n \in DOMAIN result |-> result[n].bytes])
  IN  IF bytes > maxCostBytes THEN maxCostBytes + 1 ELSE bytes

Entry(target, result) ==
  [target |-> target, result |-> result, cost |-> estimateReplayResultBytes(result),
   targetEvent |-> store[target]]

recordStoreState(events) ==
  [size |-> Len(events), tail |-> IF events = <<>> THEN <<>> ELSE <<Last(events)>>]

PriorTailPreserved ==
  \/ observed.size = 0
  \/ Len(store) >= observed.size /\ <<store[observed.size]>> = observed.tail

NoReplays == [entries |-> <<>>, cost |-> 0]

deleteCached(c, n) ==
  [entries |-> RemoveAt(c.entries, n), cost |-> c.cost - c.entries[n].cost]

setCached(c, entry) == [entries |-> Append(c.entries, entry), cost |-> c.cost + entry.cost]

Fits(c) == Len(c.entries) <= maxEntries /\ c.cost <= maxCostBytes

\* the oldest go until both limits hold
evictToBounds(c) ==
  LET left[n \in 0..Len(c.entries)] ==
        IF n = 0 THEN c
        ELSE IF Fits(left[n - 1]) THEN left[n - 1] ELSE deleteCached(left[n - 1], 1)
  IN  left[Len(c.entries)]

\* the state at an index of the log is asked for; one past its end is not kept
stateAtIndex(target) ==
  LET kept  == IF PriorTailPreserved THEN cache ELSE NoReplays
      n     == SelectInSeq(kept.entries, LAMBDA e : e.target = target)
      rest  == IF n = 0 THEN kept ELSE deleteCached(kept, n)
      entry == Entry(target, replayToIndex(target))
  IN  /\ observed' = recordStoreState(store)
      /\ cache' = IF n # 0 /\ kept.entries[n].targetEvent = store[target]
                  THEN setCached(rest, kept.entries[n])
                  ELSE IF maxEntries > 0 /\ entry.cost <= maxCostBytes
                  THEN evictToBounds(setCached(rest, entry))
                  ELSE rest
      /\ UNCHANGED <<store, searchVars>>

-----------------------------------------------------------------------------
(* The log: an event is appended to the store and to the search index in   *)
(* one step, and a rotation empties every index with the store.            *)

ingestLine(hit, bytes) ==
  /\ Len(store) < MaxEvents
  /\ store' = Append(store, Event(Len(store) + 1, hit, bytes))
  /\ UNCHANGED <<searchVars, replayVars>>

\* mutated form: the texts kept are forgotten to be cleared
ResetKeepsTexts ==
  /\ generation < MaxFiles
  /\ generation' = generation + 1
  /\ store' = <<>>
  /\ cache' = NoReplays
  /\ observed' = recordStoreState(<<>>)
  /\ UNCHANGED <<texts, scan>>

onReset ==
  /\ generation < MaxFiles
  /\ generation' = generation + 1
  /\ store' = <<>>
  /\ texts' = NoTexts
  /\ cache' = NoReplays
  /\ observed' = recordStoreState(<<>>)
  /\ UNCHANGED scan

-----------------------------------------------------------------------------

IndexInit ==
  /\ store = <<>> /\ generation = 0
  /\ texts = NoTexts
  /\ scan = [r \in Search |-> NotAsked]
  /\ cache = NoReplays
  /\ observed = recordStoreState(<<>>)

IndexNext ==
  \/ \E hit \in BOOLEAN, bytes \in TextBytes : ingestLine(hit, bytes)
  \/ onReset
  \/ \E r \in Search : scanAsync(r) \/ Resume(r)
  \/ \E target \in DOMAIN store : stateAtIndex(target)

\* setImmediate calls back
Fairness == \A r \in Search : WF_vars(Resume(r))

IndexSpec == IndexInit /\ [][IndexNext]_vars /\ Fairness

-----------------------------------------------------------------------------
(* Properties.                                                             *)

\* m is the first members of H, in their order, as many as a search may return
AreFirstOf(m, H) ==
  /\ Len(m) <= limit
  /\ \A j, k \in DOMAIN m : j < k => m[j] < m[k]
  /\ ToSet(m) \subseteq H
  /\ \A i \in H \ ToSet(m) : Len(m) = limit /\ \A k \in DOMAIN m : m[k] < i

\* A search answers for one revision of the log: what it answers, at the step
\* it does, are the first matches of the log as it was when the attempt began,
\* and it says truncated when there were more, whatever was appended, replaced
\* or cached between its yields.
AnswersAreOfTheLog ==
  [][\A r \in Search : (scan'[r] # scan[r] /\ scan'[r].pc = "answered") =>
       LET hits == {i \in 1..scan'[r].end : store[i].hit}
       IN  /\ scan'[r].generation = generation
           /\ AreFirstOf(scan'[r].matches, hits)
           /\ scan'[r].truncated <=> ToSet(scan'[r].matches) # hits]_vars

\* What either index keeps is of the log as it is: a text of the event at its
\* position, a replayed state of the events up to its target.
KeptIsFresh ==
  /\ \A i \in DOMAIN texts.cached : i \in DOMAIN store /\ texts.cached[i] = store[i]
  /\ \A n \in DOMAIN cache.entries :
       /\ cache.entries[n].target \in DOMAIN store
       /\ cache.entries[n].result = SubSeq(store, 1, cache.entries[n].target)

SizeOfTexts(cached) ==
  Total([i \in 1..Len(store) |-> IF i \in DOMAIN cached THEN cached[i].bytes ELSE 0])

CostOf(entries) == Total([n \in DOMAIN entries |-> entries[n].cost])

\* Both indexes stay within their limits, over any order of questions, and count
\* what they keep.
KeptIsBounded ==
  /\ texts.bytes = SizeOfTexts(texts.cached) /\ texts.bytes <= maxCachedTextBytes
  /\ cache.cost = CostOf(cache.entries) /\ Fits(cache)
  /\ \A m, n \in DOMAIN cache.entries :
       m # n => cache.entries[m].target # cache.entries[n].target

\* What the indexes keep is fresh, counted and within their limits.
KeptIsSound == KeptIsFresh /\ KeptIsBounded

\* A search ends, however often the log is replaced while it runs.
SearchesEnd ==
  \A r \in Search : scan[r].pc = "scanning" ~> scan[r].pc \in {"answered", "changed"}

=============================================================================
