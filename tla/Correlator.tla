----------------------------- MODULE Correlator -----------------------------
(***************************************************************************)
(* The request/response correlator (packages/core/src/correlator.ts) over  *)
(* the append-only EventStore (packages/core/src/event-store.ts).          *)
(*                                                                         *)
(* Events are numbered from 1 in the order of the log; NoIdx stands for    *)
(* the -1 of pairIdx.  The columns pairIdx, latencyMs and status are       *)
(* functions on 1..n, written one slot at a time as the code writes its    *)
(* arrays.  A pending map is a function on the keys present; an entry      *)
(* keeps the event it holds ("idx") and the event whose arrival created    *)
(* the entry ("at"), because Map.set on a key already present keeps its    *)
(* place in the insertion order that eviction follows.                     *)
(***************************************************************************)
EXTENDS Integers, FiniteSets, Sequences

CONSTANTS
  Id,           \* JSON-RPC ids; the number 1 and the string "1" are two ids
  MAX_PENDING,  \* bound on each pending map
  Timeout,      \* timeoutMs of flush
  MaxTime,      \* bound: timestamps and clock readings are in 0..MaxTime
  MaxEvents     \* bound: number of events appended between two resets

ASSUME MaxPendingAssumption == MAX_PENDING \in Nat \ {0}
ASSUME TimeAssumption == Timeout \in Nat /\ MaxTime \in Nat
ASSUME MaxEventsAssumption == MaxEvents \in Nat

VARIABLES
  events,  \* the EventStore: the sequence of events appended
  cor      \* the fields of the Correlator

corVars == <<events, cor>>

NoIdx == 0
Time == 0..MaxTime
Dir == {"c2s", "s2c"}
Status == {"ok", "error", "pending", "unmatched", "orphan", "n/a"}

Request  == [kind : {"request"}, dir : Dir, id : Id, ts : Time]
Response == [kind : {"response"}, dir : Dir, id : Id, ts : Time, error : BOOLEAN]
Other    == [kind : {"other"}, ts : Time]  \* notifications, actions, parse errors
Event    == Request \cup Response \cup Other

-----------------------------------------------------------------------------
(* The correlation key: the direction of the request, and the id.          *)

Key == Dir \X Id

Opposite(dir) == IF dir = "c2s" THEN "s2c" ELSE "c2s"

correlationKeyForRequest(ev)  == <<ev.dir, ev.id>>
\* mutated form: the direction of the response, not of its request
responseKeyUnturned(ev) == <<ev.dir, ev.id>>

correlationKeyForResponse(ev) == <<Opposite(ev.dir), ev.id>>

-----------------------------------------------------------------------------
(* Arrays and insertion-ordered maps.                                      *)

\* f[i] = v, where the slot may be the one past the end
Put(f, i, v) == [j \in DOMAIN f \cup {i} |-> IF j = i THEN v ELSE f[j]]

Without(map, key) == [k \in DOMAIN map \ {key} |-> map[k]]

SetEntry(map, key, idx) ==
  Put(map, key, [idx |-> idx,
                 at  |-> IF key \in DOMAIN map THEN map[key].at ELSE idx])

Oldest(map) ==
  CHOOSE k \in DOMAIN map : \A l \in DOMAIN map : map[k].at <= map[l].at

\* mutated form: the cap is passed by one
FullTooLate(map) == Cardinality(DOMAIN map) > MAX_PENDING

Full(map) == Cardinality(DOMAIN map) >= MAX_PENDING

-----------------------------------------------------------------------------
(* The correlator's private methods, on its fields c.                      *)

NoCorrelation ==
  [pairIdx |-> <<>>, latencyMs |-> <<>>, status |-> <<>>,
   pendingRequests |-> <<>>, pendingResponses |-> <<>>, changedIndexes |-> {}]

SetStatus(c, i, s) ==
  [c EXCEPT !.status = Put(@, i, s), !.changedIndexes = @ \cup {i}]

\* mutated form: only the response is reported as changed
PairUnreported(c, evs, req, resp) ==
  LET s == IF evs[resp].error THEN "error" ELSE "ok"
  IN  [c EXCEPT !.pairIdx = Put(Put(@, req, resp), resp, req),
                !.latencyMs = Put(@, req, evs[resp].ts - evs[req].ts),
                !.status = Put(Put(@, req, s), resp, s),
                !.changedIndexes = @ \cup {resp}]

Pair(c, evs, req, resp) ==
  LET s == IF evs[resp].error THEN "error" ELSE "ok"
  IN  [c EXCEPT !.pairIdx = Put(Put(@, req, resp), resp, req),
                !.latencyMs = Put(@, req, evs[resp].ts - evs[req].ts),
                !.status = Put(Put(@, req, s), resp, s),
                !.changedIndexes = @ \cup {req, resp}]

\* the request or response displaced by a second one with its key, or the
\* oldest one when the map is full
RoomForRequest(c, key) ==
  IF key \in DOMAIN c.pendingRequests
  THEN SetStatus(c, c.pendingRequests[key].idx, "orphan")
  ELSE IF Full(c.pendingRequests)
  THEN LET old == Oldest(c.pendingRequests)
       IN  SetStatus([c EXCEPT !.pendingRequests = Without(@, old)],
                     c.pendingRequests[old].idx, "unmatched")
  ELSE c

RoomForResponse(c, key) ==
  IF key \in DOMAIN c.pendingResponses
  THEN SetStatus(c, c.pendingResponses[key].idx, "orphan")
  ELSE IF Full(c.pendingResponses)
  THEN [c EXCEPT !.pendingResponses = Without(@, Oldest(@))]
  ELSE c

ParkRequest(c, key, i) ==
  SetStatus([c EXCEPT !.pendingRequests = SetEntry(@, key, i)], i, "pending")

ParkResponse(c, key, i) ==
  [c EXCEPT !.pendingResponses = SetEntry(@, key, i)]

\* mutated form: the parked response stays parked
OnRequestKeepsParked(c, evs, i) ==
  LET key == correlationKeyForRequest(evs[i])
  IN  IF key \in DOMAIN c.pendingResponses
      THEN Pair(c, evs, i, c.pendingResponses[key].idx)
      ELSE ParkRequest(RoomForRequest(c, key), key, i)

OnRequest(c, evs, i) ==
  LET key == correlationKeyForRequest(evs[i])
  IN  IF key \in DOMAIN c.pendingResponses
      THEN Pair([c EXCEPT !.pendingResponses = Without(@, key)],
                evs, i, c.pendingResponses[key].idx)
      ELSE ParkRequest(RoomForRequest(c, key), key, i)

\* mutated form: the request answered stays pending
OnResponseKeepsPending(c, evs, i) ==
  LET key == correlationKeyForResponse(evs[i])
  IN  IF key \in DOMAIN c.pendingRequests
      THEN Pair(c, evs, c.pendingRequests[key].idx, i)
      ELSE ParkResponse(RoomForResponse(c, key), key, i)

OnResponse(c, evs, i) ==
  LET key == correlationKeyForResponse(evs[i])
  IN  IF key \in DOMAIN c.pendingRequests
      THEN Pair([c EXCEPT !.pendingRequests = Without(@, key)],
                evs, c.pendingRequests[key].idx, i)
      ELSE ParkResponse(RoomForResponse(c, key), key, i)

DefaultSlot(c, i) ==
  [c EXCEPT !.pairIdx = Put(@, i, NoIdx), !.latencyMs = Put(@, i, -1),
            !.status = Put(@, i, "n/a")]

OnAppend(c, evs, i) ==
  LET d == DefaultSlot(c, i)
  IN  CASE evs[i].kind = "request"  -> OnRequest(d, evs, i)
        [] evs[i].kind = "response" -> OnResponse(d, evs, i)
        [] OTHER -> d

Expired(c, evs, now) ==
  {k \in DOMAIN c.pendingRequests :
     now - evs[c.pendingRequests[k].idx].ts >= Timeout}

\* mutated form: the requests that timed out are not reported as changed
FlushAtUnreported(c, evs, now) ==
  LET keys == Expired(c, evs, now)
      idxs == {c.pendingRequests[k].idx : k \in keys}
  IN  [c EXCEPT !.status = [i \in DOMAIN @ |-> IF i \in idxs THEN "unmatched"
                                                             ELSE @[i]],
                !.pendingRequests = [k \in DOMAIN @ \ keys |-> @[k]]]

FlushAt(c, evs, now) ==
  LET keys == Expired(c, evs, now)
      idxs == {c.pendingRequests[k].idx : k \in keys}
  IN  [c EXCEPT !.status = [i \in DOMAIN @ |-> IF i \in idxs THEN "unmatched"
                                                             ELSE @[i]],
                !.changedIndexes = @ \cup idxs,
                !.pendingRequests = [k \in DOMAIN @ \ keys |-> @[k]]]

Drained(c) == [c EXCEPT !.changedIndexes = {}]

-----------------------------------------------------------------------------
(* One action per call another component makes.                            *)

Init == events = <<>> /\ cor = NoCorrelation

\* EventStore.append notifies the correlator synchronously
append(ev) ==
  /\ Len(events) < MaxEvents
  /\ events' = Append(events, ev)
  /\ cor' = OnAppend(cor, events', Len(events) + 1)

flush(now) ==
  /\ cor' = FlushAt(cor, events, now)
  /\ UNCHANGED events

drainChangedIndexes ==
  /\ cor' = Drained(cor)
  /\ UNCHANGED events

\* rotation: the store and the correlator are reset together
reset == events' = <<>> /\ cor' = NoCorrelation

Next ==
  \/ \E ev \in Event : append(ev)
  \/ \E now \in Time : flush(now)
  \/ drainChangedIndexes
  \/ reset

Spec == Init /\ [][Next]_corVars

-----------------------------------------------------------------------------
(* Properties.                                                             *)

Idx == DOMAIN events
KeyOf(i) == IF events[i].kind = "request" THEN correlationKeyForRequest(events[i])
                                          ELSE correlationKeyForResponse(events[i])
IsRequest(i)  == events[i].kind = "request"
IsResponse(i) == events[i].kind = "response"
Paired(i)     == cor.pairIdx[i] # NoIdx

\* a map from keys to entries that hold events of evs
IsPendingMap(map, evs) ==
  /\ DOMAIN map \subseteq Key
  /\ map \in [DOMAIN map -> [idx : DOMAIN evs, at : DOMAIN evs]]

Fields == {"pairIdx", "latencyMs", "status",
           "pendingRequests", "pendingResponses", "changedIndexes"}

\* c holds the fields of a correlator of evs
IsCorrelation(c, evs) ==
  /\ c = [f \in Fields |-> c[f]]
  /\ c.pairIdx \in [DOMAIN evs -> DOMAIN evs \cup {NoIdx}]
  /\ c.latencyMs \in [DOMAIN evs -> Int]
  /\ c.status \in [DOMAIN evs -> Status]
  /\ IsPendingMap(c.pendingRequests, evs)
  /\ IsPendingMap(c.pendingResponses, evs)
  /\ c.changedIndexes \subseteq DOMAIN evs

\* The columns have one slot per stored event; the pending maps hold indexes
\* of stored events.
TypeOK == events \in Seq(Event) /\ IsCorrelation(cor, events)

\* The pairs are a matching of requests with responses that answer them (same
\* id and id type, opposite direction), and both ends carry the same outcome:
\* correlator.ts's "mispairing across direction or id-type" never happens,
\* whatever order, reuse of ids, time-outs and evictions the log goes through.
PairingIsMatching ==
  \A i \in Idx : Paired(i) =>
    LET j == cor.pairIdx[i]
    IN  /\ cor.pairIdx[j] = i
        /\ {events[i].kind, events[j].kind} = {"request", "response"}
        /\ events[i].id = events[j].id /\ events[i].dir # events[j].dir
        /\ cor.status[i] = cor.status[j]
        /\ cor.status[i] \in {"ok", "error"}

\* A request shows as pending exactly while the map still waits for its
\* answer: no request is forgotten in "pending" when its entry is displaced,
\* evicted or timed out, and none waits that is already settled.
PendingIsWaiting ==
  /\ \A k \in DOMAIN cor.pendingRequests :
       LET i == cor.pendingRequests[k].idx
       IN  IsRequest(i) /\ KeyOf(i) = k /\ cor.status[i] = "pending"
  /\ \A i \in Idx : cor.status[i] = "pending" =>
       /\ IsRequest(i)
       /\ KeyOf(i) \in DOMAIN cor.pendingRequests
       /\ cor.pendingRequests[KeyOf(i)].idx = i

\* An early response parked for its request is a response of that key that
\* nothing else has settled.
ParkedIsUnsettled ==
  \A k \in DOMAIN cor.pendingResponses :
    LET i == cor.pendingResponses[k].idx
    IN  IsResponse(i) /\ KeyOf(i) = k /\ cor.status[i] = "n/a" /\ ~Paired(i)

\* A request and a response of one key never wait for each other: whichever
\* of onRequest and onResponse runs second completes the pair.
NoMissedPair == DOMAIN cor.pendingRequests \cap DOMAIN cor.pendingResponses = {}

\* The matching is right, no pair of it is missed, and what is unsettled is what
\* still waits.
MatchingIsComplete ==
  PairingIsMatching /\ NoMissedPair /\ PendingIsWaiting /\ ParkedIsUnsettled

\* The pending maps stay within MAX_PENDING under any traffic.
PendingBounded ==
  /\ Cardinality(DOMAIN cor.pendingRequests) <= MAX_PENDING
  /\ Cardinality(DOMAIN cor.pendingResponses) <= MAX_PENDING

\* When an id is reused, its exchanges do not cross: of two paired requests
\* with one key the earlier has the earlier response, and its exchange is over
\* before the later request is logged.
ExchangesDoNotCross ==
  \A i, j \in Idx :
    (/\ IsRequest(i) /\ IsRequest(j) /\ i < j /\ KeyOf(i) = KeyOf(j)
     /\ Paired(i) /\ Paired(j))
    => cor.pairIdx[i] < cor.pairIdx[j] /\ cor.pairIdx[i] < j

\* Until the log rotates, a verdict is final: a pair is never undone or
\* rewired, and a request given up (timed out, evicted, displaced) never
\* becomes pending or answered again.
VerdictsAreFinal ==
  [][events' # <<>> => \A i \in Idx :
       /\ Paired(i) => /\ cor'.pairIdx[i] = cor.pairIdx[i]
                       /\ cor'.latencyMs[i] = cor.latencyMs[i]
       /\ cor.status[i] \in {"ok", "error", "unmatched", "orphan"}
            => cor'.status[i] = cor.status[i]
       /\ IsRequest(i) => cor'.status[i] # "n/a"]_corVars

=============================================================================
