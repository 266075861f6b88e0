-------------------------- MODULE CorrelatorProofs --------------------------
(***************************************************************************)
(* Proofs about the Correlator.  Its properties are proved of the fields c *)
(* and the events evs that its operators take, whatever calls them.        *)
(***************************************************************************)
EXTENDS Correlator, FiniteSetTheorems, WellFoundedInduction, TLAPS

-----------------------------------------------------------------------------
(* Arrays and maps.                                                        *)

\* A non-empty set of numbers has a least one.
LEMMA MinNat ==
  ASSUME NEW S \in SUBSET Nat, S # {}
  PROVE  \E x \in S : \A y \in S : x <= y
<1> DEFINE R == {ss \in Nat \X Nat : ss[1] < ss[2]}
<1>1. IsWellFoundedOn(R, Nat)
  BY NatLessThanWellFounded, Zenon DEF OpToRel
<1>2. PICK x \in S : \A y \in S : ~ (<<y, x>> \in R)
  <2> HIDE DEF R
  <2> QED BY <1>1, WFMin, Zenon
<1>3. \A y \in S : ~(y < x)
  BY <1>2
<1> QED BY <1>3

\* Put keeps the range of an array; the slot may be a new one.
LEMMA PutType ==
  ASSUME NEW D, NEW T, NEW f \in [D -> T], NEW i, NEW v \in T
  PROVE  Put(f, i, v) \in [D \cup {i} -> T]
BY DEF Put

\* The oldest key of a pending map is one of its keys.
LEMMA OldestIsKey ==
  ASSUME NEW evs \in Seq(Event), NEW map, IsPendingMap(map, evs), DOMAIN map # {}
  PROVE  Oldest(map) \in DOMAIN map
<1> DEFINE Ats == {map[k].at : k \in DOMAIN map}
<1>1. Ats \in SUBSET Nat /\ Ats # {}
  BY DEF IsPendingMap
<1>2. PICK a \in Ats : \A b \in Ats : a <= b
  <2> HIDE DEF Ats
  <2> QED BY <1>1, MinNat
<1>3. \E k \in DOMAIN map : \A l \in DOMAIN map : map[k].at <= map[l].at
  BY <1>2
<1> QED BY <1>3 DEF Oldest

\* A pending map stays one when an entry is removed or written.
LEMMA WithoutType ==
  ASSUME NEW evs, NEW map, NEW key, IsPendingMap(map, evs)
  PROVE  IsPendingMap(Without(map, key), evs)
BY DEF IsPendingMap, Without

LEMMA SetEntryType ==
  ASSUME NEW evs, NEW map, NEW key \in Key, NEW i \in DOMAIN evs,
         IsPendingMap(map, evs)
  PROVE  IsPendingMap(SetEntry(map, key, i), evs)
<1> DEFINE E == [idx : DOMAIN evs, at : DOMAIN evs]
           e == [idx |-> i, at |-> IF key \in DOMAIN map THEN map[key].at ELSE i]
<1>1. e \in E
  BY DEF IsPendingMap
<1>2. SetEntry(map, key, i) = Put(map, key, e)
  BY DEF SetEntry
<1>3. map \in [DOMAIN map -> E] /\ DOMAIN map \subseteq Key
  BY DEF IsPendingMap
<1>4. Put(map, key, e) \in [DOMAIN map \cup {key} -> E]
  <2> HIDE DEF E, e
  <2> QED BY <1>1, <1>3, PutType
<1>5. DOMAIN Put(map, key, e) = DOMAIN map \cup {key}
  BY DEF Put
<1> QED BY <1>2, <1>3, <1>4, <1>5 DEF IsPendingMap

-----------------------------------------------------------------------------
(* The inductive invariant.                                                *)

KeyAt(evs, i) == IF evs[i].kind = "request" THEN correlationKeyForRequest(evs[i])
                                            ELSE correlationKeyForResponse(evs[i])

Matched(c, evs) ==
  \A i \in DOMAIN evs : c.pairIdx[i] # NoIdx =>
    LET j == c.pairIdx[i]
    IN  /\ c.pairIdx[j] = i
        /\ \/ evs[i].kind = "request" /\ evs[j].kind = "response"
           \/ evs[i].kind = "response" /\ evs[j].kind = "request"
        /\ KeyAt(evs, i) = KeyAt(evs, j)
        /\ c.status[i] = c.status[j]
        /\ c.status[i] \in {"ok", "error"}

Waiting(c, evs) ==
  /\ \A k \in DOMAIN c.pendingRequests :
       LET i == c.pendingRequests[k].idx
       IN  evs[i].kind = "request" /\ KeyAt(evs, i) = k /\ c.status[i] = "pending"
  /\ \A i \in DOMAIN evs : c.status[i] = "pending" =>
       /\ evs[i].kind = "request"
       /\ KeyAt(evs, i) \in DOMAIN c.pendingRequests
       /\ c.pendingRequests[KeyAt(evs, i)].idx = i

Parked(c, evs) ==
  \A k \in DOMAIN c.pendingResponses :
    LET i == c.pendingResponses[k].idx
    IN  /\ evs[i].kind = "response" /\ KeyAt(evs, i) = k
        /\ c.status[i] = "n/a" /\ c.pairIdx[i] = NoIdx

NoneMissed(c) == DOMAIN c.pendingRequests \cap DOMAIN c.pendingResponses = {}

\* what waits is later than every paired event with its key
Later(c, evs) ==
  \A i \in DOMAIN evs : c.pairIdx[i] # NoIdx =>
    LET k == KeyAt(evs, i)
    IN  /\ k \in DOMAIN c.pendingRequests => i < c.pendingRequests[k].idx
        /\ k \in DOMAIN c.pendingResponses => i < c.pendingResponses[k].idx

Uncrossed(c, evs) ==
  \A i, j \in DOMAIN evs :
    (/\ evs[i].kind = "request" /\ evs[j].kind = "request" /\ i < j
     /\ KeyAt(evs, i) = KeyAt(evs, j)
     /\ c.pairIdx[i] # NoIdx /\ c.pairIdx[j] # NoIdx)
    => c.pairIdx[i] < c.pairIdx[j] /\ c.pairIdx[i] < j

Good(c, evs) ==
  /\ IsCorrelation(c, evs)
  /\ Matched(c, evs)
  /\ Waiting(c, evs)
  /\ Parked(c, evs)
  /\ NoneMissed(c)
  /\ Later(c, evs)
  /\ Uncrossed(c, evs)

\* i is the last event, and nothing is known of it yet
Fresh(c, evs, i) ==
  /\ i \in DOMAIN evs /\ \A j \in DOMAIN evs : j <= i
  /\ c.pairIdx[i] = NoIdx /\ c.status[i] = "n/a"
  /\ \A k \in DOMAIN c.pendingResponses : c.pendingResponses[k].idx # i

\* from c to r no verdict on an event of evs changes
Kept(c, r, evs) ==
  \A i \in DOMAIN evs :
    /\ c.pairIdx[i] # NoIdx => /\ r.pairIdx[i] = c.pairIdx[i]
                               /\ r.latencyMs[i] = c.latencyMs[i]
    /\ c.status[i] \in {"ok", "error", "unmatched", "orphan"}
         => r.status[i] = c.status[i]
    /\ c.status[i] # "n/a" => r.status[i] # "n/a"

\* The key of a stored request or response is a key.
LEMMA KeyAtType ==
  ASSUME NEW evs \in Seq(Event), NEW i \in DOMAIN evs,
         evs[i].kind \in {"request", "response"}
  PROVE  KeyAt(evs, i) \in Key
<1>1. evs[i] \in Event
  OBVIOUS
<1>2. evs[i].dir \in Dir /\ evs[i].id \in Id
  BY <1>1 DEF Event, Request, Response, Other
<1> QED BY <1>2 DEF KeyAt, correlationKeyForRequest, correlationKeyForResponse,
                    Opposite, Key, Dir

-----------------------------------------------------------------------------
(* A pair is completed.                                                    *)

\* from c to r the request and the response of key k are paired; neither was,
\* and both are later than every exchange of that key
Pairs(c, r, evs, k, req, resp) ==
  /\ Good(c, evs) /\ IsCorrelation(r, evs)
  /\ req \in DOMAIN evs /\ evs[req].kind = "request" /\ KeyAt(evs, req) = k
  /\ resp \in DOMAIN evs /\ evs[resp].kind = "response" /\ KeyAt(evs, resp) = k
  /\ c.pairIdx[req] = NoIdx /\ c.status[req] \in {"pending", "n/a"}
  /\ c.pairIdx[resp] = NoIdx /\ c.status[resp] = "n/a"
  /\ k \in DOMAIN c.pendingRequests => c.pendingRequests[k].idx = req
  /\ k \in DOMAIN c.pendingResponses => c.pendingResponses[k].idx = resp
  /\ \A i \in DOMAIN evs : (c.pairIdx[i] # NoIdx /\ KeyAt(evs, i) = k)
                             => i < req /\ i < resp
  /\ r.pairIdx = Put(Put(c.pairIdx, req, resp), resp, req)
  /\ \E l : r.latencyMs = Put(c.latencyMs, req, l)
  /\ \E s \in {"ok", "error"} : r.status = Put(Put(c.status, req, s), resp, s)
  /\ r.pendingRequests = Without(c.pendingRequests, k)
  /\ r.pendingResponses = Without(c.pendingResponses, k)

\* Such a step preserves the invariant and all verdicts.
LEMMA PairGood ==
  ASSUME NEW evs \in Seq(Event), NEW c, NEW r, NEW k, NEW req, NEW resp,
         Pairs(c, r, evs, k, req, resp)
  PROVE  /\ Good(r, evs) /\ Kept(c, r, evs)
         /\ r.status[req] # "n/a" /\ r.status[resp] # "n/a"
<1> USE DEF Pairs
<1> PICK s \in {"ok", "error"} : r.status = Put(Put(c.status, req, s), resp, s)
  OBVIOUS
<1>1. req # resp /\ req # NoIdx /\ resp # NoIdx
  BY DEF NoIdx
<1>2. /\ c.pairIdx \in [DOMAIN evs -> DOMAIN evs \cup {NoIdx}]
      /\ c.status \in [DOMAIN evs -> Status]
      /\ IsPendingMap(c.pendingRequests, evs)
      /\ IsPendingMap(c.pendingResponses, evs)
  BY DEF Good, IsCorrelation
<1>3. /\ r.pairIdx[req] = resp /\ r.pairIdx[resp] = req
      /\ r.status[req] = s /\ r.status[resp] = s
      /\ \A i \in DOMAIN evs \ {req, resp} : /\ r.pairIdx[i] = c.pairIdx[i]
                                             /\ r.status[i] = c.status[i]
      /\ \A i \in DOMAIN evs \ {req} : r.latencyMs[i] = c.latencyMs[i]
  BY <1>1, <1>2 DEF Put, IsCorrelation, Good
<1>4. /\ DOMAIN r.pendingRequests = DOMAIN c.pendingRequests \ {k}
      /\ DOMAIN r.pendingResponses = DOMAIN c.pendingResponses \ {k}
      /\ \A l \in DOMAIN r.pendingRequests :
            r.pendingRequests[l] = c.pendingRequests[l]
      /\ \A l \in DOMAIN r.pendingResponses :
            r.pendingResponses[l] = c.pendingResponses[l]
  BY DEF Without
<1>5. /\ \A l \in DOMAIN c.pendingRequests : c.pendingRequests[l].idx \in DOMAIN evs
      /\ \A l \in DOMAIN c.pendingResponses : c.pendingResponses[l].idx \in DOMAIN evs
  BY <1>2 DEF IsPendingMap
<1>6. \A i \in DOMAIN evs \ {req, resp} :
        c.pairIdx[i] # NoIdx => c.pairIdx[i] \in DOMAIN evs \ {req, resp}
  BY <1>2 DEF Good, Matched, NoIdx
<1>7. Matched(r, evs)
  <2>1. SUFFICES ASSUME NEW i \in DOMAIN evs, r.pairIdx[i] # NoIdx
                 PROVE  LET j == r.pairIdx[i]
                        IN  /\ r.pairIdx[j] = i
                            /\ \/ evs[i].kind = "request" /\ evs[j].kind = "response"
                               \/ evs[i].kind = "response" /\ evs[j].kind = "request"
                            /\ KeyAt(evs, i) = KeyAt(evs, j)
                            /\ r.status[i] = r.status[j]
                            /\ r.status[i] \in {"ok", "error"}
    BY DEF Matched
  <2>2. CASE i \in {req, resp}
    BY <2>2, <1>3
  <2>3. CASE i \notin {req, resp}
    <3>1. r.pairIdx[i] = c.pairIdx[i] /\ r.status[i] = c.status[i] /\ c.pairIdx[i] # NoIdx
      BY <2>1, <2>3, <1>3
    <3>2. LET j == c.pairIdx[i] IN r.pairIdx[j] = c.pairIdx[j] /\ r.status[j] = c.status[j]
      BY <2>3, <3>1, <1>3, <1>6
    <3> QED BY <3>1, <3>2 DEF Good, Matched
  <2> QED BY <2>2, <2>3
<1>8. Waiting(r, evs)
  <2>1. ASSUME NEW l \in DOMAIN r.pendingRequests
        PROVE  LET i == r.pendingRequests[l].idx
               IN  evs[i].kind = "request" /\ KeyAt(evs, i) = l /\ r.status[i] = "pending"
    <3> DEFINE i == c.pendingRequests[l].idx
    <3>1. l \in DOMAIN c.pendingRequests /\ l # k /\ r.pendingRequests[l].idx = i
      BY <2>1, <1>4
    <3>2. evs[i].kind = "request" /\ KeyAt(evs, i) = l /\ c.status[i] = "pending"
      BY <3>1 DEF Good, Waiting
    <3>3. i \in DOMAIN evs \ {req, resp}
      BY <3>1, <3>2, <1>5
    <3>4. r.status[i] = c.status[i]
      BY <3>3, <1>3
    <3> QED BY <3>1, <3>2, <3>4
  <2>2. ASSUME NEW i \in DOMAIN evs, r.status[i] = "pending"
        PROVE  /\ evs[i].kind = "request"
               /\ KeyAt(evs, i) \in DOMAIN r.pendingRequests
               /\ r.pendingRequests[KeyAt(evs, i)].idx = i
    <3>1. i \notin {req, resp} /\ c.status[i] = "pending"
      BY <2>2, <1>3
    <3>2. /\ evs[i].kind = "request"
          /\ KeyAt(evs, i) \in DOMAIN c.pendingRequests
          /\ c.pendingRequests[KeyAt(evs, i)].idx = i
      BY <3>1 DEF Good, Waiting
    <3>3. KeyAt(evs, i) # k
      BY <3>1, <3>2
    <3> QED BY <3>2, <3>3, <1>4
  <2> QED BY <2>1, <2>2 DEF Waiting
<1>9. Parked(r, evs)
  <2>1. SUFFICES ASSUME NEW l \in DOMAIN r.pendingResponses
                 PROVE  LET i == r.pendingResponses[l].idx
                        IN  /\ evs[i].kind = "response" /\ KeyAt(evs, i) = l
                            /\ r.status[i] = "n/a" /\ r.pairIdx[i] = NoIdx
    BY DEF Parked
  <2> DEFINE i == c.pendingResponses[l].idx
  <2>2. l \in DOMAIN c.pendingResponses /\ l # k /\ r.pendingResponses[l].idx = i
    BY <2>1, <1>4
  <2>3. /\ evs[i].kind = "response" /\ KeyAt(evs, i) = l
        /\ c.status[i] = "n/a" /\ c.pairIdx[i] = NoIdx
    BY <2>2 DEF Good, Parked
  <2>4. i \in DOMAIN evs \ {req, resp}
    BY <2>2, <2>3, <1>5
  <2>5. r.status[i] = c.status[i] /\ r.pairIdx[i] = c.pairIdx[i]
    BY <2>4, <1>3
  <2> QED BY <2>2, <2>3, <2>5
<1>10. NoneMissed(r)
  BY <1>4 DEF Good, NoneMissed
<1>11. Later(r, evs)
  BY <1>3, <1>4, <1>5 DEF Good, Later
<1>12. Uncrossed(r, evs)
  <2>1. SUFFICES ASSUME NEW i \in DOMAIN evs, NEW j \in DOMAIN evs,
                        evs[i].kind = "request", evs[j].kind = "request", i < j,
                        KeyAt(evs, i) = KeyAt(evs, j),
                        r.pairIdx[i] # NoIdx, r.pairIdx[j] # NoIdx
                 PROVE  r.pairIdx[i] < r.pairIdx[j] /\ r.pairIdx[i] < j
    BY DEF Uncrossed
  <2>2. i # resp /\ j # resp
    BY <2>1
  <2>3. CASE i # req /\ j # req
    BY <2>1, <2>2, <2>3, <1>3 DEF Good, Uncrossed
  <2>4. CASE j = req
    <3>1. i # req /\ c.pairIdx[i] # NoIdx /\ r.pairIdx[i] = c.pairIdx[i]
      BY <2>1, <2>2, <2>4, <1>3
    <3>2. /\ c.pairIdx[i] \in DOMAIN evs
          /\ c.pairIdx[c.pairIdx[i]] # NoIdx
          /\ KeyAt(evs, c.pairIdx[i]) = k
      BY <3>1, <2>1, <2>4, <1>2 DEF Good, Matched, NoIdx
    <3> QED BY <3>1, <3>2, <2>4, <1>3
  <2>5. CASE i = req
    BY <2>1, <2>2, <2>5, <1>3
  <2> QED BY <2>3, <2>4, <2>5
<1>13. Kept(c, r, evs)
  BY <1>3 DEF Kept
<1> QED BY <1>3, <1>7, <1>8, <1>9, <1>10, <1>11, <1>12, <1>13 DEF Good

-----------------------------------------------------------------------------
(* Entries come and go.                                                    *)

\* A request leaves the map with the verdict "unmatched" (evicted).
LEMMA EvictRequestGood ==
  ASSUME NEW evs \in Seq(Event), NEW c, NEW r, NEW k \in DOMAIN c.pendingRequests,
         Good(c, evs), IsCorrelation(r, evs),
         r.pairIdx = c.pairIdx,
         r.status = Put(c.status, c.pendingRequests[k].idx, "unmatched"),
         r.pendingRequests = Without(c.pendingRequests, k),
         r.pendingResponses = c.pendingResponses
  PROVE  Good(r, evs)
<1> DEFINE old == c.pendingRequests[k].idx
<1>1. /\ c.status \in [DOMAIN evs -> Status]
      /\ \A l \in DOMAIN c.pendingRequests : c.pendingRequests[l].idx \in DOMAIN evs
      /\ \A l \in DOMAIN c.pendingResponses : c.pendingResponses[l].idx \in DOMAIN evs
      /\ c.pairIdx \in [DOMAIN evs -> DOMAIN evs \cup {NoIdx}]
  BY DEF Good, IsCorrelation, IsPendingMap
<1>2. /\ old \in DOMAIN evs
      /\ evs[old].kind = "request" /\ KeyAt(evs, old) = k /\ c.status[old] = "pending"
  BY <1>1 DEF Good, Waiting
<1>3. r.status[old] = "unmatched" /\ \A i \in DOMAIN evs \ {old} : r.status[i] = c.status[i]
  BY <1>1, <1>2 DEF Put
<1>4. /\ DOMAIN r.pendingRequests = DOMAIN c.pendingRequests \ {k}
      /\ \A l \in DOMAIN r.pendingRequests :
            r.pendingRequests[l] = c.pendingRequests[l]
  BY DEF Without
<1>5. c.pairIdx[old] = NoIdx /\ \A i \in DOMAIN evs : c.pairIdx[i] # old
  BY <1>1, <1>2 DEF Good, Matched, NoIdx
<1> HIDE DEF old
<1>6. Matched(r, evs)
  BY <1>1, <1>3, <1>5 DEF Good, Matched
<1>7. Waiting(r, evs)
  <2>1. ASSUME NEW l \in DOMAIN r.pendingRequests
        PROVE  LET i == r.pendingRequests[l].idx
               IN  evs[i].kind = "request" /\ KeyAt(evs, i) = l /\ r.status[i] = "pending"
    BY <1>1, <1>2, <1>3, <1>4 DEF Good, Waiting
  <2>2. ASSUME NEW i \in DOMAIN evs, r.status[i] = "pending"
        PROVE  /\ evs[i].kind = "request"
               /\ KeyAt(evs, i) \in DOMAIN r.pendingRequests
               /\ r.pendingRequests[KeyAt(evs, i)].idx = i
    BY <2>2, <1>1, <1>2, <1>3, <1>4 DEF Good, Waiting, old
  <2> QED BY <2>1, <2>2 DEF Waiting
<1>8. Parked(r, evs)
  BY <1>1, <1>2, <1>3 DEF Good, Parked
<1>9. NoneMissed(r) /\ Later(r, evs) /\ Uncrossed(r, evs)
  BY <1>4 DEF Good, NoneMissed, Later, Uncrossed
<1> QED BY <1>6, <1>7, <1>8, <1>9 DEF Good

\* A parked response leaves the map (evicted); its status stays.
LEMMA EvictResponseGood ==
  ASSUME NEW evs \in Seq(Event), NEW c, NEW r, NEW k,
         Good(c, evs), IsCorrelation(r, evs),
         r.pairIdx = c.pairIdx, r.status = c.status,
         r.pendingRequests = c.pendingRequests,
         r.pendingResponses = Without(c.pendingResponses, k)
  PROVE  Good(r, evs)
<1>1. /\ DOMAIN r.pendingResponses = DOMAIN c.pendingResponses \ {k}
      /\ \A l \in DOMAIN r.pendingResponses :
            r.pendingResponses[l] = c.pendingResponses[l]
  BY DEF Without
<1>2. Matched(r, evs) /\ Uncrossed(r, evs) /\ NoneMissed(r) /\ Later(r, evs)
  BY <1>1 DEF Good, Matched, Uncrossed, NoneMissed, Later
<1>3. Waiting(r, evs) /\ Parked(r, evs)
  BY <1>1 DEF Good, Waiting, Parked
<1> QED BY <1>2, <1>3 DEF Good

\* A fresh request starts to wait; one that waited with its key is orphaned.
LEMMA ParkRequestGood ==
  ASSUME NEW evs \in Seq(Event), NEW c, NEW r, NEW i, NEW k \in Key,
         Good(c, evs), IsCorrelation(r, evs), Fresh(c, evs, i),
         evs[i].kind = "request", KeyAt(evs, i) = k,
         k \notin DOMAIN c.pendingResponses,
         r.pairIdx = c.pairIdx,
         r.status = IF k \in DOMAIN c.pendingRequests
                    THEN Put(Put(c.status, c.pendingRequests[k].idx, "orphan"), i, "pending")
                    ELSE Put(c.status, i, "pending"),
         r.pendingRequests = SetEntry(c.pendingRequests, k, i),
         r.pendingResponses = c.pendingResponses
  PROVE  Good(r, evs)
<1> DEFINE old == IF k \in DOMAIN c.pendingRequests THEN c.pendingRequests[k].idx ELSE i
<1>1. /\ i \in DOMAIN evs
      /\ c.status \in [DOMAIN evs -> Status]
      /\ c.pairIdx \in [DOMAIN evs -> DOMAIN evs \cup {NoIdx}]
      /\ IsPendingMap(c.pendingRequests, evs)
      /\ \A l \in DOMAIN c.pendingRequests : c.pendingRequests[l].idx \in DOMAIN evs
      /\ \A l \in DOMAIN c.pendingResponses : c.pendingResponses[l].idx \in DOMAIN evs
  BY DEF Good, IsCorrelation, IsPendingMap, Fresh
<1>2. /\ old \in DOMAIN evs
      /\ evs[old].kind = "request" /\ KeyAt(evs, old) = k
      /\ c.status[old] \in {"pending", "n/a"}
      /\ k \in DOMAIN c.pendingRequests => old # i
  BY <1>1 DEF Good, Waiting, Fresh
<1>3. /\ r.status[i] = "pending"
      /\ old # i => r.status[old] = "orphan"
      /\ \A j \in DOMAIN evs \ {i, old} : r.status[j] = c.status[j]
  BY <1>1, <1>2 DEF Put
<1>4. /\ DOMAIN r.pendingRequests = DOMAIN c.pendingRequests \cup {k}
      /\ r.pendingRequests[k].idx = i
      /\ \A l \in DOMAIN c.pendingRequests : l # k =>
            r.pendingRequests[l] = c.pendingRequests[l]
  BY DEF SetEntry, Put
<1>5. /\ c.pairIdx[old] = NoIdx /\ c.pairIdx[i] = NoIdx
      /\ \A j \in DOMAIN evs : c.pairIdx[j] # old /\ c.pairIdx[j] # i
  BY <1>1, <1>2 DEF Good, Matched, NoIdx, Fresh
<1>6. \A l \in DOMAIN c.pendingRequests : l # k => c.pendingRequests[l].idx \notin {i, old}
  BY <1>1, <1>2 DEF Good, Waiting, Fresh
<1>7. old # i => k \in DOMAIN c.pendingRequests /\ c.pendingRequests[k].idx = old
  OBVIOUS
<1> HIDE DEF old
<1>8. Matched(r, evs)
  BY <1>1, <1>3, <1>5 DEF Good, Matched
<1>9. Waiting(r, evs)
  <2>1. ASSUME NEW l \in DOMAIN r.pendingRequests
        PROVE  LET j == r.pendingRequests[l].idx
               IN  evs[j].kind = "request" /\ KeyAt(evs, j) = l /\ r.status[j] = "pending"
    <3>1. CASE l = k
      BY <3>1, <1>3, <1>4
    <3>2. CASE l # k
      BY <3>2, <2>1, <1>1, <1>3, <1>4, <1>6 DEF Good, Waiting
    <3> QED BY <3>1, <3>2
  <2>2. ASSUME NEW j \in DOMAIN evs, r.status[j] = "pending"
        PROVE  /\ evs[j].kind = "request"
               /\ KeyAt(evs, j) \in DOMAIN r.pendingRequests
               /\ r.pendingRequests[KeyAt(evs, j)].idx = j
    <3>1. CASE j = i
      BY <3>1, <1>4
    <3>2. CASE j # i
      <4>1. j # old /\ c.status[j] = "pending"
        BY <3>2, <2>2, <1>3
      <4>2. /\ evs[j].kind = "request"
            /\ KeyAt(evs, j) \in DOMAIN c.pendingRequests
            /\ c.pendingRequests[KeyAt(evs, j)].idx = j
        BY <4>1 DEF Good, Waiting
      <4>3. KeyAt(evs, j) # k
        BY <4>1, <4>2, <3>2, <1>7 DEF old
      <4> QED BY <4>2, <4>3, <1>4
    <3> QED BY <3>1, <3>2
  <2> QED BY <2>1, <2>2 DEF Waiting
<1>10. Parked(r, evs)
  BY <1>1, <1>2, <1>3 DEF Good, Parked, Fresh
<1>11. NoneMissed(r) /\ Uncrossed(r, evs)
  BY <1>4 DEF Good, NoneMissed, Uncrossed
<1>12. Later(r, evs)
  <2>1. \A j \in DOMAIN evs : c.pairIdx[j] # NoIdx => j < i
    BY <1>1, <1>5 DEF Fresh
  <2> QED BY <2>1, <1>4 DEF Good, Later
<1> QED BY <1>8, <1>9, <1>10, <1>11, <1>12 DEF Good

\* A fresh response is parked; one that was parked with its key is orphaned.
LEMMA ParkResponseGood ==
  ASSUME NEW evs \in Seq(Event), NEW c, NEW r, NEW i, NEW k \in Key,
         Good(c, evs), IsCorrelation(r, evs), Fresh(c, evs, i),
         evs[i].kind = "response", KeyAt(evs, i) = k,
         k \notin DOMAIN c.pendingRequests,
         r.pairIdx = c.pairIdx,
         r.status = IF k \in DOMAIN c.pendingResponses
                    THEN Put(c.status, c.pendingResponses[k].idx, "orphan")
                    ELSE c.status,
         r.pendingRequests = c.pendingRequests,
         r.pendingResponses = SetEntry(c.pendingResponses, k, i)
  PROVE  Good(r, evs)
<1> DEFINE old == IF k \in DOMAIN c.pendingResponses THEN c.pendingResponses[k].idx ELSE i
<1>1. /\ i \in DOMAIN evs
      /\ c.status \in [DOMAIN evs -> Status]
      /\ c.pairIdx \in [DOMAIN evs -> DOMAIN evs \cup {NoIdx}]
      /\ IsPendingMap(c.pendingResponses, evs)
      /\ \A l \in DOMAIN c.pendingRequests : c.pendingRequests[l].idx \in DOMAIN evs
      /\ \A l \in DOMAIN c.pendingResponses : c.pendingResponses[l].idx \in DOMAIN evs
  BY DEF Good, IsCorrelation, IsPendingMap, Fresh
<1>2. /\ old \in DOMAIN evs
      /\ evs[old].kind = "response" /\ KeyAt(evs, old) = k
      /\ c.status[old] = "n/a" /\ c.pairIdx[old] = NoIdx
      /\ k \in DOMAIN c.pendingResponses => old # i
  BY <1>1 DEF Good, Parked, Fresh
<1>3. /\ r.status[i] = "n/a"
      /\ old # i => r.status[old] = "orphan"
      /\ \A j \in DOMAIN evs \ {old} : r.status[j] = c.status[j]
  BY <1>1, <1>2 DEF Put, Fresh
<1>4. /\ DOMAIN r.pendingResponses = DOMAIN c.pendingResponses \cup {k}
      /\ r.pendingResponses[k].idx = i
      /\ \A l \in DOMAIN c.pendingResponses : l # k =>
            r.pendingResponses[l] = c.pendingResponses[l]
  BY DEF SetEntry, Put
<1>5. /\ c.pairIdx[old] = NoIdx /\ c.pairIdx[i] = NoIdx
      /\ \A j \in DOMAIN evs : c.pairIdx[j] # old
  BY <1>1, <1>2 DEF Good, Matched, NoIdx, Fresh
<1>6. \A l \in DOMAIN c.pendingResponses : l # k => c.pendingResponses[l].idx \notin {i, old}
  BY <1>1, <1>2 DEF Good, Parked, Fresh
<1> HIDE DEF old
<1>7. Matched(r, evs)
  BY <1>1, <1>2, <1>3, <1>5 DEF Good, Matched
<1>8. Waiting(r, evs)
  <2>1. \A j \in DOMAIN evs : r.status[j] = "pending" <=> c.status[j] = "pending"
    BY <1>1, <1>2, <1>3
  <2> QED BY <2>1, <1>1 DEF Good, Waiting
<1>9. Parked(r, evs)
  <2>1. SUFFICES ASSUME NEW l \in DOMAIN r.pendingResponses
                 PROVE  LET j == r.pendingResponses[l].idx
                        IN  /\ evs[j].kind = "response" /\ KeyAt(evs, j) = l
                            /\ r.status[j] = "n/a" /\ r.pairIdx[j] = NoIdx
    BY DEF Parked
  <2>2. CASE l = k
    BY <2>2, <1>3, <1>4, <1>5
  <2>3. CASE l # k
    BY <2>1, <2>3, <1>1, <1>3, <1>4, <1>6 DEF Good, Parked
  <2> QED BY <2>2, <2>3
<1>10. NoneMissed(r) /\ Uncrossed(r, evs)
  BY <1>4 DEF Good, NoneMissed, Uncrossed
<1>11. Later(r, evs)
  <2>1. \A j \in DOMAIN evs : c.pairIdx[j] # NoIdx => j < i
    BY <1>1, <1>5 DEF Fresh
  <2> QED BY <2>1, <1>4 DEF Good, Later
<1> QED BY <1>7, <1>8, <1>9, <1>10, <1>11 DEF Good

-----------------------------------------------------------------------------
(* What the operators do to the fields, and their types.                   *)

\* A status is set.
LEMMA SetStatusFields ==
  ASSUME NEW evs, NEW c, IsCorrelation(c, evs), NEW i \in DOMAIN evs, NEW s \in Status
  PROVE  LET r == SetStatus(c, i, s)
         IN  /\ IsCorrelation(r, evs)
             /\ r.pairIdx = c.pairIdx /\ r.latencyMs = c.latencyMs
             /\ r.status = Put(c.status, i, s)
             /\ r.pendingRequests = c.pendingRequests
             /\ r.pendingResponses = c.pendingResponses
<1> DEFINE r == SetStatus(c, i, s)
<1>1. r = [f \in Fields |-> r[f]]
  BY DEF IsCorrelation, SetStatus
<1>2. /\ r.pairIdx = c.pairIdx /\ r.latencyMs = c.latencyMs
      /\ r.status = Put(c.status, i, s)
      /\ r.pendingRequests = c.pendingRequests
      /\ r.pendingResponses = c.pendingResponses
      /\ r.changedIndexes = c.changedIndexes \cup {i}
  BY DEF IsCorrelation, SetStatus, Fields
<1>3. Put(c.status, i, s) \in [DOMAIN evs -> Status]
  BY DEF IsCorrelation, Put
<1> HIDE DEF r
<1>4. IsCorrelation(r, evs)
  BY <1>1, <1>2, <1>3 DEF IsCorrelation
<1> QED BY <1>2, <1>4 DEF r

\* One of the pending maps is replaced.
LEMMA PendingRequestsFields ==
  ASSUME NEW evs, NEW c, IsCorrelation(c, evs), NEW map, IsPendingMap(map, evs)
  PROVE  LET r == [c EXCEPT !.pendingRequests = map]
         IN  /\ IsCorrelation(r, evs)
             /\ r.pairIdx = c.pairIdx /\ r.latencyMs = c.latencyMs
             /\ r.status = c.status
             /\ r.pendingRequests = map
             /\ r.pendingResponses = c.pendingResponses
BY DEF IsCorrelation, Fields

LEMMA PendingResponsesFields ==
  ASSUME NEW evs, NEW c, IsCorrelation(c, evs), NEW map, IsPendingMap(map, evs)
  PROVE  LET r == [c EXCEPT !.pendingResponses = map]
         IN  /\ IsCorrelation(r, evs)
             /\ r.pairIdx = c.pairIdx /\ r.latencyMs = c.latencyMs
             /\ r.status = c.status
             /\ r.pendingRequests = c.pendingRequests
             /\ r.pendingResponses = map
BY DEF IsCorrelation, Fields

\* A pair is completed.
LEMMA PairFields ==
  ASSUME NEW evs \in Seq(Event), NEW c, IsCorrelation(c, evs),
         NEW req \in DOMAIN evs, NEW resp \in DOMAIN evs,
         evs[req].kind = "request", evs[resp].kind = "response"
  PROVE  LET r == Pair(c, evs, req, resp)
         IN  /\ IsCorrelation(r, evs)
             /\ r.pairIdx = Put(Put(c.pairIdx, req, resp), resp, req)
             /\ r.latencyMs = Put(c.latencyMs, req, evs[resp].ts - evs[req].ts)
             /\ \E s \in {"ok", "error"} :
                  r.status = Put(Put(c.status, req, s), resp, s)
             /\ r.pendingRequests = c.pendingRequests
             /\ r.pendingResponses = c.pendingResponses
<1> DEFINE s == IF evs[resp].error THEN "error" ELSE "ok"
           l == evs[resp].ts - evs[req].ts
           r == Pair(c, evs, req, resp)
<1>1. r = [f \in Fields |-> r[f]]
  BY DEF IsCorrelation, Pair
<1>2. /\ r.pairIdx = Put(Put(c.pairIdx, req, resp), resp, req)
      /\ r.latencyMs = Put(c.latencyMs, req, l)
      /\ r.status = Put(Put(c.status, req, s), resp, s)
      /\ r.pendingRequests = c.pendingRequests
      /\ r.pendingResponses = c.pendingResponses
      /\ r.changedIndexes = c.changedIndexes \cup {req, resp}
  BY DEF IsCorrelation, Pair, Fields
<1>3. l \in Int
  <2>1. evs[req] \in Event /\ evs[resp] \in Event
    OBVIOUS
  <2>2. evs[req].ts \in Time /\ evs[resp].ts \in Time
    BY <2>1 DEF Event, Request, Response, Other
  <2> QED BY <2>2, TimeAssumption DEF Time
<1>4. s \in {"ok", "error"}
  OBVIOUS
<1> HIDE DEF s, l, r
<1>5. /\ Put(Put(c.pairIdx, req, resp), resp, req)
           \in [DOMAIN evs -> DOMAIN evs \cup {NoIdx}]
      /\ Put(c.latencyMs, req, l) \in [DOMAIN evs -> Int]
      /\ Put(Put(c.status, req, s), resp, s) \in [DOMAIN evs -> Status]
  BY <1>3, <1>4 DEF IsCorrelation, Put, Status
<1>6. IsCorrelation(r, evs)
  BY <1>1, <1>2, <1>5 DEF IsCorrelation
<1> QED BY <1>2, <1>4, <1>6 DEF r, l

\* A fresh event is appended to the columns; all else stays.
LEMMA SlotGood ==
  ASSUME NEW evs \in Seq(Event), NEW ev \in Event, NEW c, Good(c, evs)
  PROVE  LET e == Append(evs, ev)
             i == Len(evs) + 1
             d == DefaultSlot(c, i)
         IN  /\ Good(d, e) /\ Fresh(d, e, i) /\ Kept(c, d, evs)
             /\ d.pendingRequests = c.pendingRequests
             /\ d.pendingResponses = c.pendingResponses
<1> DEFINE e == Append(evs, ev)
           i == Len(evs) + 1
           d == DefaultSlot(c, i)
<1>1. IsCorrelation(c, evs)
  BY DEF Good
<1>2. d = [f \in Fields |-> d[f]]
  BY <1>1 DEF IsCorrelation, DefaultSlot
<1>3. /\ d.pairIdx = Put(c.pairIdx, i, NoIdx)
      /\ d.latencyMs = Put(c.latencyMs, i, -1)
      /\ d.status = Put(c.status, i, "n/a")
      /\ d.pendingRequests = c.pendingRequests
      /\ d.pendingResponses = c.pendingResponses
      /\ d.changedIndexes = c.changedIndexes
  BY <1>1 DEF IsCorrelation, DefaultSlot, Fields
<1>4. /\ e \in Seq(Event) /\ DOMAIN e = DOMAIN evs \cup {i} /\ i \notin DOMAIN evs
      /\ \A j \in DOMAIN evs : e[j] = evs[j]
      /\ DOMAIN evs = 1..Len(evs) /\ Len(evs) \in Nat
  OBVIOUS
<1> HIDE DEF e, i, d
<1>5. \A j \in DOMAIN evs : KeyAt(e, j) = KeyAt(evs, j)
  BY <1>4 DEF KeyAt
<1>6. /\ Put(c.pairIdx, i, NoIdx) \in [DOMAIN e -> DOMAIN e \cup {NoIdx}]
      /\ Put(c.latencyMs, i, -1) \in [DOMAIN e -> Int]
      /\ Put(c.status, i, "n/a") \in [DOMAIN e -> Status]
  <2>1. /\ c.pairIdx \in [DOMAIN evs -> DOMAIN e \cup {NoIdx}]
        /\ c.latencyMs \in [DOMAIN evs -> Int] /\ -1 \in Int
        /\ c.status \in [DOMAIN evs -> Status] /\ "n/a" \in Status
    BY <1>1, <1>4 DEF IsCorrelation, Status
  <2> QED BY <2>1, <1>4 DEF Put
<1>7. /\ IsPendingMap(c.pendingRequests, e)
      /\ IsPendingMap(c.pendingResponses, e)
      /\ c.changedIndexes \subseteq DOMAIN e
  BY <1>1, <1>4 DEF IsCorrelation, IsPendingMap
<1>8. IsCorrelation(d, e)
  BY <1>2, <1>3, <1>6, <1>7 DEF IsCorrelation
<1>9. /\ d.pairIdx[i] = NoIdx /\ d.status[i] = "n/a"
      /\ \A j \in DOMAIN evs : /\ d.pairIdx[j] = c.pairIdx[j]
                               /\ d.latencyMs[j] = c.latencyMs[j]
                               /\ d.status[j] = c.status[j]
  BY <1>1, <1>3, <1>4 DEF IsCorrelation, Put
<1>10. /\ c.pairIdx \in [DOMAIN evs -> DOMAIN evs \cup {NoIdx}]
       /\ \A l \in DOMAIN c.pendingRequests : c.pendingRequests[l].idx \in DOMAIN evs
       /\ \A l \in DOMAIN c.pendingResponses : c.pendingResponses[l].idx \in DOMAIN evs
  BY <1>1 DEF IsCorrelation, IsPendingMap
<1>11. Matched(d, e)
  BY <1>4, <1>5, <1>9, <1>10 DEF Good, Matched
<1>12. Waiting(d, e)
  BY <1>3, <1>4, <1>5, <1>9, <1>10 DEF Good, Waiting
<1>13. Parked(d, e)
  BY <1>3, <1>4, <1>5, <1>9, <1>10 DEF Good, Parked
<1>14. NoneMissed(d) /\ Later(d, e) /\ Uncrossed(d, e)
  BY <1>3, <1>4, <1>5, <1>9, <1>10 DEF Good, NoneMissed, Later, Uncrossed
<1>15. Fresh(d, e, i)
  BY <1>3, <1>4, <1>9, <1>10 DEF Fresh, i
<1>16. Kept(c, d, evs)
  BY <1>9 DEF Kept
<1>17. Good(d, e)
  BY <1>8, <1>11, <1>12, <1>13, <1>14 DEF Good
<1> QED BY <1>3, <1>15, <1>16, <1>17 DEF e, i, d

-----------------------------------------------------------------------------
(* The steps of the correlator preserve the invariant.                     *)

\* Verdicts are kept when only events without one get a new status.
LEMMA KeptByStatus ==
  ASSUME NEW evs, NEW c, NEW r, IsCorrelation(c, evs),
         NEW i \in DOMAIN evs, NEW s \in Status \ {"n/a"},
         c.status[i] \in {"pending", "n/a"},
         r.pairIdx = c.pairIdx, r.latencyMs = c.latencyMs,
         r.status = Put(c.status, i, s)
  PROVE  Kept(c, r, evs)
BY DEF Kept, IsCorrelation, Put

\* Verdicts kept by two steps are kept by both.
LEMMA KeptTransitive ==
  ASSUME NEW evs, NEW b, NEW c, NEW d, Kept(b, c, evs), Kept(c, d, evs)
  PROVE  Kept(b, d, evs)
BY DEF Kept

\* The pending maps are within the cap.
Bounded(c) ==
  /\ IsFiniteSet(DOMAIN c.pendingRequests)
  /\ Cardinality(DOMAIN c.pendingRequests) <= MAX_PENDING
  /\ IsFiniteSet(DOMAIN c.pendingResponses)
  /\ Cardinality(DOMAIN c.pendingResponses) <= MAX_PENDING

\* A map that is full has an entry.
LEMMA FullIsNotEmpty ==
  ASSUME NEW map, Full(map)
  PROVE  DOMAIN map # {}
BY FS_EmptySet, MaxPendingAssumption DEF Full

\* There is room for one more entry in a map that is not full.
LEMMA RoomForOne ==
  ASSUME NEW map, NEW k, IsFiniteSet(DOMAIN map), ~Full(map)
  PROVE  /\ IsFiniteSet(DOMAIN map \cup {k})
         /\ Cardinality(DOMAIN map \cup {k}) <= MAX_PENDING
<1>1. Cardinality(DOMAIN map) \in Nat
  BY FS_CardinalityType
<1>2. /\ IsFiniteSet(DOMAIN map \cup {k})
      /\ Cardinality(DOMAIN map \cup {k}) <= Cardinality(DOMAIN map) + 1
  <2>1. IsFiniteSet(DOMAIN map \cup {k})
    BY FS_AddElement
  <2>2. Cardinality(DOMAIN map \cup {k}) =
          IF k \in DOMAIN map THEN Cardinality(DOMAIN map) ELSE Cardinality(DOMAIN map) + 1
    BY FS_AddElement
  <2> QED BY <2>1, <2>2, <1>1
<1>3. Cardinality(DOMAIN map \cup {k}) \in Nat
  BY <1>2, FS_CardinalityType
<1> QED BY <1>1, <1>2, <1>3, MaxPendingAssumption DEF Full

\* There is room for one more entry where one was removed.
LEMMA RoomOfOne ==
  ASSUME NEW S, NEW old \in S, IsFiniteSet(S), Cardinality(S) <= MAX_PENDING
  PROVE  /\ IsFiniteSet(S \ {old})
         /\ ~(Cardinality(S \ {old}) >= MAX_PENDING)
         /\ Cardinality(S \ {old}) <= MAX_PENDING
<1>1. Cardinality(S) \in Nat /\ IsFiniteSet(S \ {old})
  BY FS_CardinalityType, FS_RemoveElement
<1>2. Cardinality(S \ {old}) = Cardinality(S) - 1
  BY FS_RemoveElement
<1> QED BY <1>1, <1>2, MaxPendingAssumption

\* A fresh request with no entry of its key anywhere is parked.
LEMMA ParkRequestStep ==
  ASSUME NEW evs \in Seq(Event), NEW c, NEW i, NEW k \in Key,
         Good(c, evs), Fresh(c, evs, i),
         evs[i].kind = "request", KeyAt(evs, i) = k,
         k \notin DOMAIN c.pendingRequests, k \notin DOMAIN c.pendingResponses
  PROVE  LET r == ParkRequest(c, k, i)
         IN  /\ Good(r, evs) /\ Kept(c, r, evs) /\ r.status[i] # "n/a"
             /\ DOMAIN r.pendingRequests = DOMAIN c.pendingRequests \cup {k}
             /\ r.pendingResponses = c.pendingResponses
<1> DEFINE m == SetEntry(c.pendingRequests, k, i)
           b == [c EXCEPT !.pendingRequests = m]
           r == ParkRequest(c, k, i)
<1>1. IsCorrelation(c, evs) /\ i \in DOMAIN evs /\ "pending" \in Status \ {"n/a"}
  BY DEF Good, Fresh, Status
<1>2. IsPendingMap(m, evs)
  BY <1>1, SetEntryType DEF IsCorrelation
<1>3. DOMAIN m = DOMAIN c.pendingRequests \cup {k}
  BY DEF SetEntry, Put
<1>4. r = SetStatus(b, i, "pending")
  BY DEF ParkRequest
<1> HIDE DEF m
<1>5. /\ IsCorrelation(b, evs)
      /\ b.pairIdx = c.pairIdx /\ b.latencyMs = c.latencyMs /\ b.status = c.status
      /\ b.pendingRequests = m /\ b.pendingResponses = c.pendingResponses
  BY <1>1, <1>2, PendingRequestsFields
<1> HIDE DEF b, r
<1>6. /\ IsCorrelation(r, evs)
      /\ r.pairIdx = b.pairIdx /\ r.latencyMs = b.latencyMs
      /\ r.status = Put(b.status, i, "pending")
      /\ r.pendingRequests = b.pendingRequests
      /\ r.pendingResponses = b.pendingResponses
  BY <1>1, <1>4, <1>5, SetStatusFields
<1>7. Good(r, evs)
  BY <1>5, <1>6, ParkRequestGood DEF m
<1>8. Kept(c, r, evs) /\ r.status[i] = "pending"
  <2>1. c.status[i] = "n/a"
    BY DEF Fresh
  <2> QED BY <2>1, <1>1, <1>5, <1>6 DEF Kept, IsCorrelation, Put
<1> QED BY <1>3, <1>5, <1>6, <1>7, <1>8 DEF r

\* A request is taken, whatever waits.
LEMMA OnRequestGood ==
  ASSUME NEW evs \in Seq(Event), NEW c, NEW i,
         Good(c, evs), Fresh(c, evs, i), evs[i].kind = "request"
  PROVE  LET r == OnRequest(c, evs, i)
         IN  /\ Good(r, evs) /\ Kept(c, r, evs) /\ r.status[i] # "n/a"
             /\ Bounded(c) => Bounded(r)
<1> DEFINE k == correlationKeyForRequest(evs[i])
           r == OnRequest(c, evs, i)
<1>1. /\ k \in Key /\ KeyAt(evs, i) = k /\ i \in DOMAIN evs
      /\ IsCorrelation(c, evs)
      /\ IsPendingMap(c.pendingRequests, evs) /\ IsPendingMap(c.pendingResponses, evs)
  BY KeyAtType DEF Fresh, KeyAt, Good, IsCorrelation
<1>2. CASE k \in DOMAIN c.pendingResponses
  <2> DEFINE resp == c.pendingResponses[k].idx
             m == Without(c.pendingResponses, k)
             b == [c EXCEPT !.pendingResponses = m]
  <2>1. r = Pair(b, evs, i, resp)
    BY <1>2 DEF OnRequest
  <2>2. IsPendingMap(m, evs) /\ DOMAIN m = DOMAIN c.pendingResponses \ {k}
    BY <1>1, WithoutType DEF Without
  <2>3. /\ resp \in DOMAIN evs
        /\ evs[resp].kind = "response" /\ KeyAt(evs, resp) = k
        /\ c.status[resp] = "n/a" /\ c.pairIdx[resp] = NoIdx
    BY <1>1, <1>2 DEF Good, Parked, IsPendingMap
  <2> HIDE DEF k, m
  <2>4. /\ IsCorrelation(b, evs)
        /\ b.pairIdx = c.pairIdx /\ b.latencyMs = c.latencyMs /\ b.status = c.status
        /\ b.pendingRequests = c.pendingRequests /\ b.pendingResponses = m
    BY <1>1, <2>2, PendingResponsesFields
  <2> HIDE DEF b, r, resp
  <2>5. PICK s \in {"ok", "error"} :
           /\ IsCorrelation(r, evs)
           /\ r.pairIdx = Put(Put(b.pairIdx, i, resp), resp, i)
           /\ r.latencyMs = Put(b.latencyMs, i, evs[resp].ts - evs[i].ts)
           /\ r.status = Put(Put(b.status, i, s), resp, s)
           /\ r.pendingRequests = b.pendingRequests
           /\ r.pendingResponses = b.pendingResponses
    BY <1>1, <2>1, <2>3, <2>4, PairFields
  <2>6. k \notin DOMAIN c.pendingRequests
    BY <1>2 DEF Good, NoneMissed
  <2>7. r.pendingRequests = Without(c.pendingRequests, k)
    BY <1>1, <2>4, <2>5, <2>6 DEF Without, IsPendingMap
  <2>8. \A j \in DOMAIN evs : (c.pairIdx[j] # NoIdx /\ KeyAt(evs, j) = k)
                                => j < i /\ j < resp
    BY <1>1, <1>2 DEF Good, Later, Fresh, resp
  <2>9. Pairs(c, r, evs, k, i, resp)
    BY <1>1, <2>3, <2>4, <2>5, <2>6, <2>7, <2>8 DEF Pairs, Fresh, m, resp
  <2>10. Good(r, evs) /\ Kept(c, r, evs) /\ r.status[i] # "n/a"
    BY <2>9, PairGood
  <2>11. ASSUME Bounded(c) PROVE Bounded(r)
    <3>1. IsFiniteSet(DOMAIN m) /\ Cardinality(DOMAIN m) <= MAX_PENDING
      BY <1>2, <2>2, <2>11, RoomOfOne DEF Bounded
    <3> QED BY <3>1, <2>4, <2>5, <2>11 DEF Bounded
  <2> QED BY <2>10, <2>11 DEF r
<1>3. CASE k \notin DOMAIN c.pendingResponses /\ k \in DOMAIN c.pendingRequests
  <2> DEFINE old == c.pendingRequests[k].idx
             b == SetStatus(c, old, "orphan")
             m == SetEntry(c.pendingRequests, k, i)
             d == [b EXCEPT !.pendingRequests = m]
  <2>1. /\ old \in DOMAIN evs /\ "orphan" \in Status /\ "pending" \in Status
        /\ c.status[old] = "pending" /\ c.status[i] = "n/a"
    BY <1>1, <1>3 DEF Good, Waiting, IsPendingMap, Status, Fresh
  <2>2. IsPendingMap(m, evs) /\ DOMAIN m = DOMAIN c.pendingRequests
    BY <1>1, <1>3, SetEntryType DEF SetEntry, Put
  <2>3. RoomForRequest(c, k) = b /\ r = ParkRequest(b, k, i)
    BY <1>3 DEF OnRequest, RoomForRequest
  <2> HIDE DEF k, m, old
  <2>4. /\ IsCorrelation(b, evs)
        /\ b.pairIdx = c.pairIdx /\ b.latencyMs = c.latencyMs
        /\ b.status = Put(c.status, old, "orphan")
        /\ b.pendingRequests = c.pendingRequests
        /\ b.pendingResponses = c.pendingResponses
    BY <1>1, <2>1, SetStatusFields
  <2>5. r = SetStatus(d, i, "pending")
    BY <2>3, <2>4 DEF ParkRequest, m
  <2> HIDE DEF b
  <2>6. /\ IsCorrelation(d, evs)
        /\ d.pairIdx = b.pairIdx /\ d.latencyMs = b.latencyMs /\ d.status = b.status
        /\ d.pendingRequests = m /\ d.pendingResponses = b.pendingResponses
    BY <2>2, <2>4, PendingRequestsFields
  <2> HIDE DEF d, r
  <2>7. /\ IsCorrelation(r, evs)
        /\ r.pairIdx = d.pairIdx /\ r.latencyMs = d.latencyMs
        /\ r.status = Put(d.status, i, "pending")
        /\ r.pendingRequests = d.pendingRequests
        /\ r.pendingResponses = d.pendingResponses
    BY <1>1, <2>1, <2>5, <2>6, SetStatusFields
  <2>8. Good(r, evs)
    BY <1>1, <1>3, <2>4, <2>6, <2>7, ParkRequestGood DEF m, old
  <2>9. Kept(c, r, evs) /\ r.status[i] # "n/a"
    <3>1. Kept(c, b, evs)
      BY <1>1, <2>1, <2>4, KeptByStatus
    <3>2. b.status[i] = "n/a"
      BY <1>1, <2>1, <2>4 DEF IsCorrelation, Put
    <3>3. Kept(b, r, evs)
      BY <1>1, <2>1, <2>4, <2>6, <2>7, <3>2, KeptByStatus
    <3>4. r.status[i] = "pending"
      BY <1>1, <2>4, <2>6, <2>7 DEF IsCorrelation, Put
    <3> QED BY <3>1, <3>3, <3>4, KeptTransitive
  <2>10. Bounded(c) => Bounded(r)
    BY <2>2, <2>4, <2>6, <2>7 DEF Bounded
  <2> QED BY <2>8, <2>9, <2>10 DEF r
<1>4. CASE /\ k \notin DOMAIN c.pendingResponses /\ k \notin DOMAIN c.pendingRequests
           /\ Full(c.pendingRequests)
  <2> DEFINE o == Oldest(c.pendingRequests)
             old == c.pendingRequests[o].idx
             m == Without(c.pendingRequests, o)
             d == [c EXCEPT !.pendingRequests = m]
             b == SetStatus(d, old, "unmatched")
  <2>1. o \in DOMAIN c.pendingRequests
    BY <1>1, <1>4, FullIsNotEmpty, OldestIsKey
  <2>2. IsPendingMap(m, evs) /\ DOMAIN m = DOMAIN c.pendingRequests \ {o}
    BY <1>1, WithoutType DEF Without
  <2>3. r = ParkRequest(b, k, i)
    BY <1>4 DEF OnRequest, RoomForRequest
  <2> HIDE DEF k, o
  <2>4. /\ old \in DOMAIN evs /\ "unmatched" \in Status
        /\ c.status[old] = "pending" /\ c.status[i] = "n/a"
    BY <1>1, <2>1 DEF Good, Waiting, IsPendingMap, Status, Fresh
  <2> HIDE DEF m, old
  <2>5. /\ IsCorrelation(d, evs)
        /\ d.pairIdx = c.pairIdx /\ d.latencyMs = c.latencyMs /\ d.status = c.status
        /\ d.pendingRequests = m /\ d.pendingResponses = c.pendingResponses
    BY <1>1, <2>2, PendingRequestsFields
  <2> HIDE DEF d
  <2>6. /\ IsCorrelation(b, evs)
        /\ b.pairIdx = d.pairIdx /\ b.latencyMs = d.latencyMs
        /\ b.status = Put(d.status, old, "unmatched")
        /\ b.pendingRequests = d.pendingRequests
        /\ b.pendingResponses = d.pendingResponses
    BY <2>4, <2>5, SetStatusFields
  <2> HIDE DEF b, r
  <2>7. Good(b, evs)
    BY <2>1, <2>5, <2>6, EvictRequestGood DEF m, old
  <2>8. Fresh(b, evs, i)
    <3>1. b.status[i] = "n/a"
      BY <1>1, <2>4, <2>5, <2>6 DEF IsCorrelation, Put
    <3> QED BY <3>1, <2>5, <2>6 DEF Fresh
  <2>9. Kept(c, b, evs)
    BY <1>1, <2>4, <2>5, <2>6, KeptByStatus
  <2>10. k \notin DOMAIN b.pendingRequests /\ k \notin DOMAIN b.pendingResponses
    BY <1>4, <2>2, <2>5, <2>6
  <2>11. /\ Good(r, evs) /\ Kept(b, r, evs) /\ r.status[i] # "n/a"
         /\ DOMAIN r.pendingRequests = DOMAIN b.pendingRequests \cup {k}
         /\ r.pendingResponses = b.pendingResponses
    BY <1>1, <2>3, <2>7, <2>8, <2>10, ParkRequestStep
  <2>12. Kept(c, r, evs)
    BY <2>9, <2>11, KeptTransitive
  <2>13. ASSUME Bounded(c) PROVE Bounded(r)
    <3>1. IsFiniteSet(DOMAIN m) /\ ~Full(m)
      BY <2>1, <2>2, <2>13, RoomOfOne DEF Bounded, Full
    <3>2. /\ IsFiniteSet(DOMAIN m \cup {k})
          /\ Cardinality(DOMAIN m \cup {k}) <= MAX_PENDING
      BY <3>1, RoomForOne
    <3> QED BY <3>2, <2>13, <2>5, <2>6, <2>11 DEF Bounded
  <2> QED BY <2>11, <2>12, <2>13 DEF r
<1>5. CASE /\ k \notin DOMAIN c.pendingResponses /\ k \notin DOMAIN c.pendingRequests
           /\ ~Full(c.pendingRequests)
  <2>1. r = ParkRequest(c, k, i)
    BY <1>5 DEF OnRequest, RoomForRequest
  <2> HIDE DEF k, r
  <2>2. /\ Good(r, evs) /\ Kept(c, r, evs) /\ r.status[i] # "n/a"
        /\ DOMAIN r.pendingRequests = DOMAIN c.pendingRequests \cup {k}
        /\ r.pendingResponses = c.pendingResponses
    BY <1>1, <1>5, <2>1, ParkRequestStep
  <2>3. Bounded(c) => Bounded(r)
    BY <1>5, <2>2, RoomForOne DEF Bounded
  <2> QED BY <2>2, <2>3 DEF r
<1> QED BY <1>2, <1>3, <1>4, <1>5

\* A fresh response with no request of its key waiting is parked.
LEMMA ParkResponseStep ==
  ASSUME NEW evs \in Seq(Event), NEW c, NEW b, NEW i, NEW k \in Key,
         Good(c, evs), Fresh(c, evs, i), IsCorrelation(b, evs),
         evs[i].kind = "response", KeyAt(evs, i) = k,
         k \notin DOMAIN c.pendingRequests,
         b.pairIdx = c.pairIdx, b.latencyMs = c.latencyMs,
         b.status = IF k \in DOMAIN c.pendingResponses
                    THEN Put(c.status, c.pendingResponses[k].idx, "orphan")
                    ELSE c.status,
         b.pendingRequests = c.pendingRequests,
         b.pendingResponses = c.pendingResponses
  PROVE  LET r == ParkResponse(b, k, i)
         IN  /\ Good(r, evs) /\ Kept(c, r, evs)
             /\ r.pendingRequests = c.pendingRequests
             /\ DOMAIN r.pendingResponses = DOMAIN c.pendingResponses \cup {k}
<1> DEFINE m == SetEntry(c.pendingResponses, k, i)
           r == ParkResponse(b, k, i)
<1>1. /\ IsCorrelation(c, evs) /\ i \in DOMAIN evs /\ "orphan" \in Status \ {"n/a"}
      /\ IsPendingMap(c.pendingResponses, evs)
  BY DEF Good, Fresh, Status, IsCorrelation
<1>2. IsPendingMap(m, evs) /\ DOMAIN m = DOMAIN c.pendingResponses \cup {k}
  <2>1. IsPendingMap(m, evs)
    BY <1>1, SetEntryType
  <2>2. DOMAIN m = DOMAIN c.pendingResponses \cup {k}
    BY DEF SetEntry, Put
  <2> QED BY <2>1, <2>2
<1>3. r = [b EXCEPT !.pendingResponses = m]
  BY DEF ParkResponse
<1> HIDE DEF m, r
<1>4. /\ IsCorrelation(r, evs)
      /\ r.pairIdx = b.pairIdx /\ r.latencyMs = b.latencyMs /\ r.status = b.status
      /\ r.pendingRequests = b.pendingRequests /\ r.pendingResponses = m
  BY <1>2, <1>3, PendingResponsesFields
<1>5. Good(r, evs)
  BY <1>4, ParkResponseGood DEF m
<1>6. Kept(c, r, evs)
  <2>1. CASE k \notin DOMAIN c.pendingResponses
    BY <2>1, <1>4 DEF Kept
  <2>2. CASE k \in DOMAIN c.pendingResponses
    <3> DEFINE old == c.pendingResponses[k].idx
    <3>1. old \in DOMAIN evs /\ c.status[old] = "n/a"
      BY <2>2, <1>1 DEF Good, Parked, IsPendingMap
    <3>2. r.status = Put(c.status, old, "orphan")
      BY <2>2, <1>4
    <3> HIDE DEF old
    <3> QED BY <3>1, <3>2, <1>1, <1>4, KeptByStatus
  <2> QED BY <2>1, <2>2
<1> QED BY <1>2, <1>4, <1>5, <1>6 DEF r

\* A response is taken, whatever waits.
LEMMA OnResponseGood ==
  ASSUME NEW evs \in Seq(Event), NEW c, NEW i,
         Good(c, evs), Fresh(c, evs, i), evs[i].kind = "response"
  PROVE  LET r == OnResponse(c, evs, i)
         IN  /\ Good(r, evs) /\ Kept(c, r, evs)
             /\ Bounded(c) => Bounded(r)
<1> DEFINE k == correlationKeyForResponse(evs[i])
           r == OnResponse(c, evs, i)
<1>1. /\ k \in Key /\ KeyAt(evs, i) = k /\ i \in DOMAIN evs
      /\ IsCorrelation(c, evs)
      /\ IsPendingMap(c.pendingRequests, evs) /\ IsPendingMap(c.pendingResponses, evs)
  BY KeyAtType DEF Fresh, KeyAt, Good, IsCorrelation
<1>2. CASE k \in DOMAIN c.pendingRequests
  <2> DEFINE req == c.pendingRequests[k].idx
             m == Without(c.pendingRequests, k)
             b == [c EXCEPT !.pendingRequests = m]
  <2>1. r = Pair(b, evs, req, i)
    BY <1>2 DEF OnResponse
  <2>2. IsPendingMap(m, evs) /\ DOMAIN m = DOMAIN c.pendingRequests \ {k}
    BY <1>1, WithoutType DEF Without
  <2>3. /\ req \in DOMAIN evs
        /\ evs[req].kind = "request" /\ KeyAt(evs, req) = k
        /\ c.status[req] = "pending"
    BY <1>1, <1>2 DEF Good, Waiting, IsPendingMap
  <2>4. c.pairIdx[req] = NoIdx
    BY <2>3 DEF Good, Matched
  <2> HIDE DEF k, m
  <2>5. /\ IsCorrelation(b, evs)
        /\ b.pairIdx = c.pairIdx /\ b.latencyMs = c.latencyMs /\ b.status = c.status
        /\ b.pendingRequests = m /\ b.pendingResponses = c.pendingResponses
    BY <1>1, <2>2, PendingRequestsFields
  <2> HIDE DEF b, r, req
  <2>6. PICK s \in {"ok", "error"} :
           /\ IsCorrelation(r, evs)
           /\ r.pairIdx = Put(Put(b.pairIdx, req, i), i, req)
           /\ r.latencyMs = Put(b.latencyMs, req, evs[i].ts - evs[req].ts)
           /\ r.status = Put(Put(b.status, req, s), i, s)
           /\ r.pendingRequests = b.pendingRequests
           /\ r.pendingResponses = b.pendingResponses
    BY <1>1, <2>1, <2>3, <2>5, PairFields
  <2>7. k \notin DOMAIN c.pendingResponses
    BY <1>2 DEF Good, NoneMissed
  <2>8. r.pendingResponses = Without(c.pendingResponses, k)
    BY <1>1, <2>5, <2>6, <2>7 DEF Without, IsPendingMap
  <2>9. \A j \in DOMAIN evs : (c.pairIdx[j] # NoIdx /\ KeyAt(evs, j) = k)
                                => j < i /\ j < req
    BY <1>1, <1>2 DEF Good, Later, Fresh, req
  <2>10. Pairs(c, r, evs, k, req, i)
    BY <1>1, <2>3, <2>4, <2>5, <2>6, <2>7, <2>8, <2>9 DEF Pairs, Fresh, m, req
  <2>11. Good(r, evs) /\ Kept(c, r, evs)
    BY <2>10, PairGood
  <2>12. ASSUME Bounded(c) PROVE Bounded(r)
    <3>1. IsFiniteSet(DOMAIN m) /\ Cardinality(DOMAIN m) <= MAX_PENDING
      BY <1>2, <2>2, <2>12, RoomOfOne DEF Bounded
    <3> QED BY <3>1, <2>5, <2>6, <2>12 DEF Bounded
  <2> QED BY <2>11, <2>12 DEF r
<1>3. CASE k \notin DOMAIN c.pendingRequests /\ k \in DOMAIN c.pendingResponses
  <2> DEFINE old == c.pendingResponses[k].idx
             b == SetStatus(c, old, "orphan")
  <2>1. old \in DOMAIN evs /\ "orphan" \in Status
    BY <1>1, <1>3 DEF IsPendingMap, Status
  <2>2. r = ParkResponse(b, k, i)
    BY <1>3 DEF OnResponse, RoomForResponse
  <2> HIDE DEF k, old
  <2>3. /\ IsCorrelation(b, evs)
        /\ b.pairIdx = c.pairIdx /\ b.latencyMs = c.latencyMs
        /\ b.status = Put(c.status, old, "orphan")
        /\ b.pendingRequests = c.pendingRequests
        /\ b.pendingResponses = c.pendingResponses
    BY <1>1, <2>1, SetStatusFields
  <2> HIDE DEF b, r
  <2>4. /\ Good(r, evs) /\ Kept(c, r, evs)
        /\ r.pendingRequests = c.pendingRequests
        /\ DOMAIN r.pendingResponses = DOMAIN c.pendingResponses \cup {k}
    BY <1>1, <1>3, <2>2, <2>3, ParkResponseStep DEF old
  <2>5. DOMAIN r.pendingResponses = DOMAIN c.pendingResponses
    BY <2>4, <1>3
  <2> QED BY <2>4, <2>5 DEF r, Bounded
<1>4. CASE /\ k \notin DOMAIN c.pendingRequests /\ k \notin DOMAIN c.pendingResponses
           /\ Full(c.pendingResponses)
  <2> DEFINE o == Oldest(c.pendingResponses)
             m == Without(c.pendingResponses, o)
             b == [c EXCEPT !.pendingResponses = m]
  <2>1. o \in DOMAIN c.pendingResponses
    BY <1>1, <1>4, FullIsNotEmpty, OldestIsKey
  <2>2. IsPendingMap(m, evs) /\ DOMAIN m = DOMAIN c.pendingResponses \ {o}
    BY <1>1, WithoutType DEF Without
  <2>3. r = ParkResponse(b, k, i)
    BY <1>4 DEF OnResponse, RoomForResponse
  <2> HIDE DEF k, o, m
  <2>4. /\ IsCorrelation(b, evs)
        /\ b.pairIdx = c.pairIdx /\ b.latencyMs = c.latencyMs /\ b.status = c.status
        /\ b.pendingRequests = c.pendingRequests /\ b.pendingResponses = m
    BY <1>1, <2>2, PendingResponsesFields
  <2> HIDE DEF b, r
  <2>5. Good(b, evs)
    BY <2>4, EvictResponseGood DEF m
  <2>6. Fresh(b, evs, i)
    BY <2>2, <2>4 DEF Fresh, m, Without
  <2>7. Kept(c, b, evs)
    BY <2>4 DEF Kept
  <2>8. k \notin DOMAIN b.pendingRequests /\ k \notin DOMAIN b.pendingResponses
    BY <1>4, <2>2, <2>4
  <2>9. /\ Good(r, evs) /\ Kept(b, r, evs)
        /\ r.pendingRequests = b.pendingRequests
        /\ DOMAIN r.pendingResponses = DOMAIN b.pendingResponses \cup {k}
    BY <1>1, <2>3, <2>4, <2>5, <2>6, <2>8, ParkResponseStep
  <2>10. Kept(c, r, evs)
    BY <2>7, <2>9, KeptTransitive
  <2>11. ASSUME Bounded(c) PROVE Bounded(r)
    <3>1. IsFiniteSet(DOMAIN m) /\ ~Full(m)
      BY <2>1, <2>2, <2>11, RoomOfOne DEF Bounded, Full
    <3>2. /\ IsFiniteSet(DOMAIN m \cup {k})
          /\ Cardinality(DOMAIN m \cup {k}) <= MAX_PENDING
      BY <3>1, RoomForOne
    <3> QED BY <3>2, <2>11, <2>4, <2>9 DEF Bounded
  <2> QED BY <2>9, <2>10, <2>11 DEF r
<1>5. CASE /\ k \notin DOMAIN c.pendingRequests /\ k \notin DOMAIN c.pendingResponses
           /\ ~Full(c.pendingResponses)
  <2>1. r = ParkResponse(c, k, i)
    BY <1>5 DEF OnResponse, RoomForResponse
  <2> HIDE DEF k, r
  <2>2. /\ Good(r, evs) /\ Kept(c, r, evs)
        /\ r.pendingRequests = c.pendingRequests
        /\ DOMAIN r.pendingResponses = DOMAIN c.pendingResponses \cup {k}
    BY <1>1, <1>5, <2>1, ParkResponseStep
  <2>3. Bounded(c) => Bounded(r)
    BY <1>5, <2>2, RoomForOne DEF Bounded
  <2> QED BY <2>2, <2>3 DEF r
<1> QED BY <1>2, <1>3, <1>4, <1>5

\* every request has a status
Marked(c, evs) ==
  \A i \in DOMAIN evs : evs[i].kind = "request" => c.status[i] # "n/a"

\* An event is appended.
LEMMA OnAppendGood ==
  ASSUME NEW evs \in Seq(Event), NEW ev \in Event, NEW c, Good(c, evs), Bounded(c)
  PROVE  LET e == Append(evs, ev)
             r == OnAppend(c, e, Len(evs) + 1)
         IN  /\ e \in Seq(Event) /\ Good(r, e) /\ Bounded(r) /\ Kept(c, r, evs)
             /\ Marked(c, evs) => Marked(r, e)
<1> DEFINE e == Append(evs, ev)
           i == Len(evs) + 1
           d == DefaultSlot(c, i)
           r == OnAppend(c, e, i)
<1>1. /\ Good(d, e) /\ Fresh(d, e, i) /\ Kept(c, d, evs)
      /\ d.pendingRequests = c.pendingRequests
      /\ d.pendingResponses = c.pendingResponses
  BY SlotGood
<1>2. /\ e \in Seq(Event) /\ DOMAIN e = DOMAIN evs \cup {i}
      /\ \A j \in DOMAIN evs : e[j] = evs[j]
  OBVIOUS
<1>3. e[i].kind \in {"request", "response", "other"}
  <2>1. e[i] \in Event
    OBVIOUS
  <2> QED BY <2>1 DEF Event, Request, Response, Other
<1>4. /\ e[i].kind = "request"  => r = OnRequest(d, e, i)
      /\ e[i].kind = "response" => r = OnResponse(d, e, i)
      /\ e[i].kind = "other"    => r = d
  BY DEF OnAppend
<1>5. Bounded(d)
  BY <1>1 DEF Bounded
<1> HIDE DEF e, i, d, r
<1>6. /\ Good(r, e) /\ Bounded(r) /\ Kept(d, r, e)
      /\ e[i].kind = "request" => r.status[i] # "n/a"
  <2>1. CASE e[i].kind = "request"
    BY <2>1, <1>1, <1>2, <1>4, <1>5, OnRequestGood
  <2>2. CASE e[i].kind = "response"
    BY <2>2, <1>1, <1>2, <1>4, <1>5, OnResponseGood
  <2>3. CASE e[i].kind = "other"
    BY <2>3, <1>1, <1>4, <1>5 DEF Kept
  <2> QED BY <2>1, <2>2, <2>3, <1>3
<1>7. Kept(d, r, evs)
  BY <1>2, <1>6 DEF Kept
<1>8. Kept(c, r, evs)
  BY <1>1, <1>7, KeptTransitive
<1>9. Marked(c, evs) => Marked(r, e)
  BY <1>2, <1>6, <1>8 DEF Marked, Kept
<1> QED BY <1>2, <1>6, <1>8, <1>9 DEF e, i, r

\* Requests that have waited too long are given up.
LEMMA FlushGood ==
  ASSUME NEW evs \in Seq(Event), NEW c, NEW now, Good(c, evs), Bounded(c)
  PROVE  LET r == FlushAt(c, evs, now)
         IN  /\ Good(r, evs) /\ Bounded(r) /\ Kept(c, r, evs)
             /\ Marked(c, evs) => Marked(r, evs)
<1> DEFINE r == FlushAt(c, evs, now)
           keys == Expired(c, evs, now)
           idxs == {c.pendingRequests[k].idx : k \in keys}
<1>1. /\ IsCorrelation(c, evs)
      /\ keys \subseteq DOMAIN c.pendingRequests
      /\ \A k \in DOMAIN c.pendingRequests : c.pendingRequests[k].idx \in DOMAIN evs
      /\ \A k \in DOMAIN c.pendingResponses : c.pendingResponses[k].idx \in DOMAIN evs
      /\ c.pairIdx \in [DOMAIN evs -> DOMAIN evs \cup {NoIdx}]
  BY DEF Good, IsCorrelation, IsPendingMap, Expired
<1>2. idxs \subseteq DOMAIN evs
  BY <1>1
<1>3. r = [f \in Fields |-> r[f]]
  BY <1>1 DEF IsCorrelation, FlushAt
<1>4. /\ r.pairIdx = c.pairIdx /\ r.latencyMs = c.latencyMs
      /\ r.status = [i \in DOMAIN c.status |-> IF i \in idxs THEN "unmatched" ELSE c.status[i]]
      /\ r.pendingRequests
           = [k \in DOMAIN c.pendingRequests \ keys |-> c.pendingRequests[k]]
      /\ r.pendingResponses = c.pendingResponses
      /\ r.changedIndexes = c.changedIndexes \cup idxs
  BY <1>1 DEF IsCorrelation, FlushAt, Fields
<1>5. \A i \in idxs : /\ c.status[i] = "pending" /\ c.pairIdx[i] = NoIdx
                      /\ evs[i].kind = "request" /\ KeyAt(evs, i) \in keys
                      /\ c.pendingRequests[KeyAt(evs, i)].idx = i
                      /\ \A j \in DOMAIN evs : c.pairIdx[j] # i
  <2>1. \A i \in idxs : /\ c.status[i] = "pending"
                        /\ evs[i].kind = "request" /\ KeyAt(evs, i) \in keys
                        /\ c.pendingRequests[KeyAt(evs, i)].idx = i
    BY <1>1 DEF Good, Waiting
  <2>2. \A i \in idxs : c.pairIdx[i] = NoIdx
    BY <2>1, <1>2 DEF Good, Matched
  <2>3. \A i \in idxs : \A j \in DOMAIN evs : c.pairIdx[j] # i
    BY <2>2, <1>1, <1>2 DEF Good, Matched, NoIdx
  <2> QED BY <2>1, <2>2, <2>3
<1>6. \A k \in DOMAIN c.pendingRequests \ keys : c.pendingRequests[k].idx \notin idxs
  BY <1>1, <1>5 DEF Good, Waiting
<1>7. \A k \in keys : c.pendingRequests[k].idx \in idxs
  OBVIOUS
<1> HIDE DEF r, keys, idxs
<1>8. /\ \A i \in DOMAIN evs \ idxs : r.status[i] = c.status[i]
      /\ \A i \in idxs : r.status[i] = "unmatched"
      /\ DOMAIN r.pendingRequests = DOMAIN c.pendingRequests \ keys
      /\ \A k \in DOMAIN r.pendingRequests : r.pendingRequests[k] = c.pendingRequests[k]
  BY <1>1, <1>2, <1>4 DEF IsCorrelation
<1>9. IsCorrelation(r, evs)
  <2>1. r.status \in [DOMAIN evs -> Status]
    BY <1>1, <1>4 DEF IsCorrelation, Status
  <2>2. IsPendingMap(r.pendingRequests, evs)
    <3>1. /\ c.pendingRequests
               \in [DOMAIN c.pendingRequests -> [idx : DOMAIN evs, at : DOMAIN evs]]
          /\ DOMAIN c.pendingRequests \subseteq Key
      BY <1>1 DEF IsCorrelation, IsPendingMap
    <3> DEFINE K == DOMAIN c.pendingRequests \ keys
    <3>2. /\ r.pendingRequests = [k \in K |-> c.pendingRequests[k]]
          /\ DOMAIN r.pendingRequests = K
      BY <1>4
    <3>3. r.pendingRequests \in [K -> [idx : DOMAIN evs, at : DOMAIN evs]]
      BY <3>1, <3>2
    <3>4. K \subseteq Key
      BY <3>1
    <3> QED BY <3>2, <3>3, <3>4 DEF IsPendingMap
  <2> QED BY <2>1, <2>2, <1>1, <1>2, <1>3, <1>4 DEF IsCorrelation
<1>10. Matched(r, evs)
  BY <1>1, <1>4, <1>5, <1>8 DEF Good, Matched
<1>11. Waiting(r, evs)
  <2>1. ASSUME NEW k \in DOMAIN r.pendingRequests
        PROVE  LET i == r.pendingRequests[k].idx
               IN  evs[i].kind = "request" /\ KeyAt(evs, i) = k /\ r.status[i] = "pending"
    BY <1>1, <1>6, <1>8 DEF Good, Waiting
  <2>2. ASSUME NEW i \in DOMAIN evs, r.status[i] = "pending"
        PROVE  /\ evs[i].kind = "request"
               /\ KeyAt(evs, i) \in DOMAIN r.pendingRequests
               /\ r.pendingRequests[KeyAt(evs, i)].idx = i
    <3>1. i \notin idxs /\ c.status[i] = "pending"
      BY <2>2, <1>8
    <3>2. /\ evs[i].kind = "request" /\ KeyAt(evs, i) \in DOMAIN c.pendingRequests
          /\ c.pendingRequests[KeyAt(evs, i)].idx = i
      BY <3>1 DEF Good, Waiting
    <3>3. KeyAt(evs, i) \notin keys
      BY <3>1, <3>2, <1>7
    <3> QED BY <3>2, <3>3, <1>8
  <2> QED BY <2>1, <2>2 DEF Waiting
<1>12. Parked(r, evs)
  BY <1>1, <1>4, <1>5, <1>8 DEF Good, Parked
<1>13. NoneMissed(r) /\ Later(r, evs) /\ Uncrossed(r, evs)
  BY <1>4, <1>8 DEF Good, NoneMissed, Later, Uncrossed
<1>14. Good(r, evs)
  BY <1>9, <1>10, <1>11, <1>12, <1>13 DEF Good
<1>15. Bounded(r)
  <2>1. DOMAIN r.pendingRequests \in SUBSET DOMAIN c.pendingRequests
    BY <1>8
  <2>2. /\ IsFiniteSet(DOMAIN r.pendingRequests)
        /\ Cardinality(DOMAIN r.pendingRequests) <= Cardinality(DOMAIN c.pendingRequests)
    BY <2>1, FS_Subset DEF Bounded
  <2>3. /\ Cardinality(DOMAIN r.pendingRequests) \in Nat
        /\ Cardinality(DOMAIN c.pendingRequests) \in Nat
    BY <2>2, FS_CardinalityType DEF Bounded
  <2> QED BY <2>2, <2>3, <1>4, MaxPendingAssumption DEF Bounded
<1>16. Kept(c, r, evs) /\ (Marked(c, evs) => Marked(r, evs))
  BY <1>4, <1>5, <1>8 DEF Kept, Marked
<1> QED BY <1>14, <1>15, <1>16 DEF r

\* The change set is emptied, and nothing else.
LEMMA DrainGood ==
  ASSUME NEW evs \in Seq(Event), NEW c, Good(c, evs), Bounded(c)
  PROVE  LET r == Drained(c)
         IN  /\ Good(r, evs) /\ Bounded(r) /\ Kept(c, r, evs)
             /\ Marked(c, evs) => Marked(r, evs)
<1> DEFINE r == Drained(c)
<1>1. IsCorrelation(c, evs)
  BY DEF Good
<1>2. r = [f \in Fields |-> r[f]]
  BY <1>1 DEF IsCorrelation, Drained
<1>3. /\ r.pairIdx = c.pairIdx /\ r.latencyMs = c.latencyMs /\ r.status = c.status
      /\ r.pendingRequests = c.pendingRequests
      /\ r.pendingResponses = c.pendingResponses
      /\ r.changedIndexes = {}
  BY <1>1 DEF IsCorrelation, Drained, Fields
<1> HIDE DEF r
<1>4. IsCorrelation(r, evs)
  BY <1>1, <1>2, <1>3 DEF IsCorrelation
<1>5. /\ Matched(r, evs) /\ Waiting(r, evs) /\ Parked(r, evs) /\ NoneMissed(r)
      /\ Later(r, evs) /\ Uncrossed(r, evs)
  BY <1>3 DEF Good, Matched, Waiting, Parked, NoneMissed, Later, Uncrossed
<1>6. Bounded(r) /\ Kept(c, r, evs) /\ (Marked(c, evs) => Marked(r, evs))
  BY <1>3 DEF Bounded, Kept, Marked
<1> QED BY <1>4, <1>5, <1>6 DEF Good, r

\* The empty correlator of the empty store.
LEMMA EmptyGood ==
  /\ <<>> \in Seq(Event) /\ Good(NoCorrelation, <<>>)
  /\ Bounded(NoCorrelation) /\ Marked(NoCorrelation, <<>>)
<1>1. DOMAIN <<>> = {}
  OBVIOUS
<1>2. /\ NoCorrelation.pairIdx = <<>> /\ NoCorrelation.latencyMs = <<>>
      /\ NoCorrelation.status = <<>>
      /\ NoCorrelation.pendingRequests = <<>> /\ NoCorrelation.pendingResponses = <<>>
      /\ NoCorrelation.changedIndexes = {}
      /\ NoCorrelation = [f \in Fields |-> NoCorrelation[f]]
  BY DEF NoCorrelation, Fields
<1>3. <<>> \in [{} -> {} \cup {NoIdx}] /\ <<>> \in [{} -> Int] /\ <<>> \in [{} -> Status]
  BY <1>1
<1>4. IsPendingMap(<<>>, <<>>)
  BY <1>1 DEF IsPendingMap
<1> HIDE DEF NoCorrelation
<1>5. IsCorrelation(NoCorrelation, <<>>)
  BY <1>1, <1>2, <1>3, <1>4 DEF IsCorrelation
<1>6. /\ Matched(NoCorrelation, <<>>) /\ Waiting(NoCorrelation, <<>>)
      /\ Parked(NoCorrelation, <<>>) /\ NoneMissed(NoCorrelation)
      /\ Later(NoCorrelation, <<>>) /\ Uncrossed(NoCorrelation, <<>>)
      /\ Marked(NoCorrelation, <<>>)
  BY <1>1, <1>2 DEF Matched, Waiting, Parked, NoneMissed, Later, Uncrossed, Marked
<1>7. Bounded(NoCorrelation)
  BY <1>1, <1>2, FS_EmptySet, MaxPendingAssumption DEF Bounded
<1> QED BY <1>5, <1>6, <1>7 DEF Good

-----------------------------------------------------------------------------
(* The theorems.                                                           *)

\* the inductive invariant of Spec
IInv == /\ events \in Seq(Event)
        /\ Good(cor, events)
        /\ Bounded(cor)
        /\ Marked(cor, events)

\* what a step does to the verdicts, unless it empties the store
VerdictStep == events' = <<>> \/ Kept(cor, cor', events)

LEMMA InitIInv == Init => IInv
BY EmptyGood DEF Init, IInv

LEMMA NextIInv ==
  ASSUME IInv, [Next]_corVars
  PROVE  IInv' /\ VerdictStep
<1> USE DEF IInv
<1>1. ASSUME NEW ev \in Event, append(ev)
      PROVE  IInv' /\ VerdictStep
  <2>1. /\ events' = Append(events, ev)
        /\ cor' = OnAppend(cor, Append(events, ev), Len(events) + 1)
    BY <1>1 DEF append
  <2> QED BY <2>1, OnAppendGood DEF VerdictStep
<1>2. ASSUME NEW now \in Time, flush(now)
      PROVE  IInv' /\ VerdictStep
  <2>1. cor' = FlushAt(cor, events, now) /\ events' = events
    BY <1>2 DEF flush
  <2> QED BY <2>1, FlushGood DEF VerdictStep
<1>3. CASE drainChangedIndexes
  <2>1. cor' = Drained(cor) /\ events' = events
    BY <1>3 DEF drainChangedIndexes
  <2> QED BY <2>1, DrainGood DEF VerdictStep
<1>4. CASE reset
  <2>1. cor' = NoCorrelation /\ events' = <<>>
    BY <1>4 DEF reset
  <2> QED BY <2>1, EmptyGood DEF VerdictStep
<1>5. CASE UNCHANGED corVars
  <2>1. cor' = cor /\ events' = events
    BY <1>5 DEF corVars
  <2> QED BY <2>1 DEF VerdictStep, Kept
<1> QED BY <1>1, <1>2, <1>3, <1>4, <1>5 DEF Next

\* IInv holds in every reachable state.
THEOREM Invariance == Spec => []IInv
<1>1. IInv /\ [Next]_corVars => IInv'
  BY NextIInv
<1> QED BY InitIInv, <1>1, PTL DEF Spec

\* Type correctness.
THEOREM TypeCorrect == Spec => []TypeOK
<1>1. IInv => TypeOK
  BY DEF IInv, Good, TypeOK
<1> QED BY Invariance, <1>1, PTL

\* The pairs are always a matching of requests with answers to them.
THEOREM MatchingCorrect == Spec => []PairingIsMatching
<1>1. ASSUME IInv PROVE PairingIsMatching
  <2> SUFFICES ASSUME NEW i \in Idx, Paired(i)
               PROVE  LET j == cor.pairIdx[i]
                      IN  /\ cor.pairIdx[j] = i
                          /\ {events[i].kind, events[j].kind} = {"request", "response"}
                          /\ events[i].id = events[j].id /\ events[i].dir # events[j].dir
                          /\ cor.status[i] = cor.status[j]
                          /\ cor.status[i] \in {"ok", "error"}
    BY DEF PairingIsMatching
  <2> DEFINE j == cor.pairIdx[i]
  <2>1. /\ i \in DOMAIN events /\ j \in DOMAIN events
        /\ cor.pairIdx[j] = i
        /\ \/ events[i].kind = "request" /\ events[j].kind = "response"
           \/ events[i].kind = "response" /\ events[j].kind = "request"
        /\ KeyAt(events, i) = KeyAt(events, j)
        /\ cor.status[i] = cor.status[j]
        /\ cor.status[i] \in {"ok", "error"}
    <3>1. i \in DOMAIN events /\ cor.pairIdx[i] # NoIdx
      BY DEF Idx, Paired
    <3>2. IsCorrelation(cor, events) /\ Matched(cor, events)
      BY <1>1 DEF IInv, Good
    <3>3. j \in DOMAIN events
      BY <3>1, <3>2 DEF IsCorrelation
    <3> QED BY <3>1, <3>2, <3>3 DEF Matched
  <2> HIDE DEF j
  <2>2. events[i] \in Event /\ events[j] \in Event
    BY <1>1, <2>1 DEF IInv
  <2>3. events[i].dir \in Dir /\ events[j].dir \in Dir
    BY <2>1, <2>2 DEF Event, Request, Response, Other
  <2>4. events[i].id = events[j].id /\ events[i].dir # events[j].dir
    BY <2>1, <2>3 DEF KeyAt, correlationKeyForRequest, correlationKeyForResponse,
                      Opposite, Dir
  <2> QED BY <2>1, <2>4 DEF j
<1> QED BY Invariance, <1>1, PTL

\* A request is pending exactly while the map waits for its answer.
THEOREM WaitingCorrect == Spec => []PendingIsWaiting
<1>1. ASSUME IInv PROVE PendingIsWaiting
  BY <1>1 DEF IInv, Good, Waiting, PendingIsWaiting, KeyOf, KeyAt, Idx, IsRequest
<1> QED BY Invariance, <1>1, PTL

\* Parked responses are unsettled, and none of them is awaited.
THEOREM ParkedCorrect == Spec => [](ParkedIsUnsettled /\ NoMissedPair)
<1>1. ASSUME IInv PROVE ParkedIsUnsettled /\ NoMissedPair
  BY <1>1 DEF IInv, Good, Parked, NoneMissed, ParkedIsUnsettled, NoMissedPair,
              KeyOf, KeyAt, IsResponse, Paired
<1> QED BY Invariance, <1>1, PTL

\* The matching misses no pair, and what is unsettled is what still waits.
THEOREM CompleteMatching == Spec => []MatchingIsComplete
  BY MatchingCorrect, WaitingCorrect, ParkedCorrect, PTL DEF MatchingIsComplete

\* The pending maps never outgrow MAX_PENDING.
THEOREM BoundCorrect == Spec => []PendingBounded
<1>1. IInv => PendingBounded
  BY DEF IInv, Bounded, PendingBounded
<1> QED BY Invariance, <1>1, PTL

\* The exchanges of a reused id do not cross.
THEOREM ExchangesCorrect == Spec => []ExchangesDoNotCross
<1>1. ASSUME IInv PROVE ExchangesDoNotCross
  BY <1>1 DEF IInv, Good, Uncrossed, ExchangesDoNotCross, KeyOf, KeyAt, Idx,
              IsRequest, Paired
<1> QED BY Invariance, <1>1, PTL

\* Verdicts are final until the log rotates.
THEOREM VerdictsCorrect == Spec => VerdictsAreFinal
<1>1. ASSUME IInv, [Next]_corVars, events' # <<>>, NEW i \in Idx
      PROVE  /\ Paired(i) => /\ cor'.pairIdx[i] = cor.pairIdx[i]
                             /\ cor'.latencyMs[i] = cor.latencyMs[i]
             /\ cor.status[i] \in {"ok", "error", "unmatched", "orphan"}
                  => cor'.status[i] = cor.status[i]
             /\ IsRequest(i) => cor'.status[i] # "n/a"
  <2>1. Kept(cor, cor', events)
    BY <1>1, NextIInv DEF VerdictStep
  <2>2. Marked(cor, events)
    BY <1>1 DEF IInv
  <2> QED BY <2>1, <2>2 DEF Kept, Marked, Idx, Paired, IsRequest
<1>2. IInv /\ [Next]_corVars =>
        [events' # <<>> => \A i \in Idx :
           /\ Paired(i) => /\ cor'.pairIdx[i] = cor.pairIdx[i]
                           /\ cor'.latencyMs[i] = cor.latencyMs[i]
           /\ cor.status[i] \in {"ok", "error", "unmatched", "orphan"}
                => cor'.status[i] = cor.status[i]
           /\ IsRequest(i) => cor'.status[i] # "n/a"]_corVars
  BY <1>1
<1> QED BY Invariance, <1>2, PTL DEF Spec, VerdictsAreFinal

=============================================================================
