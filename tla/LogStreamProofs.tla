--------------------------- MODULE LogStreamProofs ---------------------------
(***************************************************************************)
(* Theorems about LogStream, for any streams, limits and bounds.           *)
(***************************************************************************)
EXTENDS LogStream, FiniteSetTheorems, SequenceTheorems, WellFoundedInduction,
        NaturalsInduction, TLAPS

-----------------------------------------------------------------------------
(* Sums over a sequence.                                                   *)

\* A function on 1..n is a sequence.
LEMMA FunctionIsSeq ==
  ASSUME NEW S, NEW n \in Nat, NEW f \in [1..n -> S]
  PROVE  f \in Seq(S) /\ Len(f) = n
  OBVIOUS

\* A set of numbers has a least one.
LEMMA LeastNumber ==
  ASSUME NEW T, T \subseteq Nat, T # {}
  PROVE  \E n \in T : \A m \in T : n <= m
<1>1. PICK n \in T : \A m \in T : ~(<<m, n>> \in OpToRel(<, Nat))
  BY NatLessThanWellFounded, WFMin
<1>2. ASSUME NEW m \in T, m < n PROVE FALSE
  <2>1. <<m, n>> \in OpToRel(<, Nat)
    BY <1>2 DEF OpToRel
  <2> QED BY <1>1, <2>1
<1> QED BY <1>2

\* Functions that agree at 0 and, where they agree, one further, agree.
LEMMA SameUpTo ==
  ASSUME NEW k \in Nat, NEW f, NEW g, f[0] = g[0],
         \A n \in 1..k : f[n - 1] = g[n - 1] => f[n] = g[n]
  PROVE  f[k] = g[k]
<1> DEFINE T == {n \in 0..k : f[n] # g[n]}
<1>1. ASSUME T # {} PROVE FALSE
  <2>1. T \subseteq Nat
    OBVIOUS
  <2>2. PICK n \in T : \A m \in T : n <= m
    <3> HIDE DEF T
    <3> QED BY <1>1, <2>1, LeastNumber
  <2>3. n # 0 /\ n - 1 \in 0..k /\ n - 1 \notin T
    BY <2>2
  <2> QED BY <2>2, <2>3
<1> QED BY <1>1

\* r holds the sums of the first k weights
Sums(ws, r, k) == /\ r \in [0..k -> Nat]
                  /\ r[0] = 0
                  /\ \A n \in 1..k : r[n] = r[n - 1] + ws[n]

\* There are such sums, for every k.
LEMMA SumsExist ==
  ASSUME NEW ws \in Seq(Nat)
  PROVE  \E r : Sums(ws, r, Len(ws))
<1> DEFINE T == {k \in 0..Len(ws) : ~\E r : Sums(ws, r, k)}
<1>1. ASSUME T # {} PROVE FALSE
  <2>1. T \subseteq Nat
    OBVIOUS
  <2>2. PICK k \in T : \A m \in T : k <= m
    <3> HIDE DEF T
    <3> QED BY <1>1, <2>1, LeastNumber
  <2>3. Sums(ws, [i \in 0..0 |-> 0], 0)
    BY DEF Sums
  <2>4. k # 0
    BY <2>3
  <2>5. k - 1 \in 0..Len(ws) /\ k - 1 \notin T
    BY <2>2, <2>4
  <2>6. PICK r : Sums(ws, r, k - 1)
    BY <2>5
  <2>7. ws[k] \in Nat /\ k \in Nat
    BY <2>4
  <2>8. Sums(ws, [i \in 0..k |-> IF i = k THEN r[k - 1] + ws[k] ELSE r[i]], k)
    BY <2>4, <2>6, <2>7 DEF Sums
  <2> QED BY <2>2, <2>8
<1>2. Len(ws) \in 0..Len(ws)
  OBVIOUS
<1> QED BY <1>1, <1>2

\* The total is the last of them.
LEMMA TotalOfSums ==
  ASSUME NEW ws \in Seq(Nat), NEW r, Sums(ws, r, Len(ws))
  PROVE  Total(ws) = r[Len(ws)]
<1> DEFINE f == CHOOSE g : g = [n \in 0..Len(ws) |->
                                  IF n = 0 THEN 0 ELSE g[n - 1] + ws[n]]
<1>1. r = [n \in 0..Len(ws) |-> IF n = 0 THEN 0 ELSE r[n - 1] + ws[n]]
  BY DEF Sums
<1>2. f = [n \in 0..Len(ws) |-> IF n = 0 THEN 0 ELSE f[n - 1] + ws[n]]
  BY <1>1
<1>3. Total(ws) = f[Len(ws)]
  BY DEF Total
<1> HIDE DEF f
<1>4. Len(ws) \in Nat /\ f[0] = r[0]
  BY <1>2 DEF Sums
<1>5. \A n \in 1..Len(ws) : f[n] = f[n - 1] + ws[n] /\ r[n] = r[n - 1] + ws[n]
  BY <1>2, <1>4 DEF Sums
<1>6. \A n \in 1..Len(ws) : f[n - 1] = r[n - 1] => f[n] = r[n]
  BY <1>5
<1>7. f[Len(ws)] = r[Len(ws)]
  BY <1>4, <1>6, SameUpTo
<1> QED BY <1>3, <1>7

\* A total is a number, and that of a sequence is that of its parts.
LEMMA TotalType == ASSUME NEW ws \in Seq(Nat) PROVE Total(ws) \in Nat
  BY SumsExist, TotalOfSums DEF Sums

LEMMA TotalAppend ==
  ASSUME NEW ws \in Seq(Nat), NEW w \in Nat
  PROVE  Total(Append(ws, w)) = Total(ws) + w
<1> DEFINE k == Len(ws)
           all == Append(ws, w)
<1>1. PICK r : Sums(ws, r, k)
  BY SumsExist
<1> DEFINE s == [i \in 0..(k + 1) |-> IF i = k + 1 THEN r[k] + w ELSE r[i]]
<1>2. /\ all \in Seq(Nat) /\ Len(all) = k + 1 /\ k \in Nat
      /\ all[k + 1] = w /\ \A i \in 1..k : all[i] = ws[i]
  OBVIOUS
<1> HIDE DEF k, all
<1>3. Sums(all, s, k + 1)
  <2>1. s \in [0..(k + 1) -> Nat] /\ s[0] = 0
    BY <1>1, <1>2 DEF Sums
  <2>2. ASSUME NEW i \in 1..(k + 1) PROVE s[i] = s[i - 1] + all[i]
    BY <1>1, <1>2 DEF Sums
  <2> QED BY <2>1, <2>2 DEF Sums
<1>4. Total(all) = s[k + 1] /\ Total(ws) = r[k]
  BY <1>1, <1>2, <1>3, TotalOfSums DEF k
<1> QED BY <1>2, <1>4 DEF all

LEMMA TotalTail ==
  ASSUME NEW ws \in Seq(Nat), ws # <<>>
  PROVE  Total(ws) = Head(ws) + Total(Tail(ws))
<1> DEFINE k == Len(ws)
           rest == Tail(ws)
<1>1. PICK r : Sums(ws, r, k)
  BY SumsExist
<1>2. /\ rest \in Seq(Nat) /\ Len(rest) = k - 1 /\ k \in Nat \ {0}
      /\ Head(ws) = ws[1] /\ ws[1] \in Nat /\ \A i \in 1..(k - 1) : rest[i] = ws[i + 1]
      /\ \A i \in 1..k : ws[i] \in Nat
  OBVIOUS
<1> HIDE DEF k, rest
<1>3. \A i \in 1..k : r[i] >= ws[1]
  <2> DEFINE T == {i \in 1..k : ~(r[i] >= ws[1])}
  <2>1. ASSUME T # {} PROVE FALSE
    <3>1. T \subseteq Nat
      OBVIOUS
    <3>2. PICK i \in T : \A m \in T : i <= m
      <4> HIDE DEF T
      <4> QED BY <2>1, <3>1, LeastNumber
    <3>3. r[1] = ws[1]
      BY <1>1, <1>2 DEF Sums
    <3>4. i # 1 /\ i - 1 \in 1..k /\ i - 1 \notin T
      BY <1>2, <3>2, <3>3
    <3>5. r[i] = r[i - 1] + ws[i] /\ r[i - 1] \in Nat /\ ws[i] \in Nat
      BY <1>1, <1>2, <3>4 DEF Sums
    <3>6. r[i - 1] >= ws[1] /\ ws[1] \in Nat
      BY <1>2, <3>4
    <3>7. r[i] >= ws[1]
      BY <3>5, <3>6
    <3> QED BY <3>2, <3>7
  <2> QED BY <2>1
<1> DEFINE s == [i \in 0..(k - 1) |-> r[i + 1] - ws[1]]
<1>4. \A i \in 0..(k - 1) : i + 1 \in 1..k /\ r[i + 1] \in Nat /\ s[i] \in Nat
  BY <1>1, <1>2, <1>3 DEF Sums
<1>5. s[0] = 0
  BY <1>1, <1>2 DEF Sums
<1>6. ASSUME NEW i \in 1..(k - 1) PROVE s[i] = s[i - 1] + rest[i]
  <2>0. i + 1 \in 1..k /\ (i + 1) - 1 = i
    BY <1>2
  <2>1. r[i + 1] = r[i] + ws[i + 1] /\ rest[i] = ws[i + 1]
    BY <1>1, <1>2, <2>0 DEF Sums
  <2>2. i \in 0..k /\ i + 1 \in 1..k /\ i - 1 \in 0..(k - 1) /\ (i - 1) + 1 = i
    BY <1>2
  <2>3. r[i] \in Nat /\ ws[i + 1] \in Nat
    BY <1>1, <1>2, <2>2 DEF Sums
  <2>4. s[i] = r[i + 1] - ws[1] /\ s[i - 1] = r[i] - ws[1]
    BY <2>2
  <2> HIDE DEF s
  <2>5. ws[1] \in Nat
    BY <1>2
  <2> QED BY <2>1, <2>3, <2>4, <2>5
<1>7. Sums(rest, s, k - 1)
  BY <1>2, <1>4, <1>5, <1>6 DEF Sums
<1>8. Total(rest) = s[k - 1] /\ Total(ws) = r[k]
  BY <1>1, <1>2, <1>7, TotalOfSums DEF k
<1>9. s[k - 1] = r[k] - ws[1] /\ r[k] \in Nat
  BY <1>1, <1>2 DEF Sums
<1> QED BY <1>2, <1>8, <1>9 DEF rest

-----------------------------------------------------------------------------
(* The handler's local functions.                                          *)

\* the locals by name
Fields == DOMAIN Idle

\* a payload of the log, and a frame that carries one
Payload(p) ==
  \/ p.kind = "append" /\ p.from \in Nat /\ p.rows \in Seq(Rows)
  \/ p.kind = "patch"
  \/ p.kind = "load-progress" /\ p.phase \in Phase
  \/ p.kind \in {"rotation", "watch-error"}
OfLog(frame) ==
  /\ "payload" \in DOMAIN frame
  /\ Payload(frame.payload)
  /\ frame.rowCount \in Nat
Queued(q) == \E S : q \in Seq(S) /\ \A frame \in S : OfLog(frame)

\* the locals of a handler; a stream is ended as aborted only when it is
Locals(s) == /\ s = [f \in Fields |-> s[f]]
             /\ Queued(s.queue)
             /\ s.snap \in Seq(Rows) /\ s.snapPhase \in Phase /\ s.next \in Nat \ {0}
             /\ s.heartbeatDue \in BOOLEAN /\ s.endReason \in EndReason
             /\ s.aborted \in BOOLEAN
             /\ s.endReason = "abort" => s.aborted

\* the last words of a stream are written where it ends, and nowhere else
Word(s) == PayloadOf(s.writing).kind
Spoken(s) == /\ Word(s) = "log-reset" <=> s.pc = "log-reset"
             /\ Word(s) = "bye" <=> s.pc = "bye"
             /\ s.pc \in {"error", "log-reset", "bye"} => Ended(s)
             /\ Draining(s) => OfLog(s.writing)

\* what is queued or in flight is what is counted, within the limits
Bytes(q) == SumOf(byteLength, q)
RowsIn(q) == SumOf(rowCountOf, q)
InFlight(s) == IF Draining(s) THEN <<s.writing>> ELSE <<>>
Counts(s, inFlight) ==
  /\ s.pendingFrames = Len(s.queue) + Len(inFlight)
  /\ s.pendingBytes = Bytes(s.queue) + Bytes(inFlight)
  /\ s.pendingRows = RowsIn(s.queue) + RowsIn(inFlight)
  /\ ~exceedsLimits(s)


\* r goes on from s, to its last words if it has to end
GoesOn(s, r) == /\ Locals(r) /\ Spoken(r) /\ Counts(r, InFlight(r))
                /\ r.aborted = s.aborted /\ r.endReason = s.endReason
                /\ r.pc # "bye" /\ (r.pc = "closed" => s.aborted)

\* the snapshot and how far it has gone
SameSnap(s, r) == r.snap = s.snap /\ r.snapPhase = s.snapPhase /\ r.next = s.next

\* r is the handler s, suspended where it was
Stays(s, r) == /\ Locals(r)
               /\ r.pc = s.pc /\ r.writing = s.writing /\ r.aborted = s.aborted
               /\ SameSnap(s, r)
               /\ s.pc = "closed" => r = s
               /\ Counts(r, InFlight(s))

\* The fields by name.
LEMMA FieldsAre ==
  Fields = {"pc", "snap", "snapPhase", "next", "queue", "pendingBytes", "pendingFrames",
            "pendingRows", "heartbeatDue", "endReason", "aborted", "writing"}
  BY DEF Fields, Idle

\* A queue without its head, or with one more frame of the log.
LEMMA QueueChanges ==
  /\ Queued(<<>>)
  /\ \A q : Queued(q) /\ q # <<>> =>
       Queued(Tail(q)) /\ Queued(Front(q)) /\ OfLog(Head(q))
  /\ \A q, frame : Queued(q) /\ OfLog(frame) => Queued(Append(q, frame))
<1>1. Queued(<<>>)
  <2> DEFINE None == {}
  <2>1. <<>> \in Seq(None)
    OBVIOUS
  <2>2. \A frame \in None : OfLog(frame)
    OBVIOUS
  <2> HIDE DEF None
  <2> QED BY <2>1, <2>2 DEF Queued
<1>2. ASSUME NEW q, Queued(q), q # <<>>
      PROVE  Queued(Tail(q)) /\ Queued(Front(q)) /\ OfLog(Head(q))
  <2>1. PICK S : q \in Seq(S) /\ \A frame \in S : OfLog(frame)
    BY <1>2 DEF Queued
  <2>2. Tail(q) \in Seq(S) /\ Head(q) \in S
    BY <1>2, <2>1
  <2>3. Front(q) \in Seq(S)
    <3>1. Len(q) \in Nat /\ Len(q) - 1 \in Int /\ \A i \in 1..(Len(q) - 1) : q[i] \in S
      BY <1>2, <2>1
    <3> QED BY <3>1, SubSeqProperties DEF Front
  <2> QED BY <2>1, <2>2, <2>3 DEF Queued
<1>3. ASSUME NEW q, NEW frame, Queued(q), OfLog(frame)
      PROVE  Queued(Append(q, frame))
  <2>1. PICK S : q \in Seq(S) /\ \A f \in S : OfLog(f)
    BY <1>3 DEF Queued
  <2>2. q \in Seq(S \cup {frame})
    <3>1. S \subseteq S \cup {frame}
      OBVIOUS
    <3> QED BY <2>1, <3>1
  <2>3. Append(q, frame) \in Seq(S \cup {frame})
    BY <2>2
  <2>4. \A f \in S \cup {frame} : OfLog(f)
    BY <1>3, <2>1
  <2> QED BY <2>3, <2>4 DEF Queued
<1> QED BY <1>1, <1>2, <1>3

\* The weight of a sequence of frames, w being that of a frame.
Weight(w, q) == Total([n \in DOMAIN q |-> w[q[n]]])

LEMMA WeightOfParts ==
  ASSUME NEW S, NEW w \in [S -> Nat], NEW q \in Seq(S)
  PROVE  /\ Weight(w, q) \in Nat
         /\ q # <<>> => Weight(w, q) = w[Head(q)] + Weight(w, Tail(q))
         /\ \A f \in S : Weight(w, Append(q, f)) = Weight(w, q) + w[f]
<1> DEFINE Of(p) == [n \in DOMAIN p |-> w[p[n]]]
<1>1. ASSUME NEW p \in Seq(S) PROVE Of(p) \in Seq(Nat) /\ Len(Of(p)) = Len(p)
  <2>1. Len(p) \in Nat /\ Of(p) \in [1..Len(p) -> Nat]
    OBVIOUS
  <2> HIDE DEF Of
  <2> QED BY <2>1, FunctionIsSeq
<1>2. Weight(w, q) \in Nat
  BY <1>1, TotalType DEF Weight
<1>3. ASSUME q # <<>> PROVE Weight(w, q) = w[Head(q)] + Weight(w, Tail(q))
  <2>1. Tail(q) \in Seq(S) /\ Of(q) # <<>>
    BY <1>1, <1>3
  <2>2. Of(Tail(q)) = Tail(Of(q)) /\ Head(Of(q)) = w[Head(q)]
    <3>1. Len(Of(Tail(q))) = Len(q) - 1 /\ Len(Tail(Of(q))) = Len(q) - 1
      BY <1>1, <1>3, <2>1
    <3>2. \A n \in 1..(Len(q) - 1) : Of(Tail(q))[n] = Tail(Of(q))[n]
      BY <1>1, <1>3, <2>1
    <3>3. Of(Tail(q)) \in Seq(Nat) /\ Tail(Of(q)) \in Seq(Nat)
      BY <1>1, <2>1
    <3>4. Head(Of(q)) = w[Head(q)]
      BY <1>1, <1>3
    <3> QED BY <3>1, <3>2, <3>3, <3>4, SeqEqual
  <2> QED BY <1>1, <2>1, <2>2, TotalTail DEF Weight
<1>4. ASSUME NEW f \in S PROVE Weight(w, Append(q, f)) = Weight(w, q) + w[f]
  <2>1. Of(Append(q, f)) = Append(Of(q), w[f])
    <3>1. Append(q, f) \in Seq(S) /\ w[f] \in Nat
      OBVIOUS
    <3>2. /\ Len(Of(Append(q, f))) = Len(q) + 1 /\ Len(Append(Of(q), w[f])) = Len(q) + 1
      BY <1>1, <3>1
    <3>3. \A n \in 1..(Len(q) + 1) : Of(Append(q, f))[n] = Append(Of(q), w[f])[n]
      BY <1>1, <3>1
    <3>4. Of(Append(q, f)) \in Seq(Nat) /\ Append(Of(q), w[f]) \in Seq(Nat)
      BY <1>1, <3>1
    <3> QED BY <3>2, <3>3, <3>4, SeqEqual
  <2> QED BY <1>1, <2>1, TotalAppend DEF Weight
<1> QED BY <1>2, <1>3, <1>4

\* What a queue weighs, and what it does without its head or with one more.
Weighs(q, frames, bytes, rowCount) ==
  Len(q) = frames /\ Bytes(q) = bytes /\ RowsIn(q) = rowCount

LEMMA QueueWeights ==
  /\ Weighs(<<>>, 0, 0, 0)
  /\ \A q : Queued(q) =>
       /\ Len(q) \in Nat /\ Bytes(q) \in Nat /\ RowsIn(q) \in Nat
       /\ q # <<>> => Weighs(Tail(q), Len(q) - 1, Bytes(q) - byteLength(Head(q)),
                             RowsIn(q) - Head(q).rowCount)
       /\ q # <<>> => Weighs(Front(q), Len(q) - 1, Bytes(q) - byteLength(Last(q)),
                             RowsIn(q) - Last(q).rowCount) /\ OfLog(Last(q))
       /\ \A f : OfLog(f) => Weighs(Append(q, f), Len(q) + 1, Bytes(q) + byteLength(f),
                                    RowsIn(q) + f.rowCount)
<1>1. Weighs(<<>>, 0, 0, 0)
  <2>1. \A w : [n \in DOMAIN <<>> |-> w[n]] = <<>>
    OBVIOUS
  <2>2. Total(<<>>) = 0
    <3>1. <<>> \in Seq(Nat) /\ Sums(<<>>, [i \in 0..0 |-> 0], 0)
      BY DEF Sums
    <3> QED BY <3>1, TotalOfSums
  <2>3. Bytes(<<>>) = 0 /\ RowsIn(<<>>) = 0
    BY <2>2 DEF Bytes, RowsIn, SumOf
  <2> QED BY <2>3 DEF Weighs
<1>2. ASSUME NEW q, Queued(q)
      PROVE  /\ Len(q) \in Nat /\ Bytes(q) \in Nat /\ RowsIn(q) \in Nat
             /\ q # <<>> => Weighs(Tail(q), Len(q) - 1, Bytes(q) - byteLength(Head(q)),
                                   RowsIn(q) - Head(q).rowCount)
             /\ q # <<>> => Weighs(Front(q), Len(q) - 1, Bytes(q) - byteLength(Last(q)),
                                   RowsIn(q) - Last(q).rowCount) /\ OfLog(Last(q))
             /\ \A f : OfLog(f) => Weighs(Append(q, f), Len(q) + 1, Bytes(q) + byteLength(f),
                                          RowsIn(q) + f.rowCount)
  <2>1. PICK S : q \in Seq(S) /\ \A f \in S : OfLog(f)
    BY <1>2 DEF Queued
  <2>2. ASSUME NEW U, \A f \in U : OfLog(f), NEW p \in Seq(U)
        PROVE  /\ [f \in U |-> byteLength(f)] \in [U -> Nat]
               /\ [f \in U |-> f.rowCount] \in [U -> Nat]
               /\ Bytes(p) = Weight([f \in U |-> byteLength(f)], p)
               /\ RowsIn(p) = Weight([f \in U |-> f.rowCount], p)
               /\ Bytes(p) \in Nat /\ RowsIn(p) \in Nat
    <3>1. \A n \in DOMAIN p : p[n] \in U
      OBVIOUS
    <3>2. \A f \in U : byteLength(f) \in Nat /\ f.rowCount \in Nat
      BY <2>2 DEF OfLog, byteLength, HeaderBytes
    <3> DEFINE w == [f \in U |-> byteLength(f)]
               u == [f \in U |-> f.rowCount]
    <3>3. w \in [U -> Nat] /\ u \in [U -> Nat]
      BY <3>2
    <3>4. Bytes(p) = Weight(w, p) /\ RowsIn(p) = Weight(u, p)
      BY <3>1 DEF Bytes, RowsIn, SumOf, Weight, rowCountOf
    <3>5. Weight(w, p) \in Nat /\ Weight(u, p) \in Nat
      <4> HIDE DEF w, u
      <4> QED BY <3>3, WeightOfParts
    <3> QED BY <3>3, <3>4, <3>5
  <2>3. Len(q) \in Nat /\ Bytes(q) \in Nat /\ RowsIn(q) \in Nat
    <3>1. Len(q) \in Nat
      BY <2>1
    <3> QED BY <2>1, <2>2, <3>1
  <2>4. ASSUME NEW p, Queued(p), NEW f, OfLog(f)
        PROVE  Weighs(Append(p, f), Len(p) + 1, Bytes(p) + byteLength(f),
                      RowsIn(p) + f.rowCount)
    <3>1. PICK V : p \in Seq(V) /\ \A g \in V : OfLog(g)
      BY <2>4 DEF Queued
    <3> DEFINE U == V \cup {f}
    <3>2. /\ f \in U /\ \A g \in U : OfLog(g)
          /\ p \in Seq(U) /\ Append(p, f) \in Seq(U) /\ Len(Append(p, f)) = Len(p) + 1
      <4>1. V \subseteq U
        OBVIOUS
      <4> QED BY <2>4, <3>1, <4>1
    <3> HIDE DEF U
    <3> DEFINE w == [g \in U |-> byteLength(g)]
               u == [g \in U |-> g.rowCount]
    <3>3. /\ w \in [U -> Nat] /\ u \in [U -> Nat]
          /\ w[f] = byteLength(f) /\ u[f] = f.rowCount
          /\ Bytes(p) = Weight(w, p) /\ RowsIn(p) = Weight(u, p)
          /\ Bytes(Append(p, f)) = Weight(w, Append(p, f))
          /\ RowsIn(Append(p, f)) = Weight(u, Append(p, f))
      BY <2>2, <3>2
    <3> HIDE DEF w, u
    <3>4. Weight(w, Append(p, f)) = Weight(w, p) + w[f]
      BY <3>2, <3>3, WeightOfParts
    <3>5. Weight(u, Append(p, f)) = Weight(u, p) + u[f]
      BY <3>2, <3>3, WeightOfParts
    <3> QED BY <3>2, <3>3, <3>4, <3>5 DEF Weighs
  <2>5. ASSUME q # <<>>
        PROVE  Weighs(Tail(q), Len(q) - 1, Bytes(q) - byteLength(Head(q)),
                      RowsIn(q) - Head(q).rowCount)
    <3> DEFINE w == [g \in S |-> byteLength(g)]
               u == [g \in S |-> g.rowCount]
    <3>1. Tail(q) \in Seq(S) /\ Head(q) \in S /\ Len(Tail(q)) = Len(q) - 1
      BY <2>1, <2>5
    <3>2. /\ w \in [S -> Nat] /\ u \in [S -> Nat]
          /\ w[Head(q)] = byteLength(Head(q)) /\ u[Head(q)] = Head(q).rowCount
          /\ Bytes(q) = Weight(w, q) /\ RowsIn(q) = Weight(u, q)
          /\ Bytes(Tail(q)) = Weight(w, Tail(q)) /\ RowsIn(Tail(q)) = Weight(u, Tail(q))
      BY <2>1, <2>2, <3>1
    <3> HIDE DEF w, u
    <3>3. Weight(w, Tail(q)) \in Nat /\ Weight(u, Tail(q)) \in Nat /\ w[Head(q)] \in Nat
          /\ u[Head(q)] \in Nat
      BY <3>1, <3>2, WeightOfParts
    <3>4. /\ Weight(w, q) = w[Head(q)] + Weight(w, Tail(q))
          /\ Weight(u, q) = u[Head(q)] + Weight(u, Tail(q))
      BY <2>1, <2>5, <3>2, WeightOfParts
    <3> QED BY <3>1, <3>2, <3>3, <3>4 DEF Weighs
  <2>6. ASSUME q # <<>>
        PROVE  Weighs(Front(q), Len(q) - 1, Bytes(q) - byteLength(Last(q)),
                      RowsIn(q) - Last(q).rowCount) /\ OfLog(Last(q))
    <3>1. Queued(Front(q))
      BY <1>2, <2>6, QueueChanges
    <3>2. Len(q) \in Nat \ {0} /\ OfLog(Last(q))
      BY <2>1, <2>6 DEF Last
    <3>3. q = Append(Front(q), Last(q))
      <4>1. Len(q) - 1 \in Int /\ \A i \in 1..(Len(q) - 1) : q[i] \in S
        BY <2>1, <3>2
      <4>2. /\ Front(q) \in Seq(S) /\ Len(Front(q)) = Len(q) - 1 /\ Last(q) \in S
            /\ \A i \in 1..(Len(q) - 1) : Front(q)[i] = q[i]
        <5> DEFINE n == Len(q) - 1
        <5>1. n \in Nat /\ n \in Int /\ 1 \in Int /\ Last(q) \in S
          BY <2>1, <3>2 DEF Last
        <5>2. \A i \in 1..n : q[i] \in S
          BY <4>1
        <5> HIDE DEF n
        <5>3. /\ SubSeq(q, 1, n) \in Seq(S)
              /\ Len(SubSeq(q, 1, n)) = IF 1 <= n THEN n - 1 + 1 ELSE 0
              /\ \A i \in 1..(n - 1 + 1) : SubSeq(q, 1, n)[i] = q[1 + i - 1]
          BY <5>1, <5>2, SubSeqProperties
        <5>4. /\ SubSeq(q, 1, n) \in Seq(S) /\ Len(SubSeq(q, 1, n)) = n
              /\ \A i \in 1..n : SubSeq(q, 1, n)[i] = q[i]
          BY <5>1, <5>3
        <5> QED BY <5>1, <5>4 DEF Front, n
      <4>3. /\ Append(Front(q), Last(q)) \in Seq(S) /\ Len(Append(Front(q), Last(q))) = Len(q)
            /\ \A i \in 1..Len(q) : Append(Front(q), Last(q))[i] = q[i]
        BY <3>2, <4>2 DEF Last
      <4> QED BY <2>1, <4>3, SeqEqual
    <3>4. /\ Len(q) = Len(Front(q)) + 1
          /\ Bytes(q) = Bytes(Front(q)) + byteLength(Last(q))
          /\ RowsIn(q) = RowsIn(Front(q)) + Last(q).rowCount
      BY <2>4, <3>1, <3>2, <3>3 DEF Weighs
    <3>5. Len(Front(q)) \in Nat /\ Bytes(Front(q)) \in Nat /\ RowsIn(Front(q)) \in Nat
      <4>1. PICK V : Front(q) \in Seq(V) /\ \A g \in V : OfLog(g)
        BY <3>1 DEF Queued
      <4>2. Bytes(Front(q)) \in Nat /\ RowsIn(Front(q)) \in Nat
        BY <2>2, <4>1
      <4>3. Len(Front(q)) \in Nat
        BY <4>1
      <4> QED BY <4>2, <4>3
    <3>6. byteLength(Last(q)) \in Nat /\ Last(q).rowCount \in Nat
      BY <3>2 DEF OfLog, byteLength, HeaderBytes
    <3> QED BY <3>2, <3>4, <3>5, <3>6 DEF Weighs
  <2> QED BY <1>2, <2>3, <2>4, <2>5, <2>6
<1> QED BY <1>1, <1>2

LEMMA OneWeighs ==
  ASSUME NEW f, OfLog(f)
  PROVE  Weighs(<<f>>, 1, byteLength(f), f.rowCount)
<1>1. Append(<<>>, f) = <<f>> /\ Queued(<<>>)
  BY QueueChanges
<1>2. Weighs(Append(<<>>, f), Len(<<>>) + 1, Bytes(<<>>) + byteLength(f),
             RowsIn(<<>>) + f.rowCount) /\ Weighs(<<>>, 0, 0, 0)
  BY <1>1, QueueWeights
<1>3. byteLength(f) \in Nat /\ f.rowCount \in Nat
  BY DEF OfLog, byteLength, HeaderBytes
<1> QED BY <1>1, <1>2, <1>3 DEF Weighs

\* What a handler has in flight is one frame or none.
LEMMA FlightIsQueued ==
  ASSUME NEW s, Spoken(s)
  PROVE  Queued(InFlight(s)) /\ Queued(<<>>)
<1>1. \A f : Append(<<>>, f) = <<f>>
  OBVIOUS
<1> QED BY <1>1, QueueChanges DEF InFlight, Spoken

\* Merged or not, what is queued is a frame of the log.
LEMMA ReplacementIsOfLog ==
  ASSUME NEW last, OfLog(last), NEW payload, Payload(payload),
         payloadRowCount(payload) \in Nat, Mergeable(last.payload, payload)
  PROVE  OfLog(Replacement(last, payload))
<1> DEFINE merged == coalescePayloads(last.payload, payload)
<1>1. Payload(merged)
  BY DEF OfLog, Payload, Mergeable, SameKind, coalescePayloads, AppendFrame, PatchFrame
<1>2. Replacement(last, payload) =
        [payload |-> merged,
         rowCount |-> IF payload.kind = "load-progress" THEN 0
                      ELSE last.rowCount + payloadRowCount(payload),
         coalesced |-> TRUE]
  BY DEF Replacement
<1> HIDE DEF merged
<1> QED BY <1>1, <1>2 DEF OfLog

\* The queue is emptied and its frames are written off; nothing else changes.
LEMMA ClearStays ==
  ASSUME NEW s, Locals(s), NEW inFlight, Queued(inFlight), Counts(s, inFlight)
  PROVE  LET r == clearQueuedFrames(s)
         IN  /\ Locals(r) /\ r.pc = s.pc /\ r.writing = s.writing
             /\ r.aborted = s.aborted /\ r.endReason = s.endReason
             /\ r.queue = <<>> /\ SameSnap(s, r) /\ Counts(r, inFlight)
<1> DEFINE r == clearQueuedFrames(s)
<1>1. /\ Locals(r) /\ r.pc = s.pc /\ r.writing = s.writing
      /\ r.aborted = s.aborted /\ r.endReason = s.endReason /\ r.queue = <<>>
      /\ SameSnap(s, r)
  BY FieldsAre, QueueChanges DEF Locals, clearQueuedFrames, SameSnap
<1>2. /\ r.pendingBytes = s.pendingBytes - Bytes(s.queue)
      /\ r.pendingFrames = s.pendingFrames - Len(s.queue)
      /\ r.pendingRows = s.pendingRows - RowsIn(s.queue)
  BY FieldsAre DEF Locals, clearQueuedFrames, Bytes, RowsIn
<1> HIDE DEF r
<1>3. /\ Len(s.queue) \in Nat /\ Bytes(s.queue) \in Nat /\ RowsIn(s.queue) \in Nat
      /\ Len(inFlight) \in Nat /\ Bytes(inFlight) \in Nat /\ RowsIn(inFlight) \in Nat
  BY QueueWeights DEF Locals
<1>4. Len(<<>>) = 0 /\ Bytes(<<>>) = 0 /\ RowsIn(<<>>) = 0
  BY QueueWeights DEF Weighs
<1>5. /\ r.pendingBytes = Bytes(inFlight) /\ r.pendingFrames = Len(inFlight)
      /\ r.pendingRows = RowsIn(inFlight)
  BY <1>2, <1>3 DEF Counts
<1>6. ~exceedsLimits(r)
  <2>1. /\ s.pendingBytes = Bytes(s.queue) + Bytes(inFlight)
        /\ s.pendingFrames = Len(s.queue) + Len(inFlight)
        /\ s.pendingRows = RowsIn(s.queue) + RowsIn(inFlight)
        /\ ~exceedsLimits(s)
    BY DEF Counts
  <2>2. /\ s.pendingBytes \in Nat /\ r.pendingBytes \in Nat
        /\ r.pendingBytes <= s.pendingBytes
        /\ s.pendingFrames \in Nat /\ r.pendingFrames \in Nat
        /\ r.pendingFrames <= s.pendingFrames
        /\ s.pendingRows \in Nat /\ r.pendingRows \in Nat
        /\ r.pendingRows <= s.pendingRows
    BY <1>3, <1>5, <2>1
  <2>3. maxBytes \in Nat /\ maxFrames \in Nat /\ maxRows \in Nat
    BY LimitsAssumption
  <2> QED BY <2>1, <2>2, <2>3 DEF exceedsLimits
<1>7. Counts(r, inFlight)
  <2>1. Len(r.queue) = 0 /\ Bytes(r.queue) = 0 /\ RowsIn(r.queue) = 0
    BY <1>1, <1>4
  <2> QED BY <1>3, <1>5, <1>6, <2>1 DEF Counts
<1> QED BY <1>1, <1>7 DEF r

\* A stream that is to end stays where it is until its await returns.
LEMMA RequestEndStays ==
  ASSUME NEW s, Locals(s), Spoken(s), Counts(s, InFlight(s)),
         NEW reason \in {"overflow", "reset"}
  PROVE  LET r == requestEnd(s, reason)
         IN  Stays(s, r) /\ (s.pc # "closed" => Ended(r))
<1>1. CASE s.pc = "closed" \/ s.endReason # "none"
  BY <1>1 DEF requestEnd, Stays, Ended, SameSnap
<1>2. CASE ~(s.pc = "closed" \/ s.endReason # "none")
  <2> DEFINE t == clearQueuedFrames(s)
             r == [t EXCEPT !.endReason = reason]
  <2>1. /\ Locals(t) /\ t.pc = s.pc /\ t.writing = s.writing
        /\ t.aborted = s.aborted /\ t.endReason = s.endReason
        /\ t.queue = <<>> /\ SameSnap(s, t) /\ Counts(t, InFlight(s))
    BY ClearStays, FlightIsQueued
  <2>2. requestEnd(s, reason) = r
    BY <1>2 DEF requestEnd
  <2> HIDE DEF t
  <2>3. /\ Locals(r) /\ r.pc = t.pc /\ r.writing = t.writing /\ r.aborted = t.aborted
        /\ r.endReason = reason /\ SameSnap(t, r)
        /\ r.queue = t.queue /\ r.pendingFrames = t.pendingFrames
        /\ r.pendingBytes = t.pendingBytes /\ r.pendingRows = t.pendingRows
    BY <2>1, FieldsAre DEF Locals, EndReason, SameSnap
  <2> HIDE DEF r
  <2>4. Counts(r, InFlight(s)) /\ Ended(r)
    BY <2>1, <2>3 DEF Counts, exceedsLimits, Ended
  <2> QED BY <1>2, <2>1, <2>2, <2>3, <2>4 DEF Stays, SameSnap
<1> QED BY <1>1, <1>2

\* So does one that hears a frame, whether it is queued, merged or too much:
\* q is the queue of s with the frame merged into its last, or with one more
Queues(s, payload, q) ==
  \/ q = Append(s.queue, makeQueuedFrame(payload))
  \/ /\ s.queue # <<>> /\ Mergeable(Last(s.queue).payload, payload)
     /\ q = Append(Front(s.queue), Replacement(Last(s.queue), payload))

\* r differs from s in the queue and what is counted
QueueOnly(s, r) == r = [s EXCEPT !.queue = r.queue, !.pendingBytes = r.pendingBytes,
                                 !.pendingFrames = r.pendingFrames,
                                 !.pendingRows = r.pendingRows]

LEMMA PushedStays ==
  ASSUME NEW s, Locals(s), Spoken(s), Counts(s, InFlight(s)), s.pc # "closed",
         NEW payload, Payload(payload), payloadRowCount(payload) \in Nat,
         ~exceedsLimits(Pushed(s, payload))
  PROVE  LET r == Pushed(s, payload)
         IN  /\ Stays(s, r) /\ r.endReason = s.endReason
             /\ QueueOnly(s, r)
             /\ r.queue = Append(s.queue, makeQueuedFrame(payload))
<1> DEFINE f == makeQueuedFrame(payload)
           r == Pushed(s, payload)
<1>1. OfLog(f) /\ f.rowCount \in Nat /\ byteLength(f) \in Nat
  BY DEF OfLog, makeQueuedFrame, byteLength, HeaderBytes
<1>2. Queued(Append(s.queue, f))
  BY <1>1, QueueChanges DEF Locals
<1>3. /\ r = [s EXCEPT !.queue = Append(@, f), !.pendingBytes = @ + byteLength(f),
                       !.pendingFrames = @ + 1, !.pendingRows = @ + f.rowCount]
  BY DEF Pushed
<1> HIDE DEF f
<1>4. /\ QueueOnly(s, r)
      /\ Locals(r) /\ r.pc = s.pc /\ r.writing = s.writing /\ r.aborted = s.aborted
      /\ SameSnap(s, r)
      /\ r.endReason = s.endReason /\ r.queue = Append(s.queue, f)
      /\ r.pendingBytes = s.pendingBytes + byteLength(f)
      /\ r.pendingFrames = s.pendingFrames + 1
      /\ r.pendingRows = s.pendingRows + f.rowCount
  BY <1>2, <1>3, FieldsAre DEF Locals, QueueOnly, SameSnap
<1>. ~exceedsLimits(r)
  OBVIOUS
<1> HIDE DEF r
<1>5. /\ Len(r.queue) = Len(s.queue) + 1 /\ Bytes(r.queue) = Bytes(s.queue) + byteLength(f)
      /\ RowsIn(r.queue) = RowsIn(s.queue) + f.rowCount
  <2>1. Weighs(Append(s.queue, f), Len(s.queue) + 1, Bytes(s.queue) + byteLength(f),
               RowsIn(s.queue) + f.rowCount)
    BY <1>1, QueueWeights DEF Locals
  <2> QED BY <1>4, <2>1 DEF Weighs
<1>6. /\ Len(s.queue) \in Nat /\ Bytes(s.queue) \in Nat /\ RowsIn(s.queue) \in Nat
      /\ Len(InFlight(s)) \in Nat /\ Bytes(InFlight(s)) \in Nat /\ RowsIn(InFlight(s)) \in Nat
  BY FlightIsQueued, QueueWeights DEF Locals
<1>7. Counts(r, InFlight(s))
  <2>1. /\ s.pendingFrames = Len(s.queue) + Len(InFlight(s))
        /\ s.pendingBytes = Bytes(s.queue) + Bytes(InFlight(s))
        /\ s.pendingRows = RowsIn(s.queue) + RowsIn(InFlight(s))
    BY DEF Counts
  <2>2. byteLength(f) \in Nat /\ f.rowCount \in Nat
    BY <1>1 DEF OfLog, byteLength, HeaderBytes
  <2> DEFINE n == f.rowCount
  <2> HIDE DEF n
  <2>3. /\ r.pendingFrames = Len(r.queue) + Len(InFlight(s))
        /\ r.pendingBytes = Bytes(r.queue) + Bytes(InFlight(s))
    BY <1>4, <1>5, <1>6, <2>1, <2>2
  <2>4. r.pendingRows = s.pendingRows + n /\ RowsIn(r.queue) = RowsIn(s.queue) + n /\ n \in Nat
    BY <1>4, <1>5, <2>2 DEF n
  <2>5. r.pendingRows = RowsIn(r.queue) + RowsIn(InFlight(s))
    BY <1>6, <2>1, <2>4
  <2> QED BY <2>3, <2>5 DEF Counts
<1> QED BY <1>4, <1>7 DEF Stays, r, f

LEMMA MergedStays ==
  ASSUME NEW s, Locals(s), Spoken(s), Counts(s, InFlight(s)), s.pc # "closed",
         NEW payload, Payload(payload), payloadRowCount(payload) \in Nat,
         s.queue # <<>>, Mergeable(Last(s.queue).payload, payload),
         ~exceedsLimits(Merged(s, payload))
  PROVE  LET r == Merged(s, payload)
         IN  /\ Stays(s, r) /\ r.endReason = s.endReason
             /\ QueueOnly(s, r)
             /\ r.queue = Append(Front(s.queue), Replacement(Last(s.queue), payload))
<1> DEFINE last == Last(s.queue)
           f == Replacement(last, payload)
           kept == Front(s.queue)
           r == Merged(s, payload)
<1>1. /\ Weighs(kept, Len(s.queue) - 1, Bytes(s.queue) - byteLength(last),
                RowsIn(s.queue) - last.rowCount)
      /\ OfLog(last) /\ Queued(kept)
  BY QueueWeights, QueueChanges DEF Locals
<1>2. OfLog(f) /\ Queued(Append(kept, f))
  BY <1>1, ReplacementIsOfLog, QueueChanges
<1>3. r = [s EXCEPT !.queue = Append(kept, f),
                    !.pendingBytes = @ - byteLength(last) + byteLength(f),
                    !.pendingRows = @ - last.rowCount + f.rowCount]
  BY FieldsAre DEF Merged, Locals
<1>. ~exceedsLimits(r)
  OBVIOUS
<1> HIDE DEF f, last, kept, r
<1>4. /\ QueueOnly(s, r)
      /\ Locals(r) /\ r.pc = s.pc /\ r.writing = s.writing /\ r.aborted = s.aborted
      /\ SameSnap(s, r)
      /\ r.endReason = s.endReason /\ r.queue = Append(kept, f)
      /\ r.pendingBytes = s.pendingBytes - byteLength(last) + byteLength(f)
      /\ r.pendingFrames = s.pendingFrames
      /\ r.pendingRows = s.pendingRows - last.rowCount + f.rowCount
  BY <1>2, <1>3, FieldsAre DEF Locals, QueueOnly, SameSnap
<1>5. /\ Len(kept) \in Nat /\ Bytes(kept) \in Nat /\ RowsIn(kept) \in Nat
      /\ Len(s.queue) \in Nat /\ Bytes(s.queue) \in Nat /\ RowsIn(s.queue) \in Nat
      /\ Len(InFlight(s)) \in Nat /\ Bytes(InFlight(s)) \in Nat /\ RowsIn(InFlight(s)) \in Nat
      /\ Weighs(Append(kept, f), Len(kept) + 1, Bytes(kept) + byteLength(f),
                RowsIn(kept) + f.rowCount)
  BY <1>1, <1>2, FlightIsQueued, QueueWeights DEF Locals
<1>6. /\ f.rowCount \in Nat /\ byteLength(f) \in Nat
      /\ last.rowCount \in Nat /\ byteLength(last) \in Nat
  BY <1>1, <1>2 DEF OfLog, byteLength, HeaderBytes
<1>7. /\ Len(r.queue) = Len(s.queue)
      /\ Bytes(r.queue) = Bytes(s.queue) - byteLength(last) + byteLength(f)
      /\ RowsIn(r.queue) = RowsIn(s.queue) - last.rowCount + f.rowCount
  BY <1>1, <1>4, <1>5, <1>6 DEF Weighs
<1>8. Counts(r, InFlight(s))
  <2>1. /\ r.pendingFrames = s.pendingFrames
        /\ r.pendingBytes = s.pendingBytes - byteLength(last) + byteLength(f)
        /\ r.pendingRows = s.pendingRows - last.rowCount + f.rowCount
    BY <1>4
  <2>2. /\ s.pendingFrames = Len(s.queue) + Len(InFlight(s))
        /\ s.pendingBytes = Bytes(s.queue) + Bytes(InFlight(s))
        /\ s.pendingRows = RowsIn(s.queue) + RowsIn(InFlight(s))
    BY DEF Counts
  <2>3. r.pendingFrames = Len(r.queue) + Len(InFlight(s))
    BY <1>7, <2>1, <2>2
  <2>4. r.pendingBytes = Bytes(r.queue) + Bytes(InFlight(s))
    BY <1>5, <1>6, <1>7, <2>1, <2>2
  <2>5. r.pendingRows = RowsIn(r.queue) + RowsIn(InFlight(s))
    <3> DEFINE was == last.rowCount
               is == f.rowCount
    <3>1. /\ was \in Nat /\ is \in Nat
          /\ RowsIn(r.queue) = RowsIn(s.queue) - was + is
          /\ r.pendingRows = s.pendingRows - was + is
      BY <1>6, <1>7, <2>1
    <3> HIDE DEF was, is
    <3> QED BY <1>5, <2>2, <3>1
  <2> QED BY <2>3, <2>4, <2>5 DEF Counts
<1> QED BY <1>4, <1>8 DEF Stays, r, f, last, kept

LEMMA EnqueueStays ==
  ASSUME NEW s, Locals(s), Spoken(s), Counts(s, InFlight(s)),
         NEW payload, Payload(payload), payloadRowCount(payload) \in Nat
  PROVE  LET r == enqueue(s, payload)
         IN  /\ Stays(s, r)
             /\ \/ s.pc = "closed" /\ r = s
                \/ s.pc # "closed" /\ Ended(r)
                \/ /\ r.endReason = s.endReason
                   /\ QueueOnly(s, r)
                   /\ Queues(s, payload, r.queue)
<1> DEFINE merges == /\ s.queue # <<>>
                     /\ canCoalesce(Last(s.queue), payload)
                     /\ Mergeable(Last(s.queue).payload, payload)
           grown == IF merges THEN Merged(s, payload) ELSE Pushed(s, payload)
<1>0. enqueue(s, payload) = IF s.pc = "closed" \/ s.endReason # "none" THEN s
                            ELSE IF exceedsLimits(grown) THEN requestEnd(s, "overflow")
                            ELSE grown
  BY DEF enqueue
<1>1. CASE s.pc = "closed" \/ s.endReason # "none"
  BY <1>0, <1>1 DEF Stays, Ended, SameSnap
<1>2. CASE s.pc # "closed" /\ s.endReason = "none" /\ exceedsLimits(grown)
  BY <1>0, <1>2, RequestEndStays
<1>3. CASE s.pc # "closed" /\ s.endReason = "none" /\ ~exceedsLimits(grown)
  <2>1. enqueue(s, payload) = grown
    BY <1>0, <1>3
  <2>2. CASE merges
    <3>1. grown = Merged(s, payload) /\ ~exceedsLimits(Merged(s, payload))
      BY <1>3, <2>2
    <3>2. s.queue # <<>> /\ Mergeable(Last(s.queue).payload, payload)
      BY <2>2
    <3>3. enqueue(s, payload) = Merged(s, payload) /\ s.pc # "closed"
      BY <1>3, <2>1, <3>1
    <3>4. \A q : q = Append(Front(s.queue), Replacement(Last(s.queue), payload))
                => Queues(s, payload, q)
      BY <3>2 DEF Queues
    <3> HIDE DEF grown, merges
    <3> QED BY <3>1, <3>2, <3>3, <3>4, MergedStays
  <2>3. CASE ~merges
    <3>1. grown = Pushed(s, payload) /\ ~exceedsLimits(Pushed(s, payload))
      BY <1>3, <2>3
    <3>2. enqueue(s, payload) = Pushed(s, payload) /\ s.pc # "closed"
      BY <1>3, <2>1, <3>1
    <3>3. \A q : q = Append(s.queue, makeQueuedFrame(payload)) => Queues(s, payload, q)
      BY DEF Queues
    <3> HIDE DEF grown, merges
    <3> QED BY <3>1, <3>2, <3>3, PushedStays
  <2> QED BY <2>2, <2>3
<1> QED BY <1>1, <1>2, <1>3

\* the awaits before the queue is first looked at
Snap == {"begin", "chunk", "sleep", "end", "progress"}

\* r writes nothing of the log, or the first frame that s has queued, or it ends
Passes(s, r) ==
  /\ r.pc \notin Snap
  /\ \/ /\ r.queue = s.queue
        /\ PayloadOf(r.writing).kind \in {"none", "ping", "stream-backlog"}
     \/ /\ ~Ended(s) /\ s.queue # <<>>
        /\ r.queue = Tail(s.queue) /\ r.writing = Head(s.queue)
     \/ Ended(s) /\ PayloadOf(r.writing).kind \in {"none", "error", "log-reset"}

\* s has settled what it had in flight
Settled(s) == Locals(s) /\ Counts(s, <<>>)

\* What an await changes.
LEMMA AwaitIs ==
  ASSUME NEW s, Locals(s), NEW pc, NEW payload
  PROVE  LET r == Await(s, pc, payload)
         IN  /\ Locals(r) /\ r.pc = pc /\ r.writing = payload
             /\ r.aborted = s.aborted /\ r.endReason = s.endReason
             /\ r.queue = s.queue /\ r.snap = s.snap /\ r.snapPhase = s.snapPhase
             /\ r.next = s.next
             /\ \A inFlight : Counts(r, inFlight) <=> Counts(s, inFlight)
<1> DEFINE r == Await(s, pc, payload)
<1>1. /\ Locals(r) /\ r.pc = pc /\ r.writing = payload
      /\ r.aborted = s.aborted /\ r.endReason = s.endReason
      /\ r.queue = s.queue /\ r.snap = s.snap /\ r.snapPhase = s.snapPhase
      /\ r.next = s.next
      /\ r.pendingFrames = s.pendingFrames /\ r.pendingBytes = s.pendingBytes
      /\ r.pendingRows = s.pendingRows
  BY FieldsAre DEF Locals, Await
<1> HIDE DEF r
<1> QED BY <1>1 DEF Counts, exceedsLimits, r

\* An await that is no last word, and writes no frame of the queue.
LEMMA AwaitGoesOn ==
  ASSUME NEW s, Settled(s), NEW pc, NEW payload,
         pc \notin {"closed", "bye", "log-reset", "drain", "drain-backlog"},
         pc = "error" => Ended(s),
         PayloadOf(payload).kind \notin {"bye", "log-reset"}
  PROVE  GoesOn(s, Await(s, pc, payload))
<1> DEFINE r == Await(s, pc, payload)
<1>1. /\ Locals(r) /\ r.pc = pc /\ r.writing = payload
      /\ r.aborted = s.aborted /\ r.endReason = s.endReason
      /\ Counts(r, <<>>)
  BY AwaitIs DEF Settled
<1> HIDE DEF r
<1>2. ~Draining(r)
  BY <1>1 DEF Draining
<1>3. Spoken(r)
  BY <1>1, <1>2 DEF Spoken, Word, Ended
<1> QED BY <1>1, <1>2, <1>3 DEF GoesOn, InFlight, r

\* The reader is told that the log is gone.
LEMMA ResetGoesOn ==
  ASSUME NEW s, Settled(s), Ended(s)
  PROVE  LET r == Await(s, "log-reset", [kind |-> "log-reset"])
         IN  GoesOn(s, r) /\ Passes(s, r)
<1> DEFINE r == Await(s, "log-reset", [kind |-> "log-reset"])
<1>1. /\ Locals(r) /\ r.pc = "log-reset" /\ r.writing = [kind |-> "log-reset"]
      /\ r.aborted = s.aborted /\ r.endReason = s.endReason /\ Counts(r, <<>>)
  BY AwaitIs DEF Settled
<1> HIDE DEF r
<1>2. Spoken(r) /\ InFlight(r) = <<>> /\ Word(r) = "log-reset"
  BY <1>1 DEF Spoken, Word, InFlight, Draining, Ended, PayloadOf
<1>3. GoesOn(s, r) /\ Passes(s, r)
  BY <1>1, <1>2 DEF GoesOn, Passes, Snap, Word
<1> QED BY <1>3 DEF r

\* What the finally clause leaves.
LEMMA FinallyIs ==
  ASSUME NEW s, Settled(s), Ended(s)
  PROVE  LET r == Finally(s)
         IN  /\ Locals(r) /\ Spoken(r) /\ InFlight(r) = <<>> /\ Counts(r, <<>>)
             /\ r.pc = "closed" /\ PayloadOf(r.writing).kind = "none"
             /\ r.aborted = s.aborted /\ r.endReason = s.endReason
<1> DEFINE t == clearQueuedFrames(s)
           r == Finally(s)
<1>1. /\ Locals(t) /\ t.aborted = s.aborted /\ t.endReason = s.endReason
      /\ t.queue = <<>> /\ Counts(t, <<>>)
  BY ClearStays, QueueChanges DEF Settled
<1>2. r = [Idle EXCEPT !.pendingBytes = t.pendingBytes, !.pendingFrames = t.pendingFrames,
                       !.pendingRows = t.pendingRows,
                       !.endReason = t.endReason, !.aborted = t.aborted]
  BY DEF Finally
<1> HIDE DEF t
<1>3. /\ r = [f \in Fields |-> r[f]]
      /\ r.pc = "closed" /\ r.writing = NoPayload /\ r.queue = <<>> /\ r.snap = <<>>
      /\ r.snapPhase = "idle" /\ r.next = 1 /\ r.heartbeatDue = FALSE
      /\ r.aborted = s.aborted /\ r.endReason = s.endReason
      /\ r.pendingFrames = t.pendingFrames /\ r.pendingBytes = t.pendingBytes
      /\ r.pendingRows = t.pendingRows
  <2> DEFINE a == t.pendingBytes
             b == t.pendingFrames
             d == t.pendingRows
             e == t.endReason
             g == t.aborted
  <2>1. r = [Idle EXCEPT !.pendingBytes = a, !.pendingFrames = b, !.pendingRows = d,
                         !.endReason = e, !.aborted = g]
    BY <1>2
  <2>2. e = s.endReason /\ g = s.aborted
    BY <1>1
  <2> HIDE DEF r, a, b, d, e, g
  <2>3. /\ r = [f \in Fields |-> r[f]]
        /\ r.pc = "closed" /\ r.writing = NoPayload /\ r.queue = <<>> /\ r.snap = <<>>
        /\ r.snapPhase = "idle" /\ r.next = 1 /\ r.heartbeatDue = FALSE
    BY <2>1, FieldsAre DEF Idle
  <2>4. /\ r.pendingBytes = a /\ r.pendingFrames = b /\ r.pendingRows = d
        /\ r.endReason = e /\ r.aborted = g
    BY <2>1 DEF Idle
  <2> QED BY <2>2, <2>3, <2>4 DEF a, b, d
<1> HIDE DEF r
<1>4. Locals(r)
  <2>1. <<>> \in Seq(Rows) /\ Queued(<<>>)
    BY QueueChanges
  <2>2. /\ s.aborted \in BOOLEAN /\ s.endReason \in EndReason
        /\ s.endReason = "abort" => s.aborted
    BY DEF Settled, Locals
  <2>3. r.snap \in Seq(Rows) /\ Queued(r.queue)
    BY <1>3, <2>1
  <2>4. r.snapPhase \in Phase /\ r.next \in Nat \ {0}
    BY <1>3 DEF Phase
  <2>5. r.heartbeatDue \in BOOLEAN
    BY <1>3
  <2> QED BY <1>3, <2>2, <2>3, <2>4, <2>5 DEF Locals
<1>5. PayloadOf(NoPayload) = NoPayload /\ NoPayload.kind = "none"
  BY DEF PayloadOf, NoPayload
<1>6. Spoken(r) /\ InFlight(r) = <<>> /\ Counts(r, <<>>)
  BY <1>1, <1>3, <1>5 DEF Spoken, Word, InFlight, Draining, Counts, exceedsLimits
<1> QED BY <1>3, <1>4, <1>5, <1>6 DEF r, NoPayload

\* A stream that is to end goes on to its last words, or closes when its reader
\* is gone.
LEMMA TerminationGoesOn ==
  ASSUME NEW s, Settled(s), Ended(s)
  PROVE  LET r == writeTermination(s)
         IN  GoesOn(s, r) /\ Passes(s, r)
<1>1. CASE s.aborted \/ s.endReason = "abort"
  <2> DEFINE r == Finally(s)
  <2>1. writeTermination(s) = r /\ s.aborted
    BY <1>1 DEF writeTermination, Settled, Locals
  <2>2. /\ Locals(r) /\ Spoken(r) /\ InFlight(r) = <<>> /\ Counts(r, <<>>)
        /\ r.pc = "closed" /\ PayloadOf(r.writing).kind = "none"
        /\ r.aborted = s.aborted /\ r.endReason = s.endReason
    BY FinallyIs
  <2> HIDE DEF r
  <2> QED BY <2>1, <2>2 DEF GoesOn, Passes, Snap
<1>2. CASE ~(s.aborted \/ s.endReason = "abort") /\ s.endReason = "overflow"
  <2> DEFINE r == Await(s, "error", [kind |-> "error"])
  <2>1. writeTermination(s) = r
    BY <1>2 DEF writeTermination
  <2>2. GoesOn(s, r)
    BY AwaitGoesOn DEF PayloadOf
  <2>3. r.pc = "error" /\ r.writing = [kind |-> "error"]
    BY AwaitIs DEF Settled
  <2> HIDE DEF r
  <2> QED BY <2>1, <2>2, <2>3 DEF Passes, Snap, PayloadOf
<1>3. CASE ~(s.aborted \/ s.endReason = "abort") /\ s.endReason # "overflow"
  BY <1>3, ResetGoesOn DEF writeTermination
<1> QED BY <1>1, <1>2, <1>3

\* The first frame of the queue is written.
LEMMA ShiftGoesOn ==
  ASSUME NEW s, Settled(s), ~Ended(s), s.queue # <<>>, NEW pc \in {"drain", "drain-backlog"}
  PROVE  LET r == Shift(s, pc)
         IN  GoesOn(s, r) /\ Passes(s, r)
<1> DEFINE f == Head(s.queue)
           t == [s EXCEPT !.queue = Tail(@)]
           r == Shift(s, pc)
<1>1. /\ Queued(Tail(s.queue)) /\ OfLog(f)
      /\ Weighs(Tail(s.queue), Len(s.queue) - 1, Bytes(s.queue) - byteLength(f),
                RowsIn(s.queue) - f.rowCount)
      /\ Len(s.queue) \in Nat /\ Bytes(s.queue) \in Nat /\ RowsIn(s.queue) \in Nat
  BY QueueChanges, QueueWeights DEF Settled, Locals
<1>2. /\ Locals(t) /\ t.aborted = s.aborted /\ t.endReason = s.endReason
      /\ t.queue = Tail(s.queue)
      /\ t.pendingFrames = s.pendingFrames /\ t.pendingBytes = s.pendingBytes
      /\ t.pendingRows = s.pendingRows
  BY <1>1, FieldsAre DEF Settled, Locals
<1>3. r = Await(t, pc, f)
  BY DEF Shift
<1> HIDE DEF t, f
<1>4. /\ Locals(r) /\ r.pc = pc /\ r.writing = f
      /\ r.aborted = s.aborted /\ r.endReason = s.endReason
      /\ r.queue = Tail(s.queue)
      /\ Counts(t, <<f>>) => Counts(r, <<f>>)
  BY <1>2, <1>3, AwaitIs
<1>5. Weighs(<<f>>, 1, byteLength(f), f.rowCount)
  BY <1>1, OneWeighs
<1>6. Counts(t, <<f>>)
  <2>1. Weighs(<<>>, 0, 0, 0)
    BY QueueWeights
  <2>2. /\ s.pendingFrames = Len(s.queue) /\ s.pendingBytes = Bytes(s.queue)
        /\ s.pendingRows = RowsIn(s.queue) /\ ~exceedsLimits(s)
    BY <1>1, <2>1 DEF Settled, Counts, Weighs
  <2>3. byteLength(f) \in Nat /\ f.rowCount \in Nat
    BY <1>1 DEF OfLog, byteLength, HeaderBytes
  <2>4. ~exceedsLimits(t)
    BY <1>2, <2>2 DEF exceedsLimits
  <2> DEFINE n == f.rowCount
  <2>5. t.pendingRows = RowsIn(t.queue) + RowsIn(<<f>>)
    <3>1. RowsIn(t.queue) = RowsIn(s.queue) - n /\ RowsIn(<<f>>) = n /\ n \in Nat
      BY <1>1, <1>2, <1>5, <2>3 DEF Weighs
    <3> HIDE DEF n
    <3> QED BY <1>1, <1>2, <2>2, <3>1
  <2>6. t.pendingBytes = Bytes(t.queue) + Bytes(<<f>>)
    BY <1>1, <1>2, <1>5, <2>2, <2>3 DEF Weighs
  <2>7. t.pendingFrames = Len(t.queue) + Len(<<f>>)
    BY <1>1, <1>2, <1>5, <2>2, <2>3 DEF Weighs
  <2> QED BY <2>4, <2>5, <2>6, <2>7 DEF Counts
<1> HIDE DEF r
<1>7. Draining(r) /\ InFlight(r) = <<f>>
  BY <1>4 DEF Draining, InFlight
<1>8. Word(r) \in {"append", "patch", "load-progress", "rotation", "watch-error"}
  BY <1>1, <1>4 DEF Word, PayloadOf, OfLog, Payload
<1>9. Spoken(r)
  BY <1>1, <1>4, <1>7, <1>8 DEF Spoken, Draining
<1> QED BY <1>4, <1>6, <1>7, <1>9 DEF GoesOn, Passes, Snap, Draining, r, f

\* An await of the live stream that writes nothing of the log.
LEMMA QuietGoesOn ==
  ASSUME NEW s, Settled(s), NEW t, Settled(t), t.queue = s.queue,
         t.aborted = s.aborted, t.endReason = s.endReason,
         NEW pc \in {"wait", "ping", "backlog", "backlog-done"}, NEW payload,
         PayloadOf(payload).kind \in {"none", "ping", "stream-backlog"}
  PROVE  LET r == Await(t, pc, payload)
         IN  GoesOn(s, r) /\ Passes(s, r)
<1> DEFINE r == Await(t, pc, payload)
<1>1. GoesOn(t, r)
  BY AwaitGoesOn
<1>2. r.pc = pc /\ r.writing = payload /\ r.queue = t.queue
  BY AwaitIs DEF Settled
<1> HIDE DEF r
<1> QED BY <1>1, <1>2 DEF GoesOn, Passes, Snap, r

\* The live loop writes a frame or a ping, waits, or ends.
LEMMA LiveLoopGoesOn ==
  ASSUME NEW s, Settled(s)
  PROVE  GoesOn(s, LiveLoop(s)) /\ Passes(s, LiveLoop(s))
<1>1. CASE Ended(s)
  BY <1>1, TerminationGoesOn DEF LiveLoop
<1>2. CASE ~Ended(s) /\ s.queue # <<>>
  BY <1>2, ShiftGoesOn DEF LiveLoop
<1>3. CASE ~Ended(s) /\ s.queue = <<>> /\ s.heartbeatDue
  <2> DEFINE t == [s EXCEPT !.heartbeatDue = FALSE]
  <2>1. /\ Locals(t) /\ t.aborted = s.aborted /\ t.queue = s.queue
        /\ t.endReason = s.endReason /\ t.pendingFrames = s.pendingFrames
        /\ t.pendingBytes = s.pendingBytes /\ t.pendingRows = s.pendingRows
    BY FieldsAre DEF Settled, Locals
  <2>2. LiveLoop(s) = Await(t, "ping", [kind |-> "ping"])
    BY <1>3 DEF LiveLoop
  <2> HIDE DEF t
  <2>3. Settled(t)
    BY <2>1 DEF Settled, Counts, exceedsLimits
  <2>4. PayloadOf([kind |-> "ping"]).kind = "ping"
    BY DEF PayloadOf
  <2> QED BY <2>1, <2>2, <2>3, <2>4, QuietGoesOn
<1>4. CASE ~Ended(s) /\ s.queue = <<>> /\ ~s.heartbeatDue
  <2>1. LiveLoop(s) = Await(s, "wait", NoPayload) /\ PayloadOf(NoPayload).kind = "none"
    BY <1>4 DEF LiveLoop, PayloadOf, NoPayload
  <2> QED BY <2>1, QuietGoesOn
<1> QED BY <1>1, <1>2, <1>3, <1>4

\* After the snapshot come the frames queued meanwhile.
LEMMA BaselineGoesOn ==
  ASSUME NEW s, Settled(s)
  PROVE  GoesOn(s, Baseline(s)) /\ Passes(s, Baseline(s))
<1>1. CASE Ended(s)
  BY <1>1, TerminationGoesOn DEF Baseline
<1>2. CASE ~Ended(s) /\ s.queue # <<>>
  <2>1. /\ Baseline(s) = Await(s, "backlog", [kind |-> "stream-backlog"])
        /\ PayloadOf([kind |-> "stream-backlog"]).kind = "stream-backlog"
    BY <1>2 DEF Baseline, PayloadOf
  <2> QED BY <2>1, QuietGoesOn
<1>3. CASE ~Ended(s) /\ s.queue = <<>>
  BY <1>3, LiveLoopGoesOn DEF Baseline
<1> QED BY <1>1, <1>2, <1>3

\* They are written one by one.
LEMMA DrainBacklogGoesOn ==
  ASSUME NEW s, Settled(s)
  PROVE  GoesOn(s, DrainBacklog(s)) /\ Passes(s, DrainBacklog(s))
<1>1. CASE Ended(s)
  BY <1>1, TerminationGoesOn DEF DrainBacklog
<1>2. CASE ~Ended(s) /\ s.queue # <<>>
  BY <1>2, ShiftGoesOn DEF DrainBacklog
<1>3. CASE ~Ended(s) /\ s.queue = <<>>
  <2>1. /\ DrainBacklog(s) = Await(s, "backlog-done", [kind |-> "stream-backlog"])
        /\ PayloadOf([kind |-> "stream-backlog"]).kind = "stream-backlog"
    BY <1>3 DEF DrainBacklog, PayloadOf
  <2> QED BY <2>1, QuietGoesOn
<1> QED BY <1>1, <1>2, <1>3

\* What was written is owed no more.
LEMMA SettleKeeps ==
  ASSUME NEW s, Locals(s), Spoken(s), Draining(s), Counts(s, InFlight(s))
  PROVE  LET r == Settle(s)
         IN  /\ Settled(r) /\ r.aborted = s.aborted /\ r.endReason = s.endReason
             /\ r.queue = s.queue
<1> DEFINE f == s.writing
           r == Settle(s)
           n == f.rowCount
<1>1. OfLog(f) /\ InFlight(s) = <<f>>
  BY DEF Spoken, InFlight
<1>2. /\ Locals(r) /\ r.aborted = s.aborted /\ r.endReason = s.endReason
      /\ r.queue = s.queue
      /\ r.pendingBytes = s.pendingBytes - byteLength(f)
      /\ r.pendingFrames = s.pendingFrames - 1
      /\ r.pendingRows = s.pendingRows - n
  BY FieldsAre DEF Locals, Settle
<1> HIDE DEF r
<1>3. Len(<<f>>) = 1 /\ Bytes(<<f>>) = byteLength(f) /\ RowsIn(<<f>>) = n
      /\ Len(<<>>) = 0 /\ Bytes(<<>>) = 0 /\ RowsIn(<<>>) = 0
  BY <1>1, OneWeighs, QueueWeights DEF Weighs
<1>4. byteLength(f) \in Nat /\ n \in Nat
  BY <1>1 DEF OfLog, byteLength, HeaderBytes
<1>5. Len(s.queue) \in Nat /\ Bytes(s.queue) \in Nat /\ RowsIn(s.queue) \in Nat
  BY QueueWeights DEF Locals
<1> HIDE DEF n
<1>6. /\ s.pendingFrames = Len(s.queue) + 1 /\ s.pendingBytes = Bytes(s.queue) + byteLength(f)
      /\ s.pendingRows = RowsIn(s.queue) + n /\ ~exceedsLimits(s)
  BY <1>1, <1>3 DEF Counts
<1>7. /\ r.pendingFrames = Len(s.queue) /\ r.pendingBytes = Bytes(s.queue)
      /\ r.pendingRows = RowsIn(s.queue)
  BY <1>2, <1>4, <1>5, <1>6
<1>8. ~exceedsLimits(r)
  BY <1>4, <1>5, <1>6, <1>7, LimitsAssumption DEF exceedsLimits
<1>9. Counts(r, <<>>)
  BY <1>2, <1>3, <1>5, <1>7, <1>8 DEF Counts
<1> QED BY <1>2, <1>9 DEF Settled, r

\* A handler that has nothing in flight is settled.
LEMMA NothingInFlight ==
  ASSUME NEW s, Locals(s), ~Draining(s), Counts(s, InFlight(s))
  PROVE  Settled(s)
  BY DEF Settled, InFlight

-----------------------------------------------------------------------------
(* What a reader shows, and what the queue makes of it.                    *)

\* rows of one file
Good(rs) == rs \in Seq(Rows) /\ \A i, j \in DOMAIN rs : rs[i].file = rs[j].file

\* what a reader shows, and the log itself, is made of rows and a phase
Shown(x) == Good(x.rows) /\ x.phase \in Phase
Seen(x) == [rows |-> x.rows, phase |-> x.phase]

\* y comes after x: no row is older, nor of an earlier file
Later(is, was) == \/ is.file > was.file
                  \/ is.file = was.file /\ is.patches >= was.patches
Leads(x, y) == /\ Shown(x) /\ Shown(y)
               /\ \A i \in DOMAIN x.rows \cap DOMAIN y.rows : Later(y.rows[i], x.rows[i])

\* what a payload of the log makes of x
Effect(x, p) == [rows  |-> Apply(x.rows, p),
                 phase |-> CASE p.kind = "load-progress" -> p.phase
                             [] p.kind = "rotation" -> "idle"
                             [] OTHER -> x.phase]

\* the frames of q, one after the other, lead from x to y
IsRun(run, q) == /\ run = [k \in 0..Len(q) |-> run[k]]
                 /\ \A k \in 1..Len(q) : /\ run[k] = Effect(run[k - 1], q[k].payload)
                                         /\ Leads(run[k - 1], run[k])
Reaches(x, q, y) == \E run : IsRun(run, q) /\ run[0] = x /\ run[Len(q)] = y

\* a reader
IsView(v) == v = [f \in {"rows", "phase", "state"} |-> v[f]]

\* A reader takes a payload of the log as it stands.
LEMMA ReceiveIsEffect ==
  ASSUME NEW v, IsView(v), NEW p, Payload(p)
  PROVE  LET w == Receive(v, p)
         IN  Seen(w) = Effect(v, p) /\ IsView(w) /\ w.state = v.state
  BY DEF IsView, Payload, Receive, Effect, Seen, Apply

\* What is seen is all that counts.
LEMMA SeenIsShown ==
  ASSUME NEW x
  PROVE  /\ Shown(Seen(x)) <=> Shown(x)
         /\ \A y : (Leads(Seen(x), y) <=> Leads(x, y)) /\ (Leads(y, Seen(x)) <=> Leads(y, x))
         /\ \A p : Effect(Seen(x), p) = Effect(x, p)
  BY DEF Seen, Shown, Leads, Effect

\* Rows do not grow older, step by step.
LEMMA LeadsSame ==
  ASSUME NEW x, Shown(x), NEW y, y.rows = x.rows, y.phase \in Phase
  PROVE  Leads(x, y)
<1>1. \A i \in DOMAIN x.rows : x.rows[i] \in Rows
  BY DEF Shown, Good
<1>2. \A i \in DOMAIN x.rows : Later(y.rows[i], x.rows[i])
  BY <1>1 DEF Later, Rows
<1> QED BY <1>2 DEF Leads, Shown

LEMMA LeadsOver ==
  ASSUME NEW x, NEW y, NEW z, Leads(x, y), Leads(y, z), DOMAIN x.rows \subseteq DOMAIN y.rows
  PROVE  Leads(x, z)
<1>1. ASSUME NEW i \in DOMAIN x.rows \cap DOMAIN z.rows
      PROVE  Later(z.rows[i], x.rows[i])
  <2>1. i \in DOMAIN y.rows /\ Later(y.rows[i], x.rows[i]) /\ Later(z.rows[i], y.rows[i])
    BY <1>1 DEF Leads
  <2>2. x.rows[i] \in Rows /\ y.rows[i] \in Rows /\ z.rows[i] \in Rows
    BY <1>1, <2>1 DEF Leads, Shown, Good
  <2> QED BY <2>1, <2>2 DEF Later, Rows
<1> QED BY <1>1 DEF Leads

\* No frames lead nowhere.
LEMMA ReachesNothing == ASSUME NEW x PROVE Reaches(x, <<>>, x)
<1>1. IsRun([k \in 0..0 |-> x], <<>>)
  BY DEF IsRun
<1> QED BY <1>1 DEF Reaches

\* One more frame.
LEMMA ReachesAppend ==
  ASSUME NEW q, Queued(q), NEW f, OfLog(f), NEW x, NEW y, Reaches(x, q, y),
         Leads(y, Effect(y, f.payload))
  PROVE  Reaches(x, Append(q, f), Effect(y, f.payload))
<1>1. PICK run : IsRun(run, q) /\ run[0] = x /\ run[Len(q)] = y
  BY DEF Reaches
<1> DEFINE n == Len(q)
           all == Append(q, f)
           z == Effect(y, f.payload)
           more == [k \in 0..(n + 1) |-> IF k = n + 1 THEN z ELSE run[k]]
<1>2. /\ n \in Nat /\ Len(all) = n + 1 /\ all[n + 1] = f
      /\ \A k \in 1..n : all[k] = q[k]
  <2>1. PICK S : q \in Seq(S)
    BY DEF Queued
  <2>2. q \in Seq(S \cup {f})
    <3>1. S \subseteq S \cup {f}
      OBVIOUS
    <3> QED BY <2>1, <3>1
  <2> QED BY <2>2
<1> HIDE DEF n, all, z
<1>3. ASSUME NEW k \in 1..(n + 1)
      PROVE  more[k] = Effect(more[k - 1], all[k].payload) /\ Leads(more[k - 1], more[k])
  <2>1. CASE k = n + 1
    <3>1. more[k] = z /\ more[k - 1] = y /\ all[k] = f
      BY <1>1, <1>2, <2>1 DEF n
    <3> QED BY <3>1 DEF z
  <2>2. CASE k # n + 1
    <3>1. k \in 1..n /\ k - 1 \in 0..n
      BY <1>2, <2>2
    <3>2. more[k] = run[k] /\ more[k - 1] = run[k - 1] /\ all[k] = q[k]
      BY <1>2, <3>1
    <3> QED BY <1>1, <3>1, <3>2 DEF IsRun, n
  <2> QED BY <2>1, <2>2
<1>4. IsRun(more, all)
  BY <1>2, <1>3 DEF IsRun
<1>5. more[0] = x /\ more[n + 1] = z
  BY <1>1, <1>2
<1> HIDE DEF more
<1> QED BY <1>2, <1>4, <1>5 DEF Reaches, all, z

\* All but the first.
LEMMA ReachesTail ==
  ASSUME NEW q, Queued(q), q # <<>>, NEW x, NEW y, Reaches(x, q, y)
  PROVE  LET z == Effect(x, Head(q).payload)
         IN  Leads(x, z) /\ Reaches(z, Tail(q), y)
<1>1. PICK run : IsRun(run, q) /\ run[0] = x /\ run[Len(q)] = y
  BY DEF Reaches
<1> DEFINE n == Len(q)
           rest == Tail(q)
           fewer == [k \in 0..(n - 1) |-> run[k + 1]]
<1>2. /\ n \in Nat \ {0} /\ Len(rest) = n - 1 /\ Head(q) = q[1]
      /\ \A k \in 1..(n - 1) : rest[k] = q[k + 1]
  <2>1. PICK S : q \in Seq(S)
    BY DEF Queued
  <2> QED BY <2>1
<1>3. run[1] = Effect(x, Head(q).payload) /\ Leads(x, run[1])
  BY <1>1, <1>2 DEF IsRun
<1> HIDE DEF n, rest
<1>4. ASSUME NEW k \in 1..(n - 1)
      PROVE  fewer[k] = Effect(fewer[k - 1], rest[k].payload) /\ Leads(fewer[k - 1], fewer[k])
  <2>1. k \in 1..n /\ k + 1 \in 1..n /\ k - 1 \in 0..(n - 1) /\ k \in 0..(n - 1)
        /\ (k - 1) + 1 = k /\ (k + 1) - 1 = k
    BY <1>2
  <2>2. fewer[k] = run[k + 1] /\ fewer[k - 1] = run[k] /\ rest[k] = q[k + 1]
    BY <1>2, <2>1
  <2>3. run[k + 1] = Effect(run[k], q[k + 1].payload) /\ Leads(run[k], run[k + 1])
    BY <1>1, <2>1 DEF IsRun, n
  <2> QED BY <2>2, <2>3
<1>5. IsRun(fewer, rest)
  BY <1>2, <1>4 DEF IsRun
<1>6. fewer[0] = run[1] /\ fewer[n - 1] = y
  BY <1>1, <1>2 DEF n
<1> HIDE DEF fewer
<1> QED BY <1>2, <1>3, <1>5, <1>6 DEF Reaches, rest

\* All but the last.
LEMMA ReachesFront ==
  ASSUME NEW q, Queued(q), q # <<>>, NEW x, NEW y, Reaches(x, q, y)
  PROVE  \E z : /\ Reaches(x, Front(q), z) /\ Leads(z, y)
                /\ y = Effect(z, Last(q).payload)
<1>1. PICK run : IsRun(run, q) /\ run[0] = x /\ run[Len(q)] = y
  BY DEF Reaches
<1> DEFINE n == Len(q)
           rest == Front(q)
           fewer == [k \in 0..(n - 1) |-> run[k]]
<1>2. n \in Nat \ {0}
  BY DEF Queued
<1>3. Len(rest) = n - 1 /\ \A k \in 1..(n - 1) : rest[k] = q[k]
  <2>1. PICK S : q \in Seq(S)
    BY DEF Queued
  <2> DEFINE m == n - 1
  <2>2. m \in Nat /\ m \in Int /\ 1 \in Int
    BY <1>2
  <2>3. \A i \in 1..m : q[i] \in S
    BY <2>1, <2>2
  <2> HIDE DEF m
  <2>4. /\ Len(SubSeq(q, 1, m)) = IF 1 <= m THEN m - 1 + 1 ELSE 0
        /\ \A i \in 1..(m - 1 + 1) : SubSeq(q, 1, m)[i] = q[1 + i - 1]
    BY <2>2, <2>3, SubSeqProperties
  <2>5. /\ Len(SubSeq(q, 1, m)) = m
        /\ \A i \in 1..m : SubSeq(q, 1, m)[i] = q[i]
    BY <2>2, <2>4
  <2> QED BY <2>2, <2>5 DEF Front, m
<1> HIDE DEF n, rest
<1>4. IsRun(fewer, rest)
  <2>1. ASSUME NEW k \in 1..(n - 1)
        PROVE  fewer[k] = Effect(fewer[k - 1], rest[k].payload) /\ Leads(fewer[k - 1], fewer[k])
    <3>1. k \in 1..n /\ fewer[k] = run[k] /\ fewer[k - 1] = run[k - 1] /\ rest[k] = q[k]
      BY <1>2, <1>3
    <3> QED BY <1>1, <3>1 DEF IsRun, n
  <2> QED BY <1>3, <2>1 DEF IsRun
<1>5. fewer[0] = x /\ fewer[n - 1] = run[n - 1]
  BY <1>1, <1>2
<1>6. Reaches(x, rest, run[n - 1])
  <2> HIDE DEF fewer
  <2> QED BY <1>3, <1>4, <1>5 DEF Reaches
<1>7. y = Effect(run[n - 1], q[n].payload) /\ Leads(run[n - 1], y)
  <2>1. n \in 1..n /\ run[n] = y /\ IsRun(run, q)
    BY <1>1, <1>2 DEF n
  <2> QED BY <2>1 DEF IsRun, n
<1>8. Last(q) = q[n]
  BY DEF Last, n
<1> QED BY <1>6, <1>7, <1>8 DEF rest

\* Rows placed one after the other are placed at once.
LEMMA PlacedTwice ==
  ASSUME NEW S, NEW a \in Seq(S), NEW b \in Seq(S), NEW from \in Nat, NEW next,
         next = from + Len(a), NEW rs, DOMAIN rs \subseteq Int
  PROVE  Placed(Placed(rs, from, a), next, b) = Placed(rs, from, a \o b)
<1> DEFINE m == Len(a)
           n == Len(b)
           both == a \o b
<1>1. /\ m \in Nat /\ n \in Nat /\ next = from + m /\ next \in Nat
      /\ Len(both) = m + n
      /\ \A i \in 1..(m + n) : both[i] = IF i <= m THEN a[i] ELSE b[i - m]
  <2>1. m \in Nat /\ n \in Nat
    OBVIOUS
  <2>2. /\ Len(both) = m + n
        /\ \A i \in 1..(m + n) : both[i] = IF i <= m THEN a[i] ELSE b[i - m]
    BY ConcatProperties
  <2> QED BY <2>1, <2>2
<1> DEFINE once == Placed(rs, from, a)
           twice == Placed(once, next, b)
           merged == Placed(rs, from, both)
           R == DOMAIN rs
<1>2. once = [i \in R \cup (from .. from + m - 1) |->
                IF i >= from /\ i < from + m THEN a[i - from + 1] ELSE rs[i]]
  BY DEF Placed
<1>3. twice = [i \in DOMAIN once \cup (next .. next + n - 1) |->
                 IF i >= next /\ i < next + n THEN b[i - next + 1] ELSE once[i]]
  BY DEF Placed
<1>4. merged = [i \in R \cup (from .. from + (m + n) - 1) |->
                  IF i >= from /\ i < from + (m + n) THEN both[i - from + 1] ELSE rs[i]]
  BY <1>1 DEF Placed
<1> HIDE DEF m, n, both, once, twice, merged, R
<1>5. DOMAIN twice = DOMAIN merged
  BY <1>1, <1>2, <1>3, <1>4
<1>6. ASSUME NEW i \in DOMAIN merged PROVE twice[i] = merged[i]
  <2>1. CASE i \in from .. from + m - 1
    <3>0. i - from + 1 \in 1..m /\ i >= from /\ i < from + (m + n)
      BY <1>1, <2>1
    <3>1. merged[i] = both[i - from + 1] /\ i - from + 1 \in 1..m
      BY <1>4, <3>0
    <3>2. both[i - from + 1] = a[i - from + 1]
      BY <1>1, <3>1
    <3>3. once[i] = a[i - from + 1] /\ twice[i] = once[i]
      BY <1>1, <1>2, <1>3, <2>1
    <3> QED BY <3>1, <3>2, <3>3
  <2>2. CASE i \in next .. next + n - 1
    <3>1. merged[i] = both[i - from + 1] /\ i - from + 1 \in (m + 1)..(m + n)
      BY <1>1, <1>4, <2>2
    <3>2. both[i - from + 1] = b[(i - from + 1) - m]
      BY <1>1, <3>1
    <3>3. (i - from + 1) - m = i - next + 1 /\ i >= next /\ i < next + n
      BY <1>1, <2>2
    <3>4. twice[i] = b[i - next + 1]
      BY <1>3, <2>2, <3>3
    <3> QED BY <3>1, <3>2, <3>3, <3>4
  <2>3. CASE i \notin from .. from + m - 1 /\ i \notin next .. next + n - 1
    <3>0. i \in R
      <4>1. from .. from + (m + n) - 1 =
              (from .. from + m - 1) \cup (next .. next + n - 1)
        BY <1>1
      <4> QED BY <1>4, <2>3, <4>1
    <3>1. i \in R /\ i \in DOMAIN once /\ i \in DOMAIN twice
      BY <1>2, <1>3, <3>0
    <3>2. /\ ~(i >= from /\ i < from + m)
          /\ ~(i >= next /\ i < next + n)
          /\ ~(i >= from /\ i < from + (m + n))
      <4>1. from \in Int /\ next \in Int /\ m \in Int /\ n \in Int /\ next = from + m
        BY <1>1
      <4>2. i \in Int
        BY <3>1 DEF R
      <4> QED BY <2>3, <4>1, <4>2
    <3> QED BY <1>1, <1>2, <1>3, <1>4, <3>1, <3>2
  <2> QED BY <2>1, <2>2, <2>3
<1>7. /\ twice = [i \in DOMAIN twice |-> twice[i]]
      /\ merged = [i \in DOMAIN merged |-> merged[i]]
  BY <1>3, <1>4
<1>8. twice = merged
  BY <1>5, <1>6, <1>7
<1> QED BY <1>8 DEF twice, once, merged, both

\* Two frames merged do what the two do one after the other.
LEMMA MergeIsBoth ==
  ASSUME NEW p, NEW q, Payload(p), Payload(q), Mergeable(p, q), NEW x, Shown(x)
  PROVE  /\ Effect(Effect(x, p), q) = Effect(x, coalescePayloads(p, q))
         /\ DOMAIN x.rows \subseteq DOMAIN Effect(x, p).rows
<1>1. CASE p.kind = "append"
  <2> DEFINE m == coalescePayloads(p, q)
  <2>1. /\ q.kind = "append" /\ p.from \in Nat
        /\ p.rows \in Seq(Rows) /\ q.rows \in Seq(Rows)
        /\ q.from = p.from + Len(p.rows)
    BY <1>1 DEF Payload, Mergeable, SameKind
  <2>2. m = [kind |-> "append", from |-> p.from, rows |-> p.rows \o q.rows]
    BY <1>1 DEF coalescePayloads, AppendFrame
  <2> HIDE DEF m
  <2>3. /\ \A rs : Apply(rs, p) = Placed(rs, p.from, p.rows)
        /\ \A rs : Apply(rs, q) = Placed(rs, q.from, q.rows)
        /\ \A rs : Apply(rs, m) = Placed(rs, p.from, p.rows \o q.rows)
    BY <1>1, <2>1, <2>2 DEF Apply
  <2>4. Apply(Apply(x.rows, p), q) = Apply(x.rows, m)
    <3>1. DOMAIN x.rows \subseteq Int
      BY DEF Shown, Good
    <3> DEFINE rs == x.rows
               a == p.rows
               b == q.rows
               from == p.from
               next == q.from
    <3>2. /\ DOMAIN rs \subseteq Int /\ a \in Seq(Rows) /\ b \in Seq(Rows)
          /\ from \in Nat /\ next = from + Len(a)
      BY <2>1, <3>1
    <3>3. /\ Apply(Apply(rs, p), q) = Placed(Placed(rs, from, a), next, b)
          /\ Apply(rs, m) = Placed(rs, from, a \o b)
      BY <2>3
    <3> HIDE DEF rs, a, b, from, next
    <3>4. Placed(Placed(rs, from, a), next, b) = Placed(rs, from, a \o b)
      BY <3>2, PlacedTwice
    <3> QED BY <3>3, <3>4 DEF rs
  <2>5. DOMAIN x.rows \subseteq DOMAIN Apply(x.rows, p)
    <3>1. Apply(x.rows, p) = Placed(x.rows, p.from, p.rows)
      BY <2>3
    <3> QED BY <3>1 DEF Placed
  <2> QED BY <1>1, <2>1, <2>2, <2>4, <2>5 DEF Effect, m
<1>2. CASE p.kind = "patch"
  <2> DEFINE m == coalescePayloads(p, q)
  <2>1. q.kind = "patch"
    BY <1>2 DEF Mergeable, SameKind
  <2>2. m = [kind |-> "patch", updates |-> BothUpdates(p.updates, q.updates)]
    BY <1>2 DEF coalescePayloads, PatchFrame
  <2> HIDE DEF m
  <2>3. \A rs : Patched(Patched(rs, p.updates), q.updates)
                  = Patched(rs, BothUpdates(p.updates, q.updates))
    BY DEF Patched, BothUpdates
  <2>4. \A rs : DOMAIN Patched(rs, p.updates) = DOMAIN rs
    BY DEF Patched
  <2> QED BY <1>2, <2>1, <2>2, <2>3, <2>4 DEF Effect, Apply, m
<1>3. CASE p.kind = "load-progress"
  <2>1. q.kind = "load-progress" /\ coalescePayloads(p, q) = q
    BY <1>3 DEF Mergeable, SameKind, coalescePayloads
  <2> QED BY <1>3, <2>1 DEF Effect, Apply
<1> QED BY <1>1, <1>2, <1>3 DEF Mergeable, SameKind

-----------------------------------------------------------------------------
(* One stream and its reader.                                              *)

\* what a reader was told of the end of its stream
Told(s, v) ==
  /\ IsView(v)
  /\ s.aborted => v = NoView
  /\ ~s.aborted => /\ v.state = "reset" <=> s.pc = "bye"
                   /\ v.state = "disconnected" => s.pc = "closed"
                   /\ s.pc = "closed" /\ s # Idle => v.state = "disconnected"
  /\ v.state \in {"reset", "disconnected"} => v.rows = <<>>

\* a handler and its reader
Kept(s, v) == Locals(s) /\ Spoken(s) /\ Told(s, v) /\ Counts(s, InFlight(s))

\* the last row of the next chunk, and the first n rows of the snapshot
Upto(s) == IF s.next + SNAPSHOT_CHUNK - 1 < Len(s.snap)
           THEN s.next + SNAPSHOT_CHUNK - 1 ELSE Len(s.snap)
Prefix(s, n) == IF n < Len(s.snap) THEN SubSeq(s.snap, 1, n) ELSE s.snap

\* while the snapshot is on its way the reader has the part of it that came
Snapshot(s, v) ==
  /\ s.pc \in Snap => Good(s.snap)
  /\ s.pc \in {"begin", "chunk", "sleep", "end"} => v.phase = "idle"
  /\ s.pc = "begin" => s.writing = [kind |-> "snapshot-begin"] /\ s.next = 1
  /\ s.pc = "chunk" => /\ s.next <= Len(s.snap)
                       /\ s.writing = [kind |-> "snapshot-chunk", from |-> s.next,
                                       rows |-> SubSeq(s.snap, s.next, Upto(s))]
                       /\ v.rows = Prefix(s, s.next - 1)
  /\ s.pc = "sleep" => s.writing = NoPayload /\ v.rows = Prefix(s, s.next - 1)
  /\ s.pc = "end" => s.writing = [kind |-> "snapshot-end"] /\ v.rows = s.snap
  /\ s.pc = "progress" => s.writing = ProgressFrame(s.snapPhase) /\ v.rows = s.snap

\* what the reader will show when the snapshot, or what is being written, is there
Base(s, v) == IF s.pc \in Snap THEN [rows |-> s.snap, phase |-> s.snapPhase]
              ELSE Seen(Receive(v, PayloadOf(s.writing)))

\* what is being written takes the reader further, and the queue to the log
Delivers(s, v, log) ==
  /\ Shown(v)
  /\ (~s.aborted /\ s.pc # "closed") =>
       /\ Leads(v, Receive(v, PayloadOf(s.writing)))
       /\ Snapshot(s, v)
       /\ ~Ended(s) => Reaches(Base(s, v), s.queue, log)

\* what the reader has when the await returns
Heard(s, v) == IF s.aborted THEN v ELSE Receive(v, PayloadOf(s.writing))

\* A step to something that is no last word.
LEMMA GoesOnKeeps ==
  ASSUME NEW s, NEW v, Kept(s, v), s.pc \notin {"closed", "bye", "log-reset"},
         NEW r, GoesOn(s, r)
  PROVE  Kept(r, Heard(s, v))
<1>1. CASE s.aborted
  BY <1>1 DEF Kept, GoesOn, Told, Heard, NoView, IsView
<1>2. CASE ~s.aborted
  <2>1. /\ Word(s) \notin {"bye", "log-reset"}
        /\ v.state \notin {"reset", "disconnected"}
    BY <1>2 DEF Kept, Spoken, Told
  <2>2. IsView(Receive(v, PayloadOf(s.writing)))
    BY <2>1 DEF Receive, IsView, Kept, Told, NoView, Word
  <2>3. Receive(v, PayloadOf(s.writing)).state \in {v.state, "connected"}
    BY <2>1 DEF Receive, IsView, Kept, Told, Word
  <2>4. r.pc \notin {"closed", "bye"} /\ ~r.aborted
    BY <1>2 DEF GoesOn
  <2> QED BY <1>2, <2>1, <2>2, <2>3, <2>4 DEF Kept, GoesOn, Told, Heard
<1> QED BY <1>1, <1>2

\* A step that leaves the handler where it was.
LEMMA StaysKeeps ==
  ASSUME NEW s, NEW v, Kept(s, v), NEW r, Stays(s, r), Ended(s) => Ended(r)
  PROVE  Kept(r, v)
<1>1. InFlight(r) = InFlight(s) /\ Word(r) = Word(s)
  BY DEF Stays, InFlight, Draining, Word
<1> QED BY <1>1 DEF Kept, Stays, Told, Spoken, Draining

\* What stays has the snapshot it had, and writes what it wrote.
LEMMA StaysDelivers ==
  ASSUME NEW s, NEW v, NEW log, Delivers(s, v, log), NEW r, Stays(s, r), NEW new,
         (~s.aborted /\ s.pc # "closed" /\ ~Ended(r)) => Reaches(Base(s, v), r.queue, new)
  PROVE  Delivers(r, v, new)
<1>1. /\ r.pc = s.pc /\ r.writing = s.writing /\ r.aborted = s.aborted
      /\ r.snap = s.snap /\ r.snapPhase = s.snapPhase /\ r.next = s.next
  BY DEF Stays, SameSnap
<1>2. Snapshot(s, v) => Snapshot(r, v)
  BY <1>1 DEF Snapshot, Prefix, Upto
<1>3. Base(r, v) = Base(s, v)
  BY <1>1 DEF Base
<1> QED BY <1>1, <1>2, <1>3 DEF Delivers

\* What the log emits, a stream that goes on owes its reader: queued, or merged
\* into the frame before.
LEMMA EnqueueDelivers ==
  ASSUME NEW s, NEW v, Kept(s, v), NEW log, Delivers(s, v, log),
         NEW p, Payload(p), payloadRowCount(p) \in Nat, Leads(log, Effect(log, p))
  PROVE  LET r == enqueue(s, p)
         IN  Kept(r, v) /\ Stays(s, r) /\ Delivers(r, v, Effect(log, p))
<1> DEFINE r == enqueue(s, p)
           new == Effect(log, p)
           base == Base(s, v)
<1>1. /\ Stays(s, r)
      /\ \/ s.pc = "closed" /\ r = s
         \/ s.pc # "closed" /\ Ended(r)
         \/ /\ r.endReason = s.endReason
            /\ QueueOnly(s, r)
            /\ Queues(s, p, r.queue)
  BY EnqueueStays DEF Kept
<1>2. Ended(s) => Ended(r)
  BY <1>1 DEF Ended, Stays
<1>3. Kept(r, v)
  BY <1>1, <1>2, StaysKeeps
<1> HIDE DEF r
<1>4. ASSUME ~s.aborted, s.pc # "closed", ~Ended(r) PROVE Reaches(base, r.queue, new)
  <2>1. /\ ~Ended(s) /\ Queues(s, p, r.queue) /\ Queued(s.queue)
        /\ Reaches(base, s.queue, log)
    BY <1>1, <1>2, <1>4 DEF Delivers, Kept, Locals
  <2> HIDE DEF base
  <2>2. CASE r.queue = Append(s.queue, makeQueuedFrame(p))
    <3> DEFINE f == makeQueuedFrame(p)
    <3>1. OfLog(f) /\ f.payload = p
      BY DEF OfLog, makeQueuedFrame
    <3> HIDE DEF f
    <3> QED BY <2>1, <2>2, <3>1, ReachesAppend DEF f
  <2>3. CASE /\ s.queue # <<>> /\ Mergeable(Last(s.queue).payload, p)
             /\ r.queue = Append(Front(s.queue), Replacement(Last(s.queue), p))
    <3> DEFINE last == Last(s.queue)
               f == Replacement(last, p)
               kept == Front(s.queue)
    <3>1. OfLog(last) /\ Queued(kept)
      BY <2>1, <2>3, QueueWeights, QueueChanges
    <3>2. OfLog(f) /\ f.payload = coalescePayloads(last.payload, p)
      BY <2>3, <3>1, ReplacementIsOfLog DEF Replacement
    <3>3. PICK z : /\ Reaches(base, kept, z) /\ Leads(z, log)
                   /\ log = Effect(z, last.payload)
      BY <2>1, <2>3, ReachesFront
    <3>4. /\ new = Effect(z, f.payload)
          /\ DOMAIN z.rows \subseteq DOMAIN log.rows
      BY <2>3, <3>1, <3>2, <3>3, MergeIsBoth DEF Leads, OfLog
    <3>5. Leads(z, new)
      BY <3>3, <3>4, LeadsOver
    <3> HIDE DEF last, f, kept, new
    <3> QED BY <2>3, <3>1, <3>2, <3>3, <3>4, <3>5, ReachesAppend DEF f, kept, last
  <2> QED BY <2>1, <2>2, <2>3 DEF Queues
<1>5. Delivers(r, v, new)
  BY <1>1, <1>4, StaysDelivers
<1> QED BY <1>1, <1>3, <1>5 DEF r

\* A handler past the snapshot that goes on takes its reader on.
LEMMA PassesDelivers ==
  ASSUME NEW s, Locals(s), NEW r, GoesOn(s, r), Passes(s, r),
         NEW w, IsView(w), Shown(w), NEW log,
         (~s.aborted /\ ~Ended(s)) => Reaches(Seen(w), s.queue, log)
  PROVE  Delivers(r, w, log)
<1> SUFFICES ASSUME ~s.aborted, r.pc # "closed"
             PROVE  /\ Leads(w, Receive(w, PayloadOf(r.writing)))
                    /\ Snapshot(r, w)
                    /\ ~Ended(r) => Reaches(Base(r, w), r.queue, log)
  BY DEF Delivers, GoesOn
<1>1. Snapshot(r, w)
  BY DEF Passes, Snapshot, Snap
<1> DEFINE p == PayloadOf(r.writing)
           to == Receive(w, p)
<1>2. Base(r, w) = Seen(to) /\ (Ended(r) <=> Ended(s))
  BY DEF Passes, Base, GoesOn, Ended
<1>3. CASE r.queue = s.queue /\ p.kind \in {"none", "ping", "stream-backlog"}
  <2>1. to.rows = w.rows /\ to.phase = w.phase
    BY <1>3 DEF Receive, Apply, IsView
  <2>2. Leads(w, to) /\ Seen(to) = Seen(w)
    BY <2>1, LeadsSame DEF Seen, Shown
  <2> HIDE DEF to
  <2> QED BY <1>1, <1>2, <1>3, <2>2 DEF to
<1>4. CASE /\ ~Ended(s) /\ s.queue # <<>>
           /\ r.queue = Tail(s.queue) /\ r.writing = Head(s.queue)
  <2>1. OfLog(Head(s.queue)) /\ Queued(s.queue)
    BY <1>4, QueueChanges DEF Locals
  <2>2. p = Head(s.queue).payload /\ Payload(p)
    BY <1>4, <2>1 DEF PayloadOf, OfLog
  <2>3. Seen(to) = Effect(Seen(w), p)
    BY <2>2, ReceiveIsEffect, SeenIsShown
  <2> HIDE DEF to
  <2>4. Leads(Seen(w), Seen(to)) /\ Reaches(Seen(to), Tail(s.queue), log)
    BY <1>4, <2>1, <2>2, <2>3, ReachesTail
  <2> QED BY <1>1, <1>2, <1>4, <2>4, SeenIsShown DEF to
<1>5. CASE Ended(s) /\ p.kind \in {"none", "error", "log-reset"}
  <2>1. \/ to.rows = w.rows /\ to.phase = w.phase
        \/ to.rows = <<>> /\ to.phase = "idle"
    BY <1>5 DEF Receive, Apply, IsView, NoView
  <2>2. CASE to.rows = w.rows /\ to.phase = w.phase
    <3>1. Leads(w, to)
      BY <2>2, LeadsSame DEF Shown
    <3> QED BY <1>1, <1>2, <1>5, <3>1
  <2>3. CASE to.rows = <<>> /\ to.phase = "idle"
    <3>1. Shown(to)
      BY <2>3 DEF Shown, Good, Phase
    <3> HIDE DEF to
    <3>2. Leads(w, to)
      BY <2>3, <3>1 DEF Leads
    <3> QED BY <1>1, <1>2, <1>5, <3>2 DEF to
  <2> QED BY <2>1, <2>2, <2>3
<1> QED BY <1>3, <1>4, <1>5 DEF Passes

-----------------------------------------------------------------------------
(* The snapshot.                                                           *)

\* the first k of the rows
Cut(rs, k) == [i \in 1..k |-> rs[i]]

\* A prefix is what it says.
LEMMA PrefixIsCut ==
  ASSUME NEW s, s.snap \in Seq(Rows), NEW n \in Nat
  PROVE  LET k == IF n < Len(s.snap) THEN n ELSE Len(s.snap)
         IN  k \in 0..Len(s.snap) /\ Prefix(s, n) = Cut(s.snap, k)
<1> DEFINE rs == s.snap
           k == IF n < Len(rs) THEN n ELSE Len(rs)
<1>1. Len(rs) \in Nat /\ k \in 0..Len(rs)
  OBVIOUS
<1>2. CASE n < Len(rs)
  <2>1. n \in Int /\ 1 \in Int /\ \A i \in 1..n : rs[i] \in Rows
    BY <1>1, <1>2
  <2>2. /\ SubSeq(rs, 1, n) \in Seq(Rows)
        /\ Len(SubSeq(rs, 1, n)) = IF 1 <= n THEN n - 1 + 1 ELSE 0
        /\ \A i \in 1..(n - 1 + 1) : SubSeq(rs, 1, n)[i] = rs[1 + i - 1]
    BY <2>1, SubSeqProperties
  <2>3. /\ SubSeq(rs, 1, n) \in Seq(Rows) /\ Len(SubSeq(rs, 1, n)) = n
        /\ \A i \in 1..n : SubSeq(rs, 1, n)[i] = rs[i]
    BY <2>2
  <2>4. SubSeq(rs, 1, n) = Cut(rs, n)
    BY <2>3 DEF Cut
  <2> QED BY <1>1, <1>2, <2>4 DEF Prefix
<1>3. CASE ~(n < Len(rs))
  <2>1. rs = Cut(rs, Len(rs))
    BY DEF Cut
  <2> QED BY <1>1, <1>3, <2>1 DEF Prefix
<1> QED BY <1>2, <1>3

\* A chunk is placed after those that came before.
LEMMA ChunkIsNext ==
  ASSUME NEW rs \in Seq(Rows), NEW n \in Nat, NEW m \in Nat, n <= m + 1, m <= Len(rs), n >= 1
  PROVE  /\ SubSeq(rs, n, m) \in Seq(Rows)
         /\ Placed(Cut(rs, n - 1), n, SubSeq(rs, n, m)) = Cut(rs, m)
<1> DEFINE chunk == SubSeq(rs, n, m)
<1>1. n \in Int /\ m \in Int /\ Len(rs) \in Nat
  OBVIOUS
<1>2. \A i \in n..m : rs[i] \in Rows
  BY <1>1
<1>3. /\ chunk \in Seq(Rows) /\ Len(chunk) = IF n <= m THEN m - n + 1 ELSE 0
      /\ \A i \in 1..(m - n + 1) : chunk[i] = rs[n + i - 1]
  BY <1>1, <1>2, SubSeqProperties
<1>4. Len(chunk) = m - n + 1
  BY <1>1, <1>3
<1> HIDE DEF chunk
<1> DEFINE all == Placed(Cut(rs, n - 1), n, chunk)
<1>5. all = [i \in (1..(n - 1)) \cup (n .. n + (m - n + 1) - 1) |->
               IF i >= n /\ i < n + (m - n + 1) THEN chunk[i - n + 1] ELSE Cut(rs, n - 1)[i]]
  BY <1>4 DEF Placed, Cut
<1> HIDE DEF all
<1>6. all = [i \in 1..m |-> all[i]]
  <2>1. (1..(n - 1)) \cup (n .. n + (m - n + 1) - 1) = 1..m
    BY <1>1
  <2> QED BY <1>5, <2>1
<1>7. ASSUME NEW i \in 1..m PROVE all[i] = rs[i]
  <2>1. CASE i < n
    <3>1. i \in 1..(n - 1) /\ ~(i >= n)
      BY <2>1
    <3>2. Cut(rs, n - 1)[i] = rs[i]
      BY <3>1 DEF Cut
    <3> QED BY <1>5, <3>1, <3>2
  <2>2. CASE i >= n
    <3>1. /\ i - n + 1 \in 1..(m - n + 1) /\ n + (i - n + 1) - 1 = i
          /\ i \in n .. n + (m - n + 1) - 1 /\ i < n + (m - n + 1)
      BY <1>1, <2>2
    <3>2. chunk[i - n + 1] = rs[i]
      BY <1>3, <3>1
    <3> QED BY <1>5, <2>2, <3>1, <3>2
  <2> QED BY <2>1, <2>2
<1>8. all = Cut(rs, m)
  BY <1>6, <1>7 DEF Cut
<1> QED BY <1>3, <1>8 DEF all, chunk

\* Part of the rows of a file are rows of a file, and more of them come later.
LEMMA CutsLead ==
  ASSUME NEW rs, Good(rs), NEW j \in 0..Len(rs), NEW k \in 0..Len(rs),
         NEW x, x.rows = Cut(rs, j), x.phase \in Phase,
         NEW y, y.rows = Cut(rs, k), y.phase \in Phase
  PROVE  Leads(x, y)
<1>1. rs \in Seq(Rows) /\ Len(rs) \in Nat /\ j \in Nat /\ k \in Nat
  BY DEF Good
<1>2. ASSUME NEW n \in 0..Len(rs) PROVE Good(Cut(rs, n))
  <2>1. Cut(rs, n) \in Seq(Rows) /\ DOMAIN Cut(rs, n) = 1..n
    BY <1>1 DEF Cut
  <2>2. \A i \in 1..n : Cut(rs, n)[i] = rs[i] /\ i \in DOMAIN rs
    BY <1>1 DEF Cut
  <2> QED BY <2>1, <2>2 DEF Good
<1>3. ASSUME NEW i \in DOMAIN x.rows \cap DOMAIN y.rows
      PROVE  Later(y.rows[i], x.rows[i])
  <2>1. i \in 1..Len(rs) /\ x.rows[i] = rs[i] /\ y.rows[i] = rs[i]
    BY <1>1 DEF Cut
  <2>2. rs[i] \in Rows
    BY <1>1, <2>1
  <2> QED BY <2>1, <2>2 DEF Later, Rows
<1> QED BY <1>2, <1>3 DEF Leads, Shown

\* The snapshot goes on with its next chunk or its end.
LEMMA NextChunkGoesOn ==
  ASSUME NEW s, Settled(s), NEW w, IsView(w), NEW log,
         ~s.aborted => /\ Good(s.snap) /\ w.phase = "idle" /\ w.rows = Prefix(s, s.next - 1)
                       /\ ~Ended(s) => Reaches([rows |-> s.snap, phase |-> s.snapPhase],
                                               s.queue, log),
         Shown(w)
  PROVE  LET r == NextChunk(s)
         IN  GoesOn(s, r) /\ Delivers(r, w, log)
<1> DEFINE rs == s.snap
           n == s.next
           r == NextChunk(s)
           to == Receive(w, PayloadOf(r.writing))
<1>1. /\ rs \in Seq(Rows) /\ Len(rs) \in Nat /\ n \in Nat \ {0} /\ n - 1 \in Nat
  BY DEF Settled, Locals
<1>2. GoesOn(s, r)
  BY AwaitGoesOn DEF NextChunk, PayloadOf
<1>3. CASE n > Len(rs)
  <2>1. r = Await(s, "end", [kind |-> "snapshot-end"])
    BY <1>3 DEF NextChunk
  <2> HIDE DEF r
  <2>2. /\ r.pc = "end" /\ r.writing = [kind |-> "snapshot-end"] /\ r.snap = rs
        /\ r.snapPhase = s.snapPhase /\ r.queue = s.queue
        /\ r.aborted = s.aborted /\ r.endReason = s.endReason
    BY <2>1, AwaitIs DEF Settled
  <2>3. ASSUME ~s.aborted
        PROVE  /\ Leads(w, to) /\ Snapshot(r, w)
               /\ ~Ended(r) => Reaches(Base(r, w), r.queue, log)
    <3>1. to.rows = w.rows /\ to.phase = w.phase
      BY <2>2 DEF Receive, PayloadOf, IsView
    <3> HIDE DEF to
    <3>2. Leads(w, to)
      BY <3>1, LeadsSame DEF Shown
    <3>3. w.rows = rs
      <4>1. ~(n - 1 < Len(rs))
        BY <1>1, <1>3
      <4> QED BY <2>3, <4>1 DEF Prefix
    <3>4. Snapshot(r, w)
      BY <2>2, <2>3, <3>3 DEF Snapshot, Snap
    <3>5. ~Ended(r) => Reaches(Base(r, w), r.queue, log)
      BY <2>2, <2>3 DEF Base, Snap, Ended
    <3> QED BY <3>2, <3>4, <3>5
  <2> QED BY <1>2, <2>2, <2>3 DEF Delivers, r
<1>4. CASE ~(n > Len(rs))
  <2> DEFINE m == Upto(s)
             chunk == SubSeq(rs, n, m)
             payload == [kind |-> "snapshot-chunk", from |-> n, rows |-> chunk]
  <2>1. r = Await(s, "chunk", payload)
    BY <1>4 DEF NextChunk, Upto
  <2>2. m \in Nat /\ n <= m /\ m <= Len(rs)
    BY <1>1, <1>4, ChunkAssumption DEF Upto
  <2> HIDE DEF r, m, chunk
  <2>3. /\ r.pc = "chunk" /\ r.writing = payload /\ r.snap = rs /\ r.next = n
        /\ r.snapPhase = s.snapPhase /\ r.queue = s.queue
        /\ r.aborted = s.aborted /\ r.endReason = s.endReason
    BY <2>1, AwaitIs DEF Settled
  <2>4. ASSUME ~s.aborted
        PROVE  /\ Leads(w, to) /\ Snapshot(r, w)
               /\ ~Ended(r) => Reaches(Base(r, w), r.queue, log)
    <3>1. to.rows = Placed(w.rows, n, chunk) /\ to.phase = w.phase
      BY <2>3 DEF Receive, PayloadOf, IsView
    <3> HIDE DEF to
    <3>2. w.rows = Cut(rs, n - 1) /\ n - 1 \in 0..Len(rs)
      <4>1. n - 1 < Len(rs)
        BY <1>1, <1>4
      <4> QED BY <1>1, <2>4, <4>1, PrefixIsCut
    <3>3. to.rows = Cut(rs, m) /\ m \in 0..Len(rs)
      BY <1>1, <2>2, <3>1, <3>2, ChunkIsNext DEF chunk
    <3>4. Leads(w, to)
      BY <2>4, <3>1, <3>2, <3>3, CutsLead DEF Phase
    <3>5. Upto(r) = m
      BY <2>3 DEF Upto, m
    <3>6. Prefix(r, n - 1) = Prefix(s, n - 1)
      BY <2>3 DEF Prefix
    <3>7. Snapshot(r, w)
      BY <1>1, <1>4, <2>3, <2>4, <3>5, <3>6 DEF Snapshot, Snap, chunk
    <3>8. ~Ended(r) => Reaches(Base(r, w), r.queue, log)
      BY <2>3, <2>4 DEF Base, Snap, Ended
    <3> QED BY <3>4, <3>7, <3>8
  <2> QED BY <1>2, <2>3, <2>4 DEF Delivers, r
<1> QED BY <1>3, <1>4

\* What a reader has heard is shown, and is what it showed or later.
LEMMA HeardIsShown ==
  ASSUME NEW s, NEW v, Kept(s, v), NEW log, Delivers(s, v, log), s.pc # "closed"
  PROVE  /\ IsView(Heard(s, v)) /\ Shown(Heard(s, v)) /\ Leads(v, Heard(s, v))
         /\ s.aborted => Heard(s, v) = v
         /\ ~s.aborted => Heard(s, v) = Receive(v, PayloadOf(s.writing))
<1>1. IsView(v) /\ Shown(v) /\ Leads(v, v)
  BY LeadsSame DEF Kept, Told, Delivers, Shown
<1>2. IsView(Receive(v, PayloadOf(s.writing)))
  BY <1>1 DEF Receive, IsView, NoView
<1>3. CASE s.aborted
  BY <1>1, <1>3 DEF Heard
<1>4. CASE ~s.aborted
  <2>1. Leads(v, Receive(v, PayloadOf(s.writing)))
    BY <1>4 DEF Delivers
  <2> QED BY <1>2, <1>4, <2>1 DEF Heard, Leads
<1> QED BY <1>3, <1>4

\* The first chunk follows on snapshot-begin, unless the stream has to end.
LEMMA BegunGoesOn ==
  ASSUME NEW s, NEW v, Kept(s, v), NEW log, Delivers(s, v, log), s.pc = "begin"
  PROVE  LET r == IF Ended(s) THEN writeTermination(s) ELSE NextChunk(s)
         IN  GoesOn(s, r) /\ Delivers(r, Heard(s, v), log)
<1> DEFINE w == Heard(s, v)
<1>1. Settled(s) /\ Locals(s)
  BY NothingInFlight DEF Kept, Draining
<1>2. /\ IsView(w) /\ Shown(w)
      /\ ~s.aborted => w = Receive(v, PayloadOf(s.writing))
  BY HeardIsShown
<1>3. ~s.aborted => /\ w.rows = <<>> /\ w.phase = "idle" /\ Good(s.snap) /\ s.next = 1
                    /\ ~Ended(s) => Reaches([rows |-> s.snap, phase |-> s.snapPhase],
                                            s.queue, log)
  <2> SUFFICES ASSUME ~s.aborted
               PROVE  /\ w.rows = <<>> /\ w.phase = "idle" /\ Good(s.snap) /\ s.next = 1
                      /\ ~Ended(s) => Reaches([rows |-> s.snap, phase |-> s.snapPhase],
                                              s.queue, log)
    OBVIOUS
  <2>1. Snapshot(s, v) /\ (~Ended(s) => Reaches(Base(s, v), s.queue, log))
    BY DEF Delivers
  <2>2. /\ s.writing = [kind |-> "snapshot-begin"] /\ s.next = 1 /\ v.phase = "idle"
        /\ Good(s.snap)
    BY <2>1 DEF Snapshot, Snap
  <2>3. w = [v EXCEPT !.rows = <<>>]
    BY <1>2, <2>2 DEF Receive, PayloadOf
  <2>4. w.rows = <<>> /\ w.phase = v.phase
    BY <2>3 DEF Kept, Told, IsView
  <2> QED BY <2>1, <2>2, <2>4 DEF Base, Snap
<1> HIDE DEF w
<1>4. CASE Ended(s)
  BY <1>1, <1>2, <1>4, TerminationGoesOn, PassesDelivers DEF w
<1>5. CASE ~Ended(s)
  <2>1. ~s.aborted
    BY <1>1, <1>5 DEF Ended
  <2>2. Prefix(s, 0) = <<>>
    <3>1. Prefix(s, 0) = Cut(s.snap, 0)
      BY <1>1, PrefixIsCut DEF Locals
    <3> QED BY <3>1 DEF Cut
  <2>3. s.next - 1 = 0
    BY <1>3, <2>1
  <2>4. GoesOn(s, NextChunk(s)) /\ Delivers(NextChunk(s), w, log)
    BY <1>1, <1>2, <1>3, <2>1, <2>2, <2>3, NextChunkGoesOn
  <2> QED BY <1>5, <2>4 DEF w
<1> QED BY <1>4, <1>5

\* With a chunk the reader has the snapshot as far as that.
LEMMA ChunkIsHeard ==
  ASSUME NEW s, Locals(s), NEW v, IsView(v), Snapshot(s, v), s.pc = "chunk"
  PROVE  LET w == Receive(v, PayloadOf(s.writing))
         IN  w.rows = Cut(s.snap, Upto(s)) /\ w.phase = "idle"
<1> DEFINE w == Receive(v, PayloadOf(s.writing))
           n == s.next
           m == Upto(s)
           chunk == SubSeq(s.snap, n, m)
<1>1. /\ n <= Len(s.snap) /\ v.phase = "idle"
      /\ s.writing = [kind |-> "snapshot-chunk", from |-> n, rows |-> chunk]
      /\ v.rows = Prefix(s, n - 1)
  BY DEF Snapshot, Snap
<1>2. /\ n \in Nat /\ n >= 1 /\ n - 1 \in Nat /\ m \in Nat /\ n <= m + 1
      /\ m <= Len(s.snap) /\ s.snap \in Seq(Rows) /\ n - 1 < Len(s.snap)
  BY <1>1, ChunkAssumption DEF Upto, Locals
<1>3. v.rows = Cut(s.snap, n - 1)
  BY <1>1, <1>2, PrefixIsCut
<1>4. w = [v EXCEPT !.rows = Placed(@, n, chunk)]
  BY <1>1 DEF Receive, PayloadOf
<1>5. w.rows = Placed(v.rows, n, chunk) /\ w.phase = v.phase
  BY <1>4 DEF IsView
<1> HIDE DEF n, m, w
<1>6. w.rows = Cut(s.snap, m) /\ w.phase = "idle"
  BY <1>1, <1>2, <1>3, <1>5, ChunkIsNext
<1> QED BY <1>6 DEF w, m

\* After a chunk the handler sleeps.
LEMMA ChunkGoesOn ==
  ASSUME NEW s, NEW v, Kept(s, v), NEW log, Delivers(s, v, log), s.pc = "chunk"
  PROVE  LET r == IF Ended(s) THEN writeTermination(s)
                  ELSE Await([s EXCEPT !.next = @ + SNAPSHOT_CHUNK], "sleep", NoPayload)
         IN  GoesOn(s, r) /\ Delivers(r, Heard(s, v), log)
<1> DEFINE w == Heard(s, v)
           t == [s EXCEPT !.next = @ + SNAPSHOT_CHUNK]
           r == Await(t, "sleep", NoPayload)
<1>1. Settled(s) /\ Locals(s)
  BY NothingInFlight DEF Kept, Draining
<1>2. /\ IsView(w) /\ Shown(w)
      /\ ~s.aborted => w = Receive(v, PayloadOf(s.writing))
  BY HeardIsShown
<1>3. CASE Ended(s)
  <2> HIDE DEF w
  <2> QED BY <1>1, <1>2, <1>3, TerminationGoesOn, PassesDelivers DEF w
<1>4. CASE ~Ended(s)
  <2>1. ~s.aborted
    BY <1>1, <1>4 DEF Ended
  <2>2. /\ Snapshot(s, v) /\ Reaches(Base(s, v), s.queue, log)
    BY <1>4, <2>1 DEF Delivers
  <2>3. /\ s.next <= Len(s.snap) /\ v.phase = "idle" /\ Good(s.snap)
        /\ s.writing = [kind |-> "snapshot-chunk", from |-> s.next,
                        rows |-> SubSeq(s.snap, s.next, Upto(s))]
        /\ v.rows = Prefix(s, s.next - 1)
    BY <2>2 DEF Snapshot, Snap
  <2>4. /\ Locals(t) /\ t.next = s.next + SNAPSHOT_CHUNK /\ t.snap = s.snap
        /\ t.snapPhase = s.snapPhase /\ t.queue = s.queue
        /\ t.aborted = s.aborted /\ t.endReason = s.endReason
        /\ t.pendingFrames = s.pendingFrames /\ t.pendingBytes = s.pendingBytes
        /\ t.pendingRows = s.pendingRows
    <3>1. s.next + SNAPSHOT_CHUNK \in Nat \ {0}
      BY <1>1, ChunkAssumption DEF Locals
    <3> QED BY <1>1, <3>1, FieldsAre DEF Locals
  <2> HIDE DEF t
  <2>5. Settled(t)
    BY <1>1, <2>4 DEF Settled, Counts, exceedsLimits
  <2>6. /\ GoesOn(t, r)
        /\ r.pc = "sleep" /\ r.writing = NoPayload /\ r.snap = s.snap
        /\ r.next = s.next + SNAPSHOT_CHUNK /\ r.snapPhase = s.snapPhase
        /\ r.queue = s.queue /\ r.aborted = s.aborted /\ r.endReason = s.endReason
    BY <2>4, <2>5, AwaitGoesOn, AwaitIs DEF PayloadOf, NoPayload
  <2> HIDE DEF r
  <2>7. w.rows = Cut(s.snap, Upto(s)) /\ w.phase = "idle"
    <3>1. IsView(v) /\ Snapshot(s, v)
      BY <2>2 DEF Kept, Told
    <3> HIDE DEF w
    <3> QED BY <1>1, <1>2, <2>1, <3>1, ChunkIsHeard
  <2>8. Prefix(r, r.next - 1) = Cut(s.snap, Upto(s))
    <3>1. /\ s.snap \in Seq(Rows) /\ r.next - 1 \in Nat
          /\ r.next - 1 = s.next + SNAPSHOT_CHUNK - 1
      BY <1>1, <2>6, ChunkAssumption DEF Locals
    <3>2. Prefix(r, r.next - 1) =
            Cut(s.snap, IF r.next - 1 < Len(s.snap) THEN r.next - 1 ELSE Len(s.snap))
      BY <2>6, <3>1, PrefixIsCut
    <3> QED BY <3>1, <3>2 DEF Upto
  <2> HIDE DEF w
  <2>9. Snapshot(r, w)
    BY <2>3, <2>6, <2>7, <2>8 DEF Snapshot, Snap
  <2>10. Leads(w, Receive(w, PayloadOf(r.writing)))
    <3> DEFINE to == Receive(w, PayloadOf(r.writing))
    <3>1. to.rows = w.rows /\ to.phase = w.phase
      BY <1>2, <2>6 DEF Receive, PayloadOf, NoPayload, Apply, IsView
    <3> HIDE DEF to
    <3>2. Leads(w, to)
      BY <1>2, <3>1, LeadsSame DEF Shown
    <3> QED BY <3>2 DEF to
  <2>11. Reaches(Base(r, w), r.queue, log)
    BY <2>2, <2>6 DEF Base, Snap
  <2>12. Delivers(r, w, log)
    BY <1>2, <2>9, <2>10, <2>11 DEF Delivers
  <2>13. GoesOn(s, r)
    BY <2>4, <2>6 DEF GoesOn
  <2> QED BY <1>4, <2>12, <2>13 DEF w, r, t
<1> QED BY <1>3, <1>4

\* After the pause comes the next chunk.
LEMMA SleptGoesOn ==
  ASSUME NEW s, NEW v, Kept(s, v), NEW log, Delivers(s, v, log), s.pc = "sleep"
  PROVE  LET r == NextChunk(s)
         IN  GoesOn(s, r) /\ Delivers(r, Heard(s, v), log)
<1> DEFINE w == Heard(s, v)
<1>1. Settled(s) /\ Locals(s)
  BY NothingInFlight DEF Kept, Draining
<1>2. /\ IsView(w) /\ Shown(w)
      /\ ~s.aborted => w = Receive(v, PayloadOf(s.writing))
  BY HeardIsShown
<1>3. ASSUME ~s.aborted
      PROVE  /\ Good(s.snap) /\ w.phase = "idle" /\ w.rows = Prefix(s, s.next - 1)
             /\ ~Ended(s) => Reaches([rows |-> s.snap, phase |-> s.snapPhase], s.queue, log)
  <2>1. Snapshot(s, v) /\ (~Ended(s) => Reaches(Base(s, v), s.queue, log))
    BY <1>3 DEF Delivers
  <2>2. /\ s.writing = NoPayload /\ v.phase = "idle" /\ Good(s.snap)
        /\ v.rows = Prefix(s, s.next - 1)
    BY <2>1 DEF Snapshot, Snap
  <2>3. w.rows = v.rows /\ w.phase = v.phase
    BY <1>2, <1>3, <2>2 DEF Receive, PayloadOf, NoPayload, Apply, Kept, Told, IsView
  <2> QED BY <2>1, <2>2, <2>3 DEF Base, Snap
<1> HIDE DEF w
<1>4. GoesOn(s, NextChunk(s)) /\ Delivers(NextChunk(s), w, log)
  BY <1>1, <1>2, <1>3, NextChunkGoesOn
<1> QED BY <1>4 DEF w

\* After the snapshot comes its phase, or at once what was queued.
LEMMA SnapshotEndGoesOn ==
  ASSUME NEW s, NEW v, Kept(s, v), NEW log, Delivers(s, v, log), s.pc = "end"
  PROVE  LET r == IF s.snapPhase # "idle"
                  THEN Await(s, "progress", ProgressFrame(s.snapPhase)) ELSE Baseline(s)
         IN  GoesOn(s, r) /\ Delivers(r, Heard(s, v), log)
<1> DEFINE w == Heard(s, v)
           r == Await(s, "progress", ProgressFrame(s.snapPhase))
<1>1. Settled(s) /\ Locals(s)
  BY NothingInFlight DEF Kept, Draining
<1>2. /\ IsView(w) /\ Shown(w)
      /\ ~s.aborted => w = Receive(v, PayloadOf(s.writing))
  BY HeardIsShown
<1>3. ASSUME ~s.aborted
      PROVE  /\ Good(s.snap) /\ w.phase = "idle" /\ w.rows = s.snap
             /\ ~Ended(s) => Reaches([rows |-> s.snap, phase |-> s.snapPhase], s.queue, log)
  <2>1. Snapshot(s, v) /\ (~Ended(s) => Reaches(Base(s, v), s.queue, log))
    BY <1>3 DEF Delivers
  <2>2. /\ s.writing = [kind |-> "snapshot-end"] /\ v.phase = "idle" /\ Good(s.snap)
        /\ v.rows = s.snap
    BY <2>1 DEF Snapshot, Snap
  <2>3. w.rows = v.rows /\ w.phase = v.phase
    BY <1>2, <1>3, <2>2 DEF Receive, PayloadOf, Kept, Told, IsView
  <2> QED BY <2>1, <2>2, <2>3 DEF Base, Snap
<1> HIDE DEF w
<1>4. CASE s.snapPhase = "idle"
  <2>1. (~s.aborted /\ ~Ended(s)) => Reaches(Seen(w), s.queue, log)
    BY <1>3, <1>4 DEF Seen
  <2>2. GoesOn(s, Baseline(s)) /\ Passes(s, Baseline(s))
    BY <1>1, BaselineGoesOn
  <2>3. Delivers(Baseline(s), w, log)
    BY <1>1, <1>2, <2>1, <2>2, PassesDelivers
  <2> QED BY <1>4, <2>2, <2>3 DEF w
<1>5. CASE s.snapPhase # "idle"
  <2>1. GoesOn(s, r)
    BY <1>1, AwaitGoesOn DEF ProgressFrame, PayloadOf
  <2>2. /\ r.pc = "progress" /\ r.writing = ProgressFrame(s.snapPhase) /\ r.snap = s.snap
        /\ r.snapPhase = s.snapPhase /\ r.queue = s.queue
        /\ r.aborted = s.aborted /\ r.endReason = s.endReason
    BY <1>1, AwaitIs
  <2> HIDE DEF r
  <2>3. ASSUME ~s.aborted
        PROVE  /\ Leads(w, Receive(w, PayloadOf(r.writing)))
               /\ Snapshot(r, w)
               /\ ~Ended(r) => Reaches(Base(r, w), r.queue, log)
    <3> DEFINE to == Receive(w, PayloadOf(r.writing))
    <3>1. to.rows = w.rows /\ to.phase = s.snapPhase
      BY <1>2, <2>2 DEF Receive, PayloadOf, ProgressFrame, IsView
    <3> HIDE DEF to
    <3>2. Leads(w, to)
      BY <1>1, <1>2, <3>1, LeadsSame DEF Shown, Locals
    <3>3. Snapshot(r, w)
      BY <1>3, <2>2, <2>3 DEF Snapshot, Snap
    <3>4. ~Ended(r) => Reaches(Base(r, w), r.queue, log)
      BY <1>3, <2>2, <2>3 DEF Base, Snap, Ended
    <3> QED BY <3>2, <3>3, <3>4 DEF to
  <2>4. Delivers(r, w, log)
    BY <1>2, <2>2, <2>3 DEF Delivers
  <2> QED BY <1>5, <2>1, <2>4 DEF w, r
<1> QED BY <1>4, <1>5

\* After the phase what was queued.
LEMMA ProgressGoesOn ==
  ASSUME NEW s, NEW v, Kept(s, v), NEW log, Delivers(s, v, log), s.pc = "progress"
  PROVE  LET r == Baseline(s)
         IN  GoesOn(s, r) /\ Delivers(r, Heard(s, v), log)
<1> DEFINE w == Heard(s, v)
<1>1. Settled(s) /\ Locals(s)
  BY NothingInFlight DEF Kept, Draining
<1>2. /\ IsView(w) /\ Shown(w)
      /\ ~s.aborted => w = Receive(v, PayloadOf(s.writing))
  BY HeardIsShown
<1>3. ASSUME ~s.aborted, ~Ended(s)
      PROVE  Reaches(Seen(w), s.queue, log)
  <2>1. Snapshot(s, v) /\ Reaches(Base(s, v), s.queue, log)
    BY <1>3 DEF Delivers
  <2>2. s.writing = ProgressFrame(s.snapPhase) /\ v.rows = s.snap
    BY <2>1 DEF Snapshot
  <2>3. w.rows = v.rows /\ w.phase = s.snapPhase
    BY <1>2, <1>3, <2>2 DEF Receive, PayloadOf, ProgressFrame, Kept, Told, IsView
  <2> QED BY <2>1, <2>2, <2>3 DEF Base, Snap, Seen
<1> HIDE DEF w
<1>4. GoesOn(s, Baseline(s)) /\ Passes(s, Baseline(s))
  BY <1>1, BaselineGoesOn
<1>5. Delivers(Baseline(s), w, log)
  BY <1>1, <1>2, <1>3, <1>4, PassesDelivers
<1> QED BY <1>4, <1>5 DEF w

\* Past the snapshot the handler goes on as it has settled what it wrote.
LEMMA LiveGoesOn ==
  ASSUME NEW s, NEW v, Kept(s, v), NEW log, Delivers(s, v, log),
         s.pc \notin Snap \cup {"closed"},
         NEW t, Settled(t), t.queue = s.queue, t.aborted = s.aborted,
         t.endReason = s.endReason, NEW r, GoesOn(t, r), Passes(t, r)
  PROVE  GoesOn(s, r) /\ Delivers(r, Heard(s, v), log)
<1> DEFINE w == Heard(s, v)
<1>1. /\ IsView(w) /\ Shown(w)
      /\ ~s.aborted => w = Receive(v, PayloadOf(s.writing))
  BY HeardIsShown
<1>2. (~t.aborted /\ ~Ended(t)) => Reaches(Seen(w), t.queue, log)
  BY <1>1 DEF Delivers, Base, Ended
<1> HIDE DEF w
<1>3. Delivers(r, w, log)
  BY <1>1, <1>2, PassesDelivers DEF Settled
<1> QED BY <1>3 DEF GoesOn, w

-----------------------------------------------------------------------------
(* All streams.                                                            *)

\* the log as its readers see it: the rows of the file shown, and its phase
Log == [rows |-> rows, phase |-> phase]
LogOK == /\ rows \in Seq(Rows) /\ phase \in Phase /\ file \in 0..MaxFiles
         /\ \A i \in DOMAIN rows : rows[i].file = file

\* the streams that are open
Opened == {c \in Stream : IsOpen(c)}

\* the slots taken are those of the streams that are open
Slots == /\ IsFiniteSet(Opened)
         /\ activeStreams = Cardinality(Opened)
         /\ activeStreams <= MAX_SSE_CONNECTIONS

\* the inductive invariant of Spec
IInv == /\ stream = [c \in Stream |-> stream[c]]
        /\ view = [c \in Stream |-> view[c]]
        /\ \A c \in Stream : Kept(stream[c], view[c])
        /\ \A c \in Stream : Delivers(stream[c], view[c], Log)
        /\ Slots
        /\ LogOK

\* The log is shown as a reader is.
LEMMA LogIsShown == LogOK => Shown(Log)
  BY DEF LogOK, Log, Shown, Good

\* No stream opens or closes.
LEMMA SameSlots ==
  ASSUME Slots, UNCHANGED activeStreams, \A c \in Stream : stream'[c].pc = stream[c].pc
  PROVE  Slots'
<1>1. Opened' = Opened
  BY DEF Opened, IsOpen
<1> QED BY <1>1 DEF Slots

\* The streams hear the log, or that it is gone.
LEMMA SourceKeeps ==
  ASSUME IInv, UNCHANGED <<activeStreams, view>>, LogOK',
         stream' = [c \in Stream |-> stream'[c]],
         \A c \in Stream : /\ Kept(stream'[c], view[c]) /\ Stays(stream[c], stream'[c])
                           /\ Delivers(stream'[c], view[c], Log')
  PROVE  IInv'
<1>1. \A c \in Stream : stream'[c].pc = stream[c].pc
  BY DEF Stays
<1> QED BY <1>1, SameSlots DEF IInv

\* A handler goes on; where it closes it gives its slot back.
LEMMA ResumeKeeps ==
  ASSUME IInv, NEW c \in Stream, IsOpen(c), NEW r, Resume(c, r),
         Kept(r, Heard(stream[c], view[c])), Delivers(r, Heard(stream[c], view[c]), Log)
  PROVE  IInv'
<1>1. /\ stream' = [d \in Stream |-> IF d = c THEN r ELSE stream[d]]
      /\ view' = [d \in Stream |-> IF d = c THEN Heard(stream[c], view[c]) ELSE view[d]]
  BY DEF Resume, IInv, Heard
<1>2. \A d \in Stream : Kept(stream'[d], view'[d])
  BY <1>1 DEF IInv
<1>3. LogOK' /\ Log' = Log
  BY DEF IInv, LogOK, Log, Resume
<1>4. \A d \in Stream : Delivers(stream'[d], view'[d], Log')
  BY <1>1, <1>3 DEF IInv
<1>5. Slots'
  <2>1. CASE r.pc = "closed"
    <3>1. Opened' = Opened \ {c} /\ c \in Opened
      BY <1>1, <2>1 DEF Opened, IsOpen
    <3>2. activeStreams' = activeStreams - 1
      BY <2>1 DEF Resume
    <3>3. /\ IsFiniteSet(Opened \ {c}) /\ Cardinality(Opened) \in Nat
          /\ Cardinality(Opened \ {c}) = Cardinality(Opened) - 1
      BY <3>1, FS_RemoveElement, FS_CardinalityType DEF IInv, Slots
    <3> QED BY <3>1, <3>2, <3>3, CapAssumption DEF IInv, Slots
  <2>2. CASE r.pc # "closed"
    <3>1. \A d \in Stream : stream'[d].pc = "closed" <=> stream[d].pc = "closed"
      BY <1>1, <2>2 DEF IsOpen
    <3>2. Opened' = Opened
      BY <3>1 DEF Opened, IsOpen
    <3> QED BY <2>2, <3>2 DEF Resume, IInv, Slots
  <2> QED BY <2>1, <2>2
<1> QED BY <1>1, <1>2, <1>3, <1>4, <1>5 DEF IInv

\* The log emits a frame that leads to what it has become.
LEMMA EmittedKeeps ==
  ASSUME IInv, NEW p, Payload(p), payloadRowCount(p) \in Nat, Emitted(p),
         UNCHANGED <<activeStreams, view>>, LogOK',
         Log' = Effect(Log, p), Leads(Log, Effect(Log, p))
  PROVE  IInv'
<1>1. ASSUME NEW c \in Stream
      PROVE  /\ Kept(stream'[c], view[c]) /\ Stays(stream[c], stream'[c])
             /\ Delivers(stream'[c], view[c], Log')
  <2>1. stream'[c] = enqueue(stream[c], p) /\ Kept(stream[c], view[c])
        /\ Delivers(stream[c], view[c], Log)
    BY DEF Emitted, IInv
  <2> QED BY <2>1, EnqueueDelivers
<1>2. stream' = [c \in Stream |-> stream'[c]]
  BY DEF Emitted
<1> QED BY <1>1, <1>2, SourceKeeps

\* A row is appended to the log.
LEMMA AppendKeeps == IInv /\ SourceAppend => IInv'
<1> SUFFICES ASSUME IInv, SourceAppend PROVE IInv'
  OBVIOUS
<1> DEFINE r == Row(file, 0)
           n == Len(rows)
           p == AppendFrame(n + 1, <<r>>)
<1>1. /\ rows \in Seq(Rows) /\ phase \in Phase /\ n \in Nat
      /\ \A i \in 1..n : rows[i].file = file
  BY DEF IInv, LogOK
<1>2. r \in Rows /\ r.file = file
  BY BoundsAssumption DEF Row, Rows, IInv, LogOK
<1> HIDE DEF r
<1>3. /\ p.kind = "append" /\ p.from = n + 1 /\ p.rows = <<r>>
      /\ rows' = Append(rows, r) /\ phase' = phase /\ file' = file
      /\ Emitted(p) /\ UNCHANGED <<activeStreams, view>>
  BY DEF SourceAppend, AppendFrame, r
<1> HIDE DEF p
<1>4. Payload(p) /\ payloadRowCount(p) \in Nat
  BY <1>1, <1>2, <1>3 DEF Payload, payloadRowCount
<1>5. /\ rows' \in Seq(Rows) /\ Len(rows') = n + 1
      /\ \A i \in 1..(n + 1) : rows'[i] = IF i = n + 1 THEN r ELSE rows[i]
  BY <1>1, <1>2, <1>3
<1>6. LogOK'
  BY <1>1, <1>2, <1>3, <1>5 DEF IInv, LogOK
<1>7. Placed(rows, n + 1, <<r>>) = rows'
  <2> DEFINE all == Placed(rows, n + 1, <<r>>)
  <2>1. /\ Len(<<r>>) = 1 /\ <<r>>[1] = r /\ DOMAIN rows = 1..n
        /\ (n + 1) .. (n + 1) + 1 - 1 = {n + 1} /\ 1..n \cup {n + 1} = 1..(n + 1)
    BY <1>1
  <2> HIDE DEF n
  <2>2. all = [i \in 1..(n + 1) |->
                 IF i >= n + 1 /\ i < (n + 1) + 1 THEN <<r>>[i - (n + 1) + 1] ELSE rows[i]]
    BY <2>1 DEF Placed
  <2> HIDE DEF all
  <2>3. \A i \in 1..(n + 1) : all[i] = IF i = n + 1 THEN r ELSE rows[i]
    <3>1. ASSUME NEW i \in 1..(n + 1) PROVE all[i] = IF i = n + 1 THEN r ELSE rows[i]
      <4>1. CASE i = n + 1
        <5>1. i >= n + 1 /\ i < (n + 1) + 1 /\ i - (n + 1) + 1 = 1
          BY <1>1, <4>1
        <5> QED BY <2>1, <2>2, <4>1, <5>1
      <4>2. CASE i # n + 1
        <5>1. ~(i >= n + 1)
          BY <1>1, <4>2
        <5> QED BY <2>2, <4>2, <5>1
      <4> QED BY <4>1, <4>2
    <3> QED BY <3>1
  <2>4. /\ DOMAIN all = 1..(n + 1) /\ all = [i \in DOMAIN all |-> all[i]]
        /\ DOMAIN rows' = 1..(n + 1) /\ rows' = [i \in DOMAIN rows' |-> rows'[i]]
    BY <1>5, <2>2
  <2>5. all = rows'
    BY <1>5, <2>3, <2>4
  <2> QED BY <2>5 DEF all
<1>8. Effect(Log, p) = Log'
  BY <1>3, <1>7 DEF Effect, Log, Apply
<1>9. Leads(Log, Effect(Log, p))
  <2>1. Shown(Log) /\ Shown(Log')
    BY <1>6, LogIsShown DEF IInv, LogOK, Log, Shown, Good
  <2>2. ASSUME NEW i \in 1..n PROVE Later(rows'[i], rows[i])
    <3>1. rows'[i] = rows[i] /\ rows[i] \in Rows
      BY <1>1, <1>5
    <3> QED BY <3>1 DEF Later, Rows
  <2>3. \A i \in DOMAIN Log.rows \cap DOMAIN Log'.rows : Later(Log'.rows[i], Log.rows[i])
    BY <1>1, <2>2 DEF Log
  <2> QED BY <1>8, <2>1, <2>3 DEF Leads
<1> QED BY <1>3, <1>4, <1>6, <1>8, <1>9, EmittedKeeps

\* A row of the log is patched.
LEMMA PatchKeeps ==
  ASSUME IInv, NEW i \in DOMAIN rows, SourcePatch(i)
  PROVE  IInv'
<1> DEFINE r == Row(file, rows[i].patches + 1)
           p == RowPatch(i, r)
<1>1. /\ rows \in Seq(Rows) /\ phase \in Phase
      /\ \A j \in DOMAIN rows : rows[j].file = file
      /\ rows[i] \in Rows
  BY DEF IInv, LogOK
<1>2. r \in Rows /\ Later(r, rows[i]) /\ r.file = file
  <2>1. rows[i].patches + 1 \in 0..MaxPatches /\ file \in 0..MaxFiles
    BY <1>1, BoundsAssumption DEF SourcePatch, Rows, IInv, LogOK
  <2> QED BY <1>1, <2>1 DEF Row, Rows, Later
<1> HIDE DEF r
<1>3. /\ p.kind = "patch" /\ DOMAIN p.updates = {i} /\ p.updates[i] = r
      /\ rows' = Patched(rows, p.updates) /\ phase' = phase /\ file' = file
      /\ Emitted(p) /\ UNCHANGED <<activeStreams, view>>
  BY DEF SourcePatch, RowPatch, PatchFrame, r
<1> HIDE DEF p
<1>4. Payload(p) /\ payloadRowCount(p) \in Nat
  BY <1>3, FS_Singleton DEF Payload, payloadRowCount
<1>5. rows' = [j \in DOMAIN rows |-> IF j = i THEN r ELSE rows[j]]
  BY <1>3 DEF Patched
<1>6. /\ DOMAIN rows' = DOMAIN rows /\ rows' \in Seq(Rows)
      /\ \A j \in DOMAIN rows : rows'[j] = IF j = i THEN r ELSE rows[j]
  <2>1. \A j \in DOMAIN rows : (IF j = i THEN r ELSE rows[j]) \in Rows
    BY <1>1, <1>2
  <2>2. DOMAIN rows = 1..Len(rows) /\ Len(rows) \in Nat
    BY <1>1
  <2>3. rows' \in [1..Len(rows) -> Rows]
    BY <1>5, <2>1, <2>2
  <2> QED BY <1>5, <2>2, <2>3
<1>7. LogOK'
  BY <1>1, <1>2, <1>3, <1>6 DEF IInv, LogOK
<1>8. Effect(Log, p) = Log'
  BY <1>3 DEF Effect, Log, Apply
<1>9. Leads(Log, Effect(Log, p))
  <2>1. Shown(Log) /\ Shown(Log')
    BY <1>7, LogIsShown DEF IInv, LogOK, Log, Shown, Good
  <2>2. ASSUME NEW j \in DOMAIN rows PROVE Later(rows'[j], rows[j])
    <3>1. rows[j] \in Rows /\ rows'[j] = IF j = i THEN r ELSE rows[j]
      BY <1>1, <1>6
    <3>2. Later(rows[j], rows[j])
      BY <3>1 DEF Later, Rows
    <3> QED BY <1>2, <3>1, <3>2
  <2>3. \A j \in DOMAIN Log.rows \cap DOMAIN Log'.rows : Later(Log'.rows[j], Log.rows[j])
    BY <2>2 DEF Log
  <2> QED BY <1>8, <2>1, <2>3 DEF Leads
<1> QED BY <1>3, <1>4, <1>7, <1>8, <1>9, EmittedKeeps

\* The load of the log goes on.
LEMMA ProgressKeeps ==
  ASSUME IInv, NEW ph \in {"loading", "complete"}, SourceProgress(ph)
  PROVE  IInv'
<1> DEFINE p == ProgressFrame(ph)
<1>1. /\ p.kind = "load-progress" /\ p.phase = ph /\ ph \in Phase
      /\ phase' = ph /\ rows' = rows /\ file' = file
      /\ Emitted(p) /\ UNCHANGED <<activeStreams, view>>
  BY DEF SourceProgress, ProgressFrame, Phase
<1> HIDE DEF p
<1>2. Payload(p) /\ payloadRowCount(p) \in Nat
  BY <1>1 DEF Payload, payloadRowCount
<1>3. LogOK'
  BY <1>1 DEF IInv, LogOK
<1>4. Effect(Log, p) = Log'
  BY <1>1 DEF Effect, Log, Apply
<1>5. Leads(Log, Effect(Log, p))
  BY <1>1, <1>4, LogIsShown, LeadsSame DEF IInv, Log
<1> QED BY <1>1, <1>2, <1>3, <1>4, <1>5, EmittedKeeps

\* A watch error is a frame like others, which leaves the log as it is.
LEMMA ErrorIsNothing ==
  ASSUME LogOK
  PROVE  /\ Payload(WatchError) /\ payloadRowCount(WatchError) \in Nat
         /\ Effect(Log, WatchError) = Log /\ Leads(Log, Log)
<1>1. WatchError.kind = "watch-error"
  BY DEF WatchError, WatchErrorFrame
<1> HIDE DEF WatchError
<1>2. Payload(WatchError) /\ payloadRowCount(WatchError) \in Nat
  BY <1>1 DEF Payload, payloadRowCount
<1>3. Effect(Log, WatchError) = Log
  BY <1>1 DEF Effect, Log, Apply
<1>4. Leads(Log, Log)
  BY LogIsShown, LeadsSame DEF LogOK, Log
<1> QED BY <1>2, <1>3, <1>4

LEMMA ErrorKeeps == IInv /\ SourceError => IInv'
<1> SUFFICES ASSUME IInv, SourceError PROVE IInv'
  OBVIOUS
<1>1. /\ UNCHANGED <<rows, phase, file, activeStreams, view>>
      /\ Emitted(WatchError) /\ LogOK
  BY DEF SourceError, IInv
<1>2. LogOK' /\ Log' = Log
  BY <1>1 DEF LogOK, Log
<1> QED BY <1>1, <1>2, ErrorIsNothing, EmittedKeeps

\* The file is replaced by another: two frames say so.
LEMMA RotationKeeps == IInv /\ SourceRotation => IInv'
<1> SUFFICES ASSUME IInv, SourceRotation PROVE IInv'
  OBVIOUS
<1> DEFINE p == ProgressFrame("idle")
           q == RotationFrame
           mid == [rows |-> rows, phase |-> "idle"]
<1>1. /\ p.kind = "load-progress" /\ p.phase = "idle" /\ q.kind = "rotation"
      /\ phase' = "idle" /\ rows' = <<>> /\ file' = file + 1
      /\ UNCHANGED <<activeStreams, view>>
      /\ stream' = [c \in Stream |-> enqueue(enqueue(stream[c], p), q)]
  BY DEF SourceRotation, ProgressFrame, RotationFrame
<1> HIDE DEF p, q
<1>2. /\ Payload(p) /\ payloadRowCount(p) \in Nat
      /\ Payload(q) /\ payloadRowCount(q) \in Nat
  BY <1>1 DEF Payload, payloadRowCount, Phase
<1>3. LogOK'
  <2>1. file + 1 \in 0..MaxFiles
    BY BoundsAssumption DEF IInv, LogOK, SourceRotation
  <2> QED BY <1>1, <2>1 DEF LogOK, Phase
<1>4. /\ Effect(Log, p) = mid /\ Leads(Log, mid) /\ Shown(mid)
  <2>1. Effect(Log, p) = mid
    BY <1>1 DEF Effect, Log, Apply
  <2>2. Shown(Log) /\ mid.rows = Log.rows /\ mid.phase \in Phase
    BY LogIsShown DEF IInv, Log, Phase
  <2> HIDE DEF mid
  <2>3. Leads(Log, mid)
    BY <2>2, LeadsSame
  <2> QED BY <2>1, <2>3 DEF Leads
<1>5. Effect(mid, q) = Log' /\ Leads(mid, Log')
  <2>1. Effect(mid, q) = Log'
    BY <1>1 DEF Effect, Log, Apply
  <2>2. Shown(Log') /\ Log'.rows = <<>>
    BY <1>1, <1>3 DEF LogOK, Log, Shown, Good
  <2> QED BY <1>4, <2>1, <2>2 DEF Leads
<1> HIDE DEF mid
<1>6. ASSUME NEW c \in Stream
      PROVE  /\ Kept(stream'[c], view[c]) /\ Stays(stream[c], stream'[c])
             /\ Delivers(stream'[c], view[c], Log')
  <2> DEFINE s == stream[c]
             t == enqueue(s, p)
             r == enqueue(t, q)
  <2>1. Kept(s, view[c]) /\ Delivers(s, view[c], Log) /\ stream'[c] = r
    BY <1>1 DEF IInv
  <2> HIDE DEF s
  <2>2. Kept(t, view[c]) /\ Stays(s, t) /\ Delivers(t, view[c], mid)
    BY <1>2, <1>4, <2>1, EnqueueDelivers
  <2> HIDE DEF t
  <2>3. Kept(r, view[c]) /\ Stays(t, r) /\ Delivers(r, view[c], Log')
    BY <1>2, <1>5, <2>2, EnqueueDelivers
  <2>4. Stays(s, r)
    <3>1. InFlight(t) = InFlight(s)
      BY <2>2 DEF Stays, InFlight, Draining
    <3> HIDE DEF r
    <3> QED BY <2>2, <2>3, <3>1 DEF Stays, SameSnap
  <2> QED BY <2>1, <2>3, <2>4 DEF s
<1>7. stream' = [c \in Stream |-> stream'[c]]
  BY <1>1
<1> QED BY <1>1, <1>3, <1>6, <1>7, SourceKeeps

\* Another log is open: every stream has to end.
LEMMA SessionKeeps == IInv /\ SessionChange => IInv'
<1> SUFFICES ASSUME IInv, SessionChange PROVE IInv'
  OBVIOUS
<1>1. LogOK'
  <2>1. file + 1 \in 0..MaxFiles
    BY BoundsAssumption DEF IInv, LogOK, SessionChange
  <2> QED BY <2>1 DEF LogOK, Phase, SessionChange
<1>2. ASSUME NEW c \in Stream
      PROVE  /\ Kept(stream'[c], view[c]) /\ Stays(stream[c], stream'[c])
             /\ Delivers(stream'[c], view[c], Log')
  <2> DEFINE s == stream[c]
             r == requestEnd(s, "reset")
  <2>1. Kept(s, view[c]) /\ Delivers(s, view[c], Log) /\ stream'[c] = r
    BY DEF IInv, SessionChange
  <2>2. Stays(s, r) /\ (s.pc # "closed" => Ended(r))
    BY <2>1, RequestEndStays DEF Kept
  <2>3. Ended(s) => Ended(r)
    BY <2>2 DEF Stays
  <2> HIDE DEF s, r
  <2>4. Kept(r, view[c])
    BY <2>1, <2>2, <2>3, StaysKeeps
  <2>5. Delivers(r, view[c], Log')
    BY <2>1, <2>2, StaysDelivers
  <2> QED BY <2>1, <2>2, <2>4, <2>5 DEF s
<1>3. stream' = [c \in Stream |-> stream'[c]] /\ UNCHANGED <<activeStreams, view>>
  BY DEF SessionChange
<1> QED BY <1>1, <1>2, <1>3, SourceKeeps

\* The log emits one frame, two, or is replaced.
LEMMA LogKeeps == IInv /\ Source => IInv'
  BY AppendKeeps, PatchKeeps, ProgressKeeps, ErrorKeeps, RotationKeeps, SessionKeeps
  DEF Source

\* r[k] is the handler s once k errors have been told again
Retells(r, s, k) ==
  /\ r = [n \in 0..k |-> r[n]]
  /\ r[0] = s
  /\ \A n \in 1..k : r[n] = enqueue(r[n - 1], WatchError)

LEMMA RetellsExist ==
  ASSUME NEW s, NEW k \in Nat
  PROVE  \E r : Retells(r, s, k)
<1> DEFINE T == {j \in 0..k : ~\E r : Retells(r, s, j)}
<1>1. ASSUME T # {} PROVE FALSE
  <2>1. T \subseteq Nat
    OBVIOUS
  <2>2. PICK j \in T : \A m \in T : j <= m
    <3> HIDE DEF T
    <3> QED BY <1>1, <2>1, LeastNumber
  <2>3. Retells([n \in 0..0 |-> s], s, 0)
    BY DEF Retells
  <2>4. j # 0
    BY <2>3
  <2>5. j - 1 \in 0..k /\ j - 1 \notin T
    BY <2>2, <2>4
  <2>6. PICK r : Retells(r, s, j - 1)
    BY <2>5
  <2> DEFINE last == enqueue(r[j - 1], WatchError)
             g == [n \in 0..j |-> IF n = j THEN last ELSE r[n]]
  <2>7. g = [n \in 0..j |-> g[n]] /\ g[j] = last /\ \A n \in 0..(j - 1) : g[n] = r[n]
    <3> HIDE DEF last
    <3> QED BY <2>4
  <2>8. g[0] = s /\ g[j - 1] = r[j - 1]
    <3>1. 0 \in 0..(j - 1) /\ j - 1 \in 0..(j - 1)
      BY <2>4
    <3>2. r[0] = s
      BY <2>6, Zenon DEF Retells
    <3> HIDE DEF g
    <3> QED BY <2>7, <3>1, <3>2
  <2>9. ASSUME NEW n \in 1..j PROVE g[n] = enqueue(g[n - 1], WatchError)
    <3>1. n = j \/ (n \in 1..(j - 1) /\ n \in 0..(j - 1) /\ n - 1 \in 0..(j - 1))
      BY <2>4
    <3> HIDE DEF g
    <3> QED BY <2>6, <2>7, <2>8, <3>1, Zenon DEF Retells, last
  <2>10. Retells(g, s, j)
    <3> HIDE DEF g
    <3> QED BY <2>7, <2>8, <2>9, Zenon DEF Retells
  <2> QED BY <2>2, <2>10
<1>2. k \in 0..k
  OBVIOUS
<1> QED BY <1>1, <1>2

LEMMA ReplayedRetells ==
  ASSUME NEW s, NEW k \in Nat, NEW r, Retells(r, s, k)
  PROVE  Replayed(s, k) = r[k]
<1> DEFINE f == CHOOSE g : g = [n \in 0..k |-> IF n = 0 THEN s
                                              ELSE enqueue(g[n - 1], WatchError)]
<1>0. 0 \in 0..k /\ \A n \in 1..k : n \in 0..k /\ n # 0
  OBVIOUS
<1>1. r = [n \in 0..k |-> IF n = 0 THEN s ELSE enqueue(r[n - 1], WatchError)]
  <2>1. \A n \in 0..k : n = 0 \/ n \in 1..k
    OBVIOUS
  <2>2. \A n \in 0..k : r[n] = IF n = 0 THEN s ELSE enqueue(r[n - 1], WatchError)
    BY <1>0, <2>1, Zenon DEF Retells
  <2> QED BY <2>2, Zenon DEF Retells
<1>2. f = [n \in 0..k |-> IF n = 0 THEN s ELSE enqueue(f[n - 1], WatchError)]
  BY <1>1
<1>3. Replayed(s, k) = f[k]
  BY DEF Replayed
<1> HIDE DEF f
<1>4. f[0] = r[0]
  BY <1>0, <1>2, Zenon DEF Retells
<1>5. \A n \in 1..k : f[n - 1] = r[n - 1] => f[n] = r[n]
  BY <1>0, <1>2, Zenon DEF Retells
<1>6. f[k] = r[k]
  BY <1>4, <1>5, SameUpTo
<1> QED BY <1>3, <1>6

\* The errors told again are owed to the reader like any frame.
LEMMA ReplayedDelivers ==
  ASSUME LogOK, NEW s, NEW v, Kept(s, v), Delivers(s, v, Log), NEW k \in Nat
  PROVE  LET r == Replayed(s, k)
         IN  Kept(r, v) /\ Delivers(r, v, Log) /\ r.pc = s.pc
<1> DEFINE Fine(r) == Kept(r, v) /\ Delivers(r, v, Log) /\ r.pc = s.pc
<1>1. PICK r : Retells(r, s, k)
  BY RetellsExist
<1>2. Fine(r[0])
  BY <1>1 DEF Retells
<1>3. ASSUME NEW n \in 1..k, Fine(r[n - 1]) PROVE Fine(r[n])
  <2>1. r[n] = enqueue(r[n - 1], WatchError)
    BY <1>1 DEF Retells
  <2>2. /\ Kept(r[n], v) /\ Stays(r[n - 1], r[n])
        /\ Delivers(r[n], v, Effect(Log, WatchError))
    BY <1>3, <2>1, ErrorIsNothing, EnqueueDelivers
  <2> QED BY <1>3, <2>2, ErrorIsNothing DEF Stays
<1> DEFINE T == {n \in 0..k : ~Fine(r[n])}
<1>4. ASSUME T # {} PROVE FALSE
  <2>1. T \subseteq Nat
    OBVIOUS
  <2>2. PICK n \in T : \A m \in T : n <= m
    <3> HIDE DEF T
    <3> QED BY <1>4, <2>1, LeastNumber
  <2> HIDE DEF Fine
  <2>3. n # 0 /\ n \in 1..k /\ n - 1 \in 0..k /\ n - 1 \notin T
    BY <1>2, <2>2
  <2> QED BY <1>3, <2>2, <2>3
<1>5. Fine(r[k])
  <2> HIDE DEF Fine
  <2> QED BY <1>4
<1> QED BY <1>1, <1>5, ReplayedRetells

\* A stream opens in a free slot.
LEMMA OpenKeeps ==
  ASSUME IInv, NEW c \in Stream, Open(c)
  PROVE  IInv'
<1> DEFINE s == Await([Idle EXCEPT !.snap = rows, !.snapPhase = phase],
                      "begin", [kind |-> "snapshot-begin"])
<1>1. PICK errors \in 0..MaxErrors :
        stream' = [stream EXCEPT ![c] = Replayed(s, errors)]
  BY DEF Open
<1> DEFINE opened == Replayed(s, errors)
<1>2. /\ stream' = [d \in Stream |-> IF d = c THEN opened ELSE stream[d]]
      /\ view' = [d \in Stream |-> IF d = c THEN NoView ELSE view[d]]
      /\ errors \in Nat
  <2> HIDE DEF opened
  <2>1. stream' = [stream EXCEPT ![c] = opened]
    BY <1>1 DEF opened
  <2>2. view' = [view EXCEPT ![c] = NoView]
    BY DEF Open
  <2>3. errors \in Nat
    BY BoundsAssumption
  <2> QED BY <2>1, <2>2, <2>3 DEF IInv
<1>3. LogOK /\ LogOK' /\ Log' = Log
  BY DEF Open, IInv, LogOK, Log
<1>4. /\ s = [f \in Fields |-> s[f]] /\ s.pc = "begin" /\ s.aborted = FALSE
      /\ s.endReason = "none" /\ s.writing = [kind |-> "snapshot-begin"]
      /\ s.snap = rows /\ s.snapPhase = phase /\ s.next = 1 /\ s.queue = <<>>
      /\ s.pendingBytes = 0 /\ s.pendingFrames = 0 /\ s.pendingRows = 0
      /\ s.heartbeatDue = FALSE
  BY FieldsAre DEF Idle, Await
<1> HIDE DEF s, opened
<1>5. Locals(s) /\ Spoken(s)
  <2>1. Word(s) = "snapshot-begin"
    BY <1>4 DEF Word, PayloadOf
  <2>2. Spoken(s)
    BY <1>4, <2>1 DEF Spoken, Draining
  <2>3. Locals(s)
    <3>1. Queued(s.queue) /\ s.snap \in Seq(Rows) /\ s.snapPhase \in Phase
      BY <1>3, <1>4, QueueChanges DEF LogOK
    <3>2. s.next \in Nat \ {0} /\ s.endReason \in EndReason /\ s.endReason # "abort"
      BY <1>4 DEF EndReason
    <3>3. s.heartbeatDue \in BOOLEAN /\ s.aborted \in BOOLEAN
      BY <1>4, Zenon
    <3> QED BY <1>4, <3>1, <3>2, <3>3 DEF Locals
  <2> QED BY <2>2, <2>3
<1>6. Counts(s, InFlight(s))
  <2>1. InFlight(s) = <<>> /\ Len(<<>>) = 0 /\ Bytes(<<>>) = 0 /\ RowsIn(<<>>) = 0
    BY <1>4, QueueWeights DEF InFlight, Draining, Weighs
  <2>2. /\ Len(s.queue) = 0 /\ Bytes(s.queue) = 0 /\ RowsIn(s.queue) = 0
        /\ ~exceedsLimits(s)
    BY <1>4, <2>1, LimitsAssumption DEF exceedsLimits
  <2> QED BY <1>4, <2>1, <2>2 DEF Counts
<1>7. Kept(s, NoView)
  BY <1>4, <1>5, <1>6 DEF Kept, Told, IsView, NoView
<1>8. Delivers(s, NoView, Log)
  <2> DEFINE to == Receive(NoView, PayloadOf(s.writing))
  <2>1. to.rows = <<>> /\ to.phase = "idle"
    <3>1. PayloadOf(s.writing) = [kind |-> "snapshot-begin"]
      BY <1>4 DEF PayloadOf
    <3>2. Receive(NoView, [kind |-> "snapshot-begin"]) = [NoView EXCEPT !.rows = <<>>]
      BY DEF Receive
    <3> QED BY <3>1, <3>2 DEF NoView
  <2> HIDE DEF to
  <2>2. Shown(NoView) /\ NoView.rows = <<>> /\ NoView.phase = "idle"
    BY DEF Shown, Good, NoView, Phase
  <2>3. Leads(NoView, to)
    BY <2>1, <2>2, LeadsSame DEF Phase
  <2>4. Snapshot(s, NoView)
    BY <1>3, <1>4, <2>2 DEF Snapshot, Snap, Good, LogOK
  <2>5. Reaches(Base(s, NoView), s.queue, Log)
    BY <1>4, ReachesNothing DEF Base, Snap, Log
  <2> QED BY <2>2, <2>3, <2>4, <2>5 DEF Delivers, to
<1>9. Kept(opened, NoView) /\ Delivers(opened, NoView, Log) /\ opened.pc = "begin"
  BY <1>2, <1>3, <1>4, <1>7, <1>8, ReplayedDelivers DEF opened
<1>10. \A d \in Stream : Kept(stream'[d], view'[d]) /\ Delivers(stream'[d], view'[d], Log')
  BY <1>2, <1>3, <1>9 DEF IInv
<1>11. Opened' = Opened \cup {c} /\ c \notin Opened
  BY <1>2, <1>9 DEF Opened, IsOpen, Open, Idle
<1>12. IsFiniteSet(Opened') /\ Cardinality(Opened') = Cardinality(Opened) + 1
  BY <1>11, FS_AddElement DEF IInv, Slots
<1>13. Slots'
  BY <1>12, FS_CardinalityType, CapAssumption DEF Slots, Open, IInv
<1> QED BY <1>2, <1>3, <1>10, <1>13 DEF IInv

\* The last words: log-reset has been heard, then bye.
LEMMA ResetHeard ==
  ASSUME NEW s, NEW v, Kept(s, v), NEW log, Delivers(s, v, log), s.pc = "log-reset"
  PROVE  LET r == Await(s, "bye", [kind |-> "bye"])
         IN  Kept(r, Heard(s, v)) /\ Delivers(r, Heard(s, v), log)
<1> DEFINE r == Await(s, "bye", [kind |-> "bye"])
           w == Heard(s, v)
<1>1. Settled(s) /\ Locals(s) /\ Spoken(s) /\ Ended(s)
  BY NothingInFlight DEF Kept, Draining, Spoken
<1>2. /\ Locals(r) /\ r.pc = "bye" /\ r.writing = [kind |-> "bye"]
      /\ r.aborted = s.aborted /\ r.endReason = s.endReason /\ Counts(r, <<>>)
  BY <1>1, AwaitIs DEF Settled
<1> HIDE DEF r
<1>3. Spoken(r) /\ InFlight(r) = <<>> /\ PayloadOf(r.writing) = [kind |-> "bye"] /\ Ended(r)
  BY <1>1, <1>2 DEF Spoken, Word, PayloadOf, Draining, InFlight, Ended
<1>4. IsView(w) /\ Shown(w) /\ (s.aborted => w = v)
      /\ (~s.aborted => w = Receive(v, PayloadOf(s.writing)))
  BY HeardIsShown
<1> HIDE DEF w
<1>5. Word(s) = "log-reset" /\ Told(s, v)
  BY DEF Kept, Spoken
<1>6. ~s.aborted => w = [NoView EXCEPT !.state = "reset"]
  BY <1>4, <1>5 DEF Receive, Word
<1>7. Told(r, w)
  <2>1. CASE s.aborted
    BY <1>2, <1>4, <1>5, <2>1 DEF Told, NoView, IsView
  <2>2. CASE ~s.aborted
    BY <1>2, <1>6, <2>2 DEF Told, NoView, IsView
  <2> QED BY <2>1, <2>2
<1>8. Delivers(r, w, log)
  <2> DEFINE to == Receive(w, PayloadOf(r.writing))
  <2>1. to.rows = w.rows /\ to.phase = w.phase
    BY <1>3, <1>4 DEF Receive, IsView
  <2> HIDE DEF to
  <2>2. Leads(w, to)
    BY <1>4, <2>1, LeadsSame DEF Shown
  <2>3. Snapshot(r, w)
    BY <1>2 DEF Snapshot, Snap
  <2> QED BY <1>3, <1>4, <2>2, <2>3 DEF Delivers, to
<1> QED BY <1>2, <1>3, <1>7, <1>8 DEF Kept, r, w

LEMMA ByeHeard ==
  ASSUME NEW s, NEW v, Kept(s, v), NEW log, Delivers(s, v, log), s.pc = "bye"
  PROVE  LET r == Finally(s)
         IN  Kept(r, Heard(s, v)) /\ Delivers(r, Heard(s, v), log)
<1> DEFINE r == Finally(s)
           w == Heard(s, v)
<1>1. Settled(s) /\ Locals(s) /\ Spoken(s) /\ Ended(s)
  BY NothingInFlight DEF Kept, Draining, Spoken
<1>2. /\ Locals(r) /\ Spoken(r) /\ r.pc = "closed" /\ r.aborted = s.aborted
      /\ InFlight(r) = <<>> /\ Counts(r, <<>>)
  BY <1>1, FinallyIs
<1> HIDE DEF r
<1>3. IsView(w) /\ Shown(w) /\ (s.aborted => w = v)
      /\ (~s.aborted => w = Receive(v, PayloadOf(s.writing)))
  BY HeardIsShown
<1> HIDE DEF w
<1>4. Word(s) = "bye" /\ Told(s, v)
  BY DEF Kept, Spoken
<1>5. ~s.aborted => w = [v EXCEPT !.state = "disconnected"]
  BY <1>3, <1>4 DEF Receive, Word
<1>6. Told(r, w)
  <2>1. CASE s.aborted
    BY <1>2, <1>3, <1>4, <2>1 DEF Told, NoView, IsView
  <2>2. CASE ~s.aborted
    BY <1>2, <1>4, <1>5, <2>2 DEF Told, IsView
  <2> QED BY <2>1, <2>2
<1>7. Delivers(r, w, log)
  BY <1>2, <1>3 DEF Delivers
<1> QED BY <1>2, <1>6, <1>7 DEF Kept, r, w

\* A step of a handler.
LEMMA StepKeeps ==
  ASSUME IInv, NEW c \in Stream, Step(c)
  PROVE  IInv'
<1> DEFINE s == stream[c]
           v == view[c]
<1>0. Kept(s, v) /\ Delivers(s, v, Log)
  BY DEF IInv
<1>1. ASSUME NEW r, GoesOn(s, r) /\ Delivers(r, Heard(s, v), Log), Resume(c, r),
             s.pc \notin {"closed", "bye", "log-reset"}
      PROVE  IInv'
  BY <1>0, <1>1, GoesOnKeeps, ResumeKeeps DEF IsOpen
<1>2. Locals(s) /\ Spoken(s) /\ Counts(s, InFlight(s))
  BY <1>0 DEF Kept
<1>3. ~Draining(s) => Settled(s)
  BY <1>2, NothingInFlight
<1>4. ASSUME NEW t, Settled(t), t.queue = s.queue, t.aborted = s.aborted,
             t.endReason = s.endReason, NEW r, GoesOn(t, r) /\ Passes(t, r), Resume(c, r),
             s.pc \notin Snap \cup {"closed", "bye", "log-reset"}
      PROVE  IInv'
  <2>1. GoesOn(s, r) /\ Delivers(r, Heard(s, v), Log)
    BY <1>0, <1>4, LiveGoesOn
  <2> QED BY <1>1, <1>4, <2>1
<1>5. CASE SnapshotBegun(c)
  BY <1>0, <1>1, <1>5, BegunGoesOn DEF SnapshotBegun, At
<1>6. CASE ChunkWritten(c)
  BY <1>0, <1>1, <1>6, ChunkGoesOn DEF ChunkWritten, At
<1>7. CASE Slept(c)
  BY <1>0, <1>1, <1>7, SleptGoesOn DEF Slept, At
<1>8. CASE SnapshotEnded(c)
  BY <1>0, <1>1, <1>8, SnapshotEndGoesOn DEF SnapshotEnded, At
<1>9. CASE ProgressWritten(c)
  BY <1>0, <1>1, <1>9, ProgressGoesOn DEF ProgressWritten, At
<1>10. CASE BacklogAnnounced(c)
  BY <1>3, <1>4, <1>10, DrainBacklogGoesOn DEF BacklogAnnounced, At, Draining, Snap
<1>11. CASE BacklogFrameWritten(c)
  <2>1. /\ Settled(Settle(s)) /\ Settle(s).queue = s.queue
        /\ Settle(s).aborted = s.aborted /\ Settle(s).endReason = s.endReason
    BY <1>2, <1>11, SettleKeeps DEF BacklogFrameWritten, At, Draining
  <2> QED BY <1>4, <1>11, <2>1, DrainBacklogGoesOn DEF BacklogFrameWritten, At, Snap
<1>12. CASE FrameWritten(c)
  <2>1. /\ Settled(Settle(s)) /\ Settle(s).queue = s.queue
        /\ Settle(s).aborted = s.aborted /\ Settle(s).endReason = s.endReason
    BY <1>2, <1>12, SettleKeeps DEF FrameWritten, At, Draining
  <2> QED BY <1>4, <1>12, <2>1, LiveLoopGoesOn DEF FrameWritten, At, Snap
<1>13. CASE BacklogDone(c) \/ Woken(c) \/ PingWritten(c)
  BY <1>3, <1>4, <1>13, LiveLoopGoesOn DEF BacklogDone, Woken, PingWritten, At, Draining, Snap
<1>14. CASE ErrorWritten(c)
  <2>1. Settled(s) /\ Ended(s) /\ s.pc = "error"
    BY <1>2, <1>3, <1>14 DEF ErrorWritten, At, Draining, Spoken
  <2> QED BY <1>4, <1>14, <2>1, ResetGoesOn DEF ErrorWritten, Snap
<1>15. CASE ResetWritten(c)
  BY <1>0, <1>15, ResetHeard, ResumeKeeps DEF ResetWritten, At, IsOpen
<1>16. CASE ByeWritten(c)
  BY <1>0, <1>16, ByeHeard, ResumeKeeps DEF ByeWritten, At, IsOpen
<1> QED BY <1>5, <1>6, <1>7, <1>8, <1>9, <1>10, <1>11, <1>12, <1>13, <1>14, <1>15, <1>16
        DEF Step

\* The heartbeat and the reader that goes away.
LEMMA HeartbeatKeeps ==
  ASSUME IInv, NEW c \in Stream, HeartbeatDue(c)
  PROVE  IInv'
<1> DEFINE s == stream[c]
           r == [s EXCEPT !.heartbeatDue = TRUE]
<1>1. Kept(s, view[c]) /\ Delivers(s, view[c], Log)
  BY DEF IInv
<1>2. stream' = [d \in Stream |-> IF d = c THEN r ELSE stream[d]]
  BY DEF HeartbeatDue, IInv
<1>3. /\ Locals(r) /\ r.pc = s.pc /\ r.writing = s.writing /\ r.aborted = s.aborted
      /\ r.endReason = s.endReason /\ SameSnap(s, r) /\ r.queue = s.queue
      /\ r.pendingBytes = s.pendingBytes /\ r.pendingFrames = s.pendingFrames
      /\ r.pendingRows = s.pendingRows /\ s.pc # "closed"
  BY <1>1, FieldsAre DEF Kept, Locals, SameSnap, HeartbeatDue
<1> HIDE DEF r
<1>4. Stays(s, r) /\ Ended(r) = Ended(s)
  BY <1>1, <1>3 DEF Stays, Kept, Counts, exceedsLimits, Ended
<1>5. LogOK' /\ Log' = Log
  BY DEF HeartbeatDue, IInv, LogOK, Log
<1>6. Kept(r, view[c])
  BY <1>1, <1>4, StaysKeeps
<1>7. Delivers(r, view[c], Log)
  <2>1. (~s.aborted /\ s.pc # "closed" /\ ~Ended(r)) => Reaches(Base(s, view[c]), r.queue, Log)
    BY <1>1, <1>3, <1>4 DEF Delivers
  <2> HIDE DEF s
  <2> QED BY <1>1, <1>4, <2>1, StaysDelivers
<1>8. /\ \A d \in Stream : Kept(stream'[d], view'[d]) /\ Delivers(stream'[d], view'[d], Log')
      /\ \A d \in Stream : stream'[d].pc = stream[d].pc
  BY <1>2, <1>3, <1>5, <1>6, <1>7 DEF IInv, HeartbeatDue
<1>9. Slots'
  BY <1>8, SameSlots DEF HeartbeatDue, IInv
<1> QED BY <1>2, <1>5, <1>8, <1>9 DEF IInv, HeartbeatDue

LEMMA AbortKeeps ==
  ASSUME IInv, NEW c \in Stream, Abort(c)
  PROVE  IInv'
<1> DEFINE s == stream[c]
           t == requestEnd(s, "abort")
           r == [t EXCEPT !.aborted = TRUE]
<1>1. Kept(s, view[c]) /\ s.pc # "closed"
  BY DEF IInv, Abort
<1>2. /\ stream' = [d \in Stream |-> IF d = c THEN r ELSE stream[d]]
      /\ view' = [d \in Stream |-> IF d = c THEN NoView ELSE view[d]]
  BY DEF Abort, IInv
<1>3. /\ Queued(t.queue) /\ t.snap \in Seq(Rows) /\ t.snapPhase \in Phase
      /\ t.next \in Nat \ {0} /\ t.heartbeatDue \in BOOLEAN /\ t.endReason \in EndReason
      /\ t = [f \in Fields |-> t[f]] /\ t.pc = s.pc /\ t.writing = s.writing
      /\ Counts(t, InFlight(s))
  <2>1. CASE s.endReason # "none"
    BY <1>1, <2>1 DEF requestEnd, Kept, Locals
  <2>2. CASE s.endReason = "none"
    <3> DEFINE u == clearQueuedFrames(s)
    <3>1. t = [u EXCEPT !.endReason = "abort"]
      BY <1>1, <2>2 DEF requestEnd
    <3>2. /\ Locals(u) /\ u.pc = s.pc /\ u.writing = s.writing /\ Counts(u, InFlight(s))
      BY <1>1, ClearStays, FlightIsQueued DEF Kept
    <3> HIDE DEF u
    <3>3. /\ t.queue = u.queue /\ t.snap = u.snap /\ t.snapPhase = u.snapPhase
          /\ t.next = u.next /\ t.heartbeatDue = u.heartbeatDue /\ t.endReason = "abort"
          /\ t = [f \in Fields |-> t[f]] /\ t.pc = u.pc /\ t.writing = u.writing
          /\ t.pendingBytes = u.pendingBytes /\ t.pendingFrames = u.pendingFrames
          /\ t.pendingRows = u.pendingRows
      BY <3>1, <3>2, FieldsAre DEF Locals
    <3> HIDE DEF t
    <3> QED BY <3>2, <3>3 DEF Locals, EndReason, Counts, exceedsLimits
  <2> QED BY <2>1, <2>2
<1> HIDE DEF t
<1>4. /\ Locals(r) /\ r.aborted /\ r.pc = s.pc /\ r.writing = s.writing
      /\ Counts(r, InFlight(s))
  <2>1. /\ r.queue = t.queue /\ r.snap = t.snap /\ r.snapPhase = t.snapPhase
        /\ r.next = t.next /\ r.heartbeatDue = t.heartbeatDue /\ r.endReason = t.endReason
        /\ r = [f \in Fields |-> r[f]] /\ r.pc = t.pc /\ r.writing = t.writing
        /\ r.pendingBytes = t.pendingBytes /\ r.pendingFrames = t.pendingFrames
        /\ r.pendingRows = t.pendingRows /\ r.aborted = TRUE
    BY <1>3, FieldsAre
  <2> HIDE DEF r
  <2> QED BY <1>3, <2>1 DEF Locals, Counts, exceedsLimits
<1> HIDE DEF r
<1>5. Spoken(r) /\ InFlight(r) = InFlight(s)
  BY <1>1, <1>4 DEF Kept, Spoken, Word, Draining, InFlight, Ended
<1>6. Kept(r, NoView)
  BY <1>4, <1>5 DEF Kept, Told, IsView, NoView
<1>7. LogOK' /\ Log' = Log
  BY DEF Abort, IInv, LogOK, Log
<1>8. Delivers(r, NoView, Log)
  BY <1>4 DEF Delivers, NoView, Shown, Good, Phase
<1>9. /\ \A d \in Stream : Kept(stream'[d], view'[d]) /\ Delivers(stream'[d], view'[d], Log')
      /\ \A d \in Stream : stream'[d].pc = stream[d].pc
  BY <1>2, <1>4, <1>6, <1>7, <1>8 DEF IInv
<1>10. Slots'
  BY <1>9, SameSlots DEF Abort, IInv
<1> QED BY <1>2, <1>7, <1>9, <1>10 DEF IInv

\* IInv holds in every reachable state.
THEOREM Invariance == Spec => []IInv
<1>1. Init => IInv
  <2> SUFFICES ASSUME Init PROVE IInv
    OBVIOUS
  <2>1. Kept(Idle, NoView)
    <3>1. Locals(Idle) /\ Spoken(Idle)
      BY QueueChanges, FieldsAre
      DEF Locals, Spoken, Word, PayloadOf, NoPayload, Idle, Phase, EndReason, Draining
    <3>2. Counts(Idle, InFlight(Idle))
      <4>1. /\ InFlight(Idle) = <<>> /\ Len(<<>>) = 0 /\ Bytes(<<>>) = 0 /\ RowsIn(<<>>) = 0
        BY QueueWeights DEF InFlight, Draining, Weighs, Idle
      <4> QED BY <4>1, LimitsAssumption DEF Counts, exceedsLimits, Idle
    <3> QED BY <3>1, <3>2 DEF Kept, Told, IsView, NoView, Idle
  <2>2. Delivers(Idle, NoView, Log)
    BY DEF Delivers, Idle, NoView, Shown, Good, Phase
  <2>3. Opened = {}
    BY DEF Init, Opened, IsOpen, Idle
  <2>4. Slots
    BY <2>3, FS_EmptySet, CapAssumption DEF Init, Slots
  <2>5. LogOK
    BY BoundsAssumption DEF Init, LogOK, Phase
  <2> QED BY <2>1, <2>2, <2>4, <2>5 DEF Init, IInv
<1>2. IInv /\ [Next]_vars => IInv'
  <2> SUFFICES ASSUME IInv, [Next]_vars PROVE IInv'
    OBVIOUS
  <2>1. CASE UNCHANGED vars
    BY <2>1 DEF vars, IInv, Slots, Opened, IsOpen, LogOK, Log
  <2> QED BY <2>1, LogKeeps, OpenKeeps, StepKeeps, HeartbeatKeeps, AbortKeeps DEF Next
<1> QED BY <1>1, <1>2, PTL DEF Spec

\* Every open stream holds a slot, and nothing else does: however a stream
\* ends its slot is given back, once, and the cap is never passed.
THEOREM SlotsCorrect == Spec => []SlotsCounted
<1>1. IInv => SlotsCounted
  BY DEF IInv, Slots, Opened, SlotsCounted
<1> QED BY Invariance, <1>1, PTL

\* A stream that ends while its reader is there tells it so, and the reader
\* then shows no rows.
THEOREM EndCorrect == Spec => []EndIsTold
<1>1. IInv => EndIsTold
  BY DEF IInv, Kept, Told, EndIsTold, IsOpen, NoView
<1> QED BY Invariance, <1>1, PTL

\* The bytes, frames and rows a stream is limited by are those of the frames it
\* has queued and of the one being written, through every merge and clear; they
\* stay within the limits.
THEOREM CountersCorrect == Spec => []CountersExact
<1>1. ASSUME IInv PROVE TypeOK
  <2>1. activeStreams \in 0..MAX_SSE_CONNECTIONS
    BY <1>1, FS_CardinalityType, CapAssumption DEF IInv, Slots
  <2>2. \A c \in Stream : /\ stream[c].endReason \in EndReason
                          /\ stream[c].snap \in Seq(Rows)
                          /\ stream[c].heartbeatDue \in BOOLEAN
                          /\ view[c].phase \in Phase
    BY <1>1 DEF IInv, Kept, Locals, Delivers, Shown
  <2> QED BY <1>1, <2>1, <2>2 DEF IInv, LogOK, TypeOK
<1>2. ASSUME IInv, NEW c \in Stream
      PROVE  LET s == stream[c]
                 inFlight == IF Draining(s) THEN <<s.writing>> ELSE <<>>
                 owing == s.queue \o inFlight
             IN  /\ s.pendingFrames = Len(owing)
                 /\ s.pendingBytes = SumOf(byteLength, owing)
                 /\ s.pendingRows = SumOf(rowCountOf, owing)
                 /\ ~exceedsLimits(s)
  <2> DEFINE s == stream[c]
             q == s.queue
             f == s.writing
             owing == q \o InFlight(s)
  <2>1. Queued(q) /\ Spoken(s) /\ Counts(s, InFlight(s))
    BY <1>2 DEF IInv, Kept, Locals
  <2>2. Weighs(owing, s.pendingFrames, s.pendingBytes, s.pendingRows)
    <3>1. CASE Draining(s)
      <4>1. OfLog(f) /\ InFlight(s) = <<f>>
        BY <2>1, <3>1 DEF Spoken, InFlight
      <4>2. owing = Append(q, f)
        <5>1. PICK S : q \in Seq(S)
          BY <2>1 DEF Queued
        <5>2. q \in Seq(S \cup {f}) /\ <<f>> \in Seq(S \cup {f})
          <6>1. S \subseteq S \cup {f}
            OBVIOUS
          <6> QED BY <5>1, <6>1
        <5> HIDE DEF q, f
        <5>3. q \o <<f>> = Append(q, f)
          BY <5>2
        <5> QED BY <4>1, <5>3
      <4>3. Weighs(owing, Len(q) + 1, Bytes(q) + byteLength(f), RowsIn(q) + f.rowCount)
        BY <2>1, <4>1, <4>2, QueueWeights
      <4>4. Weighs(<<f>>, 1, byteLength(f), f.rowCount)
        BY <4>1, OneWeighs
      <4> QED BY <2>1, <4>1, <4>3, <4>4 DEF Counts, Weighs
    <3>2. CASE ~Draining(s)
      <4>1. InFlight(s) = <<>>
        BY <3>2 DEF InFlight
      <4>2. owing = q
        <5>1. PICK S : q \in Seq(S)
          BY <2>1 DEF Queued
        <5>2. q \o <<>> = q
          BY <5>1
        <5> QED BY <4>1, <5>2
      <4>3. /\ Len(<<>>) = 0 /\ Bytes(<<>>) = 0 /\ RowsIn(<<>>) = 0
            /\ Len(q) \in Nat /\ Bytes(q) \in Nat /\ RowsIn(q) \in Nat
        BY <2>1, QueueWeights DEF Weighs
      <4> QED BY <2>1, <4>1, <4>2, <4>3 DEF Counts, Weighs
    <3> QED BY <3>1, <3>2
  <2>3. InFlight(s) = IF Draining(s) THEN <<s.writing>> ELSE <<>>
    BY DEF InFlight
  <2> QED BY <2>1, <2>2, <2>3 DEF Weighs, Bytes, RowsIn, Counts
<1>3. IInv => CountersExact
  <2>1. IInv => PendingExact
    BY <1>2 DEF PendingExact
  <2>2. IInv => SlotsCounted
    BY DEF IInv, Slots, Opened, SlotsCounted
  <2> QED BY <1>1, <2>1, <2>2 DEF CountersExact
<1> QED BY Invariance, <1>3, PTL

-----------------------------------------------------------------------------
(* What a stream owes its reader.                                          *)

\* hears holds what the reader v shows after each of the payloads
Hears(v, ps, hears) ==
  /\ hears[0] = v
  /\ \A k \in 1..Len(ps) : hears[k] = Receive(hears[k - 1], ps[k])

\* What is received is the last of it.
LEMMA ReceivedIsHeard ==
  ASSUME NEW v, NEW ps, Len(ps) \in Nat, NEW hears, Hears(v, ps, hears)
  PROVE  Received(v, ps) = hears[Len(ps)]
<1> DEFINE n == Len(ps)
           f == CHOOSE g : g = [k \in 0..n |->
                                  IF k = 0 THEN v ELSE Receive(g[k - 1], ps[k])]
           h == [k \in 0..n |-> hears[k]]
<1>1. n \in Nat
  OBVIOUS
<1>2. Received(v, ps) = f[n]
  BY DEF Received
<1>3. h = [k \in 0..n |-> IF k = 0 THEN v ELSE Receive(h[k - 1], ps[k])]
  <2>1. ASSUME NEW k \in 0..n PROVE h[k] = IF k = 0 THEN v ELSE Receive(h[k - 1], ps[k])
    <3>1. CASE k = 0
      BY <3>1 DEF Hears
    <3>2. CASE k # 0
      <4>1. k \in 1..n /\ k - 1 \in 0..n
        BY <1>1, <3>2
      <4> QED BY <3>2, <4>1 DEF Hears
    <3> QED BY <3>1, <3>2
  <2> HIDE DEF h
  <2>2. h = [k \in 0..n |-> h[k]]
    BY DEF h
  <2> QED BY <2>1, <2>2
<1> HIDE DEF n, h
<1>4. f = [k \in 0..n |-> IF k = 0 THEN v ELSE Receive(f[k - 1], ps[k])]
  BY <1>3
<1> HIDE DEF f
<1>5. f[0] = h[0] /\ h[n] = hears[n]
  BY <1>1, <1>3, <1>4 DEF h, Hears
<1>6. \A k \in 1..n : f[k] = Receive(f[k - 1], ps[k]) /\ h[k] = Receive(h[k - 1], ps[k])
  BY <1>1, <1>3, <1>4
<1>7. f[n] = h[n]
  BY <1>1, <1>5, <1>6, SameUpTo
<1> QED BY <1>2, <1>5, <1>7 DEF n

\* One sequence of payloads after another.
LEMMA HearsBoth ==
  ASSUME NEW S, NEW a \in Seq(S), NEW b \in Seq(S), NEW v, NEW w,
         NEW h, Hears(v, a, h), h[Len(a)] = w, NEW g, Hears(w, b, g)
  PROVE  \E all : Hears(v, a \o b, all) /\ all[Len(a \o b)] = g[Len(b)]
<1> DEFINE m == Len(a)
           n == Len(b)
           both == a \o b
           all == [k \in 0..(m + n) |-> IF k <= m THEN h[k] ELSE g[k - m]]
<1>1. /\ m \in Nat /\ n \in Nat /\ Len(both) = m + n
      /\ \A i \in 1..(m + n) : both[i] = IF i <= m THEN a[i] ELSE b[i - m]
  <2>1. m \in Nat /\ n \in Nat
    OBVIOUS
  <2>2. /\ Len(both) = m + n
        /\ \A i \in 1..(m + n) : both[i] = IF i <= m THEN a[i] ELSE b[i - m]
    BY ConcatProperties
  <2> QED BY <2>1, <2>2
<1>2. /\ h[0] = v /\ \A k \in 1..m : h[k] = Receive(h[k - 1], a[k])
      /\ g[0] = w /\ \A k \in 1..n : g[k] = Receive(g[k - 1], b[k])
      /\ h[m] = w
  BY DEF Hears
<1> HIDE DEF m, n, both
<1>3. ASSUME NEW k \in 1..(m + n) PROVE all[k] = Receive(all[k - 1], both[k])
  <2>1. k \in 0..(m + n) /\ k - 1 \in 0..(m + n)
    BY <1>1
  <2>2. CASE k <= m
    <3>1. k \in 1..m /\ k - 1 <= m
      BY <1>1, <2>2
    <3> QED BY <1>1, <1>2, <2>1, <2>2, <3>1
  <2>3. CASE ~(k <= m)
    <3>1. k - m \in 1..n /\ (k - 1) - m = (k - m) - 1
      BY <1>1, <2>3
    <3>2. all[k] = g[k - m] /\ both[k] = b[k - m]
      BY <1>1, <2>1, <2>3
    <3>3. all[k - 1] = g[(k - m) - 1]
      <4>1. CASE k - 1 = m
        <5>1. k - 1 <= m /\ (k - m) - 1 = 0
          BY <1>1, <2>1, <4>1
        <5> QED BY <1>2, <2>1, <4>1, <5>1
      <4>2. CASE k - 1 # m
        <5>1. ~(k - 1 <= m)
          BY <1>1, <2>1, <2>3, <4>2
        <5> QED BY <2>1, <3>1, <5>1
      <4> QED BY <4>1, <4>2
    <3> HIDE DEF all
    <3> QED BY <1>2, <3>1, <3>2, <3>3
  <2> QED BY <2>2, <2>3
<1>4. all[0] = v
  BY <1>1, <1>2
<1>5. all[m + n] = g[n]
  <2>1. CASE n = 0
    BY <1>1, <1>2, <2>1
  <2>2. CASE n # 0
    BY <1>1, <2>2
  <2> QED BY <2>1, <2>2
<1> HIDE DEF all
<1>6. Hears(v, both, all) /\ all[Len(both)] = g[n]
  BY <1>1, <1>3, <1>4, <1>5 DEF Hears
<1> QED BY <1>6 DEF both, n

\* The frames of a queue, as the reader takes them.
Payloads(q) == [n \in DOMAIN q |-> q[n].payload]

LEMMA QueueIsHeard ==
  ASSUME NEW q, Queued(q), NEW w, IsView(w), NEW y, Reaches(Seen(w), q, y)
  PROVE  LET ps == Payloads(q)
         IN  /\ \E S : ps \in Seq(S)
             /\ \E g : /\ Hears(w, ps, g)
                       /\ g[Len(ps)].rows = y.rows /\ g[Len(ps)].phase = y.phase
<1> DEFINE m == Len(q)
           ps == Payloads(q)
<1>1. PICK S : q \in Seq(S) /\ \A f \in S : OfLog(f)
  BY DEF Queued
<1>2. m \in Nat /\ DOMAIN q = 1..m /\ \A n \in 1..m : OfLog(q[n])
  BY <1>1
<1>3. /\ ps \in Seq({q[n].payload : n \in DOMAIN q}) /\ Len(ps) = m
      /\ \A n \in 1..m : ps[n] = q[n].payload /\ Payload(ps[n])
  <2>1. ps \in [1..m -> {q[n].payload : n \in DOMAIN q}]
    BY <1>2 DEF Payloads
  <2>2. \A n \in 1..m : ps[n] = q[n].payload /\ Payload(ps[n])
    BY <1>2 DEF OfLog, Payloads
  <2> HIDE DEF ps, m
  <2> QED BY <1>2, <2>1, <2>2
<1>4. PICK run : IsRun(run, q) /\ run[0] = Seen(w) /\ run[m] = y
  BY DEF Reaches
<1> DEFINE g == [k \in 0..m |-> [rows |-> run[k].rows, phase |-> run[k].phase,
                                 state |-> w.state]]
<1> HIDE DEF m, ps
<1>5. g[0] = w
  <2>1. g[0] = [rows |-> w.rows, phase |-> w.phase, state |-> w.state]
    BY <1>2, <1>4 DEF Seen
  <2>2. w = [f \in {"rows", "phase", "state"} |-> w[f]]
    BY DEF IsView
  <2> HIDE DEF g
  <2> QED BY <2>1, <2>2
<1>6. ASSUME NEW k \in 1..m PROVE g[k] = Receive(g[k - 1], ps[k])
  <2> DEFINE v == g[k - 1]
             to == Receive(v, ps[k])
  <2>1. k \in 0..m /\ k - 1 \in 0..m
    BY <1>2
  <2>2. run[k] = Effect(run[k - 1], ps[k])
    BY <1>3, <1>4 DEF IsRun, m
  <2>3. /\ v = [rows |-> run[k - 1].rows, phase |-> run[k - 1].phase, state |-> w.state]
        /\ g[k] = [rows |-> run[k].rows, phase |-> run[k].phase, state |-> w.state]
    BY <2>1
  <2> HIDE DEF g
  <2>4. IsView(v) /\ v.rows = run[k - 1].rows /\ v.phase = run[k - 1].phase
        /\ v.state = w.state
    BY <2>3 DEF IsView
  <2> HIDE DEF v
  <2>5. Seen(to) = Effect(v, ps[k]) /\ IsView(to) /\ to.state = w.state
    BY <1>3, <2>4, ReceiveIsEffect
  <2>6. Effect(v, ps[k]) = run[k]
    BY <2>2, <2>4 DEF Effect
  <2>7. to.rows = run[k].rows /\ to.phase = run[k].phase
    BY <2>5, <2>6 DEF Seen
  <2> HIDE DEF to
  <2>8. to = [f \in {"rows", "phase", "state"} |-> to[f]]
    BY <2>5 DEF IsView
  <2>9. to = g[k]
    BY <2>3, <2>5, <2>7, <2>8
  <2> QED BY <2>9 DEF to, v
<1>7. g[m].rows = y.rows /\ g[m].phase = y.phase
  BY <1>2, <1>4
<1> HIDE DEF g
<1>8. Hears(w, ps, g) /\ g[Len(ps)].rows = y.rows /\ g[Len(ps)].phase = y.phase
  BY <1>3, <1>5, <1>6, <1>7 DEF Hears
<1> QED BY <1>3, <1>8 DEF ps

\* No rows placed leave the others as they are.
LEMMA NothingPlaced ==
  ASSUME NEW rs \in Seq(Rows), NEW n \in Nat, NEW none, Len(none) = 0
  PROVE  Placed(rs, n, none) = rs
<1>1. Placed(rs, n, none) =
        [i \in DOMAIN rs \cup (n .. n + 0 - 1) |->
           IF i >= n /\ i < n + 0 THEN none[i - n + 1] ELSE rs[i]]
  BY DEF Placed
<1>2. (n .. n + 0 - 1) = {} /\ DOMAIN rs \subseteq Int
  OBVIOUS
<1>3. \A i \in DOMAIN rs : ~(i >= n /\ i < n + 0)
  BY <1>2
<1>4. rs = [i \in DOMAIN rs |-> rs[i]]
  OBVIOUS
<1> QED BY <1>1, <1>2, <1>3, <1>4

\* The rest of a snapshot completes it.
LEMMA RestIsPlaced ==
  ASSUME NEW rs \in Seq(Rows), NEW n \in Nat \ {0}
  PROVE  LET k == IF n - 1 < Len(rs) THEN n - 1 ELSE Len(rs)
         IN  Placed(Cut(rs, k), n, SubSeq(rs, n, Len(rs))) = rs
<1> DEFINE m == Len(rs)
           rest == SubSeq(rs, n, m)
<1>1. m \in Nat /\ Cut(rs, m) = rs
  BY DEF Cut
<1>2. CASE n <= m + 1
  <2>1. Placed(Cut(rs, n - 1), n, rest) = Cut(rs, m)
    BY <1>1, <1>2, ChunkIsNext
  <2>2. (IF n - 1 < m THEN n - 1 ELSE m) = n - 1
    BY <1>1, <1>2
  <2> QED BY <1>1, <2>1, <2>2
<1>3. CASE ~(n <= m + 1)
  <2>1. Len(rest) = 0
    <3>1. n \in Int /\ m \in Int /\ \A i \in n..m : rs[i] \in Rows
      BY <1>1
    <3> HIDE DEF m
    <3>2. Len(rest) = IF n <= m THEN m - n + 1 ELSE 0
      BY <3>1, SubSeqProperties
    <3> QED BY <1>1, <1>3, <3>2
  <2>2. (IF n - 1 < m THEN n - 1 ELSE m) = m
    BY <1>1, <1>3
  <2>3. Placed(rs, n, rest) = rs
    BY <2>1, NothingPlaced
  <2> QED BY <1>1, <2>2, <2>3
<1> QED BY <1>2, <1>3

\* What a live stream owes its reader leads from what the reader shows to the
\* log: while the snapshot is on its way, its rest and phase, then the queue.
LEMMA OwedIsTheRest ==
  ASSUME NEW s, NEW v, Kept(s, v), NEW log, Delivers(s, v, log), s.pc # "closed", ~Ended(s)
  PROVE  LET w == Received(v, Owed(s))
         IN  w.rows = log.rows /\ w.phase = log.phase
<1> DEFINE p == PayloadOf(s.writing)
           n == SnapshotRest(s)
           rs == s.snap
           chunk == [kind |-> "snapshot-chunk", from |-> n, rows |-> SubSeq(rs, n, Len(rs))]
           ph == ProgressFrame(s.snapPhase)
           more == s.pc \in {"begin", "chunk", "sleep", "end"} /\ s.snapPhase # "idle"
           first == <<p, chunk>>
           second == IF more THEN <<ph>> ELSE <<>>
           third == Payloads(s.queue)
           v1 == Receive(v, p)
           v2 == Receive(v1, chunk)
           v3 == IF more THEN Receive(v2, ph) ELSE v2
<1>1. Owed(s) = (first \o second) \o third
  BY DEF Owed, Payloads
<1>2. /\ Locals(s) /\ IsView(v) /\ Shown(v) /\ ~s.aborted /\ rs \in Seq(Rows)
      /\ Snapshot(s, v) /\ Reaches(Base(s, v), s.queue, log) /\ Leads(v, v1)
  BY DEF Kept, Told, Locals, Delivers, Ended
<1>3. IsView(v1) /\ IsView(v2) /\ IsView(v3)
  <2>1. ASSUME NEW u, IsView(u), NEW payload PROVE IsView(Receive(u, payload))
    BY <2>1 DEF Receive, IsView, NoView
  <2> HIDE DEF p, chunk, ph
  <2> QED BY <1>2, <2>1
<1>4. n \in Nat \ {0} /\ (s.pc \notin {"begin", "chunk", "sleep"} => n = Len(rs) + 1)
  BY <1>2, ChunkAssumption DEF SnapshotRest, Locals
<1>5. v2.rows = Placed(v1.rows, n, SubSeq(rs, n, Len(rs))) /\ v2.phase = v1.phase
  <2>1. v2 = [v1 EXCEPT !.rows = Placed(@, n, SubSeq(rs, n, Len(rs)))]
    BY DEF Receive
  <2> HIDE DEF v1, v2, n
  <2> QED BY <1>3, <2>1 DEF IsView
<1>6. /\ more => v3.rows = v2.rows /\ v3.phase = s.snapPhase
      /\ ~more => v3.rows = v2.rows /\ v3.phase = v2.phase
  <2> HIDE DEF v2
  <2> QED BY <1>3 DEF Receive, ProgressFrame, IsView
<1>7. Seen(v3) = Base(s, v)
  <2>1. CASE s.pc \notin Snap
    <3>1. Len(SubSeq(rs, n, Len(rs))) = 0
      <4> DEFINE m == Len(rs)
      <4>1. n = m + 1 /\ m \in Nat /\ n \in Int /\ m \in Int /\ \A i \in n..m : rs[i] \in Rows
        BY <1>2, <1>4, <2>1 DEF Snap
      <4> HIDE DEF m, n
      <4>2. Len(SubSeq(rs, n, m)) = IF n <= m THEN m - n + 1 ELSE 0
        BY <1>2, <4>1, SubSeqProperties
      <4> QED BY <4>1, <4>2 DEF m
    <3>2. v1.rows \in Seq(Rows)
      BY <1>2 DEF Leads, Shown, Good
    <3> HIDE DEF v1, v2, v3, n
    <3>3. v2.rows = v1.rows
      BY <1>4, <1>5, <3>1, <3>2, NothingPlaced
    <3> QED BY <1>5, <1>6, <2>1, <3>3 DEF Base, Seen, Snap, v1
  <2>2. CASE s.pc \in Snap
    <3>1. /\ v1.rows = Cut(rs, IF n - 1 < Len(rs) THEN n - 1 ELSE Len(rs))
          /\ v1.phase = IF s.pc = "progress" THEN s.snapPhase ELSE "idle"
      <4>1. Cut(rs, Len(rs)) = rs /\ Len(rs) \in Nat /\ Cut(rs, 0) = <<>>
        BY <1>2 DEF Cut
      <4>2. CASE s.pc = "begin"
        <5>1. s.writing = [kind |-> "snapshot-begin"] /\ n = 1 /\ v.phase = "idle"
          BY <1>2, <4>2 DEF Snapshot, SnapshotRest
        <5>2. v1.rows = <<>> /\ v1.phase = "idle"
          BY <1>2, <5>1 DEF Receive, PayloadOf, IsView
        <5> HIDE DEF v1, n
        <5> QED BY <4>1, <4>2, <5>1, <5>2
      <4>3. CASE s.pc = "chunk"
        <5>1. n = s.next + SNAPSHOT_CHUNK /\ s.next \in Nat
          BY <1>2, <4>3 DEF SnapshotRest, Locals
        <5>2. Upto(s) = IF n - 1 < Len(rs) THEN n - 1 ELSE Len(rs)
          <6> HIDE DEF n
          <6>1. s.next + SNAPSHOT_CHUNK - 1 = n - 1
            BY <5>1, ChunkAssumption
          <6> QED BY <6>1 DEF Upto
        <5>3. v1.rows = Cut(rs, Upto(s)) /\ v1.phase = "idle"
          BY <1>2, <4>3, ChunkIsHeard
        <5> QED BY <4>3, <5>2, <5>3
      <4>4. CASE s.pc = "sleep"
        <5>1. /\ n = s.next /\ n - 1 \in Nat /\ s.writing = NoPayload /\ v.phase = "idle"
              /\ v.rows = Prefix(s, n - 1)
          BY <1>2, <4>4 DEF Snapshot, SnapshotRest, Locals
        <5>2. v1.rows = v.rows /\ v1.phase = "idle"
          BY <1>2, <5>1 DEF Receive, Apply, PayloadOf, NoPayload, IsView
        <5> HIDE DEF v1, n
        <5> QED BY <1>2, <4>4, <5>1, <5>2, PrefixIsCut
      <4>5. CASE s.pc = "end"
        <5>1. /\ n = Len(rs) + 1 /\ s.writing = [kind |-> "snapshot-end"] /\ v.phase = "idle"
              /\ v.rows = rs
          BY <1>2, <1>4, <4>5 DEF Snapshot
        <5>2. v1.rows = rs /\ v1.phase = "idle"
          BY <1>2, <5>1 DEF Receive, PayloadOf, IsView
        <5> HIDE DEF v1, n
        <5> QED BY <4>1, <4>5, <5>1, <5>2
      <4>6. CASE s.pc = "progress"
        <5>1. /\ n = Len(rs) + 1 /\ s.writing = ProgressFrame(s.snapPhase) /\ v.rows = rs
          BY <1>2, <1>4, <4>6 DEF Snapshot
        <5>2. v1.rows = rs /\ v1.phase = s.snapPhase
          BY <1>2, <5>1 DEF Receive, PayloadOf, ProgressFrame, IsView
        <5> HIDE DEF v1, n
        <5> QED BY <4>1, <4>6, <5>1, <5>2
      <4> QED BY <2>2, <4>2, <4>3, <4>4, <4>5, <4>6 DEF Snap
    <3> HIDE DEF v1, v2, v3, n
    <3>2. v2.rows = rs
      BY <1>2, <1>4, <1>5, <3>1, RestIsPlaced
    <3>3. v3.rows = rs /\ v3.phase = s.snapPhase
      BY <1>5, <1>6, <2>2, <3>1, <3>2 DEF Snap
    <3> QED BY <2>2, <3>3 DEF Base, Seen
  <2> QED BY <2>1, <2>2
<1>8. /\ Hears(v, first, [k \in 0..2 |-> IF k = 0 THEN v ELSE IF k = 1 THEN v1 ELSE v2])
      /\ first[1] = p /\ Len(first) = 2
  <2> HIDE DEF p, chunk
  <2> QED BY DEF Hears
<1>9. \E g : Hears(v2, second, g) /\ g[Len(second)] = v3
  <2>1. CASE more
    <3> HIDE DEF v2, ph, more
    <3>1. /\ Hears(v2, <<ph>>, [k \in 0..1 |-> IF k = 0 THEN v2 ELSE Receive(v2, ph)])
          /\ Len(<<ph>>) = 1
      BY DEF Hears
    <3> QED BY <2>1, <3>1
  <2>2. CASE ~more
    <3> HIDE DEF v2, ph, more
    <3>1. Hears(v2, <<>>, [k \in 0..0 |-> v2]) /\ Len(<<>>) = 0
      BY DEF Hears
    <3> QED BY <2>2, <3>1
  <2> QED BY <2>1, <2>2
<1>10. /\ \E S : third \in Seq(S)
       /\ \E g : /\ Hears(v3, third, g)
                 /\ g[Len(third)].rows = log.rows /\ g[Len(third)].phase = log.phase
  <2> HIDE DEF v3
  <2>1. Queued(s.queue) /\ IsView(v3) /\ Reaches(Seen(v3), s.queue, log)
    BY <1>2, <1>3, <1>7 DEF Locals
  <2> QED BY <2>1, QueueIsHeard
<1> DEFINE two == first \o second
<1>11. \E h : Hears(v, two, h) /\ h[Len(two)] = v3
  <2> DEFINE S == {p, chunk, ph}
  <2>1. first \in Seq(S) /\ second \in Seq(S)
    <3>1. p \in S /\ chunk \in S /\ ph \in S
      OBVIOUS
    <3> HIDE DEF S, p, chunk, ph, more
    <3>2. <<p, chunk>> \in Seq(S) /\ <<ph>> \in Seq(S) /\ <<>> \in Seq(S)
      BY <3>1
    <3> QED BY <3>2
  <2> HIDE DEF S, first, second, v1, v2, v3
  <2> DEFINE f == [k \in 0..2 |-> IF k = 0 THEN v ELSE IF k = 1 THEN v1 ELSE v2]
  <2>2. Hears(v, first, f) /\ f[Len(first)] = v2
    BY <1>8
  <2> HIDE DEF f
  <2> QED BY <1>9, <2>1, <2>2, HearsBoth
<1>12. \E all : /\ Hears(v, two \o third, all)
                /\ all[Len(two \o third)].rows = log.rows
                /\ all[Len(two \o third)].phase = log.phase
  <2>1. PICK S : third \in Seq(S)
    BY <1>10
  <2> DEFINE U == S \cup {p, chunk, ph}
  <2>2. two \in Seq(U) /\ third \in Seq(U)
    <3>1. first \in Seq(U) /\ second \in Seq(U)
      <4>1. p \in U /\ chunk \in U /\ ph \in U
        OBVIOUS
      <4> HIDE DEF U, p, chunk, ph, more
      <4>2. <<p, chunk>> \in Seq(U) /\ <<ph>> \in Seq(U) /\ <<>> \in Seq(U)
        BY <4>1
      <4> QED BY <4>2
    <3>2. S \subseteq U
      OBVIOUS
    <3> HIDE DEF U, first, second, third
    <3> QED BY <2>1, <3>1, <3>2
  <2> HIDE DEF U, two, third, v3
  <2>3. PICK h : Hears(v, two, h) /\ h[Len(two)] = v3
    BY <1>11
  <2>4. PICK g : /\ Hears(v3, third, g)
                 /\ g[Len(third)].rows = log.rows /\ g[Len(third)].phase = log.phase
    BY <1>10
  <2>5. \E all : Hears(v, two \o third, all) /\ all[Len(two \o third)] = g[Len(third)]
    BY <2>2, <2>3, <2>4, HearsBoth
  <2> QED BY <2>4, <2>5
<1>13. Len(two \o third) \in Nat
  <2>1. PICK S : third \in Seq(S)
    BY <1>10
  <2>2. Len(third) \in Nat /\ Len(two) \in Nat
    <3> HIDE DEF p, chunk, ph, more, third
    <3> QED BY <2>1
  <2> HIDE DEF two, third
  <2> QED BY <2>2
<1> HIDE DEF two, third
<1>14. Received(v, two \o third).rows = log.rows /\ Received(v, two \o third).phase = log.phase
  BY <1>12, <1>13, ReceivedIsHeard
<1> QED BY <1>1, <1>14 DEF two

\* However frames were merged, and whatever was emitted while the snapshot was
\* on its way: what a live stream has yet to send makes its reader show the log.
THEOREM DeliveryCorrect == Spec => []NothingLost
<1>1. ASSUME IInv, NEW c \in Stream, IsOpen(c), ~Ended(stream[c])
      PROVE  LET v == Received(view[c], Owed(stream[c]))
             IN  v.rows = rows /\ v.phase = phase
  <2>1. /\ Kept(stream[c], view[c]) /\ Delivers(stream[c], view[c], Log)
        /\ stream[c].pc # "closed"
    BY <1>1 DEF IInv, IsOpen
  <2>2. Log.rows = rows /\ Log.phase = phase
    BY DEF Log
  <2> HIDE DEF Log
  <2> QED BY <1>1, <2>1, <2>2, OwedIsTheRest
<1>2. IInv => NothingLost
  BY <1>1 DEF NothingLost
<1> QED BY Invariance, <1>2, PTL

\* In every step a reader goes on to rows that are no older and of no earlier
\* file, and all of one file, or to none at all.
THEOREM AdvanceCorrect == Spec => ViewOnlyAdvances
<1>1. ASSUME NEW v, NEW w, \/ Shown(v) /\ w = v
                           \/ w.rows = <<>>
                           \/ Leads(v, w)
      PROVE  \A i \in DOMAIN v.rows \cap DOMAIN w.rows : Later(w.rows[i], v.rows[i])
  <2>1. CASE Shown(v) /\ w = v
    <3>1. Leads(v, w)
      BY <2>1, LeadsSame DEF Shown
    <3> QED BY <3>1 DEF Leads
  <2>2. CASE w.rows = <<>>
    BY <2>2
  <2>3. CASE Leads(v, w)
    BY <2>3 DEF Leads
  <2> QED BY <1>1, <2>1, <2>2, <2>3
<1>2. ASSUME IInv, [Next]_vars, NEW c \in Stream
      PROVE  \/ Shown(view[c]) /\ view'[c] = view[c]
             \/ view'[c].rows = <<>>
             \/ Leads(view[c], view'[c])
  <2>1. Shown(view[c]) /\ Kept(stream[c], view[c]) /\ Delivers(stream[c], view[c], Log)
    BY <1>2 DEF IInv, Delivers
  <2>2. ASSUME NEW d \in Stream, Step(d)
        PROVE  IsOpen(d) /\ \E r : Resume(d, r)
    BY <2>2 DEF Step, SnapshotBegun, ChunkWritten, Slept, SnapshotEnded, ProgressWritten,
                BacklogAnnounced, BacklogFrameWritten, BacklogDone, FrameWritten, Woken,
                PingWritten, ErrorWritten, ResetWritten, ByeWritten, At, IsOpen
  <2>3. CASE UNCHANGED view
    BY <2>1, <2>3
  <2>4. ASSUME NEW d \in Stream, Step(d)
        PROVE  view'[c] = view[c] \/ Leads(view[c], view'[c])
    <3>1. view' = [e \in Stream |-> IF e = d THEN Heard(stream[d], view[d]) ELSE view[e]]
      BY <1>2, <2>2, <2>4 DEF Resume, IInv, Heard
    <3>2. d = c => Leads(view[c], Heard(stream[c], view[c]))
      BY <2>1, <2>2, <2>4, HeardIsShown DEF IsOpen
    <3> QED BY <3>1, <3>2
  <2>5. ASSUME NEW d \in Stream, Open(d) \/ Abort(d)
        PROVE  view'[c] = view[c] \/ view'[c].rows = <<>>
    <3>1. view' = [e \in Stream |-> IF e = d THEN NoView ELSE view[e]]
      BY <1>2, <2>5 DEF Open, Abort, IInv
    <3>2. NoView.rows = <<>>
      BY DEF NoView
    <3> HIDE DEF NoView
    <3> QED BY <3>1, <3>2
  <2>6. Source => UNCHANGED view
    BY DEF Source, SourceAppend, SourcePatch, SourceProgress, SourceError,
           SourceRotation, SessionChange
  <2>7. \A d \in Stream : HeartbeatDue(d) => UNCHANGED view
    BY DEF HeartbeatDue
  <2> QED BY <1>2, <2>1, <2>3, <2>4, <2>5, <2>6, <2>7 DEF Next, vars
<1>3. IInv /\ [Next]_vars => NothingGoesBack
  <2> SUFFICES ASSUME IInv, [Next]_vars, NEW c \in Stream,
                      NEW i \in DOMAIN view[c].rows \cap DOMAIN view'[c].rows
               PROVE  Later(view'[c].rows[i], view[c].rows[i])
    BY DEF NothingGoesBack, Later
  <2> QED BY <1>1, <1>2
<1>4. IInv => OneFileShown
  BY DEF IInv, Delivers, Shown, Good, OneFileShown
<1> QED BY Invariance, <1>3, <1>4, PTL DEF Spec, ViewOnlyAdvances

=============================================================================
