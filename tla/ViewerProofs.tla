---------------------------- MODULE ViewerProofs ----------------------------
(***************************************************************************)
(* Theorems about Viewer, for any log, any size of chunks and drains.      *)
(***************************************************************************)
EXTENDS Viewer, SequenceTheorems, NaturalsInduction, WellFoundedInduction, TLAPS

-----------------------------------------------------------------------------
(* Numbers and sequences.                                                  *)

\* A set of natural numbers has a least element.
LEMMA LeastNumber ==
  ASSUME NEW T, T \subseteq Nat, T # {}
  PROVE  \E n \in T : \A m \in T : n <= m
<1>1. PICK n \in T : \A m \in T : ~(<<m, n>> \in OpToRel(<, Nat))
  BY NatLessThanWellFounded, WFMin
<1>2. ASSUME NEW m \in T, m < n PROVE FALSE
  <2>1. <<m, n>> \in OpToRel(<, Nat)
    BY <1>2 DEF OpToRel
  <2> QED BY <1>1, <2>1
<1> QED BY <1>2

\* What holds of 0, and of n when it holds of n - 1, holds up to k: Good is the
\* set of the numbers it holds of.
LEMMA UpTo ==
  ASSUME NEW k \in Nat, NEW Good, 0 \in Good,
         \A n \in 1..k : n - 1 \in Good => n \in Good
  PROVE  \A n \in 0..k : n \in Good
<1> DEFINE T == {n \in 0..k : n \notin Good}
<1>1. ASSUME T # {} PROVE FALSE
  <2>1. T \subseteq Nat
    OBVIOUS
  <2>2. PICK n \in T : \A m \in T : n <= m
    <3> HIDE DEF T
    <3> QED BY <1>1, <2>1, LeastNumber
  <2>3. n # 0 /\ n - 1 \in 0..k /\ n - 1 \notin T
    BY <2>2
  <2> QED BY <2>2, <2>3
<1> QED BY <1>1

\* The smaller of two.
Least(a, b) == IF a <= b THEN a ELSE b

LEMMA MinOfTwo ==
  ASSUME NEW a \in Int, NEW b \in Int
  PROVE  Min({a, b}) = Least(a, b)
<1> DEFINE m == Least(a, b)
<1>1. m \in {a, b} /\ \A y \in {a, b} : m <= y
  BY DEF Least
<1>2. \A x \in {a, b} : (\A y \in {a, b} : x <= y) => x = m
  BY DEF Least
<1> HIDE DEF m
<1> QED BY <1>1, <1>2 DEF Min, m

\* The last index of a sequence is its length.
LEMMA LengthOfSequence ==
  ASSUME NEW k \in Nat, NEW rs, DOMAIN rs = 1..k
  PROVE  LengthOf(rs) = k
<1>1. k \in DOMAIN rs \cup {0} /\ \A y \in DOMAIN rs \cup {0} : k >= y
  OBVIOUS
<1>2. \A x \in DOMAIN rs \cup {0} : (\A y \in DOMAIN rs \cup {0} : x >= y) => x = k
  OBVIOUS
<1> QED BY <1>1, <1>2 DEF LengthOf, Max

\* Two sequences, one behind the other.
LEMMA Joined ==
  ASSUME NEW F, NEW q \in Seq(F), NEW w \in Seq(F)
  PROVE  /\ q \o w \in Seq(F) /\ Len(q \o w) = Len(q) + Len(w)
         /\ Len(q) \in Nat /\ Len(w) \in Nat
         /\ \A n \in 1..Len(q) : (q \o w)[n] = q[n]
         /\ \A n \in 1..Len(w) : (q \o w)[Len(q) + n] = w[n]
  OBVIOUS

-----------------------------------------------------------------------------
(* Rows.                                                                   *)

Rec == [idx : Nat, file : Nat, patches : Nat]

\* each row is where its index says
IsLog(rs) == rs \in Seq(Rec) /\ \A i \in 1..Len(rs) : rs[i].idx = i

\* Rows placed right behind others.
LEMMA PlacedBehind ==
  ASSUME NEW rs \in Seq(Rec), NEW new \in Seq(Rec)
  PROVE  LET p == Placed(rs, Len(rs) + 1, new)
         IN  /\ p \in Seq(Rec) /\ Len(p) = Len(rs) + Len(new)
             /\ \A i \in 1..Len(rs) : p[i] = rs[i]
             /\ \A i \in 1..Len(new) : p[Len(rs) + i] = new[i]
<1> DEFINE k == Len(rs)
           n == Len(new)
           p == Placed(rs, k + 1, new)
<1>1. k \in Nat /\ n \in Nat /\ DOMAIN rs = 1..k
  OBVIOUS
<1>2. \A i \in 1..k : rs[i] \in Rec
  OBVIOUS
<1>3. \A i \in 1..n : new[i] \in Rec
  OBVIOUS
<1> HIDE DEF k, n
<1>4. DOMAIN rs \cup ((k + 1)..(k + 1 + n - 1)) = 1..(k + n)
  BY <1>1
<1>5. p = [i \in 1..(k + n) |->
             IF i >= k + 1 /\ i < k + 1 + n THEN new[i - (k + 1) + 1] ELSE rs[i]]
  BY <1>4 DEF Placed, n
<1> HIDE DEF p
<1>6. \A i \in 1..k : p[i] = rs[i]
  BY <1>1, <1>5
<1>7. \A i \in 1..n : p[k + i] = new[i]
  <2> SUFFICES ASSUME NEW i \in 1..n PROVE p[k + i] = new[i]
    OBVIOUS
  <2>1. k + i \in 1..(k + n) /\ k + i >= k + 1 /\ k + i < k + 1 + n /\ k + i - (k + 1) + 1 = i
    BY <1>1
  <2> DEFINE j == k + i
  <2>2. j \in 1..(k + n) /\ j >= k + 1 /\ j < k + 1 + n /\ j - (k + 1) + 1 = i
    BY <1>1, <2>1
  <2> HIDE DEF j
  <2>3. p[j] = IF j >= k + 1 /\ j < k + 1 + n THEN new[j - (k + 1) + 1] ELSE rs[j]
    BY <1>5, <2>2
  <2>4. p[j] = new[i]
    BY <2>2, <2>3
  <2> QED BY <2>4 DEF j
<1>8. \A j \in 1..(k + n) : p[j] \in Rec
  <2> SUFFICES ASSUME NEW j \in 1..(k + n) PROVE p[j] \in Rec
    OBVIOUS
  <2>1. CASE j <= k
    BY <1>1, <1>2, <1>6, <2>1
  <2>2. CASE j > k
    <3>1. j - k \in 1..n /\ k + (j - k) = j
      BY <1>1, <2>2
    <3> QED BY <1>3, <1>7, <3>1
  <2> QED BY <1>1, <2>1, <2>2
<1>9. p \in Seq(Rec) /\ Len(p) = k + n
  <2>1. p = [j \in 1..(k + n) |-> p[j]] /\ k + n \in Nat
    BY <1>1, <1>5
  <2> QED BY <1>8, <2>1
<1> QED BY <1>6, <1>7, <1>9 DEF k, n, p

-----------------------------------------------------------------------------
(* The store and the log.                                                  *)

\* a store
IsView(v) == v = [rows |-> v.rows, pendingBuffer |-> v.pendingBuffer,
                  livePaused |-> v.livePaused, connection |-> v.connection,
                  inStep |-> v.inStep]

\* the log as a reader of a stream may know it: before the snapshot, within it,
\* or after
At(place, rs) == [place |-> place, rows |-> rs]

\* all is a, and then b
Halves(a, b, all) ==
  /\ a \in Seq(Rec) /\ b \in Seq(Rec)
  /\ Len(a) + Len(b) = Len(all)
  /\ \A i \in 1..Len(a) : a[i] = all[i]
  /\ \A i \in 1..Len(b) : b[i] = all[Len(a) + i]

\* v shows the first of the rows and holds back the others
Shows(v, rs) == Halves(v.rows, v.pendingBuffer, rs)

Agrees(v, l) ==
  l.place # "before" /\ v.inStep =>
    /\ Shows(v, l.rows)
    /\ l.place = "snapshot" \/ ~v.livePaused => v.pendingBuffer = <<>>

\* What is shown and held back is the log.
LEMMA HalvesAll ==
  ASSUME NEW a, NEW b, NEW all, IsLog(all), Halves(a, b, all)
  PROVE  Placed(a, LengthOf(a) + 1, b) = all
<1> DEFINE k == Len(a)
           n == Len(b)
           h == Placed(a, k + 1, b)
<1>0. a \in Seq(Rec) /\ b \in Seq(Rec) /\ k + n = Len(all) /\ all \in Seq(Rec)
  BY DEF Halves, IsLog
<1>1. k \in Nat /\ n \in Nat /\ DOMAIN a = 1..k /\ all = [j \in 1..(k + n) |-> all[j]]
  BY <1>0
<1>2. \A i \in 1..k : a[i] = all[i]
  BY DEF Halves
<1>3. \A i \in 1..n : b[i] = all[k + i]
  BY DEF Halves
<1>4. LengthOf(a) = k
  BY <1>1, LengthOfSequence
<1>5. /\ h \in Seq(Rec) /\ Len(h) = k + n
      /\ \A i \in 1..k : h[i] = a[i]
      /\ \A i \in 1..n : h[k + i] = b[i]
  BY <1>0, PlacedBehind
<1> HIDE DEF h, k, n
<1>6. ASSUME NEW j \in 1..(k + n) PROVE h[j] = all[j]
  <2>1. CASE j <= k
    <3>1. j \in 1..k
      BY <1>1, <2>1
    <3> QED BY <1>2, <1>5, <3>1
  <2>2. CASE j > k
    <3>1. j - k \in 1..n /\ k + (j - k) = j
      BY <1>1, <2>2
    <3>2. h[k + (j - k)] = all[k + (j - k)]
      BY <1>3, <1>5, <3>1
    <3> QED BY <3>1, <3>2
  <2> QED BY <1>1, <2>1, <2>2
<1>7. h = [j \in 1..(k + n) |-> h[j]]
  BY <1>1, <1>5
<1>8. h = all
  BY <1>1, <1>6, <1>7
<1> QED BY <1>4, <1>8 DEF h, k

-----------------------------------------------------------------------------
(* What a frame does to the log, as its reader knows it.                   *)

Starts(f, m) == f.kind = "snapshot-begin" /\ m = At("snapshot", <<>>)

Loads(l, f, m) ==
  /\ l.place = "snapshot" /\ f.kind = "snapshot-chunk" /\ m.place = "snapshot"
  /\ f.from = Len(l.rows) + 1
  /\ Halves(l.rows, f.rows, m.rows)

Ends(l, f, m) ==
  l.place = "snapshot" /\ f.kind = "snapshot-end" /\ m = At("live", l.rows)

Grows(l, f, m) ==
  /\ l.place = "live" /\ f.kind = "append" /\ m.place = "live"
  /\ f.from = Len(l.rows) + 1 /\ Len(f.rows) = 1
  /\ Halves(l.rows, f.rows, m.rows)

Changes(l, f, m) ==
  /\ l.place = "live" /\ f.kind = "patch" /\ m.place = "live"
  /\ DOMAIN f.updates \subseteq 1..Len(l.rows)
  /\ Len(m.rows) = Len(l.rows)
  /\ \A i \in 1..Len(l.rows) :
       m.rows[i] = IF i \in DOMAIN f.updates THEN f.updates[i] ELSE l.rows[i]

Rotates(l, f, m) ==
  l.place = "live" /\ f.kind = "rotation" /\ m = At("live", <<>>)

\* a frame of an earlier stream, before the snapshot
Passes(l, f, m) == l.place = "before" /\ f.kind \in Queued /\ m = l

Moves(l, f, m) ==
  /\ IsLog(l.rows) /\ IsLog(m.rows)
  /\ \/ Passes(l, f, m) \/ Starts(f, m) \/ Loads(l, f, m) \/ Ends(l, f, m)
     \/ Grows(l, f, m) \/ Changes(l, f, m) \/ Rotates(l, f, m)

\* what the store makes of a frame, heard or drained
Taken(c, v, f) == IF f.kind \in Queued THEN Drained(v, f) ELSE Heard(c, v, f)

\* The store stays one.
LEMMA DrainedIsView ==
  ASSUME NEW v, IsView(v), NEW f, f.kind \in Queued
  PROVE  IsView(Drained(v, f))
  BY DEF IsView, Queued, Drained, appendSnapshotRows, appendRows, applyPatch

LEMMA HeardIsView ==
  ASSUME NEW c, NEW v, IsView(v), NEW f
  PROVE  IsView(Heard(c, v, f))
  BY DEF IsView, Heard, resetForRotation, logSwitchState, NoView, onError

\* Nothing is shown or held back of an empty log.
LEMMA HalvesNothing == Halves(<<>>, <<>>, <<>>)
  BY DEF Halves

\* More rows behind those held back.
LEMMA HalvesFurther ==
  ASSUME NEW a, NEW b, NEW all, NEW new, NEW more,
         Halves(a, b, all), Halves(all, new, more)
  PROVE  Halves(a, b \o new, more)
<1> DEFINE k == Len(a)
           n == Len(b)
           c == b \o new
<1>1. /\ a \in Seq(Rec) /\ b \in Seq(Rec) /\ new \in Seq(Rec)
      /\ Len(all) = k + n /\ Len(more) = Len(all) + Len(new)
  BY DEF Halves
<1>2. /\ c \in Seq(Rec) /\ Len(c) = n + Len(new)
      /\ k \in Nat /\ n \in Nat /\ Len(new) \in Nat
      /\ \A i \in 1..n : c[i] = b[i]
      /\ \A i \in 1..Len(new) : c[n + i] = new[i]
  BY <1>1
<1>3. /\ \A i \in 1..k : a[i] = all[i]
      /\ \A i \in 1..n : b[i] = all[k + i]
  BY DEF Halves
<1>4. /\ \A i \in 1..Len(all) : all[i] = more[i]
      /\ \A i \in 1..Len(new) : new[i] = more[Len(all) + i]
  BY DEF Halves
<1> HIDE DEF k, n, c
<1>5. \A i \in 1..k : a[i] = more[i]
  BY <1>1, <1>2, <1>3, <1>4
<1>6. ASSUME NEW i \in 1..Len(c) PROVE c[i] = more[k + i]
  <2>1. CASE i <= n
    <3>1. i \in 1..n /\ k + i \in 1..Len(all)
      BY <1>1, <1>2, <2>1
    <3> QED BY <1>2, <1>3, <1>4, <3>1
  <2>2. CASE i > n
    <3> DEFINE j == i - n
    <3>1. j \in 1..Len(new) /\ n + j = i /\ Len(all) + j = k + i
      BY <1>1, <1>2, <2>2
    <3> HIDE DEF j
    <3>2. c[n + j] = more[Len(all) + j]
      BY <1>2, <1>4, <3>1
    <3> QED BY <3>1, <3>2
  <2> QED BY <1>2, <2>1, <2>2
<1>7. k + Len(c) = Len(more)
  BY <1>1, <1>2
<1> QED BY <1>1, <1>2, <1>5, <1>6, <1>7 DEF Halves, k, c

\* All is shown, and more rows right behind.
LEMMA HalvesShown ==
  ASSUME NEW a, NEW all, NEW new, NEW more,
         Halves(a, <<>>, all), Halves(all, new, more)
  PROVE  Halves(Placed(a, Len(all) + 1, new), <<>>, more)
<1> DEFINE p == Placed(a, Len(a) + 1, new)
<1>1. /\ a \in Seq(Rec) /\ new \in Seq(Rec)
      /\ Len(all) = Len(a) /\ Len(more) = Len(all) + Len(new)
      /\ Len(a) \in Nat /\ Len(new) \in Nat
  BY DEF Halves
<1>2. /\ \A i \in 1..Len(a) : a[i] = all[i]
      /\ \A i \in 1..Len(all) : all[i] = more[i]
      /\ \A i \in 1..Len(new) : new[i] = more[Len(all) + i]
  BY DEF Halves
<1>3. /\ p \in Seq(Rec) /\ Len(p) = Len(a) + Len(new)
      /\ \A i \in 1..Len(a) : p[i] = a[i]
      /\ \A i \in 1..Len(new) : p[Len(a) + i] = new[i]
  BY <1>1, PlacedBehind
<1> HIDE DEF p
<1>4. ASSUME NEW i \in 1..Len(p) PROVE p[i] = more[i]
  <2>1. CASE i <= Len(a)
    <3>1. i \in 1..Len(a) /\ i \in 1..Len(all)
      BY <1>1, <2>1
    <3> QED BY <1>2, <1>3, <3>1
  <2>2. CASE i > Len(a)
    <3> DEFINE j == i - Len(a)
    <3>1. j \in 1..Len(new) /\ Len(a) + j = i /\ Len(all) + j = i
      BY <1>1, <1>3, <2>2
    <3> HIDE DEF j
    <3>2. p[Len(a) + j] = more[Len(all) + j]
      BY <1>2, <1>3, <3>1
    <3> QED BY <3>1, <3>2
  <2> QED BY <1>1, <1>3, <2>1, <2>2
<1>5. /\ <<>> \in Seq(Rec) /\ Len(<<>>) = 0 /\ Len(p) + 0 = Len(more)
      /\ \A i \in 1..0 : <<>>[i] = more[Len(p) + i]
  BY <1>1, <1>3
<1>6. Halves(p, <<>>, more)
  BY <1>3, <1>4, <1>5 DEF Halves
<1> QED BY <1>1, <1>6 DEF p

\* Rows are replaced where they are, shown or held back: of those held back none
\* has the index of another.
LEMMA HalvesChanged ==
  ASSUME NEW a, NEW b, NEW all, NEW updates, NEW new,
         IsLog(all), IsLog(new), Halves(a, b, all), Len(new) = Len(all),
         \A i \in 1..Len(all) : new[i] = IF i \in DOMAIN updates THEN updates[i] ELSE all[i]
  PROVE  Halves(Patched(a, updates), PatchedFirst(b, updates), new)
<1> DEFINE k == Len(a)
           n == Len(b)
           p == Patched(a, updates)
           r == PatchedFirst(b, updates)
<1>1. /\ k \in Nat /\ n \in Nat /\ Len(all) = k + n /\ DOMAIN a = 1..k /\ DOMAIN b = 1..n
      /\ new \in Seq(Rec)
  <2>1. a \in Seq(Rec) /\ b \in Seq(Rec) /\ new \in Seq(Rec) /\ k + n = Len(all)
    BY DEF Halves, IsLog
  <2> QED BY <2>1
<1>2. /\ \A i \in 1..k : a[i] = all[i]
      /\ \A i \in 1..n : b[i] = all[k + i]
  BY DEF Halves
<1>3. \A i \in 1..(k + n) : all[i].idx = i /\ new[i] \in Rec
  BY <1>1 DEF IsLog
<1> HIDE DEF k, n
<1>4. \A i \in 1..(k + n) :
        new[i] = IF i \in DOMAIN updates THEN updates[i] ELSE all[i]
  BY <1>1
<1>5. p = [i \in 1..k |-> IF i \in DOMAIN updates THEN updates[i] ELSE a[i]]
  BY <1>1 DEF Patched
<1>6. r = [i \in 1..n |-> IF b[i].idx \in DOMAIN updates /\ FirstOf(b, i)
                          THEN updates[b[i].idx] ELSE b[i]]
  BY <1>1 DEF PatchedFirst
<1> HIDE DEF p, r
<1>7. ASSUME NEW i \in 1..k PROVE p[i] = new[i] /\ p[i] \in Rec
  <2>1. i \in 1..(k + n)
    BY <1>1
  <2> QED BY <1>2, <1>3, <1>4, <1>5, <2>1
<1>8. ASSUME NEW i \in 1..n PROVE r[i] = new[k + i] /\ r[i] \in Rec
  <2>1. k + i \in 1..(k + n)
    BY <1>1
  <2>2. \A j \in 1..n : k + j \in 1..(k + n) /\ b[j] = all[k + j] /\ b[j].idx = k + j
    BY <1>1, <1>2, <1>3
  <2>3. FirstOf(b, i)
    BY <1>1, <2>2 DEF FirstOf
  <2> QED BY <1>3, <1>4, <1>6, <2>1, <2>2, <2>3
<1>9. p \in Seq(Rec) /\ Len(p) = k
  <2>1. p = [i \in 1..k |-> p[i]]
    BY <1>5
  <2> QED BY <1>1, <1>7, <2>1
<1>10. r \in Seq(Rec) /\ Len(r) = n
  <2>1. r = [i \in 1..n |-> r[i]]
    BY <1>6
  <2> QED BY <1>1, <1>8, <2>1
<1>11. Halves(p, r, new)
  BY <1>1, <1>7, <1>8, <1>9, <1>10 DEF Halves
<1> QED BY <1>11 DEF p, r

\* A store that agrees with the log before a frame agrees with it after.
LEMMA TakenAgrees ==
  ASSUME NEW c, NEW v, IsView(v), NEW l, NEW f, NEW m, Agrees(v, l), Moves(l, f, m)
  PROVE  IsView(Taken(c, v, f)) /\ Agrees(Taken(c, v, f), m)
<1> DEFINE w == Taken(c, v, f)
<1>1. IsView(w)
  BY DrainedIsView, HeardIsView DEF Taken
<1> SUFFICES Agrees(w, m)
  BY <1>1
<1>2. CASE Passes(l, f, m)
  BY <1>2 DEF Passes, Agrees
<1>3. CASE Starts(f, m)
  <2>1. w.rows = <<>> /\ w.pendingBuffer = v.pendingBuffer /\ (w.inStep => v.pendingBuffer = <<>>)
    BY <1>3 DEF Starts, Taken, Queued, Heard, IsView
  <2>2. m.rows = <<>>
    BY <1>3 DEF Starts, At
  <2> HIDE DEF w
  <2> QED BY <2>1, <2>2, HalvesNothing DEF Agrees, Shows
<1>4. CASE Loads(l, f, m)
  <2>1. f.kind = "snapshot-chunk"
    BY <1>4 DEF Loads
  <2>2. w = appendSnapshotRows(v, f.from, f.rows)
    BY <2>1 DEF Taken, Queued, Drained
  <2>3. /\ w.rows = Placed(v.rows, f.from, f.rows)
        /\ w.pendingBuffer = v.pendingBuffer /\ w.inStep = v.inStep
    BY <2>2 DEF IsView, appendSnapshotRows
  <2> HIDE DEF w
  <2>4. SUFFICES ASSUME v.inStep
                 PROVE  Halves(w.rows, w.pendingBuffer, m.rows) /\ w.pendingBuffer = <<>>
    BY <2>3 DEF Agrees, Shows
  <2>5. Halves(v.rows, v.pendingBuffer, l.rows) /\ v.pendingBuffer = <<>>
    BY <1>4, <2>4 DEF Agrees, Shows, Loads
  <2>6. Halves(Placed(v.rows, Len(l.rows) + 1, f.rows), <<>>, m.rows)
    <3>1. Halves(v.rows, <<>>, l.rows) /\ Halves(l.rows, f.rows, m.rows)
      BY <1>4, <2>5 DEF Loads
    <3> QED BY <3>1, HalvesShown
  <2>7. f.from = Len(l.rows) + 1
    BY <1>4 DEF Loads
  <2> QED BY <2>3, <2>5, <2>6, <2>7
<1>5. CASE Ends(l, f, m)
  <2>1. f.kind = "snapshot-end" /\ m.rows = l.rows /\ l.place = "snapshot"
    BY <1>5 DEF Ends, At
  <2>2. /\ w.rows = v.rows /\ w.pendingBuffer = v.pendingBuffer /\ w.inStep = v.inStep
    BY <2>1 DEF Taken, Queued, Drained, IsView
  <2> HIDE DEF w
  <2> QED BY <2>1, <2>2 DEF Agrees, Shows
<1>6. CASE Grows(l, f, m)
  <2>1. f.kind = "append" /\ l.place = "live" /\ m.place = "live" /\ f.from = Len(l.rows) + 1
    BY <1>6 DEF Grows
  <2>2. w = appendRows(v, f.from, f.rows)
    BY <2>1 DEF Taken, Queued, Drained
  <2>3. Halves(l.rows, f.rows, m.rows)
    BY <1>6 DEF Grows
  <2>4. v.inStep => /\ Halves(v.rows, v.pendingBuffer, l.rows)
                    /\ ~v.livePaused => v.pendingBuffer = <<>>
    BY <2>1 DEF Agrees, Shows
  <2>5. CASE v.livePaused
    <3>1. /\ w.rows = v.rows /\ w.pendingBuffer = v.pendingBuffer \o f.rows
          /\ w.inStep = v.inStep /\ w.livePaused = v.livePaused
      BY <2>2, <2>5 DEF IsView, appendRows
    <3> HIDE DEF w
    <3>2. v.inStep => Halves(v.rows, v.pendingBuffer \o f.rows, m.rows)
      BY <2>3, <2>4, HalvesFurther
    <3> QED BY <2>1, <2>5, <3>1, <3>2 DEF Agrees, Shows
  <2>6. CASE ~v.livePaused
    <3>1. /\ w.rows = Placed(v.rows, Len(l.rows) + 1, f.rows)
          /\ w.pendingBuffer = v.pendingBuffer /\ w.inStep = v.inStep
      BY <2>1, <2>2, <2>6 DEF IsView, appendRows
    <3> HIDE DEF w
    <3>2. v.inStep => v.pendingBuffer = <<>> /\ Halves(v.rows, <<>>, l.rows)
      BY <2>4, <2>6
    <3>3. v.inStep => Halves(Placed(v.rows, Len(l.rows) + 1, f.rows), <<>>, m.rows)
      BY <2>3, <3>2, HalvesShown
    <3> QED BY <3>1, <3>2, <3>3 DEF Agrees, Shows
  <2> QED BY <2>5, <2>6
<1>7. CASE Changes(l, f, m)
  <2>1. f.kind = "patch" /\ l.place = "live" /\ m.place = "live"
    BY <1>7 DEF Changes
  <2>2. w = applyPatch(v, f.updates)
    BY <2>1 DEF Taken, Queued, Drained
  <2>3. /\ w.rows = Patched(v.rows, f.updates)
        /\ w.pendingBuffer = PatchedFirst(v.pendingBuffer, f.updates)
        /\ w.inStep = v.inStep /\ w.livePaused = v.livePaused
    BY <2>2 DEF IsView, applyPatch
  <2> HIDE DEF w
  <2>4. v.inStep => /\ Halves(v.rows, v.pendingBuffer, l.rows)
                    /\ ~v.livePaused => v.pendingBuffer = <<>>
    BY <2>1 DEF Agrees, Shows
  <2>5. /\ IsLog(l.rows) /\ IsLog(m.rows) /\ Len(m.rows) = Len(l.rows)
        /\ \A i \in 1..Len(l.rows) :
             m.rows[i] = IF i \in DOMAIN f.updates THEN f.updates[i] ELSE l.rows[i]
    BY <1>7 DEF Changes, Moves
  <2>6. v.inStep => Halves(w.rows, w.pendingBuffer, m.rows)
    BY <2>3, <2>4, <2>5, HalvesChanged
  <2>7. v.pendingBuffer = <<>> => w.pendingBuffer = <<>>
    <3>1. PatchedFirst(<<>>, f.updates) = <<>>
      BY DEF PatchedFirst
    <3> QED BY <2>3, <3>1
  <2> QED BY <2>1, <2>3, <2>4, <2>6, <2>7 DEF Agrees, Shows
<1>8. CASE Rotates(l, f, m)
  <2>1. f.kind = "rotation" /\ m.rows = <<>>
    BY <1>8 DEF Rotates, At
  <2>2. w = resetForRotation(v)
    BY <2>1 DEF Taken, Queued, Heard
  <2>3. w.rows = <<>> /\ w.pendingBuffer = <<>>
    BY <2>2 DEF IsView, resetForRotation
  <2> HIDE DEF w
  <2> QED BY <2>1, <2>3, HalvesNothing DEF Agrees, Shows
<1> HIDE DEF w
<1> QED BY <1>2, <1>3, <1>4, <1>5, <1>6, <1>7, <1>8 DEF Moves

-----------------------------------------------------------------------------
(* A store, the frames it has still to take, and the log they lead it to.  *)

\* logs is the log as known before the first of the frames, between two, and
\* at the end
IsChain(logs, fs) ==
  IsLog(logs[0].rows) /\ \A n \in 1..Len(fs) : Moves(logs[n - 1], fs[n], logs[n])

Reaches(v, fs, l) ==
  \E logs : IsChain(logs, fs) /\ Agrees(v, logs[0]) /\ logs[Len(fs)] = l

LEMMA ReachesNothing ==
  ASSUME NEW v, NEW l, IsLog(l.rows)
  PROVE  Reaches(v, <<>>, l) <=> Agrees(v, l)
<1>1. ASSUME Agrees(v, l) PROVE Reaches(v, <<>>, l)
  <2> DEFINE logs == [n \in {0} |-> l]
  <2>1. logs[0] = l /\ Len(<<>>) = 0
    OBVIOUS
  <2> HIDE DEF logs
  <2> QED BY <1>1, <2>1 DEF Reaches, IsChain
<1> QED BY <1>1 DEF Reaches, IsChain

\* One more frame at the end.
LEMMA ReachesAppend ==
  ASSUME NEW F, NEW fs \in Seq(F), NEW f, NEW v, NEW l, NEW m,
         Reaches(v, fs, l), Moves(l, f, m)
  PROVE  Reaches(v, Append(fs, f), m)
<1> DEFINE k == Len(fs)
           all == Append(fs, f)
<1>1. PICK logs : IsChain(logs, fs) /\ Agrees(v, logs[0]) /\ logs[k] = l
  BY DEF Reaches
<1> DEFINE more == [n \in 0..(k + 1) |-> IF n = k + 1 THEN m ELSE logs[n]]
<1>2. /\ k \in Nat /\ Len(all) = k + 1 /\ all[k + 1] = f
      /\ \A n \in 1..k : all[n] = fs[n]
  BY AppendProperties
<1> HIDE DEF k, all
<1>3. /\ more[k + 1] = m
      /\ \A n \in 0..k : more[n] = logs[n]
  BY <1>2
<1> HIDE DEF more
<1>4. ASSUME NEW n \in 1..(k + 1) PROVE Moves(more[n - 1], all[n], more[n])
  <2>1. CASE n = k + 1
    <3>1. n - 1 = k /\ k \in 0..k
      BY <1>2, <2>1
    <3> QED BY <1>1, <1>2, <1>3, <2>1, <3>1
  <2>2. CASE n # k + 1
    <3>1. n \in 1..k /\ n \in 0..k /\ n - 1 \in 0..k
      BY <1>2, <2>2
    <3> QED BY <1>1, <1>2, <1>3, <3>1 DEF IsChain, k
  <2> QED BY <2>1, <2>2
<1>5. more[0] = logs[0]
  BY <1>2, <1>3
<1>6. IsChain(more, all)
  BY <1>1, <1>2, <1>4, <1>5 DEF IsChain
<1> QED BY <1>1, <1>2, <1>3, <1>5, <1>6 DEF Reaches, all

\* Another store that agrees where the first does.
LEMMA ReachesLike ==
  ASSUME NEW v, NEW w, NEW fs, NEW l, Reaches(v, fs, l),
         \A m : IsLog(m.rows) /\ Agrees(v, m) => Agrees(w, m)
  PROVE  Reaches(w, fs, l)
  BY DEF Reaches, IsChain

\* All but the first frames.
LEMMA ChainRest ==
  ASSUME NEW F, NEW fs \in Seq(F), NEW rest \in Seq(F), NEW k \in 0..Len(fs),
         Len(rest) = Len(fs) - k, \A n \in 1..Len(rest) : rest[n] = fs[k + n],
         NEW logs, IsChain(logs, fs), NEW v, Agrees(v, logs[k])
  PROVE  Reaches(v, rest, logs[Len(fs)])
<1> DEFINE len == Len(fs)
           less == [n \in 0..(len - k) |-> logs[k + n]]
<1>1. len \in Nat /\ k \in Nat /\ k <= len /\ Len(rest) = len - k
  OBVIOUS
<1>2. \A n \in 1..len : Moves(logs[n - 1], fs[n], logs[n])
  BY DEF IsChain
<1> HIDE DEF len
<1>3. \A n \in 0..(len - k) : less[n] = logs[k + n]
  OBVIOUS
<1> HIDE DEF less
<1>4. less[0] = logs[k] /\ less[len - k] = logs[len]
  <2>1. 0 \in 0..(len - k) /\ len - k \in 0..(len - k) /\ k + (len - k) = len /\ k + 0 = k
    BY <1>1
  <2> QED BY <1>3, <2>1
<1>5. ASSUME NEW n \in 1..(len - k) PROVE Moves(less[n - 1], rest[n], less[n])
  <2>1. /\ n - 1 \in 0..(len - k) /\ n \in 0..(len - k) /\ k + n \in 1..len
        /\ k + (n - 1) = (k + n) - 1
    BY <1>1
  <2> QED BY <1>1, <1>2, <1>3, <2>1
<1>6. IsLog(logs[k].rows)
  <2>1. CASE k = 0
    BY <2>1 DEF IsChain
  <2>2. CASE k # 0
    <3>1. k \in 1..len
      BY <1>1, <2>2
    <3> QED BY <1>2, <3>1 DEF Moves
  <2> QED BY <2>1, <2>2
<1>7. IsChain(less, rest)
  BY <1>1, <1>4, <1>5, <1>6 DEF IsChain
<1> QED BY <1>1, <1>4, <1>7 DEF Reaches, len

\* The store after the first k frames, taken one by one, has the others ahead.
LEMMA ReachesOn ==
  ASSUME NEW F, NEW fs \in Seq(F), NEW rest \in Seq(F), NEW k \in 0..Len(fs),
         Len(rest) = Len(fs) - k, \A n \in 1..Len(rest) : rest[n] = fs[k + n],
         NEW c, NEW run, IsView(run[0]),
         \A n \in 1..k : run[n] = Taken(c, run[n - 1], fs[n]),
         NEW l, Reaches(run[0], fs, l)
  PROVE  Reaches(run[k], rest, l)
<1>1. PICK logs : IsChain(logs, fs) /\ Agrees(run[0], logs[0]) /\ logs[Len(fs)] = l
  BY DEF Reaches
<1> DEFINE Good == {n \in 0..k : IsView(run[n]) /\ Agrees(run[n], logs[n])}
<1>2. k \in Nat /\ 0 \in Good /\ k \in 0..k
  BY <1>1
<1>3. ASSUME NEW n \in 1..k, n - 1 \in Good PROVE n \in Good
  <2>1. n \in 0..k /\ n \in 1..Len(fs)
    OBVIOUS
  <2>2. Moves(logs[n - 1], fs[n], logs[n])
    BY <1>1, <2>1 DEF IsChain
  <2>3. IsView(run[n - 1]) /\ Agrees(run[n - 1], logs[n - 1])
    BY <1>3
  <2>4. IsView(run[n]) /\ Agrees(run[n], logs[n])
    BY <2>2, <2>3, TakenAgrees
  <2> QED BY <2>1, <2>4
<1>4. k \in Good
  <2> HIDE DEF Good
  <2> QED BY <1>2, <1>3, UpTo
<1>5. Agrees(run[k], logs[k])
  BY <1>4
<1> QED BY <1>1, <1>5, ChainRest

-----------------------------------------------------------------------------
(* The snapshot.                                                           *)

\* Chunks of c rows of a: so many that the last holds a row and all are held.
LEMMA Chunks ==
  ASSUME NEW a \in Nat, NEW c \in Nat \ {0}
  PROVE  LET k == (a + c - 1) \div c
         IN  k \in Nat /\ k * c >= a /\ (k - 1) * c < a
  OBVIOUS

LEMMA Multiples ==
  ASSUME NEW c \in Nat, NEW m \in Int, NEW n \in Int, m <= n
  PROVE  m * c <= n * c /\ m * c \in Int /\ (m - 1) * c = m * c - c
  OBVIOUS

\* the frames of the snapshot, and the rows there are after n chunks
ChunksOf == (Len(rows) + ChunkRows - 1) \div ChunkRows
Upto(n) == Least(n * ChunkRows, Len(rows))
Chunk(n) ==
  LET from == (n - 1) * ChunkRows + 1
  IN  [kind |-> "snapshot-chunk", from |-> from,
       rows |-> SubSeq(rows, from, Min({from + ChunkRows - 1, Len(rows)}))]
First(k) == [i \in 1..k |-> rows[i]]

LEMMA SnapshotFrames ==
  ASSUME ChunksOf \in Nat
  PROVE  /\ \E F : Snapshot \in Seq(F)
         /\ Len(Snapshot) = ChunksOf + 2
         /\ Snapshot[1].kind = "snapshot-begin"
         /\ Snapshot[ChunksOf + 2].kind = "snapshot-end"
         /\ \A n \in 1..ChunksOf : Snapshot[n + 1] = Chunk(n)
<1> DEFINE N == ChunksOf
           mid == [n \in 1..N |-> Chunk(n)]
           b == [kind |-> "snapshot-begin"]
           e == [kind |-> "snapshot-end"]
           F == {b, e} \cup {Chunk(n) : n \in 1..N}
           front == <<b>> \o mid
           s == front \o <<e>>
<1>1. Snapshot = s
  BY DEF Snapshot, ChunksOf, Chunk
<1>2. b.kind = "snapshot-begin" /\ e.kind = "snapshot-end" /\ N \in Nat
  OBVIOUS
<1>3. b \in F /\ e \in F /\ \A n \in 1..N : Chunk(n) \in F
  OBVIOUS
<1> HIDE DEF b, e, F, N
<1>4. mid \in Seq(F) /\ Len(mid) = N /\ \A n \in 1..N : mid[n] = Chunk(n)
  BY <1>2, <1>3
<1>5. /\ <<b>> \in Seq(F) /\ Len(<<b>>) = 1 /\ <<b>>[1] = b
      /\ <<e>> \in Seq(F) /\ Len(<<e>>) = 1 /\ <<e>>[1] = e
  BY <1>3
<1> HIDE DEF mid
<1>6. /\ front \in Seq(F) /\ Len(front) = 1 + N /\ front[1] = b
      /\ \A n \in 1..N : front[1 + n] = mid[n]
  <2>1. /\ front \in Seq(F) /\ Len(front) = Len(<<b>>) + Len(mid)
        /\ \A n \in 1..Len(<<b>>) : front[n] = <<b>>[n]
        /\ \A n \in 1..Len(mid) : front[Len(<<b>>) + n] = mid[n]
    BY <1>4, <1>5, Joined
  <2> HIDE DEF front
  <2> QED BY <1>4, <1>5, <2>1
<1> HIDE DEF front
<1>7. /\ s \in Seq(F) /\ Len(s) = N + 2 /\ s[1] = b /\ s[N + 2] = e
      /\ \A n \in 1..N : s[n + 1] = Chunk(n)
  <2>1. /\ s \in Seq(F) /\ Len(s) = Len(front) + Len(<<e>>)
        /\ \A n \in 1..Len(front) : s[n] = front[n]
        /\ \A n \in 1..Len(<<e>>) : s[Len(front) + n] = <<e>>[n]
    BY <1>5, <1>6, Joined
  <2> HIDE DEF s
  <2>2. s[1] = b /\ Len(s) = N + 2
    BY <1>2, <1>5, <1>6, <2>1
  <2>3. s[N + 2] = e
    <3>1. 1 \in 1..Len(<<e>>) /\ Len(front) + 1 = N + 2
      BY <1>2, <1>5, <1>6
    <3>2. s[Len(front) + 1] = <<e>>[1]
      BY <2>1, <3>1
    <3> QED BY <1>5, <3>1, <3>2
  <2>4. ASSUME NEW n \in 1..N PROVE s[n + 1] = Chunk(n)
    <3>1. n + 1 \in 1..Len(front) /\ n + 1 = 1 + n
      BY <1>2, <1>6
    <3>2. s[n + 1] = front[n + 1] /\ front[1 + n] = mid[n]
      BY <1>6, <2>1, <3>1
    <3> QED BY <1>4, <3>1, <3>2
  <2> QED BY <2>1, <2>2, <2>3, <2>4
<1> HIDE DEF s
<1> QED BY <1>1, <1>2, <1>7 DEF N

\* What a chunk adds to the rows before it.
LEMMA ChunkHalves ==
  ASSUME IsLog(rows), NEW n \in 1..ChunksOf
  PROVE  /\ Chunk(n).from = Upto(n - 1) + 1
         /\ Halves(First(Upto(n - 1)), Chunk(n).rows, First(Upto(n)))
<1> DEFINE len == Len(rows)
           C == ChunkRows
           k == Upto(n - 1)
           to == Upto(n)
           from == (n - 1) * C + 1
           piece == SubSeq(rows, from, Min({from + C - 1, len}))
<1>1. len \in Nat /\ C \in Nat \ {0} /\ ChunksOf \in Nat /\ n \in Int /\ n >= 1
      /\ (ChunksOf - 1) * C < len
  <2>1. len \in Nat /\ C \in Nat \ {0}
    BY ChunkAssumption DEF IsLog
  <2>2. ChunksOf \in Nat /\ (ChunksOf - 1) * C < len
    <3> HIDE DEF len, C
    <3>1. ChunksOf = (len + C - 1) \div C
      BY DEF ChunksOf, len, C
    <3> QED BY <2>1, <3>1, Chunks
  <2> QED BY <2>1, <2>2
<1>2. /\ (n - 1) * C \in Nat /\ (n - 1) * C < len /\ n * C = (n - 1) * C + C
  <2> HIDE DEF len, C
  <2>1. (n - 1) * C <= (ChunksOf - 1) * C /\ (n - 1) * C \in Int
    BY <1>1, Multiples
  <2>2. 0 * C <= (n - 1) * C /\ 0 * C = 0
    BY <1>1, Multiples
  <2>3. (n - 1) * C = n * C - C /\ n * C \in Int
    BY <1>1, Multiples
  <2> QED BY <1>1, <2>1, <2>2, <2>3
<1> DEFINE d == (n - 1) * C
<1>3. /\ d \in Nat /\ d < len /\ k = d /\ to = Least(d + C, len) /\ from = d + 1
  BY <1>1, <1>2 DEF Upto, Least
<1>4. Chunk(n).from = from /\ Chunk(n).rows = piece
  BY DEF Chunk
<1>5. Min({from + C - 1, len}) = to
  <2> HIDE DEF d
  <2>1. from + C - 1 = d + C /\ d + C \in Int /\ len \in Int
    BY <1>1, <1>3
  <2> QED BY <1>3, <2>1, MinOfTwo
<1>6. piece = SubSeq(rows, from, to)
  BY <1>5
<1> HIDE DEF d, k, to, from, piece, len, C
<1>7. to \in Nat /\ to <= len /\ k < to /\ from = k + 1 /\ k \in Nat
  BY <1>1, <1>3 DEF Least
<1>8. rows \in Seq(Rec) /\ \A i \in 1..len : rows[i] \in Rec
  BY DEF IsLog, len
<1>9. /\ piece \in Seq(Rec) /\ Len(piece) = to - k
      /\ \A i \in 1..(to - k) : piece[i] = rows[k + i]
  <2>1. from \in Int /\ to \in Int /\ \A i \in from..to : rows[i] \in Rec
    <3>1. \A i \in from..to : i \in 1..len
      BY <1>1, <1>7
    <3> QED BY <1>7, <1>8, <3>1
  <2>2. /\ SubSeq(rows, from, to) \in Seq(Rec)
        /\ Len(SubSeq(rows, from, to)) = IF from <= to THEN to - from + 1 ELSE 0
        /\ \A i \in 1..(to - from + 1) : SubSeq(rows, from, to)[i] = rows[from + i - 1]
    BY <2>1, SubSeqProperties
  <2>3. to - from + 1 = to - k /\ from <= to
    BY <1>7
  <2>4. ASSUME NEW i \in 1..(to - k) PROVE piece[i] = rows[k + i]
    <3>1. from + i - 1 = k + i /\ i \in 1..(to - from + 1)
      BY <1>7
    <3> QED BY <1>6, <2>2, <3>1
  <2> QED BY <1>6, <2>2, <2>3, <2>4
<1>10. ASSUME NEW j \in 0..len
       PROVE  /\ First(j) \in Seq(Rec) /\ Len(First(j)) = j
              /\ \A i \in 1..j : First(j)[i] = rows[i]
  BY <1>1, <1>8 DEF First
<1>11. k \in 0..len /\ to \in 0..len
  BY <1>1, <1>7
<1>12. Halves(First(k), piece, First(to))
  <2> DEFINE a == First(k)
             c == First(to)
  <2>1. /\ a \in Seq(Rec) /\ Len(a) = k /\ Len(c) = to
        /\ \A i \in 1..k : a[i] = rows[i]
        /\ \A i \in 1..to : c[i] = rows[i]
    BY <1>10, <1>11
  <2> HIDE DEF a, c
  <2>2. k + (to - k) = to
    BY <1>7
  <2>3. ASSUME NEW i \in 1..k PROVE a[i] = c[i]
    <3>1. i \in 1..to
      BY <1>7
    <3> QED BY <2>1, <3>1
  <2>4. ASSUME NEW i \in 1..(to - k) PROVE piece[i] = c[k + i]
    <3>1. k + i \in 1..to
      BY <1>7
    <3> QED BY <1>9, <2>1, <3>1
  <2>5. Halves(a, piece, c)
    BY <1>9, <2>1, <2>2, <2>3, <2>4 DEF Halves
  <2> QED BY <2>5 DEF a, c
<1> QED BY <1>4, <1>7, <1>12 DEF k, to

\* The first rows of a log.
LEMMA FirstRows ==
  ASSUME IsLog(rows)
  PROVE  /\ ChunksOf \in Nat
         /\ \A n \in 0..ChunksOf : Upto(n) \in Nat /\ IsLog(First(Upto(n)))
         /\ First(Upto(0)) = <<>> /\ First(Upto(ChunksOf)) = rows
<1> DEFINE len == Len(rows)
           C == ChunkRows
           N == ChunksOf
<1>1. /\ len \in Nat /\ C \in Nat \ {0} /\ rows = [i \in 1..len |-> rows[i]]
      /\ \A i \in 1..len : rows[i] \in Rec /\ rows[i].idx = i
  BY ChunkAssumption DEF IsLog
<1>2. N \in Nat /\ N * C >= len
  <2> HIDE DEF len, C
  <2>1. N = (len + C - 1) \div C
    BY DEF ChunksOf, len, C
  <2> QED BY <1>1, <2>1, Chunks
<1>3. ASSUME NEW n \in 0..N PROVE Upto(n) \in 0..len
  <2> HIDE DEF len, C, N
  <2>1. 0 * C <= n * C /\ 0 * C = 0 /\ n * C \in Int
    <3>1. n \in Int /\ 0 \in Int /\ 0 <= n /\ C \in Nat
      BY <1>1, <1>2
    <3>2. 0 * C <= n * C
      BY <3>1, Multiples
    <3>3. n * C \in Int /\ 0 * C = 0
      BY <3>1
    <3> QED BY <3>2, <3>3
  <2>2. Upto(n) = Least(n * C, len)
    BY DEF Upto, C, len
  <2> QED BY <1>1, <2>1, <2>2 DEF Least
<1>4. ASSUME NEW k \in 0..len PROVE IsLog(First(k))
  <2> DEFINE a == First(k)
  <2>1. k \in Nat /\ a = [i \in 1..k |-> a[i]] /\ \A i \in 1..k : a[i] = rows[i]
    BY <1>1 DEF First
  <2>2. \A i \in 1..k : i \in 1..len
    BY <1>1
  <2> HIDE DEF a
  <2>3. a \in Seq(Rec) /\ Len(a) = k /\ \A i \in 1..k : a[i].idx = i
    BY <1>1, <2>1, <2>2
  <2>4. IsLog(a)
    BY <2>3 DEF IsLog
  <2> QED BY <2>4 DEF a
<1>5. First(Upto(0)) = <<>>
  <2>1. Upto(0) = 0
    <3> HIDE DEF len, C
    <3>1. 0 * C = 0
      BY <1>1
    <3> QED BY <1>1, <3>1 DEF Upto, Least, C, len
  <2> QED BY <2>1 DEF First
<1>6. First(Upto(N)) = rows
  <2>1. Upto(N) = len
    <3> DEFINE a == N * C
    <3>1. Upto(N) = Least(a, len) /\ a >= len
      BY <1>2 DEF Upto
    <3>2. a \in Int
      BY <1>1, <1>2
    <3> HIDE DEF a, len
    <3> QED BY <1>1, <3>1, <3>2 DEF Least
  <2> QED BY <1>1, <2>1 DEF First
<1> QED BY <1>2, <1>3, <1>4, <1>5, <1>6

\* A new stream brings any reader to the log, whatever of an earlier one is
\* still queued.
LEMMA SnapshotReaches ==
  ASSUME IsLog(rows), NEW F, NEW q \in Seq(F), Snapshot \in Seq(F),
         \A n \in 1..Len(q) : q[n].kind \in Queued, NEW v
  PROVE  Reaches(v, q \o Snapshot, At("live", rows))
<1> DEFINE Q == Len(q)
           N == ChunksOf
           fs == q \o Snapshot
           before == At("before", <<>>)
           within(j) == At("snapshot", First(Upto(j)))
           live == At("live", rows)
           logs == [n \in 0..(Q + N + 2) |->
                      IF n <= Q THEN before
                      ELSE IF n <= Q + N + 1 THEN within(n - Q - 1) ELSE live]
<1>1. /\ Q \in Nat /\ N \in Nat
      /\ \A n \in 0..N : Upto(n) \in Nat /\ IsLog(First(Upto(n)))
      /\ First(Upto(0)) = <<>> /\ First(Upto(N)) = rows
  BY FirstRows
<1>2. /\ Len(fs) = Q + N + 2
      /\ \A n \in 1..Q : fs[n] = q[n]
      /\ \A n \in 1..(N + 2) : fs[Q + n] = Snapshot[n]
  <2>1. Len(Snapshot) = N + 2
    BY <1>1, SnapshotFrames
  <2>2. /\ Len(fs) = Q + Len(Snapshot)
        /\ \A n \in 1..Q : fs[n] = q[n]
        /\ \A n \in 1..Len(Snapshot) : fs[Q + n] = Snapshot[n]
    BY Joined
  <2> HIDE DEF N, Q, fs
  <2> QED BY <1>1, <2>1, <2>2
<1>3. /\ Snapshot[1].kind = "snapshot-begin" /\ Snapshot[N + 2].kind = "snapshot-end"
      /\ \A n \in 1..N : Snapshot[n + 1] = Chunk(n)
  BY <1>1, SnapshotFrames
<1> HIDE DEF N, Q, fs
<1>4. /\ \A n \in 0..Q : logs[n] = before
      /\ \A j \in 0..N : logs[Q + 1 + j] = within(j)
      /\ logs[Q + N + 2] = live
  <2> HIDE DEF before, within, live
  <2>1. \A n \in 0..Q : logs[n] = before
    BY <1>1
  <2>2. ASSUME NEW j \in 0..N PROVE logs[Q + 1 + j] = within(j)
    <3> DEFINE n == Q + 1 + j
    <3>1. n \in 0..(Q + N + 2) /\ ~(n <= Q) /\ n <= Q + N + 1 /\ n - Q - 1 = j
      BY <1>1
    <3> HIDE DEF n
    <3>2. logs[n] = within(n - Q - 1)
      BY <3>1
    <3> QED BY <3>1, <3>2 DEF n
  <2>3. logs[Q + N + 2] = live
    BY <1>1
  <2> QED BY <2>1, <2>2, <2>3
<1> HIDE DEF logs
<1>5. /\ before.place = "before" /\ before.rows = <<>>
      /\ live.place = "live" /\ live.rows = rows
      /\ \A j \in 0..N : /\ within(j).place = "snapshot"
                         /\ within(j).rows = First(Upto(j))
      /\ within(0) = At("snapshot", <<>>) /\ live = At("live", rows)
  BY <1>1 DEF At
<1>6. /\ IsLog(before.rows) /\ IsLog(live.rows) /\ \A j \in 0..N : IsLog(within(j).rows)
  <2>1. IsLog(<<>>)
    BY DEF IsLog
  <2> HIDE DEF before, within, live
  <2> QED BY <1>1, <1>5, <2>1
<1> HIDE DEF before, within, live
<1>7. ASSUME NEW n \in 1..(Q + N + 2) PROVE Moves(logs[n - 1], fs[n], logs[n])
  <2>1. CASE n <= Q
    <3>1. n \in 1..Q /\ n \in 0..Q /\ n - 1 \in 0..Q
      BY <1>1, <2>1
    <3>2. fs[n].kind \in Queued
      BY <1>2, <3>1 DEF Q
    <3> QED BY <1>4, <1>5, <1>6, <3>1, <3>2 DEF Moves, Passes
  <2>2. CASE n = Q + 1
    <3>1. n - 1 \in 0..Q /\ Q + 1 + 0 = n /\ 0 \in 0..N /\ 1 \in 1..(N + 2)
      BY <1>1, <2>2
    <3>2. logs[n - 1] = before /\ logs[n] = within(0) /\ fs[n] = Snapshot[1]
      BY <1>2, <1>4, <2>2, <3>1
    <3>3. IsLog(within(0).rows)
      BY <1>6, <3>1
    <3> QED BY <1>3, <1>5, <1>6, <3>2, <3>3 DEF Moves, Starts
  <2>3. CASE n > Q + 1 /\ n < Q + N + 2
    <3> DEFINE j == n - Q - 1
    <3>1. /\ j \in 1..N /\ j \in 0..N /\ j - 1 \in 0..N /\ Q + 1 + j = n
          /\ Q + 1 + (j - 1) = n - 1 /\ j + 1 \in 1..(N + 2) /\ Q + (j + 1) = n
      BY <1>1, <2>3
    <3> HIDE DEF j
    <3>2. logs[n - 1] = within(j - 1) /\ logs[n] = within(j) /\ fs[n] = Snapshot[j + 1]
      BY <1>2, <1>4, <3>1
    <3>3. fs[n] = Chunk(j)
      BY <1>3, <3>1, <3>2
    <3>4. /\ Chunk(j).from = Upto(j - 1) + 1 /\ Chunk(j).kind = "snapshot-chunk"
          /\ Halves(First(Upto(j - 1)), Chunk(j).rows, First(Upto(j)))
      BY <3>1, ChunkHalves DEF Chunk, N
    <3>5. Len(First(Upto(j - 1))) = Upto(j - 1)
      <4>1. Upto(j - 1) \in Nat
        BY <1>1, <3>1
      <4> QED BY <4>1 DEF First
    <3>6. /\ within(j - 1).rows = First(Upto(j - 1)) /\ within(j).rows = First(Upto(j))
          /\ within(j - 1).place = "snapshot" /\ within(j).place = "snapshot"
          /\ IsLog(within(j - 1).rows) /\ IsLog(within(j).rows)
      BY <1>5, <1>6, <3>1
    <3>7. Loads(within(j - 1), Chunk(j), within(j))
      BY <3>4, <3>5, <3>6 DEF Loads
    <3> QED BY <3>2, <3>3, <3>6, <3>7 DEF Moves
  <2>4. CASE n = Q + N + 2
    <3>1. n - 1 = Q + 1 + N /\ N \in 0..N /\ N + 2 \in 1..(N + 2) /\ n = Q + (N + 2)
      BY <1>1, <2>4
    <3>2. logs[n - 1] = within(N) /\ logs[n] = live /\ fs[n] = Snapshot[N + 2]
      BY <1>2, <1>4, <2>4, <3>1
    <3>3. within(N).place = "snapshot" /\ within(N).rows = rows /\ IsLog(within(N).rows)
      BY <1>1, <1>5, <1>6, <3>1
    <3> QED BY <1>3, <1>5, <1>6, <3>2, <3>3 DEF Moves, Ends
  <2> QED BY <1>1, <2>1, <2>2, <2>3, <2>4
<1>8. logs[0] = before /\ logs[Len(fs)] = live
  BY <1>1, <1>2, <1>4
<1>9. IsChain(logs, fs)
  BY <1>2, <1>6, <1>7, <1>8 DEF IsChain
<1>10. Agrees(v, logs[0])
  BY <1>5, <1>8 DEF Agrees
<1> QED BY <1>5, <1>8, <1>9, <1>10 DEF Reaches, fs

-----------------------------------------------------------------------------
(* Frames taken one by one.                                                *)

\* run is the store before the first of k frames, between two, and at the end
IsRun(c, v, fs, run, k) ==
  /\ run = [n \in 0..k |-> run[n]]
  /\ run[0] = v
  /\ \A n \in 1..k : run[n] = Taken(c, run[n - 1], fs[n])

LEMMA RunsExist ==
  ASSUME NEW c, NEW v, NEW fs, NEW k \in Nat
  PROVE  \E run : IsRun(c, v, fs, run, k)
<1> DEFINE Good == {n \in 0..k : \E run : IsRun(c, v, fs, run, n)}
<1>1. 0 \in Good
  <2> DEFINE run == [n \in 0..0 |-> v]
  <2>1. run = [n \in 0..0 |-> run[n]] /\ run[0] = v
    OBVIOUS
  <2> HIDE DEF run
  <2>2. IsRun(c, v, fs, run, 0)
    BY <2>1 DEF IsRun
  <2> QED BY <2>2
<1>2. ASSUME NEW m \in 1..k, m - 1 \in Good PROVE m \in Good
  <2>1. PICK run : IsRun(c, v, fs, run, m - 1)
    BY <1>2
  <2> DEFINE more == [n \in 0..m |-> IF n = m THEN Taken(c, run[m - 1], fs[m]) ELSE run[n]]
  <2>2. more = [n \in 0..m |-> more[n]]
    OBVIOUS
  <2>3. /\ more[m] = Taken(c, run[m - 1], fs[m])
        /\ \A n \in 0..(m - 1) : more[n] = run[n]
    OBVIOUS
  <2> HIDE DEF more
  <2>4. ASSUME NEW n \in 1..m PROVE more[n] = Taken(c, more[n - 1], fs[n])
    <3>1. CASE n = m
      <4>1. m - 1 \in 0..(m - 1)
        OBVIOUS
      <4> QED BY <2>3, <3>1, <4>1
    <3>2. CASE n # m
      <4>1. n \in 1..(m - 1) /\ n \in 0..(m - 1) /\ n - 1 \in 0..(m - 1)
        BY <3>2
      <4>2. run[n] = Taken(c, run[n - 1], fs[n])
        BY <2>1, <4>1 DEF IsRun
      <4> QED BY <2>3, <4>1, <4>2
    <3> QED BY <3>1, <3>2
  <2>5. more[0] = v
    <3>1. 0 \in 0..(m - 1)
      OBVIOUS
    <3> QED BY <2>1, <2>3, <3>1 DEF IsRun
  <2>6. IsRun(c, v, fs, more, m)
    BY <2>2, <2>4, <2>5 DEF IsRun
  <2>7. m \in 0..k
    OBVIOUS
  <2> QED BY <2>6, <2>7
<1>3. k \in 0..k
  OBVIOUS
<1>4. k \in Good
  <2> HIDE DEF Good
  <2> QED BY <1>1, <1>2, <1>3, UpTo
<1> QED BY <1>4

\* f is the recursive function of the frames taken
IsFold(c, v, fs, f, k) ==
  \A n \in 0..k : f[n] = IF n = 0 THEN v ELSE Taken(c, f[n - 1], fs[n])

\* Such a run ends where the function does.
LEMMA RunEnds ==
  ASSUME NEW c, NEW v, NEW fs, NEW k \in Nat, NEW run, IsRun(c, v, fs, run, k),
         NEW f, IsFold(c, v, fs, f, k)
  PROVE  f[k] = run[k]
<1> DEFINE Good == {n \in 0..k : f[n] = run[n]}
<1>1. \A n \in 0..k : f[n] = IF n = 0 THEN v ELSE Taken(c, f[n - 1], fs[n])
  BY DEF IsFold
<1>2. run[0] = v /\ \A n \in 1..k : run[n] = Taken(c, run[n - 1], fs[n])
  BY DEF IsRun
<1>3. 0 \in Good
  <2>1. 0 \in 0..k
    OBVIOUS
  <2> QED BY <1>1, <1>2, <2>1
<1>4. ASSUME NEW n \in 1..k, n - 1 \in Good PROVE n \in Good
  <2>1. n \in 0..k /\ n # 0 /\ f[n - 1] = run[n - 1]
    BY <1>4
  <2> QED BY <1>1, <1>2, <2>1
<1>5. k \in 0..k
  OBVIOUS
<1>6. k \in Good
  <2> HIDE DEF Good
  <2> QED BY <1>3, <1>4, <1>5, UpTo
<1> QED BY <1>6

TakenAll(c, v, fs) ==
  LET taken[n \in 0..Len(fs)] == IF n = 0 THEN v ELSE Taken(c, taken[n - 1], fs[n])
  IN  taken[Len(fs)]

LEMMA RunIsTakenAll ==
  ASSUME NEW F, NEW fs \in Seq(F), NEW c, NEW v, NEW run, IsRun(c, v, fs, run, Len(fs))
  PROVE  TakenAll(c, v, fs) = run[Len(fs)]
<1> DEFINE k == Len(fs)
           body(f) == [n \in 0..k |-> IF n = 0 THEN v ELSE Taken(c, f[n - 1], fs[n])]
           taken == CHOOSE f : f = body(f)
<1>1. k \in Nat /\ IsRun(c, v, fs, run, k)
  OBVIOUS
<1>2. TakenAll(c, v, fs) = taken[k]
  BY DEF TakenAll
<1> HIDE DEF k
<1>3. run = body(run)
  <2>1. run = [n \in 0..k |-> run[n]]
    BY <1>1 DEF IsRun
  <2>2. run[0] = v /\ \A n \in 1..k : run[n] = Taken(c, run[n - 1], fs[n])
    BY <1>1 DEF IsRun
  <2>3. \A n \in 0..k : run[n] = IF n = 0 THEN v ELSE Taken(c, run[n - 1], fs[n])
    BY <1>1, <2>2
  <2> QED BY <2>1, <2>3
<1>4. taken = body(taken)
  <2> HIDE DEF body
  <2> QED BY <1>3
<1> HIDE DEF taken
<1>5. IsFold(c, v, fs, taken, k)
  BY <1>4 DEF IsFold
<1>6. taken[k] = run[k]
  <2> HIDE DEF body
  <2> QED BY <1>1, <1>5, RunEnds
<1> QED BY <1>2, <1>6 DEF k

LEMMA RunIsAfter ==
  ASSUME NEW F, NEW fs \in Seq(F), NEW v, NEW run, IsRun(client, v, fs, run, Len(fs))
  PROVE  After(v, fs) = run[Len(fs)]
<1>1. After(v, fs) = TakenAll(client, v, fs)
  BY DEF After, TakenAll, Taken
<1> QED BY <1>1, RunIsTakenAll

LEMMA RunIsDrain ==
  ASSUME NEW F, NEW fs \in Seq(F), \A n \in 1..Len(fs) : fs[n].kind \in Queued,
         NEW c, NEW v, NEW run, IsRun(c, v, fs, run, Len(fs))
  PROVE  drainFrames(v, fs) = run[Len(fs)]
<1> DEFINE k == Len(fs)
           body(f) == [n \in 0..k |-> IF n = 0 THEN v ELSE Drained(f[n - 1], fs[n])]
           done == CHOOSE f : f = body(f)
<1>1. k \in Nat
  OBVIOUS
<1>2. drainFrames(v, fs) = done[k]
  BY DEF drainFrames
<1>3. IsRun(c, v, fs, run, k) /\ \A n \in 1..k : fs[n].kind \in Queued
  OBVIOUS
<1> HIDE DEF k
<1>4. ASSUME NEW f, NEW n \in 0..k
      PROVE  (IF n = 0 THEN v ELSE Drained(f[n - 1], fs[n]))
               = IF n = 0 THEN v ELSE Taken(c, f[n - 1], fs[n])
  <2>1. n # 0 => n \in 1..k
    BY <1>1
  <2> QED BY <1>3, <2>1 DEF Taken
<1>5. run = body(run)
  <2>1. run = [n \in 0..k |-> run[n]]
    BY <1>3 DEF IsRun
  <2>2. run[0] = v /\ \A n \in 1..k : run[n] = Taken(c, run[n - 1], fs[n])
    BY <1>3 DEF IsRun
  <2>3. \A n \in 0..k : run[n] = IF n = 0 THEN v ELSE Taken(c, run[n - 1], fs[n])
    BY <1>1, <2>2
  <2>4. \A n \in 0..k : run[n] = IF n = 0 THEN v ELSE Drained(run[n - 1], fs[n])
    BY <1>4, <2>3
  <2> QED BY <2>1, <2>4
<1>6. done = body(done)
  <2> HIDE DEF body
  <2> QED BY <1>5
<1> HIDE DEF done
<1>7. IsFold(c, v, fs, done, k)
  <2>1. \A n \in 0..k : done[n] = IF n = 0 THEN v ELSE Drained(done[n - 1], fs[n])
    BY <1>6
  <2> QED BY <1>4, <2>1 DEF IsFold
<1>8. done[k] = run[k]
  <2> HIDE DEF body
  <2> QED BY <1>1, <1>3, <1>7, RunEnds
<1> QED BY <1>2, <1>8 DEF k

-----------------------------------------------------------------------------
(* The invariant.                                                          *)

IsClient ==
  client = [queue |-> client.queue, drainScheduled |-> client.drainScheduled,
            due |-> client.due, graceful |-> client.graceful,
            hasConnected |-> client.hasConnected]

Frames == \E F : client.queue \in Seq(F) /\ wire \in Seq(F)

\* the queue holds frames for the drain only
Waiting == \A n \in 1..Len(client.queue) : client.queue[n].kind \in Queued

\* what is queued and on its way leads from what the reader has to the log
Leading == es = "OPEN" => Reaches(view, client.queue \o wire, At("live", rows))

IInv == /\ IsView(view) /\ IsClient /\ IsLog(rows) /\ file \in Nat
        /\ Frames /\ Waiting /\ Leading

\* A sequence is one of any larger set.
LEMMA LargerSet ==
  ASSUME NEW F, NEW H, F \subseteq H, NEW s \in Seq(F)
  PROVE  s \in Seq(H)
<1>1. s = [n \in 1..Len(s) |-> s[n]] /\ Len(s) \in Nat /\ \A n \in 1..Len(s) : s[n] \in H
  OBVIOUS
<1> QED BY <1>1

\* Sequences with the same elements are the same.
LEMMA SameElements ==
  ASSUME NEW F, NEW s \in Seq(F), NEW t \in Seq(F), Len(s) = Len(t),
         \A n \in 1..Len(s) : s[n] = t[n]
  PROVE  s = t
<1>1. s = [n \in 1..Len(s) |-> s[n]] /\ t = [n \in 1..Len(s) |-> t[n]]
  OBVIOUS
<1> QED BY <1>1

\* One more frame on the wire is one more in all.
LEMMA JoinedAppend ==
  ASSUME NEW F, NEW q \in Seq(F), NEW w \in Seq(F), NEW f \in F
  PROVE  q \o (w \o <<f>>) = Append(q \o w, f)
<1> DEFINE u == w \o <<f>>
           s == q \o u
           r == q \o w
           t == Append(r, f)
<1>1. /\ u \in Seq(F) /\ Len(u) = Len(w) + 1 /\ u[Len(w) + 1] = f
      /\ \A n \in 1..Len(w) : u[n] = w[n]
      /\ Len(w) \in Nat /\ Len(q) \in Nat
  OBVIOUS
<1> HIDE DEF u
<1>2. /\ s \in Seq(F) /\ Len(s) = Len(q) + Len(u)
      /\ \A n \in 1..Len(q) : s[n] = q[n]
      /\ \A n \in 1..Len(u) : s[Len(q) + n] = u[n]
  <2>1. u \in Seq(F)
    BY <1>1
  <2> QED BY <2>1, Joined
<1>3. /\ r \in Seq(F) /\ Len(r) = Len(q) + Len(w)
      /\ \A n \in 1..Len(q) : r[n] = q[n]
      /\ \A n \in 1..Len(w) : r[Len(q) + n] = w[n]
  BY Joined
<1> HIDE DEF s, r
<1>4. /\ t \in Seq(F) /\ Len(t) = Len(r) + 1 /\ t[Len(r) + 1] = f
      /\ \A n \in 1..Len(r) : t[n] = r[n]
  <2>1. r \in Seq(F)
    BY <1>3
  <2> QED BY <2>1, AppendProperties
<1> HIDE DEF t
<1>5. Len(s) = Len(t)
  BY <1>1, <1>2, <1>3, <1>4
<1>6. ASSUME NEW n \in 1..Len(s) PROVE s[n] = t[n]
  <2>1. CASE n \in 1..Len(q)
    <3>1. n \in 1..Len(r)
      BY <1>1, <1>3, <2>1
    <3> QED BY <1>2, <1>3, <1>4, <2>1, <3>1
  <2>2. CASE n > Len(q)
    <3> DEFINE j == n - Len(q)
    <3>1. j \in 1..Len(u) /\ Len(q) + j = n /\ j \in Int
      BY <1>1, <1>2, <2>2
    <3> HIDE DEF j
    <3>2. s[n] = u[j]
      BY <1>2, <3>1
    <3>3. CASE j \in 1..Len(w)
      <4>1. n \in 1..Len(r)
        BY <1>1, <1>3, <3>1, <3>3
      <4>2. r[n] = w[j]
        BY <1>3, <3>1, <3>3
      <4> QED BY <1>1, <1>4, <3>2, <3>3, <4>1, <4>2
    <3>4. CASE j = Len(w) + 1
      <4>1. n = Len(r) + 1
        BY <1>1, <1>3, <3>1, <3>4
      <4> QED BY <1>1, <1>4, <3>2, <3>4, <4>1
    <3> QED BY <1>1, <3>1, <3>3, <3>4
  <2> QED BY <1>1, <1>2, <2>1, <2>2
<1>7. s = t
  BY <1>2, <1>4, <1>5, <1>6, SameElements
<1> QED BY <1>7 DEF s, t, r, u

\* A frame goes from the wire to the queue: all in all the same frames.
LEMMA JoinedMove ==
  ASSUME NEW F, NEW q \in Seq(F), NEW w \in Seq(F), w # <<>>
  PROVE  Append(q, Head(w)) \o Tail(w) = q \o w
<1> DEFINE u == Append(q, Head(w))
           z == Tail(w)
           s == u \o z
           r == q \o w
<1>1. /\ u \in Seq(F) /\ Len(u) = Len(q) + 1 /\ u[Len(q) + 1] = w[1]
      /\ \A n \in 1..Len(q) : u[n] = q[n]
      /\ z \in Seq(F) /\ Len(z) = Len(w) - 1
      /\ \A n \in 1..Len(z) : z[n] = w[n + 1]
      /\ Len(w) \in Nat \ {0} /\ Len(q) \in Nat
  OBVIOUS
<1> HIDE DEF u, z
<1>2. /\ s \in Seq(F) /\ Len(s) = Len(u) + Len(z)
      /\ \A n \in 1..Len(u) : s[n] = u[n]
      /\ \A n \in 1..Len(z) : s[Len(u) + n] = z[n]
  <2>1. u \in Seq(F) /\ z \in Seq(F)
    BY <1>1
  <2> QED BY <2>1, Joined
<1>3. /\ r \in Seq(F) /\ Len(r) = Len(q) + Len(w)
      /\ \A n \in 1..Len(q) : r[n] = q[n]
      /\ \A n \in 1..Len(w) : r[Len(q) + n] = w[n]
  BY Joined
<1> HIDE DEF s, r
<1>4. ASSUME NEW n \in 1..Len(s) PROVE s[n] = r[n]
  <2>1. CASE n \in 1..Len(q)
    <3>1. n \in 1..Len(u)
      BY <1>1, <2>1
    <3> QED BY <1>1, <1>2, <1>3, <2>1, <3>1
  <2>2. CASE n = Len(q) + 1
    <3>1. n \in 1..Len(u) /\ 1 \in 1..Len(w)
      BY <1>1, <2>2
    <3> QED BY <1>1, <1>2, <1>3, <2>2, <3>1
  <2>3. CASE n > Len(q) + 1
    <3> DEFINE j == n - Len(q) - 1
    <3>1. j \in 1..Len(z) /\ Len(u) + j = n /\ j + 1 \in 1..Len(w) /\ Len(q) + (j + 1) = n
      BY <1>1, <1>2, <2>3
    <3> HIDE DEF j
    <3>2. s[n] = z[j] /\ z[j] = w[j + 1] /\ r[n] = w[j + 1]
      BY <1>1, <1>2, <1>3, <3>1
    <3> QED BY <3>2
  <2> QED BY <1>1, <1>2, <2>1, <2>2, <2>3
<1>5. Len(s) = Len(r)
  BY <1>1, <1>2, <1>3
<1>6. s = r
  BY <1>2, <1>3, <1>4, <1>5, SameElements
<1> QED BY <1>6 DEF s, r, u, z

\* The log changes, and a frame that says so is sent to whoever is connected.
LEMMA SendNext ==
  ASSUME IInv, NEW f, Sent(<<f>>), UNCHANGED <<es, client, view>>, file' \in Nat,
         Moves(At("live", rows), f, At("live", rows'))
  PROVE  IInv'
<1>1. PICK F : client.queue \in Seq(F) /\ wire \in Seq(F)
  BY DEF IInv, Frames
<1> DEFINE H == F \cup {f}
           q == client.queue
<1>2. q \in Seq(H) /\ wire \in Seq(H) /\ f \in H
  BY <1>1, LargerSet
<1>3. wire' = IF es = "OPEN" THEN wire \o <<f>> ELSE wire
  BY DEF Sent
<1>4. client' = client /\ view' = view /\ es' = es
  OBVIOUS
<1> HIDE DEF H, q
<1>5. Frames'
  <2>1. wire' \in Seq(H)
    BY <1>2, <1>3
  <2> QED BY <1>2, <1>4, <2>1 DEF Frames, q
<1>6. Leading'
  <2> SUFFICES ASSUME es = "OPEN"
               PROVE  Reaches(view, q \o wire', At("live", rows'))
    BY <1>4 DEF Leading, q
  <2>1. q \o wire' = Append(q \o wire, f)
    BY <1>2, <1>3, JoinedAppend
  <2>2. q \o wire \in Seq(H)
    BY <1>2, Joined
  <2>3. Reaches(view, q \o wire, At("live", rows))
    BY DEF IInv, Leading, q
  <2> QED BY <2>1, <2>2, <2>3, ReachesAppend
<1>7. IsLog(rows')
  BY DEF Moves, At
<1> QED BY <1>4, <1>5, <1>6, <1>7 DEF IInv, IsClient, Waiting

\* The stream ends.
LEMMA EndNext ==
  ASSUME IInv, NEW G, NEW u \in Seq(G), wire' = wire \/ wire' = wire \o u,
         es' # "OPEN", UNCHANGED client, IsView(view'), IsLog(rows'), file' \in Nat
  PROVE  IInv'
<1>1. PICK F : client.queue \in Seq(F) /\ wire \in Seq(F)
  BY DEF IInv, Frames
<1> DEFINE H == F \cup G
<1>2. client.queue \in Seq(H) /\ wire \in Seq(H) /\ u \in Seq(H)
  BY <1>1, LargerSet
<1> HIDE DEF H
<1>3. wire' \in Seq(H)
  <2>1. wire \o u \in Seq(H)
    BY <1>2, Joined
  <2> QED BY <1>2, <2>1
<1> QED BY <1>2, <1>3 DEF IInv, IsClient, Waiting, Frames, Leading

\* The log and its server.
LEMMA EmptyLog == IsLog(<<>>) /\ <<>> \in Seq({})
  BY DEF IsLog

LEMMA SourceNext ==
  ASSUME IInv, Source
  PROVE  IInv'
<1>0. IsLog(rows) /\ file \in Nat /\ rows \in Seq(Rec) /\ Len(rows) \in Nat
  BY DEF IInv, IsLog
<1> DEFINE l == At("live", rows)
           m == At("live", rows')
<1>p. l.place = "live" /\ l.rows = rows /\ m.place = "live" /\ m.rows = rows'
  BY DEF At
<1> HIDE DEF l, m
<1>1. CASE SourceAppend
  <2> DEFINE n == Len(rows) + 1
             row == Row(n, file, 0)
             f == AppendFrame(n, <<row>>)
  <2>1. rows' = Append(rows, row) /\ Sent(<<f>>) /\ UNCHANGED <<file, es, client, view>>
    BY <1>1 DEF SourceAppend
  <2>2. f.kind = "append" /\ f.from = n /\ f.rows = <<row>>
    BY DEF AppendFrame
  <2>3. row \in Rec /\ row.idx = n /\ n \in Nat
    BY <1>0 DEF Row, Rec
  <2> HIDE DEF row, f
  <2>4. /\ rows' \in Seq(Rec) /\ Len(rows') = n /\ rows'[n] = row
        /\ \A i \in 1..Len(rows) : rows'[i] = rows[i]
    BY <1>0, <2>1, <2>3, AppendProperties
  <2>5. IsLog(rows')
    <3> SUFFICES ASSUME NEW i \in 1..n PROVE rows'[i].idx = i
      BY <2>4 DEF IsLog
    <3>1. CASE i = n
      BY <2>3, <2>4, <3>1
    <3>2. CASE i # n
      <4>1. i \in 1..Len(rows)
        BY <1>0, <3>2
      <4> QED BY <1>0, <2>4, <4>1 DEF IsLog
    <3> QED BY <3>1, <3>2
  <2>6. Halves(rows, <<row>>, rows')
    <3>1. <<row>> \in Seq(Rec) /\ Len(<<row>>) = 1 /\ <<row>>[1] = row
      BY <2>3
    <3> DEFINE new == <<row>>
    <3> HIDE DEF new
    <3>2. Halves(rows, new, rows')
      BY <1>0, <2>4, <3>1 DEF Halves, new
    <3> QED BY <3>2 DEF new
  <2>7. Len(<<row>>) = 1
    OBVIOUS
  <2>8. Moves(l, f, m)
    BY <1>0, <1>p, <2>2, <2>5, <2>6, <2>7 DEF Moves, Grows
  <2> QED BY <1>0, <2>1, <2>8, SendNext DEF l, m
<1>2. ASSUME NEW i \in DOMAIN rows, SourcePatch(i) PROVE IInv'
  <2> DEFINE row == rows'[i]
             f == RowPatch(i, row)
  <2>1. /\ rows' = [rows EXCEPT ![i].patches = @ + 1] /\ Sent(<<f>>)
        /\ UNCHANGED <<file, es, client, view>>
    BY <1>2 DEF SourcePatch
  <2>2. f.kind = "patch" /\ f.updates = [j \in {i} |-> row]
    BY DEF RowPatch, PatchFrame
  <2>3. i \in 1..Len(rows) /\ rows[i] \in Rec /\ rows[i].idx = i
    BY <1>0 DEF IsLog
  <2>4. /\ rows' \in Seq(Rec) /\ Len(rows') = Len(rows) /\ rows'[i].idx = i
        /\ \A j \in 1..Len(rows) : j # i => rows'[j] = rows[j]
    <3> DEFINE x == [rows[i] EXCEPT !.patches = @ + 1]
    <3>1. x \in Rec /\ x.idx = i
      BY <2>3 DEF Rec
    <3> HIDE DEF x
    <3>2. rows' = [rows EXCEPT ![i] = x]
      BY <2>1 DEF x
    <3> QED BY <1>0, <2>3, <3>1, <3>2
  <2> HIDE DEF f
  <2>5. IsLog(rows')
    BY <1>0, <2>4 DEF IsLog
  <2>6. \A j \in 1..Len(rows) :
          rows'[j] = IF j \in DOMAIN f.updates THEN f.updates[j] ELSE rows[j]
    BY <2>2, <2>4
  <2>7. DOMAIN f.updates \subseteq 1..Len(rows)
    BY <2>2, <2>3
  <2>8. Moves(l, f, m)
    BY <1>0, <1>p, <2>2, <2>4, <2>5, <2>6, <2>7 DEF Moves, Changes
  <2> QED BY <1>0, <2>1, <2>8, SendNext DEF l, m
<1>3. CASE SourceRotation
  <2> DEFINE f == RotationFrame
  <2>1. rows' = <<>> /\ Sent(<<f>>) /\ file' = file + 1 /\ UNCHANGED <<es, client, view>>
    BY <1>3 DEF SourceRotation
  <2>2. f.kind = "rotation"
    BY DEF RotationFrame
  <2> HIDE DEF f
  <2>3. Moves(l, f, m)
    BY <1>0, <1>p, <2>1, <2>2, EmptyLog DEF Moves, Rotates, m
  <2> QED BY <1>0, <2>1, <2>3, SendNext DEF l, m
<1>4. CASE SessionChange
  <2>1. /\ wire' = wire \/ wire' = wire \o LastWords
        /\ rows' = <<>> /\ file' = file + 1 /\ UNCHANGED <<client, view>>
        /\ es' # "OPEN"
    BY <1>4 DEF SessionChange, Sent
  <2>2. \E G : LastWords \in Seq(G)
    <3>1. LastWords \in Seq({[kind |-> "log-reset"], [kind |-> "bye"]})
      BY DEF LastWords
    <3> QED BY <3>1
  <2>3. IsView(view')
    BY <2>1 DEF IInv
  <2> QED BY <1>0, <2>1, <2>2, <2>3, EmptyLog, EndNext
<1>5. CASE Overflow
  <2> DEFINE e == [kind |-> "error"]
             u == <<e>> \o LastWords
  <2>1. /\ wire' = wire \/ wire' = wire \o u
        /\ UNCHANGED <<rows, file, client, view>> /\ es' # "OPEN"
    BY <1>5 DEF Overflow, Sent
  <2>2. \E G : u \in Seq(G)
    <3> DEFINE G == {e, [kind |-> "log-reset"], [kind |-> "bye"]}
    <3>1. LastWords \in Seq(G) /\ <<e>> \in Seq(G)
      BY DEF LastWords
    <3> HIDE DEF G
    <3>2. u \in Seq(G)
      BY <3>1
    <3> QED BY <3>2
  <2> HIDE DEF u
  <2>3. IsView(view') /\ rows' = rows /\ file' \in Nat
    BY <1>0, <2>1 DEF IInv
  <2> QED BY <1>0, <2>1, <2>2, <2>3, EndNext
<1> QED BY <1>1, <1>2, <1>3, <1>4, <1>5 DEF Source

\* The kinds of frames that lead anywhere.
LEMMA MovingKinds ==
  ASSUME NEW l, NEW f, NEW m, Moves(l, f, m), f.kind \notin Queued
  PROVE  Starts(f, m) \/ Rotates(l, f, m)
  BY DEF Moves, Passes, Loads, Ends, Grows, Changes, Queued

\* What the first frame of the wire, heard at once, makes of the store.
LEMMA HeardAgrees ==
  ASSUME NEW c, NEW v, IsView(v), NEW l, NEW f, NEW m,
         Starts(f, m) \/ Rotates(l, f, m)
  PROVE  Agrees(Heard(c, v, f), m)
<1> DEFINE w == Heard(c, v, f)
<1>1. CASE Starts(f, m)
  <2>1. w.rows = <<>> /\ w.pendingBuffer = v.pendingBuffer /\ (w.inStep => v.pendingBuffer = <<>>)
    BY <1>1 DEF Starts, Heard, IsView
  <2>2. m.rows = <<>>
    BY <1>1 DEF Starts, At
  <2> HIDE DEF w
  <2>3. Agrees(w, m)
    BY <2>1, <2>2, HalvesNothing DEF Agrees, Shows
  <2> QED BY <2>3 DEF w
<1>2. CASE Rotates(l, f, m)
  <2>1. f.kind = "rotation" /\ m.rows = <<>>
    BY <1>2 DEF Rotates, At
  <2>2. w.rows = <<>> /\ w.pendingBuffer = <<>>
    BY <2>1 DEF Heard, IsView, resetForRotation
  <2> HIDE DEF w
  <2>3. Agrees(w, m)
    BY <2>1, <2>2, HalvesNothing DEF Agrees, Shows
  <2> QED BY <2>3 DEF w
<1> QED BY <1>1, <1>2

\* The frames of the queue are given up, and the first of the wire starts anew.
LEMMA ReachesAnew ==
  ASSUME NEW F, NEW q \in Seq(F), NEW w \in Seq(F), w # <<>>,
         Head(w).kind \notin Queued,
         NEW c, NEW v, IsView(v), NEW l, Reaches(v, q \o w, l)
  PROVE  Reaches(Heard(c, v, Head(w)), <<>> \o Tail(w), l)
<1> DEFINE fs == q \o w
           k == Len(q) + 1
           rest == Tail(w)
           f == Head(w)
<1>1. /\ fs \in Seq(F) /\ Len(fs) = Len(q) + Len(w)
      /\ \A n \in 1..Len(w) : fs[Len(q) + n] = w[n]
  BY Joined
<1>2. /\ rest \in Seq(F) /\ Len(rest) = Len(w) - 1 /\ f = w[1]
      /\ \A n \in 1..Len(rest) : rest[n] = w[n + 1]
      /\ Len(w) \in Nat \ {0} /\ Len(q) \in Nat /\ <<>> \o rest = rest
  OBVIOUS
<1>3. PICK logs : IsChain(logs, fs) /\ logs[Len(fs)] = l
  BY DEF Reaches
<1> HIDE DEF fs, rest, f
<1>4. k \in 0..Len(fs) /\ k \in 1..Len(fs) /\ Len(rest) = Len(fs) - k /\ 1 \in 1..Len(w)
  BY <1>1, <1>2
<1>5. fs[k] = f
  BY <1>1, <1>2, <1>4
<1>6. ASSUME NEW n \in 1..Len(rest) PROVE rest[n] = fs[k + n]
  <2> DEFINE j == n + 1
  <2>1. j \in 1..Len(w) /\ Len(q) + j = k + n
    BY <1>2
  <2>2. rest[n] = w[j]
    BY <1>2
  <2> HIDE DEF j
  <2>3. fs[Len(q) + j] = w[j]
    BY <1>1, <2>1
  <2> QED BY <2>1, <2>2, <2>3
<1>7. Moves(logs[k - 1], f, logs[k])
  BY <1>3, <1>4, <1>5 DEF IsChain
<1>8. Agrees(Heard(c, v, f), logs[k])
  <2>1. f.kind \notin Queued
    BY DEF f
  <2> QED BY <1>7, <2>1, MovingKinds, HeardAgrees
<1> HIDE DEF k
<1>9. Reaches(Heard(c, v, f), rest, logs[Len(fs)])
  BY <1>1, <1>2, <1>3, <1>4, <1>6, <1>8, ChainRest
<1> QED BY <1>2, <1>3, <1>9 DEF f, rest

\* A frame is received.
LEMMA DeliverNext ==
  ASSUME IInv, Deliver
  PROVE  IInv'
<1> DEFINE q == client.queue
           f == Head(wire)
<1>1. /\ wire # <<>> /\ client' = Listened(client, f) /\ view' = Heard(client, view, f)
      /\ wire' = Tail(wire) /\ UNCHANGED <<rows, file, es>>
  BY DEF Deliver
<1>2. PICK F : q \in Seq(F) /\ wire \in Seq(F)
  BY DEF IInv, Frames
<1>3. f \in F /\ wire' \in Seq(F)
  BY <1>1, <1>2
<1>4. /\ IsView(view) /\ IsClient /\ IsLog(rows) /\ file \in Nat
      /\ \A n \in 1..Len(q) : q[n].kind \in Queued
      /\ es = "OPEN" => Reaches(view, q \o wire, At("live", rows))
  BY DEF IInv, Waiting, Leading
<1> HIDE DEF q, f
<1>5. IsView(view')
  BY <1>1, <1>4, HeardIsView
<1>6. IsClient'
  BY <1>1, <1>4 DEF IsClient, Listened, enqueue, scheduleDrain, clearQueuedFrames
<1>7. CASE f.kind \in Queued
  <2>1. client'.queue = Append(q, f)
    BY <1>1, <1>4, <1>7 DEF IsClient, Listened, enqueue, scheduleDrain, q
  <2>2. view' = view
    BY <1>1, <1>7 DEF Heard, Queued
  <2> DEFINE s == Append(q, f)
  <2>3. /\ s \in Seq(F) /\ Len(s) = Len(q) + 1 /\ s[Len(q) + 1] = f
        /\ \A n \in 1..Len(q) : s[n] = q[n]
        /\ Len(q) \in Nat
    BY <1>2, <1>3, AppendProperties
  <2> HIDE DEF s
  <2>4. \A n \in 1..Len(s) : s[n].kind \in Queued
    <3> SUFFICES ASSUME NEW n \in 1..Len(s) PROVE s[n].kind \in Queued
      OBVIOUS
    <3>1. CASE n = Len(q) + 1
      BY <1>7, <2>3, <3>1
    <3>2. CASE n # Len(q) + 1
      <4>1. n \in 1..Len(q)
        BY <2>3, <3>2
      <4> QED BY <1>4, <2>3, <4>1
    <3> QED BY <3>1, <3>2
  <2>5. s \o wire' = q \o wire
    BY <1>1, <1>2, JoinedMove DEF s, f
  <2>6. client'.queue = s
    BY <2>1 DEF s
  <2>7. Frames'
    BY <1>3, <2>3, <2>6 DEF Frames
  <2> QED BY <1>1, <1>4, <1>6, <2>2, <2>4, <2>5, <2>6, <2>7 DEF IInv, Waiting, Leading
<1>8. CASE f.kind \in {"snapshot-begin", "rotation", "log-reset"}
  <2>1. client'.queue = <<>>
    BY <1>1, <1>4, <1>8 DEF IsClient, Listened, clearQueuedFrames, Queued
  <2>2. f.kind \notin Queued
    BY <1>8 DEF Queued
  <2>3. es = "OPEN" => Reaches(view', <<>> \o wire', At("live", rows))
    BY <1>1, <1>2, <1>4, <2>2, ReachesAnew DEF f
  <2>4. Frames'
    <3>1. <<>> \in Seq(F)
      OBVIOUS
    <3> QED BY <1>3, <2>1, <3>1 DEF Frames
  <2>5. Waiting'
    BY <2>1 DEF Waiting
  <2> QED BY <1>1, <1>4, <1>5, <1>6, <2>1, <2>3, <2>4, <2>5 DEF IInv, Leading
<1>9. CASE f.kind \notin Queued \cup {"snapshot-begin", "rotation", "log-reset"}
  <2>1. client'.queue = q
    BY <1>1, <1>4, <1>9 DEF IsClient, Listened, q
  <2>2. es # "OPEN"
    <3> SUFFICES ASSUME es = "OPEN" PROVE FALSE
      OBVIOUS
    <3> DEFINE fs == q \o wire
               k == Len(q) + 1
    <3>1. PICK logs : IsChain(logs, fs)
      BY <1>4 DEF Reaches
    <3>2. /\ Len(fs) = Len(q) + Len(wire) /\ fs[Len(q) + 1] = wire[1]
          /\ Len(q) \in Nat /\ Len(wire) \in Nat \ {0}
      <4>1. Len(wire) \in Nat \ {0} /\ 1 \in 1..Len(wire)
        BY <1>1, <1>2
      <4>2. Len(fs) = Len(q) + Len(wire) /\ Len(q) \in Nat
            /\ \A n \in 1..Len(wire) : fs[Len(q) + n] = wire[n]
        BY <1>2, Joined
      <4> QED BY <4>1, <4>2
    <3> HIDE DEF fs
    <3>3. k \in 1..Len(fs) /\ fs[k] = f
      BY <3>2 DEF f
    <3>4. Moves(logs[k - 1], f, logs[k])
      BY <3>1, <3>3 DEF IsChain
    <3> QED BY <1>9, <3>4, MovingKinds DEF Starts, Rotates
  <2>3. Frames'
    BY <1>2, <1>3, <2>1 DEF Frames
  <2>4. Waiting'
    BY <1>4, <2>1 DEF Waiting
  <2> QED BY <1>1, <1>4, <1>5, <1>6, <2>2, <2>3, <2>4 DEF IInv, Leading
<1> QED BY <1>7, <1>8, <1>9

-----------------------------------------------------------------------------
(* The EventSource, the animation frame and the user.                      *)

LEMMA ErrorIsView ==
  ASSUME NEW c, NEW v, IsView(v), NEW ready
  PROVE  IsView(onError(c, v, ready))
  BY DEF IsView, onError

LEMMA BreakNext ==
  ASSUME IInv, Break \/ Refused
  PROVE  IInv'
<1>1. CASE Break
  <2>1. /\ es' = "CONNECTING" /\ wire' = <<>> /\ view' = onError(client, view, "CONNECTING")
        /\ UNCHANGED <<rows, file, client>>
    BY <1>1 DEF Break
  <2>2. IsView(view')
    BY <2>1, ErrorIsView DEF IInv
  <2>3. Frames'
    <3>1. PICK F : client.queue \in Seq(F) /\ wire \in Seq(F)
      BY DEF IInv, Frames
    <3>2. <<>> \in Seq(F)
      OBVIOUS
    <3> QED BY <2>1, <3>1, <3>2 DEF Frames
  <2> QED BY <2>1, <2>2, <2>3 DEF IInv, IsClient, Waiting, Leading
<1>2. CASE Refused
  <2>1. /\ es' = "CLOSED" /\ view' = onError(client, view, "CLOSED")
        /\ UNCHANGED <<rows, file, wire, client>>
    BY <1>2 DEF Refused
  <2>2. IsView(view')
    BY <2>1, ErrorIsView DEF IInv
  <2> QED BY <2>1, <2>2 DEF IInv, IsClient, Waiting, Leading, Frames
<1> QED BY <1>1, <1>2

\* A stream opens: what it brings leads to the log, whatever is still queued.
LEMMA OpenNext ==
  ASSUME IInv, wire' = Snapshot, UNCHANGED <<rows, file>>, IsView(view'), IsClient',
         client'.queue = client.queue \/ client'.queue = <<>>
  PROVE  IInv'
<1>1. PICK F : client.queue \in Seq(F) /\ wire \in Seq(F)
  BY DEF IInv, Frames
<1>2. PICK G : Snapshot \in Seq(G)
  <2>1. ChunksOf \in Nat
    BY FirstRows DEF IInv
  <2> QED BY <2>1, SnapshotFrames
<1> DEFINE H == F \cup G
           q == client'.queue
<1>3. client.queue \in Seq(H) /\ Snapshot \in Seq(H) /\ <<>> \in Seq(H)
  BY <1>1, <1>2, LargerSet
<1>4. q \in Seq(H)
  BY <1>3
<1>5. \A n \in 1..Len(q) : q[n].kind \in Queued
  <2>1. CASE q = client.queue
    BY <2>1 DEF IInv, Waiting
  <2>2. CASE q = <<>>
    BY <2>2
  <2> QED BY <2>1, <2>2
<1> HIDE DEF H, q
<1>6. Reaches(view', q \o Snapshot, At("live", rows))
  BY <1>3, <1>4, <1>5, SnapshotReaches DEF IInv
<1>7. Frames'
  BY <1>3, <1>4 DEF Frames, q
<1>8. Waiting'
  BY <1>5 DEF Waiting, q
<1> QED BY <1>6, <1>7, <1>8 DEF IInv, Leading, q

LEMMA StreamNext ==
  ASSUME IInv, Reopen \/ onWatchErrorRetry \/ onPickerSelect
  PROVE  IInv'
<1>1. CASE Reopen
  <2>1. wire' = Snapshot /\ UNCHANGED <<rows, file, client, view>>
    BY <1>1 DEF Reopen
  <2>2. IsView(view') /\ IsClient'
    BY <2>1 DEF IInv, IsClient
  <2> QED BY <2>1, <2>2, OpenNext
<1>2. ASSUME NEW v, IsView(v), Connected(v) PROVE IInv'
  <2>1. /\ wire' = Snapshot /\ client' = NewClient /\ UNCHANGED <<rows, file>>
        /\ view' = [v EXCEPT !.connection = "connecting"]
    BY <1>2 DEF Connected
  <2>2. IsView(view')
    BY <1>2, <2>1 DEF IsView
  <2>3. IsClient' /\ client'.queue = <<>>
    BY <2>1 DEF IsClient, NewClient
  <2> QED BY <2>1, <2>2, <2>3, OpenNext
<1>3. IsView(view) /\ IsView(logSwitchState(view))
  BY DEF IInv, IsView, logSwitchState, NoView
<1> QED BY <1>1, <1>2, <1>3 DEF onWatchErrorRetry, onPickerSelect

\* The first k of a sequence, and the others.
LEMMA Cut ==
  ASSUME NEW F, NEW q \in Seq(F), NEW k \in 0..Len(q)
  PROVE  LET a == SubSeq(q, 1, k)
             b == SubSeq(q, k + 1, Len(q))
         IN  /\ a \in Seq(F) /\ Len(a) = k /\ \A n \in 1..k : a[n] = q[n]
             /\ b \in Seq(F) /\ Len(b) = Len(q) - k
             /\ \A n \in 1..Len(b) : b[n] = q[k + n]
<1> DEFINE len == Len(q)
           a == SubSeq(q, 1, k)
           b == SubSeq(q, k + 1, len)
           from == k + 1
<1>1. len \in Nat /\ k \in Nat /\ k <= len /\ from \in Int /\ from = k + 1
      /\ \A n \in 1..len : q[n] \in F
  OBVIOUS
<1> HIDE DEF len, from
<1>2. a \in Seq(F) /\ Len(a) = k /\ \A n \in 1..k : a[n] = q[n]
  <2>1. 1 \in Int /\ k \in Int /\ \A n \in 1..k : q[n] \in F
    BY <1>1
  <2>2. /\ SubSeq(q, 1, k) \in Seq(F)
        /\ Len(SubSeq(q, 1, k)) = IF 1 <= k THEN k - 1 + 1 ELSE 0
        /\ \A n \in 1..(k - 1 + 1) : SubSeq(q, 1, k)[n] = q[1 + n - 1]
    BY <2>1, SubSeqProperties
  <2>3. Len(SubSeq(q, 1, k)) = k
    BY <1>1, <2>2
  <2>4. ASSUME NEW n \in 1..k PROVE SubSeq(q, 1, k)[n] = q[n]
    <3>1. n \in 1..(k - 1 + 1) /\ 1 + n - 1 = n
      BY <1>1
    <3> QED BY <2>2, <3>1
  <2> QED BY <2>2, <2>3, <2>4
<1>3. b \in Seq(F) /\ Len(b) = len - k /\ \A n \in 1..(len - k) : b[n] = q[k + n]
  <2>1. len \in Int /\ \A n \in from..len : q[n] \in F
    <3>1. \A n \in from..len : n \in 1..len
      BY <1>1
    <3> QED BY <1>1, <3>1
  <2>2. /\ SubSeq(q, from, len) \in Seq(F)
        /\ Len(SubSeq(q, from, len)) = IF from <= len THEN len - from + 1 ELSE 0
        /\ \A n \in 1..(len - from + 1) : SubSeq(q, from, len)[n] = q[from + n - 1]
    BY <1>1, <2>1, SubSeqProperties
  <2>3. Len(SubSeq(q, from, len)) = len - k
    BY <1>1, <2>2
  <2>4. ASSUME NEW n \in 1..(len - k) PROVE SubSeq(q, from, len)[n] = q[k + n]
    <3>1. n \in 1..(len - from + 1) /\ from + n - 1 = k + n
      BY <1>1
    <3> QED BY <2>2, <3>1
  <2> QED BY <1>1, <2>2, <2>3, <2>4
<1> HIDE DEF b
<1> QED BY <1>2, <1>3 DEF len, b

\* What is left when the first k of two joined sequences are taken.
IsRest(b, q, k) ==
  k \in 0..Len(q) /\ Len(b) = Len(q) - k /\ \A n \in 1..Len(b) : b[n] = q[k + n]

LEMMA JoinedRest ==
  ASSUME NEW F, NEW q \in Seq(F), NEW w \in Seq(F), NEW k,
         NEW b \in Seq(F), IsRest(b, q, k)
  PROVE  b \o w \in Seq(F) /\ IsRest(b \o w, q \o w, k)
<1> DEFINE s == b \o w
           r == q \o w
<1>1. /\ s \in Seq(F) /\ Len(s) = Len(b) + Len(w)
      /\ \A n \in 1..Len(b) : s[n] = b[n]
      /\ \A n \in 1..Len(w) : s[Len(b) + n] = w[n]
      /\ Len(w) \in Nat /\ Len(b) \in Nat
  BY Joined
<1>2. /\ r \in Seq(F) /\ Len(r) = Len(q) + Len(w)
      /\ \A n \in 1..Len(q) : r[n] = q[n]
      /\ \A n \in 1..Len(w) : r[Len(q) + n] = w[n]
      /\ Len(q) \in Nat
  BY Joined
<1>0. k \in 0..Len(q) /\ Len(b) = Len(q) - k /\ \A n \in 1..Len(b) : b[n] = q[k + n]
  BY DEF IsRest
<1> HIDE DEF s, r
<1>3. Len(s) = Len(r) - k /\ k \in 0..Len(r)
  BY <1>0, <1>1, <1>2
<1>4. ASSUME NEW n \in 1..Len(s) PROVE s[n] = r[k + n]
  <2>1. CASE n \in 1..Len(b)
    <3>1. k + n \in 1..Len(q)
      BY <1>0, <1>2, <2>1
    <3> QED BY <1>0, <1>1, <1>2, <2>1, <3>1
  <2>2. CASE n \notin 1..Len(b)
    <3> DEFINE j == n - Len(b)
    <3>1. j \in 1..Len(w) /\ Len(b) + j = n /\ Len(q) + j = k + n
      BY <1>0, <1>1, <1>2, <2>2
    <3> HIDE DEF j
    <3>2. s[n] = w[j] /\ r[k + n] = w[j]
      BY <1>1, <1>2, <3>1
    <3> QED BY <3>2
  <2> QED BY <2>1, <2>2
<1>5. s \in Seq(F) /\ IsRest(s, r, k)
  BY <1>1, <1>3, <1>4 DEF IsRest
<1> QED BY <1>5 DEF s, r

\* The store after those k, taken one by one, has the others ahead.
LEMMA ReachesRest ==
  ASSUME NEW F, NEW fs \in Seq(F), NEW rest \in Seq(F), NEW k, IsRest(rest, fs, k),
         NEW c, NEW v, IsView(v), NEW run, IsRun(c, v, fs, run, k),
         NEW l, Reaches(v, fs, l)
  PROVE  Reaches(run[k], rest, l)
<1>1. k \in 0..Len(fs) /\ Len(rest) = Len(fs) - k /\ \A n \in 1..Len(rest) : rest[n] = fs[k + n]
  BY DEF IsRest
<1>2. run[0] = v /\ \A n \in 1..k : run[n] = Taken(c, run[n - 1], fs[n])
  BY DEF IsRun
<1>3. IsView(run[0]) /\ Reaches(run[0], fs, l)
  BY <1>2
<1>4. \A n \in 1..k : run[n] = Taken(c, run[n - 1], fs[n])
  BY <1>2
<1> QED BY <1>1, <1>3, <1>4, ReachesOn

\* An animation frame takes the first k frames of the queue, one by one.
LEMMA DrainTakes ==
  ASSUME IInv, Drain
  PROVE  \E F, k, run :
           /\ client.queue \in Seq(F) /\ client'.queue \in Seq(F) /\ wire \in Seq(F)
           /\ IsRest(client'.queue, client.queue, k)
           /\ IsRun(client, view, client.queue, run, k)
           /\ view' = run[k]
           /\ IsClient'
<1> DEFINE q == client.queue
           k == Min({MAX_DRAIN_FRAMES, Len(q)})
           taken == SubSeq(q, 1, k)
           rest == SubSeq(q, k + 1, Len(q))
<1>1. /\ view' = drainFrames(view, taken)
      /\ client' = [client EXCEPT
           !.queue = rest, !.drainScheduled = rest # <<>>, !.due = rest # <<>>,
           !.hasConnected = @ \/ \E n \in DOMAIN taken : taken[n].kind = "snapshot-end"]
  BY DEF Drain
<1>2. PICK F : q \in Seq(F) /\ wire \in Seq(F)
  BY DEF IInv, Frames
<1>3. IsClient /\ \A n \in 1..Len(q) : q[n].kind \in Queued
  BY DEF IInv, Waiting
<1>4. IsClient' /\ client'.queue = rest
  <2> HIDE DEF rest, taken
  <2> QED BY <1>1, <1>3 DEF IsClient
<1>5. k \in 0..Len(q)
  <2>1. MAX_DRAIN_FRAMES \in Nat /\ Len(q) \in Nat
    BY <1>2, DrainAssumption
  <2>2. k = Least(MAX_DRAIN_FRAMES, Len(q))
    BY <2>1, MinOfTwo
  <2> HIDE DEF k
  <2> QED BY <2>1, <2>2 DEF Least
<1> HIDE DEF k, q
<1>6. /\ taken \in Seq(F) /\ Len(taken) = k /\ \A n \in 1..k : taken[n] = q[n]
      /\ rest \in Seq(F) /\ Len(rest) = Len(q) - k
      /\ \A n \in 1..Len(rest) : rest[n] = q[k + n]
  BY <1>2, <1>5, Cut
<1> HIDE DEF taken, rest
<1>7. Len(q) \in Nat /\ k \in Nat /\ \A n \in 1..k : n \in 1..Len(q)
  BY <1>2, <1>5
<1>8. PICK run : IsRun(client, view, taken, run, k)
  BY <1>7, RunsExist
<1>9. \A n \in 1..Len(taken) : taken[n].kind \in Queued
  BY <1>3, <1>6, <1>7
<1>10. view' = run[k]
  BY <1>1, <1>6, <1>8, <1>9, RunIsDrain
<1>11. IsRun(client, view, q, run, k)
  BY <1>6, <1>8 DEF IsRun
<1>12. IsRest(rest, q, k)
  BY <1>5, <1>6 DEF IsRest
<1> QED BY <1>2, <1>4, <1>6, <1>10, <1>11, <1>12 DEF q

LEMMA DrainNext ==
  ASSUME IInv, Drain
  PROVE  IInv'
<1> DEFINE q == client.queue
           rest == client'.queue
<1>1. PICK F, k, run :
        /\ q \in Seq(F) /\ rest \in Seq(F) /\ wire \in Seq(F)
        /\ IsRest(rest, q, k) /\ IsRun(client, view, q, run, k)
        /\ view' = run[k] /\ IsClient'
  BY DrainTakes
<1>2. UNCHANGED <<rows, file, wire, es>>
  BY DEF Drain
<1>3. /\ IsView(view) /\ IsLog(rows) /\ file \in Nat
      /\ \A n \in 1..Len(q) : q[n].kind \in Queued
      /\ es = "OPEN" => Reaches(view, q \o wire, At("live", rows))
  BY DEF IInv, Waiting, Leading
<1> HIDE DEF q, rest
<1>4. /\ k \in 0..Len(q) /\ k \in Nat /\ Len(q) \in Nat /\ Len(rest) = Len(q) - k
      /\ \A n \in 1..Len(rest) : rest[n] = q[k + n]
  <2>1. Len(q) \in Nat
    BY <1>1
  <2> QED BY <1>1, <2>1 DEF IsRest
<1>5. run[0] = view /\ \A n \in 1..k : run[n] = Taken(client, run[n - 1], q[n])
  BY <1>1 DEF IsRun
<1>6. IsView(view')
  <2> DEFINE Good == {n \in 0..k : IsView(run[n])}
  <2>1. 0 \in Good /\ k \in 0..k
    BY <1>3, <1>4, <1>5
  <2>2. ASSUME NEW n \in 1..k, n - 1 \in Good PROVE n \in Good
    <3>1. IsView(run[n - 1]) /\ n \in 0..k /\ n \in 1..Len(q)
      BY <1>4, <2>2
    <3>2. run[n] = Drained(run[n - 1], q[n]) /\ q[n].kind \in Queued
      BY <1>3, <1>5, <3>1 DEF Taken
    <3> QED BY <3>1, <3>2, DrainedIsView
  <2>3. k \in Good
    <3> HIDE DEF Good
    <3> QED BY <1>4, <2>1, <2>2, UpTo
  <2> QED BY <1>1, <2>3
<1>7. es = "OPEN" => Reaches(view', rest \o wire, At("live", rows))
  <2> SUFFICES ASSUME es = "OPEN" PROVE Reaches(view', rest \o wire, At("live", rows))
    OBVIOUS
  <2> DEFINE fs == q \o wire
             left == rest \o wire
  <2>1. left \in Seq(F) /\ IsRest(left, fs, k)
    BY <1>1, JoinedRest
  <2>2. fs \in Seq(F) /\ \A n \in 1..k : fs[n] = q[n]
    BY <1>1, <1>4, Joined
  <2>3. Reaches(view, fs, At("live", rows))
    BY <1>3
  <2> HIDE DEF fs, left
  <2>4. IsRun(client, view, fs, run, k)
    BY <1>1, <1>5, <2>2 DEF IsRun
  <2>5. Reaches(run[k], left, At("live", rows))
    BY <1>1, <1>3, <2>1, <2>2, <2>3, <2>4, ReachesRest
  <2> QED BY <1>1, <2>5 DEF left
<1>8. Frames'
  BY <1>1, <1>2 DEF Frames, rest
<1>9. Waiting'
  <2>1. ASSUME NEW n \in 1..Len(rest) PROVE rest[n].kind \in Queued
    <3>1. k + n \in 1..Len(q)
      BY <1>4
    <3> QED BY <1>3, <1>4, <3>1
  <2> QED BY <2>1 DEF Waiting, rest
<1> QED BY <1>1, <1>2, <1>3, <1>6, <1>7, <1>8, <1>9 DEF IInv, Leading, rest

\* The user pauses, follows again, or resumes by the pill.
LEMMA UserNext ==
  ASSUME IInv, onResumeFollowing \/ setLivePaused
  PROVE  IInv'
<1>1. IsView(view) /\ UNCHANGED <<rows, file, wire, es, client>>
  BY DEF IInv, onResumeFollowing, setLivePaused
<1>2. IsView(view')
  BY <1>1 DEF onResumeFollowing, setLivePaused, IsView, flushPendingBuffer
<1>3. ASSUME NEW m, IsLog(m.rows), Agrees(view, m) PROVE Agrees(view', m)
  <2>1. CASE onResumeFollowing
    <3>1. /\ view'.rows = Placed(view.rows, LengthOf(view.rows) + 1, view.pendingBuffer)
          /\ view'.pendingBuffer = <<>> /\ view'.inStep = view.inStep
      BY <1>1, <2>1 DEF onResumeFollowing, IsView, flushPendingBuffer
    <3>2. m.rows \in Seq(Rec)
      BY <1>3 DEF IsLog
    <3> DEFINE rs == m.rows
    <3>3. Halves(rs, <<>>, rs)
      <4>1. rs \in Seq(Rec) /\ <<>> \in Seq(Rec) /\ Len(rs) + Len(<<>>) = Len(rs) /\ Len(<<>>) = 0
        BY <3>2
      <4> QED BY <4>1 DEF Halves
    <3>4. Shows(view, rs) => view'.rows = rs
      BY <1>3, <3>1, HalvesAll DEF Shows
    <3> QED BY <1>3, <3>1, <3>3, <3>4 DEF Agrees, Shows
  <2>2. CASE setLivePaused
    <3>1. /\ view'.rows = view.rows /\ view'.pendingBuffer = view.pendingBuffer
          /\ view'.livePaused = ~view.livePaused
          /\ view'.inStep => view.inStep /\ (view.livePaused => view.pendingBuffer = <<>>)
      BY <1>1, <2>2 DEF setLivePaused, IsView
    <3> QED BY <1>3, <3>1 DEF Agrees, Shows
  <2> QED BY <2>1, <2>2
<1>4. Leading'
  <2> SUFFICES ASSUME es = "OPEN"
               PROVE  Reaches(view', client.queue \o wire, At("live", rows))
    BY <1>1 DEF Leading
  <2> QED BY <1>3, ReachesLike DEF IInv, Leading
<1> QED BY <1>1, <1>2, <1>4 DEF IInv, IsClient, Frames, Waiting

LEMMA InitIInv == Init => IInv
<1> SUFFICES ASSUME Init PROVE IInv
  OBVIOUS
<1>1. rows = <<>> /\ file = 0 /\ client = NewClient /\ view = NoView /\ wire = Snapshot
  BY DEF Init
<1>2. IsView(view) /\ IsClient /\ IsLog(rows) /\ file \in Nat /\ client.queue = <<>>
  BY <1>1, EmptyLog DEF IsView, NoView, IsClient, NewClient
<1>3. PICK F : Snapshot \in Seq(F)
  <2>1. ChunksOf \in Nat
    BY <1>2, FirstRows
  <2> QED BY <2>1, SnapshotFrames
<1>4. <<>> \in Seq(F) /\ \A n \in 1..Len(<<>>) : <<>>[n].kind \in Queued
  OBVIOUS
<1>5. Reaches(view, <<>> \o Snapshot, At("live", rows))
  <2> DEFINE q == <<>>
  <2>1. q \in Seq(F) /\ \A n \in 1..Len(q) : q[n].kind \in Queued
    BY <1>4
  <2> HIDE DEF q
  <2>2. Reaches(view, q \o Snapshot, At("live", rows))
    BY <1>2, <1>3, <2>1, SnapshotReaches
  <2> QED BY <2>2 DEF q
<1> QED BY <1>1, <1>2, <1>3, <1>4, <1>5 DEF IInv, Frames, Waiting, Leading

LEMMA NextIInv == IInv /\ [Next]_vars => IInv'
<1> SUFFICES ASSUME IInv, [Next]_vars PROVE IInv'
  OBVIOUS
<1>1. CASE Next /\ ~VisibilityChange
  BY <1>1, SourceNext, DeliverNext, BreakNext, StreamNext, DrainNext, UserNext DEF Next, User
<1>2. CASE VisibilityChange \/ UNCHANGED vars
  <2>1. UNCHANGED <<rows, file, streams, wire, es, client, view>>
    BY <1>2 DEF VisibilityChange, vars
  <2> QED BY <2>1 DEF IInv, IsClient, Frames, Waiting, Leading
<1> QED BY <1>1, <1>2

\* What the reader has, once all is received and drained, is the log.
LEMMA IInvPlaces == IInv => NothingMisplaced
<1> SUFFICES ASSUME IInv, es = "OPEN", After(view, client.queue \o wire).inStep
             PROVE  Held(After(view, client.queue \o wire)) = rows
  BY DEF NothingMisplaced
<1> DEFINE fs == client.queue \o wire
           k == Len(fs)
           v == After(view, fs)
           l == At("live", rows)
<1>1. PICK F : client.queue \in Seq(F) /\ wire \in Seq(F)
  BY DEF IInv, Frames
<1>2. fs \in Seq(F) /\ k \in Nat
  BY <1>1, Joined
<1>3. Reaches(view, fs, l) /\ IsView(view) /\ IsLog(rows)
  BY DEF IInv, Leading
<1> HIDE DEF fs
<1>4. PICK run : IsRun(client, view, fs, run, k)
  BY <1>2, RunsExist
<1>5. v = run[k]
  BY <1>2, <1>4, RunIsAfter
<1>6. Reaches(run[k], <<>>, l)
  <2> DEFINE rest == <<>>
  <2>1. rest \in Seq(F) /\ IsRest(rest, fs, k)
    BY <1>2 DEF IsRest
  <2> HIDE DEF rest, k
  <2>2. Reaches(run[k], rest, l)
    BY <1>2, <1>3, <1>4, <2>1, ReachesRest
  <2> QED BY <2>2 DEF rest
<1>7. l.place = "live" /\ l.rows = rows
  BY DEF At
<1> HIDE DEF l, v, k
<1>8. Agrees(v, l)
  BY <1>3, <1>5, <1>6, <1>7, ReachesNothing
<1>9. v.inStep
  BY DEF v, fs
<1>10. Halves(v.rows, v.pendingBuffer, rows)
  BY <1>7, <1>8, <1>9 DEF Agrees, Shows
<1>11. Held(v) = rows
  BY <1>3, <1>10, HalvesAll DEF Held
<1> QED BY <1>11 DEF v, fs

\* Whatever is queued, drained and cut off, for any log and any number of
\* streams, rotations and pauses: what the reader shows and holds back, and
\* what is still on its way to him, are the rows of the log (sse-client.ts,
\* store.ts).
THEOREM PlacesCorrect == Spec => []NothingMisplaced
<1>1. Spec => []IInv
  BY InitIInv, NextIInv, PTL DEF Spec
<1> QED BY <1>1, IInvPlaces, PTL

-----------------------------------------------------------------------------
(* The end of a snapshot comes behind its chunks.                          *)

Has(s, kind) == \E n \in 1..Len(s) : s[n].kind = kind

EndsLast(s) ==
  \A m, n \in 1..Len(s) :
    m < n /\ s[m].kind = "snapshot-end" => s[n].kind # "snapshot-chunk"

\* of an earlier stream, only the queue is left when a new one begins
NextStream(q, w) ==
  Has(q, "snapshot-end") /\ Has(w, "snapshot-chunk") => w[1].kind = "snapshot-begin"

InOrder ==
  EndsLast(client.queue) /\ EndsLast(wire) /\ NextStream(client.queue, wire)

\* More frames, none a chunk.
LEMMA EndsLastJoined ==
  ASSUME NEW F, NEW w \in Seq(F), NEW u \in Seq(F), EndsLast(w), ~Has(u, "snapshot-chunk")
  PROVE  /\ EndsLast(w \o u)
         /\ Has(w \o u, "snapshot-chunk") => Has(w, "snapshot-chunk") /\ (w \o u)[1] = w[1]
<1> DEFINE s == w \o u
<1>1. /\ s \in Seq(F) /\ Len(s) = Len(w) + Len(u)
      /\ \A n \in 1..Len(w) : s[n] = w[n]
      /\ \A n \in 1..Len(u) : s[Len(w) + n] = u[n]
      /\ Len(w) \in Nat /\ Len(u) \in Nat
  BY Joined
<1> HIDE DEF s
<1>2. ASSUME NEW n \in 1..Len(s), s[n].kind = "snapshot-chunk" PROVE n \in 1..Len(w)
  <2> SUFFICES ASSUME n \notin 1..Len(w) PROVE FALSE
    OBVIOUS
  <2> DEFINE j == n - Len(w)
  <2>1. j \in 1..Len(u) /\ Len(w) + j = n
    BY <1>1
  <2> HIDE DEF j
  <2>2. u[j].kind = "snapshot-chunk"
    BY <1>1, <1>2, <2>1
  <2> QED BY <2>1, <2>2 DEF Has
<1>3. ASSUME NEW m \in 1..Len(s), NEW n \in 1..Len(s), m < n,
             s[m].kind = "snapshot-end", s[n].kind = "snapshot-chunk"
      PROVE  FALSE
  <2>1. n \in 1..Len(w) /\ m \in 1..Len(w)
    BY <1>1, <1>2, <1>3
  <2>2. s[m] = w[m] /\ s[n] = w[n]
    BY <1>1, <2>1
  <2> QED BY <1>3, <2>1, <2>2 DEF EndsLast
<1>4. EndsLast(s)
  BY <1>3 DEF EndsLast
<1>5. ASSUME Has(s, "snapshot-chunk") PROVE Has(w, "snapshot-chunk") /\ s[1] = w[1]
  <2>1. PICK n \in 1..Len(s) : s[n].kind = "snapshot-chunk"
    BY <1>5 DEF Has
  <2>2. n \in 1..Len(w) /\ 1 \in 1..Len(w)
    BY <1>1, <1>2, <2>1
  <2>3. s[n] = w[n] /\ s[1] = w[1]
    BY <1>1, <2>2
  <2> QED BY <2>1, <2>2, <2>3 DEF Has
<1> QED BY <1>4, <1>5 DEF s

\* All but the first k.
LEMMA EndsLastRest ==
  ASSUME NEW F, NEW s \in Seq(F), NEW rest \in Seq(F), NEW k, IsRest(rest, s, k), EndsLast(s)
  PROVE  /\ EndsLast(rest)
         /\ \A kind : Has(rest, kind) => Has(s, kind)
         /\ (\E n \in 1..k : s[n].kind = "snapshot-end") => ~Has(rest, "snapshot-chunk")
<1>1. k \in 0..Len(s) /\ Len(rest) = Len(s) - k /\ \A n \in 1..Len(rest) : rest[n] = s[k + n]
  BY DEF IsRest
<1>2. Len(s) \in Nat
  OBVIOUS
<1>3. \A n \in 1..Len(rest) : k + n \in 1..Len(s)
  BY <1>1, <1>2
<1>4. ASSUME NEW m \in 1..Len(rest), NEW n \in 1..Len(rest), m < n,
             rest[m].kind = "snapshot-end", rest[n].kind = "snapshot-chunk"
      PROVE  FALSE
  <2>1. k + m \in 1..Len(s) /\ k + n \in 1..Len(s) /\ k + m < k + n
    BY <1>1, <1>3, <1>4
  <2>2. s[k + m].kind = "snapshot-end" /\ s[k + n].kind = "snapshot-chunk"
    BY <1>1, <1>4
  <2> QED BY <2>1, <2>2 DEF EndsLast
<1>5. ASSUME NEW kind, Has(rest, kind) PROVE Has(s, kind)
  <2>1. PICK n \in 1..Len(rest) : rest[n].kind = kind
    BY <1>5 DEF Has
  <2>2. k + n \in 1..Len(s) /\ s[k + n].kind = kind
    BY <1>1, <1>3, <2>1
  <2> QED BY <2>2 DEF Has
<1>6. ASSUME NEW m \in 1..k, s[m].kind = "snapshot-end", Has(rest, "snapshot-chunk")
      PROVE  FALSE
  <2>1. PICK n \in 1..Len(rest) : rest[n].kind = "snapshot-chunk"
    BY <1>6 DEF Has
  <2>2. m \in 1..Len(s) /\ k + n \in 1..Len(s) /\ m < k + n
    BY <1>1, <1>2, <1>3, <2>1
  <2>3. s[k + n].kind = "snapshot-chunk"
    BY <1>1, <2>1
  <2> QED BY <1>6, <2>2, <2>3 DEF EndsLast
<1>7. EndsLast(rest)
  BY <1>4 DEF EndsLast
<1> QED BY <1>5, <1>6, <1>7

LEMMA SnapshotInOrder ==
  ASSUME IsLog(rows)
  PROVE  EndsLast(Snapshot) /\ Snapshot[1].kind = "snapshot-begin"
<1>1. /\ ChunksOf \in Nat /\ Len(Snapshot) = ChunksOf + 2
      /\ Snapshot[1].kind = "snapshot-begin"
      /\ Snapshot[ChunksOf + 2].kind = "snapshot-end"
      /\ \A n \in 1..ChunksOf : Snapshot[n + 1] = Chunk(n)
  BY FirstRows, SnapshotFrames
<1>2. \A n \in 1..ChunksOf : Chunk(n).kind = "snapshot-chunk"
  BY DEF Chunk
<1> DEFINE N == ChunksOf
<1> HIDE DEF N
<1>3. ASSUME NEW m \in 1..(N + 2), Snapshot[m].kind = "snapshot-end" PROVE m = N + 2
  <2>1. CASE m = 1
    BY <1>1, <1>3, <2>1
  <2>2. CASE m > 1 /\ m < N + 2
    <3> DEFINE j == m - 1
    <3>1. j \in 1..N /\ j + 1 = m
      BY <1>1, <2>2 DEF N
    <3> HIDE DEF j
    <3>2. Snapshot[m].kind = "snapshot-chunk"
      BY <1>1, <1>2, <3>1 DEF N
    <3> QED BY <1>3, <3>2
  <2> QED BY <1>1, <2>1, <2>2 DEF N
<1>4. EndsLast(Snapshot)
  BY <1>1, <1>3 DEF EndsLast, N
<1> QED BY <1>1, <1>4

-----------------------------------------------------------------------------
(* It is kept.                                                             *)

LEMMA NothingEndsLast == EndsLast(<<>>) /\ \A kind : ~Has(<<>>, kind)
  BY DEF EndsLast, Has

LEMMA InitInOrder == Init => InOrder
<1> SUFFICES ASSUME Init PROVE InOrder
  OBVIOUS
<1>1. client.queue = <<>> /\ wire = Snapshot /\ IsLog(rows)
  BY EmptyLog DEF Init, NewClient
<1> QED BY <1>1, NothingEndsLast, SnapshotInOrder DEF InOrder, NextStream

LEMMA SentInOrder ==
  ASSUME IInv, InOrder, NEW G, NEW u \in Seq(G), ~Has(u, "snapshot-chunk"),
         Sent(u), UNCHANGED client
  PROVE  InOrder'
<1>1. PICK F : client.queue \in Seq(F) /\ wire \in Seq(F)
  BY DEF IInv, Frames
<1> DEFINE H == F \cup G
<1>2. wire \in Seq(H) /\ u \in Seq(H)
  BY <1>1, LargerSet
<1> HIDE DEF H
<1>3. /\ EndsLast(wire \o u)
      /\ Has(wire \o u, "snapshot-chunk") => Has(wire, "snapshot-chunk") /\ (wire \o u)[1] = wire[1]
  BY <1>2, EndsLastJoined DEF InOrder
<1>4. wire' = wire \/ wire' = wire \o u
  BY DEF Sent
<1> QED BY <1>3, <1>4 DEF InOrder, NextStream

LEMMA SourceInOrder ==
  ASSUME IInv, InOrder, Source
  PROVE  InOrder'
<1>1. ASSUME NEW f, f.kind # "snapshot-chunk", Sent(<<f>>), UNCHANGED client PROVE InOrder'
  <2> DEFINE u == <<f>>
  <2>1. u \in Seq({f}) /\ Len(u) = 1 /\ u[1] = f
    OBVIOUS
  <2> HIDE DEF u
  <2>2. ~Has(u, "snapshot-chunk")
    BY <1>1, <2>1 DEF Has
  <2>3. Sent(u)
    BY <1>1 DEF u
  <2> QED BY <1>1, <2>1, <2>2, <2>3, SentInOrder
<1>2. CASE SourceAppend
  <2> DEFINE f == AppendFrame(Len(rows) + 1, <<Row(Len(rows) + 1, file, 0)>>)
  <2>1. f.kind # "snapshot-chunk" /\ Sent(<<f>>) /\ UNCHANGED client
    BY <1>2 DEF SourceAppend, AppendFrame
  <2> HIDE DEF f
  <2> QED BY <1>1, <2>1
<1>3. ASSUME NEW i \in DOMAIN rows, SourcePatch(i) PROVE InOrder'
  <2> DEFINE f == RowPatch(i, rows'[i])
  <2>1. f.kind # "snapshot-chunk" /\ Sent(<<f>>) /\ UNCHANGED client
    BY <1>3 DEF SourcePatch, RowPatch, PatchFrame
  <2> HIDE DEF f
  <2> QED BY <1>1, <2>1
<1>4. CASE SourceRotation
  <2>1. RotationFrame.kind # "snapshot-chunk" /\ Sent(<<RotationFrame>>) /\ UNCHANGED client
    BY <1>4 DEF SourceRotation, RotationFrame
  <2> QED BY <1>1, <2>1
<1> DEFINE e == [kind |-> "error"]
           r == [kind |-> "log-reset"]
           b == [kind |-> "bye"]
<1>k. e.kind = "error" /\ r.kind = "log-reset" /\ b.kind = "bye"
  OBVIOUS
<1>5. CASE SessionChange
  <2> DEFINE u == LastWords
  <2>1. Sent(u) /\ UNCHANGED client
    BY <1>5 DEF SessionChange
  <2>2. u = <<r, b>>
    BY DEF LastWords
  <2> HIDE DEF u, r, b
  <2>3. u \in Seq({r, b}) /\ Len(u) = 2 /\ u[1] = r /\ u[2] = b
    BY <2>2
  <2>4. ~Has(u, "snapshot-chunk")
    BY <1>k, <2>3 DEF Has
  <2> QED BY <2>1, <2>3, <2>4, SentInOrder
<1>6. CASE Overflow
  <2> DEFINE u == <<e>> \o LastWords
  <2>1. Sent(u) /\ UNCHANGED client
    BY <1>6 DEF Overflow
  <2>2. u = <<e>> \o <<r, b>>
    BY DEF LastWords
  <2> HIDE DEF u, e, r, b
  <2>3. u \in Seq({e, r, b}) /\ Len(u) = 3 /\ u[1] = e /\ u[2] = r /\ u[3] = b
    BY <2>2
  <2>4. ~Has(u, "snapshot-chunk")
    BY <1>k, <2>3 DEF Has
  <2> QED BY <2>1, <2>3, <2>4, SentInOrder
<1> QED BY <1>2, <1>3, <1>4, <1>5, <1>6 DEF Source

LEMMA DeliverInOrder ==
  ASSUME IInv, InOrder, Deliver
  PROVE  InOrder'
<1> DEFINE q == client.queue
           f == Head(wire)
<1>1. wire # <<>> /\ client' = Listened(client, f) /\ wire' = Tail(wire) /\ IsClient
  BY DEF Deliver, IInv
<1>2. PICK F : q \in Seq(F) /\ wire \in Seq(F)
  BY DEF IInv, Frames
<1>3. /\ wire' \in Seq(F) /\ f \in F /\ f = wire[1] /\ Len(wire) \in Nat \ {0}
      /\ Len(wire') = Len(wire) - 1
      /\ \A n \in 1..Len(wire') : wire'[n] = wire[n + 1]
  BY <1>1, <1>2
<1>4. /\ EndsLast(wire')
      /\ \A kind : Has(wire', kind) => Has(wire, kind)
      /\ f.kind = "snapshot-end" => ~Has(wire', "snapshot-chunk")
  <2>1. IsRest(wire', wire, 1)
    <3>1. \A n \in 1..Len(wire') : wire'[n] = wire[1 + n]
      BY <1>3
    <3> QED BY <1>3, <3>1 DEF IsRest
  <2>2. EndsLast(wire) /\ 1 \in 1..1
    BY DEF InOrder
  <2> HIDE DEF f
  <2> QED BY <1>2, <1>3, <2>1, <2>2, EndsLastRest
<1>5. EndsLast(q) /\ NextStream(q, wire)
  BY DEF InOrder
<1> HIDE DEF q, f
<1>6. CASE f.kind \in Queued
  <2> DEFINE u == <<f>>
             s == q \o u
  <2>1. client'.queue = Append(q, f)
    BY <1>1, <1>6 DEF IsClient, Listened, enqueue, scheduleDrain, q
  <2>2. Append(q, f) = s
    BY <1>2, <1>3
  <2>3. u \in Seq(F) /\ Len(u) = 1 /\ u[1] = f
    BY <1>3
  <2> HIDE DEF u
  <2>4. /\ s \in Seq(F) /\ Len(s) = Len(q) + 1 /\ s[Len(q) + 1] = f
        /\ \A n \in 1..Len(q) : s[n] = q[n]
        /\ Len(q) \in Nat
    <3>1. /\ s \in Seq(F) /\ Len(s) = Len(q) + Len(u) /\ Len(q) \in Nat
          /\ \A n \in 1..Len(q) : s[n] = q[n]
          /\ \A n \in 1..Len(u) : s[Len(q) + n] = u[n]
      <4>1. q \in Seq(F) /\ u \in Seq(F)
        BY <1>2, <2>3
      <4> QED BY <4>1, Joined
    <3> HIDE DEF s
    <3> QED BY <2>3, <3>1
  <2>5. CASE f.kind # "snapshot-chunk"
    <3>1. ~Has(u, "snapshot-chunk")
      BY <2>3, <2>5 DEF Has
    <3>2. EndsLast(s)
      BY <1>2, <1>5, <2>3, <3>1, EndsLastJoined
    <3> HIDE DEF s
    <3>3. ASSUME Has(s, "snapshot-end"), Has(wire', "snapshot-chunk") PROVE FALSE
      <4>1. f.kind # "snapshot-end"
        BY <1>4, <3>3
      <4>2. PICK n \in 1..Len(s) : s[n].kind = "snapshot-end"
        BY <3>3 DEF Has
      <4>3. n \in 1..Len(q)
        BY <2>4, <4>1, <4>2
      <4>4. Has(q, "snapshot-end")
        BY <2>4, <4>2, <4>3 DEF Has
      <4>5. f.kind = "snapshot-begin"
        BY <1>3, <1>4, <1>5, <3>3, <4>4 DEF NextStream
      <4> QED BY <1>6, <4>5 DEF Queued
    <3> QED BY <1>4, <2>1, <2>2, <3>2, <3>3 DEF InOrder, NextStream
  <2>6. CASE f.kind = "snapshot-chunk"
    <3>1. Has(wire, "snapshot-chunk")
      <4>1. 1 \in 1..Len(wire)
        BY <1>3
      <4> QED BY <1>3, <2>6, <4>1 DEF Has
    <3>2. ~Has(q, "snapshot-end")
      BY <1>3, <1>5, <2>6, <3>1 DEF NextStream
    <3> HIDE DEF s
    <3>3. ASSUME NEW n \in 1..Len(s), s[n].kind = "snapshot-end" PROVE FALSE
      <4>1. n \in 1..Len(q)
        BY <2>4, <2>6, <3>3
      <4> QED BY <2>4, <3>2, <3>3, <4>1 DEF Has
    <3>4. EndsLast(s) /\ ~Has(s, "snapshot-end")
      BY <3>3 DEF EndsLast, Has
    <3> QED BY <1>4, <2>1, <2>2, <3>4 DEF InOrder, NextStream
  <2> QED BY <2>5, <2>6
<1>7. CASE f.kind \in {"snapshot-begin", "rotation", "log-reset"}
  <2>1. client'.queue = <<>>
    BY <1>1, <1>7 DEF IsClient, Listened, clearQueuedFrames, Queued
  <2> QED BY <1>4, <2>1, NothingEndsLast DEF InOrder, NextStream
<1>8. CASE f.kind \notin Queued \cup {"snapshot-begin", "rotation", "log-reset"}
  <2>1. client'.queue = q
    BY <1>1, <1>8 DEF IsClient, Listened, q
  <2>2. ASSUME Has(q, "snapshot-end"), Has(wire', "snapshot-chunk") PROVE FALSE
    BY <1>3, <1>4, <1>5, <1>8, <2>2 DEF NextStream
  <2> QED BY <1>4, <1>5, <2>1, <2>2 DEF InOrder, NextStream
<1> QED BY <1>6, <1>7, <1>8

LEMMA StreamInOrder ==
  ASSUME IInv, InOrder, Reopen \/ onWatchErrorRetry \/ onPickerSelect
  PROVE  InOrder'
<1>1. wire' = Snapshot /\ (client' = client \/ client' = NewClient)
  BY DEF Reopen, onWatchErrorRetry, onPickerSelect, Connected
<1>2. client'.queue = client.queue \/ client'.queue = <<>>
  BY <1>1 DEF NewClient
<1>3. EndsLast(client'.queue)
  BY <1>2, NothingEndsLast DEF InOrder
<1>4. EndsLast(Snapshot) /\ Snapshot[1].kind = "snapshot-begin"
  BY SnapshotInOrder DEF IInv
<1> QED BY <1>1, <1>3, <1>4 DEF InOrder, NextStream

LEMMA DrainInOrder ==
  ASSUME IInv, InOrder, Drain
  PROVE  InOrder'
<1>1. PICK F, k : client.queue \in Seq(F) /\ client'.queue \in Seq(F)
                  /\ IsRest(client'.queue, client.queue, k)
  BY DrainTakes
<1>2. EndsLast(client.queue)
  BY DEF InOrder
<1>3. EndsLast(client'.queue) /\ \A kind : Has(client'.queue, kind) => Has(client.queue, kind)
  BY <1>1, <1>2, EndsLastRest
<1>4. wire' = wire
  BY DEF Drain
<1> QED BY <1>3, <1>4 DEF InOrder, NextStream

LEMMA NextInOrder == IInv /\ InOrder /\ [Next]_vars => InOrder'
<1> SUFFICES ASSUME IInv, InOrder, [Next]_vars PROVE InOrder'
  OBVIOUS
<1>1. CASE Break
  <2>1. wire' = <<>> /\ client' = client
    BY <1>1 DEF Break
  <2> QED BY <2>1, NothingEndsLast DEF InOrder, NextStream
<1>2. CASE UNCHANGED <<wire, client>>
  BY <1>2 DEF InOrder, NextStream
<1>3. CASE Refused \/ onResumeFollowing \/ setLivePaused \/ VisibilityChange \/ UNCHANGED vars
  <2>1. UNCHANGED <<wire, client>>
    BY <1>3 DEF Refused, onResumeFollowing, setLivePaused, VisibilityChange, vars
  <2> QED BY <1>2, <2>1
<1> QED BY <1>1, <1>3, SourceInOrder, DeliverInOrder, StreamInOrder, DrainInOrder
        DEF Next, User

\* A drain that takes no end of a snapshot leaves the connection as it was.
LEMMA NotConnectedYet ==
  ASSUME NEW c, NEW v, IsView(v), v.connection # "connected",
         NEW fs, NEW k \in Nat, NEW run, IsRun(c, v, fs, run, k),
         \A n \in 1..k : fs[n].kind \in Queued /\ fs[n].kind # "snapshot-end"
  PROVE  run[k].connection # "connected"
<1> DEFINE Good == {n \in 0..k : IsView(run[n]) /\ run[n].connection # "connected"}
<1>1. run[0] = v /\ \A n \in 1..k : run[n] = Taken(c, run[n - 1], fs[n])
  BY DEF IsRun
<1>2. 0 \in Good /\ k \in 0..k
  BY <1>1
<1>3. ASSUME NEW n \in 1..k, n - 1 \in Good PROVE n \in Good
  <2> DEFINE v0 == run[n - 1]
             f == fs[n]
  <2>1. IsView(v0) /\ v0.connection # "connected" /\ n \in 0..k
    BY <1>3
  <2>2. run[n] = Drained(v0, f) /\ f.kind \in Queued /\ f.kind # "snapshot-end"
    BY <1>1 DEF Taken
  <2> HIDE DEF v0, f
  <2>3. Drained(v0, f).connection = v0.connection
    BY <2>1, <2>2 DEF Drained, Queued, IsView, appendSnapshotRows, appendRows, applyPatch
  <2>4. IsView(Drained(v0, f))
    BY <2>1, <2>2, DrainedIsView
  <2> QED BY <2>1, <2>2, <2>3, <2>4
<1>4. k \in Good
  <2> HIDE DEF Good
  <2> QED BY <1>2, <1>3, UpTo
<1> QED BY <1>4

\* Only a drain connects.
LEMMA OnlyDrainConnects ==
  ASSUME IInv, [Next]_vars, ~Drain, view.connection # "connected"
  PROVE  view'.connection # "connected"
<1>1. IsView(view)
  BY DEF IInv
<1>2. CASE Deliver
  <2> DEFINE f == Head(wire)
  <2>1. view' = Heard(client, view, f)
    BY <1>2 DEF Deliver
  <2> HIDE DEF f
  <2> QED BY <1>1, <2>1 DEF Heard, IsView, resetForRotation, logSwitchState, NoView, onError
<1>3. CASE Break \/ Refused
  BY <1>1, <1>3 DEF Break, Refused, onError, IsView
<1>4. ASSUME NEW v, IsView(v), Connected(v) PROVE view'.connection # "connected"
  BY <1>4 DEF Connected, IsView
<1>5. IsView(logSwitchState(view))
  BY DEF IsView, logSwitchState, NoView
<1>6. CASE onResumeFollowing \/ setLivePaused
  BY <1>1, <1>6 DEF onResumeFollowing, setLivePaused, flushPendingBuffer, IsView
<1>7. CASE UNCHANGED view
  BY <1>7
<1>8. CASE Source \/ Reopen \/ VisibilityChange \/ UNCHANGED vars
  <2>1. UNCHANGED view
    BY <1>8 DEF Source, SourceAppend, SourcePatch, SourceRotation, SessionChange, Overflow,
                Reopen, VisibilityChange, vars
  <2> QED BY <1>7, <2>1
<1> QED BY <1>1, <1>2, <1>3, <1>4, <1>5, <1>6, <1>8
        DEF Next, User, onWatchErrorRetry, onPickerSelect

\* The step that connects leaves no chunk to be drained.
Connects ==
  (view.connection # "connected" /\ view'.connection = "connected") =>
    \A n \in DOMAIN client'.queue : client'.queue[n].kind # "snapshot-chunk"

LEMMA NextConnects == IInv /\ InOrder /\ [Next]_vars => Connects
<1> SUFFICES ASSUME IInv, InOrder, [Next]_vars,
                    view.connection # "connected", view'.connection = "connected"
             PROVE  \A n \in DOMAIN client'.queue : client'.queue[n].kind # "snapshot-chunk"
  BY DEF Connects
<1> DEFINE q == client.queue
           rest == client'.queue
<1>1. Drain
  BY OnlyDrainConnects
<1>2. PICK F, k, run :
        /\ q \in Seq(F) /\ rest \in Seq(F) /\ IsRest(rest, q, k)
        /\ IsRun(client, view, q, run, k) /\ view' = run[k]
  BY <1>1, DrainTakes
<1>3. IsView(view) /\ EndsLast(q) /\ \A n \in 1..Len(q) : q[n].kind \in Queued
  BY DEF IInv, InOrder, Waiting
<1> HIDE DEF q, rest
<1>4. k \in Nat /\ \A n \in 1..k : n \in 1..Len(q)
  <2>1. k \in 0..Len(q) /\ Len(q) \in Nat
    BY <1>2 DEF IsRest
  <2> QED BY <2>1
<1>5. \E n \in 1..k : q[n].kind = "snapshot-end"
  <2> SUFFICES ASSUME \A n \in 1..k : q[n].kind # "snapshot-end" PROVE FALSE
    OBVIOUS
  <2>1. \A n \in 1..k : q[n].kind \in Queued /\ q[n].kind # "snapshot-end"
    BY <1>3, <1>4
  <2> QED BY <1>2, <1>3, <1>4, <2>1, NotConnectedYet
<1>6. ~Has(rest, "snapshot-chunk")
  BY <1>2, <1>3, <1>5, EndsLastRest
<1>7. DOMAIN rest = 1..Len(rest)
  BY <1>2
<1> QED BY <1>6, <1>7 DEF Has, rest

\* The reader is told "connected" only once no chunk of a snapshot is left in
\* the queue (sse-client.ts drainFrames, store.ts setConnection).
THEOREM ConnectionCorrect == Spec => ConnectedAfterBaseline
<1>1. Spec => [](IInv /\ InOrder)
  <2>1. Init => IInv /\ InOrder
    BY InitIInv, InitInOrder
  <2>2. IInv /\ InOrder /\ [Next]_vars => (IInv /\ InOrder)'
    BY NextIInv, NextInOrder
  <2> QED BY <2>1, <2>2, PTL DEF Spec
<1>2. IInv /\ InOrder /\ [Next]_vars => [Connects]_vars
  BY NextConnects
<1>3. [][Connects]_vars <=> ConnectedAfterBaseline
  BY DEF ConnectedAfterBaseline, Connects
<1> QED BY <1>1, <1>2, <1>3, PTL DEF Spec
=============================================================================
