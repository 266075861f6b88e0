----------------------------- MODULE ReplayProofs -----------------------------
(***************************************************************************)
(* Theorems about Replay and StateRoutes, for any resources, sequence      *)
(* numbers and sizes of responses, and about LogIndexes, for any searches, *)
(* logs and limits.                                                        *)
(***************************************************************************)
EXTENDS StateRoutes, LogIndexes, SequenceTheorems, NaturalsInduction, WellFoundedInduction, TLAPS

-----------------------------------------------------------------------------
(* Numbers and lists.                                                      *)

\* A set of natural numbers has a least element.
LEMMA LeastNumber ==
  ASSUME NEW T, T \subseteq Nat, T # {}
  PROVE  \E n \in T : \A m \in T : n <= m
<1>1. PICK n \in T : \A m \in T : ~(<<m, n>> \in OpToRel(<, Nat))
  BY NatLessThanWellFounded, WFMin
<1>2. ASSUME NEW m \in T, m < n PROVE FALSE
  <2>1. <<m, n>> \in OpToRel(<, Nat)
    BY <1>2 DEF OpToRel
  <2> QED BY <1>1, <2>1
<1> QED BY <1>2

LEMMA LeastIsMember ==
  ASSUME NEW T, T \subseteq Nat, T # {}
  PROVE  Min(T) \in T /\ \A m \in T : Min(T) <= m
  BY LeastNumber DEF Min

\* What holds of 0, and of n when it holds of n - 1, holds up to k: Good is the
\* set of the numbers it holds of.
LEMMA UpTo ==
  ASSUME NEW k \in Nat, NEW Good, 0 \in Good,
         \A n \in 1..k : n - 1 \in Good => n \in Good
  PROVE  \A n \in 0..k : n \in Good
<1> DEFINE T == {n \in 0..k : n \notin Good}
<1>1. ASSUME T # {} PROVE FALSE
  <2>1. T \subseteq Nat
    OBVIOUS
  <2>2. PICK n \in T : \A m \in T : n <= m
    <3> HIDE DEF T
    <3> QED BY <1>1, <2>1, LeastNumber
  <2>3. n # 0 /\ n - 1 \in 0..k /\ n - 1 \notin T
    BY <2>2
  <2> QED BY <2>2, <2>3
<1> QED BY <1>1

-----------------------------------------------------------------------------
(* Recursive functions: items taken one by one.                            *)

\* what an item makes of what there was
Stepped(kind, c, x) ==
  IF kind = "snapshots" THEN InstallSnapshot(c, x)
  ELSE IF kind = "actions" THEN ApplyEnvelope(c, x)
  ELSE IF kind = "weights" THEN c + x
  ELSE IF kind = "positions"
  THEN IF x.at < x.from THEN x.begun ELSE IF c.stop # "none" THEN c ELSE LookAt(c, x.at)
  ELSE IF Fits(c) THEN c ELSE deleteCached(c, 1)

\* run is what there is before the first of k items, between two, and at the end
IsRun(kind, c, xs, run, k) ==
  /\ run = [n \in 0..k |-> run[n]]
  /\ run[0] = c
  /\ \A n \in 1..k : run[n] = Stepped(kind, run[n - 1], xs[n])

LEMMA RunsExist ==
  ASSUME NEW kind, NEW c, NEW xs, NEW k \in Nat
  PROVE  \E run : IsRun(kind, c, xs, run, k)
<1> DEFINE Runs == {n \in 0..k : \E run : IsRun(kind, c, xs, run, n)}
<1>1. 0 \in Runs
  <2> DEFINE run == [n \in 0..0 |-> c]
  <2>1. run = [n \in 0..0 |-> run[n]] /\ run[0] = c
    OBVIOUS
  <2> HIDE DEF run
  <2>2. IsRun(kind, c, xs, run, 0)
    BY <2>1 DEF IsRun
  <2> QED BY <2>2
<1>2. ASSUME NEW m \in 1..k, m - 1 \in Runs PROVE m \in Runs
  <2>1. PICK run : IsRun(kind, c, xs, run, m - 1)
    BY <1>2
  <2> DEFINE more == [n \in 0..m |-> IF n = m THEN Stepped(kind, run[m - 1], xs[m]) ELSE run[n]]
  <2>2. more = [n \in 0..m |-> more[n]]
    OBVIOUS
  <2>3. /\ more[m] = Stepped(kind, run[m - 1], xs[m])
        /\ \A n \in 0..(m - 1) : more[n] = run[n]
    OBVIOUS
  <2> HIDE DEF more
  <2>4. ASSUME NEW n \in 1..m PROVE more[n] = Stepped(kind, more[n - 1], xs[n])
    <3>1. CASE n = m
      <4>1. m - 1 \in 0..(m - 1)
        OBVIOUS
      <4> QED BY <2>3, <3>1, <4>1
    <3>2. CASE n # m
      <4>1. n \in 1..(m - 1) /\ n \in 0..(m - 1) /\ n - 1 \in 0..(m - 1)
        BY <3>2
      <4>2. run[n] = Stepped(kind, run[n - 1], xs[n])
        BY <2>1, <4>1 DEF IsRun
      <4> QED BY <2>3, <4>1, <4>2
    <3> QED BY <3>1, <3>2
  <2>5. more[0] = c
    <3>1. 0 \in 0..(m - 1)
      OBVIOUS
    <3> QED BY <2>1, <2>3, <3>1 DEF IsRun
  <2>6. IsRun(kind, c, xs, more, m)
    BY <2>2, <2>4, <2>5 DEF IsRun
  <2>7. m \in 0..k
    OBVIOUS
  <2> QED BY <2>6, <2>7
<1>3. k \in 0..k
  OBVIOUS
<1>4. k \in Runs
  <2> HIDE DEF Runs
  <2> QED BY <1>1, <1>2, <1>3, UpTo
<1> QED BY <1>4

\* The entry with an id is where IndexOfId says.
LEMMA IndexFound ==
  ASSUME NEW F, NEW list \in Seq(F), NEW id, id \in Ids(list)
  PROVE  IndexOfId(list, id) \in 1..Len(list) /\ list[IndexOfId(list, id)].id = id
<1> DEFINE I == {i \in 1..Len(list) : list[i].id = id}
<1>1. IndexOfId(list, id) = IF I # {} THEN Min(I) ELSE 0
  BY DEF IndexOfId, SelectInSeq
<1>2. I # {} /\ I \subseteq Nat
  BY DEF Ids
<1>3. Min(I) \in I
  <2> HIDE DEF I
  <2> QED BY <1>2, LeastIsMember
<1> HIDE DEF I
<1>4. IndexOfId(list, id) \in I
  BY <1>1, <1>2, <1>3
<1> QED BY <1>4 DEF I

\* t begins with s.
Extends(s, t) == Len(s) <= Len(t) /\ \A k \in 1..Len(s) : t[k] = s[k]

LEMMA ExtendsIsPrefix ==
  ASSUME NEW F, NEW s \in Seq(F), NEW t \in Seq(F), Extends(s, t)
  PROVE  IsPrefix(s, t)
<1> DEFINE k == Len(s)
<1>1. k \in Nat /\ k <= Len(t) /\ Len(t) \in Nat /\ \A n \in 1..k : t[n] = s[n]
  BY DEF Extends
<1>2. \A n \in 1..k : s[n] \in F /\ t[n] \in F
  <2>1. \A n \in 1..k : n \in 1..Len(t)
    BY <1>1
  <2> QED BY <2>1
<1> HIDE DEF k
<1>3. SubSeq(s, 1, k) = SubSeq(t, 1, k)
  <2> DEFINE a == SubSeq(s, 1, k)
             b == SubSeq(t, 1, k)
  <2>1. 1 \in Int /\ k \in Int
    BY <1>1
  <2>2. /\ a \in Seq(F) /\ Len(a) = (IF 1 <= k THEN k - 1 + 1 ELSE 0)
        /\ \A n \in 1..(k - 1 + 1) : a[n] = s[1 + n - 1]
    BY <1>2, <2>1, SubSeqProperties
  <2>3. /\ b \in Seq(F) /\ Len(b) = (IF 1 <= k THEN k - 1 + 1 ELSE 0)
        /\ \A n \in 1..(k - 1 + 1) : b[n] = t[1 + n - 1]
    BY <1>2, <2>1, SubSeqProperties
  <2> HIDE DEF a, b
  <2>4. Len(a) = k /\ Len(b) = k
    BY <1>1, <2>2, <2>3
  <2>5. ASSUME NEW n \in 1..k PROVE a[n] = b[n]
    <3>1. n \in 1..(k - 1 + 1) /\ 1 + n - 1 = n
      BY <1>1
    <3> QED BY <1>1, <2>2, <2>3, <3>1
  <2>6. a = [n \in 1..k |-> a[n]] /\ b = [n \in 1..k |-> b[n]]
    BY <2>2, <2>3, <2>4
  <2>7. a = b
    BY <2>5, <2>6
  <2> QED BY <2>7 DEF a, b
<1> QED BY <1>1, <1>3 DEF IsPrefix, k

-----------------------------------------------------------------------------
(* One resource.                                                           *)

\* each action applied is a new one, later than those before
Increasing(r) ==
  /\ \A j, k \in DOMAIN r.applied : j < k => r.applied[j] < r.applied[k]
  /\ \A k \in DOMAIN r.applied : r.applied[k] \in r.fromSeq + 1..r.lastServerSeq

Sound(r) ==
  /\ r \in Resource
  /\ r.fromSeq <= r.lastServerSeq
  /\ Increasing(r)
  /\ r.diagnosed <=> r.confidence # "complete"
  /\ r.confidence = "complete" => Contiguous(r)

\* nothing of r is taken back by q
Onward(r, q) ==
  /\ q.id = r.id
  /\ r.confidence # "complete" => q.confidence # "complete"
  /\ r.diagnosed => q.diagnosed
  /\ Extends(r.applied, q.applied)
  /\ r.lastServerSeq <= q.lastServerSeq

LEMMA SameIsOnward ==
  ASSUME NEW r \in Resource
  PROVE  Onward(r, r)
<1>1. r.applied \in Seq(ServerSeq) /\ r.lastServerSeq \in Int
  BY BoundAssumption DEF Resource, ServerSeq
<1>2. Len(r.applied) \in Nat
  BY <1>1
<1> QED BY <1>1, <1>2 DEF Onward, Extends

LEMMA OnwardTwice ==
  ASSUME NEW r \in Resource, NEW q \in Resource, NEW p \in Resource,
         Onward(r, q), Onward(q, p)
  PROVE  Onward(r, p)
<1>1. /\ Len(r.applied) \in Nat /\ Len(q.applied) \in Nat /\ Len(p.applied) \in Nat
      /\ r.lastServerSeq \in Int /\ q.lastServerSeq \in Int /\ p.lastServerSeq \in Int
  <2>1. /\ r.applied \in Seq(ServerSeq) /\ q.applied \in Seq(ServerSeq) /\ p.applied \in Seq(ServerSeq)
        /\ r.lastServerSeq \in ServerSeq /\ q.lastServerSeq \in ServerSeq
        /\ p.lastServerSeq \in ServerSeq
    BY DEF Resource
  <2> QED BY <2>1, BoundAssumption DEF ServerSeq
<1>2. Extends(r.applied, p.applied)
  BY <1>1 DEF Onward, Extends
<1> QED BY <1>1, <1>2 DEF Onward

\* A diagnostic.
LEMMA Diagnosed ==
  ASSUME NEW r, Sound(r)
  PROVE  LET q == AddResourceDiagnostic(r)
         IN  /\ Sound(q) /\ Onward(r, q) /\ q.confidence # "complete"
             /\ q.lastServerSeq = r.lastServerSeq
<1> DEFINE q == AddResourceDiagnostic(r)
<1>1. r \in Resource
  BY DEF Sound
<1>2. /\ q \in Resource /\ q.id = r.id /\ q.fromSeq = r.fromSeq /\ q.lastServerSeq = r.lastServerSeq
      /\ q.applied = r.applied /\ q.diagnosed = TRUE /\ q.confidence = "partial"
  BY <1>1 DEF AddResourceDiagnostic, Resource, ReplayConfidence
<1>3. Onward(r, r)
  BY <1>1, SameIsOnward
<1> HIDE DEF q
<1>4. Sound(q)
  BY <1>2 DEF Sound, Increasing
<1>5. Onward(r, q)
  BY <1>2, <1>3 DEF Onward
<1> QED BY <1>2, <1>4, <1>5 DEF q

\* The check of a number.
LEMMA Checked ==
  ASSUME NEW r, Sound(r), NEW n \in ServerSeq
  PROVE  LET q == SeqChecked(r, n)
         IN  /\ Sound(q) /\ Onward(r, q) /\ q.lastServerSeq = r.lastServerSeq
             /\ q.confidence = "complete" => n = q.lastServerSeq + 1
  BY Diagnosed, SameIsOnward DEF SeqChecked, Sound

\* An action in doubt: its number is taken.
LEMMA DoubtedSound ==
  ASSUME NEW r, Sound(r), NEW n \in ServerSeq, n > r.lastServerSeq
  PROVE  Sound(Doubted(r, n)) /\ Onward(r, Doubted(r, n))
<1> DEFINE d == AddResourceDiagnostic(r)
           q == Doubted(r, n)
<1>1. /\ Sound(d) /\ Onward(r, d) /\ d.confidence # "complete" /\ d.lastServerSeq = r.lastServerSeq
  BY Diagnosed
<1>2. r \in Resource /\ d \in Resource
  BY <1>1 DEF Sound
<1>3. /\ q \in Resource /\ q.id = d.id /\ q.fromSeq = d.fromSeq /\ q.lastServerSeq = n
      /\ q.applied = d.applied /\ q.diagnosed = d.diagnosed /\ q.confidence = "unknown"
  <2> HIDE DEF d
  <2>1. q = [d EXCEPT !.lastServerSeq = n, !.confidence = "unknown"]
    BY DEF Doubted, d
  <2> QED BY <1>2, <2>1 DEF Resource, ReplayConfidence
<1> HIDE DEF q, d
<1>4. /\ d.fromSeq \in Int /\ d.lastServerSeq \in Int /\ n \in Int
  BY <1>2, BoundAssumption DEF Resource, ServerSeq
<1>5. Sound(q)
  <2>1. ASSUME NEW k \in DOMAIN d.applied PROVE d.applied[k] \in d.fromSeq + 1..n
    BY <1>1, <1>4, <2>1 DEF Sound, Increasing
  <2>2. Increasing(q)
    BY <1>1, <1>3, <2>1 DEF Sound, Increasing
  <2> QED BY <1>1, <1>3, <1>4, <2>2 DEF Sound
<1>6. Onward(r, q)
  BY <1>1, <1>3, <1>4 DEF Onward
<1> QED BY <1>5, <1>6 DEF q

\* One more action at the end of those applied.
LEMMA OneMore ==
  ASSUME NEW r, Sound(r), NEW n \in ServerSeq, n > r.lastServerSeq,
         r.confidence = "complete" => n = r.lastServerSeq + 1,
         NEW q, q = [r EXCEPT !.lastServerSeq = n, !.applied = Append(r.applied, n)]
  PROVE  Sound(q) /\ Onward(r, q)
<1> DEFINE old == r.applied
           new == q.applied
           len == Len(old)
           from == r.fromSeq
           last == r.lastServerSeq
<1>1. /\ r \in Resource /\ old \in Seq(ServerSeq) /\ len \in Nat
      /\ from \in Int /\ last \in Int /\ n \in Int /\ from <= last /\ n > last
      /\ DOMAIN old = 1..len
  <2>1. r \in Resource /\ r.fromSeq <= r.lastServerSeq
    BY DEF Sound
  <2>2. old \in Seq(ServerSeq) /\ from \in ServerSeq /\ last \in ServerSeq
    BY <2>1 DEF Resource
  <2> QED BY <2>1, <2>2, BoundAssumption DEF ServerSeq
<1>2. /\ q.id = r.id /\ q.fromSeq = from /\ q.lastServerSeq = n
      /\ q.diagnosed = r.diagnosed /\ q.confidence = r.confidence /\ new = Append(old, n)
  BY <1>1 DEF Resource
<1>3. /\ new \in Seq(ServerSeq) /\ Len(new) = len + 1 /\ new[len + 1] = n
      /\ \A k \in 1..len : new[k] = old[k]
      /\ DOMAIN new = 1..(len + 1)
  <2>1. new = Append(old, n) /\ n \in ServerSeq
    BY <1>2
  <2> QED BY <1>1, <2>1, AppendProperties
<1>4. q \in Resource
  <2>1. Append(old, n) \in Seq(ServerSeq)
    BY <1>2, <1>3
  <2> QED BY <1>1, <2>1 DEF Resource
<1>5. /\ \A j, k \in 1..len : j < k => old[j] < old[k]
      /\ \A k \in 1..len : old[k] \in from + 1..last
  BY <1>1 DEF Sound, Increasing
<1>c. /\ r.diagnosed <=> r.confidence # "complete"
      /\ r.confidence = "complete" =>
           /\ n = last + 1
           /\ old = [k \in 1..(last - from) |-> from + k]
  BY DEF Sound, Contiguous
<1> HIDE DEF old, new, len, from, last
<1>6. ASSUME NEW j \in 1..(len + 1), NEW k \in 1..(len + 1), j < k PROVE new[j] < new[k]
  <2>1. j \in 1..len /\ new[j] = old[j] /\ old[j] \in from + 1..last
    BY <1>1, <1>3, <1>5, <1>6
  <2>2. CASE k = len + 1
    BY <1>1, <1>3, <2>1, <2>2
  <2>3. CASE k # len + 1
    <3>1. k \in 1..len
      BY <1>1, <2>3
    <3> QED BY <1>3, <1>5, <1>6, <2>1, <3>1
  <2> QED BY <2>2, <2>3
<1>7. ASSUME NEW k \in 1..(len + 1) PROVE new[k] \in from + 1..n
  <2>1. CASE k = len + 1
    BY <1>1, <1>3, <2>1
  <2>2. CASE k # len + 1
    <3>1. k \in 1..len
      BY <1>1, <2>2
    <3> QED BY <1>1, <1>3, <1>5, <3>1
  <2> QED BY <2>1, <2>2
<1>8. Increasing(q)
  BY <1>2, <1>3, <1>6, <1>7 DEF Increasing, new
<1>9. r.confidence = "complete" => Contiguous(q)
  <2> SUFFICES ASSUME r.confidence = "complete"
               PROVE  q.applied = [k \in 1..(q.lastServerSeq - q.fromSeq) |-> q.fromSeq + k]
    BY DEF Contiguous
  <2>1. n = last + 1 /\ old = [k \in 1..(last - from) |-> from + k]
    BY <1>c
  <2>2. len = last - from
    <3>1. 1..len = 1..(last - from)
      BY <1>1, <2>1
    <3> QED BY <1>1, <3>1
  <2>3. ASSUME NEW k \in 1..(len + 1) PROVE new[k] = from + k
    <3>1. CASE k = len + 1
      BY <1>1, <1>3, <2>1, <2>2, <3>1
    <3>2. CASE k # len + 1
      <4>1. k \in 1..len /\ k \in 1..(last - from)
        BY <1>1, <2>2, <3>2
      <4> QED BY <1>3, <2>1, <4>1
    <3> QED BY <3>1, <3>2
  <2>4. new = [k \in 1..(len + 1) |-> new[k]]
    BY <1>1, <1>3
  <2>5. q.lastServerSeq - q.fromSeq = len + 1
    BY <1>1, <1>2, <2>1, <2>2
  <2>6. \A k \in 1..(len + 1) : new[k] = q.fromSeq + k
    BY <1>2, <2>3
  <2>7. new = [k \in 1..(q.lastServerSeq - q.fromSeq) |-> q.fromSeq + k]
    BY <2>4, <2>5, <2>6
  <2> QED BY <2>7 DEF new
<1>10. Extends(r.applied, q.applied)
  BY <1>1, <1>3 DEF Extends, old, new, len
<1>11. Sound(q)
  BY <1>1, <1>2, <1>4, <1>8, <1>9, <1>c DEF Sound, from, last
<1>12. Onward(r, q)
  BY <1>1, <1>2, <1>10 DEF Onward, last
<1> QED BY <1>11, <1>12

\* What the reducer leaves out: the number is taken, and said so.
LEMMA Ignored ==
  ASSUME NEW r, Sound(r), NEW n \in ServerSeq, n > r.lastServerSeq,
         NEW q, q = AddResourceDiagnostic([r EXCEPT !.lastServerSeq = n])
  PROVE  Sound(q) /\ Onward(r, q)
<1>1. r \in Resource
  BY DEF Sound
<1>2. /\ q \in Resource /\ q.id = r.id /\ q.fromSeq = r.fromSeq /\ q.lastServerSeq = n
      /\ q.applied = r.applied /\ q.diagnosed = TRUE /\ q.confidence = "partial"
  <2> DEFINE moved == [r EXCEPT !.lastServerSeq = n]
  <2>1. /\ moved \in Resource /\ moved.id = r.id /\ moved.fromSeq = r.fromSeq
        /\ moved.lastServerSeq = n /\ moved.applied = r.applied
    BY <1>1 DEF Resource
  <2>2. q = AddResourceDiagnostic(moved)
    OBVIOUS
  <2> HIDE DEF moved
  <2> QED BY <2>1, <2>2 DEF AddResourceDiagnostic, Resource, ReplayConfidence
<1>3. r.fromSeq \in Int /\ r.lastServerSeq \in Int /\ n \in Int
  BY <1>1, BoundAssumption DEF Resource, ServerSeq
<1>4. Onward(r, r)
  BY <1>1, SameIsOnward
<1>5. ASSUME NEW k \in DOMAIN r.applied PROVE r.applied[k] \in r.fromSeq + 1..n
  BY <1>3, <1>5 DEF Sound, Increasing
<1>6. Increasing(q)
  BY <1>2, <1>5 DEF Sound, Increasing
<1>7. r.fromSeq <= n
  BY <1>3 DEF Sound
<1>8. Sound(q)
  BY <1>2, <1>6, <1>7 DEF Sound
<1>9. Onward(r, q)
  BY <1>2, <1>3, <1>4 DEF Onward
<1> QED BY <1>8, <1>9

\* An action applied, or what takes its place.
LEMMA AppliedSound ==
  ASSUME NEW r, Sound(r), NEW e, e.serverSeq \in ServerSeq, e.serverSeq > r.lastServerSeq
  PROVE  LET q == Applied(SeqChecked(r, e.serverSeq), e)
         IN  Sound(q) /\ Onward(r, q)
<1> DEFINE n == e.serverSeq
           d == SeqChecked(r, n)
           q == Applied(d, e)
<1>1. /\ Sound(d) /\ Onward(r, d) /\ d.lastServerSeq = r.lastServerSeq
      /\ d.confidence = "complete" => n = d.lastServerSeq + 1
  BY Checked
<1> HIDE DEF d
<1>2. n > d.lastServerSeq
  BY <1>1
<1>3. Sound(q) /\ Onward(d, q)
  <2>1. CASE e.action.kind = "unknown" \/ d.id[1] # e.action.kind
    <3>1. q = Doubted(d, n)
      BY <2>1 DEF Applied
    <3> QED BY <1>1, <1>2, <3>1, DoubtedSound
  <2>2. CASE ~(e.action.kind = "unknown" \/ d.id[1] # e.action.kind)
    <3> DEFINE moved == [d EXCEPT !.lastServerSeq = n]
    <3>1. q = IF LegacyIgnores(d, e) THEN AddResourceDiagnostic(moved)
              ELSE [moved EXCEPT !.applied = Append(@, n)]
      BY <2>2 DEF Applied, Reduced
    <3>2. [moved EXCEPT !.applied = Append(@, n)]
            = [d EXCEPT !.lastServerSeq = n, !.applied = Append(d.applied, n)]
      BY <1>1 DEF Sound, Resource
    <3>3. CASE LegacyIgnores(d, e)
      <4>1. q = AddResourceDiagnostic(moved)
        BY <3>1, <3>3
      <4> HIDE DEF q
      <4> QED BY <1>1, <1>2, <4>1, Ignored
    <3>4. CASE ~LegacyIgnores(d, e)
      <4>1. q = [d EXCEPT !.lastServerSeq = n, !.applied = Append(d.applied, n)]
        BY <3>1, <3>2, <3>4
      <4> HIDE DEF q
      <4> QED BY <1>1, <1>2, <4>1, OneMore
    <3> QED BY <3>3, <3>4
  <2> QED BY <2>1, <2>2
<1> HIDE DEF q
<1>4. Onward(r, q)
  BY <1>1, <1>3, OnwardTwice DEF Sound
<1> QED BY <1>3, <1>4 DEF q, d

-----------------------------------------------------------------------------
(* All the resources, and the intents.                                     *)

IsContext(c) == c = [resources |-> c.resources, requests |-> c.requests, intents |-> c.intents]

Listed(list) ==
  /\ list \in Seq(Resource) /\ DistinctIds(list)
  /\ \A i \in 1..Len(list) : Sound(list[i])

Asked(requests) ==
  DOMAIN requests \subseteq RequestId /\ \A x \in DOMAIN requests : requests[x] \in Method

Good(c) == IsContext(c) /\ Listed(c.resources) /\ Asked(c.requests) /\ c.intents \in Seq(Intent)

\* what was accepted stays so
Accepted(s, t) ==
  /\ Len(s) <= Len(t)
  /\ \A i \in 1..Len(s) : s[i].acceptedBy # None => t[i] = s[i]

\* what actions make of a context
Ahead(c, d) ==
  /\ Len(d.resources) = Len(c.resources)
  /\ \A i \in 1..Len(c.resources) : Onward(c.resources[i], d.resources[i])
  /\ Accepted(c.intents, d.intents)

\* what snapshots make of it
Anew(r) == r.applied = <<>> /\ r.lastServerSeq = r.fromSeq

Renewed(c, d) ==
  /\ Len(c.resources) <= Len(d.resources)
  /\ \A i \in 1..Len(c.resources) :
       d.resources[i] = c.resources[i] \/ Anew(d.resources[i])
  /\ d.intents = c.intents

\* One resource takes the place of another of the same id.
LEMMA PutListed ==
  ASSUME NEW list, Listed(list), NEW i \in 1..Len(list), NEW q, Sound(q), q.id = list[i].id,
         NEW new, new = [list EXCEPT ![i] = q]
  PROVE  /\ Listed(new) /\ Len(new) = Len(list) /\ new[i] = q
         /\ \A j \in 1..Len(list) : j # i => new[j] = list[j]
<1>1. /\ list \in Seq(Resource) /\ q \in Resource /\ DOMAIN list = 1..Len(list)
      /\ \A j \in 1..Len(list) : Sound(list[j])
      /\ \A j, k \in 1..Len(list) : list[j].id = list[k].id => j = k
  BY DEF Listed, Sound, DistinctIds
<1>2. /\ new \in Seq(Resource) /\ Len(new) = Len(list) /\ new[i] = q /\ DOMAIN new = 1..Len(list)
      /\ \A j \in 1..Len(list) : j # i => new[j] = list[j]
  BY <1>1
<1>3. \A j \in 1..Len(list) : Sound(new[j]) /\ new[j].id = list[j].id
  BY <1>1, <1>2
<1>4. Listed(new)
  BY <1>1, <1>2, <1>3 DEF Listed, DistinctIds
<1> QED BY <1>2, <1>4

\* A resource of a new id.
LEMMA AppendListed ==
  ASSUME NEW list, Listed(list), NEW q, Sound(q), q.id \notin Ids(list),
         NEW new, new = Append(list, q)
  PROVE  /\ Listed(new) /\ Len(new) = Len(list) + 1 /\ new[Len(list) + 1] = q
         /\ \A j \in 1..Len(list) : new[j] = list[j]
<1>1. /\ list \in Seq(Resource) /\ q \in Resource /\ Len(list) \in Nat /\ DOMAIN list = 1..Len(list)
      /\ \A j \in 1..Len(list) : Sound(list[j])
      /\ \A j, k \in 1..Len(list) : list[j].id = list[k].id => j = k
      /\ \A j \in 1..Len(list) : list[j].id # q.id
  <2>1. list \in Seq(Resource)
    BY DEF Listed
  <2>2. \A j \in 1..Len(list) : list[j].id # q.id
    BY <2>1 DEF Ids
  <2> QED BY <2>1, <2>2 DEF Listed, Sound, DistinctIds
<1>2. /\ new \in Seq(Resource) /\ Len(new) = Len(list) + 1 /\ new[Len(list) + 1] = q
      /\ DOMAIN new = 1..(Len(list) + 1)
      /\ \A j \in 1..Len(list) : new[j] = list[j]
  BY <1>1, AppendProperties
<1>3. \A j \in 1..(Len(list) + 1) : j # Len(list) + 1 => j \in 1..Len(list)
  BY <1>1
<1>4. \A j \in 1..(Len(list) + 1) : Sound(new[j])
  BY <1>1, <1>2, <1>3
<1>5. ASSUME NEW j \in 1..(Len(list) + 1), NEW k \in 1..(Len(list) + 1), new[j].id = new[k].id
      PROVE  j = k
  BY <1>1, <1>2, <1>3, <1>5
<1>6. Listed(new)
  BY <1>2, <1>4, <1>5 DEF Listed, DistinctIds
<1> QED BY <1>2, <1>6

LEMMA AcceptedTwice ==
  ASSUME NEW s \in Seq(Intent), NEW t \in Seq(Intent), NEW u \in Seq(Intent),
         Accepted(s, t), Accepted(t, u)
  PROVE  Accepted(s, u)
<1>1. Len(s) \in Nat /\ Len(t) \in Nat /\ Len(u) \in Nat
  OBVIOUS
<1> QED BY <1>1 DEF Accepted

LEMMA SameIsAccepted ==
  ASSUME NEW s \in Seq(Intent)
  PROVE  Accepted(s, s)
<1>1. Len(s) \in Nat
  OBVIOUS
<1> QED BY <1>1 DEF Accepted

\* An accepted intent was not accepted before.
LEMMA LinkAccepts ==
  ASSUME NEW s \in Seq(Intent), NEW e, e.serverSeq \in ServerSeq
  PROVE  LinkAcceptedIntent(s, e) \in Seq(Intent) /\ Accepted(s, LinkAcceptedIntent(s, e))
<1> DEFINE I == {i \in 1..Len(s) : s[i].clientSeq = e.origin /\ s[i].acceptedBy = None}
           i == IF e.origin = None THEN 0 ELSE IF I # {} THEN Min(I) ELSE 0
           t == LinkAcceptedIntent(s, e)
<1>1. t = IF i = 0 THEN s ELSE [s EXCEPT ![i].acceptedBy = e.serverSeq]
  BY DEF LinkAcceptedIntent, SelectInSeq
<1>2. i = 0 \/ i \in I
  <2>1. I \subseteq Nat
    OBVIOUS
  <2>2. I # {} => Min(I) \in I
    <3> HIDE DEF I
    <3> QED BY <2>1, LeastIsMember
  <2> QED BY <2>2
<1> HIDE DEF i, t
<1>3. CASE i = 0
  BY <1>1, <1>3, SameIsAccepted DEF t
<1>4. CASE i # 0
  <2>1. i \in 1..Len(s) /\ s[i].acceptedBy = None /\ s[i] \in Intent /\ Len(s) \in Nat
    BY <1>2, <1>4
  <2> DEFINE x == [s[i] EXCEPT !.acceptedBy = e.serverSeq]
  <2>2. x \in Intent
    BY <2>1 DEF Intent
  <2>3. t = [s EXCEPT ![i] = x]
    BY <1>1, <1>4
  <2> HIDE DEF x
  <2>4. /\ t \in Seq(Intent) /\ Len(t) = Len(s)
        /\ \A j \in 1..Len(s) : j # i => t[j] = s[j]
    BY <2>1, <2>2, <2>3
  <2>5. Accepted(s, t)
    BY <2>1, <2>4 DEF Accepted
  <2> QED BY <2>4, <2>5 DEF t
<1> QED BY <1>3, <1>4

-----------------------------------------------------------------------------
(* One snapshot, one envelope.                                             *)

\* A resource takes the place of the one of its id, or comes at the end.
LEMMA UpsertListed ==
  ASSUME NEW list, Listed(list), NEW r, Sound(r)
  PROVE  /\ Listed(Upsert(list, r)) /\ Len(list) <= Len(Upsert(list, r))
         /\ \A i \in 1..Len(list) : Upsert(list, r)[i] = list[i] \/ Upsert(list, r)[i] = r
<1> DEFINE put == Upsert(list, r)
<1>1. list \in Seq(Resource) /\ Len(list) \in Nat
  BY DEF Listed
<1>4. Listed(list) /\ Sound(r)
  OBVIOUS
<1>2. CASE r.id \in Ids(list)
  <2> DEFINE i == IndexOfId(list, r.id)
  <2>1. i \in 1..Len(list) /\ list[i].id = r.id
    BY <1>1, <1>2, IndexFound
  <2>2. put = [list EXCEPT ![i] = r]
    BY <1>2 DEF Upsert, ReplaceAt
  <2> HIDE DEF i, put
  <2>3. Listed(put)
    BY <1>4, <2>1, <2>2, PutListed
  <2>4. Len(put) = Len(list)
    BY <1>4, <2>1, <2>2, PutListed
  <2>5. \A j \in 1..Len(list) : j # i => put[j] = list[j]
    BY <1>4, <2>1, <2>2, PutListed
  <2>6. put[i] = r
    BY <1>4, <2>1, <2>2, PutListed
  <2> QED BY <1>1, <2>3, <2>4, <2>5, <2>6 DEF put
<1>3. CASE r.id \notin Ids(list)
  <2>1. put = Append(list, r)
    BY <1>3 DEF Upsert
  <2> HIDE DEF put
  <2>2. Listed(put)
    BY <1>3, <1>4, <2>1, AppendListed
  <2>3. Len(put) = Len(list) + 1
    BY <1>3, <1>4, <2>1, AppendListed
  <2>4. \A j \in 1..Len(list) : put[j] = list[j]
    BY <1>3, <1>4, <2>1, AppendListed
  <2> QED BY <1>1, <2>2, <2>3, <2>4 DEF put
<1> QED BY <1>2, <1>3

LEMMA InstallGood ==
  ASSUME NEW c, Good(c), NEW s \in Snapshot \cup {Malformed}
  PROVE  LET d == InstallSnapshot(c, s)
         IN  Good(d) /\ Renewed(c, d)
<1> DEFINE d == InstallSnapshot(c, s)
           list == c.resources
           r == [id |-> <<s.kind, s.uri>>, fromSeq |-> s.fromSeq, lastServerSeq |-> s.fromSeq,
                 applied |-> <<>>, legacy |-> s.legacy,
                 confidence |-> IF s.kind = "unknown" THEN "unknown" ELSE "complete",
                 diagnosed |-> s.kind = "unknown"]
           new == Upsert(list, r)
<1>1. Listed(list) /\ list \in Seq(Resource) /\ Len(list) \in Nat
  BY DEF Good, Listed
<1>2. CASE s = Malformed
  <2>1. d = c
    BY <1>2 DEF InstallSnapshot
  <2> QED BY <1>1, <2>1 DEF Renewed
<1>3. CASE s # Malformed
  <2>1. d = [c EXCEPT !.resources = new]
    BY <1>3 DEF InstallSnapshot
  <2>2. r.fromSeq \in Int
    BY <1>3, BoundAssumption DEF Snapshot, ServerSeq
  <2>3. r \in Resource
    <3>1. /\ s.uri \in Uri /\ s.kind \in SnapshotKind /\ s.fromSeq \in ServerSeq
          /\ s.legacy \in BOOLEAN
      BY <1>3 DEF Snapshot
    <3>2. (s.kind = "unknown") \in BOOLEAN
      OBVIOUS
    <3>3. <<>> \in Seq(ServerSeq) /\ <<s.kind, s.uri>> \in SnapshotKind \X Uri
      BY <3>1
    <3>4. (IF s.kind = "unknown" THEN "unknown" ELSE "complete") \in ReplayConfidence
      BY DEF ReplayConfidence
    <3> QED BY <3>1, <3>2, <3>3, <3>4 DEF Resource
  <2>4. /\ r.applied = <<>> /\ r.lastServerSeq = r.fromSeq
        /\ r.diagnosed <=> r.confidence # "complete"
    <3>1. r.diagnosed = (s.kind = "unknown")
      OBVIOUS
    <3> QED BY <3>1
  <2> HIDE DEF r
  <2>5. Sound(r) /\ Anew(r)
    <3>1. Contiguous(r)
      BY <2>2, <2>4 DEF Contiguous
    <3> QED BY <2>2, <2>3, <2>4, <3>1 DEF Sound, Increasing, Anew
  <2>6. /\ Listed(new) /\ Len(list) <= Len(new)
        /\ \A i \in 1..Len(list) : new[i] = list[i] \/ new[i] = r
    <3> HIDE DEF list
    <3> QED BY <1>1, <2>5, UpsertListed
  <2> HIDE DEF new
  <2>7. IsContext(d) /\ d.resources = new /\ d.requests = c.requests /\ d.intents = c.intents
    <3> HIDE DEF d
    <3> QED BY <2>1 DEF Good, IsContext
  <2> HIDE DEF d
  <2>8. Asked(c.requests) /\ c.intents \in Seq(Intent)
    BY DEF Good
  <2>9. Good(d)
    BY <2>6, <2>7, <2>8 DEF Good
  <2>10. \A i \in 1..Len(list) : d.resources[i] = list[i] \/ Anew(d.resources[i])
    BY <2>5, <2>6, <2>7
  <2>11. Renewed(c, d)
    BY <2>6, <2>7, <2>10 DEF Renewed
  <2> QED BY <2>9, <2>11 DEF d
<1> QED BY <1>2, <1>3

\* One resource is replaced by one that goes on from it.
LEMMA PutGood ==
  ASSUME NEW c, Good(c), NEW i \in 1..Len(c.resources),
         NEW q, Sound(q), Onward(c.resources[i], q),
         NEW s \in Seq(Intent), Accepted(c.intents, s),
         NEW d, IsContext(d), d.resources = [c.resources EXCEPT ![i] = q],
         d.requests = c.requests, d.intents = s
  PROVE  Good(d) /\ Ahead(c, d)
<1> DEFINE list == c.resources
           new == d.resources
<1>1. Listed(list) /\ q.id = list[i].id /\ \A j \in 1..Len(list) : list[j] \in Resource
  BY DEF Good, Onward, Listed, Sound
<1>2. /\ Listed(new) /\ Len(new) = Len(list) /\ new[i] = q
      /\ \A j \in 1..Len(list) : j # i => new[j] = list[j]
  BY <1>1, PutListed
<1>3. \A j \in 1..Len(list) : Onward(list[j], new[j])
  BY <1>1, <1>2, SameIsOnward
<1> QED BY <1>2, <1>3 DEF Good, Ahead

LEMMA StaysAhead ==
  ASSUME NEW c, Good(c)
  PROVE  Ahead(c, c)
<1>1. /\ c.intents \in Seq(Intent) /\ \A i \in 1..Len(c.resources) : c.resources[i] \in Resource
  BY DEF Good, Listed, Sound
<1> QED BY <1>1, SameIsOnward, SameIsAccepted DEF Ahead

LEMMA AheadTwice ==
  ASSUME NEW c, Good(c), NEW d, Good(d), NEW b, Good(b), Ahead(c, d), Ahead(d, b)
  PROVE  Ahead(c, b)
<1>1. /\ \A i \in 1..Len(c.resources) : c.resources[i] \in Resource
      /\ \A i \in 1..Len(d.resources) : d.resources[i] \in Resource
      /\ \A i \in 1..Len(b.resources) : b.resources[i] \in Resource
      /\ c.intents \in Seq(Intent) /\ d.intents \in Seq(Intent) /\ b.intents \in Seq(Intent)
  BY DEF Good, Listed, Sound
<1>2. Len(d.resources) = Len(c.resources) /\ Len(b.resources) = Len(c.resources)
  BY DEF Ahead
<1>3. Accepted(c.intents, b.intents)
  BY <1>1, AcceptedTwice DEF Ahead
<1>4. ASSUME NEW i \in 1..Len(c.resources) PROVE Onward(c.resources[i], b.resources[i])
  <2>1. Onward(c.resources[i], d.resources[i]) /\ Onward(d.resources[i], b.resources[i])
    BY <1>2 DEF Ahead
  <2>2. c.resources[i] \in Resource /\ d.resources[i] \in Resource /\ b.resources[i] \in Resource
    BY <1>1, <1>2
  <2> QED BY <2>1, <2>2, OnwardTwice
<1> QED BY <1>2, <1>3, <1>4 DEF Ahead

LEMMA RenewedTwice ==
  ASSUME NEW c, Good(c), NEW d, Good(d), NEW b, Good(b), Renewed(c, d), Renewed(d, b)
  PROVE  Renewed(c, b)
<1>1. Len(c.resources) \in Nat /\ Len(d.resources) \in Nat /\ Len(b.resources) \in Nat
  <2>1. c.resources \in Seq(Resource) /\ d.resources \in Seq(Resource) /\ b.resources \in Seq(Resource)
    BY DEF Good, Listed
  <2> QED BY <2>1
<1>2. \A i \in 1..Len(c.resources) : i \in 1..Len(d.resources)
  BY <1>1 DEF Renewed
<1>3. Len(c.resources) <= Len(b.resources)
  BY <1>1 DEF Renewed
<1> QED BY <1>2, <1>3 DEF Renewed

\* Where the resource of an envelope is.
LEMMA ResourceFound ==
  ASSUME NEW c, Good(c), NEW e
  PROVE  ResourceIndex(c, e) = 0 \/ ResourceIndex(c, e) \in 1..Len(c.resources)
<1> DEFINE list == c.resources
           id == <<e.action.kind, e.uri>>
<1>1. list \in Seq(Resource)
  BY DEF Good, Listed
<1>2. CASE id \in Ids(list)
  BY <1>1, <1>2, IndexFound DEF ResourceIndex
<1>3. CASE id \notin Ids(list)
  <2> DEFINE I == {i \in 1..Len(list) : list[i].id[2] = e.uri}
  <2>1. ResourceIndex(c, e) = IF I # {} THEN Min(I) ELSE 0
    BY <1>3 DEF ResourceIndex, SelectInSeq
  <2>2. I \subseteq Nat
    OBVIOUS
  <2>3. I # {} => Min(I) \in I
    <3> HIDE DEF I
    <3> QED BY <2>2, LeastIsMember
  <2>4. ResourceIndex(c, e) = 0 \/ ResourceIndex(c, e) \in I
    <3> HIDE DEF I
    <3> QED BY <2>1, <2>3
  <2> QED BY <2>4
<1> QED BY <1>2, <1>3

LEMMA EnvelopeGood ==
  ASSUME NEW c, Good(c), NEW e \in ActionEnvelope \cup {Malformed}
  PROVE  LET d == ApplyEnvelope(c, e)
         IN  Good(d) /\ Ahead(c, d)
<1> DEFINE d == ApplyEnvelope(c, e)
           i == IF e = Malformed THEN 0 ELSE ResourceIndex(c, e)
           r == c.resources[i]
           n == e.serverSeq
<1>1. i = 0 \/ (i \in 1..Len(c.resources) /\ e \in ActionEnvelope)
  BY ResourceFound
<1>2. c.intents \in Seq(Intent) /\ IsContext(c)
  BY DEF Good
<1>3. Accepted(c.intents, c.intents)
  BY <1>2, SameIsAccepted
<1>4. d = IF i = 0 THEN c
          ELSE IF e.rejected
          THEN [c EXCEPT !.resources[i] = AddResourceDiagnostic(r)]
          ELSE IF ~ShouldApplyServerSeq(r, n)
          THEN [c EXCEPT !.resources[i] = SeqChecked(r, n)]
          ELSE [c EXCEPT !.resources[i] = Applied(SeqChecked(r, n), e),
                         !.intents = LinkAcceptedIntent(@, e)]
  BY DEF ApplyEnvelope
<1> HIDE DEF d, i
<1>5. CASE i = 0
  BY <1>4, <1>5, StaysAhead DEF d
<1>6. ASSUME i # 0, NEW q, d = [c EXCEPT !.resources[i] = q], Sound(q), Onward(r, q)
      PROVE  Good(d) /\ Ahead(c, d)
  <2>1. /\ IsContext(d) /\ d.resources = [c.resources EXCEPT ![i] = q]
        /\ d.requests = c.requests /\ d.intents = c.intents
    BY <1>2, <1>6 DEF IsContext
  <2>2. i \in 1..Len(c.resources) /\ c.intents \in Seq(Intent)
    BY <1>1, <1>2, <1>6
  <2>3. Sound(q) /\ Onward(c.resources[i], q)
    BY <1>6
  <2> HIDE DEF r
  <2> QED BY <1>3, <2>1, <2>2, <2>3, PutGood
<1>7. i # 0 => Sound(r) /\ n \in ServerSeq
  BY <1>1 DEF Good, Listed, ActionEnvelope
<1>8. CASE i # 0 /\ e.rejected
  BY <1>4, <1>6, <1>7, <1>8, Diagnosed DEF d
<1>9. CASE i # 0 /\ ~e.rejected /\ ~ShouldApplyServerSeq(r, n)
  <2>1. Sound(SeqChecked(r, n)) /\ Onward(r, SeqChecked(r, n))
    BY <1>7, <1>9, Checked
  <2>2. d = [c EXCEPT !.resources[i] = SeqChecked(r, n)]
    BY <1>4, <1>9
  <2>3. Good(d) /\ Ahead(c, d)
    BY <1>6, <1>9, <2>1, <2>2
  <2> QED BY <2>3 DEF d
<1>10. CASE i # 0 /\ ~e.rejected /\ ShouldApplyServerSeq(r, n)
  <2> DEFINE q == Applied(SeqChecked(r, n), e)
             s == LinkAcceptedIntent(c.intents, e)
  <2>1. Sound(q) /\ Onward(r, q)
    BY <1>7, <1>10, AppliedSound DEF ShouldApplyServerSeq
  <2>2. s \in Seq(Intent) /\ Accepted(c.intents, s)
    BY <1>2, <1>7, <1>10, LinkAccepts
  <2>3. d = [c EXCEPT !.resources[i] = q, !.intents = LinkAcceptedIntent(@, e)]
    BY <1>4, <1>10
  <2>4. /\ IsContext(d) /\ d.resources = [c.resources EXCEPT ![i] = q]
        /\ d.requests = c.requests /\ d.intents = s
    <3> HIDE DEF q
    <3> QED BY <1>2, <2>3 DEF IsContext
  <2> HIDE DEF q, s
  <2>5. Good(d) /\ Ahead(c, d)
    BY <1>1, <1>10, <2>1, <2>2, <2>4, PutGood
  <2> QED BY <2>5 DEF d
<1> QED BY <1>5, <1>8, <1>9, <1>10

-----------------------------------------------------------------------------
(* The items of a response, one by one.                                    *)

Items(kind) == {Malformed} \cup IF kind = "snapshots" THEN Snapshot ELSE ActionEnvelope

Follows(kind, c, d) == IF kind = "snapshots" THEN Renewed(c, d) ELSE Ahead(c, d)

LEMMA SteppedGood ==
  ASSUME NEW kind \in {"snapshots", "actions"}, NEW c, Good(c), NEW x \in Items(kind)
  PROVE  Good(Stepped(kind, c, x)) /\ Follows(kind, c, Stepped(kind, c, x))
<1>1. CASE kind = "snapshots"
  <2>1. x \in Snapshot \cup {Malformed}
    BY <1>1 DEF Items
  <2> QED BY <1>1, <2>1, InstallGood DEF Stepped, Follows
<1>2. CASE kind = "actions"
  <2>1. x \in ActionEnvelope \cup {Malformed}
    BY <1>2 DEF Items
  <2> QED BY <1>2, <2>1, EnvelopeGood DEF Stepped, Follows
<1> QED BY <1>1, <1>2

LEMMA FollowsItself ==
  ASSUME NEW kind, NEW c, Good(c)
  PROVE  Follows(kind, c, c)
<1>1. Len(c.resources) \in Nat
  <2>1. c.resources \in Seq(Resource)
    BY DEF Good, Listed
  <2> QED BY <2>1
<1>2. Renewed(c, c)
  BY <1>1 DEF Renewed
<1> QED BY <1>2, StaysAhead DEF Follows

LEMMA FollowsTwice ==
  ASSUME NEW kind, NEW c, Good(c), NEW d, Good(d), NEW b, Good(b),
         Follows(kind, c, d), Follows(kind, d, b)
  PROVE  Follows(kind, c, b)
  BY AheadTwice, RenewedTwice DEF Follows

\* All along a run the contexts are good, and what came before is kept.
LEMMA RunGood ==
  ASSUME NEW kind \in {"snapshots", "actions"}, NEW c, Good(c), NEW xs, NEW k \in Nat, \A n \in 1..k : xs[n] \in Items(kind),
         NEW f, f[0] = c, \A n \in 1..k : f[n] = Stepped(kind, f[n - 1], xs[n])
  PROVE  Good(f[k]) /\ Follows(kind, c, f[k])
<1> DEFINE Fine == {n \in 0..k : Good(f[n]) /\ Follows(kind, c, f[n])}
<1>1. 0 \in Fine
  BY FollowsItself
<1>2. ASSUME NEW n \in 1..k, n - 1 \in Fine PROVE n \in Fine
  <2> DEFINE d == f[n - 1]
             b == f[n]
  <2>1. Good(d) /\ Follows(kind, c, d) /\ b = Stepped(kind, d, xs[n]) /\ xs[n] \in Items(kind)
    BY <1>2
  <2> HIDE DEF d, b
  <2>2. Good(b) /\ Follows(kind, d, b)
    BY <2>1, SteppedGood
  <2>3. Follows(kind, c, b)
    BY <2>1, <2>2, FollowsTwice
  <2>4. n \in 0..k
    OBVIOUS
  <2> QED BY <2>2, <2>3, <2>4 DEF b
<1>3. k \in 0..k
  OBVIOUS
<1>4. k \in Fine
  <2> HIDE DEF Fine
  <2> QED BY <1>1, <1>2, <1>3, UpTo
<1> QED BY <1>4

LEMMA InstalledGood ==
  ASSUME NEW c, Good(c), NEW xs \in Seq(Snapshot \cup {Malformed})
  PROVE  Good(InstallSnapshots(c, xs)) /\ Renewed(c, InstallSnapshots(c, xs))
<1> DEFINE k == Len(xs)
           body(f) == [n \in 0..k |-> IF n = 0 THEN c ELSE InstallSnapshot(f[n - 1], xs[n])]
           done == CHOOSE f : f = body(f)
<1>1. k \in Nat /\ \A n \in 1..k : xs[n] \in Items("snapshots")
  BY DEF Items
<1>2. InstallSnapshots(c, xs) = done[k]
  BY DEF InstallSnapshots
<1> HIDE DEF k
<1>3. PICK run : IsRun("snapshots", c, xs, run, k)
  BY <1>1, RunsExist
<1>4. run = body(run)
  <2>1. run = [n \in 0..k |-> run[n]]
    BY <1>3 DEF IsRun
  <2>2. run[0] = c /\ \A n \in 1..k : run[n] = Stepped("snapshots", run[n - 1], xs[n])
    BY <1>3 DEF IsRun
  <2>3. ASSUME NEW n \in 0..k
        PROVE  run[n] = IF n = 0 THEN c ELSE InstallSnapshot(run[n - 1], xs[n])
    <3>1. CASE n = 0
      BY <2>2, <3>1
    <3>2. CASE n # 0
      <4>1. n \in 1..k
        BY <1>1, <3>2
      <4>2. run[n] = Stepped("snapshots", run[n - 1], xs[n])
        BY <2>2, <4>1
      <4> QED BY <3>2, <4>2 DEF Stepped
    <3> QED BY <3>1, <3>2
  <2>4. \A n \in 0..k : run[n] = IF n = 0 THEN c ELSE InstallSnapshot(run[n - 1], xs[n])
    BY <2>3
  <2> QED BY <2>1, <2>4
<1>5. done = body(done)
  <2> HIDE DEF body
  <2> QED BY <1>4
<1> HIDE DEF done
<1>6. done[0] = c /\ \A n \in 1..k : done[n] = Stepped("snapshots", done[n - 1], xs[n])
  BY <1>1, <1>5 DEF Stepped
<1>7. Good(done[k]) /\ Follows("snapshots", c, done[k])
  <2> HIDE DEF body
  <2> QED BY <1>1, <1>6, RunGood
<1> QED BY <1>2, <1>7 DEF Follows

LEMMA EnvelopesGood ==
  ASSUME NEW c, Good(c), NEW xs \in Seq(ActionEnvelope \cup {Malformed})
  PROVE  Good(ApplyEnvelopes(c, xs)) /\ Ahead(c, ApplyEnvelopes(c, xs))
<1> DEFINE k == Len(xs)
           body(f) == [n \in 0..k |-> IF n = 0 THEN c ELSE ApplyEnvelope(f[n - 1], xs[n])]
           done == CHOOSE f : f = body(f)
<1>1. k \in Nat /\ \A n \in 1..k : xs[n] \in Items("actions")
  BY DEF Items
<1>2. ApplyEnvelopes(c, xs) = done[k]
  BY DEF ApplyEnvelopes
<1> HIDE DEF k
<1>3. PICK run : IsRun("actions", c, xs, run, k)
  BY <1>1, RunsExist
<1>4. run = body(run)
  <2>1. run = [n \in 0..k |-> run[n]]
    BY <1>3 DEF IsRun
  <2>2. run[0] = c /\ \A n \in 1..k : run[n] = Stepped("actions", run[n - 1], xs[n])
    BY <1>3 DEF IsRun
  <2>3. ASSUME NEW n \in 0..k
        PROVE  run[n] = IF n = 0 THEN c ELSE ApplyEnvelope(run[n - 1], xs[n])
    <3>1. CASE n = 0
      BY <2>2, <3>1
    <3>2. CASE n # 0
      <4>1. n \in 1..k
        BY <1>1, <3>2
      <4>2. run[n] = Stepped("actions", run[n - 1], xs[n])
        BY <2>2, <4>1
      <4> QED BY <3>2, <4>2 DEF Stepped
    <3> QED BY <3>1, <3>2
  <2>4. \A n \in 0..k : run[n] = IF n = 0 THEN c ELSE ApplyEnvelope(run[n - 1], xs[n])
    BY <2>3
  <2> QED BY <2>1, <2>4
<1>5. done = body(done)
  <2> HIDE DEF body
  <2> QED BY <1>4
<1> HIDE DEF done
<1>6. done[0] = c /\ \A n \in 1..k : done[n] = Stepped("actions", done[n - 1], xs[n])
  BY <1>1, <1>5 DEF Stepped
<1>7. Good(done[k]) /\ Follows("actions", c, done[k])
  <2> HIDE DEF body
  <2> QED BY <1>1, <1>6, RunGood
<1> QED BY <1>2, <1>7 DEF Follows

LEMMA ListOf ==
  ASSUME NEW S, NEW T, S \subseteq T, NEW n \in Nat, NEW list \in BoundedSeq(S, n)
  PROVE  list \in Seq(T)
<1>1. PICK m \in 0..n : list \in [1..m -> S]
  BY DEF BoundedSeq, SeqOf
<1>2. list \in [1..m -> T]
  BY <1>1
<1> QED BY <1>1, <1>2

-----------------------------------------------------------------------------
(* Events.                                                                 *)

LEMMA RequestGood ==
  ASSUME NEW c, Good(c), NEW id \in RequestId, NEW method \in Method,
         NEW d, d = [c EXCEPT !.requests =
                       [x \in DOMAIN @ \cup {id} |-> IF x = id THEN method ELSE @[x]]]
  PROVE  Good(d) /\ Ahead(c, d)
<1> DEFINE old == c.requests
           new == [x \in DOMAIN old \cup {id} |-> IF x = id THEN method ELSE old[x]]
<1>1. IsContext(c) /\ Listed(c.resources) /\ Asked(old) /\ c.intents \in Seq(Intent)
  BY DEF Good
<1>2. Asked(new)
  BY <1>1 DEF Asked
<1>3. d = [c EXCEPT !.requests = new]
  OBVIOUS
<1> HIDE DEF old, new
<1>4. IsContext(d) /\ d.resources = c.resources /\ d.requests = new /\ d.intents = c.intents
  BY <1>1, <1>3 DEF IsContext
<1>5. Good(d)
  BY <1>1, <1>2, <1>4 DEF Good
<1>6. Ahead(c, c)
  BY StaysAhead
<1>7. Ahead(c, d)
  BY <1>4, <1>6 DEF Ahead
<1> QED BY <1>5, <1>7

LEMMA DispatchGood ==
  ASSUME NEW c, Good(c), NEW n \in 1..MaxIntents,
         NEW d, d = [c EXCEPT !.intents =
                       Append(@, [clientSeq |-> n, acceptedBy |-> None])]
  PROVE  Good(d) /\ Ahead(c, d)
<1> DEFINE x == [clientSeq |-> n, acceptedBy |-> None]
           new == Append(c.intents, x)
<1>1. IsContext(c) /\ Listed(c.resources) /\ Asked(c.requests) /\ c.intents \in Seq(Intent)
  BY DEF Good
<1>2. x \in Intent
  BY DEF Intent
<1>3. d = [c EXCEPT !.intents = new]
  OBVIOUS
<1> HIDE DEF x
<1>4. /\ new \in Seq(Intent) /\ Len(c.intents) <= Len(new)
      /\ \A i \in 1..Len(c.intents) : new[i] = c.intents[i]
  BY <1>1, <1>2
<1> HIDE DEF new
<1>5. IsContext(d) /\ d.resources = c.resources /\ d.requests = c.requests /\ d.intents = new
  BY <1>1, <1>3 DEF IsContext
<1>6. Good(d)
  BY <1>1, <1>4, <1>5 DEF Good
<1>7. Accepted(c.intents, d.intents)
  BY <1>4, <1>5 DEF Accepted
<1>8. Ahead(c, c)
  BY StaysAhead
<1>9. Ahead(c, d)
  BY <1>5, <1>7, <1>8 DEF Ahead
<1> QED BY <1>6, <1>9

LEMMA InitGood == Init => Good(ctx)
<1> SUFFICES ASSUME Init PROVE Good(ctx)
  OBVIOUS
<1>1. ctx.resources = <<>> /\ ctx.requests = <<>> /\ ctx.intents = <<>> /\ IsContext(ctx)
  BY DEF Init, IsContext
<1>2. Listed(<<>>) /\ Asked(<<>>) /\ <<>> \in Seq(Intent)
  BY DEF Listed, Asked, DistinctIds
<1> QED BY <1>1, <1>2 DEF Good

\* A step keeps the context good, and either renews it or goes on from it.
LEMMA NextGood ==
  ASSUME Good(ctx), Next
  PROVE  Good(ctx') /\ (Renewed(ctx, ctx') \/ Ahead(ctx, ctx'))
<1>1. ASSUME NEW id \in RequestId, NEW method \in Method, Request(id, method)
      PROVE  Good(ctx') /\ Ahead(ctx, ctx')
  BY <1>1, RequestGood DEF Request
<1>2. ASSUME NEW id \in RequestId, NEW list \in BoundedSeq(Snapshot \cup {Malformed}, MaxPage),
             SnapshotsResponse(id, list)
      PROVE  Good(ctx') /\ Renewed(ctx, ctx')
  <2>1. list \in Seq(Snapshot \cup {Malformed})
    BY BoundAssumption, ListOf
  <2>2. ctx' = InstallSnapshots(ctx, list)
    BY <1>2 DEF SnapshotsResponse
  <2> QED BY <2>1, <2>2, InstalledGood
<1>3. ASSUME NEW id \in RequestId, NEW s \in Snapshot \cup {Malformed}, SubscribeResponse(id, s)
      PROVE  Good(ctx') /\ Renewed(ctx, ctx')
  BY <1>3, InstallGood DEF SubscribeResponse
<1>4. ASSUME NEW id \in RequestId, NEW list \in BoundedSeq(Replayed, MaxPage),
             ReplayResponse(id, list)
      PROVE  Good(ctx') /\ Ahead(ctx, ctx')
  <2>1. Replayed \subseteq ActionEnvelope \cup {Malformed}
    BY DEF Replayed
  <2>2. list \in Seq(ActionEnvelope \cup {Malformed})
    BY <2>1, BoundAssumption, ListOf
  <2>3. ctx' = ApplyEnvelopes(ctx, list)
    BY <1>4 DEF ReplayResponse
  <2> QED BY <2>2, <2>3, EnvelopesGood
<1>5. ASSUME NEW n \in 1..MaxIntents, DispatchAction(n)
      PROVE  Good(ctx') /\ Ahead(ctx, ctx')
  BY <1>5, DispatchGood DEF DispatchAction
<1>6. ASSUME NEW e \in ActionEnvelope, ServerAction(e)
      PROVE  Good(ctx') /\ Ahead(ctx, ctx')
  BY <1>6, EnvelopeGood DEF ServerAction
<1> QED BY <1>1, <1>2, <1>3, <1>4, <1>5, <1>6 DEF Next

LEMMA GoodAlways == Spec => []Good(ctx)
<1>1. Good(ctx) /\ [Next]_ctx => Good(ctx)'
  BY NextGood
<1> QED BY <1>1, InitGood, PTL DEF Spec

-----------------------------------------------------------------------------
(* What the answers say.                                                   *)

LEMMA GoodIsHonest == Good(ctx) => AnswersAreHonest
<1> SUFFICES ASSUME Good(ctx) PROVE AnswersAreHonest
  OBVIOUS
<1> DEFINE list == ctx.resources
<1>1. /\ list \in Seq(Resource) /\ DOMAIN list = 1..Len(list)
      /\ \A i \in 1..Len(list) : Sound(list[i])
  BY DEF Good, Listed
<1>2. TypeOK
  BY <1>1 DEF TypeOK, Good, Asked
<1>3. CompleteIsContiguous
  BY <1>1 DEF CompleteIsContiguous, Sound
<1>4. ASSUME NEW kind \in SnapshotKind, NEW uri \in Uri,
             AggregateConfidence(SelectedResource(kind, uri), TRUE) = "complete"
      PROVE  SelectedResource(kind, uri) # None /\ Contiguous(SelectedResource(kind, uri))
  <2> DEFINE r == SelectedResource(kind, uri)
             I == {i \in 1..Len(list) : list[i].id = <<kind, uri>>}
  <2>1. r # None /\ r.confidence = "complete"
    BY <1>4 DEF AggregateConfidence
  <2>2. r = IF I # {} THEN IF Min(I) = 0 THEN None ELSE list[Min(I)] ELSE None
    BY DEF SelectedResource, SelectInSeq
  <2>3. I # {} => Min(I) \in I
    <3>1. I \subseteq Nat
      OBVIOUS
    <3> HIDE DEF I
    <3> QED BY <3>1, LeastIsMember
  <2> HIDE DEF r
  <2>4. \E i \in 1..Len(list) : r = list[i]
    BY <2>1, <2>2, <2>3
  <2>5. Contiguous(r)
    BY <1>1, <2>1, <2>4 DEF Sound
  <2> QED BY <2>1, <2>5 DEF r
<1> QED BY <1>2, <1>3, <1>4 DEF AnswersAreHonest

\* For any resources and numbers: the replay is typed, what it calls complete is a snapshot and
\* every action since, in order and none missing, and so is the resource of an answer that
\* /api/state-at calls complete (AnswersAreHonest).
THEOREM AnswersHonest == Spec => []AnswersAreHonest
  BY GoodAlways, GoodIsHonest, PTL

-----------------------------------------------------------------------------
(* What a step keeps.                                                      *)

LEMMA GoodIsInOrder == Good(ctx) => AppliedOnceInOrder
  BY DEF Good, Listed, Sound, Increasing, AppliedOnceInOrder

\* NothingIsTakenBack, of a step from c to d
KeepsAll(c, d) ==
  /\ \A i \in DOMAIN c.resources :
       LET r == c.resources[i]
           q == d.resources[i]
       IN  \/ q.applied = <<>> /\ q.lastServerSeq = q.fromSeq
           \/ /\ r.confidence # "complete" => q.confidence # "complete"
              /\ r.diagnosed => q.diagnosed
              /\ IsPrefix(r.applied, q.applied)
              /\ r.lastServerSeq <= q.lastServerSeq
  /\ \A i \in DOMAIN c.intents :
       /\ i \in DOMAIN d.intents
       /\ c.intents[i].acceptedBy # None => d.intents[i] = c.intents[i]

LEMMA OnwardKeeps ==
  ASSUME NEW r \in Resource, NEW q \in Resource, Onward(r, q)
  PROVE  /\ r.confidence # "complete" => q.confidence # "complete"
         /\ r.diagnosed => q.diagnosed
         /\ IsPrefix(r.applied, q.applied)
         /\ r.lastServerSeq <= q.lastServerSeq
<1>1. r.applied \in Seq(ServerSeq) /\ q.applied \in Seq(ServerSeq)
  BY DEF Resource
<1>2. IsPrefix(r.applied, q.applied)
  BY <1>1, ExtendsIsPrefix DEF Onward
<1> QED BY <1>2 DEF Onward

LEMMA AcceptedKeeps ==
  ASSUME NEW s \in Seq(Intent), NEW t \in Seq(Intent), Accepted(s, t), NEW i \in DOMAIN s
  PROVE  i \in DOMAIN t /\ (s[i].acceptedBy # None => t[i] = s[i])
<1>1. Len(s) \in Nat /\ Len(t) \in Nat /\ i \in 1..Len(s)
  OBVIOUS
<1> QED BY <1>1 DEF Accepted

LEMMA AllKept ==
  ASSUME NEW c, Good(c), NEW d, Good(d), Renewed(c, d) \/ Ahead(c, d)
  PROVE  KeepsAll(c, d)
<1>1. /\ c.resources \in Seq(Resource) /\ d.resources \in Seq(Resource)
      /\ c.intents \in Seq(Intent) /\ d.intents \in Seq(Intent)
  BY DEF Good, Listed
<1>2. Accepted(c.intents, d.intents)
  BY <1>1, SameIsAccepted DEF Renewed, Ahead
<1>3. ASSUME NEW i \in DOMAIN c.intents
      PROVE  /\ i \in DOMAIN d.intents
             /\ c.intents[i].acceptedBy # None => d.intents[i] = c.intents[i]
  BY <1>1, <1>2, AcceptedKeeps
<1>4. ASSUME NEW i \in DOMAIN c.resources
      PROVE  LET r == c.resources[i]
                 q == d.resources[i]
             IN  \/ q.applied = <<>> /\ q.lastServerSeq = q.fromSeq
                 \/ /\ r.confidence # "complete" => q.confidence # "complete"
                    /\ r.diagnosed => q.diagnosed
                    /\ IsPrefix(r.applied, q.applied)
                    /\ r.lastServerSeq <= q.lastServerSeq
  <2> DEFINE r == c.resources[i]
             q == d.resources[i]
  <2>1. i \in 1..Len(c.resources) /\ Len(c.resources) \in Nat /\ Len(d.resources) \in Nat
    BY <1>1, <1>4
  <2>2. i \in 1..Len(d.resources)
    BY <2>1 DEF Renewed, Ahead
  <2>3. r \in Resource /\ q \in Resource
    BY <1>1, <2>1, <2>2
  <2>4. Anew(q) \/ Onward(r, q)
    BY <2>1, <2>3, SameIsOnward DEF Renewed, Ahead
  <2> HIDE DEF r, q
  <2>5. CASE Anew(q)
    BY <2>5 DEF Anew, r, q
  <2>6. CASE Onward(r, q)
    BY <2>3, <2>6, OnwardKeeps DEF r, q
  <2> QED BY <2>4, <2>5, <2>6
<1> QED BY <1>3, <1>4 DEF KeepsAll

\* For any resources and numbers, whatever the log repeats, reorders or skips: each action is
\* applied once and in its turn, and no event takes anything back (HistoryIsKept).
THEOREM HistoryKept == Spec => HistoryIsKept
<1>1. Good(ctx) /\ [Next]_ctx => [NothingIsTakenBack]_ctx
  <2> SUFFICES ASSUME Good(ctx), Next PROVE NothingIsTakenBack
    OBVIOUS
  <2>1. Good(ctx)' /\ (Renewed(ctx, ctx') \/ Ahead(ctx, ctx'))
    BY NextGood
  <2>2. KeepsAll(ctx, ctx')
    BY <2>1, AllKept
  <2> QED BY <2>2 DEF KeepsAll, NothingIsTakenBack
<1> QED BY <1>1, GoodAlways, GoodIsInOrder, PTL DEF Spec, HistoryIsKept

-----------------------------------------------------------------------------
(* Totals.                                                                 *)

\* r holds the totals of the first so many weights
Sums(ws, r, k) ==
  /\ r[0] = 0 /\ \A n \in 0..k : r[n] \in Nat
  /\ \A n \in 1..k : r[n] = r[n - 1] + ws[n]

\* The recursive function is such an r, and so is every r the same.
LEMMA TotalIsSum ==
  ASSUME NEW ws \in Seq(Nat)
  PROVE  \E r : Sums(ws, r, Len(ws)) /\ Total(ws) = r[Len(ws)]
<1> DEFINE k == Len(ws)
           body(f) == [n \in 0..k |-> IF n = 0 THEN 0 ELSE f[n - 1] + ws[n]]
           sum == CHOOSE f : f = body(f)
<1>1. k \in Nat /\ \A n \in 1..k : ws[n] \in Nat
  OBVIOUS
<1>2. Total(ws) = sum[k]
  BY DEF Total
<1> HIDE DEF k
<1>3. PICK run : IsRun("weights", 0, ws, run, k)
  BY <1>1, RunsExist
<1>4. run = body(run)
  <2>1. run = [n \in 0..k |-> run[n]]
    BY <1>3 DEF IsRun
  <2>2. run[0] = 0 /\ \A n \in 1..k : run[n] = Stepped("weights", run[n - 1], ws[n])
    BY <1>3 DEF IsRun
  <2>3. ASSUME NEW n \in 0..k
        PROVE  run[n] = IF n = 0 THEN 0 ELSE run[n - 1] + ws[n]
    <3>1. CASE n = 0
      BY <2>2, <3>1
    <3>2. CASE n # 0
      <4>1. n \in 1..k
        BY <1>1, <3>2
      <4>2. run[n] = Stepped("weights", run[n - 1], ws[n])
        BY <2>2, <4>1
      <4> QED BY <3>2, <4>2 DEF Stepped
    <3> QED BY <3>1, <3>2
  <2>4. \A n \in 0..k : run[n] = IF n = 0 THEN 0 ELSE run[n - 1] + ws[n]
    BY <2>3
  <2> QED BY <2>1, <2>4
<1>5. sum = body(sum)
  <2> HIDE DEF body
  <2> QED BY <1>4
<1> HIDE DEF sum
<1>6. sum[0] = 0 /\ \A n \in 1..k : sum[n] = sum[n - 1] + ws[n]
  BY <1>1, <1>5
<1> DEFINE Fine == {n \in 0..k : sum[n] \in Nat}
<1>7. 0 \in Fine
  BY <1>1, <1>6
<1>8. ASSUME NEW n \in 1..k, n - 1 \in Fine PROVE n \in Fine
  <2>1. sum[n] = sum[n - 1] + ws[n] /\ ws[n] \in Nat /\ sum[n - 1] \in Nat /\ n \in 0..k
    BY <1>1, <1>6, <1>8
  <2> QED BY <2>1
<1>9. \A n \in 0..k : n \in Fine
  <2> HIDE DEF Fine
  <2> QED BY <1>1, <1>7, <1>8, UpTo
<1>10. Sums(ws, sum, k)
  BY <1>6, <1>9 DEF Sums
<1> QED BY <1>2, <1>10 DEF k

LEMMA SumsAgree ==
  ASSUME NEW ws \in Seq(Nat), NEW r, Sums(ws, r, Len(ws))
  PROVE  Total(ws) = r[Len(ws)]
<1> DEFINE k == Len(ws)
<1>1. PICK q : Sums(ws, q, k) /\ Total(ws) = q[k]
  BY TotalIsSum
<1>2. k \in Nat /\ Sums(ws, r, k)
  OBVIOUS
<1> HIDE DEF k
<1> DEFINE Same == {n \in 0..k : q[n] = r[n]}
<1>3. 0 \in Same
  BY <1>1, <1>2 DEF Sums
<1>4. ASSUME NEW n \in 1..k, n - 1 \in Same PROVE n \in Same
  <2>1. n \in 0..k /\ q[n - 1] = r[n - 1]
    BY <1>4
  <2>2. q[n] = q[n - 1] + ws[n] /\ r[n] = r[n - 1] + ws[n]
    BY <1>1, <1>2 DEF Sums
  <2> QED BY <2>1, <2>2
<1>5. k \in 0..k
  BY <1>2
<1>6. k \in Same
  <2> HIDE DEF Same
  <2> QED BY <1>2, <1>3, <1>4, <1>5, UpTo
<1> QED BY <1>1, <1>6 DEF k

LEMMA TotalType == ASSUME NEW ws \in Seq(Nat) PROVE Total(ws) \in Nat
<1>1. PICK r : Sums(ws, r, Len(ws)) /\ Total(ws) = r[Len(ws)]
  BY TotalIsSum
<1>2. Len(ws) \in 0..Len(ws)
  OBVIOUS
<1> QED BY <1>1, <1>2 DEF Sums

LEMMA TotalOfNone == Total(<<>>) = 0
<1>1. <<>> \in Seq(Nat) /\ Len(<<>>) = 0
  OBVIOUS
<1>2. PICK r : Sums(<<>>, r, Len(<<>>)) /\ Total(<<>>) = r[Len(<<>>)]
  BY <1>1, TotalIsSum
<1> QED BY <1>1, <1>2 DEF Sums

\* One weight more at the end.
LEMMA TotalOfMore ==
  ASSUME NEW ws \in Seq(Nat), NEW vs \in Seq(Nat), Len(vs) = Len(ws) + 1,
         \A n \in 1..Len(ws) : vs[n] = ws[n]
  PROVE  Total(vs) = Total(ws) + vs[Len(vs)]
<1> DEFINE k == Len(ws)
<1>1. PICK r : Sums(ws, r, k) /\ Total(ws) = r[k]
  BY TotalIsSum
<1>2. k \in Nat /\ Len(vs) = k + 1 /\ vs[k + 1] \in Nat /\ \A n \in 1..k : vs[n] = ws[n]
  OBVIOUS
<1> HIDE DEF k
<1> DEFINE s == [n \in 0..(k + 1) |-> IF n = k + 1 THEN r[k] + vs[k + 1] ELSE r[n]]
<1>3. /\ s[k + 1] = r[k] + vs[k + 1]
      /\ \A n \in 0..k : s[n] = r[n]
  BY <1>2
<1> HIDE DEF s
<1>4. r[k] \in Nat
  BY <1>1, <1>2 DEF Sums
<1>5. ASSUME NEW n \in 0..(k + 1) PROVE s[n] \in Nat
  <2>1. CASE n = k + 1
    BY <1>2, <1>3, <1>4, <2>1
  <2>2. CASE n # k + 1
    <3>1. n \in 0..k
      BY <1>2, <2>2
    <3> QED BY <1>1, <1>3, <3>1 DEF Sums
  <2> QED BY <2>1, <2>2
<1>6. ASSUME NEW n \in 1..(k + 1) PROVE s[n] = s[n - 1] + vs[n]
  <2>1. CASE n = k + 1
    <3>1. n - 1 = k /\ k \in 0..k
      BY <1>2, <2>1
    <3>2. s[n - 1] = r[k]
      BY <1>3, <3>1
    <3> QED BY <1>3, <2>1, <3>2
  <2>2. CASE n # k + 1
    <3>1. n \in 1..k /\ n \in 0..k /\ n - 1 \in 0..k
      BY <1>2, <2>2
    <3>2. r[n] = r[n - 1] + ws[n]
      BY <1>1, <3>1 DEF Sums
    <3> QED BY <1>2, <1>3, <3>1, <3>2
  <2> QED BY <2>1, <2>2
<1>7. s[0] = 0
  BY <1>1, <1>2, <1>3 DEF Sums
<1>8. Sums(vs, s, k + 1)
  BY <1>5, <1>6, <1>7 DEF Sums
<1>9. Total(vs) = s[k + 1]
  BY <1>2, <1>8, SumsAgree
<1> QED BY <1>1, <1>2, <1>3, <1>9

\* A weight where there was none.
LEMMA TotalWith ==
  ASSUME NEW ws \in Seq(Nat), NEW vs \in Seq(Nat), Len(vs) = Len(ws), NEW i \in 1..Len(ws),
         ws[i] = 0, \A n \in 1..Len(ws) : n # i => vs[n] = ws[n]
  PROVE  Total(vs) = Total(ws) + vs[i]
<1> DEFINE k == Len(ws)
<1>1. PICK r : Sums(ws, r, k) /\ Total(ws) = r[k]
  BY TotalIsSum
<1>2. /\ k \in Nat /\ Len(vs) = k /\ i \in 1..k /\ vs[i] \in Nat /\ ws[i] = 0
      /\ \A n \in 1..k : n # i => vs[n] = ws[n]
      /\ \A n \in 1..k : ws[n] \in Nat
  OBVIOUS
<1> HIDE DEF k
<1> DEFINE s == [n \in 0..k |-> IF n < i THEN r[n] ELSE r[n] + vs[i]]
<1>3. \A n \in 0..k : s[n] = IF n < i THEN r[n] ELSE r[n] + vs[i]
  OBVIOUS
<1> HIDE DEF s
<1>4. \A n \in 0..k : r[n] \in Nat
  BY <1>1 DEF Sums
<1>5. ASSUME NEW n \in 0..k PROVE s[n] \in Nat
  <2>1. r[n] \in Nat /\ vs[i] \in Nat
    BY <1>2, <1>4
  <2>2. CASE n < i
    BY <1>3, <2>1, <2>2
  <2>3. CASE ~(n < i)
    BY <1>3, <2>1, <2>3
  <2> QED BY <2>2, <2>3
<1>6. ASSUME NEW n \in 1..k PROVE s[n] = s[n - 1] + vs[n]
  <2>1. n \in 0..k /\ n - 1 \in 0..k /\ n \in Int /\ i \in Int
    BY <1>2
  <2>2. r[n] = r[n - 1] + ws[n] /\ r[n - 1] \in Nat /\ ws[n] \in Nat
    BY <1>1, <1>2, <1>4, <2>1 DEF Sums
  <2>3. CASE n < i
    BY <1>2, <1>3, <2>1, <2>2, <2>3
  <2>4. CASE n = i
    BY <1>2, <1>3, <2>1, <2>2, <2>4
  <2>5. CASE n > i
    <3>1. ~(n < i) /\ ~(n - 1 < i) /\ n # i
      BY <2>1, <2>5
    <3>2. s[n] = r[n] + vs[i] /\ s[n - 1] = r[n - 1] + vs[i]
      BY <1>3, <2>1, <3>1
    <3>3. vs[n] = ws[n] /\ vs[i] \in Nat
      BY <1>2, <3>1
    <3> QED BY <2>2, <3>2, <3>3
  <2> QED BY <2>1, <2>3, <2>4, <2>5
<1>7. s[0] = 0
  BY <1>1, <1>2, <1>3 DEF Sums
<1>8. Sums(vs, s, k)
  BY <1>5, <1>6, <1>7 DEF Sums
<1>9. Total(vs) = s[k]
  BY <1>2, <1>8, SumsAgree
<1> QED BY <1>1, <1>2, <1>3, <1>9

\* A weight taken out.
LEMMA TotalWithout ==
  ASSUME NEW ws \in Seq(Nat), NEW vs \in Seq(Nat), NEW i \in 1..Len(ws),
         Len(vs) = Len(ws) - 1,
         \A n \in 1..Len(vs) : vs[n] = IF n < i THEN ws[n] ELSE ws[n + 1]
  PROVE  Total(ws) = Total(vs) + ws[i]
<1> DEFINE k == Len(vs)
<1>1. PICK r : Sums(vs, r, k) /\ Total(vs) = r[k]
  BY TotalIsSum
<1>2. /\ k \in Nat /\ Len(ws) = k + 1 /\ i \in 1..(k + 1)
      /\ \A n \in 1..k : vs[n] = IF n < i THEN ws[n] ELSE ws[n + 1]
      /\ \A n \in 1..(k + 1) : ws[n] \in Nat
  OBVIOUS
<1> HIDE DEF k
<1> DEFINE s == [n \in 0..(k + 1) |-> IF n < i THEN r[n] ELSE r[n - 1] + ws[i]]
<1>3. \A n \in 0..(k + 1) : s[n] = IF n < i THEN r[n] ELSE r[n - 1] + ws[i]
  OBVIOUS
<1> HIDE DEF s
<1>4. \A n \in 0..k : r[n] \in Nat
  BY <1>1 DEF Sums
<1>5. ASSUME NEW n \in 0..(k + 1) PROVE s[n] \in Nat
  <2>1. CASE n < i
    <3>1. n \in 0..k
      BY <1>2, <2>1
    <3> QED BY <1>3, <1>4, <2>1, <3>1
  <2>2. CASE ~(n < i)
    <3>1. n - 1 \in 0..k
      BY <1>2, <2>2
    <3>2. r[n - 1] \in Nat /\ ws[i] \in Nat
      BY <1>2, <1>4, <3>1
    <3> QED BY <1>3, <2>2, <3>2
  <2> QED BY <2>1, <2>2
<1>6. ASSUME NEW n \in 1..(k + 1) PROVE s[n] = s[n - 1] + ws[n]
  <2>1. n \in 0..(k + 1) /\ n - 1 \in 0..(k + 1) /\ n - 1 \in 0..k /\ n \in Int /\ i \in Int
    BY <1>2
  <2>2. CASE n < i
    <3>1. n \in 1..k /\ n - 1 < i
      BY <1>2, <2>2
    <3>2. r[n] = r[n - 1] + vs[n] /\ vs[n] = ws[n]
      BY <1>1, <1>2, <2>2, <3>1 DEF Sums
    <3> QED BY <1>3, <2>1, <2>2, <3>1, <3>2
  <2>3. CASE n = i
    <3>1. n - 1 < i
      BY <2>1, <2>3
    <3> QED BY <1>3, <2>1, <2>3, <3>1
  <2>4. CASE n > i
    <3> DEFINE m == n - 1
    <3>1. m \in 1..k /\ ~(m < i) /\ ~(n < i) /\ m + 1 = n /\ m - 1 \in 0..k
      BY <1>2, <2>1, <2>4
    <3>2. r[m] = r[m - 1] + vs[m] /\ vs[m] = ws[n]
      BY <1>1, <1>2, <3>1 DEF Sums
    <3>3. s[n] = r[m] + ws[i] /\ s[m] = r[m - 1] + ws[i]
      BY <1>3, <2>1, <3>1
    <3>4. r[m - 1] \in Nat /\ ws[n] \in Nat /\ ws[i] \in Nat
      BY <1>2, <1>4, <3>1
    <3> HIDE DEF m
    <3>5. s[n] = s[m] + ws[n]
      BY <3>2, <3>3, <3>4
    <3> QED BY <3>5 DEF m
  <2> QED BY <2>1, <2>2, <2>3, <2>4
<1>7. s[0] = 0
  <2>1. 0 \in 0..(k + 1) /\ 0 < i
    BY <1>2
  <2> QED BY <1>1, <1>3, <2>1 DEF Sums
<1>8. Sums(ws, s, k + 1)
  BY <1>5, <1>6, <1>7 DEF Sums
<1>9. Total(ws) = s[k + 1]
  BY <1>2, <1>8, SumsAgree
<1>10. s[k + 1] = r[k] + ws[i]
  <2>1. k + 1 \in 0..(k + 1) /\ ~(k + 1 < i) /\ (k + 1) - 1 = k
    BY <1>2
  <2> QED BY <1>3, <2>1
<1> QED BY <1>1, <1>9, <1>10

-----------------------------------------------------------------------------
(* The texts kept.                                                         *)

EventRecord == [file : Nat, at : Nat, hit : BOOLEAN, bytes : TextBytes]

Sizes(st, cached) ==
  [i \in 1..Len(st) |-> IF i \in DOMAIN cached THEN cached[i].bytes ELSE 0]

\* what t keeps are texts of events of st, counted and within the limit
TextsOf(st, t) ==
  /\ DOMAIN t.cached \subseteq 1..Len(st)
  /\ \A i \in DOMAIN t.cached : t.cached[i] = st[i]
  /\ t.bytes = Total(Sizes(st, t.cached)) /\ t.bytes <= maxCachedTextBytes

LEMMA SizesType ==
  ASSUME NEW st \in Seq(EventRecord), NEW t, TextsOf(st, t)
  PROVE  /\ Sizes(st, t.cached) \in Seq(Nat)
         /\ Len(Sizes(st, t.cached)) = Len(st)
<1> DEFINE f == Sizes(st, t.cached)
<1>1. f = [i \in 1..Len(st) |-> f[i]] /\ Len(st) \in Nat
  BY DEF Sizes
<1>2. ASSUME NEW i \in 1..Len(st) PROVE f[i] \in Nat
  <2>1. f[i] = IF i \in DOMAIN t.cached THEN t.cached[i].bytes ELSE 0
    BY DEF Sizes
  <2>2. CASE i \in DOMAIN t.cached
    <3>1. t.cached[i] = st[i] /\ st[i] \in EventRecord
      BY <2>2 DEF TextsOf
    <3> QED BY <2>1, <2>2, <3>1 DEF EventRecord, TextBytes
  <2>3. CASE i \notin DOMAIN t.cached
    BY <2>1, <2>3
  <2> QED BY <2>2, <2>3
<1> HIDE DEF f
<1> QED BY <1>1, <1>2 DEF f

LEMMA NoTextsOf == ASSUME NEW st, Len(st) = 0 PROVE TextsOf(st, NoTexts)
<1>1. Sizes(st, <<>>) = <<>>
  BY DEF Sizes
<1>2. NoTexts.cached = <<>> /\ NoTexts.bytes = 0 /\ DOMAIN <<>> = {}
  BY DEF NoTexts
<1>3. 0 <= maxCachedTextBytes
  BY LimitsAssumption
<1> QED BY <1>1, <1>2, <1>3, TotalOfNone DEF TextsOf

LEMMA TextForKeeps ==
  ASSUME store \in Seq(EventRecord), NEW t, TextsOf(store, t), NEW i \in 1..Len(store)
  PROVE  TextsOf(store, textFor(t, i))
<1> DEFINE u == textFor(t, i)
<1>1. CASE ~(i \notin DOMAIN t.cached /\ store[i].bytes <= maxCachedTextBytes - t.bytes)
  <2>1. u = t
    BY <1>1 DEF textFor
  <2> QED BY <2>1
<1>2. CASE i \notin DOMAIN t.cached /\ store[i].bytes <= maxCachedTextBytes - t.bytes
  <2> DEFINE D == DOMAIN t.cached \cup {i}
             c == [n \in D |-> IF n = i THEN store[i] ELSE t.cached[n]]
  <2>1. u.cached = c /\ u.bytes = t.bytes + store[i].bytes
    BY <1>2 DEF textFor
  <2>2. DOMAIN c = D /\ c[i] = store[i] /\ \A n \in DOMAIN t.cached : c[n] = t.cached[n]
    BY <1>2
  <2> HIDE DEF u, c
  <2>3. DOMAIN c \subseteq 1..Len(store) /\ \A n \in DOMAIN c : c[n] = store[n]
    BY <2>2 DEF TextsOf
  <2> DEFINE ws == Sizes(store, t.cached)
             vs == Sizes(store, c)
  <2>4. ws \in Seq(Nat) /\ Len(ws) = Len(store)
    BY SizesType
  <2>5. store[i].bytes \in Nat
    <3>1. store[i] \in EventRecord
      OBVIOUS
    <3> QED BY <3>1 DEF EventRecord, TextBytes
  <2>6. vs[i] = store[i].bytes /\ ws[i] = 0
    BY <1>2, <2>2 DEF Sizes
  <2>7. ASSUME NEW n \in 1..Len(ws), n # i PROVE vs[n] = ws[n]
    <3>1. n \in DOMAIN c <=> n \in DOMAIN t.cached
      BY <2>2, <2>7
    <3>2. n \in 1..Len(store)
      BY <2>4
    <3> QED BY <2>2, <3>1, <3>2 DEF Sizes
  <2>8. vs \in Seq(Nat) /\ Len(vs) = Len(ws)
    <3>1. \A n \in 1..Len(store) : vs[n] \in Nat
      <4>1. \A n \in 1..Len(store) : ws[n] \in Nat
        BY <2>4
      <4> QED BY <2>4, <2>5, <2>6, <2>7, <4>1
    <3>2. vs = [n \in 1..Len(store) |-> vs[n]] /\ Len(store) \in Nat
      BY DEF Sizes
    <3> HIDE DEF vs
    <3> QED BY <2>4, <3>1, <3>2
  <2> HIDE DEF vs, ws
  <2>9. Total(vs) = Total(ws) + vs[i]
    BY <2>4, <2>6, <2>7, <2>8, TotalWith
  <2>10. t.bytes = Total(ws) /\ t.bytes <= maxCachedTextBytes
    BY DEF TextsOf, ws
  <2>11. Total(ws) \in Nat /\ maxCachedTextBytes \in Nat
    BY <2>4, TotalType, LimitsAssumption
  <2>12. u.bytes = Total(vs) /\ u.bytes <= maxCachedTextBytes
    BY <1>2, <2>1, <2>5, <2>6, <2>9, <2>10, <2>11
  <2> QED BY <2>1, <2>3, <2>12 DEF TextsOf, u, vs
<1> QED BY <1>1, <1>2

LEMMA TextsSurvive ==
  ASSUME NEW st \in Seq(EventRecord), NEW e \in EventRecord, NEW t, TextsOf(st, t)
  PROVE  TextsOf(Append(st, e), t)
<1> DEFINE more == Append(st, e)
           ws == Sizes(st, t.cached)
           vs == Sizes(more, t.cached)
           k == Len(st)
<1>1. /\ k \in Nat /\ Len(more) = k + 1 /\ \A n \in 1..k : more[n] = st[n]
  OBVIOUS
<1>2. ws \in Seq(Nat) /\ Len(ws) = k
  BY SizesType
<1>3. k + 1 \notin DOMAIN t.cached
  BY <1>1 DEF TextsOf
<1> HIDE DEF k, more
<1>4. vs = [n \in 1..(k + 1) |-> vs[n]]
  BY <1>1 DEF Sizes
<1>5. vs[k + 1] = 0
  BY <1>1, <1>3 DEF Sizes
<1>6. \A n \in 1..k : vs[n] = ws[n]
  BY <1>1 DEF Sizes, k
<1> HIDE DEF vs, ws
<1>7. vs \in Seq(Nat) /\ Len(vs) = k + 1
  <2>1. \A n \in 1..k : ws[n] \in Nat
    BY <1>2
  <2>2. \A n \in 1..(k + 1) : vs[n] \in Nat
    BY <1>1, <1>5, <1>6, <2>1
  <2> QED BY <1>1, <1>4, <2>2
<1>8. Total(vs) = Total(ws)
  <2>1. Total(vs) = Total(ws) + vs[Len(vs)]
    BY <1>2, <1>6, <1>7, TotalOfMore
  <2> QED BY <1>2, <1>5, <1>7, <2>1, TotalType
<1>9. DOMAIN t.cached \subseteq 1..k
  BY DEF TextsOf, k
<1>10. DOMAIN t.cached \subseteq 1..Len(more)
  BY <1>1, <1>9
<1>11. \A n \in DOMAIN t.cached : t.cached[n] = more[n]
  <2>1. \A n \in DOMAIN t.cached : t.cached[n] = st[n]
    BY DEF TextsOf
  <2> QED BY <1>1, <1>9, <2>1
<1>12. t.bytes = Total(ws) /\ t.bytes <= maxCachedTextBytes
  BY DEF TextsOf, ws
<1> QED BY <1>8, <1>10, <1>11, <1>12 DEF TextsOf, vs, more

-----------------------------------------------------------------------------
(* Searches.                                                               *)

\* m is the matches among the events before next, all of them and in order
Scanned(m, next) ==
  /\ m \in Seq(Nat) /\ Len(m) <= limit
  /\ \A j, k \in DOMAIN m : j < k => m[j] < m[k]
  /\ \A j \in DOMAIN m : m[j] \in 1..(next - 1) /\ store[m[j]].hit
  /\ \A i \in 1..(next - 1) : store[i].hit => i \in ToSet(m)

\* where the turns of a loop have got to once event k was looked at
Reached(t, k) ==
  /\ TextsOf(store, t.kept)
  /\ t.stop \in {"none", "yield", "full"}
  /\ t.stop # "full" => t.next \in 1..(k + 1) /\ Scanned(t.matches, t.next)
  /\ t.stop = "none" => t.next = k + 1
  /\ t.stop = "full" =>
       \E p \in 1..k : /\ Scanned(t.matches, p)
                       /\ store[p].hit /\ Len(t.matches) = limit

LEMMA NothingScanned == Scanned(<<>>, 1)
<1>1. <<>> \in Seq(Nat) /\ Len(<<>>) = 0 /\ DOMAIN <<>> = {} /\ 0 <= limit
  BY LimitsAssumption
<1>2. 1..(1 - 1) = {}
  OBVIOUS
<1> QED BY <1>1, <1>2 DEF Scanned

\* A match more.
LEMMA ScannedMore ==
  ASSUME NEW m, NEW next \in Nat, 1 <= next, Scanned(m, next),
         store[next].hit, Len(m) < limit
  PROVE  Scanned(Append(m, next), next + 1)
<1> DEFINE k == Len(m)
           v == Append(m, next)
<1>1. m \in Seq(Nat) /\ k \in Nat /\ DOMAIN m = 1..k /\ limit \in Nat
  BY LimitsAssumption DEF Scanned
<1>2. /\ v \in Seq(Nat) /\ Len(v) = k + 1 /\ DOMAIN v = 1..(k + 1)
      /\ v[k + 1] = next /\ \A j \in 1..k : v[j] = m[j]
  BY <1>1
<1>3. /\ \A i, j \in 1..k : i < j => m[i] < m[j]
      /\ \A j \in 1..k : m[j] \in 1..(next - 1) /\ store[m[j]].hit
      /\ \A i \in 1..(next - 1) : store[i].hit => i \in ToSet(m)
  BY <1>1 DEF Scanned
<1>4. k < limit
  OBVIOUS
<1> HIDE DEF k, v
<1>5. Len(v) <= limit
  BY <1>1, <1>2, <1>4
<1>6. ASSUME NEW i \in 1..(k + 1), NEW j \in 1..(k + 1), i < j PROVE v[i] < v[j]
  <2>1. i \in 1..k
    BY <1>1, <1>6
  <2>2. CASE j = k + 1
    BY <1>2, <1>3, <2>1, <2>2
  <2>3. CASE j # k + 1
    <3>1. j \in 1..k
      BY <1>1, <2>3
    <3> QED BY <1>2, <1>3, <1>6, <2>1, <3>1
  <2> QED BY <2>2, <2>3
<1>7. ASSUME NEW j \in 1..(k + 1) PROVE v[j] \in 1..(next + 1 - 1) /\ store[v[j]].hit
  <2>1. CASE j = k + 1
    BY <1>2, <2>1
  <2>2. CASE j # k + 1
    <3>1. j \in 1..k
      BY <1>1, <2>2
    <3> QED BY <1>2, <1>3, <3>1
  <2> QED BY <2>1, <2>2
<1>8. ASSUME NEW i \in 1..(next + 1 - 1), store[i].hit PROVE i \in ToSet(v)
  <2>1. CASE i = next
    <3>1. k + 1 \in DOMAIN v /\ v[k + 1] = i
      BY <1>1, <1>2, <2>1
    <3> QED BY <3>1 DEF ToSet
  <2>2. CASE i # next
    <3>1. i \in ToSet(m)
      <4>1. i \in 1..(next - 1)
        BY <2>2
      <4> QED BY <1>3, <1>8, <4>1
    <3>2. PICK j \in 1..k : m[j] = i
      BY <1>1, <3>1 DEF ToSet
    <3>3. j \in DOMAIN v /\ v[j] = i
      BY <1>1, <1>2, <3>2
    <3> QED BY <3>3 DEF ToSet
  <2> QED BY <2>1, <2>2
<1>9. Scanned(v, next + 1)
  BY <1>2, <1>5, <1>6, <1>7, <1>8 DEF Scanned
<1> QED BY <1>9 DEF v

\* An event that does not match.
LEMMA ScannedPast ==
  ASSUME NEW m, NEW next \in Nat, 1 <= next, Scanned(m, next), ~store[next].hit
  PROVE  Scanned(m, next + 1)
<1>1. /\ m \in Seq(Nat) /\ Len(m) <= limit
      /\ \A j, k \in DOMAIN m : j < k => m[j] < m[k]
  BY DEF Scanned
<1>2. ASSUME NEW j \in DOMAIN m PROVE m[j] \in 1..(next + 1 - 1) /\ store[m[j]].hit
  <2>1. m[j] \in 1..(next - 1) /\ store[m[j]].hit
    BY DEF Scanned
  <2> QED BY <2>1
<1>3. ASSUME NEW i \in 1..(next + 1 - 1), store[i].hit PROVE i \in ToSet(m)
  <2>1. i # next
    BY <1>3
  <2>2. i \in 1..(next - 1)
    BY <2>1
  <2> QED BY <1>3, <2>2 DEF Scanned
<1> QED BY <1>1, <1>2, <1>3 DEF Scanned

LEMMA MatchesTruly ==
  ASSUME NEW t, TextsOf(store, t), NEW i
  PROVE  Matches(t, i) = store[i].hit
  BY DEF Matches, TextsOf

LEMMA TurnReaches ==
  ASSUME store \in Seq(EventRecord), NEW k \in 1..Len(store), NEW t,
         Reached(t, k - 1), t.stop = "none"
  PROVE  Reached(LookAt(t, k), k)
<1> DEFINE u == LookAt(t, k)
           full == Matches(t.kept, k) /\ Len(t.matches) >= limit
<1>1. /\ TextsOf(store, t.kept) /\ t.next = k /\ Scanned(t.matches, k)
      /\ k \in Nat /\ 1 <= k
  BY DEF Reached
<1>2. Matches(t.kept, k) = store[k].hit
  BY <1>1, MatchesTruly
<1>3. store[k].hit \in BOOLEAN
  <2>1. store[k] \in EventRecord
    OBVIOUS
  <2> QED BY <2>1 DEF EventRecord
<1>4. /\ u.kept = textFor(t.kept, k)
      /\ u.matches = (IF Matches(t.kept, k) /\ ~full THEN Append(t.matches, k) ELSE t.matches)
      /\ u.next = k + 1
      /\ u.stop = (IF full THEN "full" ELSE IF YieldsAfter(k) THEN "yield" ELSE "none")
  BY DEF LookAt
<1>5. Len(t.matches) \in Nat /\ Len(t.matches) <= limit /\ limit \in Nat
  BY <1>1, LimitsAssumption DEF Scanned
<1>6. full <=> store[k].hit /\ Len(t.matches) >= limit
  BY <1>2
<1> HIDE DEF u, full
<1>7. TextsOf(store, u.kept)
  BY <1>1, <1>4, TextForKeeps
<1>8. u.stop \in {"none", "yield", "full"}
  BY <1>4
<1>9. k + 1 \in 1..(k + 1)
  BY <1>1
<1>10. CASE full
  <2>1. u.stop = "full" /\ u.matches = t.matches
    BY <1>4, <1>10
  <2>2. store[k].hit /\ Len(t.matches) = limit /\ k \in 1..k
    BY <1>1, <1>5, <1>6, <1>10
  <2>3. Scanned(u.matches, k) /\ store[k].hit /\ Len(u.matches) = limit
    BY <1>1, <2>1, <2>2
  <2> QED BY <1>7, <2>1, <2>2, <2>3 DEF Reached, u
<1>11. CASE ~full /\ store[k].hit
  <2>1. u.stop # "full" /\ u.matches = Append(t.matches, k)
    BY <1>2, <1>4, <1>11
  <2>2. Len(t.matches) < limit
    BY <1>5, <1>6, <1>11
  <2>3. Scanned(u.matches, k + 1)
    BY <1>1, <1>11, <2>1, <2>2, ScannedMore
  <2> QED BY <1>4, <1>7, <1>8, <1>9, <2>1, <2>3 DEF Reached, u
<1>12. CASE ~store[k].hit
  <2>1. u.stop # "full" /\ u.matches = t.matches
    BY <1>2, <1>4, <1>6, <1>12
  <2>2. Scanned(u.matches, k + 1)
    BY <1>1, <1>12, <2>1, ScannedPast
  <2> QED BY <1>4, <1>7, <1>8, <1>9, <2>1, <2>2 DEF Reached, u
<1> QED BY <1>3, <1>10, <1>11, <1>12

ScanType ==
  [pc : {"scanning"}, next : Nat, end : Nat, generation : Nat, attempt : Nat,
   matches : Seq(Nat)]

\* a scan of the log as it is
Current(s) ==
  /\ s \in ScanType /\ s.generation = generation
  /\ s.end <= Len(store) /\ s.next \in 1..(s.end + 1)
  /\ Scanned(s.matches, s.next)

On(s, t) == [s EXCEPT !.matches = t.matches, !.next = t.next]

\* The loop of a scan gets as far as one of its stops.
LEMMA ScanRuns ==
  ASSUME store \in Seq(EventRecord), TextsOf(store, texts), NEW s, Current(s), NEW r,
         ScanOn(r, s)
  PROVE  \E t : /\ Reached(t, s.end)
                /\ texts' = t.kept
                /\ scan' = [scan EXCEPT ![r] =
                     IF t.stop = "yield" THEN On(s, t) ELSE Answered(On(s, t), t.stop = "full")]
<1> DEFINE k == s.end
           begun == [kept |-> texts, matches |-> s.matches, next |-> s.next, stop |-> "none"]
           body(f) == [i \in 0..k |->
                         IF i < s.next THEN begun
                         ELSE IF f[i - 1].stop # "none" THEN f[i - 1] ELSE LookAt(f[i - 1], i)]
           run == CHOOSE f : f = body(f)
<1>1. /\ k \in Nat /\ k <= Len(store) /\ Len(store) \in Nat
      /\ s.next \in 1..(k + 1) /\ s.next \in Nat
  BY DEF Current, ScanType
<1>2. /\ texts' = run[k].kept
      /\ scan' = [scan EXCEPT ![r] =
           IF run[k].stop = "yield" THEN On(s, run[k])
           ELSE Answered(On(s, run[k]), run[k].stop = "full")]
  BY DEF ScanOn, On
<1>3. /\ TextsOf(store, begun.kept) /\ begun.stop = "none" /\ begun.next = s.next
      /\ Scanned(begun.matches, s.next)
  BY DEF Current
<1> HIDE DEF begun
<1> DEFINE xs == [n \in 1..k |-> [at |-> n, from |-> s.next, begun |-> begun]]
<1>4. PICK q : IsRun("positions", begun, xs, q, k)
  BY <1>1, RunsExist
<1>5. q = body(q)
  <2>1. q = [n \in 0..k |-> q[n]]
    BY <1>4 DEF IsRun
  <2>2. q[0] = begun /\ \A n \in 1..k : q[n] = Stepped("positions", q[n - 1], xs[n])
    BY <1>4 DEF IsRun
  <2>3. ASSUME NEW n \in 0..k
        PROVE  q[n] = IF n < s.next THEN begun
                      ELSE IF q[n - 1].stop # "none" THEN q[n - 1] ELSE LookAt(q[n - 1], n)
    <3>1. CASE n = 0
      BY <1>1, <2>2, <3>1
    <3>2. CASE n # 0
      <4>1. n \in 1..k
        BY <1>1, <3>2
      <4>2. q[n] = Stepped("positions", q[n - 1], xs[n])
        BY <2>2, <4>1
      <4>3. xs[n].at = n /\ xs[n].from = s.next /\ xs[n].begun = begun
        BY <4>1
      <4> HIDE DEF xs
      <4> QED BY <4>2, <4>3 DEF Stepped
    <3> QED BY <3>1, <3>2
  <2>4. \A n \in 0..k : q[n] = IF n < s.next THEN begun
                      ELSE IF q[n - 1].stop # "none" THEN q[n - 1] ELSE LookAt(q[n - 1], n)
    BY <2>3
  <2> QED BY <2>1, <2>4
<1>6. run = body(run)
  <2> HIDE DEF body
  <2> QED BY <1>5
<1> HIDE DEF run
<1>7. \A n \in 0..k :
        run[n] = IF n < s.next THEN begun
                 ELSE IF run[n - 1].stop # "none" THEN run[n - 1] ELSE LookAt(run[n - 1], n)
  BY <1>6
<1> HIDE DEF body
<1> DEFINE Fine == {n \in 0..k : n >= s.next - 1 => Reached(run[n], n)}
<1>8. Reached(begun, s.next - 1)
  <2>1. s.next \in 1..((s.next - 1) + 1) /\ s.next = (s.next - 1) + 1
    BY <1>1
  <2> QED BY <1>3, <2>1 DEF Reached
<1>9. 0 \in Fine
  <2>1. 0 \in 0..k
    BY <1>1
  <2>2. ASSUME 0 >= s.next - 1 PROVE Reached(run[0], 0)
    <3>1. s.next - 1 = 0 /\ 0 < s.next
      BY <1>1, <2>2
    <3>2. run[0] = begun
      BY <1>7, <2>1, <3>1
    <3> QED BY <1>8, <3>1, <3>2
  <2> QED BY <2>1, <2>2
<1>10. ASSUME NEW n \in 1..k, n - 1 \in Fine PROVE n \in Fine
  <2>1. n \in 0..k /\ n \in 1..Len(store) /\ n \in Nat
    BY <1>1
  <2>2. ASSUME n >= s.next - 1 PROVE Reached(run[n], n)
    <3>1. CASE n < s.next
      <4>1. n = s.next - 1
        BY <1>1, <2>1, <2>2, <3>1
      <4>2. run[n] = begun
        BY <1>7, <2>1, <3>1
      <4> QED BY <1>8, <4>1, <4>2
    <3>2. CASE ~(n < s.next)
      <4>1. n - 1 >= s.next - 1
        BY <1>1, <2>1, <3>2
      <4>2. Reached(run[n - 1], n - 1)
        BY <1>10, <4>1
      <4>3. run[n] = IF run[n - 1].stop # "none" THEN run[n - 1] ELSE LookAt(run[n - 1], n)
        BY <1>7, <2>1, <3>2
      <4> DEFINE t == run[n - 1]
      <4>4. CASE t.stop = "none"
        <5>1. run[n] = LookAt(t, n)
          BY <4>3, <4>4
        <5> HIDE DEF t
        <5>2. Reached(t, n - 1)
          BY <4>2 DEF t
        <5> QED BY <2>1, <4>4, <5>1, <5>2, TurnReaches
      <4>5. CASE t.stop # "none"
        <5>1. run[n] = t
          BY <4>3, <4>5
        <5> HIDE DEF t
        <5>2. Reached(t, n - 1)
          BY <4>2 DEF t
        <5>3. 1..((n - 1) + 1) \subseteq 1..(n + 1) /\ 1..(n - 1) \subseteq 1..n
          BY <2>1
        <5>4. Reached(t, n)
          BY <4>5, <5>2, <5>3 DEF Reached
        <5> QED BY <5>1, <5>4
      <4> QED BY <4>4, <4>5
    <3> QED BY <3>1, <3>2
  <2> QED BY <2>1, <2>2
<1>11. k \in 0..k /\ k >= s.next - 1
  BY <1>1
<1>12. k \in Fine
  <2> HIDE DEF Fine
  <2> QED BY <1>1, <1>9, <1>10, <1>11, UpTo
<1>13. Reached(run[k], k)
  BY <1>11, <1>12
<1> QED BY <1>2, <1>13

\* A scan that stops at a yield is one of the log as it is.
LEMMA YieldIsCurrent ==
  ASSUME NEW s, Current(s), NEW t, Reached(t, s.end), t.stop = "yield"
  PROVE  Current(On(s, t))
<1>1. /\ t.next \in 1..(s.end + 1) /\ Scanned(t.matches, t.next) /\ t.next \in Nat
      /\ t.matches \in Seq(Nat)
  BY DEF Reached, Scanned
<1>2. s \in ScanType
  BY DEF Current
<1>3. /\ On(s, t) \in ScanType
      /\ On(s, t).next = t.next /\ On(s, t).matches = t.matches
      /\ On(s, t).end = s.end /\ On(s, t).generation = s.generation
  BY <1>1, <1>2 DEF On, ScanType
<1> QED BY <1>1, <1>3 DEF Current

Hits(end) == {i \in 1..end : store[i].hit}

\* A scan that stops for another reason answers with the first matches.
LEMMA AnswerIsFirst ==
  ASSUME store \in Seq(EventRecord), NEW s, Current(s), NEW t, Reached(t, s.end),
         t.stop # "yield"
  PROVE  /\ AreFirstOf(t.matches, Hits(s.end))
         /\ (t.stop = "full") <=> ToSet(t.matches) # Hits(s.end)
<1> DEFINE k == s.end
           m == t.matches
<1>1. k \in Nat /\ limit \in Nat
  BY LimitsAssumption DEF Current, ScanType
<1>2. CASE t.stop = "none"
  <2> DEFINE next == k + 1
  <2>1. Scanned(m, next) /\ next - 1 = k
    BY <1>1, <1>2 DEF Reached
  <2> HIDE DEF m, k, next
  <2>2. \A j \in DOMAIN m : m[j] \in 1..(next - 1) /\ store[m[j]].hit
    BY <2>1 DEF Scanned
  <2>3. \A i \in 1..(next - 1) : store[i].hit => i \in ToSet(m)
    BY <2>1 DEF Scanned
  <2>4. Len(m) <= limit /\ \A j, n \in DOMAIN m : j < n => m[j] < m[n]
    BY <2>1 DEF Scanned
  <2>5. ToSet(m) \subseteq Hits(k)
    BY <2>1, <2>2 DEF ToSet, Hits
  <2>6. Hits(k) \subseteq ToSet(m)
    BY <2>1, <2>3 DEF Hits
  <2>7. ToSet(m) = Hits(k)
    BY <2>5, <2>6
  <2>8. AreFirstOf(m, Hits(k))
    BY <2>4, <2>7 DEF AreFirstOf
  <2> QED BY <1>2, <2>7, <2>8 DEF m, k
<1>3. CASE t.stop = "full"
  <2>1. PICK p \in 1..k : Scanned(m, p) /\ store[p].hit /\ Len(m) = limit
    BY <1>3 DEF Reached
  <2>2. p \in Nat /\ 1 <= p /\ p <= k
    BY <1>1
  <2>3. \A j \in DOMAIN m : m[j] \in 1..(p - 1) /\ store[m[j]].hit
    BY <2>1 DEF Scanned
  <2>4. \A i \in 1..(p - 1) : store[i].hit => i \in ToSet(m)
    BY <2>1 DEF Scanned
  <2>5. Len(m) <= limit /\ \A j, n \in DOMAIN m : j < n => m[j] < m[n]
    BY <2>1 DEF Scanned
  <2> HIDE DEF m, k
  <2>6. ToSet(m) \subseteq Hits(k)
    <3>1. 1..(p - 1) \subseteq 1..k
      BY <1>1, <2>2
    <3> QED BY <2>3, <3>1 DEF ToSet, Hits
  <2>7. ASSUME NEW i \in Hits(k) \ ToSet(m), NEW j \in DOMAIN m PROVE m[j] < i
    <3>1. i \in 1..k /\ store[i].hit /\ i \notin 1..(p - 1)
      BY <2>4, <2>7 DEF Hits
    <3>2. m[j] \in 1..(p - 1)
      BY <2>3
    <3> QED BY <1>1, <2>2, <3>1, <3>2
  <2>8. AreFirstOf(m, Hits(k))
    BY <2>1, <2>5, <2>6, <2>7 DEF AreFirstOf
  <2>9. p \in Hits(k)
    BY <2>1 DEF Hits
  <2>10. p \notin ToSet(m)
    <3>1. ASSUME NEW j \in DOMAIN m, m[j] = p PROVE FALSE
      <4>1. p \in 1..(p - 1)
        BY <2>3, <3>1
      <4> QED BY <2>2, <4>1
    <3> QED BY <3>1 DEF ToSet
  <2>11. ToSet(m) # Hits(k)
    BY <2>9, <2>10
  <2> QED BY <1>3, <2>8, <2>11 DEF m, k
<1>4. t.stop = "none" \/ t.stop = "full"
  BY DEF Reached
<1> QED BY <1>2, <1>3, <1>4

-----------------------------------------------------------------------------
(* The replayed states kept.                                               *)

ReplayRecord ==
  [target : Nat, result : Seq(EventRecord), cost : Nat, targetEvent : EventRecord]

Costs(entries) == [n \in DOMAIN entries |-> entries[n].cost]

\* what c keeps are states replayed from events of st, one for a target, and counted
CacheOf(st, c) ==
  /\ c.entries \in Seq(ReplayRecord)
  /\ \A n \in DOMAIN c.entries :
       /\ c.entries[n].target \in 1..Len(st)
       /\ c.entries[n].result = SubSeq(st, 1, c.entries[n].target)
  /\ \A m, n \in DOMAIN c.entries :
       m # n => c.entries[m].target # c.entries[n].target
  /\ c.cost = Total(Costs(c.entries))

LEMMA CostsType ==
  ASSUME NEW es \in Seq(ReplayRecord)
  PROVE  Costs(es) \in Seq(Nat) /\ Len(Costs(es)) = Len(es)
<1>1. Len(es) \in Nat /\ DOMAIN es = 1..Len(es)
  OBVIOUS
<1>2. \A n \in 1..Len(es) : es[n].cost \in Nat
  <2>1. \A n \in 1..Len(es) : es[n] \in ReplayRecord
    OBVIOUS
  <2> QED BY <2>1 DEF ReplayRecord
<1> QED BY <1>1, <1>2 DEF Costs

LEMMA NoReplaysOf == ASSUME NEW st PROVE CacheOf(st, NoReplays) /\ Fits(NoReplays)
<1>1. NoReplays.entries = <<>> /\ NoReplays.cost = 0
  BY DEF NoReplays
<1>2. /\ <<>> \in Seq(ReplayRecord) /\ DOMAIN <<>> = {} /\ Len(<<>>) = 0
      /\ Costs(<<>>) = <<>>
  BY DEF Costs
<1>3. CacheOf(st, NoReplays)
  BY <1>1, <1>2, TotalOfNone DEF CacheOf
<1>4. Fits(NoReplays)
  BY <1>1, <1>2, LimitsAssumption DEF Fits
<1> QED BY <1>3, <1>4

\* A list without one of its members.
LEMMA RemovedAt ==
  ASSUME NEW S, NEW s \in Seq(S), NEW i \in 1..Len(s)
  PROVE  /\ RemoveAt(s, i) \in Seq(S)
         /\ Len(RemoveAt(s, i)) = Len(s) - 1
         /\ \A n \in 1..Len(s) - 1 :
              RemoveAt(s, i)[n] = IF n < i THEN s[n] ELSE s[n + 1]
<1> DEFINE before == SubSeq(s, 1, i - 1)
           after  == SubSeq(s, i + 1, Len(s))
<1>1. Len(s) \in Nat /\ i \in Int /\ 1 <= i /\ i <= Len(s)
  OBVIOUS
<1>2. \A n \in 1..Len(s) : s[n] \in S
  BY ElementOfSeq
<1>3. /\ before \in Seq(S) /\ Len(before) = i - 1
      /\ \A n \in 1..i - 1 : before[n] = s[n]
  <2>1. \A n \in 1..i - 1 : s[n] \in S
    BY <1>1, <1>2
  <2>2. /\ before \in Seq(S)
        /\ Len(before) = IF 1 <= i - 1 THEN (i - 1) - 1 + 1 ELSE 0
        /\ \A n \in 1..(i - 1) - 1 + 1 : before[n] = s[1 + n - 1]
    BY <1>1, <2>1, SubSeqProperties
  <2> HIDE DEF before
  <2>3. \A n \in 1..i - 1 : 1 + n - 1 = n
    BY <1>1
  <2> QED
    BY <1>1, <2>2, <2>3
<1>4. /\ after \in Seq(S) /\ Len(after) = Len(s) - i
      /\ \A n \in 1..Len(s) - i : after[n] = s[i + n]
  <2>1. \A n \in i + 1..Len(s) : s[n] \in S
    BY <1>1, <1>2
  <2>2. i + 1 \in Int /\ Len(s) \in Int
    BY <1>1
  <2>3. /\ after \in Seq(S)
        /\ Len(after) = IF i + 1 <= Len(s) THEN Len(s) - (i + 1) + 1 ELSE 0
        /\ \A n \in 1..Len(s) - (i + 1) + 1 : after[n] = s[(i + 1) + n - 1]
    BY <2>1, <2>2, SubSeqProperties
  <2> HIDE DEF after
  <2>4. \A n \in 1..Len(s) - i : (i + 1) + n - 1 = i + n
    BY <1>1
  <2> QED
    BY <1>1, <2>3, <2>4
<1>5. RemoveAt(s, i) = before \o after
  BY DEF RemoveAt
<1> HIDE DEF before, after
<1>6. /\ before \o after \in Seq(S)
      /\ Len(before \o after) = (i - 1) + (Len(s) - i)
      /\ \A n \in 1..(i - 1) + (Len(s) - i) :
           (before \o after)[n] = IF n <= i - 1 THEN before[n] ELSE after[n - (i - 1)]
  <2>1. /\ before \o after \in Seq(S)
        /\ Len(before \o after) = Len(before) + Len(after)
        /\ \A n \in 1..Len(before) + Len(after) :
             (before \o after)[n] =
               IF n <= Len(before) THEN before[n] ELSE after[n - Len(before)]
    BY <1>3, <1>4, ConcatProperties
  <2> QED
    BY <1>3, <1>4, <2>1
<1>7. (i - 1) + (Len(s) - i) = Len(s) - 1
  BY <1>1
<1>8. ASSUME NEW n \in 1..Len(s) - 1
      PROVE  RemoveAt(s, i)[n] = IF n < i THEN s[n] ELSE s[n + 1]
  <2>1. CASE n < i
    BY <1>1, <1>3, <1>5, <1>6, <2>1
  <2>2. CASE ~(n < i)
    <3>1. n - (i - 1) \in 1..Len(s) - i /\ i + (n - (i - 1)) = n + 1
      BY <1>1, <2>2
    <3>2. after[n - (i - 1)] = s[n + 1]
      BY <1>4, <3>1
    <3>3. RemoveAt(s, i)[n] = after[n - (i - 1)]
      <4>1. n \in 1..(i - 1) + (Len(s) - i)
        BY <1>7
      <4>2. ~(n <= i - 1)
        BY <1>1, <2>2
      <4> QED
        BY <1>5, <1>6, <4>1, <4>2
    <3> QED
      BY <2>2, <3>2, <3>3
  <2> QED
    BY <2>1, <2>2
<1> QED
  BY <1>5, <1>6, <1>7, <1>8

LEMMA DeleteKeeps ==
  ASSUME NEW st, NEW c, CacheOf(st, c), NEW i \in 1..Len(c.entries)
  PROVE  LET d == deleteCached(c, i)
         IN  /\ CacheOf(st, d)
             /\ Len(d.entries) = Len(c.entries) - 1
             /\ c.cost = d.cost + c.entries[i].cost
             /\ c.cost \in Nat /\ d.cost \in Nat /\ c.entries[i].cost \in Nat
             /\ \A n \in DOMAIN d.entries : d.entries[n].target # c.entries[i].target
<1> DEFINE es == c.entries
           ds == RemoveAt(es, i)
           k == Len(es)
           ws == Costs(es)
           vs == Costs(ds)
           d == deleteCached(c, i)
<1>1. es \in Seq(ReplayRecord) /\ k \in Nat /\ DOMAIN es = 1..k /\ i \in 1..k
  BY DEF CacheOf
<1>2. /\ ds \in Seq(ReplayRecord) /\ Len(ds) = k - 1
      /\ \A n \in 1..k - 1 : ds[n] = IF n < i THEN es[n] ELSE es[n + 1]
  BY <1>1, RemovedAt
<1>3. d.entries = ds /\ d.cost = c.cost - es[i].cost
  BY DEF deleteCached
<1>4. ws \in Seq(Nat) /\ Len(ws) = k
  BY <1>1, CostsType
<1>5. vs \in Seq(Nat) /\ Len(vs) = k - 1
  BY <1>2, CostsType
<1>6. \A n \in 1..k : ws[n] = es[n].cost
  BY <1>1 DEF Costs
<1>7. \A n \in 1..k - 1 : vs[n] = ds[n].cost
  BY <1>1, <1>2 DEF Costs
<1>8. /\ \A n \in 1..k : es[n].target \in 1..Len(st) /\ es[n].result = SubSeq(st, 1, es[n].target)
      /\ \A m, n \in 1..k : m # n => es[m].target # es[n].target
      /\ c.cost = Total(ws)
  BY <1>1 DEF CacheOf
<1>9. DOMAIN ds = 1..k - 1
  BY <1>1, <1>2
<1> HIDE DEF es, ds, k, ws, vs, d
<1>10. \A n \in 1..Len(vs) : vs[n] = IF n < i THEN ws[n] ELSE ws[n + 1]
  <2>1. ASSUME NEW n \in 1..k - 1 PROVE vs[n] = IF n < i THEN ws[n] ELSE ws[n + 1]
    <3>1. n \in 1..k /\ n + 1 \in 1..k
      BY <1>1
    <3> QED BY <1>2, <1>6, <1>7, <3>1
  <2> QED BY <1>5, <2>1
<1>11. Total(ws) = Total(vs) + ws[i]
  BY <1>1, <1>4, <1>5, <1>10, TotalWithout
<1>12. ws[i] = es[i].cost /\ ws[i] \in Nat /\ Total(ws) \in Nat /\ Total(vs) \in Nat
  BY <1>1, <1>4, <1>5, <1>6, TotalType
<1>13. d.cost = Total(vs) /\ c.cost = d.cost + es[i].cost
  BY <1>3, <1>8, <1>11, <1>12
<1> DEFINE from(n) == IF n < i THEN n ELSE n + 1
<1>14. \A n \in 1..k - 1 : from(n) \in 1..k /\ from(n) # i /\ ds[n] = es[from(n)]
  BY <1>1, <1>2
<1>15. \A m, n \in 1..k - 1 : m # n => from(m) # from(n)
  BY <1>1
<1> HIDE DEF from
<1>16. \A n \in 1..k - 1 : /\ ds[n].target \in 1..Len(st)
                          /\ ds[n].result = SubSeq(st, 1, ds[n].target)
  BY <1>8, <1>14
<1>17. \A m, n \in 1..k - 1 : m # n => ds[m].target # ds[n].target
  BY <1>8, <1>14, <1>15
<1>18. CacheOf(st, d)
  BY <1>2, <1>3, <1>9, <1>13, <1>16, <1>17 DEF CacheOf, vs
<1>19. \A n \in 1..k - 1 : ds[n].target # es[i].target
  BY <1>1, <1>8, <1>14
<1> QED BY <1>2, <1>3, <1>8, <1>9, <1>12, <1>13, <1>18, <1>19 DEF es, k, d

LEMMA SetKeeps ==
  ASSUME NEW st, NEW c, CacheOf(st, c), NEW e \in ReplayRecord,
         e.target \in 1..Len(st), e.result = SubSeq(st, 1, e.target),
         \A n \in DOMAIN c.entries : c.entries[n].target # e.target
  PROVE  LET d == setCached(c, e)
         IN  /\ CacheOf(st, d)
             /\ Len(d.entries) = Len(c.entries) + 1
             /\ d.cost = c.cost + e.cost
<1> DEFINE es == c.entries
           ds == Append(es, e)
           k == Len(es)
           ws == Costs(es)
           vs == Costs(ds)
           d == setCached(c, e)
<1>1. es \in Seq(ReplayRecord) /\ k \in Nat /\ DOMAIN es = 1..k
  BY DEF CacheOf
<1>2. /\ ds \in Seq(ReplayRecord) /\ Len(ds) = k + 1 /\ DOMAIN ds = 1..(k + 1)
      /\ ds[k + 1] = e /\ \A n \in 1..k : ds[n] = es[n]
  BY <1>1
<1>3. d.entries = ds /\ d.cost = c.cost + e.cost
  BY DEF setCached
<1>4. ws \in Seq(Nat) /\ Len(ws) = k
  BY <1>1, CostsType
<1>5. vs \in Seq(Nat) /\ Len(vs) = k + 1
  BY <1>2, CostsType
<1>6. \A n \in 1..k : ws[n] = es[n].cost
  BY <1>1 DEF Costs
<1>7. \A n \in 1..(k + 1) : vs[n] = ds[n].cost
  BY <1>2 DEF Costs
<1>8. /\ \A n \in 1..k : es[n].target \in 1..Len(st) /\ es[n].result = SubSeq(st, 1, es[n].target)
      /\ \A m, n \in 1..k : m # n => es[m].target # es[n].target
      /\ \A n \in 1..k : es[n].target # e.target
      /\ c.cost = Total(ws)
  BY <1>1 DEF CacheOf
<1> HIDE DEF es, ds, k, ws, vs, d
<1>9. \A n \in 1..k : vs[n] = ws[n]
  <2>1. \A n \in 1..k : n \in 1..(k + 1)
    BY <1>1
  <2> QED BY <1>2, <1>6, <1>7, <2>1
<1>10. Total(vs) = Total(ws) + vs[k + 1] /\ vs[k + 1] = e.cost
  <2>1. k + 1 \in 1..(k + 1)
    BY <1>1
  <2>2. Total(vs) = Total(ws) + vs[Len(vs)]
    BY <1>4, <1>5, <1>9, TotalOfMore
  <2> QED BY <1>2, <1>5, <1>7, <2>1, <2>2
<1>11. \A n \in 1..(k + 1) : n = k + 1 \/ n \in 1..k
  BY <1>1
<1>12. \A n \in 1..(k + 1) : /\ ds[n].target \in 1..Len(st)
                            /\ ds[n].result = SubSeq(st, 1, ds[n].target)
  BY <1>2, <1>8, <1>11
<1>13. \A m, n \in 1..(k + 1) : m # n => ds[m].target # ds[n].target
  <2>1. ASSUME NEW m \in 1..k, NEW n \in 1..k, m # n PROVE ds[m].target # ds[n].target
    BY <1>2, <1>8, <2>1
  <2>2. ASSUME NEW n \in 1..k PROVE ds[n].target # ds[k + 1].target
    BY <1>2, <1>8, <2>2
  <2>3. ASSUME NEW m \in 1..(k + 1), NEW n \in 1..(k + 1), m # n
        PROVE  ds[m].target # ds[n].target
    <3>1. CASE m = k + 1
      <4>1. n \in 1..k
        BY <1>11, <2>3, <3>1
      <4> QED BY <2>2, <3>1, <4>1
    <3>2. CASE n = k + 1
      <4>1. m \in 1..k
        BY <1>11, <2>3, <3>2
      <4> QED BY <2>2, <3>2, <4>1
    <3>3. CASE m \in 1..k /\ n \in 1..k
      BY <2>1, <2>3, <3>3
    <3> QED BY <1>11, <3>1, <3>2, <3>3
  <2> QED BY <2>3
<1>14. d.cost = Total(vs)
  BY <1>3, <1>8, <1>10
<1>15. CacheOf(st, d)
  BY <1>2, <1>3, <1>12, <1>13, <1>14 DEF CacheOf, vs
<1> QED BY <1>2, <1>3, <1>15 DEF es, k, d

\* The oldest go until both limits hold: with the last of them, they do.
LEMMA EvictKeeps ==
  ASSUME NEW st, NEW c, CacheOf(st, c)
  PROVE  CacheOf(st, evictToBounds(c)) /\ Fits(evictToBounds(c))
<1> DEFINE k == Len(c.entries)
           body(f) == [n \in 0..k |->
                         IF n = 0 THEN c
                         ELSE IF Fits(f[n - 1]) THEN f[n - 1] ELSE deleteCached(f[n - 1], 1)]
           left == CHOOSE f : f = body(f)
<1>1. k \in Nat
  BY DEF CacheOf
<1>2. evictToBounds(c) = left[k]
  BY DEF evictToBounds
<1> DEFINE good(d, n) == CacheOf(st, d) /\ (Fits(d) \/ Len(d.entries) = k - n)
<1>3. good(c, 0)
  BY <1>1
<1> HIDE DEF k
<1>4. PICK q : IsRun("evictions", c, c, q, k)
  BY <1>1, RunsExist
<1>5. q = body(q)
  <2>1. q = [n \in 0..k |-> q[n]]
    BY <1>4 DEF IsRun
  <2>2. q[0] = c /\ \A n \in 1..k : q[n] = Stepped("evictions", q[n - 1], c[n])
    BY <1>4 DEF IsRun
  <2>3. ASSUME NEW n \in 0..k
        PROVE  q[n] = IF n = 0 THEN c
                      ELSE IF Fits(q[n - 1]) THEN q[n - 1] ELSE deleteCached(q[n - 1], 1)
    <3>1. CASE n = 0
      BY <2>2, <3>1
    <3>2. CASE n # 0
      <4>1. n \in 1..k
        BY <1>1, <3>2
      <4>2. q[n] = Stepped("evictions", q[n - 1], c[n])
        BY <2>2, <4>1
      <4> QED BY <3>2, <4>2 DEF Stepped
    <3> QED BY <3>1, <3>2
  <2>4. \A n \in 0..k : q[n] = IF n = 0 THEN c
                      ELSE IF Fits(q[n - 1]) THEN q[n - 1] ELSE deleteCached(q[n - 1], 1)
    BY <2>3
  <2> QED BY <2>1, <2>4
<1>6. left = body(left)
  <2> HIDE DEF body
  <2> QED BY <1>5
<1> HIDE DEF left
<1>7. /\ left[0] = c
      /\ \A n \in 1..k :
           left[n] = IF Fits(left[n - 1]) THEN left[n - 1] ELSE deleteCached(left[n - 1], 1)
  BY <1>1, <1>6
<1> HIDE DEF body
<1> DEFINE Fine == {n \in 0..k : good(left[n], n)}
<1>8. 0 \in Fine
  BY <1>1, <1>3, <1>7
<1>9. ASSUME NEW n \in 1..k, n - 1 \in Fine PROVE n \in Fine
  <2> DEFINE d == left[n - 1]
  <2>1. CacheOf(st, d) /\ (Fits(d) \/ Len(d.entries) = k - (n - 1))
    BY <1>9
  <2>2. left[n] = IF Fits(d) THEN d ELSE deleteCached(d, 1)
    BY <1>7
  <2> HIDE DEF d
  <2>3. CASE Fits(d)
    BY <2>1, <2>2, <2>3
  <2>4. CASE ~Fits(d)
    <3>1. Len(d.entries) = k - (n - 1) /\ 1 \in 1..Len(d.entries)
      BY <1>1, <2>1, <2>4
    <3>2. /\ CacheOf(st, deleteCached(d, 1))
          /\ Len(deleteCached(d, 1).entries) = Len(d.entries) - 1
      BY <2>1, <3>1, DeleteKeeps
    <3>3. Len(d.entries) - 1 = k - n
      BY <1>1, <3>1
    <3> QED BY <2>2, <2>4, <3>2, <3>3
  <2> QED BY <2>3, <2>4
<1>10. k \in 0..k
  BY <1>1
<1>11. k \in Fine
  <2> HIDE DEF Fine
  <2> QED BY <1>1, <1>8, <1>9, <1>10, UpTo
<1> DEFINE z == left[k]
<1>12. CacheOf(st, z) /\ (Fits(z) \/ Len(z.entries) = k - k)
  BY <1>11
<1> HIDE DEF z
<1>13. CASE Len(z.entries) = k - k
  <2>1. Len(z.entries) = 0
    BY <1>1, <1>13
  <2>2. z.entries \in Seq(ReplayRecord) /\ z.cost = Total(Costs(z.entries))
    BY <1>12 DEF CacheOf
  <2>3. Costs(z.entries) = <<>>
    BY <2>1, <2>2 DEF Costs
  <2>4. z.cost = 0
    BY <2>2, <2>3, TotalOfNone
  <2>5. Fits(z)
    BY <2>1, <2>4, LimitsAssumption DEF Fits
  <2> QED BY <1>2, <1>12, <2>5 DEF z
<1> QED BY <1>2, <1>12, <1>13 DEF z

\* The first events of a log stay the first when it grows.
LEMMA CacheSurvives ==
  ASSUME NEW st \in Seq(EventRecord), NEW e \in EventRecord, NEW c, CacheOf(st, c)
  PROVE  CacheOf(Append(st, e), c)
<1> DEFINE more == Append(st, e)
<1>1. Len(more) = Len(st) + 1 /\ Len(st) \in Nat /\ \A n \in 1..Len(st) : more[n] = st[n]
  OBVIOUS
<1>2. ASSUME NEW t \in 1..Len(st) PROVE SubSeq(more, 1, t) = SubSeq(st, 1, t)
  <2> DEFINE a == SubSeq(st, 1, t)
             b == SubSeq(more, 1, t)
  <2>1. t \in Int /\ 1 <= t /\ 1 \in Int /\ \A n \in 1..t : n \in 1..Len(st)
    BY <1>1
  <2>2. \A n \in 1..t : st[n] \in EventRecord /\ more[n] \in EventRecord
    BY <1>1, <2>1
  <2>3. /\ a \in Seq(EventRecord) /\ Len(a) = (IF 1 <= t THEN t - 1 + 1 ELSE 0)
        /\ \A n \in 1..(t - 1 + 1) : a[n] = st[1 + n - 1]
    BY <2>1, <2>2, SubSeqProperties
  <2> HIDE DEF more
  <2>4. /\ b \in Seq(EventRecord) /\ Len(b) = (IF 1 <= t THEN t - 1 + 1 ELSE 0)
        /\ \A n \in 1..(t - 1 + 1) : b[n] = more[1 + n - 1]
    BY <2>1, <2>2, SubSeqProperties
  <2> HIDE DEF a, b
  <2>5. Len(a) = t /\ Len(b) = t
    BY <2>1, <2>3, <2>4
  <2>6. ASSUME NEW n \in 1..t PROVE a[n] = b[n]
    <3>1. n \in 1..(t - 1 + 1) /\ 1 + n - 1 = n
      BY <2>1
    <3> QED BY <1>1, <2>1, <2>3, <2>4, <3>1
  <2>7. a = [n \in 1..t |-> a[n]] /\ b = [n \in 1..t |-> b[n]]
    BY <2>3, <2>4, <2>5
  <2>8. a = b
    BY <2>6, <2>7
  <2> QED BY <2>8 DEF a, b
<1> HIDE DEF more
<1>3. /\ c.entries \in Seq(ReplayRecord)
      /\ \A n \in DOMAIN c.entries :
           /\ c.entries[n].target \in 1..Len(st)
           /\ c.entries[n].result = SubSeq(st, 1, c.entries[n].target)
      /\ \A m, n \in DOMAIN c.entries :
           m # n => c.entries[m].target # c.entries[n].target
      /\ c.cost = Total(Costs(c.entries))
  BY DEF CacheOf
<1>4. 1..Len(st) \subseteq 1..Len(more)
  BY <1>1
<1>5. \A n \in DOMAIN c.entries :
           /\ c.entries[n].target \in 1..Len(more)
           /\ c.entries[n].result = SubSeq(more, 1, c.entries[n].target)
  BY <1>2, <1>3, <1>4
<1>6. CacheOf(more, c)
  BY <1>3, <1>5 DEF CacheOf
<1> QED BY <1>6 DEF more

LEMMA EntryType ==
  ASSUME store \in Seq(EventRecord), NEW target \in 1..Len(store)
  PROVE  LET e == Entry(target, replayToIndex(target))
         IN  /\ e \in ReplayRecord /\ e.target = target
             /\ e.result = SubSeq(store, 1, target)
<1> DEFINE result == SubSeq(store, 1, target)
           bytes == [n \in DOMAIN result |-> result[n].bytes]
           e == Entry(target, replayToIndex(target))
<1>1. result \in Seq(EventRecord) /\ store[target] \in EventRecord /\ target \in Nat
  <2>1. \A n \in 1..target : store[n] \in EventRecord
    OBVIOUS
  <2>2. 1 \in Int /\ target \in Int
    OBVIOUS
  <2> QED BY <2>1, <2>2, SubSeqProperties
<1>2. /\ e.target = target /\ e.result = result /\ e.cost = estimateReplayResultBytes(result)
      /\ e = [target |-> target, result |-> result, cost |-> e.cost,
              targetEvent |-> store[target]]
  BY DEF Entry, replayToIndex
<1>3. estimateReplayResultBytes(result)
        = IF Total(bytes) > maxCostBytes THEN maxCostBytes + 1 ELSE Total(bytes)
  BY DEF estimateReplayResultBytes
<1> HIDE DEF result, e
<1>4. bytes \in Seq(Nat)
  <2>1. \A n \in 1..Len(result) : result[n].bytes \in Nat
    <3>1. \A n \in 1..Len(result) : result[n] \in EventRecord
      BY <1>1
    <3> QED BY <3>1 DEF EventRecord, TextBytes
  <2>2. DOMAIN result = 1..Len(result) /\ Len(result) \in Nat
    BY <1>1
  <2> QED BY <2>1, <2>2
<1> HIDE DEF bytes
<1>5. e.cost \in Nat
  BY <1>2, <1>3, <1>4, TotalType, LimitsAssumption
<1>6. e \in ReplayRecord
  <2>1. [target |-> target, result |-> result, cost |-> e.cost,
         targetEvent |-> store[target]] \in ReplayRecord
    BY <1>1, <1>5 DEF ReplayRecord
  <2> QED BY <1>2, <2>1
<1> QED BY <1>2, <1>6 DEF e, result

\* A state asked for leaves what is kept sound.
LEMMA StateKeeps ==
  ASSUME store \in Seq(EventRecord), CacheOf(store, cache), Fits(cache),
         NEW target \in DOMAIN store, stateAtIndex(target)
  PROVE  CacheOf(store, cache') /\ Fits(cache')
<1> DEFINE kept == IF PriorTailPreserved THEN cache ELSE NoReplays
           I == {i \in 1..Len(kept.entries) : kept.entries[i].target = target}
           n == IF I # {} THEN Min(I) ELSE 0
           rest == IF n = 0 THEN kept ELSE deleteCached(kept, n)
           entry == Entry(target, replayToIndex(target))
<1>1. cache' = IF n # 0 /\ kept.entries[n].targetEvent = store[target]
               THEN setCached(rest, kept.entries[n])
               ELSE IF maxEntries > 0 /\ entry.cost <= maxCostBytes
               THEN evictToBounds(setCached(rest, entry))
               ELSE rest
  BY DEF stateAtIndex, SelectInSeq
<1>2. CacheOf(store, kept) /\ Fits(kept)
  BY NoReplaysOf
<1> HIDE DEF kept
<1>3. /\ kept.entries \in Seq(ReplayRecord) /\ Len(kept.entries) \in Nat
      /\ DOMAIN kept.entries = 1..Len(kept.entries)
  BY <1>2 DEF CacheOf
<1>4. I \subseteq Nat
  OBVIOUS
<1>5. CASE I = {}
  <2>1. n = 0
    BY <1>5
  <2>2. \A i \in DOMAIN kept.entries : kept.entries[i].target # target
    BY <1>3, <1>5
  <2> HIDE DEF I, n
  <2>3. rest = kept
    BY <2>1
  <2> HIDE DEF rest
  <2>4. /\ entry \in ReplayRecord /\ entry.target = target
        /\ entry.result = SubSeq(store, 1, target) /\ target \in 1..Len(store)
    BY EntryType
  <2> HIDE DEF entry
  <2>5. CacheOf(store, setCached(rest, entry))
    <3>1. \A i \in DOMAIN kept.entries : kept.entries[i].target # entry.target
      BY <2>2, <2>4
    <3> QED BY <1>2, <2>3, <2>4, <3>1, SetKeeps
  <2>6. CacheOf(store, evictToBounds(setCached(rest, entry)))
    BY <2>5, EvictKeeps
  <2>7. Fits(evictToBounds(setCached(rest, entry)))
    BY <2>5, EvictKeeps
  <2> QED BY <1>1, <1>2, <2>1, <2>3, <2>6, <2>7
<1>6. CASE I # {}
  <2>1. n \in I
    <3> HIDE DEF I
    <3> QED BY <1>4, <1>6, LeastIsMember
  <2>2. n \in 1..Len(kept.entries) /\ kept.entries[n].target = target /\ n # 0
    BY <2>1
  <2> HIDE DEF I, n
  <2> DEFINE e == kept.entries[n]
  <2>3. rest = deleteCached(kept, n)
    BY <2>2
  <2>4. /\ CacheOf(store, rest)
        /\ Len(rest.entries) = Len(kept.entries) - 1
        /\ kept.cost = rest.cost + e.cost
        /\ kept.cost \in Nat /\ rest.cost \in Nat /\ e.cost \in Nat
        /\ \A i \in DOMAIN rest.entries : rest.entries[i].target # e.target
    BY <1>2, <2>2, <2>3, DeleteKeeps
  <2> HIDE DEF rest
  <2>5. Fits(rest)
    <3>1. Len(kept.entries) <= maxEntries /\ kept.cost <= maxCostBytes
      BY <1>2 DEF Fits
    <3>2. maxEntries \in Nat /\ maxCostBytes \in Nat
      BY LimitsAssumption
    <3>3. Len(rest.entries) <= maxEntries
      <4>1. Len(rest.entries) = Len(kept.entries) - 1
        BY <2>4
      <4> QED BY <1>3, <3>1, <3>2, <4>1
    <3>4. rest.cost <= maxCostBytes
      <4>1. kept.cost = rest.cost + e.cost /\ rest.cost \in Nat /\ e.cost \in Nat
        BY <2>4
      <4> HIDE DEF e
      <4> QED BY <3>1, <3>2, <4>1
    <3> QED BY <3>3, <3>4 DEF Fits
  <2>6. CacheOf(store, setCached(rest, e)) /\ Fits(setCached(rest, e))
    <3>1. /\ e \in ReplayRecord /\ e.target \in 1..Len(store)
          /\ e.result = SubSeq(store, 1, e.target)
      <4>1. n \in DOMAIN kept.entries /\ e \in ReplayRecord
        BY <1>3, <2>2
      <4> QED BY <1>2, <4>1 DEF CacheOf
    <3> HIDE DEF e
    <3>2. /\ CacheOf(store, setCached(rest, e))
          /\ Len(setCached(rest, e).entries) = Len(rest.entries) + 1
          /\ setCached(rest, e).cost = rest.cost + e.cost
      BY <2>4, <3>1, SetKeeps
    <3>3. Len(rest.entries) + 1 = Len(kept.entries)
      BY <1>3, <2>4
    <3>4. Fits(setCached(rest, e))
      BY <1>2, <2>4, <3>2, <3>3 DEF Fits
    <3> QED BY <3>2, <3>4
  <2>7. /\ entry \in ReplayRecord /\ entry.target = target
        /\ entry.result = SubSeq(store, 1, target) /\ target \in 1..Len(store)
    BY EntryType
  <2> HIDE DEF entry
  <2>8. CacheOf(store, setCached(rest, entry))
    <3>1. \A i \in DOMAIN rest.entries : rest.entries[i].target # entry.target
      BY <2>2, <2>4, <2>7
    <3> QED BY <2>4, <2>7, <3>1, SetKeeps
  <2>9. CacheOf(store, evictToBounds(setCached(rest, entry)))
    BY <2>8, EvictKeeps
  <2>10. Fits(evictToBounds(setCached(rest, entry)))
    BY <2>8, EvictKeeps
  <2> QED BY <1>1, <2>4, <2>5, <2>6, <2>9, <2>10
<1> QED BY <1>5, <1>6

-----------------------------------------------------------------------------
(* What every step keeps.                                                  *)

\* a scan is of the log as it is, or of one replaced since
Scanning(s) ==
  /\ s \in ScanType /\ s.generation <= generation
  /\ s.generation = generation => Current(s)

IndexOK ==
  /\ store \in Seq(EventRecord) /\ generation \in Nat
  /\ TextsOf(store, texts)
  /\ CacheOf(store, cache) /\ Fits(cache)
  /\ scan = [r \in Search |-> scan[r]]
  /\ \A r \in Search : scan[r].pc = "scanning" => Scanning(scan[r])

LEMMA IndexInitOK == IndexInit => IndexOK
<1> SUFFICES ASSUME IndexInit PROVE IndexOK
  OBVIOUS
<1>1. store = <<>> /\ <<>> \in Seq(EventRecord) /\ Len(store) = 0 /\ generation = 0
  BY DEF IndexInit
<1>2. texts = NoTexts /\ cache = NoReplays
  BY DEF IndexInit
<1>3. scan = [r \in Search |-> scan[r]] /\ \A r \in Search : scan[r].pc = "idle"
  BY DEF IndexInit, NotAsked
<1>4. TextsOf(store, texts)
  BY <1>1, <1>2, NoTextsOf
<1>5. CacheOf(store, cache) /\ Fits(cache)
  BY <1>2, NoReplaysOf
<1> QED BY <1>1, <1>3, <1>4, <1>5 DEF IndexOK

LEMMA AttemptIsCurrent ==
  ASSUME IndexOK, NEW n \in Nat
  PROVE  Current(Attempt(n))
<1>1. Len(store) \in Nat /\ generation \in Nat /\ <<>> \in Seq(Nat)
  BY DEF IndexOK
<1>2. /\ Attempt(n) \in ScanType /\ Attempt(n).generation = generation
      /\ Attempt(n).end = Len(store) /\ Attempt(n).next = 1 /\ Attempt(n).matches = <<>>
  BY <1>1 DEF Attempt, ScanType
<1>3. 1 \in 1..(Len(store) + 1)
  BY <1>1
<1> QED BY <1>1, <1>2, <1>3, NothingScanned DEF Current

\* The loop of a scan keeps all of it, and answers for the log as it is.
LEMMA ScanKeeps ==
  ASSUME IndexOK, NEW r \in Search, NEW s, Current(s), ScanOn(r, s)
  PROVE  /\ IndexOK'
         /\ \A q \in Search : q # r => scan'[q] = scan[q]
         /\ scan'[r].pc = "answered" =>
              LET hits == {i \in 1..scan'[r].end : store[i].hit}
              IN  /\ scan'[r].generation = generation
                  /\ AreFirstOf(scan'[r].matches, hits)
                  /\ scan'[r].truncated <=> ToSet(scan'[r].matches) # hits
<1>1. /\ store \in Seq(EventRecord) /\ generation \in Nat
      /\ TextsOf(store, texts) /\ CacheOf(store, cache) /\ Fits(cache)
      /\ scan = [q \in Search |-> scan[q]]
      /\ \A q \in Search : scan[q].pc = "scanning" => Scanning(scan[q])
  BY DEF IndexOK
<1>2. store' = store /\ generation' = generation /\ cache' = cache
  BY DEF ScanOn, replayVars
<1>3. PICK t : /\ Reached(t, s.end)
               /\ texts' = t.kept
               /\ scan' = [scan EXCEPT ![r] =
                    IF t.stop = "yield" THEN On(s, t)
                    ELSE Answered(On(s, t), t.stop = "full")]
  BY <1>1, ScanRuns
<1> DEFINE v == IF t.stop = "yield" THEN On(s, t) ELSE Answered(On(s, t), t.stop = "full")
<1>4. /\ scan' = [q \in Search |-> scan'[q]] /\ scan'[r] = v
      /\ \A q \in Search : q # r => scan'[q] = scan[q]
  BY <1>1, <1>3
<1> HIDE DEF v
<1>5. TextsOf(store, texts')
  BY <1>3 DEF Reached
<1>6. s \in ScanType /\ s.generation = generation
  BY DEF Current
<1>7. CASE t.stop = "yield"
  <2>1. v = On(s, t)
    BY <1>7 DEF v
  <2>2. Current(v)
    BY <1>3, <1>7, <2>1, YieldIsCurrent
  <2>3. Scanning(v) /\ v.pc = "scanning"
    BY <1>1, <2>2 DEF Scanning, Current, ScanType
  <2>4. \A q \in Search : scan'[q].pc = "scanning" => Scanning(scan'[q])
    BY <1>1, <1>4, <2>3
  <2>5. \A q \in Search : scan'[q].pc = "scanning" => Scanning(scan[q])'
    BY <1>2, <2>4 DEF Scanning, Current, Scanned
  <2>6. IndexOK'
    BY <1>1, <1>2, <1>4, <1>5, <2>5 DEF IndexOK, TextsOf, CacheOf, Fits
  <2> QED BY <1>4, <2>3, <2>6
<1>8. CASE t.stop # "yield"
  <2>1. v = Answered(On(s, t), t.stop = "full")
    BY <1>8 DEF v
  <2>2. /\ On(s, t).matches = t.matches /\ On(s, t).end = s.end
        /\ On(s, t).generation = s.generation
    BY <1>6 DEF On, ScanType
  <2>3. /\ v.pc = "answered" /\ v.matches = t.matches /\ v.end = s.end
        /\ v.generation = generation /\ v.truncated = (t.stop = "full")
    BY <1>6, <2>1, <2>2 DEF Answered
  <2>4. /\ AreFirstOf(t.matches, Hits(s.end))
        /\ (t.stop = "full") <=> ToSet(t.matches) # Hits(s.end)
    BY <1>1, <1>3, <1>8, AnswerIsFirst
  <2>5. \A q \in Search : scan'[q].pc = "scanning" => Scanning(scan'[q])
    BY <1>1, <1>4, <2>3
  <2>6. \A q \in Search : scan'[q].pc = "scanning" => Scanning(scan[q])'
    BY <1>2, <2>5 DEF Scanning, Current, Scanned
  <2>7. IndexOK'
    BY <1>1, <1>2, <1>4, <1>5, <2>6 DEF IndexOK, TextsOf, CacheOf, Fits
  <2>8. Hits(v.end) = {i \in 1..v.end : store[i].hit}
    BY DEF Hits
  <2>9. AreFirstOf(v.matches, Hits(v.end))
    BY <2>3, <2>4
  <2>10. v.truncated <=> ToSet(v.matches) # Hits(v.end)
    BY <2>3, <2>4
  <2> QED BY <1>4, <2>3, <2>7, <2>8, <2>9, <2>10
<1> QED BY <1>7, <1>8

\* What a step does to the search of a request.
Answering(r) ==
  (scan'[r] # scan[r] /\ scan'[r].pc = "answered") =>
    LET hits == {i \in 1..scan'[r].end : store[i].hit}
    IN  /\ scan'[r].generation = generation
        /\ AreFirstOf(scan'[r].matches, hits)
        /\ scan'[r].truncated <=> ToSet(scan'[r].matches) # hits

LEMMA ScanAnswers ==
  ASSUME IndexOK, NEW r \in Search, NEW s, Current(s), ScanOn(r, s)
  PROVE  IndexOK' /\ \A q \in Search : Answering(q)
<1>1. IndexOK'
  BY ScanKeeps
<1>2. ASSUME NEW q \in Search PROVE Answering(q)
  <2>1. CASE q = r
    BY <2>1, ScanKeeps DEF Answering
  <2>2. CASE q # r
    <3>1. scan'[q] = scan[q]
      BY <2>2, ScanKeeps
    <3> QED BY <3>1 DEF Answering
  <2> QED BY <2>1, <2>2
<1> QED BY <1>1, <1>2

LEMMA IndexNextOK ==
  IndexOK /\ [IndexNext]_vars => IndexOK' /\ \A q \in Search : Answering(q)
<1> SUFFICES ASSUME IndexOK, [IndexNext]_vars
             PROVE  IndexOK' /\ \A q \in Search : Answering(q)
  OBVIOUS
<1>1. /\ store \in Seq(EventRecord) /\ generation \in Nat
      /\ TextsOf(store, texts) /\ CacheOf(store, cache) /\ Fits(cache)
      /\ scan = [q \in Search |-> scan[q]]
      /\ \A q \in Search : scan[q].pc = "scanning" => Scanning(scan[q])
  BY DEF IndexOK
<1>2. ASSUME scan' = scan PROVE \A q \in Search : Answering(q)
  BY <1>2 DEF Answering
<1>3. ASSUME UNCHANGED vars PROVE IndexOK' /\ \A q \in Search : Answering(q)
  <2>1. /\ store' = store /\ generation' = generation /\ texts' = texts
        /\ scan' = scan /\ cache' = cache
    BY <1>3 DEF vars, searchVars, replayVars
  <2>2. \A q \in Search : scan[q].pc = "scanning" => Scanning(scan[q])'
    BY <1>1, <2>1 DEF Scanning, Current, Scanned
  <2> QED BY <1>1, <1>2, <2>1, <2>2 DEF IndexOK, TextsOf, CacheOf, Fits
<1>4. ASSUME NEW hit \in BOOLEAN, NEW bytes \in TextBytes, ingestLine(hit, bytes)
      PROVE  IndexOK' /\ \A q \in Search : Answering(q)
  <2> DEFINE e == Event(Len(store) + 1, hit, bytes)
  <2>1. /\ store' = Append(store, e) /\ generation' = generation /\ texts' = texts
        /\ scan' = scan /\ cache' = cache
    BY <1>4 DEF ingestLine, searchVars, replayVars
  <2>2. e \in EventRecord
    BY <1>1 DEF Event, EventRecord
  <2> HIDE DEF e
  <2>3. store' \in Seq(EventRecord) /\ TextsOf(store', texts) /\ CacheOf(store', cache)
    BY <1>1, <2>1, <2>2, TextsSurvive, CacheSurvives
  <2>4. /\ Len(store') = Len(store) + 1 /\ Len(store) \in Nat
        /\ \A n \in 1..Len(store) : store'[n] = store[n]
    BY <1>1, <2>1, <2>2
  <2>5. ASSUME NEW s, Scanning(s) PROVE Scanning(s)'
    <3>1. s \in ScanType /\ s.generation <= generation
      BY <2>5 DEF Scanning
    <3>2. ASSUME s.generation = generation PROVE Current(s)'
      <4>1. /\ s.end <= Len(store) /\ s.next \in 1..(s.end + 1) /\ s.end \in Nat
            /\ Scanned(s.matches, s.next)
        BY <2>5, <3>1, <3>2 DEF Scanning, Current, ScanType
      <4>2. s.end <= Len(store') /\ \A i \in 1..(s.next - 1) : store'[i] = store[i]
        BY <2>4, <4>1
      <4> DEFINE m == s.matches
                 next == s.next
      <4>3. Scanned(m, next)'
        <5>1. /\ m \in Seq(Nat) /\ Len(m) <= limit
              /\ \A j, k \in DOMAIN m : j < k => m[j] < m[k]
              /\ \A j \in DOMAIN m : m[j] \in 1..(next - 1) /\ store[m[j]].hit
              /\ \A i \in 1..(next - 1) : store[i].hit => i \in ToSet(m)
          BY <4>1 DEF Scanned
        <5>2. \A i \in 1..(next - 1) : store'[i] = store[i]
          BY <4>2
        <5> HIDE DEF m, next
        <5>3. \A j \in DOMAIN m : m[j] \in 1..(next - 1) /\ store'[m[j]].hit
          BY <5>1, <5>2
        <5>4. \A i \in 1..(next - 1) : store'[i].hit => i \in ToSet(m)
          BY <5>1, <5>2
        <5> QED BY <5>1, <5>3, <5>4 DEF Scanned
      <4> HIDE DEF m, next
      <4>4. Scanned(s.matches, s.next)'
        BY <4>3 DEF m, next
      <4> QED BY <2>1, <3>1, <3>2, <4>1, <4>2, <4>4 DEF Current
    <3> QED BY <2>1, <3>1, <3>2 DEF Scanning
  <2>6. \A q \in Search : scan'[q].pc = "scanning" => Scanning(scan[q])'
    BY <1>1, <2>1, <2>5
  <2> QED BY <1>1, <1>2, <2>1, <2>3, <2>6 DEF IndexOK, Fits, TextsOf, CacheOf
<1>5. ASSUME onReset PROVE IndexOK' /\ \A q \in Search : Answering(q)
  <2>1. /\ store' = <<>> /\ generation' = generation + 1 /\ texts' = NoTexts
        /\ scan' = scan /\ cache' = NoReplays
    BY <1>5 DEF onReset
  <2>2. store' \in Seq(EventRecord) /\ Len(store') = 0 /\ generation' \in Nat
    BY <1>1, <2>1
  <2>3. TextsOf(store', texts')
    BY <2>1, <2>2, NoTextsOf
  <2>4. CacheOf(store', cache') /\ Fits(cache')
    BY <2>1, NoReplaysOf
  <2>5. ASSUME NEW q \in Search, scan'[q].pc = "scanning" PROVE Scanning(scan[q])'
    <3>1. Scanning(scan[q])
      BY <1>1, <2>1, <2>5
    <3>2. /\ scan[q] \in ScanType /\ scan[q].generation <= generation
          /\ scan[q].generation \in Nat
      BY <3>1 DEF Scanning, ScanType
    <3>3. scan[q].generation <= generation' /\ scan[q].generation # generation'
      BY <1>1, <2>1, <3>2
    <3> QED BY <2>1, <3>2, <3>3 DEF Scanning
  <2> QED BY <1>1, <1>2, <2>1, <2>2, <2>3, <2>4, <2>5 DEF IndexOK, TextsOf, CacheOf, Fits
<1>6. ASSUME NEW r \in Search, scanAsync(r)
      PROVE  IndexOK' /\ \A q \in Search : Answering(q)
  <2>1. ScanOn(r, Attempt(0)) /\ Current(Attempt(0))
    BY <1>6, AttemptIsCurrent DEF scanAsync
  <2> QED BY <2>1, ScanAnswers
<1>7. ASSUME NEW r \in Search, Resume(r)
      PROVE  IndexOK' /\ \A q \in Search : Answering(q)
  <2>1. scan[r].pc = "scanning" /\ Scanning(scan[r])
    BY <1>1, <1>7 DEF Resume
  <2>2. CASE scan[r].generation = generation
    <3>1. ScanOn(r, scan[r]) /\ Current(scan[r])
      BY <1>7, <2>1, <2>2 DEF Resume, Scanning
    <3> QED BY <3>1, ScanAnswers
  <2>3. CASE scan[r].generation # generation /\ scan[r].attempt < MAX_SCAN_RESTARTS
    <3>1. scan[r].attempt + 1 \in Nat
      BY <2>1 DEF Scanning, ScanType
    <3>2. ScanOn(r, Attempt(scan[r].attempt + 1))
      BY <1>7, <2>3 DEF Resume
    <3>3. Current(Attempt(scan[r].attempt + 1))
      BY <3>1, AttemptIsCurrent
    <3> QED BY <3>2, <3>3, ScanAnswers
  <2>4. CASE scan[r].generation # generation /\ ~(scan[r].attempt < MAX_SCAN_RESTARTS)
    <3>1. /\ scan' = [scan EXCEPT ![r] = [pc |-> "changed"]]
          /\ store' = store /\ generation' = generation /\ texts' = texts /\ cache' = cache
      BY <1>7, <2>4 DEF Resume, replayVars
    <3>2. /\ scan' = [q \in Search |-> scan'[q]] /\ scan'[r].pc = "changed"
          /\ \A q \in Search : q # r => scan'[q] = scan[q]
      BY <1>1, <3>1
    <3>3. \A q \in Search : scan'[q].pc = "scanning" => Scanning(scan'[q])
      BY <1>1, <3>2
    <3>4. \A q \in Search : scan'[q].pc = "scanning" => Scanning(scan[q])'
      BY <3>1, <3>3 DEF Scanning, Current, Scanned
    <3>5. IndexOK'
      BY <1>1, <3>1, <3>2, <3>4 DEF IndexOK, TextsOf, CacheOf, Fits
    <3>6. ASSUME NEW q \in Search PROVE Answering(q)
      BY <3>2 DEF Answering
    <3> QED BY <3>5, <3>6
  <2> QED BY <2>2, <2>3, <2>4
<1>8. ASSUME NEW target \in DOMAIN store, stateAtIndex(target)
      PROVE  IndexOK' /\ \A q \in Search : Answering(q)
  <2>1. store' = store /\ generation' = generation /\ texts' = texts /\ scan' = scan
    BY <1>8 DEF stateAtIndex, searchVars
  <2>2. CacheOf(store, cache') /\ Fits(cache')
    BY <1>1, <1>8, StateKeeps
  <2>3. \A q \in Search : scan[q].pc = "scanning" => Scanning(scan[q])'
    BY <1>1, <2>1 DEF Scanning, Current, Scanned
  <2> QED BY <1>1, <1>2, <2>1, <2>2, <2>3 DEF IndexOK, TextsOf, CacheOf, Fits
<1> QED BY <1>3, <1>4, <1>5, <1>6, <1>7, <1>8 DEF IndexNext

-----------------------------------------------------------------------------

LEMMA IndexAlwaysOK == IndexSpec => []IndexOK
<1>1. IndexOK /\ [IndexNext]_vars => IndexOK'
  BY IndexNextOK
<1> QED BY <1>1, IndexInitOK, PTL DEF IndexSpec

LEMMA OKIsSound == IndexOK => KeptIsSound
<1> SUFFICES ASSUME IndexOK PROVE KeptIsSound
  OBVIOUS
<1>1. DOMAIN store = 1..Len(store) /\ TextsOf(store, texts) /\ CacheOf(store, cache) /\ Fits(cache)
  BY DEF IndexOK
<1>2. KeptIsFresh
  BY <1>1 DEF KeptIsFresh, TextsOf, CacheOf
<1>3. SizeOfTexts(texts.cached) = Total(Sizes(store, texts.cached))
  BY DEF SizeOfTexts, Sizes
<1>4. CostOf(cache.entries) = Total(Costs(cache.entries))
  BY DEF CostOf, Costs
<1>5. KeptIsBounded
  BY <1>1, <1>3, <1>4 DEF KeptIsBounded, TextsOf, CacheOf
<1> QED BY <1>2, <1>5 DEF KeptIsSound

\* What the search index and the cache of replayed states keep is always of the
\* log as it is, counted as the code counts it, and within the limits, for any
\* log, limits, searches, and order of questions, events and rotations.
THEOREM KeptCorrect == IndexSpec => []KeptIsSound
BY IndexAlwaysOK, OKIsSound, PTL

\* A search answers with the first matches of one revision of the log, all of
\* those it has room for, and says truncated exactly when there were more.
THEOREM SearchAnswersCorrect == IndexSpec => AnswersAreOfTheLog
<1>1. IndexOK /\ [IndexNext]_vars => \A q \in Search : Answering(q)
  BY IndexNextOK
<1>2. IndexOK /\ [IndexNext]_vars =>
        [\A r \in Search : (scan'[r] # scan[r] /\ scan'[r].pc = "answered") =>
           LET hits == {i \in 1..scan'[r].end : store[i].hit}
           IN  /\ scan'[r].generation = generation
               /\ AreFirstOf(scan'[r].matches, hits)
               /\ scan'[r].truncated <=> ToSet(scan'[r].matches) # hits]_vars
  BY <1>1 DEF Answering
<1> QED BY <1>2, IndexAlwaysOK, PTL DEF IndexSpec, AnswersAreOfTheLog

=============================================================================
