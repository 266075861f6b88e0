----------------------------- MODULE ChatProofs -----------------------------
(***************************************************************************)
(* Theorems about ChatChannel, for any ids, clients and bounds.            *)
(***************************************************************************)
EXTENDS ChatChannel, SequenceTheorems, NaturalsInduction, WellFoundedInduction, TLAPS

-----------------------------------------------------------------------------
(* Numbers and lists.                                                      *)

\* A set of natural numbers has a least element.
LEMMA LeastNumber ==
  ASSUME NEW T, T \subseteq Nat, T # {}
  PROVE  \E n \in T : \A m \in T : n <= m
<1>1. PICK n \in T : \A m \in T : ~(<<m, n>> \in OpToRel(<, Nat))
  BY NatLessThanWellFounded, WFMin
<1>2. ASSUME NEW m \in T, m < n PROVE FALSE
  <2>1. <<m, n>> \in OpToRel(<, Nat)
    BY <1>2 DEF OpToRel
  <2> QED BY <1>1, <2>1
<1> QED BY <1>2

LEMMA LeastIsMember ==
  ASSUME NEW T, T \subseteq Nat, T # {}
  PROVE  Min(T) \in T /\ \A m \in T : Min(T) <= m
  BY LeastNumber DEF Min

\* What holds of 0, and of n when it holds of n - 1, holds up to k: Good is the
\* set of the numbers it holds of.
LEMMA UpTo ==
  ASSUME NEW k \in Nat, NEW Good, 0 \in Good,
         \A n \in 1..k : n - 1 \in Good => n \in Good
  PROVE  \A n \in 0..k : n \in Good
<1> DEFINE T == {n \in 0..k : n \notin Good}
<1>1. ASSUME T # {} PROVE FALSE
  <2>1. T \subseteq Nat
    OBVIOUS
  <2>2. PICK n \in T : \A m \in T : n <= m
    <3> HIDE DEF T
    <3> QED BY <1>1, <2>1, LeastNumber
  <2>3. n # 0 /\ n - 1 \in 0..k /\ n - 1 \notin T
    BY <2>2
  <2> QED BY <2>2, <2>3
<1> QED BY <1>1

\* A list without one of its members.
LEMMA RemovedAt ==
  ASSUME NEW S, NEW s \in Seq(S), NEW i \in 1..Len(s)
  PROVE  /\ RemoveAt(s, i) \in Seq(S)
         /\ Len(RemoveAt(s, i)) = Len(s) - 1
         /\ \A n \in 1..Len(s) - 1 :
              RemoveAt(s, i)[n] = IF n < i THEN s[n] ELSE s[n + 1]
<1> DEFINE before == SubSeq(s, 1, i - 1)
           after  == SubSeq(s, i + 1, Len(s))
<1>1. Len(s) \in Nat /\ i \in Int /\ 1 <= i /\ i <= Len(s)
  OBVIOUS
<1>2. \A n \in 1..Len(s) : s[n] \in S
  BY ElementOfSeq
<1>3. /\ before \in Seq(S) /\ Len(before) = i - 1
      /\ \A n \in 1..i - 1 : before[n] = s[n]
  <2>1. \A n \in 1..i - 1 : s[n] \in S
    BY <1>1, <1>2
  <2>2. /\ before \in Seq(S)
        /\ Len(before) = IF 1 <= i - 1 THEN (i - 1) - 1 + 1 ELSE 0
        /\ \A n \in 1..(i - 1) - 1 + 1 : before[n] = s[1 + n - 1]
    BY <1>1, <2>1, SubSeqProperties
  <2> HIDE DEF before
  <2>3. \A n \in 1..i - 1 : 1 + n - 1 = n
    BY <1>1
  <2> QED
    BY <1>1, <2>2, <2>3
<1>4. /\ after \in Seq(S) /\ Len(after) = Len(s) - i
      /\ \A n \in 1..Len(s) - i : after[n] = s[i + n]
  <2>1. \A n \in i + 1..Len(s) : s[n] \in S
    BY <1>1, <1>2
  <2>2. i + 1 \in Int /\ Len(s) \in Int
    BY <1>1
  <2>3. /\ after \in Seq(S)
        /\ Len(after) = IF i + 1 <= Len(s) THEN Len(s) - (i + 1) + 1 ELSE 0
        /\ \A n \in 1..Len(s) - (i + 1) + 1 : after[n] = s[(i + 1) + n - 1]
    BY <2>1, <2>2, SubSeqProperties
  <2> HIDE DEF after
  <2>4. \A n \in 1..Len(s) - i : (i + 1) + n - 1 = i + n
    BY <1>1
  <2> QED
    BY <1>1, <2>3, <2>4
<1>5. RemoveAt(s, i) = before \o after
  BY DEF RemoveAt
<1> HIDE DEF before, after
<1>6. /\ before \o after \in Seq(S)
      /\ Len(before \o after) = (i - 1) + (Len(s) - i)
      /\ \A n \in 1..(i - 1) + (Len(s) - i) :
           (before \o after)[n] = IF n <= i - 1 THEN before[n] ELSE after[n - (i - 1)]
  <2>1. /\ before \o after \in Seq(S)
        /\ Len(before \o after) = Len(before) + Len(after)
        /\ \A n \in 1..Len(before) + Len(after) :
             (before \o after)[n] =
               IF n <= Len(before) THEN before[n] ELSE after[n - Len(before)]
    BY <1>3, <1>4, ConcatProperties
  <2> QED
    BY <1>3, <1>4, <2>1
<1>7. (i - 1) + (Len(s) - i) = Len(s) - 1
  BY <1>1
<1>8. ASSUME NEW n \in 1..Len(s) - 1
      PROVE  RemoveAt(s, i)[n] = IF n < i THEN s[n] ELSE s[n + 1]
  <2>1. CASE n < i
    BY <1>1, <1>3, <1>5, <1>6, <2>1
  <2>2. CASE ~(n < i)
    <3>1. n - (i - 1) \in 1..Len(s) - i /\ i + (n - (i - 1)) = n + 1
      BY <1>1, <2>2
    <3>2. after[n - (i - 1)] = s[n + 1]
      BY <1>4, <3>1
    <3>3. RemoveAt(s, i)[n] = after[n - (i - 1)]
      <4>1. n \in 1..(i - 1) + (Len(s) - i)
        BY <1>7
      <4>2. ~(n <= i - 1)
        BY <1>1, <2>2
      <4> QED
        BY <1>5, <1>6, <4>1, <4>2
    <3> QED
      BY <2>2, <3>2, <3>3
  <2> QED
    BY <2>1, <2>2
<1> QED
  BY <1>5, <1>6, <1>7, <1>8

\* A place a test holds of, as SelectInSeq picks it.
LEMMA FirstPlace ==
  ASSUME NEW n \in Nat, NEW I, I \subseteq 1..n, NEW i, i = IF I # {} THEN Min(I) ELSE 0
  PROVE  /\ I = {} => i = 0
         /\ I # {} => i \in I /\ i \in 1..n /\ i # 0 /\ \A j \in I : i <= j
<1>1. I \subseteq Nat
  OBVIOUS
<1>2. CASE I = {}
  BY <1>2
<1>3. CASE I # {}
  <2>1. Min(I) \in I /\ \A j \in I : Min(I) <= j
    BY <1>1, <1>3, LeastIsMember
  <2>2. i = Min(I)
    BY <1>3
  <2>3. i \in I
    BY <2>1, <2>2
  <2>4. i \in 1..n /\ i # 0
    BY <2>3
  <2>5. \A j \in I : i <= j
    BY <2>1, <2>2
  <2> QED BY <1>3, <2>3, <2>4, <2>5
<1> QED BY <1>2, <1>3

\* What a filter makes of the first k entries of a list.
Filtered(F, list, k, set, out) ==
  /\ out \in Seq(F)
  /\ \A i \in 1..Len(out) : out[i] \in set /\ \E p \in 1..k : out[i] = list[p]
  /\ \A i, j \in 1..Len(out) :
       i < j => \E p, q \in 1..k : p < q /\ out[i] = list[p] /\ out[j] = list[q]
  /\ \A p \in 1..k : list[p] \in set => \E i \in 1..Len(out) : out[i] = list[p]

LEMMA FilteredMore ==
  ASSUME NEW F, NEW list \in Seq(F), NEW k \in 1..Len(list), NEW set, NEW out,
         Filtered(F, list, k - 1, set, out)
  PROVE  Filtered(F, list, k, set, IF list[k] \in set THEN Append(out, list[k]) ELSE out)
<1> DEFINE more == Append(out, list[k])
           e == list[k]
           n == Len(out)
<1>1. out \in Seq(F) /\ n \in Nat /\ k \in Nat /\ e \in F /\ k \in 1..k /\ \A p \in 1..(k - 1) : p \in 1..k /\ p < k
  BY ElementOfSeq DEF Filtered
<1>2. CASE e \notin set
  <2>1. \A p \in 1..k : list[p] \in set => p \in 1..(k - 1)
    BY <1>2
  <2>2. Filtered(F, list, k, set, out)
    BY <1>1, <2>1 DEF Filtered
  <2> QED BY <1>2, <2>2
<1>3. CASE e \in set
  <2>1. /\ more \in Seq(F) /\ Len(more) = n + 1
        /\ \A i \in 1..n : more[i] = out[i]
        /\ more[n + 1] = e
    BY <1>1, AppendProperties
  <2> HIDE DEF more, n
  <2>2. \A i \in 1..Len(more) : i \in 1..n \/ i = n + 1
    BY <1>1, <2>1
  <2>3. \A i \in 1..n : i \in 1..Len(more) /\ i < n + 1
    BY <1>1, <2>1
  <2>4. n + 1 \in 1..Len(more)
    BY <1>1, <2>1
  <2>5. ASSUME NEW i \in 1..Len(more) PROVE more[i] \in set /\ \E p \in 1..k : more[i] = list[p]
    <3>1. CASE i \in 1..n
      <4>1. out[i] \in set /\ \E p \in 1..(k - 1) : out[i] = list[p]
        BY <3>1 DEF Filtered, n
      <4>2. more[i] = out[i]
        BY <2>1, <3>1
      <4> QED BY <1>1, <4>1, <4>2
    <3>2. CASE i = n + 1
      BY <1>1, <1>3, <2>1, <3>2
    <3> QED BY <2>2, <3>1, <3>2
  <2>6. ASSUME NEW i \in 1..Len(more), NEW j \in 1..Len(more), i < j
        PROVE  \E p, q \in 1..k : p < q /\ more[i] = list[p] /\ more[j] = list[q]
    <3>1. i \in 1..n
      BY <1>1, <2>1, <2>6
    <3>2. CASE j \in 1..n
      <4>1. PICK p \in 1..(k - 1), q \in 1..(k - 1) : p < q /\ out[i] = list[p] /\ out[j] = list[q]
        BY <2>6, <3>1, <3>2 DEF Filtered, n
      <4>2. more[i] = out[i] /\ more[j] = out[j] /\ p \in 1..k /\ q \in 1..k
        BY <1>1, <2>1, <3>1, <3>2
      <4> QED BY <4>1, <4>2
    <3>3. CASE j = n + 1
      <4>1. PICK p \in 1..(k - 1) : out[i] = list[p]
        BY <3>1 DEF Filtered, n
      <4> QED BY <1>1, <2>1, <3>1, <3>3, <4>1
    <3> QED BY <2>2, <3>2, <3>3
  <2>7. ASSUME NEW p \in 1..k, list[p] \in set PROVE \E i \in 1..Len(more) : more[i] = list[p]
    <3>1. CASE p = k
      BY <2>1, <2>4, <3>1
    <3>2. CASE p # k
      <4>1. p \in 1..(k - 1)
        BY <3>2
      <4>2. PICK i \in 1..n : out[i] = list[p]
        BY <2>7, <4>1 DEF Filtered, n
      <4> QED BY <2>1, <2>3, <4>2
    <3> QED BY <3>1, <3>2
  <2>8. Filtered(F, list, k, set, more)
    BY <2>1, <2>5, <2>6, <2>7 DEF Filtered
  <2> QED BY <1>3, <2>8 DEF more
<1> QED BY <1>2, <1>3

\* run is what is kept before each of the first k entries, and at the end.
IsFilter(list, set, run, k) ==
  /\ run = [n \in 0..k |-> run[n]]
  /\ run[0] = <<>>
  /\ \A n \in 1..k : run[n] = IF list[n] \in set THEN Append(run[n - 1], list[n]) ELSE run[n - 1]

LEMMA FiltersExist ==
  ASSUME NEW list, NEW set, NEW k \in Nat
  PROVE  \E run : IsFilter(list, set, run, k)
<1> DEFINE Runs == {n \in 0..k : \E run : IsFilter(list, set, run, n)}
<1>1. 0 \in Runs
  <2> DEFINE run == [n \in 0..0 |-> <<>>]
  <2>1. run = [n \in 0..0 |-> run[n]] /\ run[0] = <<>>
    OBVIOUS
  <2> HIDE DEF run
  <2>2. IsFilter(list, set, run, 0)
    BY <2>1 DEF IsFilter
  <2> QED BY <2>2
<1>2. ASSUME NEW m \in 1..k, m - 1 \in Runs PROVE m \in Runs
  <2>1. PICK run : IsFilter(list, set, run, m - 1)
    BY <1>2
  <2> DEFINE last == IF list[m] \in set THEN Append(run[m - 1], list[m]) ELSE run[m - 1]
             more == [n \in 0..m |-> IF n = m THEN last ELSE run[n]]
  <2> HIDE DEF last
  <2>2. more = [n \in 0..m |-> more[n]]
    OBVIOUS
  <2>3. more[m] = last /\ \A n \in 0..(m - 1) : more[n] = run[n]
    OBVIOUS
  <2> HIDE DEF more
  <2>4. ASSUME NEW n \in 1..m
        PROVE  more[n] = IF list[n] \in set THEN Append(more[n - 1], list[n]) ELSE more[n - 1]
    <3>1. CASE n = m
      <4>1. m - 1 \in 0..(m - 1)
        OBVIOUS
      <4>2. more[n - 1] = run[m - 1]
        BY <2>3, <3>1, <4>1
      <4> QED BY <2>3, <3>1, <4>2 DEF last
    <3>2. CASE n # m
      <4>1. n \in 1..(m - 1) /\ n \in 0..(m - 1) /\ n - 1 \in 0..(m - 1)
        BY <3>2
      <4>2. run[n] = IF list[n] \in set THEN Append(run[n - 1], list[n]) ELSE run[n - 1]
        BY <2>1, <4>1 DEF IsFilter
      <4> QED BY <2>3, <4>1, <4>2
    <3> QED BY <3>1, <3>2
  <2>5. more[0] = <<>>
    <3>1. 0 \in 0..(m - 1)
      OBVIOUS
    <3> QED BY <2>1, <2>3, <3>1 DEF IsFilter
  <2>6. IsFilter(list, set, more, m)
    BY <2>2, <2>4, <2>5 DEF IsFilter
  <2>7. m \in 0..k
    OBVIOUS
  <2> QED BY <2>6, <2>7
<1>3. k \in 0..k
  OBVIOUS
<1>4. k \in Runs
  <2> HIDE DEF Runs
  <2> QED BY <1>1, <1>2, <1>3, UpTo
<1> QED BY <1>4

\* A filter keeps what is in the set, all of it, once each and in order.
LEMMA KeptOnly ==
  ASSUME NEW F, NEW list \in Seq(F), NEW set
  PROVE  Filtered(F, list, Len(list), set, KeepOnly(list, set))
<1> DEFINE k == Len(list)
           body(f) == [n \in 0..k |->
             IF n = 0 THEN <<>>
             ELSE IF list[n] \in set THEN Append(f[n - 1], list[n]) ELSE f[n - 1]]
           kept == CHOOSE f : f = body(f)
<1>1. k \in Nat
  OBVIOUS
<1>2. KeepOnly(list, set) = kept[k]
  BY DEF KeepOnly
<1> HIDE DEF k
<1>3. PICK run : IsFilter(list, set, run, k)
  BY <1>1, FiltersExist
<1>4. run = body(run)
  <2>1. run = [n \in 0..k |-> run[n]]
    BY <1>3 DEF IsFilter
  <2>2. ASSUME NEW n \in 0..k
        PROVE  run[n] = IF n = 0 THEN <<>>
                        ELSE IF list[n] \in set THEN Append(run[n - 1], list[n]) ELSE run[n - 1]
    <3>1. CASE n = 0
      BY <1>3, <3>1 DEF IsFilter
    <3>2. CASE n # 0
      <4>1. n \in 1..k
        BY <1>1, <3>2
      <4> QED BY <1>3, <3>2, <4>1 DEF IsFilter
    <3> QED BY <3>1, <3>2
  <2> QED BY <2>1, <2>2
<1>5. kept = body(kept)
  <2> HIDE DEF body
  <2> QED BY <1>4
<1> HIDE DEF kept
<1>6. /\ \A n \in 0..k : kept[n] = IF n = 0 THEN <<>>
           ELSE IF list[n] \in set THEN Append(kept[n - 1], list[n]) ELSE kept[n - 1]
  <2> DEFINE g == kept
  <2>1. \A n \in 0..k : body(g)[n] = IF n = 0 THEN <<>>
           ELSE IF list[n] \in set THEN Append(g[n - 1], list[n]) ELSE g[n - 1]
    OBVIOUS
  <2> HIDE DEF body
  <2> QED BY <1>5, <2>1
<1> DEFINE Fine == {n \in 0..k : Filtered(F, list, n, set, kept[n])}
<1>7. 0 \in Fine
  <2>1. kept[0] = <<>>
    BY <1>1, <1>6
  <2>2. <<>> \in Seq(F) /\ Len(<<>>) = 0
    OBVIOUS
  <2>3. Filtered(F, list, 0, set, <<>>)
    BY <2>2 DEF Filtered
  <2> QED BY <1>1, <2>1, <2>3
<1>8. ASSUME NEW n \in 1..k, n - 1 \in Fine PROVE n \in Fine
  <2> DEFINE out == kept[n - 1]
  <2>1. Filtered(F, list, n - 1, set, out)
    BY <1>8
  <2>2. n \in 0..k /\ n # 0
    BY <1>1
  <2>3. kept[n] = IF list[n] \in set THEN Append(out, list[n]) ELSE out
    BY <1>6, <2>2
  <2> HIDE DEF out
  <2>4. n \in 1..Len(list)
    BY DEF k
  <2>5. Filtered(F, list, n, set, IF list[n] \in set THEN Append(out, list[n]) ELSE out)
    BY <2>1, <2>4, FilteredMore
  <2> QED BY <2>2, <2>3, <2>5
<1>9. k \in Fine
  <2>1. k \in 0..k
    BY <1>1
  <2> HIDE DEF Fine
  <2> QED BY <1>1, <1>7, <1>8, <2>1, UpTo
<1> QED BY <1>2, <1>9 DEF k

LEMMA KeptDistinct ==
  ASSUME NEW F, NEW list \in Seq(F), NEW set, Distinct(list)
  PROVE  Distinct(KeepOnly(list, set))
<1> DEFINE out == KeepOnly(list, set)
<1>1. Filtered(F, list, Len(list), set, out)
  BY KeptOnly
<1> HIDE DEF out
<1>2. ASSUME NEW i \in 1..Len(out), NEW j \in 1..Len(out), i < j PROVE out[i] # out[j]
  <2>1. PICK p \in 1..Len(list), q \in 1..Len(list) : p < q /\ out[i] = list[p] /\ out[j] = list[q]
    BY <1>1, <1>2 DEF Filtered
  <2>2. p # q /\ p \in DOMAIN list /\ q \in DOMAIN list
    BY <2>1
  <2> QED BY <2>1, <2>2 DEF Distinct
<1>3. out \in Seq(F)
  BY <1>1 DEF Filtered
<1> QED BY <1>2, <1>3 DEF Distinct, out

-----------------------------------------------------------------------------
(* What is true of a chat at any time.                                     *)

\* The value for what is absent is not a turn, nor one of the reasons and outcomes of a call.
Apart ==
  /\ None \notin ConfirmationReason \cup CancellationReason \cup {"yes", "no"}
  /\ None \notin ActiveTurn
  /\ MaxChunks \in Nat

ConfirmedCalls(parts) == \A i \in 1..Len(parts) : IsCall(parts[i]) => CallIsConfirmed(parts[i].call)

\* The status that a turn under way, or none, calls for.
StatusOf(active) ==
  IF active # None /\ \E i \in 1..Len(active.parts) : AwaitsUser(active.parts[i]) THEN "InputNeeded"
  ELSE IF active # None THEN "InProgress" ELSE "Idle"

\* A turn of the history.
Ended(turn) ==
  /\ ConfirmedCalls(turn.parts)
  /\ \A i \in 1..Len(turn.parts) : IsCall(turn.parts[i]) => turn.parts[i].call.status \in Settled
  /\ turn.state = "error" => turn.parts # <<>> /\ Last(turn.parts).kind = "error"

FailedLast(turns) == turns # <<>> /\ Last(turns).state = "error"

\* A status of work that lags behind a part that came whole.
Lags(c) == c.unseen /\ c.active # None /\ c.status = "InProgress"

\* Messages and directories are listed once each.
ListsFine(c) ==
  /\ c.queued # None => c.queued # <<>> /\ Distinct(c.queued)
  /\ c.dirs # None => Distinct(c.dirs)

\* The inductive invariant, of a state c of the chat.
Good(c) ==
  /\ c \in ChatState
  /\ c.active # None => ConfirmedCalls(c.active.parts)
  /\ \A i \in 1..Len(c.turns) : Ended(c.turns[i])
  /\ \/ c.status = StatusOf(c.active)
     \/ Lags(c)
     \/ c.status = "Error" /\ c.active = None /\ FailedLast(c.turns)
  /\ ListsFine(c)

\* A call that is, at most, one step further in its life.
Moved(call, u) ==
  /\ u \in ToolCall
  /\ CallIsConfirmed(u)
  /\ u.id = call.id
  /\ u.status \in {call.status} \cup After(call.status)
  /\ call.status \in Settled => u = call
  /\ {call.contributor, u.contributor} \cap Client # {} => u.contributor = call.contributor

PartKept(p, q) ==
  IsCall(p) =>
    /\ IsCall(q) /\ q.call.id = p.call.id
    /\ q.call.status \in {p.call.status} \cup After(p.call.status)
    /\ p.call.status \in Settled => q = p
    /\ {p.call.contributor, q.call.contributor} \cap Client # {}
         => q.call.contributor = p.call.contributor

PartsKept(ps, qs) == \A i \in DOMAIN ps \cap DOMAIN qs : PartKept(ps[i], qs[i])

TurnsKept(ts, us) ==
  LET added == Len(us) - Len(ts)
  IN  \/ IsPrefix(us, ts)
      \/ IsPrefix(ts, us) /\ added = 1
      \/ /\ Len(ts) <= Len(us)
         /\ SubSeq(us, added + 1, Len(us)) = ts
         /\ \A i \in 1..added : us[i].id \notin Ids(ts)

\* CallAdvances, of two states.
Kept(c, d) ==
  /\ c.active # None /\ d.active # None /\ d.active.id = c.active.id =>
       PartsKept(c.active.parts, d.active.parts)
  /\ TurnsKept(c.turns, d.turns)

LEMMA KeptAdvances == CallAdvances <=> Kept(chat, chat')
  BY DEF CallAdvances, Kept, PartsKept, PartKept, TurnsKept, HistoryStands

LEMMA TurnsSame == ASSUME NEW ts \in Seq(Turn) PROVE TurnsKept(ts, ts)
  BY DEF TurnsKept, IsPrefix

\* The parts of a state.
LEMMA FieldsOf ==
  ASSUME NEW c \in ChatState
  PROVE  /\ c.turns \in Seq(Turn) /\ c.more \in BOOLEAN /\ c.active \in ActiveTurn \cup {None}
         /\ c.status \in ActivityStatus /\ c.isRead \in BOOLEAN /\ c.steering \in Message \cup {None}
         /\ c.unseen \in BOOLEAN
         /\ c.queued \in Seq(Message) \cup {None} /\ c.dirs \in Seq(Directory) \cup {None}
         /\ c.draft \in Draft \cup {None} /\ c.activity \in Activity \cup {None}
  BY DEF ChatState

LEMMA ActiveOf ==
  ASSUME NEW c \in ChatState, c.active # None
  PROVE  /\ c.active \in ActiveTurn
         /\ c.active.id \in TurnId /\ c.active.parts \in Seq(ResponsePart) /\ c.active.usage \in BOOLEAN
<1>1. c.active \in ActiveTurn
  BY FieldsOf
<1> QED BY <1>1 DEF ActiveTurn

LEMMA SummaryIs ==
  ASSUME NEW c, c.active # None => c.active.parts \in Seq(ResponsePart)
  PROVE  SummaryStatus(c) = StatusOf(c.active)
<1>1. CASE c.active = None
  BY <1>1 DEF SummaryStatus, StatusOf, HasOpenInputRequest, HasBlockingToolCall
<1>2. CASE c.active # None
  <2> DEFINE ps == c.active.parts
  <2>1. ps \in Seq(ResponsePart) /\ DOMAIN ps = 1..Len(ps)
    BY <1>2
  <2>2. (HasOpenInputRequest(c) \/ HasBlockingToolCall(c)) <=> \E i \in 1..Len(ps) : AwaitsUser(ps[i])
    BY <1>2, <2>1 DEF HasOpenInputRequest, HasBlockingToolCall, ToSet, AwaitsUser
  <2> QED BY <1>2, <2>2 DEF SummaryStatus, StatusOf
<1> QED BY <1>1, <1>2

LEMMA StatusType ==
  ASSUME NEW active
  PROVE  StatusOf(active) \in ActivityStatus /\ StatusOf(active) # "Error"
  BY DEF StatusOf, ActivityStatus

\* A refreshed state.
LEMMA Refreshed ==
  ASSUME NEW c \in ChatState
  PROVE  /\ RefreshSummaryStatus(c) \in ChatState
         /\ RefreshSummaryStatus(c) = [c EXCEPT !.status = StatusOf(c.active), !.unseen = FALSE]
<1>1. c.active # None => c.active.parts \in Seq(ResponsePart)
  BY ActiveOf
<1>2. SummaryStatus(c) = StatusOf(c.active)
  BY <1>1, SummaryIs
<1>3. RefreshSummaryStatus(c) = [c EXCEPT !.status = StatusOf(c.active), !.unseen = FALSE]
  BY <1>2 DEF RefreshSummaryStatus
<1>4. StatusOf(c.active) \in ActivityStatus
  BY StatusType
<1>5. [c EXCEPT !.status = StatusOf(c.active), !.unseen = FALSE] \in ChatState
  BY <1>4 DEF ChatState
<1> QED BY <1>3, <1>5

\* What a refresh leaves alone.
LEMMA RefreshedFields ==
  ASSUME NEW c \in ChatState, NEW d, d = RefreshSummaryStatus(c)
  PROVE  /\ d \in ChatState /\ d.status = StatusOf(c.active)
         /\ d.turns = c.turns /\ d.active = c.active /\ d.queued = c.queued /\ d.dirs = c.dirs
<1>1. d \in ChatState /\ d = [c EXCEPT !.status = StatusOf(c.active), !.unseen = FALSE]
  BY Refreshed
<1> HIDE DEF StatusOf
<1> QED BY <1>1 DEF ChatState

LEMMA UnreadFields ==
  ASSUME NEW c \in ChatState, NEW d, d = RefreshUnread(c)
  PROVE  /\ d \in ChatState /\ d.status = StatusOf(c.active)
         /\ d.turns = c.turns /\ d.active = c.active /\ d.queued = c.queued /\ d.dirs = c.dirs
<1> DEFINE e == RefreshSummaryStatus(c)
<1>1. /\ e \in ChatState /\ e.status = StatusOf(c.active)
      /\ e.turns = c.turns /\ e.active = c.active /\ e.queued = c.queued /\ e.dirs = c.dirs
  BY RefreshedFields
<1>2. d = [e EXCEPT !.isRead = FALSE]
  BY DEF RefreshUnread
<1> HIDE DEF e
<1>3. /\ d \in ChatState /\ d.status = e.status
      /\ d.turns = e.turns /\ d.active = e.active /\ d.queued = e.queued /\ d.dirs = e.dirs
  BY <1>1, <1>2 DEF ChatState
<1> QED BY <1>1, <1>3

\* A state with another turn under way, or with other parts in it.
WithActive(c, active) == [c EXCEPT !.active = active]
WithParts(c, parts) == [c EXCEPT !.active = [c.active EXCEPT !.parts = parts]]

LEMMA ActiveFields ==
  ASSUME NEW c \in ChatState, NEW active \in ActiveTurn \cup {None}, NEW d, d = WithActive(c, active)
  PROVE  /\ d \in ChatState /\ d.active = active /\ d.status = c.status /\ d.unseen = c.unseen
         /\ d.turns = c.turns /\ d.queued = c.queued /\ d.dirs = c.dirs
  BY DEF ChatState, WithActive

LEMMA PartsFields ==
  ASSUME NEW c \in ChatState, c.active # None, NEW parts \in Seq(ResponsePart),
         NEW d, d = WithParts(c, parts)
  PROVE  /\ d \in ChatState /\ d.status = c.status /\ d.unseen = c.unseen /\ d.active \in ActiveTurn
         /\ d.active.id = c.active.id /\ d.active.parts = parts
         /\ d.turns = c.turns /\ d.queued = c.queued /\ d.dirs = c.dirs
<1> DEFINE active == [c.active EXCEPT !.parts = parts]
<1>1. active \in ActiveTurn /\ active.id = c.active.id /\ active.parts = parts
  BY ActiveOf DEF ActiveTurn
<1> HIDE DEF active
<1>2. d = WithActive(c, active)
  BY DEF active, WithActive, WithParts
<1>3. active \in ActiveTurn \cup {None}
  BY <1>1
<1> QED BY <1>1, <1>2, <1>3, ActiveFields

\* A step of the turn under way.
LEMMA LiveStep ==
  ASSUME NEW c, Good(c), c.active # None, NEW d \in ChatState,
         d.active.id = c.active.id, ConfirmedCalls(d.active.parts),
         PartsKept(c.active.parts, d.active.parts), d.status = StatusOf(d.active) \/ Lags(d),
         d.turns = c.turns, d.queued = c.queued, d.dirs = c.dirs
  PROVE  Good(d) /\ Kept(c, d)
<1>1. Good(d)
  BY DEF Good, ListsFine
<1>2. TurnsKept(c.turns, d.turns)
  <2>1. c.turns \in Seq(Turn)
    BY FieldsOf DEF Good
  <2> QED BY <2>1, TurnsSame
<1>3. Kept(c, d)
  BY <1>2 DEF Kept
<1> QED BY <1>1, <1>3

\* The status of a turn under way is never that of a failed one.
LEMMA LiveStatus ==
  ASSUME NEW c, Good(c), c.active # None
  PROVE  c \in ChatState /\ (c.status = StatusOf(c.active) \/ Lags(c))
  BY DEF Good

\* A state refreshed where nothing changed.
LEMMA RefreshGood ==
  ASSUME NEW c, Good(c), NEW d, d = RefreshSummaryStatus(c)
  PROVE  Good(d) /\ Kept(c, d)
<1>1. c \in ChatState
  BY DEF Good
<1>2. /\ d \in ChatState /\ d.status = StatusOf(c.active)
      /\ d.turns = c.turns /\ d.active = c.active /\ d.queued = c.queued /\ d.dirs = c.dirs
  BY <1>1, RefreshedFields
<1>3. Good(d)
  BY <1>2 DEF Good, ListsFine
<1>4. c.turns \in Seq(Turn)
  BY <1>1, FieldsOf
<1>5. TurnsKept(c.turns, d.turns)
  BY <1>2, <1>4, TurnsSame
<1>6. PartsKept(c.active.parts, d.active.parts)
  BY <1>2 DEF PartsKept, PartKept
<1> QED BY <1>3, <1>5, <1>6 DEF Kept

\* A state in which only what is not about turns changed.
LEMMA AsideGood ==
  ASSUME NEW c, Good(c), NEW d \in ChatState,
         d.status = c.status, d.unseen = c.unseen, d.active = c.active, d.turns = c.turns, ListsFine(d)
  PROVE  Good(d) /\ Kept(c, d)
<1>1. Good(d)
  BY DEF Good, Lags
<1>2. c.turns \in Seq(Turn)
  BY FieldsOf DEF Good
<1>3. TurnsKept(c.turns, d.turns)
  BY <1>2, TurnsSame
<1>4. PartsKept(c.active.parts, d.active.parts)
  BY DEF PartsKept, PartKept
<1> QED BY <1>1, <1>3, <1>4 DEF Kept

-----------------------------------------------------------------------------
(* The tool calls of the turn under way.                                   *)

\* What a step that updates calls makes of a part.
CallMoved(p, q) == q = p \/ (IsCall(p) /\ \E u : Moved(p.call, u) /\ q = [p EXCEPT !.call = u])

LEMMA CallPart ==
  ASSUME NEW p \in ResponsePart, IsCall(p)
  PROVE  p \in ToolCallPart /\ p.call \in ToolCall
  BY DEF ResponsePart, IsCall, TextPart, OtherPart, ToolCallPart, ErrorPart, InputRequestPart

LEMMA CallPartMoved ==
  ASSUME NEW p \in ResponsePart, IsCall(p) => CallIsConfirmed(p.call), NEW q, CallMoved(p, q)
  PROVE  /\ q \in ResponsePart /\ (IsCall(q) => CallIsConfirmed(q.call)) /\ PartKept(p, q)
         /\ q.kind = p.kind
<1>1. CASE q = p
  BY <1>1 DEF PartKept
<1>2. CASE IsCall(p) /\ \E u : Moved(p.call, u) /\ q = [p EXCEPT !.call = u]
  <2>1. PICK u : Moved(p.call, u) /\ q = [p EXCEPT !.call = u]
    BY <1>2
  <2>2. p \in ToolCallPart
    BY <1>2, CallPart
  <2>3. u \in ToolCall
    BY <2>1 DEF Moved
  <2>4. q \in ToolCallPart /\ q.call = u /\ q.kind = "toolCall" /\ p.kind = "toolCall"
    BY <2>1, <2>2, <2>3 DEF ToolCallPart
  <2>5. u = p.call => q = p
    BY <2>1, <2>2 DEF ToolCallPart
  <2>6. q \in ResponsePart /\ IsCall(q)
    BY <2>4 DEF ResponsePart, IsCall
  <2>7. CallIsConfirmed(q.call)
    BY <2>1, <2>4 DEF Moved
  <2>8. PartKept(p, q)
    BY <2>1, <2>4, <2>5, <2>6 DEF Moved, PartKept
  <2> QED BY <2>4, <2>6, <2>7, <2>8
<1> QED BY <1>1, <1>2 DEF CallMoved

\* A part for every part.
Beside(ps, qs) == qs = [i \in DOMAIN ps |-> qs[i]]

\* Parts updated one by one.
LEMMA PartsMoved ==
  ASSUME NEW ps \in Seq(ResponsePart), ConfirmedCalls(ps), NEW qs, Beside(ps, qs),
         \A i \in 1..Len(ps) : CallMoved(ps[i], qs[i])
  PROVE  /\ qs \in Seq(ResponsePart) /\ Len(qs) = Len(ps)
         /\ ConfirmedCalls(qs) /\ PartsKept(ps, qs)
<1>1. DOMAIN ps = 1..Len(ps) /\ Len(ps) \in Nat
  OBVIOUS
<1>2. \A i \in 1..Len(ps) :
        /\ qs[i] \in ResponsePart
        /\ IsCall(qs[i]) => CallIsConfirmed(qs[i].call)
        /\ PartKept(ps[i], qs[i])
  BY <1>1, CallPartMoved, ElementOfSeq DEF ConfirmedCalls
<1> DEFINE n == Len(ps)
<1> HIDE DEF n
<1>3. n \in Nat /\ DOMAIN ps = 1..n /\ \A i \in 1..n : qs[i] \in ResponsePart
  BY <1>1, <1>2 DEF n
<1>7. qs = [i \in DOMAIN ps |-> qs[i]]
  BY DEF Beside
<1>8. qs = [i \in 1..n |-> qs[i]]
  BY <1>3, <1>7
<1>4. qs \in [1..n -> ResponsePart] /\ DOMAIN qs = 1..n
  BY <1>3, <1>8
<1>5. qs \in Seq(ResponsePart)
  BY <1>3, <1>4
<1>6. Len(qs) = Len(ps)
  <2>1. Len(qs) \in Nat /\ DOMAIN qs = 1..Len(qs)
    BY <1>5
  <2> QED BY <1>3, <1>4, <2>1 DEF n
<1>9. ConfirmedCalls(qs)
  BY <1>2, <1>6 DEF ConfirmedCalls
<1>10. PartsKept(ps, qs)
  BY <1>1, <1>2 DEF PartsKept
<1> QED BY <1>5, <1>6, <1>9, <1>10

\* A step of some calls that recomputes the status.
LEMMA CallsStep ==
  ASSUME NEW c, Good(c), c.active # None, NEW qs, Beside(c.active.parts, qs),
         \A i \in 1..Len(c.active.parts) : CallMoved(c.active.parts[i], qs[i]),
         NEW d, d = RefreshSummaryStatus(WithParts(c, qs))
  PROVE  Good(d) /\ Kept(c, d)
<1> DEFINE e == WithParts(c, qs)
<1>1. c \in ChatState /\ ConfirmedCalls(c.active.parts) /\ c.active.parts \in Seq(ResponsePart)
  BY ActiveOf DEF Good
<1>2. qs \in Seq(ResponsePart) /\ ConfirmedCalls(qs) /\ PartsKept(c.active.parts, qs)
  BY <1>1, PartsMoved
<1>3. /\ e \in ChatState /\ e.active.id = c.active.id /\ e.active.parts = qs
      /\ e.turns = c.turns /\ e.queued = c.queued /\ e.dirs = c.dirs
  BY <1>1, <1>2, PartsFields
<1> HIDE DEF e
<1>4. /\ d \in ChatState /\ d.status = StatusOf(e.active)
      /\ d.turns = e.turns /\ d.active = e.active /\ d.queued = e.queued /\ d.dirs = e.dirs
  BY <1>3, RefreshedFields DEF e
<1> QED BY <1>2, <1>3, <1>4, LiveStep

\* A step of some calls that leaves the status alone, as none begins or ceases to await its user.
LEMMA QuietStep ==
  ASSUME Apart, NEW c, Good(c), c.active # None, NEW qs, Beside(c.active.parts, qs),
         \A i \in 1..Len(c.active.parts) :
           /\ CallMoved(c.active.parts[i], qs[i])
           /\ IsCall(c.active.parts[i]) => qs[i].call.status = c.active.parts[i].call.status,
         NEW d, d = WithParts(c, qs)
  PROVE  Good(d) /\ Kept(c, d)
<1> DEFINE ps == c.active.parts
<1>1. c \in ChatState /\ ConfirmedCalls(ps) /\ ps \in Seq(ResponsePart)
  BY ActiveOf DEF Good
<1>2. qs \in Seq(ResponsePart) /\ Len(qs) = Len(ps) /\ ConfirmedCalls(qs) /\ PartsKept(ps, qs)
  BY <1>1, PartsMoved
<1>3. /\ d \in ChatState /\ d.active \in ActiveTurn /\ d.active.id = c.active.id
      /\ d.active.parts = qs /\ d.status = c.status /\ d.unseen = c.unseen
      /\ d.turns = c.turns /\ d.queued = c.queued /\ d.dirs = c.dirs
  BY <1>1, <1>2, PartsFields
<1>4. \A i \in 1..Len(ps) : AwaitsUser(qs[i]) <=> AwaitsUser(ps[i])
  <2> SUFFICES ASSUME NEW i \in 1..Len(ps) PROVE AwaitsUser(qs[i]) <=> AwaitsUser(ps[i])
    OBVIOUS
  <2>1. ps[i] \in ResponsePart /\ CallMoved(ps[i], qs[i]) /\ (IsCall(ps[i]) => CallIsConfirmed(ps[i].call))
    BY <1>1, ElementOfSeq DEF ConfirmedCalls
  <2>2. IsCall(ps[i]) => qs[i].call.status = ps[i].call.status
    OBVIOUS
  <2>3. qs[i].kind = ps[i].kind
    BY <2>1, CallPartMoved
  <2>4. CASE IsCall(ps[i])
    BY <2>2, <2>3, <2>4 DEF AwaitsUser, IsCall, IsOpenRequest
  <2>5. CASE ~IsCall(ps[i])
    BY <2>1, <2>5 DEF CallMoved
  <2> QED BY <2>4, <2>5
<1>5. d.active # None
  BY <1>3 DEF Apart
<1>7. c.status = StatusOf(c.active) \/ Lags(c)
  BY LiveStatus
<1>8. StatusOf(d.active) = StatusOf(c.active)
  BY <1>2, <1>3, <1>4, <1>5 DEF StatusOf
<1>6. d.status = StatusOf(d.active) \/ Lags(d)
  BY <1>3, <1>5, <1>7, <1>8 DEF Lags
<1> QED BY <1>2, <1>3, <1>6, LiveStep

\* The parts with the calls of an id replaced: us[i] stands in for the call of part i.
OnCalls(ps, c, us) ==
  [i \in DOMAIN ps |-> IF IsCall(ps[i]) /\ ps[i].call.id = c THEN [ps[i] EXCEPT !.call = us[i]]
                       ELSE ps[i]]

LEMMA OnCallsMoved ==
  ASSUME NEW ps \in Seq(ResponsePart), NEW c, NEW us,
         \A i \in 1..Len(ps) : IsCall(ps[i]) => Moved(ps[i].call, us[i])
  PROVE  /\ Beside(ps, OnCalls(ps, c, us))
         /\ \A i \in 1..Len(ps) :
              /\ CallMoved(ps[i], OnCalls(ps, c, us)[i])
              /\ (IsCall(ps[i]) => us[i].status = ps[i].call.status)
                   => (IsCall(ps[i]) => OnCalls(ps, c, us)[i].call.status = ps[i].call.status)
<1> DEFINE qs == OnCalls(ps, c, us)
<1>1. DOMAIN ps = 1..Len(ps)
  OBVIOUS
<1>2. qs = [i \in DOMAIN ps |-> qs[i]]
  BY DEF OnCalls
<1>3. \A i \in 1..Len(ps) :
        qs[i] = IF IsCall(ps[i]) /\ ps[i].call.id = c THEN [ps[i] EXCEPT !.call = us[i]] ELSE ps[i]
  BY <1>1 DEF OnCalls
<1> HIDE DEF qs
<1>4. ASSUME NEW i \in 1..Len(ps) PROVE CallMoved(ps[i], qs[i])
  BY <1>3 DEF CallMoved
<1>5. ASSUME NEW i \in 1..Len(ps), IsCall(ps[i]), us[i].status = ps[i].call.status
      PROVE  qs[i].call.status = ps[i].call.status
  <2>1. ps[i] \in ToolCallPart
    BY <1>5, CallPart, ElementOfSeq
  <2>2. [ps[i] EXCEPT !.call = us[i]].call = us[i]
    BY <2>1 DEF ToolCallPart
  <2> QED BY <1>3, <1>5, <2>2
<1> QED BY <1>2, <1>4, <1>5 DEF qs, Beside

\* The calls of the turn under way.
LEMMA CallAt ==
  ASSUME NEW c, Good(c), c.active # None, NEW i \in 1..Len(c.active.parts), IsCall(c.active.parts[i])
  PROVE  c.active.parts[i].call \in ToolCall /\ CallIsConfirmed(c.active.parts[i].call)
<1>1. c.active.parts \in Seq(ResponsePart) /\ ConfirmedCalls(c.active.parts)
  BY ActiveOf DEF Good
<1>2. c.active.parts[i] \in ResponsePart
  BY <1>1, ElementOfSeq
<1> QED BY <1>1, <1>2, CallPart DEF ConfirmedCalls

LEMMA ToolStep ==
  ASSUME Good(chat), NEW t, NEW c, NEW us,
         IsActive(t) => \A i \in 1..Len(chat.active.parts) :
           IsCall(chat.active.parts[i]) => Moved(chat.active.parts[i].call, us[i]),
         chat' = RefreshSummaryStatus(IF IsActive(t) THEN WithParts(chat, OnCalls(chat.active.parts, c, us))
                                      ELSE chat)
  PROVE  Good(chat') /\ Kept(chat, chat')
<1>1. CASE ~IsActive(t)
  BY <1>1, RefreshGood
<1>2. CASE IsActive(t)
  <2> DEFINE ps == chat.active.parts
             qs == OnCalls(ps, c, us)
  <2>1. chat.active # None /\ ps \in Seq(ResponsePart)
    BY <1>2, ActiveOf DEF IsActive, Good
  <2>2. Beside(ps, qs) /\ \A i \in 1..Len(ps) : CallMoved(ps[i], qs[i])
    BY <1>2, <2>1, OnCallsMoved
  <2>3. chat' = RefreshSummaryStatus(WithParts(chat, qs))
    BY <1>2
  <2> QED BY <2>1, <2>2, <2>3, CallsStep
<1> QED BY <1>1, <1>2

LEMMA TextStep ==
  ASSUME Apart, Good(chat), NEW t, NEW c, NEW us,
         IsActive(t) => \A i \in 1..Len(chat.active.parts) : IsCall(chat.active.parts[i]) =>
           /\ Moved(chat.active.parts[i].call, us[i])
           /\ us[i].status = chat.active.parts[i].call.status,
         chat' = IF IsActive(t) THEN WithParts(chat, OnCalls(chat.active.parts, c, us)) ELSE chat
  PROVE  Good(chat') /\ Kept(chat, chat')
<1>1. CASE ~IsActive(t)
  <2>1. chat' = chat /\ chat \in ChatState /\ ListsFine(chat)
    BY <1>1 DEF Good
  <2> QED BY <2>1, AsideGood
<1>2. CASE IsActive(t)
  <2> DEFINE ps == chat.active.parts
             qs == OnCalls(ps, c, us)
  <2>1. chat.active # None /\ ps \in Seq(ResponsePart)
    BY <1>2, ActiveOf DEF IsActive, Good
  <2>2. \A i \in 1..Len(ps) : IsCall(ps[i]) => Moved(ps[i].call, us[i]) /\ us[i].status = ps[i].call.status
    BY <1>2
  <2>3. Beside(ps, qs) /\ \A i \in 1..Len(ps) :
          CallMoved(ps[i], qs[i]) /\ (IsCall(ps[i]) => qs[i].call.status = ps[i].call.status)
    BY <2>1, <2>2, OnCallsMoved
  <2>4. chat' = WithParts(chat, qs)
    BY <1>2
  <2> QED BY <2>1, <2>3, <2>4, QuietStep
<1> QED BY <1>1, <1>2

Readyd(call, by, confirmed) ==
  IF call.status \notin {"streaming", "running", "pending-confirmation"} THEN call
  ELSE [call EXCEPT
          !.status = IF confirmed = None THEN "pending-confirmation" ELSE "running",
          !.contributor = RefineToolCallContributor(@, by),
          !.confirmed = confirmed, !.content = None]

LEMMA ReadyMoves ==
  ASSUME Apart, NEW call \in ToolCall, CallIsConfirmed(call), NEW by \in Contributor, NEW confirmed \in ConfirmationReason \cup {None}
  PROVE  Moved(call, Readyd(call, by, confirmed))
<1> DEFINE u == Readyd(call, by, confirmed)
<1>1. u \in ToolCall
  BY DEF Readyd, ToolCall, ToolCallStatus, ToolCallContent, ConfirmationReason, CancellationReason, RefineToolCallContributor
<1>2. CallIsConfirmed(u)
  BY DEF Readyd, ToolCall, CallIsConfirmed, Apart, ConfirmationReason, CancellationReason
<1>3. u.id = call.id /\ u.status \in {call.status} \cup After(call.status)
  BY DEF Readyd, ToolCall, After
<1>4. call.status \in Settled => u = call
  BY DEF Readyd, Settled
<1>5. {call.contributor, u.contributor} \cap Client # {} => u.contributor = call.contributor
  BY DEF Readyd, ToolCall, RefineToolCallContributor
<1> HIDE DEF u
<1>6. Moved(call, u)
  BY <1>1, <1>2, <1>3, <1>4, <1>5 DEF Moved
<1> QED BY <1>6 DEF u

LEMMA ToolCallReadyGood ==
  ASSUME Apart, Good(chat), NEW t, NEW c, NEW by \in Contributor, NEW confirmed \in ConfirmationReason \cup {None}, ToolCallReady(t, c, by, confirmed)
  PROVE  Good(chat') /\ Kept(chat, chat')
<1> DEFINE ps == chat.active.parts
           us == [i \in DOMAIN ps |-> Readyd(ps[i].call, by, confirmed)]
<1>1. ASSUME IsActive(t), NEW i \in 1..Len(ps), IsCall(ps[i])
      PROVE  Moved(ps[i].call, us[i])
  <2>1. chat.active # None /\ ps \in Seq(ResponsePart)
    BY <1>1, ActiveOf DEF IsActive, Good
  <2>2. ps[i].call \in ToolCall /\ CallIsConfirmed(ps[i].call)
    BY <1>1, <2>1, CallAt
  <2>3. us[i] = Readyd(ps[i].call, by, confirmed)
    BY <2>1
  <2> QED BY <2>2, <2>3, ReadyMoves
<1> DEFINE qs == [i \in DOMAIN ps |-> IF IsCall(ps[i]) /\ ps[i].call.id = c
                                     THEN [ps[i] EXCEPT !.call = Readyd(ps[i].call, by, confirmed)] ELSE ps[i]]
<1>2. OnCalls(ps, c, us) = qs
  BY DEF OnCalls
<1>3. CASE ~IsActive(t)
  <2>1. chat' = RefreshSummaryStatus(chat)
    BY <1>3 DEF ToolCallReady, ToolCallStep, UpdateToolCallInParts
  <2> HIDE DEF us
  <2> QED BY <1>1, <1>3, <2>1, ToolStep
<1>4. CASE IsActive(t)
  <2>1. chat' = RefreshSummaryStatus([chat EXCEPT !.active = [chat.active EXCEPT !.parts = qs]])
    BY <1>4 DEF ToolCallReady, ToolCallStep, UpdateToolCallInParts, Readyd
  <2>2. chat' = RefreshSummaryStatus(WithParts(chat, OnCalls(ps, c, us)))
    BY <1>2, <2>1 DEF WithParts
  <2> HIDE DEF us, qs
  <2> QED BY <1>1, <1>4, <2>2, ToolStep
<1> QED BY <1>3, <1>4

Approved(call, confirmed) ==
  IF call.status # "pending-confirmation" THEN call
  ELSE [call EXCEPT !.status = "running", !.confirmed = confirmed]

LEMMA ApproveMoves ==
  ASSUME Apart, NEW call \in ToolCall, CallIsConfirmed(call), NEW confirmed \in ConfirmationReason
  PROVE  Moved(call, Approved(call, confirmed))
<1> DEFINE u == Approved(call, confirmed)
<1>1. u \in ToolCall
  BY DEF Approved, ToolCall, ToolCallStatus, ToolCallContent, ConfirmationReason, CancellationReason
<1>2. CallIsConfirmed(u)
  BY DEF Approved, ToolCall, CallIsConfirmed, Apart, ConfirmationReason, CancellationReason
<1>3. u.id = call.id /\ u.status \in {call.status} \cup After(call.status)
  BY DEF Approved, ToolCall, After
<1>4. call.status \in Settled => u = call
  BY DEF Approved, Settled
<1>5. {call.contributor, u.contributor} \cap Client # {} => u.contributor = call.contributor
  BY DEF Approved, ToolCall
<1> HIDE DEF u
<1>6. Moved(call, u)
  BY <1>1, <1>2, <1>3, <1>4, <1>5 DEF Moved
<1> QED BY <1>6 DEF u

LEMMA ToolCallApprovedGood ==
  ASSUME Apart, Good(chat), NEW t, NEW c, NEW confirmed \in ConfirmationReason, ToolCallApproved(t, c, confirmed)
  PROVE  Good(chat') /\ Kept(chat, chat')
<1> DEFINE ps == chat.active.parts
           us == [i \in DOMAIN ps |-> Approved(ps[i].call, confirmed)]
<1>1. ASSUME IsActive(t), NEW i \in 1..Len(ps), IsCall(ps[i])
      PROVE  Moved(ps[i].call, us[i])
  <2>1. chat.active # None /\ ps \in Seq(ResponsePart)
    BY <1>1, ActiveOf DEF IsActive, Good
  <2>2. ps[i].call \in ToolCall /\ CallIsConfirmed(ps[i].call)
    BY <1>1, <2>1, CallAt
  <2>3. us[i] = Approved(ps[i].call, confirmed)
    BY <2>1
  <2> QED BY <2>2, <2>3, ApproveMoves
<1> DEFINE qs == [i \in DOMAIN ps |-> IF IsCall(ps[i]) /\ ps[i].call.id = c
                                     THEN [ps[i] EXCEPT !.call = Approved(ps[i].call, confirmed)] ELSE ps[i]]
<1>2. OnCalls(ps, c, us) = qs
  BY DEF OnCalls
<1>3. CASE ~IsActive(t)
  <2>1. chat' = RefreshSummaryStatus(chat)
    BY <1>3 DEF ToolCallApproved, ToolCallStep, UpdateToolCallInParts
  <2> HIDE DEF us
  <2> QED BY <1>1, <1>3, <2>1, ToolStep
<1>4. CASE IsActive(t)
  <2>1. chat' = RefreshSummaryStatus([chat EXCEPT !.active = [chat.active EXCEPT !.parts = qs]])
    BY <1>4 DEF ToolCallApproved, ToolCallStep, UpdateToolCallInParts, Approved
  <2>2. chat' = RefreshSummaryStatus(WithParts(chat, OnCalls(ps, c, us)))
    BY <1>2, <2>1 DEF WithParts
  <2> HIDE DEF us, qs
  <2> QED BY <1>1, <1>4, <2>2, ToolStep
<1> QED BY <1>3, <1>4

Denyd(call, reason) ==
  IF call.status # "pending-confirmation" THEN call
  ELSE [call EXCEPT !.status = "cancelled", !.reason = reason]

LEMMA DenyMoves ==
  ASSUME Apart, NEW call \in ToolCall, CallIsConfirmed(call), NEW reason \in {"denied", "skipped"}
  PROVE  Moved(call, Denyd(call, reason))
<1> DEFINE u == Denyd(call, reason)
<1>1. u \in ToolCall
  BY DEF Denyd, ToolCall, ToolCallStatus, ToolCallContent, ConfirmationReason, CancellationReason
<1>2. CallIsConfirmed(u)
  BY DEF Denyd, ToolCall, CallIsConfirmed, Apart, ConfirmationReason, CancellationReason
<1>3. u.id = call.id /\ u.status \in {call.status} \cup After(call.status)
  BY DEF Denyd, ToolCall, After
<1>4. call.status \in Settled => u = call
  BY DEF Denyd, Settled
<1>5. {call.contributor, u.contributor} \cap Client # {} => u.contributor = call.contributor
  BY DEF Denyd, ToolCall
<1> HIDE DEF u
<1>6. Moved(call, u)
  BY <1>1, <1>2, <1>3, <1>4, <1>5 DEF Moved
<1> QED BY <1>6 DEF u

LEMMA ToolCallDeniedGood ==
  ASSUME Apart, Good(chat), NEW t, NEW c, NEW reason \in {"denied", "skipped"}, ToolCallDenied(t, c, reason)
  PROVE  Good(chat') /\ Kept(chat, chat')
<1> DEFINE ps == chat.active.parts
           us == [i \in DOMAIN ps |-> Denyd(ps[i].call, reason)]
<1>1. ASSUME IsActive(t), NEW i \in 1..Len(ps), IsCall(ps[i])
      PROVE  Moved(ps[i].call, us[i])
  <2>1. chat.active # None /\ ps \in Seq(ResponsePart)
    BY <1>1, ActiveOf DEF IsActive, Good
  <2>2. ps[i].call \in ToolCall /\ CallIsConfirmed(ps[i].call)
    BY <1>1, <2>1, CallAt
  <2>3. us[i] = Denyd(ps[i].call, reason)
    BY <2>1
  <2> QED BY <2>2, <2>3, DenyMoves
<1> DEFINE qs == [i \in DOMAIN ps |-> IF IsCall(ps[i]) /\ ps[i].call.id = c
                                     THEN [ps[i] EXCEPT !.call = Denyd(ps[i].call, reason)] ELSE ps[i]]
<1>2. OnCalls(ps, c, us) = qs
  BY DEF OnCalls
<1>3. CASE ~IsActive(t)
  <2>1. chat' = RefreshSummaryStatus(chat)
    BY <1>3 DEF ToolCallDenied, ToolCallStep, UpdateToolCallInParts
  <2> HIDE DEF us
  <2> QED BY <1>1, <1>3, <2>1, ToolStep
<1>4. CASE IsActive(t)
  <2>1. chat' = RefreshSummaryStatus([chat EXCEPT !.active = [chat.active EXCEPT !.parts = qs]])
    BY <1>4 DEF ToolCallDenied, ToolCallStep, UpdateToolCallInParts, Denyd
  <2>2. chat' = RefreshSummaryStatus(WithParts(chat, OnCalls(ps, c, us)))
    BY <1>2, <2>1 DEF WithParts
  <2> HIDE DEF us, qs
  <2> QED BY <1>1, <1>4, <2>2, ToolStep
<1> QED BY <1>3, <1>4

Completed(call, success, hasContent, review) ==
  IF \/ call.status \notin {"running", "pending-confirmation", "auth-required"}
     \/ call.status = "auth-required" /\ success = "yes"
  THEN call
  ELSE [call EXCEPT
          !.status = IF review /\ call.status # "auth-required"
                     THEN "pending-result-confirmation" ELSE "completed",
          !.confirmed = IF call.status = "pending-confirmation" THEN "not-needed" ELSE @,
          !.success = success,
          !.content = IF hasContent THEN "result"
                      ELSE IF call.status = "auth-required" THEN @ ELSE None]

LEMMA CompleteMoves ==
  ASSUME Apart, NEW call \in ToolCall, CallIsConfirmed(call), NEW success \in {"yes", "no"}, NEW hasContent \in BOOLEAN, NEW review \in BOOLEAN
  PROVE  Moved(call, Completed(call, success, hasContent, review))
<1> DEFINE u == Completed(call, success, hasContent, review)
<1>1. u \in ToolCall
  <2>1. CASE u = call
    BY <2>1
  <2>2. CASE u # call
    <3> DEFINE status == IF review /\ call.status # "auth-required"
                         THEN "pending-result-confirmation" ELSE "completed"
               confirmed == IF call.status = "pending-confirmation" THEN "not-needed" ELSE call.confirmed
               content == IF hasContent THEN "result"
                          ELSE IF call.status = "auth-required" THEN call.content ELSE None
    <3>1. u = [call EXCEPT !.status = status, !.confirmed = confirmed, !.success = success,
                           !.content = content]
      BY <2>2 DEF Completed
    <3>2. /\ status \in ToolCallStatus /\ confirmed \in ConfirmationReason \cup {None}
          /\ content \in ToolCallContent \cup {None}
      BY DEF ToolCall, ToolCallStatus, ToolCallContent, ConfirmationReason
    <3> HIDE DEF u, status, confirmed, content
    <3> QED BY <3>1, <3>2 DEF ToolCall
  <2> QED BY <2>1, <2>2
<1>2. CallIsConfirmed(u)
  BY DEF Completed, ToolCall, CallIsConfirmed, Apart, ConfirmationReason, CancellationReason
<1>3. u.id = call.id /\ u.status \in {call.status} \cup After(call.status)
  BY DEF Completed, ToolCall, After
<1>4. call.status \in Settled => u = call
  BY DEF Completed, Settled
<1>5. {call.contributor, u.contributor} \cap Client # {} => u.contributor = call.contributor
  BY DEF Completed, ToolCall
<1> HIDE DEF u
<1>6. Moved(call, u)
  BY <1>1, <1>2, <1>3, <1>4, <1>5 DEF Moved
<1> QED BY <1>6 DEF u

LEMMA ToolCallCompleteGood ==
  ASSUME Apart, Good(chat), NEW t, NEW c, NEW success \in {"yes", "no"}, NEW hasContent \in BOOLEAN, NEW review \in BOOLEAN, ToolCallComplete(t, c, success, hasContent, review)
  PROVE  Good(chat') /\ Kept(chat, chat')
<1> DEFINE ps == chat.active.parts
           us == [i \in DOMAIN ps |-> Completed(ps[i].call, success, hasContent, review)]
<1>1. ASSUME IsActive(t), NEW i \in 1..Len(ps), IsCall(ps[i])
      PROVE  Moved(ps[i].call, us[i])
  <2>1. chat.active # None /\ ps \in Seq(ResponsePart)
    BY <1>1, ActiveOf DEF IsActive, Good
  <2>2. ps[i].call \in ToolCall /\ CallIsConfirmed(ps[i].call)
    BY <1>1, <2>1, CallAt
  <2>3. us[i] = Completed(ps[i].call, success, hasContent, review)
    BY <2>1
  <2> QED BY <2>2, <2>3, CompleteMoves
<1> DEFINE qs == [i \in DOMAIN ps |-> IF IsCall(ps[i]) /\ ps[i].call.id = c
                                     THEN [ps[i] EXCEPT !.call = Completed(ps[i].call, success, hasContent, review)] ELSE ps[i]]
<1>2. OnCalls(ps, c, us) = qs
  BY DEF OnCalls
<1>3. CASE ~IsActive(t)
  <2>1. chat' = RefreshSummaryStatus(chat)
    BY <1>3 DEF ToolCallComplete, ToolCallStep, UpdateToolCallInParts
  <2> HIDE DEF us
  <2> QED BY <1>1, <1>3, <2>1, ToolStep
<1>4. CASE IsActive(t)
  <2>1. chat' = RefreshSummaryStatus([chat EXCEPT !.active = [chat.active EXCEPT !.parts = qs]])
    BY <1>4 DEF ToolCallComplete, ToolCallStep, UpdateToolCallInParts, Completed
  <2>2. chat' = RefreshSummaryStatus(WithParts(chat, OnCalls(ps, c, us)))
    BY <1>2, <2>1 DEF WithParts
  <2> HIDE DEF us, qs
  <2> QED BY <1>1, <1>4, <2>2, ToolStep
<1> QED BY <1>3, <1>4

Confirmd(call, approved) ==
  IF call.status # "pending-result-confirmation" THEN call
  ELSE IF approved THEN [call EXCEPT !.status = "completed"]
  ELSE [call EXCEPT !.status = "cancelled", !.reason = "result-denied",
                    !.confirmed = None, !.success = None, !.content = None]

LEMMA ConfirmMoves ==
  ASSUME Apart, NEW call \in ToolCall, CallIsConfirmed(call), NEW approved \in BOOLEAN
  PROVE  Moved(call, Confirmd(call, approved))
<1> DEFINE u == Confirmd(call, approved)
<1>1. u \in ToolCall
  BY DEF Confirmd, ToolCall, ToolCallStatus, ToolCallContent, ConfirmationReason, CancellationReason
<1>2. CallIsConfirmed(u)
  BY DEF Confirmd, ToolCall, CallIsConfirmed, Apart, ConfirmationReason, CancellationReason
<1>3. u.id = call.id /\ u.status \in {call.status} \cup After(call.status)
  BY DEF Confirmd, ToolCall, After
<1>4. call.status \in Settled => u = call
  BY DEF Confirmd, Settled
<1>5. {call.contributor, u.contributor} \cap Client # {} => u.contributor = call.contributor
  BY DEF Confirmd, ToolCall
<1> HIDE DEF u
<1>6. Moved(call, u)
  BY <1>1, <1>2, <1>3, <1>4, <1>5 DEF Moved
<1> QED BY <1>6 DEF u

LEMMA ToolCallResultConfirmedGood ==
  ASSUME Apart, Good(chat), NEW t, NEW c, NEW approved \in BOOLEAN, ToolCallResultConfirmed(t, c, approved)
  PROVE  Good(chat') /\ Kept(chat, chat')
<1> DEFINE ps == chat.active.parts
           us == [i \in DOMAIN ps |-> Confirmd(ps[i].call, approved)]
<1>1. ASSUME IsActive(t), NEW i \in 1..Len(ps), IsCall(ps[i])
      PROVE  Moved(ps[i].call, us[i])
  <2>1. chat.active # None /\ ps \in Seq(ResponsePart)
    BY <1>1, ActiveOf DEF IsActive, Good
  <2>2. ps[i].call \in ToolCall /\ CallIsConfirmed(ps[i].call)
    BY <1>1, <2>1, CallAt
  <2>3. us[i] = Confirmd(ps[i].call, approved)
    BY <2>1
  <2> QED BY <2>2, <2>3, ConfirmMoves
<1> DEFINE qs == [i \in DOMAIN ps |-> IF IsCall(ps[i]) /\ ps[i].call.id = c
                                     THEN [ps[i] EXCEPT !.call = Confirmd(ps[i].call, approved)] ELSE ps[i]]
<1>2. OnCalls(ps, c, us) = qs
  BY DEF OnCalls
<1>3. CASE ~IsActive(t)
  <2>1. chat' = RefreshSummaryStatus(chat)
    BY <1>3 DEF ToolCallResultConfirmed, ToolCallStep, UpdateToolCallInParts
  <2> HIDE DEF us
  <2> QED BY <1>1, <1>3, <2>1, ToolStep
<1>4. CASE IsActive(t)
  <2>1. chat' = RefreshSummaryStatus([chat EXCEPT !.active = [chat.active EXCEPT !.parts = qs]])
    BY <1>4 DEF ToolCallResultConfirmed, ToolCallStep, UpdateToolCallInParts, Confirmd
  <2>2. chat' = RefreshSummaryStatus(WithParts(chat, OnCalls(ps, c, us)))
    BY <1>2, <2>1 DEF WithParts
  <2> HIDE DEF us, qs
  <2> QED BY <1>1, <1>4, <2>2, ToolStep
<1> QED BY <1>3, <1>4

Paused(call) ==
  IF call.status = "running" /\ call.contributor = "mcp"
  THEN [call EXCEPT !.status = "auth-required"] ELSE call

LEMMA PauseMoves ==
  ASSUME Apart, NEW call \in ToolCall, CallIsConfirmed(call)
  PROVE  Moved(call, Paused(call))
<1> DEFINE u == Paused(call)
<1>1. u \in ToolCall
  BY DEF Paused, ToolCall, ToolCallStatus, ToolCallContent, ConfirmationReason, CancellationReason
<1>2. CallIsConfirmed(u)
  BY DEF Paused, ToolCall, CallIsConfirmed, Apart, ConfirmationReason, CancellationReason
<1>3. u.id = call.id /\ u.status \in {call.status} \cup After(call.status)
  BY DEF Paused, ToolCall, After
<1>4. call.status \in Settled => u = call
  BY DEF Paused, Settled
<1>5. {call.contributor, u.contributor} \cap Client # {} => u.contributor = call.contributor
  BY DEF Paused, ToolCall
<1> HIDE DEF u
<1>6. Moved(call, u)
  BY <1>1, <1>2, <1>3, <1>4, <1>5 DEF Moved
<1> QED BY <1>6 DEF u

LEMMA ToolCallAuthRequiredGood ==
  ASSUME Apart, Good(chat), NEW t, NEW c, ToolCallAuthRequired(t, c)
  PROVE  Good(chat') /\ Kept(chat, chat')
<1> DEFINE ps == chat.active.parts
           us == [i \in DOMAIN ps |-> Paused(ps[i].call)]
<1>1. ASSUME IsActive(t), NEW i \in 1..Len(ps), IsCall(ps[i])
      PROVE  Moved(ps[i].call, us[i])
  <2>1. chat.active # None /\ ps \in Seq(ResponsePart)
    BY <1>1, ActiveOf DEF IsActive, Good
  <2>2. ps[i].call \in ToolCall /\ CallIsConfirmed(ps[i].call)
    BY <1>1, <2>1, CallAt
  <2>3. us[i] = Paused(ps[i].call)
    BY <2>1
  <2> QED BY <2>2, <2>3, PauseMoves
<1> DEFINE qs == [i \in DOMAIN ps |-> IF IsCall(ps[i]) /\ ps[i].call.id = c
                                     THEN [ps[i] EXCEPT !.call = Paused(ps[i].call)] ELSE ps[i]]
<1>2. OnCalls(ps, c, us) = qs
  BY DEF OnCalls
<1>3. CASE ~IsActive(t)
  <2>1. chat' = RefreshSummaryStatus(chat)
    BY <1>3 DEF ToolCallAuthRequired, ToolCallStep, UpdateToolCallInParts
  <2> HIDE DEF us
  <2> QED BY <1>1, <1>3, <2>1, ToolStep
<1>4. CASE IsActive(t)
  <2>1. chat' = RefreshSummaryStatus([chat EXCEPT !.active = [chat.active EXCEPT !.parts = qs]])
    BY <1>4 DEF ToolCallAuthRequired, ToolCallStep, UpdateToolCallInParts, Paused
  <2>2. chat' = RefreshSummaryStatus(WithParts(chat, OnCalls(ps, c, us)))
    BY <1>2, <2>1 DEF WithParts
  <2> HIDE DEF us, qs
  <2> QED BY <1>1, <1>4, <2>2, ToolStep
<1> QED BY <1>3, <1>4

Resumed(call) ==
  IF call.status = "auth-required" THEN [call EXCEPT !.status = "running"] ELSE call

LEMMA ResumeMoves ==
  ASSUME Apart, NEW call \in ToolCall, CallIsConfirmed(call)
  PROVE  Moved(call, Resumed(call))
<1> DEFINE u == Resumed(call)
<1>1. u \in ToolCall
  BY DEF Resumed, ToolCall, ToolCallStatus, ToolCallContent, ConfirmationReason, CancellationReason
<1>2. CallIsConfirmed(u)
  BY DEF Resumed, ToolCall, CallIsConfirmed, Apart, ConfirmationReason, CancellationReason
<1>3. u.id = call.id /\ u.status \in {call.status} \cup After(call.status)
  BY DEF Resumed, ToolCall, After
<1>4. call.status \in Settled => u = call
  BY DEF Resumed, Settled
<1>5. {call.contributor, u.contributor} \cap Client # {} => u.contributor = call.contributor
  BY DEF Resumed, ToolCall
<1> HIDE DEF u
<1>6. Moved(call, u)
  BY <1>1, <1>2, <1>3, <1>4, <1>5 DEF Moved
<1> QED BY <1>6 DEF u

LEMMA ToolCallAuthResolvedGood ==
  ASSUME Apart, Good(chat), NEW t, NEW c, ToolCallAuthResolved(t, c)
  PROVE  Good(chat') /\ Kept(chat, chat')
<1> DEFINE ps == chat.active.parts
           us == [i \in DOMAIN ps |-> Resumed(ps[i].call)]
<1>1. ASSUME IsActive(t), NEW i \in 1..Len(ps), IsCall(ps[i])
      PROVE  Moved(ps[i].call, us[i])
  <2>1. chat.active # None /\ ps \in Seq(ResponsePart)
    BY <1>1, ActiveOf DEF IsActive, Good
  <2>2. ps[i].call \in ToolCall /\ CallIsConfirmed(ps[i].call)
    BY <1>1, <2>1, CallAt
  <2>3. us[i] = Resumed(ps[i].call)
    BY <2>1
  <2> QED BY <2>2, <2>3, ResumeMoves
<1> DEFINE qs == [i \in DOMAIN ps |-> IF IsCall(ps[i]) /\ ps[i].call.id = c
                                     THEN [ps[i] EXCEPT !.call = Resumed(ps[i].call)] ELSE ps[i]]
<1>2. OnCalls(ps, c, us) = qs
  BY DEF OnCalls
<1>3. CASE ~IsActive(t)
  <2>1. chat' = RefreshSummaryStatus(chat)
    BY <1>3 DEF ToolCallAuthResolved, ToolCallStep, UpdateToolCallInParts
  <2> HIDE DEF us
  <2> QED BY <1>1, <1>3, <2>1, ToolStep
<1>4. CASE IsActive(t)
  <2>1. chat' = RefreshSummaryStatus([chat EXCEPT !.active = [chat.active EXCEPT !.parts = qs]])
    BY <1>4 DEF ToolCallAuthResolved, ToolCallStep, UpdateToolCallInParts, Resumed
  <2>2. chat' = RefreshSummaryStatus(WithParts(chat, OnCalls(ps, c, us)))
    BY <1>2, <2>1 DEF WithParts
  <2> HIDE DEF us, qs
  <2> QED BY <1>1, <1>4, <2>2, ToolStep
<1> QED BY <1>3, <1>4

Streamd(call) ==
  IF call.status = "streaming" THEN [call EXCEPT !.content = "input"] ELSE call

LEMMA StreamMoves ==
  ASSUME Apart, NEW call \in ToolCall, CallIsConfirmed(call)
  PROVE  Moved(call, Streamd(call)) /\ Streamd(call).status = call.status
<1> DEFINE u == Streamd(call)
<1>1. u \in ToolCall
  BY DEF Streamd, ToolCall, ToolCallStatus, ToolCallContent, ConfirmationReason, CancellationReason
<1>2. CallIsConfirmed(u)
  BY DEF Streamd, ToolCall, CallIsConfirmed, Apart, ConfirmationReason, CancellationReason
<1>3. u.id = call.id /\ u.status \in {call.status} \cup After(call.status)
  BY DEF Streamd, ToolCall, After
<1>4. call.status \in Settled => u = call
  BY DEF Streamd, Settled
<1>5. {call.contributor, u.contributor} \cap Client # {} => u.contributor = call.contributor
  BY DEF Streamd, ToolCall
<1>6. u.status = call.status
  BY DEF Streamd, ToolCall
<1> HIDE DEF u
<1>7. Moved(call, u)
  BY <1>1, <1>2, <1>3, <1>4, <1>5 DEF Moved
<1> QED BY <1>6, <1>7 DEF u

LEMMA ToolCallDeltaGood ==
  ASSUME Apart, Good(chat), NEW t, NEW c, ToolCallDelta(t, c)
  PROVE  Good(chat') /\ Kept(chat, chat')
<1> DEFINE ps == chat.active.parts
           us == [i \in DOMAIN ps |-> Streamd(ps[i].call)]
<1>1. ASSUME IsActive(t), NEW i \in 1..Len(ps), IsCall(ps[i])
      PROVE  Moved(ps[i].call, us[i]) /\ us[i].status = ps[i].call.status
  <2>1. chat.active # None /\ ps \in Seq(ResponsePart)
    BY <1>1, ActiveOf DEF IsActive, Good
  <2>2. ps[i].call \in ToolCall /\ CallIsConfirmed(ps[i].call)
    BY <1>1, <2>1, CallAt
  <2>3. us[i] = Streamd(ps[i].call)
    BY <2>1
  <2> QED BY <2>2, <2>3, StreamMoves
<1> DEFINE qs == [i \in DOMAIN ps |-> IF IsCall(ps[i]) /\ ps[i].call.id = c
                                     THEN [ps[i] EXCEPT !.call = Streamd(ps[i].call)] ELSE ps[i]]
<1>2. OnCalls(ps, c, us) = qs
  BY DEF OnCalls
<1>3. CASE ~IsActive(t)
  <2>1. chat' = chat
    BY <1>3 DEF ToolCallDelta, UpdateToolCallInParts
  <2> HIDE DEF us
  <2> QED BY <1>1, <1>3, <2>1, TextStep
<1>4. CASE IsActive(t)
  <2>1. chat' = [chat EXCEPT !.active = [chat.active EXCEPT !.parts = qs]]
    BY <1>4 DEF ToolCallDelta, UpdateToolCallInParts, Streamd
  <2>2. chat' = WithParts(chat, OnCalls(ps, c, us))
    BY <1>2, <2>1 DEF WithParts
  <2> HIDE DEF us, qs
  <2> QED BY <1>1, <1>4, <2>2, TextStep
<1> QED BY <1>3, <1>4

Changed(call) ==
  IF call.status = "running" THEN [call EXCEPT !.content = "partial"] ELSE call

LEMMA ChangeMoves ==
  ASSUME Apart, NEW call \in ToolCall, CallIsConfirmed(call)
  PROVE  Moved(call, Changed(call)) /\ Changed(call).status = call.status
<1> DEFINE u == Changed(call)
<1>1. u \in ToolCall
  BY DEF Changed, ToolCall, ToolCallStatus, ToolCallContent, ConfirmationReason, CancellationReason
<1>2. CallIsConfirmed(u)
  BY DEF Changed, ToolCall, CallIsConfirmed, Apart, ConfirmationReason, CancellationReason
<1>3. u.id = call.id /\ u.status \in {call.status} \cup After(call.status)
  BY DEF Changed, ToolCall, After
<1>4. call.status \in Settled => u = call
  BY DEF Changed, Settled
<1>5. {call.contributor, u.contributor} \cap Client # {} => u.contributor = call.contributor
  BY DEF Changed, ToolCall
<1>6. u.status = call.status
  BY DEF Changed, ToolCall
<1> HIDE DEF u
<1>7. Moved(call, u)
  BY <1>1, <1>2, <1>3, <1>4, <1>5 DEF Moved
<1> QED BY <1>6, <1>7 DEF u

LEMMA ToolCallContentChangedGood ==
  ASSUME Apart, Good(chat), NEW t, NEW c, ToolCallContentChanged(t, c)
  PROVE  Good(chat') /\ Kept(chat, chat')
<1> DEFINE ps == chat.active.parts
           us == [i \in DOMAIN ps |-> Changed(ps[i].call)]
<1>1. ASSUME IsActive(t), NEW i \in 1..Len(ps), IsCall(ps[i])
      PROVE  Moved(ps[i].call, us[i]) /\ us[i].status = ps[i].call.status
  <2>1. chat.active # None /\ ps \in Seq(ResponsePart)
    BY <1>1, ActiveOf DEF IsActive, Good
  <2>2. ps[i].call \in ToolCall /\ CallIsConfirmed(ps[i].call)
    BY <1>1, <2>1, CallAt
  <2>3. us[i] = Changed(ps[i].call)
    BY <2>1
  <2> QED BY <2>2, <2>3, ChangeMoves
<1> DEFINE qs == [i \in DOMAIN ps |-> IF IsCall(ps[i]) /\ ps[i].call.id = c
                                     THEN [ps[i] EXCEPT !.call = Changed(ps[i].call)] ELSE ps[i]]
<1>2. OnCalls(ps, c, us) = qs
  BY DEF OnCalls
<1>3. CASE ~IsActive(t)
  <2>1. chat' = chat
    BY <1>3 DEF ToolCallContentChanged, UpdateToolCallInParts
  <2> HIDE DEF us
  <2> QED BY <1>1, <1>3, <2>1, TextStep
<1>4. CASE IsActive(t)
  <2>1. chat' = [chat EXCEPT !.active = [chat.active EXCEPT !.parts = qs]]
    BY <1>4 DEF ToolCallContentChanged, UpdateToolCallInParts, Changed
  <2>2. chat' = WithParts(chat, OnCalls(ps, c, us))
    BY <1>2, <2>1 DEF WithParts
  <2> HIDE DEF us, qs
  <2> QED BY <1>1, <1>4, <2>2, TextStep
<1> QED BY <1>3, <1>4

-----------------------------------------------------------------------------
(* The other parts of the turn under way.                                  *)

SomeAwaits(ps) == \E i \in 1..Len(ps) : AwaitsUser(ps[i])

\* A step that leaves the turn under way with other parts.
LEMMA PartsStep ==
  ASSUME Apart, NEW c, Good(c), c.active # None,
         NEW qs \in Seq(ResponsePart), ConfirmedCalls(qs), PartsKept(c.active.parts, qs), NEW d,
         \/ d = RefreshSummaryStatus(WithParts(c, qs))
         \/ d = RefreshUnread(WithParts(c, qs))
         \/ d = WithParts(c, qs) /\ (SomeAwaits(qs) <=> SomeAwaits(c.active.parts))
  PROVE  Good(d) /\ Kept(c, d)
<1> DEFINE e == WithParts(c, qs)
<1>1. c \in ChatState
  BY DEF Good
<1>2. /\ e \in ChatState /\ e.status = c.status /\ e.unseen = c.unseen /\ e.active \in ActiveTurn
      /\ e.active.id = c.active.id /\ e.active.parts = qs
      /\ e.turns = c.turns /\ e.queued = c.queued /\ e.dirs = c.dirs
  BY <1>1, PartsFields
<1>3. \/ d = RefreshSummaryStatus(e)
      \/ d = RefreshUnread(e)
      \/ d = e /\ (SomeAwaits(qs) <=> SomeAwaits(c.active.parts))
  OBVIOUS
<1> HIDE DEF e
<1>4. CASE d = RefreshSummaryStatus(e)
  <2>1. /\ d \in ChatState /\ d.status = StatusOf(e.active)
        /\ d.turns = e.turns /\ d.active = e.active /\ d.queued = e.queued /\ d.dirs = e.dirs
    BY <1>2, <1>4, RefreshedFields
  <2> QED BY <1>2, <2>1, LiveStep
<1>5. CASE d = RefreshUnread(e)
  <2>1. /\ d \in ChatState /\ d.status = StatusOf(e.active)
        /\ d.turns = e.turns /\ d.active = e.active /\ d.queued = e.queued /\ d.dirs = e.dirs
    BY <1>2, <1>5, UnreadFields
  <2> QED BY <1>2, <2>1, LiveStep
<1>6. CASE d = e /\ (SomeAwaits(qs) <=> SomeAwaits(c.active.parts))
  <2>1. e.active # None
    BY <1>2 DEF Apart
  <2>2. c.status = StatusOf(c.active) \/ Lags(c)
    BY LiveStatus
  <2>4. StatusOf(d.active) = StatusOf(c.active)
    BY <1>2, <1>6, <2>1 DEF StatusOf, SomeAwaits
  <2>3. d.status = StatusOf(d.active) \/ Lags(d)
    BY <1>2, <1>6, <2>1, <2>2, <2>4 DEF Lags
  <2> QED BY <1>2, <1>6, <2>3, LiveStep
<1> QED BY <1>3, <1>4, <1>5, <1>6

\* A part that is no call, put in the place of another such.
LEMMA PartReplaced ==
  ASSUME NEW ps \in Seq(ResponsePart), ConfirmedCalls(ps), NEW i \in 1..Len(ps), ~IsCall(ps[i]),
         NEW q \in ResponsePart, ~IsCall(q), NEW qs, qs = ReplaceAt(ps, i, q)
  PROVE  /\ qs \in Seq(ResponsePart) /\ ConfirmedCalls(qs) /\ PartsKept(ps, qs)
         /\ (AwaitsUser(q) <=> AwaitsUser(ps[i])) => (SomeAwaits(qs) <=> SomeAwaits(ps))
<1>1. qs = [ps EXCEPT ![i] = q]
  BY DEF ReplaceAt
<1>2. /\ qs \in Seq(ResponsePart) /\ Len(qs) = Len(ps)
      /\ \A j \in 1..Len(ps) : qs[j] = IF j = i THEN q ELSE ps[j]
  BY <1>1, ExceptSeq
<1>3. ConfirmedCalls(qs)
  BY <1>2 DEF ConfirmedCalls
<1>4. PartsKept(ps, qs)
  <2>1. DOMAIN ps = 1..Len(ps)
    OBVIOUS
  <2> QED BY <1>2, <2>1 DEF PartsKept, PartKept
<1>5. ASSUME AwaitsUser(q) <=> AwaitsUser(ps[i]) PROVE SomeAwaits(qs) <=> SomeAwaits(ps)
  <2>1. \A j \in 1..Len(ps) : AwaitsUser(qs[j]) <=> AwaitsUser(ps[j])
    BY <1>2, <1>5
  <2> QED BY <1>2, <2>1 DEF SomeAwaits
<1> QED BY <1>2, <1>3, <1>4, <1>5

\* A part added behind the others.
LEMMA PartAppended ==
  ASSUME NEW ps \in Seq(ResponsePart), ConfirmedCalls(ps),
         NEW q \in ResponsePart, IsCall(q) => CallIsConfirmed(q.call), NEW qs, qs = Append(ps, q)
  PROVE  /\ qs \in Seq(ResponsePart) /\ ConfirmedCalls(qs) /\ PartsKept(ps, qs)
         /\ SomeAwaits(ps) => SomeAwaits(qs)
         /\ ~AwaitsUser(q) => (SomeAwaits(qs) <=> SomeAwaits(ps))
<1> DEFINE n == Len(ps)
<1>1. n \in Nat /\ DOMAIN ps = 1..n
  OBVIOUS
<1>2. /\ qs \in Seq(ResponsePart) /\ Len(qs) = n + 1
      /\ \A j \in 1..n : qs[j] = ps[j]
      /\ qs[n + 1] = q
  BY AppendProperties
<1> HIDE DEF n
<1>3. \A j \in 1..Len(qs) : j \in 1..n \/ j = n + 1
  BY <1>1, <1>2
<1>4. \A j \in 1..n : j \in 1..Len(qs)
  BY <1>1, <1>2
<1>5. ConfirmedCalls(qs)
  BY <1>2, <1>3 DEF ConfirmedCalls, n
<1>6. PartsKept(ps, qs)
  BY <1>1, <1>2 DEF PartsKept, PartKept
<1>7. ASSUME ~AwaitsUser(q) PROVE SomeAwaits(qs) <=> SomeAwaits(ps)
  BY <1>2, <1>3, <1>4, <1>7 DEF SomeAwaits, n
<1>8. SomeAwaits(ps) => SomeAwaits(qs)
  BY <1>2, <1>4 DEF SomeAwaits, n
<1> QED BY <1>2, <1>5, <1>6, <1>7, <1>8

LEMMA LiveParts ==
  ASSUME NEW c, Good(c), c.active # None
  PROVE  c \in ChatState /\ c.active.parts \in Seq(ResponsePart) /\ ConfirmedCalls(c.active.parts)
  BY ActiveOf DEF Good

\* A part that waits for nobody.
LEMMA AppendPartGood ==
  ASSUME Apart, Good(chat), chat.active # None, NEW p \in ResponsePart,
         IsCall(p) => CallIsConfirmed(p.call), ~AwaitsUser(p),
         chat' = WithParts(chat, Append(chat.active.parts, p))
  PROVE  Good(chat') /\ Kept(chat, chat')
<1> DEFINE ps == chat.active.parts
           qs == Append(ps, p)
<1>1. ps \in Seq(ResponsePart) /\ ConfirmedCalls(ps)
  BY LiveParts
<1>2. qs \in Seq(ResponsePart) /\ ConfirmedCalls(qs) /\ PartsKept(ps, qs) /\ (SomeAwaits(qs) <=> SomeAwaits(ps))
  BY <1>1, PartAppended
<1>3. chat' = WithParts(chat, qs)
  OBVIOUS
<1> HIDE DEF qs
<1> QED BY <1>2, <1>3, PartsStep

\* A part that waits for its user, and that no status tells of yet.
LEMMA UnseenPartGood ==
  ASSUME Apart, Good(chat), chat.active # None, NEW p \in ResponsePart,
         IsCall(p) => CallIsConfirmed(p.call),
         chat' = [WithParts(chat, Append(chat.active.parts, p)) EXCEPT !.unseen = TRUE]
  PROVE  Good(chat') /\ Kept(chat, chat')
<1> DEFINE ps == chat.active.parts
           qs == Append(ps, p)
           e == WithParts(chat, qs)
<1>1. chat \in ChatState /\ ps \in Seq(ResponsePart) /\ ConfirmedCalls(ps)
  BY LiveParts
<1>2. chat' = [e EXCEPT !.unseen = TRUE] /\ qs = Append(ps, p)
  OBVIOUS
<1> HIDE DEF qs
<1> HIDE DEF ps
<1>3. /\ qs \in Seq(ResponsePart) /\ ConfirmedCalls(qs) /\ PartsKept(ps, qs)
      /\ (SomeAwaits(ps) => SomeAwaits(qs))
  <2>1. qs = Append(ps, p)
    BY <1>2
  <2>2. ps \in Seq(ResponsePart) /\ ConfirmedCalls(ps)
    BY <1>1
  <2> QED BY <2>1, <2>2, PartAppended
<1> USE DEF ps
<1>4. /\ e \in ChatState /\ e.status = chat.status /\ e.active \in ActiveTurn
      /\ e.active.id = chat.active.id /\ e.active.parts = qs
      /\ e.turns = chat.turns /\ e.queued = chat.queued /\ e.dirs = chat.dirs
  BY <1>1, <1>3, PartsFields
<1> HIDE DEF e
<1>5. /\ chat' \in ChatState /\ chat'.status = e.status /\ chat'.unseen = TRUE
      /\ chat'.active = e.active /\ chat'.turns = e.turns /\ chat'.queued = e.queued
      /\ chat'.dirs = e.dirs
  BY <1>2, <1>4 DEF ChatState
<1>6. chat.status = StatusOf(chat.active) \/ chat.status = "InProgress"
  BY LiveStatus DEF Lags
<1>7. chat'.active # None
  BY <1>4, <1>5 DEF Apart
<1>8. chat'.status = StatusOf(chat'.active) \/ chat'.status = "InProgress"
  BY <1>3, <1>4, <1>5, <1>6, <1>7 DEF StatusOf, SomeAwaits
<1>9. chat'.status = StatusOf(chat'.active) \/ Lags(chat')
  BY <1>5, <1>7, <1>8 DEF Lags
<1> QED BY <1>3, <1>4, <1>5, <1>9, LiveStep

LEMMA RequestPart ==
  ASSUME NEW p \in InputRequestPart
  PROVE  p \in ResponsePart /\ ~IsCall(p) /\ (AwaitsUser(p) <=> p.response = None)
  BY DEF InputRequestPart, ResponsePart, IsCall, AwaitsUser, IsOpenRequest

\* A call that comes whole is one as the state machine could have left it.
LEMMA WholeCallType ==
  ASSUME Apart, NEW call \in WholeCall
  PROVE  call \in ToolCall /\ CallIsConfirmed(call)
<1>1. call \in ToolCall
  BY DEF WholeCall, ToolCall, ToolCallStatus, Contributor
<1>2. CallIsConfirmed(call)
  BY DEF WholeCall, CallIsConfirmed, Apart
<1> QED BY <1>1, <1>2

LEMMA NewPartType ==
  ASSUME Apart, NEW p \in NewParts
  PROVE  p \in ResponsePart /\ (IsCall(p) => CallIsConfirmed(p.call))
<1>1. CASE p \in [kind : {"markdown", "reasoning"}, id : PartId, chunks : {0}]
  BY <1>1 DEF ResponsePart, TextPart, Apart, IsCall
<1>2. CASE p \in OtherPart \cup ErrorPart
  BY <1>2 DEF ResponsePart, OtherPart, ErrorPart, IsCall
<1>3. CASE p \in [kind : {"toolCall"}, call : WholeCall]
  <2>1. p.call \in ToolCall /\ CallIsConfirmed(p.call)
    BY <1>3, WholeCallType
  <2>2. p \in ToolCallPart
    BY <1>3, <2>1 DEF ToolCallPart
  <2> QED BY <2>1, <2>2 DEF ResponsePart
<1>4. CASE p \in InputRequestPart
  BY <1>4, RequestPart DEF ResponsePart
<1> QED BY <1>1, <1>2, <1>3, <1>4 DEF NewParts

LEMMA ResponsePartAddedGood ==
  ASSUME Apart, Good(chat), NEW t, NEW p \in NewParts, ResponsePartAdded(t, p)
  PROVE  Good(chat') /\ Kept(chat, chat')
<1> DEFINE e == WithParts(chat, Append(chat.active.parts, p))
           b == chat.unseen \/ AwaitsUser(p)
<1>1. chat.active # None
  BY DEF ResponsePartAdded, IsActive
<1>2. p \in ResponsePart /\ (IsCall(p) => CallIsConfirmed(p.call))
  BY NewPartType
<1>3. chat' = [e EXCEPT !.unseen = b]
  BY DEF ResponsePartAdded, WithParts
<1>4. chat \in ChatState /\ e \in ChatState /\ e.unseen = chat.unseen /\ chat.unseen \in BOOLEAN
  <2> DEFINE qs == Append(chat.active.parts, p)
  <2>1. chat \in ChatState /\ chat.active.parts \in Seq(ResponsePart) /\ chat.unseen \in BOOLEAN
    BY <1>1, LiveParts, FieldsOf DEF ChatState
  <2>2. qs \in Seq(ResponsePart) /\ e = WithParts(chat, qs)
    BY <1>2, <2>1
  <2> HIDE DEF qs, e
  <2> QED BY <1>1, <2>1, <2>2, PartsFields
<1>5. CASE b
  <2>1. chat' = [e EXCEPT !.unseen = TRUE]
    BY <1>3, <1>5
  <2> QED BY <1>1, <1>2, <2>1, UnseenPartGood
<1>6. CASE ~b
  <2> HIDE DEF e
  <2>1. e = [e EXCEPT !.unseen = FALSE]
    BY <1>4, <1>6 DEF ChatState
  <2>2. chat' = e
    BY <1>3, <1>6, <2>1
  <2> QED BY <1>1, <1>2, <1>6, <2>2, AppendPartGood DEF e
<1> QED BY <1>5, <1>6

LEMMA ToolCallStartGood ==
  ASSUME Apart, Good(chat), NEW t, NEW c \in ToolCallId, NEW by \in Contributor, ToolCallStart(t, c, by)
  PROVE  Good(chat') /\ Kept(chat, chat')
<1> DEFINE call == [id |-> c, status |-> "streaming", contributor |-> by, confirmed |-> None,
                    reason |-> None, success |-> None, content |-> None]
           p == [kind |-> "toolCall", call |-> call]
<1>1. chat.active # None /\ chat' = WithParts(chat, Append(chat.active.parts, p))
  BY DEF ToolCallStart, IsActive, WithParts
<1>2. call \in ToolCall /\ CallIsConfirmed(call) /\ call.status = "streaming"
  BY DEF ToolCall, ToolCallStatus, CallIsConfirmed
<1> HIDE DEF call
<1>3. p \in ResponsePart
  BY <1>2 DEF ResponsePart, ToolCallPart
<1>4. IsCall(p) => CallIsConfirmed(p.call)
  BY <1>2
<1>5. ~AwaitsUser(p)
  BY <1>2 DEF AwaitsUser, IsOpenRequest, Blocking
<1> HIDE DEF p
<1> QED BY <1>1, <1>3, <1>4, <1>5, AppendPartGood

LEMMA TextPartIs ==
  ASSUME NEW p \in ResponsePart, p.kind \in {"markdown", "reasoning"}
  PROVE  p \in TextPart
  BY DEF ResponsePart, TextPart, OtherPart, ToolCallPart, ErrorPart, InputRequestPart

LEMMA AppendTextGood ==
  ASSUME Apart, Good(chat), NEW t, NEW p, NEW kind \in {"markdown", "reasoning"}, AppendText(t, p, kind)
  PROVE  Good(chat') /\ Kept(chat, chat')
<1> DEFINE ps == chat.active.parts
           I == {j \in 1..Len(ps) : IF IsCall(ps[j]) THEN ps[j].call.id = p
                                    ELSE "id" \in DOMAIN ps[j] /\ ps[j].id = p}
           i == IF I # {} THEN Min(I) ELSE 0
           q == [ps[i] EXCEPT !.chunks = ps[i].chunks + 1]
           qs == ReplaceAt(ps, i, q)
<1>1. chat.active # None
  BY DEF AppendText, IsActive
<1>2. ps \in Seq(ResponsePart) /\ ConfirmedCalls(ps) /\ Len(ps) \in Nat
  BY <1>1, LiveParts
<1>3. /\ i # 0 /\ ps[i].kind = kind /\ ps[i].chunks < MaxChunks
      /\ chat' = [chat EXCEPT !.active = [chat.active EXCEPT !.parts = [ps EXCEPT ![i] = q]]]
  BY DEF AppendText, SelectInSeq
<1>4. chat' = WithParts(chat, qs)
  BY <1>3 DEF WithParts, ReplaceAt
<1> HIDE DEF i
<1>5. i \in 1..Len(ps)
  <2>1. I \subseteq 1..Len(ps) /\ i = IF I # {} THEN Min(I) ELSE 0
    BY DEF i
  <2> HIDE DEF I
  <2> QED BY <1>2, <1>3, <2>1, FirstPlace
<1>6. ps[i] \in TextPart
  BY <1>2, <1>3, <1>5, TextPartIs, ElementOfSeq
<1>7. q \in TextPart
  BY <1>3, <1>6 DEF TextPart, Apart
<1>8. q \in ResponsePart /\ ~IsCall(q) /\ ~IsCall(ps[i]) /\ ~AwaitsUser(q) /\ ~AwaitsUser(ps[i])
  BY <1>6, <1>7 DEF ResponsePart, TextPart, IsCall, AwaitsUser, IsOpenRequest
<1> HIDE DEF q
<1>9. qs \in Seq(ResponsePart) /\ ConfirmedCalls(qs) /\ PartsKept(ps, qs) /\ (SomeAwaits(qs) <=> SomeAwaits(ps))
  BY <1>2, <1>5, <1>8, PartReplaced
<1> HIDE DEF qs
<1> QED BY <1>1, <1>4, <1>9, PartsStep

LEMMA UsageGood ==
  ASSUME Apart, Good(chat), NEW t, Usage(t)
  PROVE  Good(chat') /\ Kept(chat, chat')
<1> DEFINE active == [chat.active EXCEPT !.usage = TRUE]
<1>1. chat.active # None /\ chat' = WithActive(chat, active)
  BY DEF Usage, IsActive, WithActive
<1>2. chat \in ChatState /\ chat.active \in ActiveTurn
  BY <1>1, ActiveOf DEF Good
<1>3. active \in ActiveTurn /\ active.id = chat.active.id /\ active.parts = chat.active.parts
  BY <1>2 DEF ActiveTurn
<1> HIDE DEF active
<1>4. /\ chat' \in ChatState /\ chat'.active = active /\ chat'.status = chat.status
      /\ chat'.unseen = chat.unseen
      /\ chat'.turns = chat.turns /\ chat'.queued = chat.queued /\ chat'.dirs = chat.dirs
  BY <1>1, <1>2, <1>3, ActiveFields
<1>5. active # None /\ (chat.status = StatusOf(chat.active) \/ Lags(chat))
  BY <1>1, <1>3, LiveStatus DEF Apart
<1>6. chat'.status = StatusOf(chat'.active) \/ Lags(chat')
  <2>1. StatusOf(chat'.active) = StatusOf(chat.active)
    BY <1>1, <1>3, <1>4, <1>5 DEF StatusOf
  <2> QED BY <1>4, <1>5, <2>1 DEF Lags
<1>7. PartsKept(chat.active.parts, active.parts)
  BY <1>3 DEF PartsKept, PartKept
<1>8. ConfirmedCalls(active.parts)
  BY <1>1, <1>3, LiveParts
<1> QED BY <1>1, <1>3, <1>4, <1>6, <1>7, <1>8, LiveStep

-----------------------------------------------------------------------------
(* Requests for input.                                                     *)

\* An open request is where OpenRequestIndex says.
LEMMA OpenRequest ==
  ASSUME NEW ps \in Seq(ResponsePart), NEW r, OpenRequestIndex(ps, r) # 0
  PROVE  /\ OpenRequestIndex(ps, r) \in 1..Len(ps)
         /\ ps[OpenRequestIndex(ps, r)] \in InputRequestPart
         /\ ps[OpenRequestIndex(ps, r)].response = None
<1> DEFINE I == {j \in 1..Len(ps) : IsOpenRequest(ps[j]) /\ ps[j].request.id = r}
           i == OpenRequestIndex(ps, r)
<1>1. i = IF I # {} THEN Min(I) ELSE 0
  BY DEF OpenRequestIndex, SelectInSeq
<1>2. I \subseteq 1..Len(ps) /\ Len(ps) \in Nat
  OBVIOUS
<1>3. i # 0
  OBVIOUS
<1>4. i \in I
  <2> HIDE DEF I, i
  <2> QED BY <1>1, <1>2, <1>3, FirstPlace
<1>5. i \in 1..Len(ps) /\ IsOpenRequest(ps[i])
  <2> HIDE DEF i
  <2> QED BY <1>4
<1>6. ps[i] \in ResponsePart
  <2> HIDE DEF i
  <2> QED BY <1>5, ElementOfSeq
<1>7. ps[i].kind = "inputRequest" /\ ps[i].response = None
  <2> HIDE DEF i
  <2> QED BY <1>5 DEF IsOpenRequest
<1>8. ps[i] \in InputRequestPart
  <2> HIDE DEF i
  <2> QED BY <1>6, <1>7 DEF ResponsePart, TextPart, OtherPart, ToolCallPart, ErrorPart, InputRequestPart
<1> QED BY <1>5, <1>7, <1>8

LEMMA AnswersType ==
  ASSUME NEW answers \in Answers
  PROVE  /\ Answered(answers) \in SUBSET Question
         /\ \A set \in SUBSET Question : AnswersField(set) \in Answers
  BY DEF Answers, Answered, AnswersField

LEMMA InputRequestedGood ==
  ASSUME Apart, Good(chat), NEW request \in Request, InputRequested(request)
  PROVE  Good(chat') /\ Kept(chat, chat')
<1> DEFINE ps == chat.active.parts
           i == OpenRequestIndex(ps, request.id)
           kept == IF request.answers = None THEN ps[i].request.answers ELSE request.answers
           Part(answers) == [kind |-> "inputRequest", response |-> None,
                             request |-> [request EXCEPT !.answers = answers]]
<1>1. chat.active # None
  BY DEF InputRequested
<1>2. ps \in Seq(ResponsePart) /\ ConfirmedCalls(ps)
  BY <1>1, LiveParts
<1>3. ASSUME NEW answers \in Answers PROVE Part(answers) \in InputRequestPart
  BY <1>3 DEF InputRequestPart, Request
<1>4. request.answers \in Answers
  BY DEF Request
<1>5. CASE i = 0
  <2> DEFINE q == Part(request.answers)
             qs == Append(ps, q)
  <2>1. chat' = RefreshUnread([chat EXCEPT !.active = [chat.active EXCEPT !.parts = qs]])
    BY <1>5 DEF InputRequested
  <2>2. q \in InputRequestPart
    BY <1>3, <1>4
  <2> HIDE DEF q
  <2>3. qs \in Seq(ResponsePart) /\ ConfirmedCalls(qs) /\ PartsKept(ps, qs)
    BY <1>2, <2>2, RequestPart, PartAppended
  <2> HIDE DEF qs
  <2>4. chat' = RefreshUnread(WithParts(chat, qs))
    BY <2>1 DEF WithParts
  <2> QED BY <1>1, <2>3, <2>4, PartsStep
<1>6. CASE i # 0
  <2> DEFINE q == Part(kept)
             qs == ReplaceAt(ps, i, q)
  <2>1. chat' = RefreshUnread([chat EXCEPT !.active = [chat.active EXCEPT !.parts = qs]])
    BY <1>6 DEF InputRequested
  <2>2. i \in 1..Len(ps) /\ ps[i] \in InputRequestPart
    BY <1>2, <1>6, OpenRequest
  <2> HIDE DEF i
  <2>3. kept \in Answers
    BY <1>4, <2>2 DEF InputRequestPart, Request
  <2> HIDE DEF kept
  <2>4. q \in InputRequestPart
    BY <1>3, <2>3
  <2> HIDE DEF q
  <2>5. qs \in Seq(ResponsePart) /\ ConfirmedCalls(qs) /\ PartsKept(ps, qs)
    BY <1>2, <2>2, <2>4, RequestPart, PartReplaced
  <2> HIDE DEF qs
  <2>6. chat' = RefreshUnread(WithParts(chat, qs))
    BY <2>1 DEF WithParts
  <2> QED BY <1>1, <2>5, <2>6, PartsStep
<1> QED BY <1>5, <1>6

LEMMA InputAnswerChangedGood ==
  ASSUME Apart, Good(chat), NEW r, NEW question \in Question, NEW answered, InputAnswerChanged(r, question, answered)
  PROVE  Good(chat') /\ Kept(chat, chat')
<1> DEFINE ps == chat.active.parts
           i == OpenRequestIndex(ps, r)
           before == Answered(ps[i].request.answers)
           answers == AnswersField(IF answered THEN before \cup {question} ELSE before \ {question})
           q == [ps[i] EXCEPT !.request = [ps[i].request EXCEPT !.answers = answers]]
           qs == ReplaceAt(ps, i, q)
<1>1. chat.active # None
  BY DEF InputAnswerChanged
<1>2. ps \in Seq(ResponsePart) /\ ConfirmedCalls(ps)
  BY <1>1, LiveParts
<1>3. i # 0 /\ chat' = WithParts(chat, qs)
  BY DEF InputAnswerChanged, WithParts, ReplaceAt
<1>4. i \in 1..Len(ps) /\ ps[i] \in InputRequestPart /\ ps[i].response = None
  BY <1>2, <1>3, OpenRequest
<1> HIDE DEF i
<1>5. answers \in Answers
  <2>1. ps[i].request.answers \in Answers
    BY <1>4 DEF InputRequestPart, Request
  <2>2. before \in SUBSET Question
    BY <2>1, AnswersType
  <2> HIDE DEF before
  <2> QED BY <2>1, <2>2, AnswersType
<1> HIDE DEF answers
<1>6. q \in InputRequestPart /\ q.response = None
  BY <1>4, <1>5 DEF InputRequestPart, Request
<1> HIDE DEF q
<1>7. q \in ResponsePart /\ ~IsCall(q) /\ ~IsCall(ps[i]) /\ (AwaitsUser(q) <=> AwaitsUser(ps[i]))
  BY <1>4, <1>6, RequestPart
<1>8. qs \in Seq(ResponsePart) /\ ConfirmedCalls(qs) /\ PartsKept(ps, qs) /\ (SomeAwaits(qs) <=> SomeAwaits(ps))
  BY <1>2, <1>4, <1>7, PartReplaced
<1> HIDE DEF qs
<1> QED BY <1>1, <1>3, <1>8, PartsStep

LEMMA PartsTwice ==
  ASSUME NEW c \in ChatState, c.active # None,
         NEW ps \in Seq(ResponsePart), NEW i \in 1..Len(ps), NEW p \in ResponsePart, NEW q
  PROVE  WithParts(WithParts(c, ReplaceAt(ps, i, p)), ReplaceAt(ReplaceAt(ps, i, p), i, q))
           = WithParts(c, ReplaceAt(ps, i, q))
<1>1. c.active \in ActiveTurn
  BY ActiveOf
<1>2. ReplaceAt(ReplaceAt(ps, i, p), i, q) = ReplaceAt(ps, i, q)
  BY DEF ReplaceAt
<1> DEFINE qs == ReplaceAt(ps, i, q)
           os == ReplaceAt(ps, i, p)
<1>3. WithParts(WithParts(c, os), qs) = WithParts(c, qs)
  <2> HIDE DEF qs, os
  <2>1. [[c.active EXCEPT !.parts = os] EXCEPT !.parts = qs] = [c.active EXCEPT !.parts = qs]
    BY <1>1 DEF ActiveTurn
  <2> DEFINE aq == [c.active EXCEPT !.parts = qs]
             ao == [c.active EXCEPT !.parts = os]
  <2>2. WithParts(c, os) = [c EXCEPT !.active = ao]
    BY DEF WithParts
  <2>3. WithParts(WithParts(c, os), qs)
          = [WithParts(c, os) EXCEPT !.active = [WithParts(c, os).active EXCEPT !.parts = qs]]
    BY DEF WithParts
  <2>4. WithParts(c, qs) = [c EXCEPT !.active = aq]
    BY DEF WithParts
  <2>5. [ao EXCEPT !.parts = qs] = aq
    BY <2>1
  <2> HIDE DEF ao, aq
  <2>6. [c EXCEPT !.active = ao].active = ao
    BY DEF ChatState
  <2>7. [[c EXCEPT !.active = ao] EXCEPT !.active = aq] = [c EXCEPT !.active = aq]
    BY DEF ChatState
  <2> QED BY <2>2, <2>3, <2>4, <2>5, <2>6, <2>7
<1> QED BY <1>2, <1>3

LEMMA InputCompletedGood ==
  ASSUME Apart, Good(chat), NEW r, NEW response \in Response, NEW answers \in Answers,
         InputCompleted(r, response, answers)
  PROVE  Good(chat') /\ Kept(chat, chat')
<1> DEFINE ps == chat.active.parts
           i == OpenRequestIndex(ps, r)
           given == AnswersField(Answered(ps[i].request.answers) \cup Answered(answers))
           p == [ps[i] EXCEPT !.request = [ps[i].request EXCEPT !.answers = given]]
           q == [p EXCEPT !.response = response]
           os == ReplaceAt(ps, i, p)
           qs == ReplaceAt(ps, i, q)
           mid == WithParts(chat, os)
<1>1. chat.active # None
  BY DEF InputCompleted
<1>2. ps \in Seq(ResponsePart) /\ ConfirmedCalls(ps)
  BY <1>1, LiveParts
<1>3. i # 0
  BY DEF InputCompleted
<1>4. i \in 1..Len(ps) /\ ps[i] \in InputRequestPart
  BY <1>2, <1>3, OpenRequest
<1>5. chat' = RefreshSummaryStatus([mid EXCEPT !.active =
                [mid.active EXCEPT !.parts =
                  [mid.active.parts EXCEPT ![i] = [mid.active.parts[i] EXCEPT !.response = response]]]])
  BY DEF InputCompleted, WithParts, ReplaceAt
<1> HIDE DEF i
<1>6. given \in Answers
  <2>1. ps[i].request.answers \in Answers
    BY <1>4 DEF InputRequestPart, Request
  <2>2. Answered(ps[i].request.answers) \cup Answered(answers) \in SUBSET Question
    BY <2>1, AnswersType
  <2> QED BY <2>1, <2>2, AnswersType
<1> HIDE DEF given
<1>7. p \in InputRequestPart
  BY <1>4, <1>6 DEF InputRequestPart, Request
<1> HIDE DEF p
<1>10. q \in InputRequestPart
  BY <1>7 DEF InputRequestPart
<1>11. chat' = RefreshSummaryStatus(WithParts(chat, qs))
  <2>1. p \in ResponsePart
    BY <1>7, RequestPart
  <2>2. os \in Seq(ResponsePart) /\ os[i] = p
    BY <1>2, <1>4, <2>1 DEF ReplaceAt
  <2>3. chat \in ChatState
    BY DEF Good
  <2> HIDE DEF os
  <2>4. mid.active.parts = os
    BY <1>1, <2>2, <2>3, PartsFields
  <2>5. [mid.active.parts EXCEPT ![i] = [mid.active.parts[i] EXCEPT !.response = response]]
          = ReplaceAt(os, i, q)
    BY <2>2, <2>4 DEF ReplaceAt
  <2>6. chat' = RefreshSummaryStatus(WithParts(mid, ReplaceAt(os, i, q)))
    BY <1>5, <2>5 DEF WithParts
  <2>7. WithParts(mid, ReplaceAt(os, i, q)) = WithParts(chat, qs)
    BY <1>1, <1>2, <1>4, <2>1, <2>3, PartsTwice DEF os
  <2> QED BY <2>6, <2>7
<1> HIDE DEF q
<1>8. q \in ResponsePart /\ ~IsCall(q) /\ ~IsCall(ps[i])
  BY <1>4, <1>10, RequestPart
<1>9. qs \in Seq(ResponsePart) /\ ConfirmedCalls(qs) /\ PartsKept(ps, qs)
  BY <1>2, <1>4, <1>8, PartReplaced
<1> HIDE DEF qs
<1> QED BY <1>1, <1>9, <1>11, PartsStep

-----------------------------------------------------------------------------
(* The history of turns.                                                   *)

AllEnded(ts) == \A i \in 1..Len(ts) : Ended(ts[i])

LEMMA TurnsOf ==
  ASSUME NEW c, Good(c)
  PROVE  /\ c \in ChatState /\ c.turns \in Seq(Turn) /\ AllEnded(c.turns)
         /\ TurnsKept(c.turns, c.turns) /\ ListsFine(c)
<1>1. c \in ChatState /\ c.turns \in Seq(Turn) /\ AllEnded(c.turns) /\ ListsFine(c)
  BY FieldsOf DEF Good, AllEnded
<1> QED BY <1>1, TurnsSame

\* The first k turns.
LEMMA TurnsCut ==
  ASSUME NEW ts \in Seq(Turn), AllEnded(ts), NEW k \in 0..Len(ts), NEW us, us = SubSeq(ts, 1, k)
  PROVE  /\ us \in Seq(Turn) /\ Len(us) = k /\ AllEnded(us) /\ TurnsKept(ts, us)
         /\ \A i \in 1..k : us[i] = ts[i]
<1>1. Len(ts) \in Nat /\ k \in Nat /\ DOMAIN ts = 1..Len(ts) /\ \A i \in 1..k : i \in 1..Len(ts)
  OBVIOUS
<1>2. \A i \in 1..k : ts[i] \in Turn
  BY <1>1, ElementOfSeq
<1>3. /\ us \in Seq(Turn) /\ Len(us) = IF 1 <= k THEN k - 1 + 1 ELSE 0
      /\ \A i \in 1..(k - 1 + 1) : us[i] = ts[1 + i - 1]
  BY <1>1, <1>2, SubSeqProperties
<1>4. Len(us) = k /\ DOMAIN us = 1..k /\ \A i \in 1..k : us[i] = ts[i]
  BY <1>1, <1>3
<1>5. AllEnded(us)
  BY <1>1, <1>4 DEF AllEnded
<1>6. SubSeq(us, 1, Len(us)) = us
  BY <1>3, SubSeqFull
<1>7. IsPrefix(us, ts)
  <2>1. SubSeq(us, 1, Len(us)) = SubSeq(ts, 1, Len(us))
    BY <1>4, <1>6
  <2>2. Len(us) <= Len(ts)
    BY <1>1, <1>4
  <2> QED BY <2>1, <2>2 DEF IsPrefix
<1>8. TurnsKept(ts, us)
  BY <1>7 DEF TurnsKept
<1> QED BY <1>3, <1>4, <1>5, <1>8

\* Older turns before the others.
LEMMA TurnsBefore ==
  ASSUME NEW ts \in Seq(Turn), AllEnded(ts), NEW os \in Seq(Turn), AllEnded(os),
         \A i \in 1..Len(os) : os[i].id \notin Ids(ts), NEW us, us = os \o ts
  PROVE  /\ us \in Seq(Turn) /\ AllEnded(us) /\ TurnsKept(ts, us)
         /\ ts # <<>> => us # <<>> /\ Last(us) = Last(ts)
<1> DEFINE n == Len(os)
           k == Len(ts)
<1>1. n \in Nat /\ k \in Nat /\ (ts # <<>> => k # 0)
  OBVIOUS
<1>2. /\ us \in Seq(Turn) /\ Len(us) = n + k
      /\ \A i \in 1..(n + k) : us[i] = IF i <= n THEN os[i] ELSE ts[i - n]
  BY ConcatProperties
<1>3. (\A i \in 1..n : Ended(os[i]) /\ os[i].id \notin Ids(ts)) /\ (\A i \in 1..k : Ended(ts[i]))
  BY DEF AllEnded
<1>4. Last(ts) = ts[k]
  BY DEF Last
<1>5. SubSeq(us, n + 1, n + k) = ts
  <2>1. CASE k = 0
    <3>1. SubSeq(us, n + 1, n + k) = <<>>
      BY <1>1, <2>1, SubSeqEmpty
    <3> QED BY <1>1, <2>1, <3>1
  <2>2. CASE k # 0
    <3>1. n + 1 \in (n + 1)..(n + k) /\ n + k \in (n + 1)..(n + k)
      BY <1>1, <2>2
    <3>2. SubSeq(us, n + 1, n + k) = SubSeq(ts, (n + 1) - n, (n + k) - n)
      BY <3>1, SubSeqOfConcat2
    <3>3. (n + 1) - n = 1 /\ (n + k) - n = k
      BY <1>1
    <3>4. SubSeq(ts, 1, k) = ts
      BY SubSeqFull
    <3> QED BY <3>2, <3>3, <3>4
  <2> QED BY <2>1, <2>2
<1>6. Len(us) - Len(ts) = n /\ Len(ts) <= Len(us)
  BY <1>1, <1>2
<1> HIDE DEF n
<1>7. \A i \in 1..n : us[i].id \notin Ids(ts)
  BY <1>1, <1>2, <1>3
<1>8. TurnsKept(ts, us)
  BY <1>2, <1>5, <1>6, <1>7 DEF TurnsKept
<1> HIDE DEF k
<1>9. \A i \in 1..(n + k) : \/ i \in 1..n /\ us[i] = os[i]
                            \/ i - n \in 1..k /\ us[i] = ts[i - n]
  BY <1>1, <1>2
<1>10. AllEnded(us)
  BY <1>2, <1>3, <1>9 DEF AllEnded
<1>11. ASSUME ts # <<>> PROVE us # <<>> /\ Last(us) = Last(ts)
  <2>1. n + k \in 1..(n + k) /\ n + k # 0 /\ (n + k) - n = k /\ ~(n + k <= n)
    BY <1>1, <1>11
  <2>2. us[n + k] = ts[k]
    BY <1>2, <2>1
  <2>3. Last(us) = us[n + k]
    BY <1>2 DEF Last
  <2>4. us # <<>>
    BY <1>2, <2>1
  <2> QED BY <1>4, <2>2, <2>3, <2>4
<1> QED BY <1>2, <1>8, <1>10, <1>11

\* A turn behind the others.
LEMMA TurnsAfter ==
  ASSUME NEW ts \in Seq(Turn), AllEnded(ts), NEW turn \in Turn, Ended(turn), NEW us, us = Append(ts, turn)
  PROVE  /\ us \in Seq(Turn) /\ AllEnded(us) /\ TurnsKept(ts, us)
         /\ us # <<>> /\ Last(us) = turn
<1> DEFINE n == Len(ts)
<1>1. n \in Nat /\ DOMAIN ts = 1..n
  OBVIOUS
<1>2. /\ us \in Seq(Turn) /\ us # <<>> /\ Len(us) = n + 1
      /\ \A j \in 1..n : us[j] = ts[j]
      /\ us[n + 1] = turn
  BY AppendProperties
<1>3. SubSeq(ts, 1, n) = ts
  BY SubSeqFull
<1>4. \A i \in 1..n : Ended(ts[i])
  BY DEF AllEnded
<1>5. SubSeq(us, 1, n) = ts
  <2>1. us = ts \o <<turn>>
    BY AppendIsConcat
  <2>2. CASE n = 0
    <3>1. SubSeq(us, 1, n) = <<>>
      BY <2>2, SubSeqEmpty
    <3> QED BY <2>2, <3>1
  <2>3. CASE n # 0
    <3>1. 1 \in 1..n /\ n \in 1..n /\ <<turn>> \in Seq(Turn)
      BY <1>1, <2>3
    <3>2. SubSeq(ts \o <<turn>>, 1, n) = SubSeq(ts, 1, n)
      BY <3>1, SubSeqOfConcat1
    <3> QED BY <1>3, <2>1, <3>2
  <2> QED BY <2>2, <2>3
<1>6. TurnsKept(ts, us)
  <2>1. IsPrefix(ts, us) /\ Len(us) - Len(ts) = 1
    BY <1>1, <1>2, <1>3, <1>5 DEF IsPrefix
  <2> QED BY <2>1 DEF TurnsKept
<1> HIDE DEF n
<1>7. AllEnded(us)
  <2>1. \A j \in 1..(n + 1) : j \in 1..n \/ j = n + 1
    BY <1>1
  <2> QED BY <1>2, <1>4, <2>1 DEF AllEnded
<1>8. Last(us) = turn
  BY <1>2 DEF Last
<1> QED BY <1>2, <1>6, <1>7, <1>8

-----------------------------------------------------------------------------
(* Turns that start, end, resume, go and come.                             *)

LEMMA QueueWithout ==
  ASSUME NEW c, Good(c), c.queued # None, NEW m
  PROVE  /\ KeepOnly(c.queued, ToSet(c.queued) \ {m}) \in Seq(Message)
         /\ Distinct(KeepOnly(c.queued, ToSet(c.queued) \ {m}))
<1>1. c.queued \in Seq(Message) /\ Distinct(c.queued)
  BY TurnsOf, FieldsOf DEF ListsFine
<1> DEFINE set == ToSet(c.queued) \ {m}
<1> HIDE DEF set
<1>2. KeepOnly(c.queued, set) \in Seq(Message)
  BY <1>1, KeptOnly DEF Filtered
<1>3. Distinct(KeepOnly(c.queued, set))
  BY <1>1, KeptDistinct
<1> QED BY <1>2, <1>3 DEF set

LEMMA TurnStartedGood ==
  ASSUME Apart, Good(chat), NEW t \in TurnId, NEW m, TurnStarted(t, m)
  PROVE  Good(chat') /\ Kept(chat, chat')
<1> DEFINE active == [id |-> t, parts |-> <<>>, usage |-> FALSE]
           next == WithActive(chat, active)
           left == IF chat.queued = None THEN None ELSE KeepOnly(chat.queued, ToSet(chat.queued) \ {m})
           queued == IF left = <<>> THEN None ELSE left
           fresh == RefreshUnread(next)
           steering == IF fresh.steering = m THEN None ELSE fresh.steering
<1>1. /\ chat \in ChatState /\ chat.turns \in Seq(Turn) /\ AllEnded(chat.turns)
      /\ TurnsKept(chat.turns, chat.turns) /\ ListsFine(chat)
  BY TurnsOf
<1>2. chat' = [fresh EXCEPT !.steering = steering, !.queued = queued]
  BY DEF TurnStarted, WithActive
<1>3. active \in ActiveTurn /\ active.id = t /\ active.parts = <<>>
  BY DEF ActiveTurn
<1> HIDE DEF active
<1>4. /\ next \in ChatState /\ next.active = active /\ next.turns = chat.turns /\ next.dirs = chat.dirs
  BY <1>1, <1>3, ActiveFields
<1> HIDE DEF next
<1>5. /\ fresh \in ChatState /\ fresh.status = StatusOf(active)
      /\ fresh.turns = chat.turns /\ fresh.active = active /\ fresh.dirs = chat.dirs
  BY <1>4, UnreadFields
<1> HIDE DEF fresh
<1>6. queued \in Seq(Message) \cup {None} /\ (queued # None => queued # <<>> /\ Distinct(queued))
  BY QueueWithout
<1> HIDE DEF queued, left
<1>7. steering \in Message \cup {None}
  BY <1>5, FieldsOf
<1> HIDE DEF steering
<1>8. /\ chat' \in ChatState /\ chat'.status = fresh.status /\ chat'.turns = fresh.turns
      /\ chat'.active = fresh.active /\ chat'.dirs = fresh.dirs /\ chat'.queued = queued
  BY <1>2, <1>5, <1>6, <1>7 DEF ChatState
<1>9. ListsFine(chat')
  BY <1>1, <1>5, <1>6, <1>8 DEF ListsFine
<1>11. ConfirmedCalls(active.parts)
  BY <1>3 DEF ConfirmedCalls
<1>12. Good(chat')
  BY <1>1, <1>3, <1>5, <1>8, <1>9, <1>11 DEF Good, AllEnded
<1>13. PartsKept(chat.active.parts, active.parts)
  BY <1>3 DEF PartsKept
<1> QED BY <1>1, <1>5, <1>8, <1>12, <1>13 DEF Kept

LEMMA SettledCall ==
  ASSUME Apart, NEW call \in ToolCall, CallIsConfirmed(call)
  PROVE  /\ SettleCall(call) \in ToolCall /\ CallIsConfirmed(SettleCall(call))
         /\ SettleCall(call).status \in Settled
<1>1. CASE call.status \in Settled
  BY <1>1 DEF SettleCall
<1>2. CASE call.status \notin Settled
  <2> DEFINE u == [call EXCEPT !.status = "cancelled", !.reason = "skipped", !.confirmed = None,
                               !.success = None, !.content = None]
  <2>1. SettleCall(call) = u
    BY <1>2 DEF SettleCall
  <2>2. u \in ToolCall /\ u.status = "cancelled" /\ u.reason = "skipped" /\ u.success = None
    BY DEF ToolCall, ToolCallStatus, CancellationReason
  <2>3. CallIsConfirmed(u) /\ u.status \in Settled
    BY <2>2 DEF CallIsConfirmed, Settled, Apart, CancellationReason
  <2> QED BY <2>1, <2>2, <2>3
<1> QED BY <1>1, <1>2

LEMMA SettledPart ==
  ASSUME Apart, NEW p \in ResponsePart, IsCall(p) => CallIsConfirmed(p.call), NEW q, q = SettlePart(p)
  PROVE  /\ q \in ResponsePart
         /\ IsCall(q) => CallIsConfirmed(q.call) /\ q.call.status \in Settled
<1>1. CASE ~IsCall(p)
  BY <1>1 DEF SettlePart
<1>2. CASE IsCall(p)
  <2> DEFINE u == SettleCall(p.call)
  <2>1. p \in ToolCallPart /\ p.call \in ToolCall
    BY <1>2, CallPart
  <2>2. u \in ToolCall /\ CallIsConfirmed(u) /\ u.status \in Settled
    BY <1>2, <2>1, SettledCall
  <2>3. q = [p EXCEPT !.call = u]
    BY <1>2 DEF SettlePart
  <2> HIDE DEF u
  <2>4. q \in ToolCallPart /\ q.call = u
    BY <2>1, <2>2, <2>3 DEF ToolCallPart
  <2> QED BY <2>2, <2>4 DEF ResponsePart
<1> QED BY <1>1, <1>2

\* The parts of a turn that ends: settled, and an error behind them where it failed.
LEMMA EndedParts ==
  ASSUME Apart, NEW ps \in Seq(ResponsePart), ConfirmedCalls(ps),
         NEW es \in Seq(ErrorPart), NEW how, how = "error" => es # <<>>,
         NEW qs, qs = [i \in DOMAIN ps |-> SettlePart(ps[i])] \o es
  PROVE  /\ qs \in Seq(ResponsePart) /\ ConfirmedCalls(qs)
         /\ \A i \in 1..Len(qs) : IsCall(qs[i]) => qs[i].call.status \in Settled
         /\ how = "error" => qs # <<>> /\ Last(qs).kind = "error"
<1> DEFINE n == Len(ps)
           k == Len(es)
           ss == [i \in DOMAIN ps |-> SettlePart(ps[i])]
<1>1. n \in Nat /\ k \in Nat /\ DOMAIN ps = 1..n /\ (es # <<>> => k # 0)
  OBVIOUS
<1>2. \A i \in 1..k : es[i] \in ErrorPart
  BY ElementOfSeq
<1>3. es \in Seq(ResponsePart)
  <2>1. ErrorPart \subseteq ResponsePart
    BY DEF ResponsePart
  <2> QED BY <2>1, SeqMonotonic
<1>4. \A i \in 1..n : ps[i] \in ResponsePart /\ (IsCall(ps[i]) => CallIsConfirmed(ps[i].call))
  BY ElementOfSeq DEF ConfirmedCalls
<1> HIDE DEF n
<1>5. ss = [i \in 1..n |-> SettlePart(ps[i])]
  BY <1>1
<1> HIDE DEF ss
<1>6. \A i \in 1..n : ss[i] \in ResponsePart /\ (IsCall(ss[i]) => CallIsConfirmed(ss[i].call) /\ ss[i].call.status \in Settled)
  BY <1>4, <1>5, SettledPart
<1>7. ss \in [1..n -> ResponsePart]
  BY <1>5, <1>6
<1>8. ss \in Seq(ResponsePart) /\ Len(ss) = n
  BY <1>1, <1>7
<1>9. qs = ss \o es
  BY DEF ss
<1>10. /\ qs \in Seq(ResponsePart) /\ Len(qs) = n + k
       /\ \A i \in 1..(n + k) : qs[i] = IF i <= n THEN ss[i] ELSE es[i - n]
  <2>1. /\ ss \o es \in Seq(ResponsePart) /\ Len(ss \o es) = Len(ss) + Len(es)
        /\ \A i \in 1..Len(ss) + Len(es) :
             (ss \o es)[i] = IF i <= Len(ss) THEN ss[i] ELSE es[i - Len(ss)]
    BY <1>3, <1>8, ConcatProperties
  <2> QED BY <1>8, <1>9, <2>1
<1> HIDE DEF k
<1>11. \A i \in 1..(n + k) : \/ i \in 1..n /\ qs[i] = ss[i]
                             \/ i - n \in 1..k /\ qs[i] = es[i - n]
  BY <1>1, <1>10
<1>12. ASSUME NEW i \in 1..(n + k) PROVE IsCall(qs[i]) => CallIsConfirmed(qs[i].call) /\ qs[i].call.status \in Settled
  <2>1. CASE i \in 1..n /\ qs[i] = ss[i]
    BY <1>6, <2>1
  <2>2. CASE i - n \in 1..k /\ qs[i] = es[i - n]
    <3>1. qs[i] \in ErrorPart
      BY <1>2, <2>2
    <3> QED BY <3>1 DEF ErrorPart, IsCall
  <2> QED BY <1>11, <2>1, <2>2
<1>13. ASSUME how = "error" PROVE qs # <<>> /\ Last(qs).kind = "error"
  <2>1. k # 0
    BY <1>1, <1>13
  <2>2. n + k \in 1..(n + k) /\ n + k # 0 /\ (n + k) - n = k /\ ~(n + k <= n) /\ k \in 1..k
    BY <1>1, <2>1
  <2>3. qs[n + k] = es[k] /\ es[k] \in ErrorPart
    BY <1>2, <1>10, <2>2
  <2>4. Last(qs) = qs[n + k]
    BY <1>10 DEF Last
  <2>5. Last(qs).kind = "error"
    BY <2>3, <2>4 DEF ErrorPart
  <2>6. qs # <<>>
    BY <1>10, <2>2
  <2> QED BY <2>5, <2>6
<1> QED BY <1>10, <1>12, <1>13 DEF ConfirmedCalls

LEMMA EndTurnGood ==
  ASSUME Apart, Good(chat), NEW t, NEW how \in {"complete", "cancelled", "error"},
         NEW es \in Seq(ErrorPart), how = "error" => es # <<>>, EndTurn(t, how, es)
  PROVE  Good(chat') /\ Kept(chat, chat')
<1> DEFINE ps == chat.active.parts
           qs == [i \in DOMAIN ps |-> SettlePart(ps[i])] \o es
           turn == [id |-> t, usage |-> chat.active.usage, state |-> how, parts |-> qs]
           us == Append(chat.turns, turn)
           next == [chat EXCEPT !.turns = us, !.active = None]
           fresh == RefreshSummaryStatus(next)
           status == IF how = "error" THEN "Error" ELSE fresh.status
<1>1. chat.active # None /\ chat.active.id = t /\ chat' = [fresh EXCEPT !.status = status]
  BY DEF EndTurn, IsActive
<1>2. /\ chat \in ChatState /\ chat.turns \in Seq(Turn) /\ AllEnded(chat.turns)
      /\ ListsFine(chat)
  BY TurnsOf
<1>3. ps \in Seq(ResponsePart) /\ ConfirmedCalls(ps) /\ t \in TurnId /\ chat.active.usage \in BOOLEAN
  BY <1>1, <1>2, LiveParts, ActiveOf
<1>4. /\ qs \in Seq(ResponsePart) /\ ConfirmedCalls(qs)
      /\ \A i \in 1..Len(qs) : IsCall(qs[i]) => qs[i].call.status \in Settled
      /\ how = "error" => qs # <<>> /\ Last(qs).kind = "error"
  BY <1>3, EndedParts
<1> HIDE DEF qs
<1>5. turn \in Turn /\ turn.id = t /\ turn.state = how /\ turn.parts = qs
  BY <1>3, <1>4 DEF Turn
<1> HIDE DEF turn
<1>6. Ended(turn)
  BY <1>4, <1>5 DEF Ended
<1>7. /\ us \in Seq(Turn) /\ AllEnded(us) /\ TurnsKept(chat.turns, us)
      /\ us # <<>> /\ Last(us) = turn
  BY <1>2, <1>5, <1>6, TurnsAfter
<1> HIDE DEF us
<1>8. /\ next \in ChatState /\ next.turns = us /\ next.active = None
      /\ next.queued = chat.queued /\ next.dirs = chat.dirs
  BY <1>2, <1>7 DEF ChatState
<1> HIDE DEF next
<1>9. /\ fresh \in ChatState /\ fresh.status = StatusOf(None) /\ fresh.turns = us /\ fresh.active = None
      /\ fresh.queued = chat.queued /\ fresh.dirs = chat.dirs
  BY <1>8, RefreshedFields
<1> HIDE DEF fresh
<1>10. status \in ActivityStatus /\ (status = StatusOf(None) \/ (status = "Error" /\ how = "error"))
  BY <1>9, StatusType DEF ActivityStatus
<1> HIDE DEF status
<1>11. /\ chat' \in ChatState /\ chat'.turns = us /\ chat'.active = None /\ chat'.status = status
       /\ chat'.queued = chat.queued /\ chat'.dirs = chat.dirs
  BY <1>1, <1>9, <1>10 DEF ChatState
<1>12. ListsFine(chat')
  BY <1>2, <1>11 DEF ListsFine
<1>13. status = "Error" /\ how = "error" => FailedLast(us)
  BY <1>5, <1>7 DEF FailedLast
<1>14. Good(chat')
  BY <1>7, <1>10, <1>11, <1>12, <1>13 DEF Good, AllEnded
<1> QED BY <1>7, <1>11, <1>14 DEF Kept

LEMMA TurnCompleteGood ==
  ASSUME Apart, Good(chat), NEW t, TurnComplete(t) \/ TurnCancelled(t)
  PROVE  Good(chat') /\ Kept(chat, chat')
<1>1. <<>> \in Seq(ErrorPart)
  OBVIOUS
<1>2. CASE TurnComplete(t)
  BY <1>1, <1>2, EndTurnGood DEF TurnComplete
<1>3. CASE TurnCancelled(t)
  BY <1>1, <1>3, EndTurnGood DEF TurnCancelled
<1> QED BY <1>2, <1>3

LEMMA TurnErrorGood ==
  ASSUME Apart, Good(chat), NEW t, NEW resumable \in BOOLEAN, TurnError(t, resumable)
  PROVE  Good(chat') /\ Kept(chat, chat')
<1> DEFINE e == [kind |-> "error", resumable |-> resumable]
<1>1. e \in ErrorPart
  BY DEF ErrorPart
<1>2. EndTurn(t, "error", <<e>>)
  BY DEF TurnError
<1> HIDE DEF e
<1>3. <<e>> \in Seq(ErrorPart) /\ <<e>> # <<>>
  BY <1>1
<1> QED BY <1>2, <1>3, EndTurnGood

LEMMA TurnResumeGood ==
  ASSUME Apart, Good(chat), NEW t \in TurnId, TurnResume(t)
  PROVE  Good(chat') /\ Kept(chat, chat')
<1> DEFINE ts == chat.turns
           turn == Last(ts)
           us == Front(ts)
           active == [id |-> t, parts |-> turn.parts, usage |-> turn.usage]
           next == [chat EXCEPT !.turns = us, !.active = active]
<1>1. chat.active = None /\ ts # <<>> /\ turn.id = t /\ chat' = RefreshUnread(next)
  BY DEF TurnResume
<1>2. /\ chat \in ChatState /\ ts \in Seq(Turn) /\ AllEnded(ts) /\ ListsFine(chat)
  BY TurnsOf
<1>3. Len(ts) \in Nat /\ Len(ts) # 0 /\ DOMAIN ts = 1..Len(ts) /\ Len(ts) \in 1..Len(ts) /\ Len(ts) - 1 \in 0..Len(ts)
      /\ \A i \in 1..(Len(ts) - 1) : i \in 1..Len(ts) /\ i # Len(ts)
  BY <1>1, <1>2
<1>4. turn = ts[Len(ts)]
  BY DEF Last
<1>5. turn \in Turn /\ Ended(turn)
  BY <1>2, <1>3, <1>4, ElementOfSeq DEF AllEnded
<1>6. us = SubSeq(ts, 1, Len(ts) - 1)
  BY DEF Front
<1>7. /\ us \in Seq(Turn) /\ Len(us) = Len(ts) - 1 /\ AllEnded(us) /\ TurnsKept(ts, us)
      /\ \A i \in 1..(Len(ts) - 1) : us[i] = ts[i]
  <2> DEFINE k == Len(ts) - 1
  <2>1. k \in 0..Len(ts) /\ us = SubSeq(ts, 1, k)
    BY <1>3, <1>6
  <2> HIDE DEF k, us
  <2>2. /\ us \in Seq(Turn) /\ Len(us) = k /\ AllEnded(us) /\ TurnsKept(ts, us)
        /\ \A i \in 1..k : us[i] = ts[i]
    BY <1>2, <2>1, TurnsCut
  <2> QED BY <2>2 DEF k
<1>9. active \in ActiveTurn /\ active.id = t /\ active.parts = turn.parts
  BY <1>5 DEF Turn, ActiveTurn
<1>10. ConfirmedCalls(active.parts)
  BY <1>5, <1>9 DEF Ended
<1> HIDE DEF us, active
<1>11. /\ next \in ChatState /\ next.turns = us /\ next.active = active
       /\ next.queued = chat.queued /\ next.dirs = chat.dirs
  BY <1>2, <1>7, <1>9 DEF ChatState
<1> HIDE DEF next
<1>12. /\ chat' \in ChatState /\ chat'.status = StatusOf(active) /\ chat'.turns = us /\ chat'.active = active
       /\ chat'.queued = chat.queued /\ chat'.dirs = chat.dirs
  BY <1>1, <1>11, UnreadFields
<1>13. ListsFine(chat')
  BY <1>2, <1>12 DEF ListsFine
<1>14. Good(chat')
  BY <1>7, <1>9, <1>10, <1>12, <1>13 DEF Good, AllEnded
<1> QED BY <1>1, <1>7, <1>12, <1>14 DEF Kept

LEMMA TurnFound ==
  ASSUME NEW ts \in Seq(Turn), NEW t \in Ids(ts)
  PROVE  IndexOfId(ts, t) \in 1..Len(ts)
<1> DEFINE I == {i \in 1..Len(ts) : ts[i].id = t}
<1>1. IndexOfId(ts, t) = IF I # {} THEN Min(I) ELSE 0
  BY DEF IndexOfId, SelectInSeq
<1>2. I # {} /\ I \subseteq 1..Len(ts) /\ Len(ts) \in Nat
  BY DEF Ids
<1> HIDE DEF I
<1> QED BY <1>1, <1>2, FirstPlace

LEMMA TruncatedGood ==
  ASSUME Apart, Good(chat), NEW t, Truncated(t)
  PROVE  Good(chat') /\ Kept(chat, chat')
<1> DEFINE ts == chat.turns
           us == IF t = None THEN <<>> ELSE SubSeq(ts, 1, IndexOfId(ts, t))
           k == IF t = None THEN 0 ELSE IndexOfId(ts, t)
           more == chat.more /\ t # None
           next == [chat EXCEPT !.turns = us, !.active = None, !.more = more]
<1>1. (t # None => t \in Ids(ts)) /\ chat' = RefreshSummaryStatus(next)
  BY DEF Truncated
<1>2. /\ chat \in ChatState /\ ts \in Seq(Turn) /\ AllEnded(ts) /\ ListsFine(chat)
  BY TurnsOf
<1>3. k \in 0..Len(ts)
  <2>1. CASE t = None
    BY <1>2, <2>1
  <2>2. CASE t # None
    <3>1. IndexOfId(ts, t) \in 1..Len(ts) /\ Len(ts) \in Nat
      BY <1>1, <1>2, <2>2, TurnFound
    <3> QED BY <2>2, <3>1
  <2> QED BY <2>1, <2>2
<1>4. us = SubSeq(ts, 1, k)
  <2>1. CASE t = None
    <3>1. SubSeq(ts, 1, 0) = <<>>
      BY SubSeqEmpty
    <3> QED BY <2>1, <3>1
  <2>2. CASE t # None
    BY <2>2
  <2> QED BY <2>1, <2>2
<1> HIDE DEF us, k
<1>5. us \in Seq(Turn) /\ AllEnded(us) /\ TurnsKept(ts, us)
  BY <1>2, <1>3, <1>4, TurnsCut
<1>6. more \in BOOLEAN
  OBVIOUS
<1> HIDE DEF more
<1>7. /\ next \in ChatState /\ next.turns = us /\ next.active = None
      /\ next.queued = chat.queued /\ next.dirs = chat.dirs
  BY <1>2, <1>5, <1>6 DEF ChatState
<1> HIDE DEF next
<1>8. /\ chat' \in ChatState /\ chat'.status = StatusOf(None) /\ chat'.turns = us /\ chat'.active = None
      /\ chat'.queued = chat.queued /\ chat'.dirs = chat.dirs
  BY <1>1, <1>7, RefreshedFields
<1>9. ListsFine(chat')
  BY <1>2, <1>8 DEF ListsFine
<1>10. Good(chat')
  BY <1>5, <1>8, <1>9 DEF Good, AllEnded
<1> QED BY <1>5, <1>8, <1>10 DEF Kept

\* A page of turns as a host loads it.
LEMMA OldTurnType ==
  ASSUME Apart, NEW turn \in OldTurns
  PROVE  turn \in Turn /\ Ended(turn)
<1> DEFINE Past(parts, how) == [id : TurnId, parts : parts, usage : {FALSE}, state : {how}]
           skipped == {call \in WholeCall : call.status = "cancelled" /\ call.reason = "skipped"}
           e == [kind |-> "error", resumable |-> TRUE]
<1>1. CASE turn \in Past({<<>>}, "complete")
  <2>1. turn.parts = <<>> /\ turn.state = "complete"
    BY <1>1
  <2>2. turn.parts \in Seq(ResponsePart) /\ Len(turn.parts) = 0
    BY <2>1
  <2>3. turn \in Turn
    BY <1>1, <2>2 DEF Turn
  <2> QED BY <2>1, <2>2, <2>3 DEF Ended, ConfirmedCalls
<1>2. CASE turn \in Past({<<p>> : p \in [kind : {"toolCall"}, call : skipped]}, "cancelled")
  <2>1. PICK p \in [kind : {"toolCall"}, call : skipped] : turn.parts = <<p>>
    BY <1>2
  <2>2. /\ p.call \in ToolCall /\ CallIsConfirmed(p.call) /\ p.call.status = "cancelled"
        /\ p = [kind |-> "toolCall", call |-> p.call]
    BY <2>1, WholeCallType
  <2>3. p \in ResponsePart
    BY <2>2 DEF ResponsePart, ToolCallPart
  <2>4. turn.parts \in Seq(ResponsePart) /\ Len(turn.parts) = 1 /\ turn.parts[1] = p
    BY <2>1, <2>3
  <2>5. turn.state = "cancelled"
    BY <1>2
  <2>6. turn \in Turn
    BY <1>2, <2>4 DEF Turn
  <2> QED BY <2>2, <2>4, <2>5, <2>6 DEF Ended, ConfirmedCalls, Settled
<1>3. CASE turn \in Past({<<e>>}, "error")
  <2>1. e \in ResponsePart /\ e.kind = "error" /\ ~IsCall(e)
    BY DEF ResponsePart, ErrorPart, IsCall
  <2> HIDE DEF e
  <2>2. turn.parts = <<e>>
    BY <1>3
  <2>3. turn.parts \in Seq(ResponsePart) /\ Len(turn.parts) = 1 /\ turn.parts[1] = e
    BY <2>1, <2>2
  <2>4. turn \in Turn
    BY <1>3, <2>3 DEF Turn
  <2>5. Last(turn.parts) = e /\ turn.parts # <<>>
    BY <2>3 DEF Last
  <2> QED BY <2>1, <2>3, <2>4, <2>5 DEF Ended, ConfirmedCalls
<1> QED BY <1>1, <1>2, <1>3 DEF OldTurns

LEMMA PageType ==
  ASSUME Apart, NEW page \in Pages
  PROVE  page \in Seq(Turn) /\ AllEnded(page)
<1>1. PICK n \in 0..2 : page \in [1..n -> OldTurns]
  BY DEF Pages, BoundedSeq, SeqOf
<1>2. \A i \in 1..n : page[i] \in Turn /\ Ended(page[i])
  BY <1>1, OldTurnType
<1>3. page \in [1..n -> Turn] /\ n \in Nat
  BY <1>1, <1>2
<1>4. page \in Seq(Turn) /\ Len(page) = n
  BY <1>3
<1> QED BY <1>2, <1>4 DEF AllEnded

LEMMA TurnsLoadedGood ==
  ASSUME Apart, Good(chat), NEW page \in Pages, NEW more \in BOOLEAN, TurnsLoaded(page, more)
  PROVE  Good(chat') /\ Kept(chat, chat')
<1> DEFINE ts == chat.turns
           set == {turn \in ToSet(page) : turn.id \notin Ids(ts)}
           older == KeepOnly(page, set)
           us == older \o ts
<1>1. chat' = [chat EXCEPT !.turns = us, !.more = more]
  BY DEF TurnsLoaded
<1>2. /\ chat \in ChatState /\ ts \in Seq(Turn) /\ AllEnded(ts) /\ ListsFine(chat)
  BY TurnsOf
<1>3. page \in Seq(Turn) /\ AllEnded(page)
  BY PageType
<1>4. Filtered(Turn, page, Len(page), set, older)
  BY <1>3, KeptOnly
<1> HIDE DEF older
<1>5. older \in Seq(Turn) /\ \A i \in 1..Len(older) : older[i] \in set /\ \E p \in 1..Len(page) : older[i] = page[p]
  BY <1>4 DEF Filtered
<1>6. AllEnded(older)
  BY <1>3, <1>5 DEF AllEnded
<1>7. \A i \in 1..Len(older) : older[i].id \notin Ids(ts)
  BY <1>5
<1>8. /\ us \in Seq(Turn) /\ AllEnded(us) /\ TurnsKept(ts, us)
      /\ ts # <<>> => us # <<>> /\ Last(us) = Last(ts)
  BY <1>2, <1>5, <1>6, <1>7, TurnsBefore
<1> HIDE DEF us
<1>9. /\ chat' \in ChatState /\ chat'.turns = us /\ chat'.active = chat.active /\ chat'.status = chat.status
      /\ chat'.unseen = chat.unseen /\ chat'.queued = chat.queued /\ chat'.dirs = chat.dirs
  BY <1>1, <1>2, <1>8 DEF ChatState
<1>10. ListsFine(chat')
  BY <1>2, <1>9 DEF ListsFine
<1>12. FailedLast(ts) => FailedLast(us)
  BY <1>8 DEF FailedLast
<1>13. Good(chat')
  BY <1>8, <1>9, <1>10, <1>12 DEF Good, AllEnded, Lags
<1>14. PartsKept(chat.active.parts, chat.active.parts)
  BY DEF PartsKept, PartKept
<1> QED BY <1>8, <1>9, <1>13, <1>14 DEF Kept

-----------------------------------------------------------------------------
(* Pending messages, draft, activity, working directories.                 *)

LEMMA Included ==
  ASSUME NEW F, NEW list \in Seq(F), Distinct(list), NEW v \in F
  PROVE  /\ Include(list, v) \in Seq(F) /\ Distinct(Include(list, v))
         /\ Include(list, v) # <<>>
<1>1. CASE v \in ToSet(list)
  <2>1. list # <<>>
    BY <1>1 DEF ToSet
  <2> QED BY <1>1, <2>1 DEF Include
<1>2. CASE v \notin ToSet(list)
  <2> DEFINE n == Len(list)
             more == Append(list, v)
  <2>1. n \in Nat /\ DOMAIN list = 1..n
    OBVIOUS
  <2>2. /\ more \in Seq(F) /\ more # <<>> /\ Len(more) = n + 1
        /\ \A i \in 1..n : more[i] = list[i]
        /\ more[n + 1] = v
    BY AppendProperties
  <2>3. \A i, j \in 1..n : list[i] = list[j] => i = j
    BY <2>1 DEF Distinct
  <2>4. \A i \in 1..n : list[i] # v
    BY <1>2, <2>1 DEF ToSet
  <2>5. Include(list, v) = more
    BY <1>2 DEF Include
  <2> HIDE DEF n, more
  <2>6. DOMAIN more = 1..(n + 1) /\ \A i \in 1..(n + 1) : i \in 1..n \/ i = n + 1
    BY <2>1, <2>2
  <2>7. Distinct(more)
    BY <2>2, <2>3, <2>4, <2>6 DEF Distinct
  <2> QED BY <2>2, <2>5, <2>7
<1> QED BY <1>1, <1>2

LEMMA NoneTwice == ASSUME NEW F PROVE <<>> \in Seq(F) /\ Distinct(<<>>)
  BY DEF Distinct

LEMMA Removed ==
  ASSUME NEW F, NEW list \in Seq(F), Distinct(list), NEW v
  PROVE  RemoveFirst(list, v) \in Seq(F) /\ Distinct(RemoveFirst(list, v))
<1>1. CASE ~\E i \in 1..Len(list) : list[i] = v
  <2>1. RemoveFirst(list, v) = list
    BY <1>1 DEF RemoveFirst
  <2> QED BY <2>1
<1>2. CASE \E i \in 1..Len(list) : list[i] = v
  <2> DEFINE I == {i \in 1..Len(list) : list[i] = v}
             at == IF I # {} THEN Min(I) ELSE 0
             rest == RemoveAt(list, at)
  <2>1. RemoveFirst(list, v) = rest
    BY <1>2 DEF RemoveFirst, SelectInSeq
  <2>2. Len(list) \in Nat /\ I \subseteq 1..Len(list) /\ I # {} /\ DOMAIN list = 1..Len(list)
    BY <1>2
  <2>3. at \in 1..Len(list)
    <3> HIDE DEF I
    <3> QED BY <2>2, FirstPlace
  <2> HIDE DEF at
  <2>4. /\ rest \in Seq(F) /\ Len(rest) = Len(list) - 1
        /\ \A n \in 1..Len(list) - 1 : rest[n] = IF n < at THEN list[n] ELSE list[n + 1]
    BY <2>3, RemovedAt
  <2> HIDE DEF rest
  <2>5. DOMAIN rest = 1..Len(list) - 1
    BY <2>2, <2>4
  <2>6. ASSUME NEW i \in 1..Len(list) - 1, NEW j \in 1..Len(list) - 1, rest[i] = rest[j] PROVE i = j
    <3>1. \A n \in 1..Len(list) - 1 : n \in 1..Len(list) /\ n + 1 \in 1..Len(list)
      BY <2>2
    <3>2. \A n, m \in 1..Len(list) : list[n] = list[m] => n = m
      BY <2>2 DEF Distinct
    <3>3. CASE i < at /\ j < at
      BY <2>4, <2>6, <3>1, <3>2, <3>3
    <3>4. CASE i < at /\ ~(j < at)
      <4>1. list[i] = list[j + 1]
        BY <2>4, <2>6, <3>4
      <4>2. i = j + 1
        BY <3>1, <3>2, <4>1
      <4> QED BY <2>2, <2>3, <3>4, <4>2
    <3>5. CASE ~(i < at) /\ j < at
      <4>1. list[i + 1] = list[j]
        BY <2>4, <2>6, <3>5
      <4>2. i + 1 = j
        BY <3>1, <3>2, <4>1
      <4> QED BY <2>2, <2>3, <3>5, <4>2
    <3>6. CASE ~(i < at) /\ ~(j < at)
      <4>1. list[i + 1] = list[j + 1]
        BY <2>4, <2>6, <3>6
      <4>2. i + 1 = j + 1
        BY <3>1, <3>2, <4>1
      <4> QED BY <2>2, <4>2
    <3> QED BY <3>3, <3>4, <3>5, <3>6
  <2>7. Distinct(rest)
    BY <2>5, <2>6 DEF Distinct
  <2> QED BY <2>1, <2>4, <2>7
<1> QED BY <1>1, <1>2

\* A state with another queue, or with other directories.
LEMMA QueueGood ==
  ASSUME NEW c, Good(c), NEW queued \in Seq(Message) \cup {None},
         queued # None => queued # <<>> /\ Distinct(queued), NEW d, d = [c EXCEPT !.queued = queued]
  PROVE  Good(d) /\ Kept(c, d)
<1>1. c \in ChatState /\ ListsFine(c)
  BY TurnsOf
<1>2. /\ d \in ChatState /\ d.status = c.status /\ d.unseen = c.unseen /\ d.active = c.active /\ d.turns = c.turns
      /\ d.queued = queued /\ d.dirs = c.dirs
  BY <1>1 DEF ChatState
<1>3. ListsFine(d)
  BY <1>1, <1>2 DEF ListsFine
<1> QED BY <1>2, <1>3, AsideGood

LEMMA DirsGood ==
  ASSUME NEW c, Good(c), NEW dirs \in Seq(Directory), Distinct(dirs), NEW d, d = [c EXCEPT !.dirs = dirs]
  PROVE  Good(d) /\ Kept(c, d)
<1>1. c \in ChatState /\ ListsFine(c)
  BY TurnsOf
<1>2. /\ d \in ChatState /\ d.status = c.status /\ d.unseen = c.unseen /\ d.active = c.active /\ d.turns = c.turns
      /\ d.queued = c.queued /\ d.dirs = dirs
  BY <1>1 DEF ChatState
<1>3. ListsFine(d)
  BY <1>1, <1>2 DEF ListsFine
<1> QED BY <1>2, <1>3, AsideGood

LEMMA SteeringGood ==
  ASSUME NEW c, Good(c), NEW m \in Message \cup {None}, NEW d, d = [c EXCEPT !.steering = m]
  PROVE  Good(d) /\ Kept(c, d)
<1>1. c \in ChatState /\ ListsFine(c)
  BY TurnsOf
<1>2. /\ d \in ChatState /\ d.status = c.status /\ d.unseen = c.unseen /\ d.active = c.active /\ d.turns = c.turns
      /\ d.queued = c.queued /\ d.dirs = c.dirs
  BY <1>1 DEF ChatState
<1>3. ListsFine(d)
  BY <1>1, <1>2 DEF ListsFine
<1> QED BY <1>2, <1>3, AsideGood

LEMMA PendingMessageSetGood ==
  ASSUME Good(chat), NEW kind, NEW m \in MessageId, PendingMessageSet(kind, m)
  PROVE  Good(chat') /\ Kept(chat, chat')
<1>1. CASE kind = "steering"
  BY <1>1, SteeringGood DEF PendingMessageSet, Message
<1>2. CASE kind # "steering"
  <2> DEFINE list == IF chat.queued = None THEN <<>> ELSE chat.queued
             queued == Include(list, m)
  <2>1. list \in Seq(Message) /\ Distinct(list)
    BY TurnsOf, FieldsOf, NoneTwice DEF ListsFine
  <2>2. chat' = [chat EXCEPT !.queued = queued]
    BY <1>2 DEF PendingMessageSet
  <2> HIDE DEF list
  <2>3. queued \in Seq(Message) /\ Distinct(queued) /\ queued # <<>>
    BY <2>1, Included DEF Message
  <2> HIDE DEF queued
  <2> QED BY <2>2, <2>3, QueueGood
<1> QED BY <1>1, <1>2

LEMMA PendingMessageRemovedGood ==
  ASSUME Good(chat), NEW kind, NEW m, PendingMessageRemoved(kind, m)
  PROVE  Good(chat') /\ Kept(chat, chat')
<1>1. CASE chat' = [chat EXCEPT !.steering = None]
  BY <1>1, SteeringGood
<1>2. CASE /\ chat.queued # None
           /\ LET left == KeepOnly(chat.queued, ToSet(chat.queued) \ {m})
              IN  chat' = [chat EXCEPT !.queued = IF left = <<>> THEN None ELSE left]
  <2> DEFINE left == KeepOnly(chat.queued, ToSet(chat.queued) \ {m})
             queued == IF left = <<>> THEN None ELSE left
  <2>1. left \in Seq(Message) /\ Distinct(left)
    BY <1>2, QueueWithout
  <2>2. chat' = [chat EXCEPT !.queued = queued]
    BY <1>2
  <2> HIDE DEF left
  <2>3. queued \in Seq(Message) \cup {None} /\ (queued # None => queued # <<>> /\ Distinct(queued))
    BY <2>1
  <2> HIDE DEF queued
  <2> QED BY <2>2, <2>3, QueueGood
<1> QED BY <1>1, <1>2 DEF PendingMessageRemoved

LEMMA DraftChangedGood ==
  ASSUME Good(chat), NEW d \in Draft \cup {None}, DraftChanged(d)
  PROVE  Good(chat') /\ Kept(chat, chat')
<1>1. chat \in ChatState /\ ListsFine(chat)
  BY TurnsOf
<1>2. /\ chat' \in ChatState /\ chat'.status = chat.status /\ chat'.unseen = chat.unseen /\ chat'.active = chat.active
      /\ chat'.turns = chat.turns /\ chat'.queued = chat.queued /\ chat'.dirs = chat.dirs
  BY <1>1 DEF ChatState, DraftChanged
<1>3. ListsFine(chat')
  BY <1>1, <1>2 DEF ListsFine
<1> QED BY <1>2, <1>3, AsideGood

LEMMA ActivityChangedGood ==
  ASSUME Good(chat), NEW a \in Activity \cup {None}, ActivityChanged(a)
  PROVE  Good(chat') /\ Kept(chat, chat')
<1>1. chat \in ChatState /\ ListsFine(chat)
  BY TurnsOf
<1>2. /\ chat' \in ChatState /\ chat'.status = chat.status /\ chat'.unseen = chat.unseen /\ chat'.active = chat.active
      /\ chat'.turns = chat.turns /\ chat'.queued = chat.queued /\ chat'.dirs = chat.dirs
  BY <1>1 DEF ChatState, ActivityChanged
<1>3. ListsFine(chat')
  BY <1>1, <1>2 DEF ListsFine
<1> QED BY <1>2, <1>3, AsideGood

LEMMA WorkingDirectorySetGood ==
  ASSUME Good(chat), NEW d \in Directory, WorkingDirectorySet(d)
  PROVE  Good(chat') /\ Kept(chat, chat')
<1> DEFINE list == IF chat.dirs = None THEN <<>> ELSE chat.dirs
           dirs == Include(list, d)
<1>1. list \in Seq(Directory) /\ Distinct(list)
  BY TurnsOf, FieldsOf, NoneTwice DEF ListsFine
<1>2. chat' = [chat EXCEPT !.dirs = dirs]
  BY DEF WorkingDirectorySet
<1> HIDE DEF list
<1>3. dirs \in Seq(Directory) /\ Distinct(dirs)
  BY <1>1, Included
<1> HIDE DEF dirs
<1> QED BY <1>2, <1>3, DirsGood

LEMMA WorkingDirectoryRemovedGood ==
  ASSUME Good(chat), NEW d, WorkingDirectoryRemoved(d)
  PROVE  Good(chat') /\ Kept(chat, chat')
<1> DEFINE dirs == RemoveFirst(chat.dirs, d)
<1>1. chat.dirs # None /\ chat' = [chat EXCEPT !.dirs = dirs]
  BY DEF WorkingDirectoryRemoved
<1>2. chat.dirs \in Seq(Directory) /\ Distinct(chat.dirs)
  BY <1>1, TurnsOf, FieldsOf DEF ListsFine
<1>3. dirs \in Seq(Directory) /\ Distinct(dirs)
  BY <1>2, Removed
<1> HIDE DEF dirs
<1> QED BY <1>1, <1>3, DirsGood

Disjoint(s, u) == \A i \in 1..Len(s), j \in 1..Len(u) : s[i] # u[j]

LEMMA DistinctTogether ==
  ASSUME NEW F, NEW s \in Seq(F), NEW u \in Seq(F), Distinct(s), Distinct(u),
         Disjoint(s, u)
  PROVE  s \o u \in Seq(F) /\ Distinct(s \o u) /\ Len(s \o u) = Len(s) + Len(u)
<1> DEFINE n == Len(s)
           k == Len(u)
           w == s \o u
<1>1. n \in Nat /\ k \in Nat /\ DOMAIN s = 1..n /\ DOMAIN u = 1..k
  OBVIOUS
<1>2. /\ w \in Seq(F) /\ Len(w) = n + k
      /\ \A i \in 1..(n + k) : w[i] = IF i <= n THEN s[i] ELSE u[i - n]
  BY ConcatProperties DEF w
<1>3. (\A i, j \in 1..n : s[i] = s[j] => i = j) /\ (\A i, j \in 1..k : u[i] = u[j] => i = j)
  BY <1>1 DEF Distinct
<1> HIDE DEF w
<1>4. \A i \in 1..n, j \in 1..k : s[i] # u[j]
  BY DEF Disjoint
<1> HIDE DEF n, k
<1>5. DOMAIN w = 1..(n + k)
  BY <1>1, <1>2
<1>6. \A i \in 1..(n + k) : \/ i \in 1..n /\ w[i] = s[i]
                            \/ i - n \in 1..k /\ w[i] = u[i - n]
  BY <1>1, <1>2
<1>7. ASSUME NEW i \in 1..(n + k), NEW j \in 1..(n + k), w[i] = w[j] PROVE i = j
  <2>1. CASE i \in 1..n /\ w[i] = s[i]
    <3>1. j \in 1..n /\ w[j] = s[j]
      BY <1>4, <1>6, <1>7, <2>1
    <3> QED BY <1>3, <1>7, <2>1, <3>1
  <2>2. CASE i - n \in 1..k /\ w[i] = u[i - n]
    <3>1. j - n \in 1..k /\ w[j] = u[j - n]
      BY <1>4, <1>6, <1>7, <2>2
    <3>2. i - n = j - n
      BY <1>3, <1>7, <2>2, <3>1
    <3> QED BY <1>1, <3>2
  <2> QED BY <1>6, <2>1, <2>2
<1> QED BY <1>2, <1>5, <1>7 DEF Distinct, n, k, w

\* The messages an order names, at the first place it names them.
FirstPlaces(order, q) ==
  {i \in DOMAIN order : /\ order[i] \in ToSet(q)
                        /\ \A j \in DOMAIN order : order[j] = order[i] => i <= j}
PlacesOf(order, q) == KeepOnly([i \in DOMAIN order |-> i], FirstPlaces(order, q))
NamedOf(order, q) == [k \in DOMAIN PlacesOf(order, q) |-> order[PlacesOf(order, q)[k]]]

LEMMA Named ==
  ASSUME NEW F, NEW q \in Seq(F), NEW order \in Seq(F), NEW named, named = NamedOf(order, q)
  PROVE  /\ named \in Seq(F) /\ Distinct(named)
         /\ \A k \in 1..Len(named) : named[k] \in ToSet(order)
         /\ \A m \in ToSet(q) \cap ToSet(order) : Len(named) # 0
<1> DEFINE n == Len(order)
           idx == [i \in DOMAIN order |-> i]
           set == FirstPlaces(order, q)
           places == PlacesOf(order, q)
<1>1. n \in Nat /\ DOMAIN order = 1..n /\ (\A i \in 1..n : order[i] \in F) /\ ToSet(order) = {order[i] : i \in 1..n}
  BY ElementOfSeq DEF ToSet
<1>2. idx = [i \in 1..n |-> i]
  BY <1>1
<1>3. places = KeepOnly(idx, set)
  BY DEF PlacesOf
<1>4. \A i : i \in set <=> /\ i \in 1..n /\ order[i] \in ToSet(q)
                           /\ \A j \in 1..n : order[j] = order[i] => i <= j
  BY <1>1 DEF FirstPlaces
<1>0. named = [k \in DOMAIN places |-> order[places[k]]]
  BY DEF NamedOf
<1> HIDE DEF n, idx, set, places
<1>5. idx \in Seq(1..n) /\ Len(idx) = n /\ DOMAIN idx = 1..n /\ (\A i \in 1..n : idx[i] = i)
  <2>1. idx \in [1..n -> 1..n]
    BY <1>2
  <2>2. idx \in Seq(1..n) /\ Len(idx) = n
    BY <1>1, <2>1
  <2> QED BY <1>2, <2>2
<1>6. Distinct(idx)
  BY <1>5 DEF Distinct
<1>7. Filtered(1..n, idx, n, set, places) /\ Distinct(places)
  BY <1>3, <1>5, <1>6, KeptOnly, KeptDistinct
<1>8. /\ places \in Seq(1..n) /\ \A k \in 1..Len(places) : places[k] \in set
      /\ \A p \in 1..n : idx[p] \in set => \E k \in 1..Len(places) : places[k] = idx[p]
  BY <1>7 DEF Filtered
<1> DEFINE k0 == Len(places)
<1>9. k0 \in Nat /\ DOMAIN places = 1..k0
  BY <1>8
<1>10. \A k \in 1..k0 : places[k] \in set /\ places[k] \in 1..n
  BY <1>4, <1>8
<1> HIDE DEF k0
<1>11. DOMAIN named = 1..k0 /\ \A k \in 1..k0 : named[k] = order[places[k]]
  BY <1>0, <1>9
<1>12. named \in [1..k0 -> F]
  BY <1>0, <1>1, <1>9, <1>10
<1>13. named \in Seq(F) /\ Len(named) = k0 /\ DOMAIN named = 1..k0
  BY <1>9, <1>12
<1>14. ASSUME NEW i \in 1..k0, NEW j \in 1..k0, named[i] = named[j] PROVE i = j
  <2>1. order[places[i]] = order[places[j]]
    BY <1>11, <1>14
  <2>2. places[i] <= places[j] /\ places[j] <= places[i]
    BY <1>4, <1>10, <2>1
  <2>3. places[i] = places[j]
    BY <1>1, <1>10, <2>2
  <2> QED BY <1>7, <1>9, <2>3 DEF Distinct
<1>15. Distinct(named)
  BY <1>13, <1>14 DEF Distinct
<1>16. \A k \in 1..k0 : named[k] \in ToSet(order)
  BY <1>1, <1>10, <1>11
<1>17. ASSUME NEW m \in ToSet(q) \cap ToSet(order) PROVE k0 # 0
  <2> DEFINE I == {i \in 1..n : order[i] = m}
  <2>1. I # {} /\ I \subseteq Nat
    BY <1>1, <1>17
  <2>2. PICK i \in I : \A j \in I : i <= j
    <3> HIDE DEF I
    <3> QED BY <2>1, LeastNumber
  <2>3. i \in 1..n /\ i \in set
    BY <1>4, <1>17, <2>2
  <2>4. idx[i] = i /\ idx[i] \in set
    BY <1>5, <2>3
  <2>5. PICK k \in 1..Len(places) : places[k] = idx[i]
    BY <1>8, <2>3, <2>4
  <2>6. k \in 1..k0
    BY <2>5 DEF k0
  <2> QED BY <1>9, <2>6
<1> QED BY <1>13, <1>15, <1>16, <1>17

LEMMA QueuedMessagesReorderedGood ==
  ASSUME Good(chat), NEW order \in BoundedSeq(MessageId, 3), QueuedMessagesReordered(order)
  PROVE  Good(chat') /\ Kept(chat, chat')
<1> DEFINE q == chat.queued
           named == NamedOf(order, q)
           others == ToSet(q) \ ToSet(order)
           rest == KeepOnly(q, others)
           queued == named \o rest
<1>1. q # None /\ chat' = [chat EXCEPT !.queued = queued]
  BY DEF QueuedMessagesReordered, NamedOf, PlacesOf, FirstPlaces
<1>2. q \in Seq(Message) /\ Distinct(q) /\ q # <<>>
  BY <1>1, TurnsOf, FieldsOf DEF ListsFine
<1>3. order \in Seq(Message)
  <2>1. PICK n \in 0..3 : order \in [1..n -> MessageId]
    BY DEF BoundedSeq, SeqOf
  <2> QED BY <2>1 DEF Message
<1>4. /\ named \in Seq(Message) /\ Distinct(named)
      /\ \A k \in 1..Len(named) : named[k] \in ToSet(order)
      /\ \A m \in ToSet(q) \cap ToSet(order) : Len(named) # 0
  BY <1>2, <1>3, Named
<1>5. Filtered(Message, q, Len(q), others, rest) /\ Distinct(rest)
  BY <1>2, KeptOnly, KeptDistinct
<1> HIDE DEF named, rest
<1>6. /\ rest \in Seq(Message) /\ (\A i \in 1..Len(rest) : rest[i] \in others)
      /\ \A p \in 1..Len(q) : q[p] \in others => \E i \in 1..Len(rest) : rest[i] = q[p]
  BY <1>5 DEF Filtered
<1>7. Disjoint(named, rest)
  BY <1>4, <1>6 DEF Disjoint
<1>8. queued \in Seq(Message) /\ Distinct(queued) /\ Len(queued) = Len(named) + Len(rest)
  <2>1. queued = named \o rest
    OBVIOUS
  <2> HIDE DEF q, others, queued
  <2>2. named \in Seq(Message) /\ Distinct(named) /\ rest \in Seq(Message) /\ Distinct(rest)
    BY <1>4, <1>5, <1>6
  <2> QED BY <1>7, <2>1, <2>2, DistinctTogether
<1>9. Len(named) # 0 \/ Len(rest) # 0
  <2>1. Len(q) \in Nat /\ 1 \in 1..Len(q) /\ q[1] \in ToSet(q)
    BY <1>2 DEF ToSet
  <2>2. CASE q[1] \in ToSet(order)
    BY <1>4, <2>1, <2>2
  <2>3. CASE q[1] \notin ToSet(order)
    BY <1>6, <2>1, <2>3
  <2> QED BY <2>2, <2>3
<1>10. queued # <<>>
  <2>1. Len(named) \in Nat /\ Len(rest) \in Nat
    BY <1>4, <1>6
  <2>2. Len(queued) # 0
    BY <1>8, <1>9, <2>1
  <2> QED BY <2>2
<1> HIDE DEF queued
<1> QED BY <1>1, <1>8, <1>10, QueueGood

-----------------------------------------------------------------------------
(* Every step.                                                             *)

LEMMA InitGood == Init => Good(chat)
<1> SUFFICES ASSUME Init PROVE Good(chat)
  OBVIOUS
<1>1. PICK more \in BOOLEAN, isRead \in BOOLEAN :
        chat = [turns |-> <<>>, more |-> more, active |-> None, status |-> "Idle",
                isRead |-> isRead, unseen |-> FALSE, steering |-> None, queued |-> None, dirs |-> None,
                draft |-> None, activity |-> None]
  BY DEF Init
<1>2. chat \in ChatState
  BY <1>1 DEF ChatState, ActivityStatus
<1>3. /\ chat.turns = <<>> /\ chat.active = None /\ chat.status = "Idle"
      /\ chat.queued = None /\ chat.dirs = None
  BY <1>1
<1>4. chat.status = StatusOf(chat.active)
  BY <1>3 DEF StatusOf
<1>5. Len(chat.turns) = 0
  BY <1>3
<1> QED BY <1>2, <1>3, <1>4, <1>5 DEF Good, ListsFine

LEMMA TurnLifecycleGood ==
  ASSUME Apart, Good(chat), TurnLifecycle
  PROVE  Good(chat') /\ Kept(chat, chat')
<1>1. CASE TurnProgress
  <2>1. PICK t \in TurnId : \/ \E m \in MessageId \cup {None} : TurnStarted(t, m)
                            \/ \E p \in NewParts : ResponsePartAdded(t, p)
                            \/ \E p \in PartId : Delta(t, p)
    BY <1>1 DEF TurnProgress
  <2> QED BY <2>1, TurnStartedGood, ResponsePartAddedGood, AppendTextGood DEF Delta
<1>2. CASE TurnEnds
  <2>1. PICK t \in TurnId : \/ TurnComplete(t) \/ TurnCancelled(t) \/ TurnResume(t)
                            \/ \E resumable \in BOOLEAN : TurnError(t, resumable)
    BY <1>2 DEF TurnEnds
  <2> QED BY <2>1, TurnCompleteGood, TurnResumeGood, TurnErrorGood
<1>3. CASE ReasoningAdded
  BY <1>3, AppendTextGood DEF ReasoningAdded, Reasoning
<1> QED BY <1>1, <1>2, <1>3 DEF TurnLifecycle

LEMMA HistoryChangedGood ==
  ASSUME Apart, Good(chat), HistoryChanged
  PROVE  Good(chat') /\ Kept(chat, chat')
  BY TruncatedGood, TurnsLoadedGood DEF HistoryChanged

LEMMA ToolCallsGood ==
  ASSUME Apart, Good(chat), ToolCalls
  PROVE  Good(chat') /\ Kept(chat, chat')
<1>1. CASE ToolCallProgress
  <2>1. PICK t \in TurnId, c \in ToolCallId :
          \/ \E by \in Contributor : ToolCallStart(t, c, by)
          \/ \E by \in Contributor, how \in ConfirmationReason \cup {None} : ToolCallReady(t, c, by, how)
          \/ \E how \in ConfirmationReason : ToolCallApproved(t, c, how)
          \/ ToolCallDelta(t, c)
    BY <1>1 DEF ToolCallProgress
  <2> QED BY <2>1, ToolCallStartGood, ToolCallReadyGood, ToolCallApprovedGood, ToolCallDeltaGood
<1>2. CASE ToolCallOutcome
  <2>1. PICK t \in TurnId, c \in ToolCallId :
          \/ \E why \in {"denied", "skipped"} : ToolCallDenied(t, c, why)
          \/ \E success \in {"yes", "no"}, hasContent, review \in BOOLEAN :
               ToolCallComplete(t, c, success, hasContent, review)
          \/ \E approved \in BOOLEAN : ToolCallResultConfirmed(t, c, approved)
          \/ ToolCallContentChanged(t, c)
          \/ ToolCallAuthRequired(t, c) \/ ToolCallAuthResolved(t, c)
    BY <1>2 DEF ToolCallOutcome
  <2> QED BY <2>1, ToolCallDeniedGood, ToolCallCompleteGood, ToolCallResultConfirmedGood,
             ToolCallContentChangedGood, ToolCallAuthRequiredGood, ToolCallAuthResolvedGood
<1> QED BY <1>1, <1>2 DEF ToolCalls

LEMMA InputsGood ==
  ASSUME Apart, Good(chat), Inputs
  PROVE  Good(chat') /\ Kept(chat, chat')
  BY InputRequestedGood, InputAnswerChangedGood, InputCompletedGood DEF Inputs

LEMMA PendingMessagesGood ==
  ASSUME Good(chat), PendingMessages
  PROVE  Good(chat') /\ Kept(chat, chat')
  BY PendingMessageSetGood, PendingMessageRemovedGood, QueuedMessagesReorderedGood, DraftChangedGood
     DEF PendingMessages

LEMMA SurroundingsGood ==
  ASSUME Apart, Good(chat), Surroundings
  PROVE  Good(chat') /\ Kept(chat, chat')
  BY UsageGood, ActivityChangedGood, WorkingDirectorySetGood, WorkingDirectoryRemovedGood DEF Surroundings

LEMMA NextGood ==
  ASSUME Apart, Good(chat), Next
  PROVE  Good(chat') /\ Kept(chat, chat')
  BY TurnLifecycleGood, HistoryChangedGood, ToolCallsGood, InputsGood, PendingMessagesGood, SurroundingsGood
     DEF Next

-----------------------------------------------------------------------------
(* What the invariant means.                                               *)

LEMMA GoodIsTyped == Good(chat) => TypeOK
  BY DEF Good, TypeOK

LEMMA CallsOf ==
  ASSUME NEW ps \in Seq(ResponsePart), NEW call \in Calls(ps)
  PROVE  \E i \in 1..Len(ps) : IsCall(ps[i]) /\ call = ps[i].call
  BY DEF Calls, ToSet

LEMMA GoodIsConfirmed == Good(chat) => CallsRunConfirmed
<1> SUFFICES ASSUME Good(chat) PROVE CallsRunConfirmed
  OBVIOUS
<1>1. \A call \in LiveCalls : CallIsConfirmed(call)
  <2>1. CASE chat.active = None
    BY <2>1 DEF LiveCalls
  <2>2. CASE chat.active # None
    BY <2>2, LiveParts, CallsOf DEF LiveCalls, ConfirmedCalls
  <2> QED BY <2>1, <2>2
<1>2. \A turn \in ToSet(chat.turns) : \A call \in Calls(turn.parts) : CallIsConfirmed(call)
  <2> SUFFICES ASSUME NEW turn \in ToSet(chat.turns), NEW call \in Calls(turn.parts) PROVE CallIsConfirmed(call)
    OBVIOUS
  <2>1. chat.turns \in Seq(Turn) /\ AllEnded(chat.turns)
    BY TurnsOf
  <2>2. PICK i \in 1..Len(chat.turns) : turn = chat.turns[i]
    BY <2>1 DEF ToSet
  <2>3. turn \in Turn /\ Ended(turn)
    BY <2>1, <2>2, ElementOfSeq DEF AllEnded
  <2>4. turn.parts \in Seq(ResponsePart)
    BY <2>3 DEF Turn
  <2> QED BY <2>3, <2>4, CallsOf DEF Ended, ConfirmedCalls
<1> QED BY <1>1, <1>2 DEF CallsRunConfirmed

LEMMA GoodIsSettled == Good(chat) => TurnsAreSettled
<1> SUFFICES ASSUME Good(chat), NEW turn \in ToSet(chat.turns)
             PROVE  /\ \A call \in Calls(turn.parts) : call.status \in Settled
                    /\ turn.state = "error" => turn.parts # <<>> /\ Last(turn.parts).kind = "error"
  BY DEF TurnsAreSettled
<1>1. chat.turns \in Seq(Turn) /\ AllEnded(chat.turns)
  BY TurnsOf
<1>2. PICK i \in 1..Len(chat.turns) : turn = chat.turns[i]
  BY <1>1 DEF ToSet
<1>3. turn \in Turn /\ Ended(turn)
  BY <1>1, <1>2, ElementOfSeq DEF AllEnded
<1>4. turn.parts \in Seq(ResponsePart)
  BY <1>3 DEF Turn
<1>5. \A call \in Calls(turn.parts) : call.status \in Settled
  BY <1>3, <1>4, CallsOf DEF Ended
<1> QED BY <1>3, <1>5 DEF Ended

LEMMA GoodFollowsWork == Good(chat) => StatusFollowsWork
<1> SUFFICES ASSUME Good(chat) PROVE StatusFollowsWork
  OBVIOUS
<1>1. IsWaiting <=> chat.active # None /\ SomeAwaits(chat.active.parts)
  <2>1. CASE chat.active = None
    BY <2>1 DEF IsWaiting
  <2>2. CASE chat.active # None
    <3>1. DOMAIN chat.active.parts = 1..Len(chat.active.parts)
      BY <2>2, LiveParts
    <3> QED BY <2>2, <3>1 DEF ToSet, SomeAwaits, IsWaiting
  <2> QED BY <2>1, <2>2
<1>2. \/ chat.status = StatusOf(chat.active)
      \/ Lags(chat)
      \/ chat.status = "Error" /\ chat.active = None /\ FailedLast(chat.turns)
  BY DEF Good
<1>3. /\ StatusOf(chat.active) = "InputNeeded" <=> IsWaiting
      /\ StatusOf(chat.active) = "InProgress" <=> chat.active # None /\ ~IsWaiting
      /\ StatusOf(chat.active) # "Error"
  BY <1>1 DEF StatusOf, SomeAwaits
<1>4. IsWaiting => chat.active # None
  BY <1>1
<1> QED BY <1>2, <1>3, <1>4 DEF StatusFollowsWork, FailedLast, Lags

\* Who contributed a call of the turn under way.
LEMMA OwnersAreContributors ==
  ASSUME NEW c, Good(c), c.active # None, NEW i \in DOMAIN c.active.parts, IsCall(c.active.parts[i])
  PROVE  c.active.parts[i].call.contributor \in Contributor
<1>1. c.active.parts \in Seq(ResponsePart)
  BY ActiveOf DEF Good
<1>2. c.active.parts[i] \in ResponsePart
  BY <1>1, ElementOfSeq
<1>3. c.active.parts[i] \in ToolCallPart
  BY <1>2 DEF ResponsePart, TextPart, OtherPart, ErrorPart, InputRequestPart, IsCall
<1> QED BY <1>3 DEF ToolCallPart, ToolCall

\* CallAdvances for the clients of another chat as well as one's own.
AdvancesFor(clients) ==
  /\ chat.active # None /\ chat'.active # None /\ chat'.active.id = chat.active.id =>
       \A i \in DOMAIN chat.active.parts \cap DOMAIN chat'.active.parts :
         LET p == chat.active.parts[i]
             q == chat'.active.parts[i]
         IN  IsCall(p) =>
               /\ IsCall(q) /\ q.call.id = p.call.id
               /\ q.call.status \in {p.call.status} \cup After(p.call.status)
               /\ p.call.status \in Settled => q = p
               /\ {p.call.contributor, q.call.contributor} \cap clients # {}
                    => q.call.contributor = p.call.contributor
  /\ HistoryStands

LEMMA KeptAdvancesOwn == Kept(chat, chat') => AdvancesFor(Client)
  BY KeptAdvances DEF CallAdvances, AdvancesFor

LEMMA KeptAdvancesFor ==
  ASSUME Good(chat), Good(chat'), Kept(chat, chat'), NEW others, others \cap Contributor = {}
  PROVE  AdvancesFor(others)
<1>1. CallAdvances
  BY KeptAdvances
<1>2. ASSUME chat.active # None, chat'.active # None, chat'.active.id = chat.active.id,
             NEW i \in DOMAIN chat.active.parts \cap DOMAIN chat'.active.parts,
             IsCall(chat.active.parts[i])
      PROVE  /\ IsCall(chat'.active.parts[i])
             /\ {chat.active.parts[i].call.contributor, chat'.active.parts[i].call.contributor} \cap others = {}
  <2>1. IsCall(chat'.active.parts[i])
    BY <1>1, <1>2 DEF CallAdvances
  <2> QED BY <1>2, <2>1, OwnersAreContributors
<1> QED BY <1>1, <1>2 DEF CallAdvances, AdvancesFor

LEMMA GoodIsUnique == Good(chat) => IdsAreUnique
  BY DEF Good, IdsAreUnique, ListsFine

LEMMA GoodTells ==
  Good(chat) => /\ TypeOK /\ IdsAreUnique /\ StatusFollowsWork
                /\ CallsRunConfirmed /\ TurnsAreSettled
  BY GoodIsTyped, GoodIsUnique, GoodFollowsWork, GoodIsConfirmed, GoodIsSettled

=============================================================================
