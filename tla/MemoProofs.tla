----------------------------- MODULE MemoProofs ------------------------------
(****************************************************************************)
(* Proofs about the ticker memo in front of the price cache, for every      *)
(* number of threads and tickers and every size of the memo.                *)
(****************************************************************************)
EXTENDS PriceProofs, SequenceTheorems, WellFoundedInduction

---------------------------------------------------------------------------
(* Sets of naturals. *)

Lesser == {p \in Nat \X Nat : p[1] < p[2]}

\* A set of naturals with 0 and with every successor has all of them.
LEMMA SetInduction ==
    ASSUME NEW S \in SUBSET Nat, 0 \in S, \A n \in S : n + 1 \in S
    PROVE  S = Nat
<1> SUFFICES ASSUME Nat \ S # {} PROVE FALSE
  OBVIOUS
<1>1. IsWellFoundedOn(Lesser, Nat)
  BY NatLessThanWellFounded DEF OpToRel, Lesser
<1>2. PICK m \in Nat \ S : \A y \in Nat \ S : <<y, m>> \notin Lesser
  <2>1. Nat \ S \in SUBSET Nat
    OBVIOUS
  <2> QED
    BY <1>1, <2>1, WFMin
<1>3. m - 1 \in Nat
  OBVIOUS
<1>4. <<m - 1, m>> \in Nat \X Nat /\ <<m - 1, m>>[1] < <<m - 1, m>>[2]
  BY <1>3
<1>5. <<m - 1, m>> \in Lesser
  BY <1>4 DEF Lesser
<1>6. m - 1 \in S
  BY <1>2, <1>3, <1>5
<1>7. (m - 1) + 1 \in S
  BY <1>6
<1> QED
  BY <1>7

LEMMA MaxWithOne ==
    ASSUME NEW n \in Int
    PROVE  Max({1, n}) = IF n > 1 THEN n ELSE 1
<1> DEFINE m == IF n > 1 THEN n ELSE 1
<1>1. m \in {1, n} /\ \A y \in {1, n} : m >= y
  OBVIOUS
<1>2. \A x \in {1, n} : (\A y \in {1, n} : x >= y) => x = m
  OBVIOUS
<1> HIDE DEF m
<1>3. Max({1, n}) = m
  BY <1>1, <1>2 DEF Max
<1> QED
  BY <1>3 DEF m

---------------------------------------------------------------------------
(* What is left of a memo when keys are dropped. *)

LEMMA LeftIs ==
    ASSUME NEW s \in Seq(Entry), NEW keys
    PROVE  Left(s, keys) = [n \in 0..Len(s) |->
               IF n = 0 THEN <<>>
               ELSE IF s[n].key \in keys THEN Left(s, keys)[n - 1]
               ELSE Append(Left(s, keys)[n - 1], s[n])]
<1> DEFINE IsLeft(f, m) == f = [n \in 0..m |->
               IF n = 0 THEN <<>>
               ELSE IF s[n].key \in keys THEN f[n - 1]
               ELSE Append(f[n - 1], s[n])]
           T == {m \in Nat : \E f : IsLeft(f, m)}
<1>1. 0 \in T
  <2>1. IsLeft([n \in 0..0 |-> <<>>], 0)
    OBVIOUS
  <2> QED
    BY <2>1
<1>2. ASSUME NEW m \in T
      PROVE  m + 1 \in T
  <2>1. PICK f : IsLeft(f, m)
    OBVIOUS
  <2> DEFINE g == [n \in 0..m + 1 |->
          IF n <= m THEN f[n]
          ELSE IF s[n].key \in keys THEN f[n - 1] ELSE Append(f[n - 1], s[n])]
  <2>2. ASSUME NEW n \in 0..m + 1
        PROVE  g[n] = IF n = 0 THEN <<>>
                      ELSE IF s[n].key \in keys THEN g[n - 1]
                      ELSE Append(g[n - 1], s[n])
    <3>1. CASE n <= m
      <4>1. n \in 0..m /\ g[n] = f[n] /\ (n # 0 => n - 1 \in 0..m + 1 /\ n - 1 <= m)
        BY <3>1
      <4>2. n # 0 => g[n - 1] = f[n - 1]
        BY <4>1
      <4> QED
        BY <2>1, <4>1, <4>2
    <3>2. CASE ~(n <= m)
      <4>1. n = m + 1 /\ n - 1 = m /\ m \in 0..m + 1
        BY <3>2
      <4>2. g[n - 1] = f[n - 1]
        BY <4>1
      <4> QED
        BY <3>2, <4>1, <4>2
    <3> QED
      BY <3>1, <3>2
  <2>3. IsLeft(g, m + 1)
    BY <2>2
  <2> HIDE DEF g, IsLeft
  <2>4. \E h : IsLeft(h, m + 1)
    BY <2>3
  <2> QED
    BY <2>4
<1>3. T = Nat
  <2> HIDE DEF IsLeft
  <2>1. T \in SUBSET Nat
    OBVIOUS
  <2> HIDE DEF T
  <2> QED
    BY <1>1, <1>2, <2>1, SetInduction
<1>4. \E f : IsLeft(f, Len(s))
  <2>1. Len(s) \in Nat
    OBVIOUS
  <2> HIDE DEF IsLeft
  <2>2. Len(s) \in T
    <3> HIDE DEF T
    <3> QED
      BY <1>3, <2>1
  <2> QED
    BY <2>2
<1>5. Left(s, keys) = CHOOSE f : IsLeft(f, Len(s))
  BY DEF Left
<1>6. IsLeft(Left(s, keys), Len(s))
  <2> HIDE DEF IsLeft
  <2> QED
    BY <1>4, <1>5
<1> QED
  BY <1>6

Distinct(entries) ==
    \A i, j \in DOMAIN entries : entries[i].key = entries[j].key => i = j

\* v is what is left of the first n entries of s.
Rest(v, s, n, keys) ==
    /\ v \in Seq(Entry)
    /\ Len(v) <= n
    /\ (\E j \in 1..n : s[j].key \in keys) => Len(v) < n
    /\ \A i \in 1..Len(v) : \E j \in 1..n : v[i] = s[j] /\ s[j].key \notin keys
    /\ Distinct(v)

LEMMA RestOneMore ==
    ASSUME NEW s \in Seq(Entry), Distinct(s), NEW keys, NEW n \in Nat, n + 1 <= Len(s), NEW v,
           Rest(v, s, n, keys)
    PROVE  /\ s[n + 1].key \in keys => Rest(v, s, n + 1, keys)
           /\ s[n + 1].key \notin keys => Rest(Append(v, s[n + 1]), s, n + 1, keys)
<1>1. /\ v \in Seq(Entry) /\ Len(v) <= n /\ Len(v) \in Nat
      /\ (\E j \in 1..n : s[j].key \in keys) => Len(v) < n
      /\ \A i \in 1..Len(v) : \E j \in 1..n : v[i] = s[j] /\ s[j].key \notin keys
      /\ Distinct(v) /\ DOMAIN v = 1..Len(v)
  BY DEF Rest
<1>2. s[n + 1] \in Entry /\ \A j \in 1..n : j \in 1..n + 1 /\ j \in DOMAIN s /\ j # n + 1
  OBVIOUS
<1>3. ASSUME s[n + 1].key \in keys
      PROVE  Rest(v, s, n + 1, keys)
  BY <1>1, <1>2 DEF Rest
<1>4. ASSUME s[n + 1].key \notin keys
      PROVE  Rest(Append(v, s[n + 1]), s, n + 1, keys)
  <2> DEFINE w == Append(v, s[n + 1])
  <2>1. /\ w \in Seq(Entry) /\ Len(w) = Len(v) + 1 /\ w[Len(w)] = s[n + 1]
        /\ \A i \in 1..Len(v) : w[i] = v[i]
    BY <1>1, <1>2
  <2> HIDE DEF w
  <2>2. Len(w) <= n + 1 /\ ((\E j \in 1..n + 1 : s[j].key \in keys) => Len(w) < n + 1)
    <3>1. \A j \in 1..n + 1 : j \in 1..n \/ j = n + 1
      OBVIOUS
    <3> QED
      BY <1>1, <1>4, <2>1, <3>1
  <2>3. \A i \in 1..Len(w) : i \in 1..Len(v) \/ (i = Len(w) /\ w[i] = s[n + 1])
    BY <1>1, <2>1
  <2>4. \A i \in 1..Len(v) : \E j \in 1..n : w[i] = s[j] /\ s[j].key \notin keys
    BY <1>1, <2>1
  <2>5. n + 1 \in 1..n + 1 /\ n + 1 \in DOMAIN s
    OBVIOUS
  <2>6. \A i \in 1..Len(w) : \E j \in 1..n + 1 : w[i] = s[j] /\ s[j].key \notin keys
    BY <1>2, <1>4, <2>3, <2>4, <2>5
  <2>7. \A i \in 1..Len(v) : w[i].key # s[n + 1].key
    BY <1>2, <2>4, <2>5 DEF Distinct
  <2>8. Distinct(w)
    <3>1. DOMAIN w = 1..Len(w)
      BY <2>1
    <3> QED
      BY <1>1, <2>1, <2>3, <2>7, <3>1 DEF Distinct
  <2>9. Rest(w, s, n + 1, keys)
    BY <2>1, <2>2, <2>6, <2>8 DEF Rest
  <2> QED
    BY <2>9 DEF w
<1> QED
  BY <1>3, <1>4

LEMMA LeftFacts ==
    ASSUME NEW s \in Seq(Entry), Distinct(s), NEW keys
    PROVE  Rest(Left(s, keys)[Len(s)], s, Len(s), keys)
<1> DEFINE f == Left(s, keys)
           S == {n \in Nat : n <= Len(s) => Rest(f[n], s, n, keys)}
<1>1. Len(s) \in Nat
  OBVIOUS
<1>2. \A n \in 0..Len(s) : f[n] =
          IF n = 0 THEN <<>>
          ELSE IF s[n].key \in keys THEN f[n - 1]
          ELSE Append(f[n - 1], s[n])
  <2>1. f = [n \in 0..Len(s) |->
               IF n = 0 THEN <<>>
               ELSE IF s[n].key \in keys THEN f[n - 1]
               ELSE Append(f[n - 1], s[n])]
    BY LeftIs
  <2> HIDE DEF f
  <2> QED
    BY <2>1
<1> HIDE DEF f
<1>3. 0 \in S
  <2>1. f[0] = <<>>
    BY <1>1, <1>2
  <2>2. Rest(<<>>, s, 0, keys)
    BY DEF Rest, Distinct
  <2> QED
    BY <2>1, <2>2
<1>4. ASSUME NEW n \in S
      PROVE  n + 1 \in S
  <2> SUFFICES ASSUME n + 1 <= Len(s) PROVE Rest(f[n + 1], s, n + 1, keys)
    OBVIOUS
  <2>1. n \in Nat /\ n <= Len(s) /\ n + 1 \in 0..Len(s) /\ n + 1 # 0 /\ (n + 1) - 1 = n
    BY <1>1
  <2>2. Rest(f[n], s, n, keys)
    BY <2>1
  <2>3. f[n + 1] = IF s[n + 1].key \in keys THEN f[n] ELSE Append(f[n], s[n + 1])
    BY <1>2, <2>1
  <2> QED
    BY <2>1, <2>2, <2>3, RestOneMore
<1>5. Len(s) \in S
  <2>1. S \in SUBSET Nat
    OBVIOUS
  <2> HIDE DEF S
  <2>2. S = Nat
    BY <1>3, <1>4, <2>1, SetInduction
  <2> QED
    BY <1>1, <2>2
<1>6. Rest(f[Len(s)], s, Len(s), keys)
  BY <1>5, <1>1
<1> QED
  BY <1>6 DEF f

---------------------------------------------------------------------------
(* The memo's operations. *)

LEMMA WithoutFacts ==
    ASSUME memo \in Seq(Entry), Distinct(memo), NEW keys
    PROVE  /\ Without(keys) \in Seq(Entry) /\ Distinct(Without(keys))
           /\ Len(Without(keys)) <= Len(memo)
           /\ (\E i \in DOMAIN memo : memo[i].key \in keys) => Len(Without(keys)) < Len(memo)
           /\ \A i \in DOMAIN Without(keys) :
                 Without(keys)[i].key \notin keys /\ \E j \in DOMAIN memo : Without(keys)[i] = memo[j]
<1> DEFINE w == Without(keys)
<1>1. Rest(w, memo, Len(memo), keys)
  BY LeftFacts DEF Without
<1>2. DOMAIN memo = 1..Len(memo)
  OBVIOUS
<1> HIDE DEF w
<1>3. /\ w \in Seq(Entry) /\ Distinct(w) /\ Len(w) <= Len(memo)
      /\ (\E i \in DOMAIN memo : memo[i].key \in keys) => Len(w) < Len(memo)
      /\ \A i \in 1..Len(w) : \E j \in DOMAIN memo : w[i] = memo[j] /\ memo[j].key \notin keys
  BY <1>1, <1>2 DEF Rest
<1>4. DOMAIN w = 1..Len(w)
  BY <1>3
<1>5. \A i \in DOMAIN w : w[i].key \notin keys /\ \E j \in DOMAIN memo : w[i] = memo[j]
  BY <1>3, <1>4
<1> QED
  BY <1>3, <1>5 DEF w

LEMMA DropOne ==
    ASSUME memo \in Seq(Entry), Distinct(memo), NEW k
    PROVE  /\ Without({k}) \in Seq(Entry) /\ Distinct(Without({k}))
           /\ Len(Without({k})) <= Len(memo)
           /\ (\E i \in DOMAIN memo : memo[i].key = k) => Len(Without({k})) < Len(memo)
           /\ \A i \in DOMAIN Without({k}) :
                 Without({k})[i].key # k /\ \E j \in DOMAIN memo : Without({k})[i] = memo[j]
<1>1. PICK keys : keys = {k}
  OBVIOUS
<1>2. \A x : x \in keys <=> x = k
  BY <1>1
<1>3. /\ Without(keys) \in Seq(Entry) /\ Distinct(Without(keys))
      /\ Len(Without(keys)) <= Len(memo)
      /\ (\E i \in DOMAIN memo : memo[i].key \in keys) => Len(Without(keys)) < Len(memo)
      /\ \A i \in DOMAIN Without(keys) :
            Without(keys)[i].key \notin keys /\ \E j \in DOMAIN memo : Without(keys)[i] = memo[j]
  BY WithoutFacts
<1>4. Without(keys) = Without({k})
  BY <1>1
<1> QED
  BY <1>2, <1>3, <1>4

\* An entry of another key is added at the end.
LEMMA AppendFacts ==
    ASSUME NEW w \in Seq(Entry), Distinct(w), NEW e \in Entry, \A i \in DOMAIN w : w[i].key # e.key
    PROVE  /\ Append(w, e) \in Seq(Entry) /\ Distinct(Append(w, e))
           /\ Len(Append(w, e)) = Len(w) + 1
           /\ \A i \in DOMAIN Append(w, e) : Append(w, e)[i] = e \/ \E j \in DOMAIN w : Append(w, e)[i] = w[j]
<1> DEFINE v == Append(w, e)
<1>1. /\ v \in Seq(Entry) /\ Len(v) = Len(w) + 1 /\ v[Len(v)] = e
      /\ \A i \in 1..Len(w) : v[i] = w[i]
      /\ DOMAIN w = 1..Len(w) /\ DOMAIN v = 1..Len(v) /\ Len(w) \in Nat
  OBVIOUS
<1> HIDE DEF v
<1>2. \A i \in DOMAIN v : (i \in DOMAIN w /\ v[i] = w[i]) \/ (i = Len(v) /\ v[i] = e)
  BY <1>1
<1>3. Distinct(v)
  BY <1>1, <1>2 DEF Distinct
<1> QED
  BY <1>1, <1>2, <1>3 DEF v

\* The last MemoSize entries are kept.
LEMMA BoundedFacts ==
    ASSUME NEW v \in Seq(Entry), Distinct(v)
    PROVE  /\ Bounded(v) \in Seq(Entry) /\ Distinct(Bounded(v))
           /\ Len(Bounded(v)) <= MemoSize
           /\ \A i \in DOMAIN Bounded(v) : \E j \in DOMAIN v : Bounded(v)[i] = v[j]
<1> DEFINE m == Max({1, Len(v) - MemoSize + 1})
           b == SubSeq(v, m, Len(v))
<1>1. MemoSize \in Nat /\ Len(v) \in Nat /\ Len(v) - MemoSize + 1 \in Int
  BY PricesAreBounded
<1>2. m \in Int /\ m >= 1 /\ m >= Len(v) - MemoSize + 1
  <2>1. m = IF Len(v) - MemoSize + 1 > 1 THEN Len(v) - MemoSize + 1 ELSE 1
    BY <1>1, MaxWithOne
  <2> HIDE DEF m
  <2> QED
    BY <1>1, <2>1
<1> HIDE DEF m
<1>3. /\ b \in Seq(Entry)
      /\ Len(b) = IF m <= Len(v) THEN Len(v) - m + 1 ELSE 0
      /\ \A i \in 1..Len(v) - m + 1 : b[i] = v[m + i - 1]
  <2>1. \A i \in m..Len(v) : v[i] \in Entry
    BY <1>1, <1>2
  <2> QED
    BY <1>1, <1>2, <2>1, SubSeqProperties
<1> HIDE DEF b
<1>4. Len(b) <= MemoSize
  BY <1>1, <1>2, <1>3
<1>5. \A i \in DOMAIN b : i \in 1..Len(v) - m + 1 /\ m + i - 1 \in DOMAIN v /\ b[i] = v[m + i - 1]
  <2>1. DOMAIN b = 1..Len(b) /\ DOMAIN v = 1..Len(v) /\ Len(b) \in Nat
    BY <1>3
  <2>2. \A i \in 1..Len(b) : i \in 1..Len(v) - m + 1 /\ m + i - 1 \in 1..Len(v)
    BY <1>1, <1>2, <1>3, <2>1
  <2> QED
    BY <1>3, <2>1, <2>2
<1>6. Distinct(b)
  <2>1. \A i, j \in DOMAIN b : m + i - 1 = m + j - 1 => i = j
    BY <1>2, <1>3
  <2> QED
    BY <1>5, <2>1 DEF Distinct
<1>7. Bounded(v) = b
  BY DEF Bounded, b, m
<1> QED
  BY <1>3, <1>4, <1>5, <1>6, <1>7

---------------------------------------------------------------------------
(* The invariant. *)

\* The pass that stored an entry has still to drop it.
Owned(e) ==
    e.by # NoReq =>
        /\ pc[e.by] # "idle"
        /\ job[e.by].mode = "lookup"
        /\ e.key.ticker \in job[e.by].reads

MemoInv ==
    /\ memo \in Seq(Entry)
    /\ Len(memo) <= MemoSize
    /\ Distinct(memo)
    /\ \A i \in DOMAIN memo : Owned(memo[i])
    /\ \A r \in Req : pc[r] = "have" /\ job[r].mode = "lookup" => job[r].key.ticker \in job[r].reads
    /\ late \subseteq [series : Series, day : Day]

\* Thread r moves to label l with the locals j, and an entry is an old one or
\* one that r has still to drop or nobody has to.
LEMMA MemoMoves ==
    ASSUME PriceInv, MemoInv, NEW r \in Req, NEW l \in Label, NEW j \in Job,
           pc' = [pc EXCEPT ![r] = l], job' = [job EXCEPT ![r] = j],
           late' \subseteq [series : Series, day : Day],
           memo' \in Seq(Entry), Len(memo') <= MemoSize, Distinct(memo'),
           \A i \in DOMAIN memo' :
               \/ memo'[i].by = NoReq
               \/ memo'[i].by = r /\ l # "idle" /\ j.mode = "lookup" /\ memo'[i].key.ticker \in j.reads
               \/ memo'[i].by # r /\ \E k \in DOMAIN memo : memo'[i] = memo[k],
           l = "have" /\ j.mode = "lookup" => j.key.ticker \in j.reads
    PROVE  MemoInv'
<1>1. \A q \in Req : /\ pc'[q] = IF q = r THEN l ELSE pc[q]
                     /\ job'[q] = IF q = r THEN j ELSE job[q]
  BY DEF PriceInv, TypeInv
<1>2. ASSUME NEW i \in DOMAIN memo'
      PROVE  Owned(memo[i])'
  <2>1. memo'[i].by \in Req \cup {NoReq}
    <3>1. memo'[i] \in Entry
      BY <1>2
    <3> QED
      BY <3>1 DEF Entry
  <2>2. CASE memo'[i].by = r /\ l # "idle" /\ j.mode = "lookup" /\ memo'[i].key.ticker \in j.reads
    BY <1>1, <2>1, <2>2 DEF Owned
  <2>3. CASE memo'[i].by # r /\ \E k \in DOMAIN memo : memo'[i] = memo[k]
    <3>1. PICK k \in DOMAIN memo : memo'[i] = memo[k]
      BY <2>3
    <3>2. Owned(memo[k])
      BY DEF MemoInv
    <3> QED
      BY <1>1, <2>1, <2>3, <3>1, <3>2 DEF Owned
  <2>4. CASE memo'[i].by = NoReq
    BY <2>4 DEF Owned
  <2> QED
    BY <2>2, <2>3, <2>4
<1>3. \A q \in Req : pc'[q] = "have" /\ job'[q].mode = "lookup" => job'[q].key.ticker \in job'[q].reads
  BY <1>1 DEF MemoInv
<1> QED
  BY <1>2, <1>3 DEF MemoInv

\* The pass goes on: its reads are kept, and the memo got no entry of its own.
LEMMA MemoGoesOn ==
    ASSUME PriceInv, MemoInv, NEW r \in Req, NEW l \in Label, l # "idle", NEW j \in Job,
           pc' = [pc EXCEPT ![r] = l], job' = [job EXCEPT ![r] = j],
           j.mode = job[r].mode, job[r].reads \subseteq j.reads,
           late' \subseteq [series : Series, day : Day],
           memo' \in Seq(Entry), Len(memo') <= MemoSize, Distinct(memo'),
           \A i \in DOMAIN memo' :
               \/ memo'[i].by = NoReq
               \/ \E k \in DOMAIN memo : memo'[i] = memo[k],
           l = "have" /\ j.mode = "lookup" => j.key.ticker \in j.reads
    PROVE  MemoInv'
<1>1. ASSUME NEW i \in DOMAIN memo', memo'[i].by # NoReq, memo'[i].by = r
      PROVE  j.mode = "lookup" /\ memo'[i].key.ticker \in j.reads
  <2>1. PICK k \in DOMAIN memo : memo'[i] = memo[k]
    BY <1>1
  <2>2. Owned(memo[k])
    BY DEF MemoInv
  <2> QED
    BY <1>1, <2>1, <2>2 DEF Owned
<1>2. \A i \in DOMAIN memo' :
          \/ memo'[i].by = NoReq
          \/ memo'[i].by = r /\ l # "idle" /\ j.mode = "lookup" /\ memo'[i].key.ticker \in j.reads
          \/ memo'[i].by # r /\ \E k \in DOMAIN memo : memo'[i] = memo[k]
  BY <1>1
<1> QED
  BY <1>2, MemoMoves

\* The same with the memo left alone.
LEMMA MemoIsLeft ==
    ASSUME PriceInv, MemoInv, UNCHANGED memo, NEW r \in Req,
           NEW l \in Label, l # "idle", NEW j \in Job,
           pc' = [pc EXCEPT ![r] = l], job' = [job EXCEPT ![r] = j],
           j.mode = job[r].mode, job[r].reads \subseteq j.reads,
           late' \subseteq [series : Series, day : Day],
           l = "have" /\ j.mode = "lookup" => j.key.ticker \in j.reads
    PROVE  MemoInv'
<1>1. memo' \in Seq(Entry) /\ Len(memo') <= MemoSize /\ Distinct(memo')
  BY DEF MemoInv
<1>2. \A i \in DOMAIN memo' : \E k \in DOMAIN memo : memo'[i] = memo[k]
  OBVIOUS
<1> QED
  BY <1>1, <1>2, MemoGoesOn

---------------------------------------------------------------------------
(* The steps. *)

LEMMA LateIsTyped ==
    ASSUME MemoInv, UNCHANGED late
    PROVE  late' \subseteq [series : Series, day : Day]
  BY DEF MemoInv

\* A thread that had finished or has just started owns no entry.
LEMMA NoneOfItsOwn ==
    ASSUME PriceInv, MemoInv, NEW r \in Req, NEW l \in Label, NEW j \in Job, UNCHANGED <<late, memo>>,
           pc' = [pc EXCEPT ![r] = l], job' = [job EXCEPT ![r] = j], l # "have",
           pc[r] = "idle" \/ job[r].mode # "lookup"
    PROVE  MemoInv'
<1>1. memo' \in Seq(Entry) /\ Len(memo') <= MemoSize /\ Distinct(memo')
  BY DEF MemoInv
<1>2. ASSUME NEW i \in DOMAIN memo', memo'[i].by # NoReq
      PROVE  memo'[i].by # r /\ \E k \in DOMAIN memo : memo'[i] = memo[k]
  <2>1. i \in DOMAIN memo /\ Owned(memo[i]) /\ memo'[i] = memo[i]
    BY <1>2 DEF MemoInv
  <2> QED
    BY <1>2, <2>1 DEF Owned
<1> QED
  BY <1>1, <1>2, LateIsTyped, MemoMoves

LEMMA MemoStartRead ==
    ASSUME PriceInv, MemoInv, NEW r \in Req, NEW mode \in Mode, NEW keys \in SUBSET Key,
           StartRead(r, mode, keys)
    PROVE  MemoInv'
<1> DEFINE j == [NoJob EXCEPT !.mode = mode, !.todo = keys]
<1>1. j \in Job
  BY NoJobFacts DEF Job
<1>2. /\ pc' = [pc EXCEPT ![r] = "next"] /\ job' = [job EXCEPT ![r] = j]
      /\ UNCHANGED <<late, memo>> /\ pc[r] = "idle"
  BY DEF StartRead, Goto
<1> HIDE DEF j
<1> QED
  BY <1>1, <1>2, LabelsAre, NoneOfItsOwn

LEMMA MemoHit ==
    ASSUME PriceInv, MemoInv, NEW r \in Req, NEW k \in Key, Hit(r, k)
    PROVE  MemoInv'
<1> DEFINE j == [job[r] EXCEPT !.todo = @ \ {k}]
           w == Without({k})
           e == EntryFor(k)
<1>1. /\ j \in Job /\ j.mode = job[r].mode /\ j.reads = job[r].reads
  BY ThreadHas DEF Job
<1>2. /\ pc' = [pc EXCEPT ![r] = "next"] /\ job' = [job EXCEPT ![r] = j]
      /\ UNCHANGED late /\ memo' = Append(w, e) /\ InMemo(k)
  BY DEF Hit, PriceInv, TypeInv
<1>3. memo \in Seq(Entry) /\ Distinct(memo) /\ Len(memo) <= MemoSize /\ Len(memo) \in Nat
  BY DEF MemoInv
<1>4. \E i \in DOMAIN memo : memo[i].key = k /\ e = memo[i]
  BY <1>2 DEF InMemo, EntryFor
<1>5. e \in Entry /\ e.key = k /\ \E i \in DOMAIN memo : e = memo[i]
  BY <1>3, <1>4
<1>6. /\ w \in Seq(Entry) /\ Distinct(w) /\ Len(w) < Len(memo)
      /\ \A i \in DOMAIN w : w[i].key # k /\ \E x \in DOMAIN memo : w[i] = memo[x]
  BY <1>3, <1>4, DropOne
<1> HIDE DEF j, w, e
<1>7. /\ memo' \in Seq(Entry) /\ Distinct(memo') /\ Len(memo') <= MemoSize
      /\ \A i \in DOMAIN memo' : memo'[i] = e \/ \E x \in DOMAIN w : memo'[i] = w[x]
  <2>1. /\ Append(w, e) \in Seq(Entry) /\ Distinct(Append(w, e))
        /\ Len(Append(w, e)) = Len(w) + 1
        /\ \A i \in DOMAIN Append(w, e) : Append(w, e)[i] = e \/ \E x \in DOMAIN w : Append(w, e)[i] = w[x]
    BY <1>5, <1>6, AppendFacts
  <2>2. Len(w) + 1 <= MemoSize
    <3>1. Len(w) \in Nat /\ MemoSize \in Nat
      BY <1>6, PricesAreBounded
    <3> QED
      BY <1>3, <1>6, <3>1
  <2> QED
    BY <1>2, <2>1, <2>2
<1>8. \A i \in DOMAIN memo' : \E x \in DOMAIN memo : memo'[i] = memo[x]
  BY <1>5, <1>6, <1>7
<1> QED
  BY <1>1, <1>2, <1>7, <1>8, LabelsAre, LateIsTyped, MemoGoesOn

LEMMA MemoMiss ==
    ASSUME PriceInv, MemoInv, NEW r \in Req, NEW k \in Key, Miss(r, k)
    PROVE  MemoInv'
<1> DEFINE j == [job[r] EXCEPT !.todo = @ \ {k}, !.key = k, !.end = today]
<1>1. j \in Job /\ j.mode = job[r].mode /\ j.reads = job[r].reads
  BY ThreadHas DEF Job
<1>2. /\ pc' = [pc EXCEPT ![r] = "read"] /\ job' = [job EXCEPT ![r] = j]
      /\ UNCHANGED late /\ memo' = Without({k})
  BY DEF Miss, Goto, PriceInv, TypeInv
<1>3. memo \in Seq(Entry) /\ Distinct(memo) /\ Len(memo) <= MemoSize
  BY DEF MemoInv
<1>4. /\ memo' \in Seq(Entry) /\ Distinct(memo') /\ Len(memo') <= Len(memo)
      /\ \A i \in DOMAIN memo' : \E x \in DOMAIN memo : memo'[i] = memo[x]
  <2> DEFINE w == Without({k})
  <2>1. /\ w \in Seq(Entry) /\ Distinct(w) /\ Len(w) <= Len(memo)
        /\ \A i \in DOMAIN w : \E x \in DOMAIN memo : w[i] = memo[x]
    BY <1>3, DropOne
  <2>2. memo' = w
    BY <1>2
  <2> HIDE DEF w
  <2> QED
    BY <2>1, <2>2
<1>5. Len(memo') <= MemoSize
  BY <1>3, <1>4, PricesAreBounded
<1> HIDE DEF j
<1> QED
  BY <1>1, <1>2, <1>4, <1>5, LabelsAre, LateIsTyped, MemoGoesOn DEF CallLabel

LEMMA MemoAdvance ==
    ASSUME PriceInv, MemoInv, NEW r \in Req, Advance(r), UNCHANGED late,
           memo' \in Seq(Entry), Len(memo') <= MemoSize, Distinct(memo'),
           \A i \in DOMAIN memo' :
               \/ memo'[i].by = NoReq
               \/ memo'[i].by = r /\ job[r].mode = "lookup" /\ memo'[i].key.ticker \in job[r].reads
               \/ \E k \in DOMAIN memo : memo'[i] = memo[k]
    PROVE  MemoInv'
<1> DEFINE j == [NoJob EXCEPT !.mode = job[r].mode, !.todo = job[r].todo, !.reads = job[r].reads]
<1>1. j \in Job /\ j.mode = job[r].mode /\ j.reads = job[r].reads
  BY ThreadHas, NoJobFacts DEF Job
<1>2. pc' = [pc EXCEPT ![r] = "next"] /\ job' = [job EXCEPT ![r] = j]
  BY DEF Advance, Goto
<1> HIDE DEF j
<1>3. ASSUME NEW i \in DOMAIN memo', memo'[i].by # NoReq
      PROVE  \/ memo'[i].by = r /\ "next" # "idle" /\ j.mode = "lookup" /\ memo'[i].key.ticker \in j.reads
             \/ memo'[i].by # r /\ \E k \in DOMAIN memo : memo'[i] = memo[k]
  <2>1. CASE \E k \in DOMAIN memo : memo'[i] = memo[k]
    <3>1. PICK k \in DOMAIN memo : memo'[i] = memo[k]
      BY <2>1
    <3>2. Owned(memo[k])
      BY DEF MemoInv
    <3> QED
      BY <1>1, <1>3, <3>1, <3>2 DEF Owned
  <2> QED
    BY <1>1, <1>3, <2>1
<1>4. \A i \in DOMAIN memo' :
          \/ memo'[i].by = NoReq
          \/ memo'[i].by = r /\ "next" # "idle" /\ j.mode = "lookup" /\ memo'[i].key.ticker \in j.reads
          \/ memo'[i].by # r /\ \E k \in DOMAIN memo : memo'[i] = memo[k]
  BY <1>3
<1>5. late' \subseteq [series : Series, day : Day] /\ "next" \in Label /\ "next" # "have"
  BY LabelsAre, LateIsTyped
<1> QED
  BY <1>1, <1>2, <1>4, <1>5, MemoMoves

LEMMA MemoNoBars ==
    ASSUME PriceInv, MemoInv, NEW r \in Req, NoBars(r)
    PROVE  MemoInv'
<1>1. Advance(r) /\ UNCHANGED <<late, memo>>
  BY DEF NoBars
<1>2. memo' \in Seq(Entry) /\ Len(memo') <= MemoSize /\ Distinct(memo')
  BY <1>1 DEF MemoInv
<1>3. \A i \in DOMAIN memo' : \E k \in DOMAIN memo : memo'[i] = memo[k]
  BY <1>1
<1> QED
  BY <1>1, <1>2, <1>3, MemoAdvance

LEMMA MemoSetMemo ==
    ASSUME PriceInv, MemoInv, NEW r \in Req, SetMemo(r)
    PROVE  MemoInv'
<1> DEFINE k == job[r].key
           w == Without({k})
           e == [key |-> k, by |-> IF job[r].mode = "lookup" THEN r ELSE NoReq]
           v == Append(w, e)
<1>1. /\ Advance(r) /\ UNCHANGED late /\ memo' = Bounded(v) /\ pc[r] = "have"
  BY DEF SetMemo
<1>2. memo \in Seq(Entry) /\ Distinct(memo) /\ k \in Key /\ e \in Entry /\ e.key = k
  BY ThreadHas DEF MemoInv, Entry
<1>3. /\ e.by = NoReq \/ (e.by = r /\ job[r].mode = "lookup" /\ k.ticker \in job[r].reads)
  BY <1>1 DEF MemoInv
<1>4. /\ w \in Seq(Entry) /\ Distinct(w)
      /\ \A i \in DOMAIN w : w[i].key # k /\ \E x \in DOMAIN memo : w[i] = memo[x]
  BY <1>2, DropOne
<1> HIDE DEF e, w
<1>5. /\ v \in Seq(Entry) /\ Distinct(v)
      /\ \A i \in DOMAIN v : v[i] = e \/ \E x \in DOMAIN w : v[i] = w[x]
  BY <1>2, <1>4, AppendFacts
<1> HIDE DEF v
<1>6. /\ memo' \in Seq(Entry) /\ Distinct(memo') /\ Len(memo') <= MemoSize
      /\ \A i \in DOMAIN memo' : \E x \in DOMAIN v : memo'[i] = v[x]
  BY <1>1, <1>5, BoundedFacts
<1>7. \A i \in DOMAIN memo' : memo'[i] = e \/ \E x \in DOMAIN memo : memo'[i] = memo[x]
  BY <1>4, <1>5, <1>6
<1> HIDE DEF k
<1>8. \A i \in DOMAIN memo' :
          \/ memo'[i].by = NoReq
          \/ memo'[i].by = r /\ job[r].mode = "lookup" /\ memo'[i].key.ticker \in job[r].reads
          \/ \E x \in DOMAIN memo : memo'[i] = memo[x]
  BY <1>2, <1>3, <1>7
<1> QED
  BY <1>1, <1>6, <1>8, MemoAdvance

\* The steps of a call that may fetch.
LEMMA FetchGoesOn ==
    ASSUME PriceInv, PriceInv', MemoInv, UNCHANGED memo, NEW r \in Req, NEW l \in CallLabel, NEW j,
           pc' = [pc EXCEPT ![r] = l], job' = [job EXCEPT ![r] = j],
           job[r].mode = "fetch", j.mode = "fetch", j.reads = job[r].reads,
           late' \subseteq [series : Series, day : Day]
    PROVE  MemoInv'
<1>1. j \in Job
  <2>1. job'[r] = j /\ job'[r] \in Job
    BY DEF PriceInv, TypeInv
  <2> QED
    BY <2>1
<1>2. l \in Label /\ l # "idle"
  BY LabelsAre
<1> QED
  BY <1>1, <1>2, MemoIsLeft

LEMMA ModeOfCall ==
    ASSUME PriceInv, NEW r \in Req, pc[r] \in {"ask", "write", "reread"}
    PROVE  job[r].mode = "fetch" /\ job \in [Req -> Job] /\ pc \in [Req -> Label]
  BY ThreadHas DEF ThreadOK, PriceInv, TypeInv

LEMMA MemoPlanFetch ==
    ASSUME PriceInv, PriceInv', MemoInv, NEW r \in Req, PlanFetch(r)
    PROVE  MemoInv'
<1> DEFINE k == job[r].key
           W == Window(k, job[r].end)
           gaps(days) == Plan(W, days, Adjusted(k))
<1>1. job[r].mode = "fetch" /\ UNCHANGED <<late, memo>> /\ job[r] \in Job
  BY ThreadHas DEF PlanFetch
<1>2. PICK days \in Cached(k, W) :
          \/ Goto(r, "have") /\ job' = [job EXCEPT ![r].days = days]
          \/ Goto(r, "ask") /\ job' = [job EXCEPT ![r].gaps = gaps(days)]
  BY DEF PlanFetch
<1> HIDE DEF gaps
<1>3. PICK l \in {"have", "ask"}, j \in {[job[r] EXCEPT !.days = days], [job[r] EXCEPT !.gaps = gaps(days)]} :
          pc' = [pc EXCEPT ![r] = l] /\ job' = [job EXCEPT ![r] = j]
  BY <1>2 DEF Goto, PriceInv, TypeInv
<1>4. j.mode = "fetch" /\ j.reads = job[r].reads /\ l \in CallLabel
  BY <1>1, <1>3 DEF Job, CallLabel
<1> QED
  BY <1>1, <1>3, <1>4, LateIsTyped, FetchGoesOn

LEMMA MemoAskProvider ==
    ASSUME PriceInv, PriceInv', MemoInv, NEW r \in Req, AskProvider(r)
    PROVE  MemoInv'
<1> DEFINE gaps == Tail(job[r].gaps)
<1>1. /\ job[r].mode = "fetch" /\ UNCHANGED <<late, memo>> /\ job[r] \in Job
      /\ job \in [Req -> Job]
  BY ThreadHas, ModeOfCall DEF AskProvider
<1>2. \/ \E frame : job' = [job EXCEPT ![r].frame = frame] /\ Goto(r, "write")
      \/ job' = [job EXCEPT ![r].gaps = gaps] /\ Goto(r, AfterGap(gaps))
  BY DEF AskProvider
<1> HIDE DEF gaps
<1>3. AfterGap(gaps) \in CallLabel /\ "write" \in CallLabel
  BY DEF AfterGap, CallLabel
<1>4. PICK l, j :
          /\ l \in CallLabel
          /\ j = [job[r] EXCEPT !.gaps = gaps] \/ \E frame : j = [job[r] EXCEPT !.frame = frame]
          /\ pc' = [pc EXCEPT ![r] = l] /\ job' = [job EXCEPT ![r] = j]
  BY <1>1, <1>2, <1>3 DEF Goto
<1>5. j.mode = "fetch" /\ j.reads = job[r].reads
  BY <1>1, <1>4 DEF Job
<1> QED
  BY <1>1, <1>4, <1>5, LateIsTyped, FetchGoesOn

LEMMA MemoWriteRows ==
    ASSUME PriceInv, PriceInv', MemoInv, NEW r \in Req, WriteRows(r)
    PROVE  MemoInv'
<1> DEFINE s == SeriesOf(job[r].key)
           j == [job[r] EXCEPT !.frame = NoFrame, !.gaps = Tail(@)]
           l == AfterGap(Tail(job[r].gaps))
<1>1. /\ job[r].mode = "fetch" /\ UNCHANGED memo /\ job[r] \in Job /\ job \in [Req -> Job]
      /\ s \in Series
  BY ThreadHas, ModeOfCall, SeriesFacts DEF WriteRows
<1>2. /\ job' = [job EXCEPT ![r] = j] /\ pc' = [pc EXCEPT ![r] = l]
      /\ late' \subseteq late \cup StaleBars(s, job[r].frame)
  BY <1>1 DEF WriteRows, Goto
<1>3. StaleBars(s, job[r].frame) \subseteq [series : Series, day : Day]
  BY <1>1 DEF StaleBars
<1>4. late' \subseteq [series : Series, day : Day]
  BY <1>2, <1>3 DEF MemoInv
<1>5. l \in CallLabel
  BY DEF AfterGap, CallLabel
<1>6. j.mode = "fetch" /\ j.reads = job[r].reads
  BY <1>1 DEF Job
<1> HIDE DEF j, l
<1> QED
  BY <1>1, <1>2, <1>4, <1>5, <1>6, FetchGoesOn

LEMMA MemoReread ==
    ASSUME PriceInv, PriceInv', MemoInv, NEW r \in Req, Reread(r)
    PROVE  MemoInv'
<1>1. /\ job[r].mode = "fetch" /\ UNCHANGED <<late, memo>> /\ job[r] \in Job
      /\ job \in [Req -> Job]
  BY ThreadHas, ModeOfCall DEF Reread
<1>2. PICK days : job' = [job EXCEPT ![r].days = days]
  BY DEF Reread
<1> DEFINE j == [job[r] EXCEPT !.days = days]
<1>3. job' = [job EXCEPT ![r] = j] /\ pc' = [pc EXCEPT ![r] = "have"] /\ "have" \in CallLabel
  BY <1>1, <1>2 DEF Reread, Goto, CallLabel
<1>4. j.mode = "fetch" /\ j.reads = job[r].reads
  BY <1>1 DEF Job
<1> HIDE DEF j
<1> QED
  BY <1>1, <1>3, <1>4, LateIsTyped, FetchGoesOn

\* The lookup notes the ticker before it stores an entry of it.
LEMMA MemoReadBlocked ==
    ASSUME PriceInv, PriceInv', MemoInv, NEW r \in Req, ReadBlocked(r)
    PROVE  MemoInv'
<1> DEFINE k == job[r].key
           W == Window(k, job[r].end)
           reads == IF job[r].mode = "lookup" THEN job[r].reads \cup {k.ticker} ELSE job[r].reads
<1>1. UNCHANGED <<late, memo>> /\ job[r] \in Job /\ job \in [Req -> Job]
  BY ThreadHas DEF ReadBlocked, PriceInv, TypeInv
<1>2. PICK days : job' = [job EXCEPT ![r].days = days, ![r].reads = reads,
                                     ![r].complete = (Plan(W, days, FALSE) = <<>>)]
  BY DEF ReadBlocked
<1>3. pc' = [pc EXCEPT ![r] = "have"]
  BY DEF ReadBlocked, Goto
<1> DEFINE complete == (Plan(W, days, FALSE) = <<>>)
           j == [job[r] EXCEPT !.days = days, !.reads = reads, !.complete = complete]
<1>4. job' = [job EXCEPT ![r] = j]
  BY <1>1, <1>2
<1>5. j.mode = job[r].mode /\ j.key = k /\ j.reads = reads
  <2> HIDE DEF reads, complete
  <2> QED
    BY <1>1 DEF Job
<1>6. j \in Job
  <2>1. job'[r] = j /\ job'[r] \in Job
    BY <1>1, <1>4 DEF PriceInv, TypeInv
  <2> QED
    BY <2>1
<1> HIDE DEF j
<1>7. job[r].reads \subseteq reads /\ (j.mode = "lookup" => k.ticker \in reads)
  BY <1>5
<1> QED
  BY <1>1, <1>3, <1>4, <1>5, <1>6, <1>7, LabelsAre, LateIsTyped, MemoIsLeft DEF CallLabel

LEMMA MemoEndRead ==
    ASSUME PriceInv, MemoInv, NEW r \in Req, EndRead(r)
    PROVE  MemoInv'
<1>1. UNCHANGED <<late, memo>>
  BY DEF EndRead
<1>2. CASE job[r].mode = "lookup"
  <2> DEFINE j == [job[r] EXCEPT !.todo = {}]
  <2>1. j \in Job /\ j.mode = job[r].mode /\ j.reads = job[r].reads
    BY ThreadHas DEF Job
  <2>2. pc' = [pc EXCEPT ![r] = "evict"] /\ job' = [job EXCEPT ![r] = j]
    BY <1>2 DEF EndRead, Goto
  <2> HIDE DEF j
  <2> QED
    BY <1>1, <2>1, <2>2, LabelsAre, LateIsTyped, MemoIsLeft
<1>3. CASE job[r].mode # "lookup"
  <2>1. pc' = [pc EXCEPT ![r] = "idle"] /\ job' = [job EXCEPT ![r] = NoJob]
    BY <1>3 DEF EndRead, Finish, Goto
  <2> QED
    BY <1>1, <1>3, <2>1, NoJobFacts, LabelsAre, NoneOfItsOwn
<1> QED
  BY <1>2, <1>3

\* The pass drops every entry of the tickers it read, its own among them.
LEMMA MemoEvict ==
    ASSUME PriceInv, MemoInv, NEW r \in Req, Evict(r)
    PROVE  MemoInv'
<1> DEFINE keys == {k \in Key : k.ticker \in job[r].reads}
           w == Without(keys)
<1>1. /\ pc' = [pc EXCEPT ![r] = "idle"] /\ job' = [job EXCEPT ![r] = NoJob]
      /\ UNCHANGED late /\ memo' = w
  BY DEF Evict, Finish, Goto
<1>2. memo \in Seq(Entry) /\ Distinct(memo) /\ Len(memo) <= MemoSize
  BY DEF MemoInv
<1>3. /\ w \in Seq(Entry) /\ Distinct(w) /\ Len(w) <= Len(memo)
      /\ \A i \in DOMAIN w : w[i].key \notin keys /\ \E x \in DOMAIN memo : w[i] = memo[x]
  <2> HIDE DEF keys
  <2> QED
    BY <1>2, WithoutFacts
<1> HIDE DEF w
<1>4. memo' \in Seq(Entry) /\ Distinct(memo') /\ Len(memo') <= MemoSize
  BY <1>1, <1>2, <1>3, PricesAreBounded
<1>5. ASSUME NEW i \in DOMAIN memo', memo'[i].by # NoReq
      PROVE  memo'[i].by # r /\ \E x \in DOMAIN memo : memo'[i] = memo[x]
  <2>1. PICK x \in DOMAIN memo : memo'[i] = memo[x]
    BY <1>1, <1>3
  <2>2. memo[x].key \in Key /\ memo[x].key \notin keys
    <3>1. memo[x] \in Entry
      BY <1>2
    <3> QED
      BY <1>1, <1>3, <2>1, <3>1 DEF Entry
  <2>3. Owned(memo[x])
    BY DEF MemoInv
  <2> QED
    BY <1>5, <2>1, <2>2, <2>3 DEF Owned
<1>6. NoJob.mode = "fetch" /\ NoJob \in Job
  BY NoJobFacts
<1> QED
  BY <1>1, <1>4, <1>5, <1>6, LabelsAre, LateIsTyped, MemoMoves

LEMMA MemoEnvironment ==
    ASSUME PriceInv, MemoInv, UNCHANGED <<late, memo, pc, job>>
    PROVE  MemoInv'
  BY DEF MemoInv, Owned

LEMMA MemoRestart ==
    ASSUME PriceInv, MemoInv, Restart
    PROVE  MemoInv'
<1>1. memo' = <<>> /\ UNCHANGED late /\ \A r \in Req : pc'[r] = "idle"
  BY DEF Restart
<1>2. memo' \in Seq(Entry) /\ Len(memo') <= MemoSize /\ Distinct(memo') /\ DOMAIN memo' = {}
  BY <1>1, PricesAreBounded DEF Distinct
<1> QED
  BY <1>1, <1>2 DEF MemoInv

---------------------------------------------------------------------------
(* The theorems. *)

LEMMA MemoInit == Init => MemoInv
<1> SUFFICES ASSUME Init PROVE MemoInv
  OBVIOUS
<1>1. memo = <<>> /\ late = {} /\ \A r \in Req : pc[r] = "idle"
  BY DEF Init
<1>2. memo \in Seq(Entry) /\ Len(memo) <= MemoSize /\ Distinct(memo) /\ DOMAIN memo = {}
  BY <1>1, PricesAreBounded DEF Distinct
<1> QED
  BY <1>1, <1>2 DEF MemoInv

LEMMA MemoNext == PriceInv /\ PriceInv' /\ MemoInv /\ [Next]_vars => MemoInv'
<1> SUFFICES ASSUME PriceInv, PriceInv', MemoInv, [Next]_vars PROVE MemoInv'
  OBVIOUS
<1>1. ASSUME NEW r \in Req, NEW mode \in Mode, NEW keys \in SUBSET Key, StartRead(r, mode, keys)
      PROVE  MemoInv'
  BY <1>1, MemoStartRead
<1>2. ASSUME NEW r \in Req, NEW k \in Key, Hit(r, k) \/ Miss(r, k)
      PROVE  MemoInv'
  BY <1>2, MemoHit, MemoMiss
<1>3. ASSUME NEW r \in Req, ReadStep(r)
      PROVE  MemoInv'
  BY <1>3, MemoPlanFetch, MemoReadBlocked, MemoAskProvider, MemoWriteRows, MemoReread,
     MemoNoBars, MemoSetMemo DEF ReadStep
<1>4. ASSUME NEW r \in Req, EndRead(r) \/ Evict(r)
      PROVE  MemoInv'
  BY <1>4, MemoEndRead, MemoEvict
<1>5. CASE CloseSession \/ NextDay
  BY <1>5, MemoEnvironment DEF CloseSession, NextDay
<1>6. CASE Restart
  BY <1>6, MemoRestart
<1>7. CASE UNCHANGED vars
  BY <1>7, MemoEnvironment DEF vars
<1> QED
  BY <1>1, <1>2, <1>3, <1>4, <1>5, <1>6, <1>7 DEF Next

(* Whatever callers store, look up, let expire and drop at the same time,   *)
(* every entry of the memo that a lookup pass stored is of a ticker that    *)
(* pass has still to drop, and no key has two entries.                      *)
THEOREM MemoInvariant == Spec => []MemoInv
<1>1. PriceInv /\ MemoInv /\ [Next]_vars /\ PriceInv' => MemoInv'
  BY MemoNext
<1> QED
  BY MemoInit, <1>1, PriceInvariant, PTL DEF Spec

(* Types of the price cache, its memo and its threads.                      *)
THEOREM TypeOKAlways == Spec => []TypeOK
<1>1. PriceInv /\ MemoInv => TypeOK
  BY DEF PriceInv, TypeInv, MemoInv, TypeOK
<1> QED
  BY <1>1, PriceInvariant, MemoInvariant, PTL

(* The memo never grows past _TICKER_CACHE_MAXSIZE and never has two        *)
(* entries for a key (_cache_set, _cache_get).                              *)
THEOREM MemoBoundedAlways == Spec => []MemoBounded
<1>1. MemoInv => MemoBounded
  BY DEF MemoInv, MemoBounded, Distinct
<1> QED
  BY <1>1, MemoInvariant, PTL

(* No entry of a lookup pass outlives the pass, however it ends             *)
(* (_read_only_macro_context, evict_ticker_cache).                          *)
THEOREM LookupLeavesMemoAlways == Spec => []LookupLeavesMemo
<1>1. MemoInv => LookupLeavesMemo
  BY DEF MemoInv, Owned, LookupLeavesMemo
<1> QED
  BY <1>1, MemoInvariant, PTL
=============================================================================
