------------------------------ MODULE NatLemmas ------------------------------
(* Facts about natural numbers, counting what comes before, and sequences, *)
(* that several proofs of this project need.                               *)
EXTENDS Integers, Sequences, SequencesExt, Places, FiniteSetTheorems, TLAPS

(***************************************************************************)
(* A set of naturals that is not empty has a least element.  It stands in  *)
(* for induction where a definition chooses a minimum, such as the next    *)
(* epoch to mark or the first epoch of a run of the staking rewards job.   *)
(***************************************************************************)
LEMMA LeastNat ==
  ASSUME NEW S \in SUBSET Nat, S # {}
  PROVE  \E m \in S : \A n \in S : m <= n
<1> DEFINE R == OpToRel(<, Nat)
<1>1. IsWellFoundedOn(R, Nat)
  BY NatLessThanWellFounded
<1>2. \A i, j \in Nat : i < j => <<i, j>> \in R
  BY DEF OpToRel
<1> HIDE DEF R
<1>3. PICK m \in S : \A n \in S : ~ (<<n, m>> \in R)
  BY <1>1, WFMin, Zenon
<1>4. \A n \in S : ~ (n < m)
  <2>. TAKE n \in S
  <2>1. n \in Nat /\ m \in Nat
    OBVIOUS
  <2>. QED
    BY <1>2, <1>3, <2>1, Zenon
<1>5. ASSUME NEW n \in S
      PROVE  m <= n
  <2>1. ~ (n < m)
    BY <1>4, Zenon
  <2>2. n \in Nat /\ m \in Nat
    OBVIOUS
  <2>. QED
    BY <2>1, <2>2
<1>. QED
  BY <1>5, Zenon

(***************************************************************************)
(* The elements of a finite set in a strict total order, before[i] being   *)
(* those that come before i.  The models sort by counting: the place of an *)
(* element is the number of those before it (remove_duplicates, sort_rows, *)
(* get_group_transactions).                                                *)
(***************************************************************************)
LEMMA Counting ==
  ASSUME NEW S, IsFiniteSet(S), NEW before \in [S -> SUBSET S],
         \A i \in S : i \notin before[i],
         \A i, j \in S : j \in before[i] => before[j] \subseteq before[i],
         \A i, j \in S : i # j => i \in before[j] \/ j \in before[i]
  PROVE  /\ Cardinality(S) \in Nat
         /\ \A i \in S : Cardinality(before[i]) \in 0 .. Cardinality(S) - 1
         /\ \A i, j \in S : Cardinality(before[i]) < Cardinality(before[j]) <=> i \in before[j]
         /\ \A k \in 1 .. Cardinality(S) : \E i \in S : Cardinality(before[i]) = k - 1
         /\ \A i, j \in S : Cardinality(before[i]) = Cardinality(before[j]) => i = j
<1> DEFINE n == Cardinality(S)
           rank == [i \in S |-> Cardinality(before[i])]
<1>1. n \in Nat
  BY FS_CardinalityType
<1>2. ASSUME NEW i \in S
      PROVE  IsFiniteSet(before[i]) /\ rank[i] \in 0 .. n - 1
  <2>1. /\ IsFiniteSet(before[i]) /\ Cardinality(before[i]) <= n
        /\ n = Cardinality(before[i]) => S = before[i]
    BY FS_Subset
  <2>2. Cardinality(before[i]) \in Nat
    BY <2>1, FS_CardinalityType
  <2>3. S # before[i]
    BY <1>2
  <2>. QED
    BY <1>1, <2>1, <2>2, <2>3
<1>3. ASSUME NEW i \in S, NEW j \in S, i \in before[j]
      PROVE  rank[i] < rank[j]
  <2>1. before[i] \in SUBSET before[j] /\ before[i] # before[j]
    BY <1>3
  <2>2. /\ Cardinality(before[i]) <= Cardinality(before[j])
        /\ Cardinality(before[j]) = Cardinality(before[i]) => before[j] = before[i]
    BY <1>2, <2>1, FS_Subset
  <2>. QED
    BY <1>1, <1>2, <2>1, <2>2
<1>4. ASSUME NEW i \in S, NEW j \in S, i # j
      PROVE  rank[i] # rank[j]
  BY <1>1, <1>2, <1>3, <1>4
<1>5. rank \in Surjection(S, 0 .. n - 1)
  <2>1. rank \in Injection(S, 0 .. n - 1)
    BY <1>2, <1>4 DEF Injection, IsInjective
  <2>2. IsFiniteSet(0 .. n - 1) /\ Cardinality(0 .. n - 1) = n
    BY <1>1, FS_Interval
  <2>. HIDE DEF rank
  <2>. QED
    BY <2>1, <2>2, FS_Injection
<1>6. \A k \in 1 .. n : \E i \in S : rank[i] = k - 1
  <2>1. \A r \in 0 .. n - 1 : \E i \in S : rank[i] = r
    BY <1>5, Zenon DEF Surjection
  <2>2. \A k \in 1 .. n : k - 1 \in 0 .. n - 1
    BY <1>1
  <2>. HIDE DEF rank, n
  <2>. QED
    BY <2>1, <2>2, Zenon
<1>7. \A i, j \in S : rank[i] < rank[j] <=> i \in before[j]
  BY <1>1, <1>2, <1>3, <1>4
<1>. QED
  BY <1>1, <1>2, <1>4, <1>6, <1>7

\* To choose the k-th element by the number of those before it is to list the
\* elements in their order (sort_rows, _rows_export).
LEMMA Ranked ==
  ASSUME NEW S, IsFiniteSet(S), NEW before \in [S -> SUBSET S],
         \A i \in S : i \notin before[i],
         \A i, j \in S : j \in before[i] => before[j] \subseteq before[i],
         \A i, j \in S : i # j => i \in before[j] \/ j \in before[i],
         NEW sel, \A k \in 1 .. Cardinality(S) : sel[k] = CHOOSE i \in S : Cardinality(before[i]) = k - 1
  PROVE  /\ Cardinality(S) \in Nat
         /\ \A k \in 1 .. Cardinality(S) : sel[k] \in S
         /\ \A k, l \in 1 .. Cardinality(S) : k < l => sel[k] \in before[sel[l]]
         /\ \A i \in S : \E k \in 1 .. Cardinality(S) : sel[k] = i
<1> DEFINE n == Cardinality(S)
<1>1. /\ n \in Nat
      /\ \A i \in S : Cardinality(before[i]) \in 0 .. n - 1
      /\ \A i, j \in S : Cardinality(before[i]) < Cardinality(before[j]) <=> i \in before[j]
      /\ \A k \in 1 .. n : \E i \in S : Cardinality(before[i]) = k - 1
      /\ \A i, j \in S : Cardinality(before[i]) = Cardinality(before[j]) => i = j
  BY Counting
<1>2. \A k \in 1 .. n : sel[k] = CHOOSE i \in S : Cardinality(before[i]) = k - 1
  OBVIOUS
<1>. HIDE DEF n
<1>3. \A k \in 1 .. n : sel[k] \in S /\ Cardinality(before[sel[k]]) = k - 1
  <2>. TAKE k \in 1 .. n
  <2>1. \E i \in S : Cardinality(before[i]) = k - 1
    BY <1>1
  <2>. QED
    BY <1>2, <2>1
<1>4. \A k, l \in 1 .. n : k < l => sel[k] \in before[sel[l]]
  <2>. TAKE k, l \in 1 .. n
  <2>1. k < l => Cardinality(before[sel[k]]) < Cardinality(before[sel[l]])
    BY <1>1, <1>3
  <2>. QED
    BY <1>1, <1>3, <2>1
<1>5. \A i \in S : \E k \in 1 .. n : sel[k] = i
  <2>. TAKE i \in S
  <2>1. Cardinality(before[i]) + 1 \in 1 .. n
    BY <1>1
  <2>2. Cardinality(before[sel[Cardinality(before[i]) + 1]]) = Cardinality(before[i])
    BY <1>1, <1>3, <2>1
  <2>. QED
    BY <1>1, <1>3, <2>1, <2>2
<1>. QED
  BY <1>1, <1>3, <1>4, <1>5 DEF n

\* A rising function from 1 .. n into itself is the identity (a sort that has
\* nothing to do).
LEMMA RisingIsIdentity ==
  ASSUME NEW n \in Nat, NEW sel,
         \A k \in 1 .. n : sel[k] \in 1 .. n,
         \A k, l \in 1 .. n : k < l => sel[k] < sel[l]
  PROVE  \A k \in 1 .. n : sel[k] = k
<1>1. \A k \in 1 .. n : sel[k] >= k
  <2>. DEFINE S == {k \in 1 .. n : sel[k] < k}
  <2>. SUFFICES ASSUME S # {} PROVE FALSE
    OBVIOUS
  <2>1. PICK m \in S : \A k \in S : m <= k
    <3>. S \in SUBSET Nat
      OBVIOUS
    <3>. HIDE DEF S
    <3>. QED
      BY LeastNat
  <2>2. m - 1 \in 1 .. n /\ m - 1 < m
    OBVIOUS
  <2>3. sel[m - 1] >= m - 1 /\ sel[m - 1] < sel[m]
    BY <2>1, <2>2
  <2>. QED
    BY <2>2, <2>3
<1>2. \A k \in 1 .. n : sel[k] <= k
  <2>. DEFINE S == {d \in 0 .. (n - 1) : sel[n - d] > n - d}
  <2>1. SUFFICES S = {}
    <3>. SUFFICES ASSUME NEW k \in 1 .. n, sel[k] > k PROVE FALSE
      OBVIOUS
    <3>1. n - k \in 0 .. (n - 1) /\ n - (n - k) = k
      OBVIOUS
    <3>. QED
      BY <2>1, <3>1
  <2>. SUFFICES ASSUME S # {} PROVE FALSE
    OBVIOUS
  <2>2. PICK m \in S : \A d \in S : m <= d
    <3>. S \in SUBSET Nat
      OBVIOUS
    <3>. HIDE DEF S
    <3>. QED
      BY LeastNat
  <2>3. n - m \in 1 .. n /\ sel[n - m] \in 1 .. n
    OBVIOUS
  <2>4. m >= 1 /\ m - 1 \in 0 .. (n - 1) /\ n - (m - 1) \in 1 .. n
    BY <2>3
  <2>5. ~(sel[n - (m - 1)] > n - (m - 1))
    BY <2>2, <2>4
  <2>6. sel[n - m] < sel[n - (m - 1)]
    BY <2>3, <2>4
  <2>. QED
    BY <2>3, <2>4, <2>5, <2>6
<1>. QED
  BY <1>1, <1>2

\* A rising function from 1 .. n needs at least n values.
LEMMA RisingFits ==
  ASSUME NEW n \in Nat, NEW m \in Nat, NEW sel,
         \A k \in 1 .. n : sel[k] \in 1 .. m,
         \A k, l \in 1 .. n : k < l => sel[k] < sel[l]
  PROVE  n <= m
<1>1. \A k \in 1 .. n : sel[k] >= k
  <2>. DEFINE S == {k \in 1 .. n : sel[k] < k}
  <2>. SUFFICES ASSUME S # {} PROVE FALSE
    OBVIOUS
  <2>1. PICK k \in S : \A l \in S : k <= l
    <3>. S \in SUBSET Nat
      OBVIOUS
    <3>. HIDE DEF S
    <3>. QED
      BY LeastNat
  <2>2. k - 1 \in 1 .. n /\ k - 1 < k
    OBVIOUS
  <2>3. sel[k - 1] >= k - 1 /\ sel[k - 1] < sel[k]
    BY <2>1, <2>2
  <2>. QED
    BY <2>2, <2>3
<1>2. CASE n = 0
  BY <1>2
<1>3. CASE n # 0
  <2>1. n \in 1 .. n
    BY <1>3
  <2>. QED
    BY <1>1, <2>1
<1>. QED
  BY <1>2, <1>3

\* A sequence over what it holds, and one element more.
LEMMA Appended ==
  ASSUME NEW s, s \in Seq({s[k] : k \in DOMAIN s}), NEW e
  PROVE  LET t == Append(s, e)
         IN  /\ t \in Seq({t[k] : k \in DOMAIN t})
             /\ Len(s) \in Nat /\ DOMAIN s = 1 .. Len(s)
             /\ DOMAIN t = 1 .. (Len(s) + 1)
             /\ \A k \in 1 .. Len(s) : t[k] = s[k]
             /\ t[Len(s) + 1] = e
<1> DEFINE S == {s[k] : k \in DOMAIN s}
           T == S \cup {e}
           t == Append(s, e)
<1>1. s \in Seq(T) /\ e \in T
  OBVIOUS
<1>2. Len(s) \in Nat /\ DOMAIN s = 1 .. Len(s)
  OBVIOUS
<1>. HIDE DEF T
<1>3. /\ t \in Seq(T) /\ Len(t) = Len(s) + 1
      /\ \A k \in 1 .. Len(s) : t[k] = s[k]
      /\ t[Len(s) + 1] = e
  BY <1>1
<1>4. DOMAIN t = 1 .. (Len(s) + 1)
  BY <1>2, <1>3
<1>5. t \in Seq({t[k] : k \in DOMAIN t})
  <2>. HIDE DEF t
  <2>1. \A k \in 1 .. (Len(s) + 1) : t[k] \in {t[j] : j \in DOMAIN t}
    BY <1>4
  <2>2. t = [k \in 1 .. (Len(s) + 1) |-> t[k]]
    <3>1. \A v \in Seq(T) : v = [k \in 1 .. Len(v) |-> v[k]]
      OBVIOUS
    <3>. QED
      BY <1>3, <3>1
  <2>. QED
    BY <1>2, <2>1, <2>2
<1>. QED
  BY <1>2, <1>3, <1>4, <1>5

-----------------------------------------------------------------------------
(* Sequences *)

\* A sequence over what it holds.
IsSeq(s) == s \in Seq({s[k] : k \in DOMAIN s})

LEMMA IsSeqOf ==
  ASSUME NEW X, NEW s \in Seq(X)
  PROVE  IsSeq(s) /\ Len(s) \in Nat /\ DOMAIN s = 1 .. Len(s)
<1>1. /\ Len(s) \in Nat /\ DOMAIN s = 1 .. Len(s)
      /\ s = [k \in 1 .. Len(s) |-> s[k]]
  OBVIOUS
<1>2. s \in [1 .. Len(s) -> {s[k] : k \in DOMAIN s}]
  BY <1>1
<1>. QED
  BY <1>1, <1>2 DEF IsSeq

LEMMA IsSeqType ==
  ASSUME NEW s, IsSeq(s)
  PROVE  /\ Len(s) \in Nat /\ DOMAIN s = 1 .. Len(s)
         /\ s \in Seq({s[k] : k \in DOMAIN s})
         /\ s = [k \in 1 .. Len(s) |-> s[k]]
  BY DEF IsSeq

\* One sequence after another.
LEMMA Joined ==
  ASSUME NEW s, NEW t, IsSeq(s), IsSeq(t)
  PROVE  /\ IsSeq(s \o t)
         /\ DOMAIN (s \o t) = 1 .. (Len(s) + Len(t)) /\ Len(s \o t) = Len(s) + Len(t)
         /\ \A k \in 1 .. Len(s) : (s \o t)[k] = s[k]
         /\ \A k \in 1 .. Len(t) : (s \o t)[Len(s) + k] = t[k]
         /\ \A k \in (Len(s) + 1) .. (Len(s) + Len(t)) :
              k - Len(s) \in DOMAIN t /\ (s \o t)[k] = t[k - Len(s)]
<1> DEFINE X == {s[k] : k \in DOMAIN s} \cup {t[k] : k \in DOMAIN t}
           j == s \o t
<1>1. /\ Len(s) \in Nat /\ DOMAIN s = 1 .. Len(s)
      /\ Len(t) \in Nat /\ DOMAIN t = 1 .. Len(t)
  BY IsSeqType
<1>2. s \in Seq(X) /\ t \in Seq(X)
  <2>1. s \in Seq({s[k] : k \in DOMAIN s}) /\ t \in Seq({t[k] : k \in DOMAIN t})
    BY IsSeqType
  <2>. QED
    BY <2>1
<1>. HIDE DEF X
<1>3. /\ j \in Seq(X) /\ Len(j) = Len(s) + Len(t)
      /\ \A k \in 1 .. Len(s) : j[k] = s[k]
      /\ \A k \in (Len(s) + 1) .. (Len(s) + Len(t)) : j[k] = t[k - Len(s)]
  BY <1>1, <1>2
<1>. HIDE DEF j
<1>4. IsSeq(j) /\ DOMAIN j = 1 .. Len(j)
  BY <1>3, IsSeqOf
<1>5. \A k \in (Len(s) + 1) .. (Len(s) + Len(t)) : k - Len(s) \in DOMAIN t
  BY <1>1
<1>6. \A k \in 1 .. Len(t) : j[Len(s) + k] = t[k]
  <2>. TAKE k \in 1 .. Len(t)
  <2>1. /\ Len(s) + k \in (Len(s) + 1) .. (Len(s) + Len(t))
        /\ (Len(s) + k) - Len(s) = k
    BY <1>1
  <2>. QED
    BY <1>3, <2>1
<1>. QED
  BY <1>3, <1>4, <1>5, <1>6 DEF j

\* The recursive function by which FlattenSeq is defined exists.
LEMMA FlattenExists ==
  ASSUME NEW seqs, NEW n \in Nat
  PROVE  \E f : f = [i \in 1 .. n |-> IF i = 1 THEN seqs[i] ELSE f[i - 1] \o seqs[i]]
<1> DEFINE Has(m) == \E f : f = [i \in 1 .. m |-> IF i = 1 THEN seqs[i] ELSE f[i - 1] \o seqs[i]]
           S == {m \in Nat : ~Has(m)}
<1>. SUFFICES ASSUME S # {} PROVE FALSE
  OBVIOUS
<1>1. PICK m \in S : \A k \in S : m <= k
  <2>. S \in SUBSET Nat
    OBVIOUS
  <2>. HIDE DEF S
  <2>. QED
    BY LeastNat
<1>2. m \in Nat /\ ~Has(m)
  OBVIOUS
<1>3. m # 0
  <2>. SUFFICES Has(0)
    BY <1>2
  <2> DEFINE f == [i \in 1 .. 0 |-> seqs[i]]
  <2>1. f = [i \in 1 .. 0 |-> IF i = 1 THEN seqs[i] ELSE f[i - 1] \o seqs[i]]
    OBVIOUS
  <2>. HIDE DEF f
  <2>. QED
    BY <2>1
<1>4. m - 1 \in Nat /\ Has(m - 1)
  <2>1. m - 1 \in Nat /\ ~(m <= m - 1)
    BY <1>2, <1>3
  <2>. HIDE DEF Has
  <2>. QED
    BY <1>1, <2>1
<1>5. PICK f : f = [i \in 1 .. (m - 1) |-> IF i = 1 THEN seqs[i] ELSE f[i - 1] \o seqs[i]]
  BY <1>4
<1> DEFINE last == IF m = 1 THEN seqs[m] ELSE f[m - 1] \o seqs[m]
           g == [i \in 1 .. m |-> IF i = m THEN last ELSE f[i]]
<1>6. ASSUME NEW i \in 1 .. m
      PROVE  g[i] = IF i = 1 THEN seqs[i] ELSE g[i - 1] \o seqs[i]
  <2>1. CASE i = m
    <3>1. g[i] = last
      BY <2>1
    <3>2. CASE m = 1
      BY <2>1, <3>1, <3>2
    <3>3. CASE m # 1
      <4>1. m - 1 \in 1 .. m /\ m - 1 # m
        BY <1>2, <1>3, <3>3
      <4>2. g[m - 1] = f[m - 1]
        BY <4>1
      <4>. HIDE DEF g
      <4>. QED
        BY <2>1, <3>1, <3>3, <4>2
    <3>. QED
      BY <3>2, <3>3
  <2>2. CASE i # m
    <3>1. i \in 1 .. (m - 1) /\ g[i] = f[i]
      BY <1>2, <2>2
    <3>2. f[i] = IF i = 1 THEN seqs[i] ELSE f[i - 1] \o seqs[i]
      BY <1>5, <3>1
    <3>3. i # 1 => g[i - 1] = f[i - 1]
      BY <1>2, <2>2
    <3>. HIDE DEF g
    <3>. QED
      BY <3>1, <3>2, <3>3
  <2>. QED
    BY <2>1, <2>2
<1>7. g = [i \in 1 .. m |-> IF i = 1 THEN seqs[i] ELSE g[i - 1] \o seqs[i]]
  <2>1. g = [i \in 1 .. m |-> g[i]]
    OBVIOUS
  <2>. HIDE DEF g
  <2>. QED
    BY <1>6, <2>1
<1>. HIDE DEF g
<1>. QED
  BY <1>2, <1>7

\* FlattenSeq joins the sequences one by one.
LEMMA FlattenIs ==
  ASSUME NEW seqs, IsSeq(seqs)
  PROVE  /\ Len(seqs) = 0 => FlattenSeq(seqs) = << >>
         /\ Len(seqs) # 0 =>
              \E f : /\ FlattenSeq(seqs) = f[Len(seqs)]
                    /\ \A i \in 1 .. Len(seqs) :
                         f[i] = IF i = 1 THEN seqs[i] ELSE f[i - 1] \o seqs[i]
<1>1. Len(seqs) \in Nat /\ (Len(seqs) = 0 => seqs = << >>)
  BY IsSeqType
<1>2. CASE Len(seqs) = 0
  BY <1>1, <1>2 DEF FlattenSeq
<1>3. CASE Len(seqs) # 0
  <2> DEFINE Is(f) == f = [i \in 1 .. Len(seqs) |-> IF i = 1 THEN seqs[i] ELSE f[i - 1] \o seqs[i]]
             flatten == CHOOSE f : Is(f)
  <2>1. FlattenSeq(seqs) = flatten[Len(seqs)]
    BY <1>3 DEF FlattenSeq
  <2>2. \E f : Is(f)
    BY <1>1, FlattenExists
  <2>3. Is(flatten)
    <3>. HIDE DEF Is
    <3>. QED
      BY <2>2
  <2>. HIDE DEF flatten
  <2>4. \A i \in 1 .. Len(seqs) : flatten[i] = IF i = 1 THEN seqs[i] ELSE flatten[i - 1] \o seqs[i]
    BY <2>3
  <2>. QED
    BY <1>3, <2>1, <2>4
<1>. QED
  BY <1>2, <1>3

\* s is made of the elements of the first m sequences, in their order.
ComesFrom(s, seqs, m) ==
  /\ IsSeq(s)
  /\ \A k \in DOMAIN s : \E o \in 1 .. m : \E a \in DOMAIN seqs[o] : s[k] = seqs[o][a]
  /\ \A k, l \in DOMAIN s :
       k < l => \E o, p \in 1 .. m :
                  /\ o <= p
                  /\ \E a \in DOMAIN seqs[o], b \in DOMAIN seqs[p] :
                       s[k] = seqs[o][a] /\ s[l] = seqs[p][b] /\ (o = p => a < b)

LEMMA ComesFromStep ==
  ASSUME NEW seqs, NEW m \in Nat, m > 0, NEW s, ComesFrom(s, seqs, m - 1), IsSeq(seqs[m])
  PROVE  ComesFrom(s \o seqs[m], seqs, m)
<1> DEFINE t == seqs[m]
           j == s \o t
           n == Len(s)
<1>1. /\ IsSeq(s) /\ n \in Nat /\ DOMAIN s = 1 .. n /\ Len(t) \in Nat /\ DOMAIN t = 1 .. Len(t)
  BY IsSeqType DEF ComesFrom
<1>2. /\ IsSeq(j) /\ DOMAIN j = 1 .. (n + Len(t))
      /\ \A k \in 1 .. n : j[k] = s[k]
      /\ \A k \in (n + 1) .. (n + Len(t)) : k - n \in DOMAIN t /\ j[k] = t[k - n]
  BY <1>1, Joined
<1>3. /\ \A o \in 1 .. (m - 1) : o \in 1 .. m /\ o <= m
      /\ m \in 1 .. m
  OBVIOUS
<1>. HIDE DEF j, n
<1>4. \A k \in 1 .. n : \E o \in 1 .. (m - 1) : \E a \in DOMAIN seqs[o] : j[k] = seqs[o][a]
  <2>1. \A k \in DOMAIN s : \E o \in 1 .. (m - 1) : \E a \in DOMAIN seqs[o] : s[k] = seqs[o][a]
    BY Zenon DEF ComesFrom
  <2>. QED
    BY <1>1, <1>2, <2>1
<1>5. \A k \in (n + 1) .. (n + Len(t)) : \E b \in DOMAIN seqs[m] : j[k] = seqs[m][b]
  BY <1>2
<1>6. ASSUME NEW k \in DOMAIN j
      PROVE  k \in 1 .. n \/ k \in (n + 1) .. (n + Len(t))
  BY <1>1, <1>2
<1>7. \A k \in DOMAIN j : \E o \in 1 .. m : \E a \in DOMAIN seqs[o] : j[k] = seqs[o][a]
  BY <1>3, <1>4, <1>5, <1>6
<1>8. ASSUME NEW k \in DOMAIN j, NEW l \in DOMAIN j, k < l
      PROVE  \E o, p \in 1 .. m :
               /\ o <= p
               /\ \E a \in DOMAIN seqs[o], b \in DOMAIN seqs[p] :
                    j[k] = seqs[o][a] /\ j[l] = seqs[p][b] /\ (o = p => a < b)
  <2>1. CASE l \in 1 .. n
    <3>1. k \in 1 .. n
      BY <1>1, <1>2, <1>8, <2>1
    <3>2. PICK o, p \in 1 .. (m - 1) :
            /\ o <= p
            /\ \E a \in DOMAIN seqs[o], b \in DOMAIN seqs[p] :
                 s[k] = seqs[o][a] /\ s[l] = seqs[p][b] /\ (o = p => a < b)
      BY <1>1, <1>8, <2>1, <3>1 DEF ComesFrom
    <3>3. j[k] = s[k] /\ j[l] = s[l]
      BY <1>2, <2>1, <3>1
    <3>. QED
      BY <1>3, <3>2, <3>3
  <2>2. CASE l \notin 1 .. n /\ k \in 1 .. n
    <3>1. PICK b \in DOMAIN seqs[m] : j[l] = seqs[m][b]
      BY <1>5, <1>6, <2>2
    <3>2. PICK o \in 1 .. (m - 1) : \E a \in DOMAIN seqs[o] : j[k] = seqs[o][a]
      BY <1>4, <2>2
    <3>3. o <= m /\ o # m
      OBVIOUS
    <3>. QED
      BY <1>3, <3>1, <3>2, <3>3
  <2>3. CASE l \notin 1 .. n /\ k \notin 1 .. n
    <3>1. k \in (n + 1) .. (n + Len(t)) /\ l \in (n + 1) .. (n + Len(t))
      BY <1>6, <2>3
    <3>2. /\ k - n \in DOMAIN seqs[m] /\ j[k] = seqs[m][k - n]
          /\ l - n \in DOMAIN seqs[m] /\ j[l] = seqs[m][l - n]
      BY <1>2, <3>1
    <3>3. k - n < l - n
      BY <1>1, <1>8, <3>1
    <3>. QED
      BY <1>3, <3>2, <3>3
  <2>. QED
    BY <2>1, <2>2, <2>3
<1>9. ComesFrom(j, seqs, m)
  BY <1>2, <1>7, <1>8 DEF ComesFrom
<1>. QED
  BY <1>9 DEF j

\* A file has the lines of its rows, in the order of the rows.
LEMMA Flattened ==
  ASSUME NEW seqs, IsSeq(seqs), \A i \in 1 .. Len(seqs) : IsSeq(seqs[i])
  PROVE  ComesFrom(FlattenSeq(seqs), seqs, Len(seqs))
<1> DEFINE n == Len(seqs)
<1>1. n \in Nat /\ DOMAIN seqs = 1 .. n
  BY IsSeqType
<1>2. CASE n = 0 /\ FlattenSeq(seqs) = << >>
  <2>1. IsSeq(<< >>) /\ DOMAIN << >> = {}
    BY DEF IsSeq
  <2>. QED
    BY <1>2, <2>1 DEF ComesFrom
<1>3. CASE n # 0
  <2>. HIDE DEF n
  <2>1. PICK f : /\ FlattenSeq(seqs) = f[n]
                 /\ \A i \in 1 .. n : f[i] = IF i = 1 THEN seqs[i] ELSE f[i - 1] \o seqs[i]
    <3>1. n = Len(seqs)
      BY DEF n
    <3>. QED
      BY <1>3, <3>1, FlattenIs
  <2> DEFINE S == {i \in 1 .. n : ~ComesFrom(f[i], seqs, i)}
  <2>2. S = {}
    <3>. SUFFICES ASSUME S # {} PROVE FALSE
      OBVIOUS
    <3>1. PICK m \in S : \A k \in S : m <= k
      <4>. S \in SUBSET Nat
        BY <1>1
      <4>. HIDE DEF S
      <4>. QED
        BY LeastNat
    <3>2. m \in 1 .. n /\ m \in Nat /\ ~ComesFrom(f[m], seqs, m)
      BY <1>1
    <3>3. IsSeq(seqs[m])
      BY <3>2 DEF n
    <3>4. CASE m = 1
      <4>1. f[m] = seqs[1]
        BY <2>1, <3>2, <3>4
      <4>2. ComesFrom(seqs[1], seqs, 1)
        <5>1. 1 \in 1 .. 1
          OBVIOUS
        <5>2. IsSeq(seqs[1])
          BY <3>3, <3>4
        <5> DEFINE first == seqs[1]
        <5>3. \A o \in 1 .. 1 : o = 1
          OBVIOUS
        <5>. QED
          BY <5>1, <5>2, <5>3 DEF ComesFrom
      <4>. QED
        BY <3>2, <3>4, <4>1, <4>2
    <3>5. CASE m # 1
      <4>1. m - 1 \in 1 .. n /\ ~(m <= m - 1) /\ m > 0
        BY <1>1, <3>2, <3>5
      <4>2. ComesFrom(f[m - 1], seqs, m - 1)
        BY <3>1, <4>1
      <4>3. ComesFrom(f[m - 1] \o seqs[m], seqs, m)
        BY <3>2, <3>3, <4>1, <4>2, ComesFromStep
      <4>4. f[m] = f[m - 1] \o seqs[m]
        BY <2>1, <3>2, <3>5
      <4>. QED
        BY <3>2, <4>3, <4>4
    <3>. QED
      BY <3>4, <3>5
  <2>3. n \in 1 .. n
    BY <1>1, <1>3
  <2>4. ComesFrom(f[n], seqs, n)
    BY <2>2, <2>3
  <2>. QED
    BY <2>1, <2>4 DEF n
<1>. QED
  BY <1>2, <1>3, FlattenIs

\* One line per row: the file has the lines as they are.
LEMMA FlattenSingles ==
  ASSUME NEW n \in Nat, NEW item
  PROVE  FlattenSeq([i \in 1 .. n |-> <<item[i]>>]) = [i \in 1 .. n |-> item[i]]
<1> DEFINE seqs == [i \in 1 .. n |-> <<item[i]>>]
           first(m) == [i \in 1 .. m |-> item[i]]
<1>1. IsSeq(seqs) /\ Len(seqs) = n
  <2>1. seqs \in Seq({seqs[k] : k \in 1 .. n}) /\ DOMAIN seqs = 1 .. n
    OBVIOUS
  <2>. QED
    BY <2>1 DEF IsSeq
<1>2. \A i \in 1 .. n : seqs[i] = <<item[i]>>
  OBVIOUS
<1>3. CASE n = 0 /\ FlattenSeq(seqs) = << >>
  BY <1>3
<1>. HIDE DEF seqs
<1>4. CASE n # 0
  <2>1. PICK f : /\ FlattenSeq(seqs) = f[n]
                 /\ \A i \in 1 .. n : f[i] = IF i = 1 THEN seqs[i] ELSE f[i - 1] \o seqs[i]
    BY <1>1, <1>4, FlattenIs
  <2> DEFINE S == {i \in 1 .. n : f[i] # first(i)}
  <2>2. S = {}
    <3>. SUFFICES ASSUME S # {} PROVE FALSE
      OBVIOUS
    <3>1. PICK m \in S : \A k \in S : m <= k
      <4>. S \in SUBSET Nat
        OBVIOUS
      <4>. HIDE DEF S
      <4>. QED
        BY LeastNat
    <3>2. m \in 1 .. n /\ m \in Nat /\ f[m] # first(m)
      OBVIOUS
    <3>3. CASE m = 1
      <4>1. f[m] = <<item[1]>>
        BY <1>2, <2>1, <3>2, <3>3
      <4>2. first(1) = <<item[1]>>
        OBVIOUS
      <4>. HIDE DEF first
      <4>. QED
        BY <3>2, <3>3, <4>1, <4>2
    <3>4. CASE m # 1
      <4>1. m - 1 \in 1 .. n /\ m - 1 \in Nat /\ ~(m <= m - 1) /\ m > 0
        BY <3>2, <3>4
      <4>2. f[m - 1] = first(m - 1)
        <5>. HIDE DEF first
        <5>. QED
          BY <3>1, <4>1
      <4>3. f[m] = f[m - 1] \o <<item[m]>>
        BY <1>2, <2>1, <3>2, <3>4
      <4>4. first(m - 1) \o <<item[m]>> = first(m)
        <5>1. first(m - 1) \in Seq({item[i] : i \in 1 .. m}) /\ Len(first(m - 1)) = m - 1
          BY <3>2, <4>1
        <5>2. <<item[m]>> \in Seq({item[i] : i \in 1 .. m}) /\ Len(<<item[m]>>) = 1
          BY <3>2
        <5>3. \A i \in 1 .. (m - 1) : first(m - 1)[i] = item[i]
          OBVIOUS
        <5> DEFINE a == first(m - 1)
                   X == {item[i] : i \in 1 .. m}
        <5>. HIDE DEF a, X
        <5>4. /\ a \o <<item[m]>> \in Seq(X) /\ Len(a \o <<item[m]>>) = m
              /\ \A i \in 1 .. m : (a \o <<item[m]>>)[i] = item[i]
          <6>1. a \in Seq(X) /\ Len(a) = m - 1 /\ \A i \in 1 .. (m - 1) : a[i] = item[i]
            BY <5>1, <5>3 DEF a, X
          <6>2. <<item[m]>> \in Seq(X)
            BY <5>2 DEF X
          <6>. QED
            BY <3>2, <4>1, <6>1, <6>2
        <5> DEFINE b == a \o <<item[m]>>
        <5>. HIDE DEF b
        <5>5. b \in Seq(X) /\ Len(b) = m /\ \A i \in 1 .. m : b[i] = item[i]
          BY <5>4 DEF b
        <5>6. b = [i \in 1 .. m |-> item[i]]
          BY <3>2, <5>5
        <5>. QED
          BY <5>6 DEF b, a
      <4>. HIDE DEF first
      <4>. QED
        BY <3>2, <4>2, <4>3, <4>4
    <3>. QED
      BY <3>3, <3>4
  <2>3. n \in 1 .. n
    BY <1>4
  <2>4. f[n] = first(n)
    <3>. HIDE DEF first
    <3>. QED
      BY <2>2, <2>3
  <2>. QED
    BY <2>1, <2>4 DEF seqs
<1>. QED
  BY <1>1, <1>3, <1>4, FlattenIs DEF seqs

\* t has what s has at some places, in the order of s.
Picks(t, s, places, n, sel) ==
  /\ n \in Nat
  /\ t = [k \in 1 .. n |-> s[sel[k]]]
  /\ \A k \in 1 .. n : sel[k] \in places
  /\ \A k, l \in 1 .. n : k < l => sel[k] < sel[l]
  /\ \A i \in places : \E k \in 1 .. n : sel[k] = i

LEMMA AtPlacesIs ==
  ASSUME NEW s, s \in Seq({s[k] : k \in DOMAIN s}), NEW places \in SUBSET (DOMAIN s)
  PROVE  \E n, sel : Picks(AtPlaces(s, places), s, places, n, sel)
<1> DEFINE n == Cardinality(places)
           before == [i \in places |-> {j \in places : j < i}]
           sel == [k \in 1 .. n |-> CHOOSE i \in places : Cardinality(before[i]) = k - 1]
<1>1. /\ Len(s) \in Nat /\ DOMAIN s = 1 .. Len(s)
      /\ \A i \in places : i \in Nat
  OBVIOUS
<1>2. IsFiniteSet(places)
  <2>1. IsFiniteSet(1 .. Len(s))
    BY <1>1, FS_Interval
  <2>. QED
    BY <1>1, <2>1, FS_Subset
<1>3. /\ before \in [places -> SUBSET places]
      /\ \A i \in places : before[i] = {j \in places : j < i}
      /\ \A k \in 1 .. Cardinality(places) : sel[k] = CHOOSE i \in places : Cardinality(before[i]) = k - 1
  OBVIOUS
<1>4. AtPlaces(s, places) = [k \in 1 .. n |-> s[sel[k]]]
  <2>1. AtPlaces(s, places) =
          [k \in 1 .. n |-> s[CHOOSE i \in places : Cardinality({j \in places : j < i}) = k - 1]]
    BY DEF AtPlaces
  <2>2. ASSUME NEW k \in 1 .. n
        PROVE  (CHOOSE i \in places : Cardinality({j \in places : j < i}) = k - 1) = sel[k]
    <3>1. \A i \in places : Cardinality({j \in places : j < i}) = k - 1 <=> Cardinality(before[i]) = k - 1
      BY <1>3
    <3>2. (CHOOSE i \in places : Cardinality({j \in places : j < i}) = k - 1)
            = CHOOSE i \in places : Cardinality(before[i]) = k - 1
      BY <3>1
    <3>. HIDE DEF before
    <3>. QED
      BY <1>3, <3>2
  <2>. HIDE DEF sel, n
  <2>. QED
    BY <2>1, <2>2
<1>. HIDE DEF before, sel
<1>5. /\ \A i \in places : i \notin before[i]
      /\ \A i, j \in places : j \in before[i] => before[j] \subseteq before[i]
      /\ \A i, j \in places : i # j => i \in before[j] \/ j \in before[i]
  BY <1>1, <1>3
<1>6. /\ n \in Nat
      /\ \A k \in 1 .. n : sel[k] \in places
      /\ \A k, l \in 1 .. n : k < l => sel[k] \in before[sel[l]]
      /\ \A i \in places : \E k \in 1 .. n : sel[k] = i
  <2>1. before \in [places -> SUBSET places]
    BY <1>3
  <2>2. \A k \in 1 .. Cardinality(places) : sel[k] = CHOOSE i \in places : Cardinality(before[i]) = k - 1
    BY <1>3
  <2>. QED
    BY <1>2, <1>5, <2>1, <2>2, Ranked
<1>7. \A k, l \in 1 .. n : k < l => sel[k] < sel[l]
  BY <1>3, <1>6
<1>. HIDE DEF n
<1>8. Picks(AtPlaces(s, places), s, places, n, sel)
  BY <1>4, <1>6, <1>7 DEF Picks
<1>. QED
  BY <1>8, Zenon

\* All the places give the sequence itself.
LEMMA AllPlaces ==
  ASSUME NEW s, s \in Seq({s[k] : k \in DOMAIN s})
  PROVE  AtPlaces(s, DOMAIN s) = s
<1>1. Len(s) \in Nat /\ DOMAIN s = 1 .. Len(s) /\ s = [k \in 1 .. Len(s) |-> s[k]]
  OBVIOUS
<1>2. PICK n, sel : Picks(AtPlaces(s, DOMAIN s), s, DOMAIN s, n, sel)
  <2>1. DOMAIN s \in SUBSET (DOMAIN s)
    OBVIOUS
  <2>. QED
    BY <2>1, AtPlacesIs
<1>2a. /\ n \in Nat
       /\ AtPlaces(s, DOMAIN s) = [k \in 1 .. n |-> s[sel[k]]]
       /\ \A k \in 1 .. n : sel[k] \in DOMAIN s
       /\ \A k, l \in 1 .. n : k < l => sel[k] < sel[l]
       /\ \A i \in DOMAIN s : \E k \in 1 .. n : sel[k] = i
  BY <1>2 DEF Picks
<1> DEFINE m == Len(s)
<1>. HIDE DEF m
<1>3. m \in Nat /\ DOMAIN s = 1 .. m
  BY <1>1 DEF m
<1>4. n = m
  <2> DEFINE S == 1 .. n
             T == 1 .. m
             g == [k \in S |-> sel[k]]
  <2>1. g \in Bijection(S, T)
    <3>1. g \in [S -> T] /\ \A k \in S : g[k] = sel[k]
      BY <1>2a, <1>3
    <3>2. \A k, l \in S : g[k] = g[l] => k = l
      <4>. TAKE k, l \in S
      <4>1. sel[k] \in Nat /\ sel[l] \in Nat /\ k \in Nat /\ l \in Nat
        BY <1>2a, <1>3
      <4>2. (k < l => sel[k] < sel[l]) /\ (l < k => sel[l] < sel[k])
        BY <1>2a
      <4>3. k < l \/ l < k \/ k = l
        BY <4>1
      <4>. QED
        BY <3>1, <4>1, <4>2, <4>3
    <3>3. \A t \in T : \E k \in S : g[k] = t
      BY <1>2a, <1>3, <3>1
    <3>. HIDE DEF g, S, T
    <3>. QED
      BY <3>1, <3>2, <3>3 DEF Bijection, Injection, Surjection, IsInjective
  <2>2. IsFiniteSet(S) /\ Cardinality(S) = n /\ Cardinality(T) = m
    BY <1>2a, <1>3, FS_Interval
  <2>. HIDE DEF g, S, T
  <2>3. Cardinality(T) = Cardinality(S)
    <3>1. ExistsBijection(S, T)
      BY <2>1 DEF ExistsBijection
    <3>. QED
      BY <2>2, <3>1, FS_Bijection
  <2>. QED
    BY <2>2, <2>3
<1>5. \A k \in 1 .. n : sel[k] = k
  BY <1>2a, <1>3, <1>4, RisingIsIdentity
<1>. QED
  BY <1>1, <1>2a, <1>4, <1>5 DEF m
=============================================================================
