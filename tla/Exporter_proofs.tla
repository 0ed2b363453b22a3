---------------------------- MODULE Exporter_proofs ----------------------------
(***************************************************************************)
(* Proofs about the export, for any rows of any number of transactions,    *)
(* any names and any treatment of liquidity.                               *)
(***************************************************************************)
EXTENDS Exporter, NatLemmas

-----------------------------------------------------------------------------
(* The order of keys *)

\* What SortKey returns.
Keys == Int \X Int \X Int \X Int \X Int

\* The order of tuples, component by component.
LEMMA LexLessIs ==
  ASSUME NEW a \in Keys, NEW b \in Keys
  PROVE  LexLess(a, b) <=> \/ a[1] < b[1]
                           \/ a[1] = b[1] /\ a[2] < b[2]
                           \/ a[1] = b[1] /\ a[2] = b[2] /\ a[3] < b[3]
                           \/ a[1] = b[1] /\ a[2] = b[2] /\ a[3] = b[3] /\ a[4] < b[4]
                           \/ /\ a[1] = b[1] /\ a[2] = b[2] /\ a[3] = b[3] /\ a[4] = b[4]
                              /\ a[5] < b[5]
<1>1. DOMAIN a = 1 .. 5
  BY DEF Keys
<1>2. /\ \A j \in 1 .. (1 - 1) : FALSE
      /\ 1 .. (2 - 1) = {1} /\ 1 .. (3 - 1) = {1, 2} /\ 1 .. (4 - 1) = {1, 2, 3}
      /\ 1 .. (5 - 1) = {1, 2, 3, 4} /\ 1 .. 5 = {1, 2, 3, 4, 5}
  OBVIOUS
<1>3. LexLess(a, b) <=> \E i \in {1, 2, 3, 4, 5} : a[i] < b[i] /\ \A j \in 1 .. (i - 1) : a[j] = b[j]
  BY <1>1, <1>2 DEF LexLess
<1>. QED
  BY <1>2, <1>3

\* It is a strict total order, and keys in order have their timestamps in order.
LEMMA KeysInOrder ==
  ASSUME NEW a \in Keys, NEW b \in Keys, NEW c \in Keys
  PROVE  /\ ~LexLess(a, a)
         /\ LexLess(a, b) /\ LexLess(b, c) => LexLess(a, c)
         /\ LexLess(a, b) => ~LexLess(b, a) /\ a # b
         /\ a = b \/ LexLess(a, b) \/ LexLess(b, a)
         /\ LexLess(a, b) => a[1] <= b[1]
<1>1. /\ a[1] \in Int /\ a[2] \in Int /\ a[3] \in Int /\ a[4] \in Int /\ a[5] \in Int
      /\ b[1] \in Int /\ b[2] \in Int /\ b[3] \in Int /\ b[4] \in Int /\ b[5] \in Int
      /\ c[1] \in Int /\ c[2] \in Int /\ c[3] \in Int /\ c[4] \in Int /\ c[5] \in Int
  BY DEF Keys
<1>2. a[1] = b[1] /\ a[2] = b[2] /\ a[3] = b[3] /\ a[4] = b[4] /\ a[5] = b[5] => a = b
  BY DEF Keys
<1>3. ~LexLess(a, a)
  BY <1>1, LexLessIs
<1>4. LexLess(a, b) /\ LexLess(b, c) => LexLess(a, c)
  <2>. SUFFICES ASSUME LexLess(a, b), LexLess(b, c) PROVE LexLess(a, c)
    OBVIOUS
  <2>. QED
    BY <1>1, LexLessIs
<1>5. a = b \/ LexLess(a, b) \/ LexLess(b, a)
  BY <1>1, <1>2, LexLessIs
<1>6. LexLess(a, b) => a[1] <= b[1]
  BY <1>1, LexLessIs
<1>7. LexLess(a, b) => ~LexLess(b, a) /\ a # b
  BY <1>1, LexLessIs
<1>. QED
  BY <1>3, <1>4, <1>5, <1>6, <1>7

LEMMA SortKeyType ==
  ASSUME NEW row \in Rows
  PROVE  SortKey(row) \in Keys /\ SortKey(row)[1] = row.ts /\ SortKey(row)[2] = row.z
<1>1. ASSUME NEW name \in {Names[i] : i \in DOMAIN Names}
      PROVE  Index(name) \in Int
  <2>1. \E i \in DOMAIN Names : Names[i] = name
    OBVIOUS
  <2>2. Index(name) \in DOMAIN Names
    BY <2>1 DEF Index
  <2>. QED
    BY <2>2, NamesAssumption
<1>2. /\ row.ts \in Int /\ row.z \in Int /\ row.type \in {Names[i] : i \in DOMAIN Names}
      /\ row.sc \in {Names[i] : i \in DOMAIN Names} /\ row.rc \in {Names[i] : i \in DOMAIN Names}
  BY NamesAssumption DEF Rows, Currencies
<1>. QED
  BY <1>1, <1>2 DEF SortKey, Keys

-----------------------------------------------------------------------------
(* sort_rows *)

GoesBefore(list, reverse, i, j) ==
  \/ IF reverse THEN LexLess(SortKey(list[j]), SortKey(list[i]))
                ELSE LexLess(SortKey(list[i]), SortKey(list[j]))
  \/ SortKey(list[i]) = SortKey(list[j]) /\ i < j

\* Rows go one before the other in a strict total order.
LEMMA GoesBeforeOrder ==
  ASSUME NEW list \in Seq(Rows), NEW reverse \in BOOLEAN,
         NEW i \in DOMAIN list, NEW j \in DOMAIN list, NEW k \in DOMAIN list
  PROVE  /\ ~GoesBefore(list, reverse, i, i)
         /\ GoesBefore(list, reverse, i, j) => ~GoesBefore(list, reverse, j, i)
         /\ GoesBefore(list, reverse, i, j) /\ GoesBefore(list, reverse, j, k) => GoesBefore(list, reverse, i, k)
         /\ i # j => GoesBefore(list, reverse, i, j) \/ GoesBefore(list, reverse, j, i)
         /\ GoesBefore(list, reverse, i, j) =>
              IF reverse THEN list[i].ts >= list[j].ts ELSE list[i].ts <= list[j].ts
<1> DEFINE a == SortKey(list[i])
           b == SortKey(list[j])
           c == SortKey(list[k])
<1>1. /\ a \in Keys /\ b \in Keys /\ c \in Keys
      /\ a[1] = list[i].ts /\ b[1] = list[j].ts /\ list[i].ts \in Nat /\ list[j].ts \in Nat
  <2>1. list[i] \in Rows /\ list[j] \in Rows /\ list[k] \in Rows
    OBVIOUS
  <2>2. list[i].ts \in Nat /\ list[j].ts \in Nat
    BY <2>1 DEF Rows
  <2>. HIDE DEF a, b, c
  <2>. QED
    BY <2>1, <2>2, SortKeyType DEF a, b, c
<1>2. i \in Nat /\ j \in Nat /\ k \in Nat
  <2>. DOMAIN list = 1 .. Len(list) /\ Len(list) \in Nat
    OBVIOUS
  <2>. QED
    OBVIOUS
<1>. HIDE DEF a, b, c
<1>3. /\ ~LexLess(a, a) /\ ~LexLess(b, b)
      /\ LexLess(a, b) /\ LexLess(b, c) => LexLess(a, c)
      /\ LexLess(c, b) /\ LexLess(b, a) => LexLess(c, a)
      /\ LexLess(a, b) => ~LexLess(b, a) /\ a # b
      /\ a = b \/ LexLess(a, b) \/ LexLess(b, a)
      /\ LexLess(a, b) => a[1] <= b[1]
      /\ LexLess(b, a) => b[1] <= a[1]
  BY <1>1, KeysInOrder, Zenon
<1>4. /\ GoesBefore(list, reverse, i, i) <=> (IF reverse THEN LexLess(a, a) ELSE LexLess(a, a)) \/ (a = a /\ i < i)
      /\ GoesBefore(list, reverse, i, j) <=> (IF reverse THEN LexLess(b, a) ELSE LexLess(a, b)) \/ (a = b /\ i < j)
      /\ GoesBefore(list, reverse, j, i) <=> (IF reverse THEN LexLess(a, b) ELSE LexLess(b, a)) \/ (b = a /\ j < i)
      /\ GoesBefore(list, reverse, j, k) <=> (IF reverse THEN LexLess(c, b) ELSE LexLess(b, c)) \/ (b = c /\ j < k)
      /\ GoesBefore(list, reverse, i, k) <=> (IF reverse THEN LexLess(c, a) ELSE LexLess(a, c)) \/ (a = c /\ i < k)
  BY DEF GoesBefore, a, b, c
<1>. HIDE DEF GoesBefore
<1>5. ~GoesBefore(list, reverse, i, i)
  BY <1>2, <1>3, <1>4
<1>6. GoesBefore(list, reverse, i, j) => ~GoesBefore(list, reverse, j, i)
  BY <1>2, <1>3, <1>4
<1>7. GoesBefore(list, reverse, i, j) /\ GoesBefore(list, reverse, j, k) => GoesBefore(list, reverse, i, k)
  BY <1>2, <1>3, <1>4
<1>8. i # j => GoesBefore(list, reverse, i, j) \/ GoesBefore(list, reverse, j, i)
  BY <1>2, <1>3, <1>4
<1>9. GoesBefore(list, reverse, i, j) =>
        IF reverse THEN list[i].ts >= list[j].ts ELSE list[i].ts <= list[j].ts
  BY <1>1, <1>3, <1>4
<1>. QED
  BY <1>5, <1>6, <1>7, <1>8, <1>9

\* The sort lists every row once, in that order.
LEMMA SortedIs ==
  ASSUME NEW list \in Seq(Rows), NEW reverse \in BOOLEAN
  PROVE  \E sel :
           /\ Sorted(list, reverse) = [k \in 1 .. Len(list) |-> list[sel[k]]]
           /\ \A k \in 1 .. Len(list) : sel[k] \in 1 .. Len(list)
           /\ \A k, l \in 1 .. Len(list) : k < l => GoesBefore(list, reverse, sel[k], sel[l])
           /\ \A i \in 1 .. Len(list) : \E k \in 1 .. Len(list) : sel[k] = i
<1> DEFINE n == Len(list)
           S == 1 .. n
           before == [i \in S |-> {j \in S : GoesBefore(list, reverse, j, i)}]
           sel == [k \in S |-> CHOOSE i \in S : Cardinality(before[i]) = k - 1]
<1>1. n \in Nat /\ DOMAIN list = S
  OBVIOUS
<1>2. IsFiniteSet(S) /\ Cardinality(S) = n
  <2>1. IsFiniteSet(1 .. n) /\ Cardinality(1 .. n) = IF 1 > n THEN 0 ELSE n - 1 + 1
    <3>. HIDE DEF n
    <3>. QED
      BY <1>1, FS_Interval
  <2>. QED
    BY <1>1, <2>1
<1>3. /\ before \in [S -> SUBSET S]
      /\ \A i \in S : before[i] = {j \in S : GoesBefore(list, reverse, j, i)}
  OBVIOUS
<1>4. \A k \in S : sel[k] = CHOOSE i \in S : Cardinality(before[i]) = k - 1
  OBVIOUS
<1>5. Sorted(list, reverse) = [k \in S |-> list[sel[k]]]
  <2>1. ASSUME NEW i \in S
        PROVE  before[i] = {j \in DOMAIN list :
                  \/ IF reverse THEN LexLess(SortKey(list[i]), SortKey(list[j]))
                                ELSE LexLess(SortKey(list[j]), SortKey(list[i]))
                  \/ SortKey(list[j]) = SortKey(list[i]) /\ j < i}
    BY <1>1, <1>3 DEF GoesBefore
  <2> DEFINE keys == [i \in DOMAIN list |-> SortKey(list[i])]
             Before(i, j) == \/ IF reverse THEN LexLess(keys[j], keys[i])
                                           ELSE LexLess(keys[i], keys[j])
                             \/ keys[i] = keys[j] /\ i < j
             place == [i \in DOMAIN list |-> 1 + Cardinality({j \in DOMAIN list : Before(j, i)})]
  <2>2. Sorted(list, reverse) = [k \in DOMAIN list |-> list[CHOOSE i \in DOMAIN list : place[i] = k]]
    BY DEF Sorted
  <2>3. ASSUME NEW i \in S
        PROVE  {j \in DOMAIN list : Before(j, i)} = before[i]
    <3>1. \A j \in DOMAIN list : keys[j] = SortKey(list[j])
      OBVIOUS
    <3>. HIDE DEF keys, before
    <3>. QED
      BY <1>1, <2>1, <3>1
  <2>4. \A i \in S : place[i] = 1 + Cardinality(before[i])
    <3>. HIDE DEF before
    <3>1. \A i \in DOMAIN list : place[i] = 1 + Cardinality({j \in DOMAIN list : Before(j, i)})
      BY Zenon
    <3>. HIDE DEF place, Before
    <3>. QED
      BY <1>1, <2>3, <3>1
  <2>5. \A i \in S : Cardinality(before[i]) \in Int
    <3>. TAKE i \in S
    <3>1. before[i] \in SUBSET S
      BY <1>3
    <3>. HIDE DEF before
    <3>. QED
      BY <1>2, <3>1, FS_Subset, FS_CardinalityType
  <2>. HIDE DEF before, place, keys
  <2>6. \A k \in S : (CHOOSE i \in S : place[i] = k) = (CHOOSE i \in S : Cardinality(before[i]) = k - 1)
    <3>. TAKE k \in S
    <3>1. \A i \in S : place[i] = k <=> Cardinality(before[i]) = k - 1
      BY <1>1, <2>4, <2>5
    <3>. QED
      BY <3>1
  <2>7. \A k \in S : sel[k] = CHOOSE i \in S : place[i] = k
    BY <1>4, <2>6
  <2>. HIDE DEF sel, S
  <2>. QED
    BY <1>1, <2>2, <2>7
<1>6. \A i, j, k \in S :
        /\ i \notin before[i]
        /\ j \in before[i] /\ k \in before[j] => k \in before[i]
        /\ i # j => i \in before[j] \/ j \in before[i]
  <2>. HIDE DEF before
  <2>. QED
    BY <1>1, <1>3, GoesBeforeOrder
<1>. HIDE DEF before, sel
<1>7. \A i, j \in S : j \in before[i] => before[j] \subseteq before[i]
  BY <1>3, <1>6
<1>8. /\ \A k \in 1 .. n : sel[k] \in S
      /\ \A k, l \in 1 .. n : k < l => sel[k] \in before[sel[l]]
      /\ \A i \in S : \E k \in 1 .. n : sel[k] = i
  <2>1. /\ \A i \in S : i \notin before[i]
        /\ \A i, j \in S : i # j => i \in before[j] \/ j \in before[i]
        /\ \A k \in 1 .. Cardinality(S) : sel[k] = CHOOSE i \in S : Cardinality(before[i]) = k - 1
    BY <1>2, <1>4, <1>6
  <2>. HIDE DEF S, n
  <2>2. /\ \A k \in 1 .. Cardinality(S) : sel[k] \in S
        /\ \A k, l \in 1 .. Cardinality(S) : k < l => sel[k] \in before[sel[l]]
        /\ \A i \in S : \E k \in 1 .. Cardinality(S) : sel[k] = i
    BY <1>2, <1>3, <1>7, <2>1, Ranked
  <2>. QED
    BY <1>2, <2>2
<1>. QED
  BY <1>3, <1>5, <1>8

\* The rows after a sort: each is one of the rows, and they are in order of time.
LEMMA SortedOrder ==
  ASSUME NEW list \in Seq(Rows), NEW reverse \in BOOLEAN
  PROVE  LET s == Sorted(list, reverse)
             n == Len(list)
         IN  /\ s \in Seq(Rows) /\ Len(s) = n
             /\ \A k \in 1 .. n : \E i \in 1 .. n : s[k] = list[i]
             /\ \A i \in 1 .. n : \E k \in 1 .. n : s[k] = list[i]
             /\ \A k, l \in 1 .. n :
                  k < l => IF reverse THEN s[k].ts >= s[l].ts ELSE s[k].ts <= s[l].ts
<1> DEFINE s == Sorted(list, reverse)
           n == Len(list)
<1>1. PICK sel : /\ s = [k \in 1 .. n |-> list[sel[k]]]
                 /\ \A k \in 1 .. n : sel[k] \in 1 .. n
                 /\ \A k, l \in 1 .. n : k < l => GoesBefore(list, reverse, sel[k], sel[l])
                 /\ \A i \in 1 .. n : \E k \in 1 .. n : sel[k] = i
  BY SortedIs
<1>. HIDE DEF s
<1>2. n \in Nat /\ DOMAIN list = 1 .. n /\ \A i \in 1 .. n : list[i] \in Rows
  OBVIOUS
<1>3. s \in Seq(Rows) /\ Len(s) = n
  <2>1. s \in [1 .. n -> Rows]
    BY <1>1, <1>2
  <2>. QED
    BY <1>2, <2>1
<1>4. \A k, l \in 1 .. n : k < l => IF reverse THEN s[k].ts >= s[l].ts ELSE s[k].ts <= s[l].ts
  <2>. TAKE k, l \in 1 .. n
  <2>1. /\ s[k] = list[sel[k]] /\ s[l] = list[sel[l]]
        /\ sel[k] \in DOMAIN list /\ sel[l] \in DOMAIN list
        /\ k < l => GoesBefore(list, reverse, sel[k], sel[l])
    BY <1>1, <1>2
  <2>. QED
    BY <2>1, GoesBeforeOrder
<1>5. \A k \in 1 .. n : \E i \in 1 .. n : s[k] = list[i]
  BY <1>1
<1>6. \A i \in 1 .. n : \E k \in 1 .. n : s[k] = list[i]
  BY <1>1
<1>. QED
  BY <1>3, <1>4, <1>5, <1>6 DEF s

\* Rows that are there newest first, and by falling z_index, stay where they are
\* when they are sorted newest first: what ingest_csv counts on.
LEMMA SortedStays ==
  ASSUME NEW list \in Seq(Rows),
         \A i, j \in DOMAIN list : i < j => list[i].ts >= list[j].ts /\ list[i].z > list[j].z
  PROVE  Sorted(list, TRUE) = list
<1> DEFINE n == Len(list)
<1>1. n \in Nat /\ DOMAIN list = 1 .. n /\ \A i \in 1 .. n : list[i] \in Rows
  OBVIOUS
<1>2. PICK sel : /\ Sorted(list, TRUE) = [k \in 1 .. n |-> list[sel[k]]]
                 /\ \A k \in 1 .. n : sel[k] \in 1 .. n
                 /\ \A k, l \in 1 .. n : k < l => GoesBefore(list, TRUE, sel[k], sel[l])
  BY SortedIs
<1>. HIDE DEF n
<1>3. ASSUME NEW i \in 1 .. n, NEW j \in 1 .. n, i < j
      PROVE  GoesBefore(list, TRUE, i, j)
  <2>1. SortKey(list[i]) \in Keys /\ SortKey(list[j]) \in Keys
    BY <1>1, SortKeyType
  <2>2. /\ SortKey(list[i])[1] = list[i].ts /\ SortKey(list[j])[1] = list[j].ts
        /\ SortKey(list[i])[2] = list[i].z /\ SortKey(list[j])[2] = list[j].z
    BY <1>1, SortKeyType
  <2>3. list[i].ts \in Nat /\ list[j].ts \in Nat /\ list[i].z \in Int /\ list[j].z \in Int
    BY <1>1 DEF Rows
  <2>4. list[j].ts < list[i].ts \/ (list[j].ts = list[i].ts /\ list[j].z < list[i].z)
    BY <1>1, <1>3, <2>3
  <2>5. LexLess(SortKey(list[j]), SortKey(list[i]))
    BY <2>1, <2>2, <2>4, LexLessIs
  <2>. QED
    BY <2>5 DEF GoesBefore
<1>4. ASSUME NEW k \in 1 .. n, NEW l \in 1 .. n, k < l
      PROVE  sel[k] < sel[l]
  <2>1. GoesBefore(list, TRUE, sel[k], sel[l])
    BY <1>2, <1>4
  <2>2. sel[k] \in DOMAIN list /\ sel[l] \in DOMAIN list /\ sel[k] \in 1 .. n /\ sel[l] \in 1 .. n
    BY <1>1, <1>2
  <2>3. sel[k] # sel[l] /\ ~GoesBefore(list, TRUE, sel[l], sel[k])
    BY <2>1, <2>2, GoesBeforeOrder
  <2>4. ~(sel[l] < sel[k])
    BY <1>3, <2>2, <2>3
  <2>. QED
    BY <1>1, <2>2, <2>3, <2>4
<1>5. \A k \in 1 .. n : sel[k] = k
  BY <1>1, <1>2, <1>4, RisingIsIdentity
<1>6. list = [k \in 1 .. n |-> list[k]]
  BY <1>1
<1>. QED
  BY <1>2, <1>5, <1>6

-----------------------------------------------------------------------------
(* _rows_export *)

\* What a format sees of a row is the row, but for the liquidity rows of the
\* formats that have no label for them.
SeenAs(seen, row) ==
  \/ seen = row
  \/ /\ row.type \in LpTypes
     /\ \/ seen = AsTrade(row)
        \/ row.type = "LP_DEPOSIT" /\ seen = AsTransferOut(row)
        \/ row.type = "LP_WITHDRAW" /\ seen = AsTransferIn(row)

\* A format sees some of the rows, in their order.
Sees(seen, list, n, sel) ==
  /\ n \in Nat
  /\ DOMAIN seen = 1 .. n /\ seen \in Seq({seen[k] : k \in 1 .. n})
  /\ \A k \in 1 .. n : sel[k] \in DOMAIN list /\ SeenAs(seen[k], list[sel[k]])
  /\ \A k, l \in 1 .. n : k < l => sel[k] < sel[l]

LEMMA RowsExportIs ==
  ASSUME NEW f, NEW list \in Seq(Rows), NEW treat \in LP_TREATMENT_CHOICES
  PROVE  \E n, sel : Sees(RowsExport(f, list, treat), list, n, sel)
<1> DEFINE Taken(row) == /\ f \in TakesAllRows \/ row.type \in AllowedTypes(f)
                         /\ KeepsLp(f) \/ treat # "omit" \/ row.type \notin LpTypes
           places == {i \in DOMAIN list : Taken(list[i])}
           kept == AtPlaces(list, places)
           Seen(row) == IF ~KeepsLp(f) /\ row.type \in LpTypes THEN TreatLp(row, treat) ELSE row
           seen == RowsExport(f, list, treat)
<1>1. seen = [i \in DOMAIN kept |-> Seen(kept[i])]
  BY DEF RowsExport
<1>2. list \in Seq({list[k] : k \in DOMAIN list}) /\ places \in SUBSET (DOMAIN list)
  OBVIOUS
<1>3. \A i \in places : KeepsLp(f) \/ treat # "omit" \/ list[i].type \notin LpTypes
  OBVIOUS
<1>. HIDE DEF places, kept, seen, Seen
<1>3a. PICK n, sel : Picks(kept, list, places, n, sel)
  BY <1>2, AtPlacesIs DEF kept
<1>4. /\ n \in Nat
      /\ kept = [k \in 1 .. n |-> list[sel[k]]]
      /\ \A k \in 1 .. n : sel[k] \in places
      /\ \A k, l \in 1 .. n : k < l => sel[k] < sel[l]
  BY <1>3a DEF Picks
<1>5. /\ DOMAIN seen = 1 .. n /\ seen = [k \in 1 .. n |-> Seen(list[sel[k]])]
      /\ \A k \in 1 .. n : seen[k] = Seen(list[sel[k]])
  BY <1>1, <1>4
<1>6. ASSUME NEW k \in 1 .. n
      PROVE  SeenAs(seen[k], list[sel[k]])
  <2> DEFINE row == list[sel[k]]
  <2>1. KeepsLp(f) \/ treat # "omit" \/ row.type \notin LpTypes
    BY <1>3, <1>4
  <2>2. seen[k] = Seen(row)
    BY <1>5
  <2>. HIDE DEF row
  <2>3. CASE ~KeepsLp(f) /\ row.type \in LpTypes
    <3>1. treat \in {"trades", "transfers"}
      BY <2>1, <2>3 DEF LP_TREATMENT_CHOICES
    <3>2. seen[k] = TreatLp(row, treat)
      BY <2>2, <2>3 DEF Seen
    <3>3. row.type = "LP_DEPOSIT" \/ row.type = "LP_WITHDRAW"
      BY <2>3 DEF LpTypes
    <3>. QED
      BY <2>3, <3>1, <3>2, <3>3 DEF TreatLp, SeenAs, row
  <2>4. CASE ~(~KeepsLp(f) /\ row.type \in LpTypes)
    BY <2>2, <2>4 DEF Seen, SeenAs, row
  <2>. QED
    BY <2>3, <2>4
<1>7. seen \in Seq({seen[k] : k \in 1 .. n})
  <2>. HIDE DEF seen
  <2>1. seen = [k \in 1 .. n |-> seen[k]]
    BY <1>5
  <2>2. seen \in [1 .. n -> {seen[k] : k \in 1 .. n}]
    BY <2>1
  <2>3. n \in Nat
    BY <1>4
  <2>. QED
    BY <2>2, <2>3
<1>8. \A k \in 1 .. n : sel[k] \in DOMAIN list
  BY <1>2, <1>4
<1>9. Sees(seen, list, n, sel)
  BY <1>4, <1>5, <1>6, <1>7, <1>8 DEF Sees
<1>. QED
  BY <1>9 DEF seen

\* The default CSV has every row.
LEMMA DefaultSeesAll ==
  ASSUME NEW list \in Seq(Rows), NEW treat
  PROVE  RowsExport("default", list, treat) = list
<1>1. "default" \in TakesAllRows /\ KeepsLp("default")
  BY DEF TakesAllRows, KeepsLp
<1>2. {i \in DOMAIN list : /\ "default" \in TakesAllRows \/ list[i].type \in AllowedTypes("default")
                           /\ KeepsLp("default") \/ treat # "omit" \/ list[i].type \notin LpTypes} = DOMAIN list
  BY <1>1
<1>3. AtPlaces(list, DOMAIN list) = list
  <2>1. list \in Seq({list[k] : k \in DOMAIN list})
    OBVIOUS
  <2>. QED
    BY <2>1, AllPlaces
<1>4. RowsExport("default", list, treat) = [i \in DOMAIN list |-> list[i]]
  BY <1>1, <1>2, <1>3 DEF RowsExport
<1>. QED
  BY <1>4

-----------------------------------------------------------------------------
(* Lines *)

\* A transfer, a loan, a repayment or a gain of a perpetual moves something on
\* one side only, and a reward or an airdrop is received.
OneSidedRow(row) ==
  /\ row.type \in {"TRANSFER", Pnl} => row.ra = 0 \/ row.sa = 0
  /\ row.type = "BORROW" => row.sa = 0
  /\ row.type = "REPAY" => row.ra = 0
  /\ row.type \in {"STAKING", "AIRDROP"} => row.sa = 0

\* A line does not contradict its kind.
KindAgrees(line) ==
  /\ line.kind = "in" => line.sa = 0
  /\ line.kind = "out" => line.ra = 0

\* Lines have the time of the row they are about and, if agree, their kinds.
Tell(lines, t, agree) ==
  /\ IsSeq(lines)
  /\ \A k \in DOMAIN lines : lines[k].ts = t /\ (agree => KindAgrees(lines[k]))

LEMMA TellOne ==
  ASSUME NEW line, NEW t, NEW agree \in BOOLEAN, line.ts = t, agree => KindAgrees(line)
  PROVE  Tell(<<line>>, t, agree)
<1>1. <<line>> \in Seq({line}) /\ DOMAIN <<line>> = {1} /\ <<line>>[1] = line
  OBVIOUS
<1>2. IsSeq(<<line>>)
  BY <1>1, IsSeqOf
<1>. QED
  BY <1>1, <1>2 DEF Tell

LEMMA TellTwo ==
  ASSUME NEW a, NEW b, NEW t, NEW agree \in BOOLEAN,
         a.ts = t, agree => KindAgrees(a), b.ts = t, agree => KindAgrees(b)
  PROVE  Tell(<<a, b>>, t, agree)
<1>1. <<a, b>> \in Seq({a, b}) /\ DOMAIN <<a, b>> = {1, 2} /\ <<a, b>>[1] = a /\ <<a, b>>[2] = b
  OBVIOUS
<1>2. IsSeq(<<a, b>>)
  BY <1>1, IsSeqOf
<1>. QED
  BY <1>1, <1>2 DEF Tell

LEMMA TellNone ==
  ASSUME NEW t, NEW agree \in BOOLEAN
  PROVE  Tell(<< >>, t, agree)
  BY DEF Tell, IsSeq

LEMMA TellBoth ==
  ASSUME NEW a, NEW b, NEW t, NEW agree \in BOOLEAN, Tell(a, t, agree), Tell(b, t, agree)
  PROVE  Tell(a \o b, t, agree)
<1>1. /\ IsSeq(a) /\ IsSeq(b) /\ Len(a) \in Nat /\ Len(b) \in Nat
      /\ DOMAIN a = 1 .. Len(a) /\ DOMAIN b = 1 .. Len(b)
  BY IsSeqType DEF Tell
<1> DEFINE j == a \o b
<1>2. /\ IsSeq(j) /\ DOMAIN j = 1 .. (Len(a) + Len(b))
      /\ \A k \in 1 .. Len(a) : j[k] = a[k]
      /\ \A k \in (Len(a) + 1) .. (Len(a) + Len(b)) : k - Len(a) \in DOMAIN b /\ j[k] = b[k - Len(a)]
  BY <1>1, Joined
<1>. HIDE DEF j
<1>3. ASSUME NEW k \in DOMAIN j
      PROVE  j[k].ts = t /\ (agree => KindAgrees(j[k]))
  <2>1. CASE k \in 1 .. Len(a)
    BY <1>1, <1>2, <2>1 DEF Tell
  <2>2. CASE k \in (Len(a) + 1) .. (Len(a) + Len(b))
    BY <1>1, <1>2, <2>2 DEF Tell
  <2>. QED
    BY <1>1, <1>2, <2>1, <2>2
<1>4. Tell(j, t, agree)
  BY <1>2, <1>3 DEF Tell
<1>. QED
  BY <1>4 DEF j

\* The fields of a line, and of a row of one side.
LEMMA LineFields ==
  ASSUME NEW kind, NEW id, NEW row
  PROVE  /\ Line(kind, id, row).kind = kind /\ Line(kind, id, row).ts = row.ts
         /\ Line(kind, id, row).sa = row.sa /\ Line(kind, id, row).ra = row.ra
  BY DEF Line

LEMMA OneSide ==
  ASSUME NEW row \in Rows
  PROVE  /\ InOnly(row) \in Rows /\ OutOnly(row) \in Rows /\ NoFee(row) \in Rows
         /\ InOnly(row).ts = row.ts /\ OutOnly(row).ts = row.ts /\ NoFee(row).ts = row.ts
         /\ InOnly(row).type = row.type /\ OutOnly(row).type = row.type /\ NoFee(row).type = row.type
         /\ InOnly(row).sa = 0 /\ InOnly(row).ra = row.ra
         /\ OutOnly(row).ra = 0 /\ OutOnly(row).sa = row.sa
         /\ NoFee(row).ra = row.ra /\ NoFee(row).sa = row.sa
  BY NamesAssumption DEF InOnly, OutOnly, NoFee, Rows

\* The kind of a line agrees with the row, whichever amount the exporter looks at first.
LEMMA KindOfRow ==
  ASSUME NEW g, NEW row \in Rows, OneSidedRow(row)
  PROVE  /\ Kind(g, row) = "in" => row.sa = 0
         /\ Kind(g, row) = "out" => row.ra = 0
<1>1. row.type # "in" /\ row.type # "out" /\ row.ra \in Nat /\ row.sa \in Nat
  BY DEF Rows, CommonExportable, CommonHidden, TX_TYPES_CSVEXPORT, TransferLike, LpTypes, Pnl
<1>2. /\ Side(row) = "in" => row.sa = 0
      /\ Side(row) = "out" => row.ra = 0
  BY <1>1 DEF Side, HasIn, HasOut
<1>3. ASSUME row.type \in {"TRANSFER", "BORROW", "REPAY", Pnl}
      PROVE  /\ InUnlessOut(row) = "in" => row.sa = 0
             /\ InUnlessOut(row) = "out" => row.ra = 0
             /\ OutFirst(row) = "in" => row.sa = 0
             /\ OutFirst(row) = "out" => row.ra = 0
             /\ InFirst(row) = "in" => row.sa = 0
             /\ InFirst(row) = "out" => row.ra = 0
             /\ OutFirstOrNone(row) = "in" => row.sa = 0
             /\ OutFirstOrNone(row) = "out" => row.ra = 0
  BY <1>1, <1>3 DEF OneSidedRow, InUnlessOut, OutFirst, InFirst, OutFirstOrNone, Side, HasIn, HasOut
<1>4. ASSUME row.type = "TRANSFER"
      PROVE  /\ PlainTransferKind(g, row) = "in" => row.sa = 0
             /\ PlainTransferKind(g, row) = "out" => row.ra = 0
  BY <1>1, <1>2, <1>3, <1>4 DEF PlainTransferKind
<1>5. ASSUME row.type \in TransferLike
      PROVE  /\ TransferKind(g, row) = "in" => row.sa = 0
             /\ TransferKind(g, row) = "out" => row.ra = 0
  <2>1. row.type \in {"TRANSFER", "BORROW", "REPAY"}
    BY <1>5 DEF TransferLike
  <2>2. row.type \in {"BORROW", "REPAY"} => /\ Loan(row) = "in" => row.sa = 0
                                            /\ Loan(row) = "out" => row.ra = 0
    BY DEF Loan, OneSidedRow
  <2>. QED
    BY <1>1, <1>2, <1>3, <1>4, <2>1, <2>2 DEF TransferKind
<1>6. ASSUME row.type = Pnl
      PROVE  /\ PnlKind(g, row) = "in" => row.sa = 0
             /\ PnlKind(g, row) = "out" => row.ra = 0
  BY <1>1, <1>3, <1>6 DEF PnlKind
<1>7. Pnl \notin TransferLike
  BY DEF Pnl, TransferLike
<1>8. /\ WaltioKind(row) = "in" => row.sa = 0
      /\ WaltioKind(row) = "out" => row.ra = 0
  BY <1>2 DEF WaltioKind, OneSidedRow
<1>. QED
  BY <1>1, <1>2, <1>5, <1>6, <1>7, <1>8 DEF Kind

LEMMA LineTells ==
  ASSUME NEW g, NEW id, NEW row \in Rows
  PROVE  Tell(<<Line(Kind(g, row), id, row)>>, row.ts, OneSidedRow(row))
<1> DEFINE line == Line(Kind(g, row), id, row)
<1>1. line.kind = Kind(g, row) /\ line.ts = row.ts /\ line.sa = row.sa /\ line.ra = row.ra
  BY LineFields
<1>. HIDE DEF line
<1>2. OneSidedRow(row) => KindAgrees(line)
  BY <1>1, KindOfRow DEF KindAgrees
<1>3. OneSidedRow(row) \in BOOLEAN
  BY DEF OneSidedRow
<1>4. Tell(<<line>>, row.ts, OneSidedRow(row))
  BY <1>1, <1>2, <1>3, TellOne
<1>. QED
  BY <1>4 DEF line

\* Folding a fee into an amount does not turn a line around.
LEMMA CtLineTells ==
  ASSUME NEW kind, NEW row \in Rows, NEW agree \in BOOLEAN,
         agree => /\ kind = "in" => row.sa = 0
                  /\ kind = "out" => row.ra = 0
  PROVE  Tell(CtLine(kind, row), row.ts, agree)
<1> DEFINE id    == <<row.txid, row.rc, row.sc>>
           plain == Line(kind, id, row)
           other == [kind |-> "Other Fee", id |-> <<row.txid, "fee">>, ts |-> row.ts,
                     rc |-> NoCurrency, ra |-> 0, sc |-> row.fc, sa |-> row.fee,
                     fc |-> NoCurrency, fee |-> 0]
           lessIn == [plain EXCEPT !.ra = @ - row.fee]
           moreOut == [plain EXCEPT !.sa = @ + row.fee]
<1>1. /\ plain.kind = kind /\ plain.ts = row.ts /\ plain.sa = row.sa /\ plain.ra = row.ra
      /\ lessIn.kind = kind /\ lessIn.ts = row.ts /\ lessIn.sa = row.sa
      /\ moreOut.kind = kind /\ moreOut.ts = row.ts /\ moreOut.ra = row.ra
  BY DEF Line
<1>2. other.kind = "Other Fee" /\ other.ts = row.ts
  OBVIOUS
<1>3. row.ra \in Nat /\ row.sa \in Nat
  BY DEF Rows
<1>4. \/ CtLine(kind, row) = <<plain>>
      \/ CtLine(kind, row) = <<plain, other>>
      \/ HasIn(row) /\ CtLine(kind, row) = <<lessIn>>
      \/ HasOut(row) /\ CtLine(kind, row) = <<moreOut>>
  <2>. HIDE DEF plain, other, lessIn, moreOut
  <2>1. CtLine(kind, row) =
          IF row.fee = 0 \/ IsDeposit(kind, row) THEN <<plain>>
          ELSE IF HasIn(row) /\ row.rc = row.fc  THEN <<lessIn>>
          ELSE IF HasOut(row) /\ row.sc = row.fc THEN <<moreOut>>
          ELSE IF row.fc \notin {row.rc, row.sc} THEN <<plain, other>> ELSE <<plain>>
    BY DEF CtLine, plain, other, lessIn, moreOut
  <2>. QED
    BY <2>1
<1>. HIDE DEF plain, other, lessIn, moreOut
<1>5. Tell(<<plain>>, row.ts, agree)
  BY <1>1, TellOne DEF KindAgrees
<1>7. Tell(<<plain, other>>, row.ts, agree)
  BY <1>1, <1>2, TellTwo DEF KindAgrees
<1>8. HasIn(row) => Tell(<<lessIn>>, row.ts, agree)
  BY <1>1, <1>3, TellOne DEF KindAgrees, HasIn
<1>9. HasOut(row) => Tell(<<moreOut>>, row.ts, agree)
  BY <1>1, <1>3, TellOne DEF KindAgrees, HasOut
<1>. QED
  BY <1>4, <1>5, <1>7, <1>8, <1>9

LEMMA CointrackingTells ==
  ASSUME NEW row \in Rows
  PROVE  Tell(CointrackingLines(row), row.ts, OneSidedRow(row))
<1> DEFINE agree == OneSidedRow(row)
<1>1. agree \in BOOLEAN
  BY DEF OneSidedRow
<1>2. ASSUME NEW r \in Rows, r.ts = row.ts,
             NEW kind \in {"Provide Liquidity", "Receive LP Token", "Remove Liquidity", "Return LP Token"}
      PROVE  Tell(CtLine(kind, r), row.ts, agree)
  <2>1. kind # "in" /\ kind # "out"
    OBVIOUS
  <2>. HIDE DEF agree
  <2>. QED
    BY <1>1, <1>2, <2>1, CtLineTells
<1>3. /\ NoFee(OutOnly(row)) \in Rows /\ NoFee(InOnly(row)) \in Rows
      /\ InOnly(row) \in Rows /\ OutOnly(row) \in Rows
      /\ NoFee(OutOnly(row)).ts = row.ts /\ NoFee(InOnly(row)).ts = row.ts
      /\ InOnly(row).ts = row.ts /\ OutOnly(row).ts = row.ts
  BY OneSide
<1>4. CASE row.type = "LP_DEPOSIT"
  <2>1. Tell(CtLine("Provide Liquidity", NoFee(OutOnly(row))), row.ts, agree)
    BY <1>2, <1>3
  <2>2. Tell(CtLine("Receive LP Token", InOnly(row)), row.ts, agree)
    BY <1>2, <1>3
  <2>. HIDE DEF agree
  <2>3. CointrackingLines(row) =
          CtLine("Provide Liquidity", NoFee(OutOnly(row))) \o CtLine("Receive LP Token", InOnly(row))
    BY <1>4 DEF CointrackingLines
  <2>4. Tell(CointrackingLines(row), row.ts, agree)
    BY <1>1, <2>1, <2>2, <2>3, TellBoth
  <2>. QED
    BY <2>4 DEF agree
<1>5. CASE row.type = "LP_WITHDRAW"
  <2>1. Tell(CtLine("Remove Liquidity", NoFee(InOnly(row))), row.ts, agree)
    BY <1>2, <1>3
  <2>2. Tell(CtLine("Return LP Token", OutOnly(row)), row.ts, agree)
    BY <1>2, <1>3
  <2>. HIDE DEF agree
  <2>3. CointrackingLines(row) =
          CtLine("Remove Liquidity", NoFee(InOnly(row))) \o CtLine("Return LP Token", OutOnly(row))
    BY <1>5 DEF CointrackingLines
  <2>4. Tell(CointrackingLines(row), row.ts, agree)
    BY <1>1, <2>1, <2>2, <2>3, TellBoth
  <2>. QED
    BY <2>4 DEF agree
<1>6. CASE row.type \notin {"LP_DEPOSIT", "LP_WITHDRAW"}
  <2>1. CointrackingLines(row) = CtLine(Kind("cointracking", row), row)
    BY <1>6 DEF CointrackingLines
  <2>2. agree => /\ Kind("cointracking", row) = "in" => row.sa = 0
                 /\ Kind("cointracking", row) = "out" => row.ra = 0
    BY KindOfRow
  <2>. HIDE DEF agree
  <2>3. Tell(CointrackingLines(row), row.ts, agree)
    BY <1>1, <2>1, <2>2, CtLineTells
  <2>. QED
    BY <2>3 DEF agree
<1>. QED
  BY <1>4, <1>5, <1>6

\* The legs of a group: one line for some of its rows.
LEMMA LegsTell ==
  ASSUME NEW legs, IsSeq(legs), NEW places \in SUBSET (DOMAIN legs), NEW t,
         \A j \in DOMAIN legs : legs[j].ts = t /\ KindAgrees(legs[j])
  PROVE  Tell(AtPlaces(legs, places), t, TRUE)
<1>1. PICK n, sel : Picks(AtPlaces(legs, places), legs, places, n, sel)
  BY IsSeqType, AtPlacesIs
<1> DEFINE s == AtPlaces(legs, places)
<1>2. n \in Nat /\ s = [k \in 1 .. n |-> legs[sel[k]]] /\ \A k \in 1 .. n : sel[k] \in DOMAIN legs
  BY <1>1 DEF Picks
<1>. HIDE DEF s
<1>3. s \in Seq({legs[j] : j \in DOMAIN legs}) /\ DOMAIN s = 1 .. n
  BY <1>2
<1>4. IsSeq(s)
  BY <1>3, IsSeqOf
<1>5. Tell(s, t, TRUE)
  BY <1>2, <1>3, <1>4 DEF Tell
<1>. QED
  BY <1>5 DEF s

\* The legs and, if there is one, the line of the pool token.
LEMMA LegsAndToken ==
  ASSUME NEW legs, NEW token, NEW t, Tell(legs, t, TRUE), token.ts = t, KindAgrees(token)
  PROVE  Tell(Append(legs, token), t, TRUE)
<1>1. IsSeq(legs) /\ Len(legs) \in Nat /\ DOMAIN legs = 1 .. Len(legs)
  BY IsSeqType DEF Tell
<1> DEFINE X == {legs[k] : k \in DOMAIN legs} \cup {token}
           s == Append(legs, token)
<1>2. legs \in Seq(X) /\ token \in X
  <2>1. legs \in Seq({legs[k] : k \in DOMAIN legs})
    BY <1>1 DEF IsSeq
  <2>. QED
    BY <2>1
<1>. HIDE DEF X
<1>3. /\ s \in Seq(X) /\ Len(s) = Len(legs) + 1
      /\ \A k \in 1 .. Len(legs) : s[k] = legs[k]
      /\ s[Len(legs) + 1] = token
  BY <1>1, <1>2
<1>. HIDE DEF s
<1>4. IsSeq(s) /\ DOMAIN s = 1 .. (Len(legs) + 1)
  BY <1>3, IsSeqOf
<1>5. ASSUME NEW k \in DOMAIN s
      PROVE  s[k].ts = t /\ KindAgrees(s[k])
  <2>1. k \in 1 .. Len(legs) \/ k = Len(legs) + 1
    BY <1>1, <1>4
  <2>. QED
    BY <1>1, <1>3, <2>1 DEF Tell
<1>6. Tell(s, t, TRUE)
  BY <1>4, <1>5 DEF Tell
<1>. QED
  BY <1>6 DEF s

\* A group of liquidity rows of one time.
GroupOf(group, t) ==
  /\ group \in Seq(Rows) /\ 1 \in DOMAIN group
  /\ \A j \in DOMAIN group : group[j].ts = t

LEMMA DepositTells ==
  ASSUME NEW group, NEW t, GroupOf(group, t)
  PROVE  Tell(WaltioDeposit(group), t, TRUE)
<1> DEFINE fee   == FeeOnce(group)
           Leg(j) == [Line("Withdrawal", <<group[j].txid, j, "sent">>, NoFee(OutOnly(group[j])))
                        EXCEPT !.fee = IF j = 1 THEN fee.fee ELSE 0,
                               !.fc  = IF j = 1 THEN fee.fc ELSE NoCurrency]
           all   == [j \in DOMAIN group |-> Leg(j)]
           legs  == AtPlaces(all, {j \in DOMAIN group : HasOut(group[j])})
           total == LpTotal(group, LAMBDA row : row.ra)
           token == [kind |-> "Deposit", id |-> <<group[1].txid, "lp_received">>, ts |-> group[1].ts,
                     rc |-> LastWith(group, HasIn).rc, ra |-> total, sc |-> NoCurrency, sa |-> 0,
                     fc |-> NoCurrency, fee |-> 0]
<1>1. WaltioDeposit(group) = IF total > 0 THEN Append(legs, token) ELSE legs
  BY DEF WaltioDeposit
<1>2. token.ts = t /\ KindAgrees(token)
  BY DEF GroupOf, KindAgrees
<1>. HIDE DEF token, total, fee
<1>3. ASSUME NEW j \in DOMAIN group
      PROVE  Leg(j).ts = t /\ KindAgrees(Leg(j))
  <2>1. group[j] \in Rows /\ group[j].ts = t
    BY DEF GroupOf
  <2>2. NoFee(OutOnly(group[j])).ts = t
    BY <2>1, OneSide
  <2>3. Leg(j).ts = t /\ Leg(j).kind = "Withdrawal"
    BY <2>2 DEF Line
  <2>. HIDE DEF Leg
  <2>. QED
    BY <2>3 DEF KindAgrees
<1>. HIDE DEF Leg
<1>4. IsSeq(all) /\ DOMAIN all = DOMAIN group /\ \A j \in DOMAIN group : all[j] = Leg(j)
  <2>1. DOMAIN group = 1 .. Len(group) /\ Len(group) \in Nat
    BY DEF GroupOf
  <2>2. all \in Seq({Leg(j) : j \in DOMAIN group}) /\ DOMAIN all = DOMAIN group
    BY <2>1
  <2>. QED
    BY <2>2, IsSeqOf
<1>. HIDE DEF all
<1>5. Tell(legs, t, TRUE)
  <2>1. {j \in DOMAIN group : HasOut(group[j])} \in SUBSET (DOMAIN all)
    BY <1>4
  <2>2. \A j \in DOMAIN all : all[j].ts = t /\ KindAgrees(all[j])
    BY <1>3, <1>4
  <2>. QED
    BY <1>4, <2>1, <2>2, LegsTell
<1>. HIDE DEF legs
<1>6. Tell(Append(legs, token), t, TRUE)
  BY <1>2, <1>5, LegsAndToken
<1>. QED
  BY <1>1, <1>5, <1>6

LEMMA WithdrawTells ==
  ASSUME NEW group, NEW t, GroupOf(group, t)
  PROVE  Tell(WaltioWithdraw(group), t, TRUE)
<1> DEFINE fee   == FeeOnce(group)
           Leg(j) == [Line("Deposit", <<group[j].txid, j, "received">>, NoFee(InOnly(group[j])))
                        EXCEPT !.fc = NoCurrency]
           all   == [j \in DOMAIN group |-> Leg(j)]
           legs  == AtPlaces(all, {j \in DOMAIN group : HasIn(group[j])})
           total == LpTotal(group, LAMBDA row : row.sa)
           token == [kind |-> "Withdrawal", id |-> <<group[1].txid, "lp_sent">>, ts |-> group[1].ts,
                     rc |-> NoCurrency, ra |-> 0, sc |-> LastWith(group, HasOut).sc, sa |-> total,
                     fc |-> fee.fc, fee |-> fee.fee]
<1>1. WaltioWithdraw(group) = IF total > 0 THEN Append(legs, token) ELSE legs
  BY DEF WaltioWithdraw
<1>2. token.ts = t /\ KindAgrees(token)
  BY DEF GroupOf, KindAgrees
<1>. HIDE DEF token, total, fee
<1>3. ASSUME NEW j \in DOMAIN group
      PROVE  Leg(j).ts = t /\ KindAgrees(Leg(j))
  <2>1. group[j] \in Rows /\ group[j].ts = t
    BY DEF GroupOf
  <2>2. NoFee(InOnly(group[j])).ts = t
    BY <2>1, OneSide
  <2>3. Leg(j).ts = t /\ Leg(j).kind = "Deposit"
    BY <2>2 DEF Line
  <2>. HIDE DEF Leg
  <2>. QED
    BY <2>3 DEF KindAgrees
<1>. HIDE DEF Leg
<1>4. IsSeq(all) /\ DOMAIN all = DOMAIN group /\ \A j \in DOMAIN group : all[j] = Leg(j)
  <2>1. DOMAIN group = 1 .. Len(group) /\ Len(group) \in Nat
    BY DEF GroupOf
  <2>2. all \in Seq({Leg(j) : j \in DOMAIN group}) /\ DOMAIN all = DOMAIN group
    BY <2>1
  <2>. QED
    BY <2>2, IsSeqOf
<1>. HIDE DEF all
<1>5. Tell(legs, t, TRUE)
  <2>1. {j \in DOMAIN group : HasIn(group[j])} \in SUBSET (DOMAIN all)
    BY <1>4
  <2>2. \A j \in DOMAIN all : all[j].ts = t /\ KindAgrees(all[j])
    BY <1>3, <1>4
  <2>. QED
    BY <1>4, <2>1, <2>2, LegsTell
<1>. HIDE DEF legs
<1>6. Tell(Append(legs, token), t, TRUE)
  BY <1>2, <1>5, LegsAndToken
<1>. QED
  BY <1>1, <1>5, <1>6

\* Rows of one transaction have one time.
Timed(items) ==
  \A i, j \in DOMAIN items : items[i].txid = items[j].txid => items[i].ts = items[j].ts

LEMMA WaltioTells ==
  ASSUME NEW seen \in Seq(Rows), Timed(seen), NEW i \in DOMAIN seen
  PROVE  Tell(WaltioLines(seen, i), seen[i].ts, OneSidedRow(seen[i]))
<1> DEFINE row == seen[i]
           agree == OneSidedRow(row)
           group == WaltioGroup(seen, i)
<1>1. row \in Rows
  OBVIOUS
<1>2. agree \in BOOLEAN
  BY DEF OneSidedRow
<1>3. CASE row.type \notin LpTypes
  <2>1. WaltioLines(seen, i) = <<Line(Kind("waltio", row), <<row.txid>>, row)>>
    BY <1>3 DEF WaltioLines
  <2>. HIDE DEF row
  <2>2. Tell(WaltioLines(seen, i), row.ts, OneSidedRow(row))
    BY <1>1, <2>1, LineTells
  <2>. QED
    BY <2>2 DEF row
<1>4. CASE row.type \in LpTypes
  <2>1. GroupOf(group, row.ts)
    <3> DEFINE places == {j \in DOMAIN seen : seen[j].txid = seen[i].txid /\ seen[j].type = seen[i].type}
    <3>1. PICK n, sel : Picks(group, seen, places, n, sel)
      <4>1. seen \in Seq({seen[k] : k \in DOMAIN seen}) /\ places \in SUBSET (DOMAIN seen)
        OBVIOUS
      <4>2. group = AtPlaces(seen, places)
        BY DEF WaltioGroup
      <4>. HIDE DEF places, group
      <4>. QED
        BY <4>1, <4>2, AtPlacesIs
    <3>2. i \in places /\ \A j \in places : j \in DOMAIN seen /\ seen[j].ts = row.ts
      BY DEF Timed
    <3>. HIDE DEF places, group, row
    <3>3. /\ n \in Nat /\ group = [k \in 1 .. n |-> seen[sel[k]]]
          /\ \A k \in 1 .. n : sel[k] \in places
          /\ \E k \in 1 .. n : sel[k] = i
      BY <3>1, <3>2 DEF Picks
    <3>4. 1 \in 1 .. n
      BY <3>3
    <3>5. /\ group \in Seq(Rows) /\ DOMAIN group = 1 .. n
          /\ \A k \in 1 .. n : group[k].ts = row.ts
      BY <3>2, <3>3
    <3>. QED
      BY <3>4, <3>5 DEF GroupOf
  <2>2. /\ Tell(WaltioDeposit(group), row.ts, TRUE)
        /\ Tell(WaltioWithdraw(group), row.ts, TRUE)
    <3>. HIDE DEF group, row
    <3>. QED
      BY <2>1, DepositTells, WithdrawTells
  <2>3. \/ WaltioLines(seen, i) = << >>
        \/ WaltioLines(seen, i) = WaltioDeposit(group)
        \/ WaltioLines(seen, i) = WaltioWithdraw(group)
    BY <1>4 DEF WaltioLines
  <2>4. Tell(<< >>, row.ts, agree)
    BY <1>2, TellNone
  <2>5. \A lines : Tell(lines, row.ts, TRUE) => Tell(lines, row.ts, agree)
    BY DEF Tell
  <2>. HIDE DEF group, row, agree
  <2>6. Tell(WaltioLines(seen, i), row.ts, agree)
    BY <2>2, <2>3, <2>4, <2>5
  <2>. QED
    BY <2>6 DEF agree, row
<1>. QED
  BY <1>3, <1>4

\* Whatever the format, the lines of a row have its time, and a line that says
\* "in" or "out" of a row of one side says so rightly.
LEMMA LinesOfTell ==
  ASSUME NEW g, NEW seen \in Seq(Rows), Timed(seen), NEW i \in DOMAIN seen
  PROVE  Tell(LinesOf(g, seen, i), seen[i].ts, OneSidedRow(seen[i]))
<1> DEFINE row == seen[i]
           agree == OneSidedRow(row)
<1>1. row \in Rows /\ row.ra \in Nat /\ row.sa \in Nat
  <2>1. row \in Rows
    OBVIOUS
  <2>. QED
    BY <2>1 DEF Rows
<1>2. agree \in BOOLEAN
  BY DEF OneSidedRow
<1>3. ASSUME NEW kind, kind \notin {"in", "out"}, NEW r, r.ts = row.ts
      PROVE  Tell(<<Line(kind, row.txid, r)>>, row.ts, agree)
  <2>1. Line(kind, row.txid, r).kind = kind /\ Line(kind, row.txid, r).ts = row.ts
    BY <1>3 DEF Line
  <2> DEFINE line == Line(kind, row.txid, r)
  <2>. HIDE DEF line, agree, row
  <2>. QED
    BY <1>2, <1>3, <2>1, TellOne DEF KindAgrees, line
<1>4. row.type \notin {"in", "out"}
  BY <1>1 DEF Rows, CommonExportable, CommonHidden, TX_TYPES_CSVEXPORT, TransferLike, LpTypes, Pnl
<1>5. CASE g = "cointracking"
  <2>1. LinesOf(g, seen, i) = CointrackingLines(row)
    BY <1>5 DEF LinesOf
  <2>. QED
    BY <1>1, <2>1, CointrackingTells
<1>6. CASE g = "waltio"
  <2>1. LinesOf(g, seen, i) = WaltioLines(seen, i)
    BY <1>6 DEF LinesOf
  <2>. QED
    BY <2>1, WaltioTells
<1>7. CASE g = "bitcointax"
  <2>1. LinesOf(g, seen, i) = BitcointaxLines(row)
    BY <1>7 DEF LinesOf
  <2>2. \/ BitcointaxLines(row) = << >>
        \/ BitcointaxLines(row) = <<Line(row.type, row.txid, InOnly(row))>>
        \/ BitcointaxLines(row) = <<Line(row.type, row.txid, OutOnly(row))>>
        \/ BitcointaxLines(row) = <<Line(row.type, row.txid, row)>>
    BY DEF BitcointaxLines
  <2>3. InOnly(row).ts = row.ts /\ OutOnly(row).ts = row.ts
    BY <1>1, OneSide
  <2>4. Tell(<< >>, row.ts, agree)
    BY <1>2, TellNone
  <2>. HIDE DEF row, agree
  <2>5. Tell(LinesOf(g, seen, i), row.ts, agree)
    BY <1>3, <1>4, <2>1, <2>2, <2>3, <2>4
  <2>. QED
    BY <2>5 DEF row, agree
<1>8. CASE g = "cryptobooks"
  <2> DEFINE shown == CASE Side(row) \in {"in", "none"} -> InOnly(row)
                        [] Side(row) = "out"            -> OutOnly(row)
                        [] OTHER                        -> row
             line == Line(Side(row), row.txid, shown)
  <2>1. LinesOf(g, seen, i) = <<line>>
    BY <1>8 DEF LinesOf, CryptobooksLine
  <2>2. /\ shown.ts = row.ts
        /\ Side(row) = "in" => shown.sa = 0
        /\ Side(row) = "out" => shown.ra = 0
    <3>1. /\ InOnly(row).ts = row.ts /\ InOnly(row).sa = 0
          /\ OutOnly(row).ts = row.ts /\ OutOnly(row).ra = 0
      BY <1>1, OneSide
    <3>. HIDE DEF row
    <3>. QED
      BY <3>1
  <2>. HIDE DEF shown
  <2>3. line.ts = row.ts /\ KindAgrees(line)
    BY <2>2 DEF Line, KindAgrees
  <2>. HIDE DEF line, agree, row
  <2>4. Tell(LinesOf(g, seen, i), row.ts, agree)
    BY <1>2, <2>1, <2>3, TellOne
  <2>. QED
    BY <2>4 DEF agree, row
<1>9. CASE g = "cryptocom"
  <2>1. LinesOf(g, seen, i) = <<CryptocomLine(seen, i)>>
    BY <1>9 DEF LinesOf
  <2>2. CryptocomLine(seen, i).ts = row.ts /\ CryptocomLine(seen, i).kind \in {"transfer", row.type}
    <3> DEFINE from == ValuesFrom("cryptocom", seen, i)
               amt  == IF HasIn(from) THEN from.ra ELSE from.sa
               cur  == IF HasIn(from) THEN from.rc ELSE from.sc
               both == [row EXCEPT !.ra = amt, !.rc = cur, !.sa = amt, !.sc = cur]
               line == IF row.type \in TransferLike
                       THEN Line("transfer", row.txid, both)
                       ELSE Line(row.type, row.txid, row)
    <3>1. CryptocomLine(seen, i) =
            IF row.type \in {"AIRDROP", "STAKING"} THEN [line EXCEPT !.fee = 0, !.fc = NoCurrency] ELSE line
      BY DEF CryptocomLine
    <3>2. both.ts = row.ts
      BY <1>1 DEF Rows
    <3>. HIDE DEF both, from, row
    <3>3. /\ line.ts = row.ts /\ line.kind \in {"transfer", row.type}
          /\ [line EXCEPT !.fee = 0, !.fc = NoCurrency].ts = row.ts
          /\ [line EXCEPT !.fee = 0, !.fc = NoCurrency].kind \in {"transfer", row.type}
      BY <3>2 DEF Line
    <3>. HIDE DEF line
    <3>. QED
      BY <3>1, <3>3
  <2> DEFINE line == CryptocomLine(seen, i)
  <2>3. KindAgrees(line)
    BY <1>4, <2>2 DEF KindAgrees
  <2>. HIDE DEF line, agree, row
  <2>4. Tell(<<line>>, row.ts, agree)
    BY <1>2, <2>2, <2>3, TellOne DEF line
  <2>. QED
    BY <2>1, <2>4 DEF line, agree, row
<1>10. CASE g \in {"recap", "cointracker"}
  <2> DEFINE from == ValuesFrom(g, seen, i)
             line == Line(Kind(g, from), row.txid, row)
  <2>1. LinesOf(g, seen, i) = <<line>>
    BY <1>10 DEF LinesOf
  <2>2. CASE Undetermined(g, row)
    <3>1. row.ra = 0 /\ row.sa = 0
      BY <1>1, <1>10, <2>2 DEF Undetermined, Side, HasIn, HasOut
    <3>2. line.ts = row.ts /\ line.ra = 0 /\ line.sa = 0
      BY <3>1, LineFields
    <3>. HIDE DEF line, agree, row
    <3>3. Tell(<<line>>, row.ts, agree)
      BY <1>2, <3>2, TellOne DEF KindAgrees
    <3>. QED
      BY <2>1, <3>3 DEF agree, row
  <2>3. CASE ~Undetermined(g, row)
    <3>1. from = row
      BY <2>3 DEF ValuesFrom
    <3>2. LinesOf(g, seen, i) = <<Line(Kind(g, row), row.txid, row)>>
      BY <2>1, <3>1
    <3>. HIDE DEF row
    <3>3. Tell(LinesOf(g, seen, i), row.ts, OneSidedRow(row))
      BY <1>1, <3>2, LineTells
    <3>. QED
      BY <3>3 DEF row
  <2>. QED
    BY <2>2, <2>3
<1>11. CASE g \notin {"cointracking", "waltio", "bitcointax", "cryptobooks", "cryptocom", "recap", "cointracker"}
  <2>1. LinesOf(g, seen, i) = <<Line(Kind(g, row), row.txid, row)>>
    BY <1>11 DEF LinesOf
  <2>. HIDE DEF row
  <2>2. Tell(LinesOf(g, seen, i), row.ts, OneSidedRow(row))
    BY <1>1, <2>1, LineTells
  <2>. QED
    BY <2>2 DEF row
<1>. QED
  BY <1>5, <1>6, <1>7, <1>8, <1>9, <1>10, <1>11

-----------------------------------------------------------------------------
(* Files *)

\* In the order of time, oldest or newest first.
InTime(items, up) ==
  \A i, j \in DOMAIN items :
    i < j => IF up THEN items[i].ts <= items[j].ts ELSE items[i].ts >= items[j].ts

\* What a format sees is as well ordered as the rows are.
LEMMA SeenRows ==
  ASSUME NEW g, NEW items \in Seq(Rows), NEW treat \in LP_TREATMENT_CHOICES
  PROVE  LET seen == RowsExport(g, items, treat)
         IN  /\ seen \in Seq(Rows)
             /\ Timed(items) => Timed(seen)
             /\ \A up \in BOOLEAN : InTime(items, up) => InTime(seen, up)
             /\ (\A k \in DOMAIN items : OneSidedRow(items[k])) => \A k \in DOMAIN seen : OneSidedRow(seen[k])
             /\ \A k \in DOMAIN seen : \E j \in DOMAIN items : SeenAs(seen[k], items[j])
<1> DEFINE seen == RowsExport(g, items, treat)
<1>. HIDE DEF seen
<1>1. PICK n, sel : Sees(seen, items, n, sel)
  BY RowsExportIs DEF seen
<1>2. /\ n \in Nat /\ DOMAIN seen = 1 .. n /\ seen \in Seq({seen[k] : k \in 1 .. n})
      /\ \A k \in 1 .. n : sel[k] \in DOMAIN items /\ SeenAs(seen[k], items[sel[k]])
      /\ \A k, l \in 1 .. n : k < l => sel[k] < sel[l]
  BY <1>1 DEF Sees
<1>3. ASSUME NEW row \in Rows, NEW s, SeenAs(s, row)
      PROVE  /\ s \in Rows /\ s.ts = row.ts /\ s.txid = row.txid
             /\ OneSidedRow(row) => OneSidedRow(s)
  <2>1. CASE s = row
    BY <2>1
  <2>2. CASE s = AsTrade(row)
    <3>1. /\ s \in Rows /\ s.ts = row.ts /\ s.txid = row.txid /\ s.type = "TRADE"
      BY <2>2 DEF AsTrade, Rows, CommonExportable, TX_TYPES_CSVEXPORT
    <3>. QED
      BY <3>1 DEF OneSidedRow, Pnl
  <2>3. CASE s = AsTransferOut(row)
    <3>1. /\ s \in Rows /\ s.ts = row.ts /\ s.txid = row.txid /\ s.type = "TRANSFER" /\ s.ra = 0
      BY <2>3, NamesAssumption DEF AsTransferOut, Rows, CommonExportable, TX_TYPES_CSVEXPORT, TransferLike
    <3>. QED
      BY <3>1 DEF OneSidedRow, Pnl
  <2>4. CASE s = AsTransferIn(row)
    <3>1. /\ s \in Rows /\ s.ts = row.ts /\ s.txid = row.txid /\ s.type = "TRANSFER" /\ s.sa = 0
      BY <2>4, NamesAssumption DEF AsTransferIn, Rows, CommonExportable, TX_TYPES_CSVEXPORT, TransferLike
    <3>. QED
      BY <3>1 DEF OneSidedRow, Pnl
  <2>. QED
    BY <1>3, <2>1, <2>2, <2>3, <2>4 DEF SeenAs
<1>4. ASSUME NEW k \in 1 .. n
      PROVE  /\ sel[k] \in DOMAIN items
             /\ seen[k] \in Rows /\ seen[k].ts = items[sel[k]].ts /\ seen[k].txid = items[sel[k]].txid
             /\ OneSidedRow(items[sel[k]]) => OneSidedRow(seen[k])
  <2>1. items[sel[k]] \in Rows /\ SeenAs(seen[k], items[sel[k]]) /\ sel[k] \in DOMAIN items
    BY <1>2
  <2>. QED
    BY <1>3, <2>1
<1>5. seen \in Seq(Rows)
  <2>1. seen = [k \in 1 .. n |-> seen[k]]
    BY <1>2
  <2>2. seen \in [1 .. n -> Rows]
    BY <1>4, <2>1
  <2>. QED
    BY <1>2, <2>2
<1>6. Timed(items) => Timed(seen)
  <2>. SUFFICES ASSUME Timed(items), NEW k \in DOMAIN seen, NEW l \in DOMAIN seen,
                       seen[k].txid = seen[l].txid
                PROVE  seen[k].ts = seen[l].ts
    BY DEF Timed
  <2>1. k \in 1 .. n /\ l \in 1 .. n
    BY <1>2
  <2>2. items[sel[k]].txid = items[sel[l]].txid /\ sel[k] \in DOMAIN items /\ sel[l] \in DOMAIN items
    BY <1>4, <2>1
  <2>3. items[sel[k]].ts = items[sel[l]].ts
    BY <2>2 DEF Timed
  <2>. QED
    BY <1>4, <2>1, <2>3
<1>7. \A up \in BOOLEAN : InTime(items, up) => InTime(seen, up)
  BY <1>2, <1>4 DEF InTime
<1>8. (\A k \in DOMAIN items : OneSidedRow(items[k])) => \A k \in DOMAIN seen : OneSidedRow(seen[k])
  BY <1>2, <1>4
<1>9. \A k \in DOMAIN seen : \E j \in DOMAIN items : SeenAs(seen[k], items[j])
  BY <1>2
<1>. QED
  BY <1>5, <1>6, <1>7, <1>8, <1>9 DEF seen

\* The lines of a file are in the order of the rows, and their kinds agree with them.
LEMMA FileTells ==
  ASSUME NEW f, NEW items \in Seq(Rows), Timed(items), NEW treat \in LP_TREATMENT_CHOICES,
         NEW up \in BOOLEAN, InTime(items, up), Delegate(f) # "balances"
  PROVE  LET lines == Lines(f, items, treat)
         IN  /\ IsSeq(lines) /\ InTime(lines, up)
             /\ (\A k \in DOMAIN items : OneSidedRow(items[k])) => \A k \in DOMAIN lines : KindAgrees(lines[k])
<1> DEFINE g == Delegate(f)
           seen == RowsExport(g, items, treat)
           parts == [i \in DOMAIN seen |-> LinesOf(g, seen, i)]
           lines == Lines(f, items, treat)
<1>1. lines = FlattenSeq(parts)
  BY DEF Lines
<1>2. /\ seen \in Seq(Rows) /\ Timed(seen) /\ InTime(seen, up)
      /\ (\A k \in DOMAIN items : OneSidedRow(items[k])) => \A k \in DOMAIN seen : OneSidedRow(seen[k])
  <2>. HIDE DEF g
  <2>. QED
    BY SeenRows
<1>. HIDE DEF g, seen
<1> DEFINE n == Len(seen)
<1>3. n \in Nat /\ DOMAIN seen = 1 .. n
  BY <1>2
<1>4. \A i \in 1 .. n : Tell(parts[i], seen[i].ts, OneSidedRow(seen[i]))
  BY <1>2, <1>3, LinesOfTell
<1>5. IsSeq(parts) /\ Len(parts) = n
  <2>1. parts \in Seq({LinesOf(g, seen, i) : i \in 1 .. n}) /\ DOMAIN parts = 1 .. n
    BY <1>3
  <2>. HIDE DEF parts, n
  <2>. QED
    BY <1>3, <2>1, IsSeqOf
<1>. HIDE DEF parts, n, lines
<1>6. ComesFrom(lines, parts, n)
  <2>1. \A i \in 1 .. n : IsSeq(parts[i])
    BY <1>4 DEF Tell
  <2>. QED
    BY <1>1, <1>5, <2>1, Flattened
<1>7. InTime(lines, up)
  <2>. SUFFICES ASSUME NEW k \in DOMAIN lines, NEW l \in DOMAIN lines, k < l
                PROVE  IF up THEN lines[k].ts <= lines[l].ts ELSE lines[k].ts >= lines[l].ts
    BY DEF InTime
  <2>1. PICK o, p \in 1 .. n : /\ o <= p
                               /\ \E a \in DOMAIN parts[o] : lines[k] = parts[o][a]
                               /\ \E b \in DOMAIN parts[p] : lines[l] = parts[p][b]
    BY <1>6 DEF ComesFrom
  <2>2. lines[k].ts = seen[o].ts /\ lines[l].ts = seen[p].ts
    BY <1>4, <2>1 DEF Tell
  <2>3. seen[o].ts \in Nat /\ seen[p].ts \in Nat
    <3>1. seen[o] \in Rows /\ seen[p] \in Rows
      BY <1>2, <1>3
    <3>. QED
      BY <3>1 DEF Rows
  <2>4. o < p \/ o = p
    BY <1>3, <2>1
  <2>5. o < p => IF up THEN seen[o].ts <= seen[p].ts ELSE seen[o].ts >= seen[p].ts
    BY <1>2, <1>3 DEF InTime
  <2>. QED
    BY <2>2, <2>3, <2>4, <2>5
<1>8. ASSUME \A k \in DOMAIN items : OneSidedRow(items[k]), NEW k \in DOMAIN lines
      PROVE  KindAgrees(lines[k])
  <2>1. PICK o \in 1 .. n : \E a \in DOMAIN parts[o] : lines[k] = parts[o][a]
    BY <1>6 DEF ComesFrom
  <2>2. OneSidedRow(seen[o])
    BY <1>2, <1>3, <1>8
  <2>. QED
    BY <1>4, <2>1, <2>2 DEF Tell
<1>. QED
  BY <1>6, <1>7, <1>8 DEF ComesFrom, lines

\* The balances are written newest first from rows that are oldest first.
LEMMA BalancesTell ==
  ASSUME NEW items \in Seq(Rows), NEW treat \in LP_TREATMENT_CHOICES, InTime(items, TRUE)
  PROVE  InTime(Lines("balances", items, treat), FALSE)
<1> DEFINE seen == RowsExport("balances", items, treat)
           each == [n \in DOMAIN seen |-> [ts |-> seen[n].ts, id |-> seen[n].txid, held |-> Holdings(seen, n)]]
           lines == Lines("balances", items, treat)
<1>1. lines = Reverse(each)
  BY DEF Lines, Delegate, BalancesLines
<1>2. seen \in Seq(Rows) /\ InTime(seen, TRUE)
  BY SeenRows
<1>. HIDE DEF seen
<1> DEFINE m == Len(seen)
<1>3. m \in Nat /\ DOMAIN seen = 1 .. m
  BY <1>2
<1>4. Len(each) = m /\ \A k \in 1 .. m : each[k].ts = seen[k].ts
  BY <1>3
<1>. HIDE DEF each, m, lines
<1>5. lines = [k \in 1 .. m |-> each[(m - k) + 1]]
  BY <1>1, <1>4 DEF Reverse
<1>6. ASSUME NEW k \in 1 .. m, NEW l \in 1 .. m, k < l
      PROVE  lines[k].ts >= lines[l].ts
  <2>1. (m - k) + 1 \in 1 .. m /\ (m - l) + 1 \in 1 .. m /\ (m - l) + 1 < (m - k) + 1
    BY <1>3, <1>6
  <2>2. lines[k].ts = seen[(m - k) + 1].ts /\ lines[l].ts = seen[(m - l) + 1].ts
    BY <1>4, <1>5, <2>1
  <2>3. seen[(m - k) + 1].ts \in Nat /\ seen[(m - l) + 1].ts \in Nat
    <3>1. seen[(m - k) + 1] \in Rows /\ seen[(m - l) + 1] \in Rows
      BY <1>2, <1>3, <2>1
    <3>. QED
      BY <3>1 DEF Rows
  <2>4. seen[(m - l) + 1].ts <= seen[(m - k) + 1].ts
    BY <1>2, <1>3, <2>1 DEF InTime
  <2>. QED
    BY <2>2, <2>3, <2>4
<1>7. InTime(lines, FALSE)
  BY <1>5, <1>6 DEF InTime
<1>. QED
  BY <1>7 DEF lines

\* The default CSV has a line for every row, of the type of the row.
LEMMA DefaultLines ==
  ASSUME NEW items \in Seq(Rows), NEW treat
  PROVE  Lines("default", items, treat)
           = [i \in 1 .. Len(items) |-> Line(items[i].type, items[i].txid, items[i])]
<1> DEFINE item == [i \in 1 .. Len(items) |-> Line(items[i].type, items[i].txid, items[i])]
<1>1. Len(items) \in Nat /\ DOMAIN items = 1 .. Len(items)
  OBVIOUS
<1>2. RowsExport("default", items, treat) = items
  BY DefaultSeesAll
<1>3. \A i \in 1 .. Len(items) : LinesOf("default", items, i) = <<item[i]>>
  <2>1. \A row : Kind("default", row) = row.type
    BY DEF Kind, TransferKind, PlainTransferKind, PnlKind
  <2>. QED
    BY <2>1 DEF LinesOf
<1>4. Lines("default", items, treat) = FlattenSeq([i \in 1 .. Len(items) |-> LinesOf("default", items, i)])
  BY <1>1, <1>2 DEF Lines, Delegate
<1>5. [i \in 1 .. Len(items) |-> LinesOf("default", items, i)] = [i \in 1 .. Len(items) |-> <<item[i]>>]
  <2>. HIDE DEF item
  <2>. QED
    BY <1>3
<1>6. FlattenSeq([i \in 1 .. Len(items) |-> <<item[i]>>]) = [i \in 1 .. Len(items) |-> item[i]]
  <2>. HIDE DEF item
  <2>. QED
    BY <1>1, FlattenSingles
<1>7. [i \in 1 .. Len(items) |-> item[i]] = item
  OBVIOUS
<1>. HIDE DEF item
<1>8. Lines("default", items, treat) = item
  BY <1>4, <1>5, <1>6, <1>7
<1>. QED
  BY <1>8 DEF item

-----------------------------------------------------------------------------
(* The order of the files, and the reload of the default CSV *)

TypeInv ==
  /\ pc \in {"process", "report", "export", "done", "raised"}
  /\ rows \in Seq(Rows)
  /\ ingested \in Seq(Rows)
  /\ isReverse \in {"None", "True", "False"}
  /\ lp \in LP_TREATMENT_CHOICES
  /\ todo \in Seq(Formats) /\ Len(todo) <= Len(FORMATS)
  /\ reloaded \in BOOLEAN
  /\ file = [format |-> file.format, lines |-> file.lines]

\* The memo of the direction tells the truth, and rows of one transaction share
\* its time.
RowsInv ==
  /\ Timed(rows)
  /\ isReverse = "True" => InTime(rows, FALSE)
  /\ isReverse = "False" => InTime(rows, TRUE)
  /\ pc = "process" => isReverse = "None"

\* What the default CSV is made of.
DefaultFile(items) ==
  /\ items \in Seq(Rows) /\ Timed(items) /\ InTime(items, FALSE)
  /\ file.lines = [i \in 1 .. Len(items) |-> Line(items[i].type, items[i].txid, items[i])]

FileInv ==
  /\ FilesInOrder
  /\ file.format = "default" => \E items : DefaultFile(items)

\* Before the first file of a reload is written again.
ReloadInv ==
  /\ reloaded => pc \notin {"process", "report"}
  /\ reloaded /\ todo = FORMATS =>
       /\ file.format = "default" /\ isReverse = "None"
       /\ rows = [i \in DOMAIN file.lines |-> RowOfLine(file.lines[i], i)]

OrderInv == TypeInv /\ RowsInv /\ FileInv /\ ReloadInv

LEMMA FormatsType == FORMATS \in Seq(Formats) /\ Len(FORMATS) = 26 /\ FORMATS[1] = "default"
<1>1. /\ Len(FORMATS) = 26 /\ FORMATS[1] = "default" /\ DOMAIN FORMATS = 1 .. 26
      /\ FORMATS = [i \in 1 .. 26 |-> FORMATS[i]]
  BY DEF FORMATS
<1>2. FORMATS \in [1 .. 26 -> Formats]
  <2>. HIDE DEF FORMATS
  <2>1. \A i \in 1 .. 26 : FORMATS[i] \in Formats
    BY <1>1 DEF Formats
  <2>. QED
    BY <1>1, <2>1
<1>. QED
  BY <1>1, <1>2

\* sort_rows, with its memo: the rows are in the order asked for, whether they
\* are sorted again or not.
LEMMA SortRowsIs ==
  ASSUME TypeInv, RowsInv, NEW reverse \in BOOLEAN
  PROVE  LET s == SortRows(reverse)
         IN  /\ s \in Seq(Rows) /\ Timed(s) /\ InTime(s, ~reverse)
             /\ \A k \in DOMAIN s : \E i \in DOMAIN rows : s[k] = rows[i]
<1>1. rows \in Seq(Rows) /\ Timed(rows) /\ isReverse \in {"None", "True", "False"}
  BY DEF TypeInv, RowsInv
<1>2. CASE isReverse = Direction(reverse)
  <2>1. SortRows(reverse) = rows
    BY <1>2 DEF SortRows
  <2>2. InTime(rows, ~reverse)
    BY <1>2 DEF RowsInv, Direction
  <2>. QED
    BY <1>1, <2>1, <2>2
<1>3. CASE isReverse # Direction(reverse)
  <2> DEFINE s == Sorted(rows, reverse)
             n == Len(rows)
  <2>1. SortRows(reverse) = s
    BY <1>3 DEF SortRows
  <2>2. /\ s \in Seq(Rows) /\ Len(s) = n
        /\ \A k \in 1 .. n : \E i \in 1 .. n : s[k] = rows[i]
        /\ \A k, l \in 1 .. n :
             k < l => IF reverse THEN s[k].ts >= s[l].ts ELSE s[k].ts <= s[l].ts
    BY <1>1, SortedOrder
  <2>3. n \in Nat /\ DOMAIN rows = 1 .. n
    BY <1>1
  <2>. HIDE DEF s, n
  <2>4. DOMAIN s = 1 .. n
    BY <2>2
  <2>5. Timed(s)
    <3>. SUFFICES ASSUME NEW k \in 1 .. n, NEW l \in 1 .. n, s[k].txid = s[l].txid
                  PROVE  s[k].ts = s[l].ts
      BY <2>4 DEF Timed
    <3>1. PICK i \in 1 .. n : s[k] = rows[i]
      BY <2>2
    <3>2. PICK j \in 1 .. n : s[l] = rows[j]
      BY <2>2
    <3>. QED
      BY <1>1, <2>3, <3>1, <3>2 DEF Timed
  <2>6. InTime(s, ~reverse)
    BY <2>2, <2>4 DEF InTime
  <2>. QED
    BY <2>1, <2>2, <2>3, <2>4, <2>5, <2>6
<1>. QED
  BY <1>2, <1>3

LEMMA OrderInit == Init => OrderInv
<1>. SUFFICES ASSUME Init PROVE OrderInv
  OBVIOUS
<1>1. TypeInv
  <2>1. << >> \in Seq(Rows) /\ << >> \in Seq(Formats) /\ Len(<< >>) = 0
    OBVIOUS
  <2>2. Len(FORMATS) = 26
    BY FormatsType
  <2>3. todo \in Seq(Formats) /\ Len(todo) <= Len(FORMATS)
    BY <2>1, <2>2 DEF Init
  <2>4. file = [format |-> file.format, lines |-> file.lines]
    BY DEF Init, NoFile
  <2>5. lp \in LP_TREATMENT_CHOICES
    BY ExporterAssumption DEF Init
  <2>. QED
    BY <2>1, <2>3, <2>4, <2>5 DEF Init, TypeInv
<1>2. RowsInv
  BY DEF Init, RowsInv, Timed, InTime
<1>3. FileInv
  BY DEF Init, FileInv, FilesInOrder, NoFile
<1>4. ReloadInv
  BY DEF Init, ReloadInv
<1>. QED
  BY <1>1, <1>2, <1>3, <1>4 DEF OrderInv

LEMMA IngestOrder == OrderInv /\ IngestTx => OrderInv'
<1>. SUFFICES ASSUME OrderInv, IngestTx PROVE OrderInv'
  OBVIOUS
<1>1. TypeInv /\ RowsInv /\ FileInv /\ ReloadInv
  BY DEF OrderInv
<1>2. PICK tx \in Txs, t \in Times :
        /\ \A i \in DOMAIN rows : rows[i].txid # tx[1].txid
        /\ rows' = rows \o [i \in DOMAIN tx |-> [tx[i] EXCEPT !.ts = t]]
        /\ ingested' = ingested \o [i \in DOMAIN tx |-> [tx[i] EXCEPT !.ts = t]]
  BY DEF IngestTx
<1> DEFINE new == [i \in DOMAIN tx |-> [tx[i] EXCEPT !.ts = t]]
           n == Len(rows)
<1>3. /\ tx \in Seq(Rows) /\ t \in Nat /\ \A i \in DOMAIN tx : tx[i].txid = tx[1].txid
  BY ExporterAssumption
<1>4. /\ new \in Seq(Rows) /\ DOMAIN new = 1 .. Len(tx) /\ Len(new) = Len(tx) /\ Len(tx) \in Nat
      /\ \A i \in DOMAIN new : new[i].ts = t /\ new[i].txid = tx[1].txid
  <2>1. Len(tx) \in Nat /\ DOMAIN tx = 1 .. Len(tx)
    BY <1>3
  <2>2. ASSUME NEW i \in DOMAIN tx
        PROVE  /\ [tx[i] EXCEPT !.ts = t] \in Rows
               /\ [tx[i] EXCEPT !.ts = t].ts = t /\ [tx[i] EXCEPT !.ts = t].txid = tx[1].txid
    <3>1. tx[i] \in Rows /\ tx[i].txid = tx[1].txid
      BY <1>3
    <3>. QED
      BY <1>3, <3>1 DEF Rows
  <2>3. new \in [1 .. Len(tx) -> Rows] /\ DOMAIN new = 1 .. Len(tx)
    BY <2>1, <2>2
  <2>4. \A i \in DOMAIN new : new[i].ts = t /\ new[i].txid = tx[1].txid
    BY <2>1, <2>2
  <2>. HIDE DEF new
  <2>. QED
    BY <2>1, <2>3, <2>4
<1>. HIDE DEF new
<1>5. rows \in Seq(Rows) /\ ingested \in Seq(Rows) /\ n \in Nat /\ DOMAIN rows = 1 .. n
  BY <1>1 DEF TypeInv
<1>6. rows' = rows \o new /\ ingested' = ingested \o new
  BY <1>2 DEF new
<1>7. UNCHANGED <<pc, isReverse, lp, todo, file, reloaded>> /\ pc = "process"
  BY DEF IngestTx
<1>8. TypeInv'
  <2>1. rows' \in Seq(Rows) /\ ingested' \in Seq(Rows)
    BY <1>4, <1>5, <1>6
  <2>. QED
    BY <1>1, <1>7, <2>1 DEF TypeInv
<1>9. RowsInv'
  <2> DEFINE r == rows'
  <2>1. /\ DOMAIN r = 1 .. (n + Len(new))
        /\ \A k \in 1 .. n : r[k] = rows[k]
        /\ \A k \in (n + 1) .. (n + Len(new)) : k - n \in DOMAIN new /\ r[k] = new[k - n]
    <3>1. IsSeq(rows) /\ IsSeq(new)
      BY <1>4, <1>5, IsSeqOf
    <3>. QED
      BY <1>6, <3>1, Joined
  <2>. HIDE DEF r, n
  <2>2. ASSUME NEW k \in DOMAIN r
        PROVE  \/ k \in DOMAIN rows /\ r[k] = rows[k] /\ r[k].txid # tx[1].txid
               \/ k \notin DOMAIN rows /\ r[k].ts = t /\ r[k].txid = tx[1].txid
    <3>1. k \in 1 .. n \/ (k \in (n + 1) .. (n + Len(new)) /\ k \notin 1 .. n)
      BY <1>4, <1>5, <2>1
    <3>2. CASE k \in 1 .. n
      BY <1>2, <1>5, <2>1, <3>2
    <3>3. CASE k \in (n + 1) .. (n + Len(new)) /\ k \notin 1 .. n
      <4>1. k - n \in DOMAIN new /\ r[k] = new[k - n] /\ k \notin DOMAIN rows
        BY <1>5, <2>1, <3>3
      <4>. QED
        BY <1>4, <4>1
    <3>. QED
      BY <3>1, <3>2, <3>3
  <2>3. Timed(r)
    <3>. SUFFICES ASSUME NEW k \in DOMAIN r, NEW l \in DOMAIN r, r[k].txid = r[l].txid
                  PROVE  r[k].ts = r[l].ts
      BY DEF Timed
    <3>. QED
      BY <1>1, <2>2 DEF RowsInv, Timed
  <2>4. isReverse = "None" /\ isReverse' = "None"
    BY <1>1, <1>7 DEF RowsInv
  <2>5. Timed(rows)' = Timed(r)
    BY DEF Timed, r
  <2>. QED
    BY <2>3, <2>4, <2>5 DEF RowsInv
<1>10. FileInv'
  BY <1>1, <1>7 DEF FileInv, FilesInOrder, DefaultFile
<1>11. ReloadInv'
  BY <1>1, <1>7 DEF ReloadInv
<1>. QED
  BY <1>8, <1>9, <1>10, <1>11 DEF OrderInv

\* Alloyed symbols do not matter to the order.
LEMMA Converted ==
  ASSUME NEW items \in Seq(Rows)
  PROVE  /\ ConvertAlloyed(items) \in Seq(Rows)
         /\ DOMAIN ConvertAlloyed(items) = DOMAIN items
         /\ \A i \in DOMAIN items :
              LET row == ConvertAlloyed(items)[i]
              IN  /\ row.ts = items[i].ts /\ row.txid = items[i].txid /\ row.type = items[i].type
                  /\ row.ra = items[i].ra /\ row.sa = items[i].sa
<1> DEFINE c == ConvertAlloyed(items)
           Changed(row) == [row EXCEPT !.rc = Unalloyed(@), !.sc = Unalloyed(@), !.fc = Unalloyed(@)]
<1>1. c = [i \in DOMAIN items |-> Changed(items[i])]
  BY DEF ConvertAlloyed
<1>2. ASSUME NEW row \in Rows
      PROVE  /\ Changed(row) \in Rows
             /\ Changed(row).ts = row.ts /\ Changed(row).txid = row.txid /\ Changed(row).type = row.type
             /\ Changed(row).ra = row.ra /\ Changed(row).sa = row.sa
  <2>1. \A x \in Currencies : Unalloyed(x) \in Currencies
    BY NamesAssumption DEF Unalloyed
  <2>. QED
    BY <2>1 DEF Rows
<1>. HIDE DEF Changed, c
<1>3. DOMAIN items = 1 .. Len(items) /\ Len(items) \in Nat /\ \A i \in DOMAIN items : items[i] \in Rows
  OBVIOUS
<1>4. c \in [1 .. Len(items) -> Rows]
  BY <1>1, <1>2, <1>3
<1>5. c \in Seq(Rows) /\ DOMAIN c = DOMAIN items
  BY <1>3, <1>4
<1>6. \A i \in DOMAIN items : /\ c[i].ts = items[i].ts /\ c[i].txid = items[i].txid
                              /\ c[i].type = items[i].type
                              /\ c[i].ra = items[i].ra /\ c[i].sa = items[i].sa
  BY <1>1, <1>2, <1>3
<1>. QED
  BY <1>5, <1>6 DEF c

\* Rows that keep their places, times and txids keep their order.
LEMMA SameOrder ==
  ASSUME NEW a, NEW b, DOMAIN a = DOMAIN b,
         \A i \in DOMAIN a : a[i].ts = b[i].ts /\ a[i].txid = b[i].txid
  PROVE  /\ Timed(b) => Timed(a)
         /\ \A up \in BOOLEAN : InTime(b, up) => InTime(a, up)
  BY DEF Timed, InTime

LEMMA FinishHistoryOrder == OrderInv /\ FinishHistory => OrderInv'
<1>. SUFFICES ASSUME OrderInv, FinishHistory PROVE OrderInv'
  OBVIOUS
<1>1. TypeInv /\ RowsInv /\ FileInv /\ ReloadInv
  BY DEF OrderInv
<1>2. pc = "process" /\ pc' = "report" /\ UNCHANGED <<lp, todo, file, reloaded>>
  BY DEF FinishHistory
<1>3. FileInv' /\ ReloadInv'
  BY <1>1, <1>2 DEF FileInv, FilesInOrder, DefaultFile, ReloadInv
<1>4. CASE UNCHANGED <<rows, isReverse, ingested>>
  BY <1>1, <1>2, <1>3, <1>4 DEF OrderInv, TypeInv, RowsInv, Timed, InTime
<1>5. CASE /\ rows' = ConvertAlloyed(SortRows(TRUE))
           /\ ingested' = ConvertAlloyed(ingested)
           /\ isReverse' = "True"
  <2> DEFINE s == SortRows(TRUE)
             r == ConvertAlloyed(s)
  <2>1. s \in Seq(Rows) /\ Timed(s) /\ InTime(s, FALSE)
    BY <1>1, SortRowsIs
  <2>. HIDE DEF s
  <2>2. /\ r \in Seq(Rows) /\ DOMAIN r = DOMAIN s
        /\ \A i \in DOMAIN r : r[i].ts = s[i].ts /\ r[i].txid = s[i].txid
    BY <2>1, Converted
  <2>3. ConvertAlloyed(ingested) \in Seq(Rows)
    BY <1>1, Converted DEF TypeInv
  <2>. HIDE DEF r
  <2>4. Timed(r) /\ InTime(r, FALSE)
    BY <2>1, <2>2, SameOrder
  <2>5. rows' = r
    BY <1>5 DEF r, s
  <2>6. TypeInv'
    BY <1>1, <1>2, <1>5, <2>2, <2>3, <2>5 DEF TypeInv
  <2>7. RowsInv'
    BY <1>2, <1>5, <2>4, <2>5 DEF RowsInv, Timed, InTime
  <2>. QED
    BY <1>3, <2>6, <2>7 DEF OrderInv
<1>. QED
  BY <1>4, <1>5 DEF FinishHistory

LEMMA StartExportOrder == OrderInv /\ StartExport => OrderInv'
<1>. SUFFICES ASSUME OrderInv, StartExport PROVE OrderInv'
  OBVIOUS
<1>1. TypeInv /\ RowsInv /\ FileInv /\ ReloadInv
  BY DEF OrderInv
<1>2. /\ pc = "report" /\ pc' = "export" /\ rows' = SortRows(TRUE) /\ isReverse' = "True"
      /\ UNCHANGED <<lp, file, reloaded, ingested>>
      /\ todo' \in {<<f>> : f \in Formats} \cup {FORMATS}
  BY DEF StartExport
<1> DEFINE s == SortRows(TRUE)
<1>3. s \in Seq(Rows) /\ Timed(s) /\ InTime(s, FALSE)
  BY <1>1, SortRowsIs
<1>. HIDE DEF s
<1>4. todo' \in Seq(Formats) /\ Len(todo') <= Len(FORMATS)
  <2>1. CASE todo' = FORMATS
    BY <2>1, FormatsType
  <2>2. ASSUME NEW f \in Formats, todo' = <<f>>
        PROVE  todo' \in Seq(Formats) /\ Len(todo') <= Len(FORMATS)
    <3>1. <<f>> \in Seq(Formats) /\ Len(<<f>>) = 1
      OBVIOUS
    <3>. QED
      BY <2>2, <3>1, FormatsType
  <2>. QED
    BY <1>2, <2>1, <2>2
<1>5. TypeInv'
  BY <1>1, <1>2, <1>3, <1>4 DEF TypeInv, s
<1>6. RowsInv'
  <2>1. rows' = s
    BY <1>2 DEF s
  <2>. QED
    BY <1>2, <1>3, <2>1 DEF RowsInv, Timed, InTime
<1>7. FileInv'
  BY <1>1, <1>2 DEF FileInv, FilesInOrder, DefaultFile
<1>8. ReloadInv'
  BY <1>1, <1>2 DEF ReloadInv
<1>. QED
  BY <1>5, <1>6, <1>7, <1>8 DEF OrderInv

\* What export_cryptobooks_csv does to a row in place.
LEMMA AfterExportIs ==
  ASSUME NEW f, NEW row \in Rows
  PROVE  LET edited == AfterExport(f, row)
         IN  /\ edited \in Rows /\ edited.ts = row.ts /\ edited.txid = row.txid
             /\ edited.type = row.type /\ edited.ra = row.ra /\ edited.sa = row.sa
  BY DEF AfterExport, Rows

\* An export leaves the rows in the order its format wants.
LEMMA ExportRowsOrder ==
  ASSUME TypeInv, RowsInv, NEW f, NEW reverse \in BOOLEAN
  PROVE  LET s == SortRows(reverse)
             r == [i \in DOMAIN s |-> AfterExport(f, s[i])]
         IN  /\ r \in Seq(Rows) /\ Timed(r) /\ InTime(r, ~reverse)
             /\ \A k \in DOMAIN r :
                  \E i \in DOMAIN rows :
                    r[k].type = rows[i].type /\ r[k].ra = rows[i].ra /\ r[k].sa = rows[i].sa
<1> DEFINE s == SortRows(reverse)
           r == [i \in DOMAIN s |-> AfterExport(f, s[i])]
<1>1. /\ s \in Seq(Rows) /\ Timed(s) /\ InTime(s, ~reverse)
      /\ \A k \in DOMAIN s : \E i \in DOMAIN rows : s[k] = rows[i]
  BY SortRowsIs
<1>. HIDE DEF s
<1>2. Len(s) \in Nat /\ DOMAIN s = 1 .. Len(s) /\ \A i \in DOMAIN s : s[i] \in Rows
  BY <1>1
<1>3. /\ DOMAIN r = DOMAIN s
      /\ \A i \in DOMAIN r : r[i] = AfterExport(f, s[i])
  OBVIOUS
<1>4. \A i \in DOMAIN r : /\ r[i] \in Rows /\ r[i].ts = s[i].ts /\ r[i].txid = s[i].txid
                          /\ r[i].type = s[i].type /\ r[i].ra = s[i].ra /\ r[i].sa = s[i].sa
  <2>. HIDE DEF r
  <2>. QED
    BY <1>2, <1>3, AfterExportIs
<1>5. r \in Seq(Rows)
  <2>1. r = [i \in 1 .. Len(s) |-> r[i]]
    BY <1>2
  <2>. HIDE DEF r
  <2>2. r \in [1 .. Len(s) -> Rows]
    BY <1>2, <1>3, <1>4, <2>1
  <2>. QED
    BY <1>2, <2>2
<1>. HIDE DEF r
<1>6. Timed(r) /\ InTime(r, ~reverse)
  BY <1>1, <1>3, <1>4, SameOrder
<1>. QED
  BY <1>1, <1>3, <1>4, <1>5, <1>6 DEF r, s

\* The balances are the only file whose lines go the other way than its rows.
LEMMA FileInOrder ==
  ASSUME NEW f, NEW items \in Seq(Rows), Timed(items), NEW treat \in LP_TREATMENT_CHOICES,
         IF Delegate(f) \in OldestFirst THEN InTime(items, TRUE) ELSE InTime(items, FALSE)
  PROVE  IF Delegate(f) \in OldestFirst \ {"balances"}
         THEN InTime(Lines(f, items, treat), TRUE) ELSE InTime(Lines(f, items, treat), FALSE)
<1>1. ASSUME Delegate(f) # "balances", NEW up \in BOOLEAN, InTime(items, up)
      PROVE  InTime(Lines(f, items, treat), up)
  BY <1>1, FileTells
<1>2. CASE Delegate(f) # "balances"
  BY <1>1, <1>2
<1>3. CASE Delegate(f) = "balances"
  <2>1. f = "balances"
    BY <1>3 DEF Delegate
  <2>2. InTime(items, TRUE)
    BY <1>3 DEF OldestFirst
  <2>3. InTime(Lines("balances", items, treat), FALSE)
    BY <2>2, BalancesTell
  <2>. QED
    BY <1>3, <2>1, <2>3
<1>. QED
  BY <1>2, <1>3

\* Writing the default CSV never raises, so a reload always gets past it.
LEMMA DefaultNeverRaises ==
  ASSUME NEW items, NEW treat
  PROVE  ~ExportRaises("default", items, treat)
  BY DEF ExportRaises, Delegate, TakesAllRows

LEMMA ExportOrder == OrderInv /\ Export => OrderInv'
<1>. SUFFICES ASSUME OrderInv, Export PROVE OrderInv'
  OBVIOUS
<1>1. TypeInv /\ RowsInv /\ FileInv /\ ReloadInv
  BY DEF OrderInv
<1> DEFINE f       == Head(todo)
           reverse == Delegate(f) \notin OldestFirst
           s       == SortRows(reverse)
           r       == [i \in DOMAIN s |-> AfterExport(f, s[i])]
<1>2. /\ pc = "export" /\ todo # << >>
      /\ isReverse' = Direction(reverse) /\ rows' = r
      /\ UNCHANGED <<lp, reloaded, ingested>>
      /\ IF ExportRaises(f, s, lp)
         THEN pc' = "raised" /\ UNCHANGED <<todo, file>>
         ELSE /\ file' = [format |-> f, lines |-> Lines(f, s, lp)]
              /\ todo' = Tail(todo)
              /\ UNCHANGED pc
  BY DEF Export
<1>3. f \in Formats /\ Tail(todo) \in Seq(Formats) /\ Len(Tail(todo)) < Len(FORMATS)
  <2>1. todo \in Seq(Formats) /\ Len(todo) <= Len(FORMATS) /\ Len(FORMATS) \in Nat
    BY <1>1, FormatsType DEF TypeInv
  <2>2. Len(todo) > 0 /\ Len(Tail(todo)) = Len(todo) - 1
    BY <1>2, <2>1
  <2>. QED
    BY <2>1, <2>2
<1>4. reverse \in BOOLEAN
  OBVIOUS
<1>. HIDE DEF reverse, f
<1>5. /\ s \in Seq(Rows) /\ Timed(s) /\ InTime(s, ~reverse)
  BY <1>1, <1>4, SortRowsIs
<1>6. /\ r \in Seq(Rows) /\ Timed(r) /\ InTime(r, ~reverse)
  BY <1>1, <1>4, ExportRowsOrder
<1>. HIDE DEF s, r
<1>7. lp \in LP_TREATMENT_CHOICES
  BY <1>1 DEF TypeInv
<1>8. TypeInv'
  <2>1. isReverse' \in {"None", "True", "False"}
    BY <1>2 DEF Direction
  <2>2. pc' \in {"process", "report", "export", "done", "raised"}
    BY <1>1, <1>2 DEF TypeInv
  <2>3. todo' \in Seq(Formats) /\ Len(todo') <= Len(FORMATS)
    <3>1. Len(Tail(todo)) \in Nat /\ Len(FORMATS) \in Nat
      BY <1>3, FormatsType
    <3>2. todo' = todo \/ todo' = Tail(todo)
      BY <1>2
    <3>3. todo \in Seq(Formats) /\ Len(todo) <= Len(FORMATS)
      BY <1>1 DEF TypeInv
    <3>. QED
      BY <1>3, <3>1, <3>2, <3>3
  <2>4. file' = [format |-> file'.format, lines |-> file'.lines]
    BY <1>1, <1>2 DEF TypeInv
  <2>. QED
    BY <1>1, <1>2, <1>6, <2>1, <2>2, <2>3, <2>4 DEF TypeInv
<1>9. RowsInv'
  <2>1. /\ isReverse' = "True" => reverse
        /\ isReverse' = "False" => ~reverse
        /\ isReverse' # "None"
    BY <1>2 DEF Direction
  <2>2. pc' # "process"
    BY <1>2
  <2>3. /\ Timed(rows)' = Timed(r)
        /\ \A up \in BOOLEAN : InTime(rows, up)' = InTime(r, up)
    BY <1>2 DEF Timed, InTime
  <2>4. Timed(rows)' /\ (isReverse' = "True" => InTime(rows, FALSE)') /\ (isReverse' = "False" => InTime(rows, TRUE)')
    BY <1>4, <1>6, <2>1, <2>3
  <2>. QED
    BY <2>2, <2>4 DEF RowsInv
<1>10. CASE ExportRaises(f, s, lp)
  <2>1. pc' = "raised" /\ UNCHANGED <<todo, file>>
    BY <1>2, <1>10
  <2>2. FileInv'
    BY <1>1, <2>1 DEF FileInv, FilesInOrder, DefaultFile
  <2>3. todo # FORMATS
    <3>. SUFFICES ASSUME todo = FORMATS PROVE FALSE
      OBVIOUS
    <3>1. f = "default"
      BY FormatsType DEF f
    <3>. QED
      BY <1>10, <3>1, DefaultNeverRaises
  <2>4. ReloadInv'
    BY <2>1, <2>3 DEF ReloadInv
  <2>. QED
    BY <1>8, <1>9, <2>2, <2>4 DEF OrderInv
<1>11. CASE ~ExportRaises(f, s, lp)
  <2>1. /\ file' = [format |-> f, lines |-> Lines(f, s, lp)]
        /\ todo' = Tail(todo) /\ UNCHANGED pc
    BY <1>2, <1>11
  <2>2. file'.format = f /\ file'.lines = Lines(f, s, lp)
    BY <2>1
  <2>3. FilesInOrder'
    <3>1. IF Delegate(f) \in OldestFirst THEN InTime(s, TRUE) ELSE InTime(s, FALSE)
      <4>1. (~reverse) = TRUE \/ (~reverse) = FALSE
        OBVIOUS
      <4>2. Delegate(f) \in OldestFirst <=> ~reverse
        BY DEF reverse
      <4>. QED
        BY <1>5, <4>1, <4>2
    <3>2. IF Delegate(f) \in OldestFirst \ {"balances"}
          THEN InTime(Lines(f, s, lp), TRUE) ELSE InTime(Lines(f, s, lp), FALSE)
      BY <1>5, <1>7, <3>1, FileInOrder
    <3>. QED
      BY <2>2, <3>2 DEF FilesInOrder, InTime
  <2>4. file'.format = "default" => \E items : DefaultFile(items)'
    <3>. SUFFICES ASSUME f = "default" PROVE \E items : DefaultFile(items)'
      BY <2>2
    <3>1. reverse
      BY DEF reverse, Delegate, OldestFirst
    <3>2. (~reverse) = FALSE
      BY <3>1
    <3>3. InTime(s, FALSE)
      BY <1>5, <3>2
    <3>4. file'.lines = [i \in 1 .. Len(s) |-> Line(s[i].type, s[i].txid, s[i])]
      BY <1>5, <2>2, DefaultLines
    <3>5. PICK items : items = s
      OBVIOUS
    <3>6. /\ items \in Seq(Rows) /\ Timed(items) /\ InTime(items, FALSE)
          /\ file'.lines = [i \in 1 .. Len(items) |-> Line(items[i].type, items[i].txid, items[i])]
      BY <1>5, <3>3, <3>4, <3>5
    <3>. QED
      BY <3>6 DEF DefaultFile
  <2>5. FileInv'
    BY <2>3, <2>4 DEF FileInv
  <2>6. todo' # FORMATS
    <3>1. Len(Tail(todo)) # Len(FORMATS)
      <4>1. Len(Tail(todo)) \in Nat /\ Len(FORMATS) \in Nat
        BY <1>3, FormatsType
      <4>. QED
        BY <1>3, <4>1
    <3>. QED
      BY <2>1, <3>1
  <2>7. ReloadInv'
    BY <1>2, <2>1, <2>6 DEF ReloadInv
  <2>. QED
    BY <1>8, <1>9, <2>5, <2>7 DEF OrderInv
<1>. QED
  BY <1>10, <1>11

\* The rows that ingest_csv makes of a default CSV.
LEMMA LoadedRows ==
  ASSUME NEW items, DefaultFile(items)
  PROVE  LET r == [i \in DOMAIN file.lines |-> RowOfLine(file.lines[i], i)]
         IN  /\ DOMAIN file.lines = 1 .. Len(items) /\ Len(items) \in Nat /\ DOMAIN items = 1 .. Len(items)
             /\ r \in Seq(Rows) /\ Timed(r) /\ DOMAIN r = DOMAIN items /\ Len(r) = Len(items)
             /\ \A i \in DOMAIN items :
                  /\ r[i].ts = items[i].ts /\ r[i].z = 1 - i
                  /\ r[i].type = items[i].type /\ r[i].ra = items[i].ra /\ r[i].sa = items[i].sa
                  /\ Line(r[i].type, r[i].txid, r[i]) = file.lines[i]
<1> DEFINE r == [i \in DOMAIN file.lines |-> RowOfLine(file.lines[i], i)]
           n == Len(items)
<1>1. /\ items \in Seq(Rows) /\ n \in Nat /\ DOMAIN items = 1 .. n /\ Timed(items)
      /\ file.lines = [i \in 1 .. n |-> Line(items[i].type, items[i].txid, items[i])]
  BY DEF DefaultFile
<1>2. DOMAIN file.lines = 1 .. n
  BY <1>1
<1>3. ASSUME NEW i \in 1 .. n
      PROVE  /\ r[i] \in Rows /\ r[i].ts = items[i].ts /\ r[i].z = 1 - i
             /\ r[i].type = items[i].type /\ r[i].ra = items[i].ra /\ r[i].sa = items[i].sa
             /\ r[i].txid = items[i].txid
             /\ Line(r[i].type, r[i].txid, r[i]) = file.lines[i]
  <2>1. items[i] \in Rows /\ file.lines[i] = Line(items[i].type, items[i].txid, items[i])
    BY <1>1
  <2>2. r[i] = RowOfLine(Line(items[i].type, items[i].txid, items[i]), i)
    BY <1>2, <2>1
  <2>. HIDE DEF r
  <2>3. /\ r[i] \in Rows /\ r[i].ts = items[i].ts /\ r[i].z = 1 - i
        /\ r[i].type = items[i].type /\ r[i].ra = items[i].ra /\ r[i].sa = items[i].sa
        /\ r[i].txid = items[i].txid
    BY <1>1, <2>1, <2>2 DEF RowOfLine, Line, Rows
  <2>4. Line(r[i].type, r[i].txid, r[i]) = Line(items[i].type, items[i].txid, items[i])
    BY <2>2 DEF RowOfLine, Line
  <2>. QED
    BY <2>1, <2>3, <2>4
<1>4. DOMAIN r = 1 .. n /\ r = [i \in 1 .. n |-> r[i]]
  BY <1>2
<1>. HIDE DEF r, n
<1>5. r \in Seq(Rows) /\ Len(r) = n
  <2>1. r \in [1 .. n -> Rows]
    BY <1>3, <1>4
  <2>. QED
    BY <1>1, <1>4, <2>1
<1>6. Timed(r)
  BY <1>1, <1>3, <1>4, SameOrder
<1>. QED
  BY <1>1, <1>2, <1>3, <1>4, <1>5, <1>6 DEF r, n

LEMMA LoadOrder == OrderInv /\ LoadCsv => OrderInv'
<1>. SUFFICES ASSUME OrderInv, LoadCsv PROVE OrderInv'
  OBVIOUS
<1>1. TypeInv /\ RowsInv /\ FileInv /\ ReloadInv
  BY DEF OrderInv
<1>2. /\ pc = "export" /\ file.format = "default"
      /\ reloaded' = TRUE /\ isReverse' = "None" /\ todo' = FORMATS
      /\ rows' = [i \in DOMAIN file.lines |-> RowOfLine(file.lines[i], i)]
      /\ UNCHANGED <<pc, lp, file, ingested>>
  BY DEF LoadCsv
<1>3. PICK items : DefaultFile(items)
  BY <1>1, <1>2 DEF FileInv
<1> DEFINE r == [i \in DOMAIN file.lines |-> RowOfLine(file.lines[i], i)]
<1>4. r \in Seq(Rows) /\ Timed(r)
  BY <1>3, LoadedRows
<1>. HIDE DEF r
<1>5. rows' = r
  BY <1>2 DEF r
<1>6. TypeInv'
  <2>1. todo' \in Seq(Formats) /\ Len(todo') <= Len(FORMATS)
    BY <1>2, FormatsType
  <2>2. file' = [format |-> file'.format, lines |-> file'.lines]
    BY <1>1, <1>2 DEF TypeInv
  <2>. QED
    BY <1>1, <1>2, <1>4, <1>5, <2>1, <2>2 DEF TypeInv
<1>7. RowsInv'
  BY <1>2, <1>4, <1>5 DEF RowsInv, Timed
<1>8. FileInv'
  BY <1>1, <1>2 DEF FileInv, FilesInOrder, DefaultFile
<1>9. ReloadInv'
  BY <1>2 DEF ReloadInv
<1>. QED
  BY <1>6, <1>7, <1>8, <1>9 DEF OrderInv

LEMMA OrderStep == OrderInv /\ [Next]_vars => OrderInv'
<1>. SUFFICES ASSUME OrderInv, [Next]_vars PROVE OrderInv'
  OBVIOUS
<1>1. CASE IngestTx
  BY <1>1, IngestOrder
<1>2. CASE FinishHistory
  BY <1>2, FinishHistoryOrder
<1>3. CASE StartExport
  BY <1>3, StartExportOrder
<1>4. CASE Export
  BY <1>4, ExportOrder
<1>5. CASE LoadCsv
  BY <1>5, LoadOrder
<1>6. CASE Finish
  BY <1>6 DEF Finish, OrderInv, TypeInv, RowsInv, FileInv, ReloadInv, FilesInOrder, DefaultFile, Timed, InTime
<1>7. CASE UNCHANGED vars
  BY <1>7 DEF vars, OrderInv, TypeInv, RowsInv, FileInv, ReloadInv, FilesInOrder, DefaultFile, Timed, InTime
<1>. QED
  BY <1>1, <1>2, <1>3, <1>4, <1>5, <1>6, <1>7 DEF Next

LEMMA AlwaysOrdered == Spec => []OrderInv
  BY OrderInit, OrderStep, PTL DEF Spec

(***************************************************************************)
(* The lines of every file are in the order of time its format asks for,   *)
(* whatever was written before it and in which direction: the memo of      *)
(* sort_rows is never stale, and no exporter shuffles the lines of a row.  *)
(***************************************************************************)
THEOREM FilesAreOrdered == Spec => []FilesInOrder
<1>1. OrderInv => FilesInOrder
  BY DEF OrderInv, FileInv
<1>. QED
  BY <1>1, AlwaysOrdered, PTL

\* The first file after a reload is the default CSV again.
LEMMA ReloadKeepsStep ==
  OrderInv /\ [Next]_vars => (reloaded /\ todo = FORMATS => file' = file)
<1>. SUFFICES ASSUME OrderInv, [Next]_vars, reloaded, todo = FORMATS PROVE file' = file
  OBVIOUS
<1>1. TypeInv /\ RowsInv /\ FileInv /\ ReloadInv
  BY DEF OrderInv
<1>2. CASE ~Export
  BY <1>2 DEF Next, IngestTx, FinishHistory, StartExport, LoadCsv, Finish, vars
<1>3. CASE Export
  <2>1. Head(todo) = "default"
    BY FormatsType
  <2> DEFINE reverse == Delegate("default") \notin OldestFirst
             s == SortRows(reverse)
  <2>2. IF ExportRaises("default", s, lp)
        THEN UNCHANGED file
        ELSE file' = [format |-> "default", lines |-> Lines("default", s, lp)]
    BY <1>3, <2>1 DEF Export
  <2>3. SortRows(TRUE) = Sorted(rows, TRUE)
    BY <1>1 DEF ReloadInv, SortRows, Direction
  <2>4. reverse
    BY DEF Delegate, OldestFirst
  <2>5. s = Sorted(rows, TRUE)
    BY <2>3, <2>4 DEF SortRows, Direction
  <2>. HIDE DEF s
  <2>6. /\ file.format = "default"
        /\ rows = [i \in DOMAIN file.lines |-> RowOfLine(file.lines[i], i)]
        /\ file = [format |-> file.format, lines |-> file.lines]
    BY <1>1 DEF ReloadInv, TypeInv
  <2>7. PICK items : DefaultFile(items)
    BY <1>1, <2>6 DEF FileInv
  <2>8. /\ DOMAIN file.lines = 1 .. Len(items) /\ Len(items) \in Nat /\ DOMAIN items = 1 .. Len(items)
        /\ rows \in Seq(Rows) /\ DOMAIN rows = DOMAIN items /\ Len(rows) = Len(items)
        /\ \A i \in DOMAIN items :
             /\ rows[i].ts = items[i].ts /\ rows[i].z = 1 - i
             /\ Line(rows[i].type, rows[i].txid, rows[i]) = file.lines[i]
    BY <2>6, <2>7, LoadedRows
  <2>9. \A i, j \in DOMAIN rows : i < j => rows[i].ts >= rows[j].ts /\ rows[i].z > rows[j].z
    <3>. SUFFICES ASSUME NEW i \in DOMAIN rows, NEW j \in DOMAIN rows, i < j
                  PROVE  rows[i].ts >= rows[j].ts /\ rows[i].z > rows[j].z
      OBVIOUS
    <3>1. items[i].ts >= items[j].ts
      BY <2>7, <2>8 DEF DefaultFile, InTime
    <3>2. i \in Nat /\ j \in Nat /\ rows[i].z = 1 - i /\ rows[j].z = 1 - j
      BY <2>8
    <3>. QED
      BY <2>8, <3>1, <3>2
  <2>10. s = rows
    BY <2>5, <2>8, <2>9, SortedStays
  <2>11. Lines("default", rows, lp) = [i \in 1 .. Len(rows) |-> Line(rows[i].type, rows[i].txid, rows[i])]
    BY <2>8, DefaultLines
  <2>12. [i \in 1 .. Len(rows) |-> Line(rows[i].type, rows[i].txid, rows[i])] = file.lines
    <3>1. file.lines = [i \in 1 .. Len(items) |-> file.lines[i]]
      BY <2>7 DEF DefaultFile
    <3>. QED
      BY <2>8, <3>1
  <2>13. ~ExportRaises("default", s, lp)
    BY DefaultNeverRaises
  <2>14. Lines("default", s, lp) = file.lines
    BY <2>10, <2>11, <2>12
  <2>15. file' = [format |-> "default", lines |-> Lines("default", s, lp)]
    BY <2>2, <2>13
  <2>. QED
    BY <2>6, <2>14, <2>15
<1>. QED
  BY <1>2, <1>3

(***************************************************************************)
(* A default CSV that is loaded again (ingest_csv) and written again has   *)
(* the same lines in the same order: the z_index it gives the rows makes   *)
(* the sort a no-op, rows of one timestamp included.                       *)
(***************************************************************************)
THEOREM ReloadKeeps == Spec => ReloadKeepsFile
<1>1. OrderInv /\ [Next]_vars => [reloaded /\ todo = FORMATS => file' = file]_vars
  BY ReloadKeepsStep
<1>. QED
  BY <1>1, AlwaysOrdered, PTL DEF Spec, ReloadKeepsFile

-----------------------------------------------------------------------------
(* Where the rows come from *)

\* Two rows say the same of what came in and went out.
SameMoves(a, b) == a.type = b.type /\ a.ra = b.ra /\ a.sa = b.sa

Derived(items) == \A k \in DOMAIN items : \E i \in DOMAIN ingested : SameMoves(items[k], ingested[i])

\* Sorting, converting, editing and loading again make up no row.
OriginInv ==
  /\ Derived(rows)
  /\ file.format = "default" => \E items : DefaultFile(items) /\ Derived(items)
  /\ \A i \in DOMAIN ingested :
       \E tx \in Txs : \E j \in DOMAIN tx : SameMoves(ingested[i], tx[j])

LEMMA SameMovesOrder ==
  ASSUME NEW a, NEW b, NEW c, SameMoves(a, b), SameMoves(b, c)
  PROVE  SameMoves(a, c)
  BY DEF SameMoves

LEMMA OriginInit == Init => OriginInv
  BY DEF Init, OriginInv, Derived, NoFile

LEMMA IngestOrigin == OrderInv /\ OriginInv /\ IngestTx => OriginInv'
<1>. SUFFICES ASSUME OrderInv, OriginInv, IngestTx PROVE OriginInv'
  OBVIOUS
<1>1. PICK tx \in Txs, t \in Times :
        /\ rows' = rows \o [i \in DOMAIN tx |-> [tx[i] EXCEPT !.ts = t]]
        /\ ingested' = ingested \o [i \in DOMAIN tx |-> [tx[i] EXCEPT !.ts = t]]
  BY DEF IngestTx
<1>2. UNCHANGED file
  BY DEF IngestTx
<1> DEFINE new == [i \in DOMAIN tx |-> [tx[i] EXCEPT !.ts = t]]
           n == Len(rows)
           m == Len(ingested)
<1>3. tx \in Seq(Rows)
  BY ExporterAssumption
<1>4. /\ IsSeq(new) /\ DOMAIN new = DOMAIN tx
      /\ \A i \in DOMAIN new : SameMoves(new[i], tx[i])
  <2>1. Len(tx) \in Nat /\ DOMAIN tx = 1 .. Len(tx) /\ \A i \in DOMAIN tx : tx[i] \in Rows
    BY <1>3
  <2>2. \A i \in DOMAIN tx : SameMoves([tx[i] EXCEPT !.ts = t], tx[i])
    BY <2>1 DEF Rows, SameMoves
  <2>3. new \in Seq({[tx[i] EXCEPT !.ts = t] : i \in DOMAIN tx}) /\ DOMAIN new = DOMAIN tx
    BY <2>1
  <2>4. \A i \in DOMAIN new : SameMoves(new[i], tx[i])
    BY <2>2
  <2>. HIDE DEF new
  <2>. QED
    BY <2>3, <2>4, IsSeqOf
<1>. HIDE DEF new
<1>5. rows' = rows \o new /\ ingested' = ingested \o new
  BY <1>1 DEF new
<1>6. /\ n \in Nat /\ DOMAIN rows = 1 .. n /\ IsSeq(rows)
      /\ m \in Nat /\ DOMAIN ingested = 1 .. m /\ IsSeq(ingested)
      /\ Len(new) \in Nat /\ DOMAIN new = 1 .. Len(new)
  <2>1. rows \in Seq(Rows) /\ ingested \in Seq(Rows)
    BY DEF OrderInv, TypeInv
  <2>. QED
    BY <1>4, <2>1, IsSeqOf, IsSeqType
<1> DEFINE r == rows'
           g == ingested'
<1>7. /\ DOMAIN r = 1 .. (n + Len(new))
      /\ \A k \in 1 .. n : r[k] = rows[k]
      /\ \A k \in (n + 1) .. (n + Len(new)) : k - n \in DOMAIN new /\ r[k] = new[k - n]
  BY <1>4, <1>5, <1>6, Joined
<1>8. /\ DOMAIN g = 1 .. (m + Len(new))
      /\ \A k \in 1 .. m : g[k] = ingested[k]
      /\ \A k \in 1 .. Len(new) : g[m + k] = new[k]
      /\ \A k \in (m + 1) .. (m + Len(new)) : k - m \in DOMAIN new /\ g[k] = new[k - m]
  BY <1>4, <1>5, <1>6, Joined
<1>. HIDE DEF r, g, n, m
<1>9. 1 .. m \subseteq DOMAIN g /\ \A k \in 1 .. Len(new) : m + k \in DOMAIN g
  BY <1>6, <1>8
<1>10. ASSUME NEW k \in DOMAIN r
       PROVE  \E i \in DOMAIN g : SameMoves(r[k], g[i])
  <2>1. CASE k \in 1 .. n
    <3>1. PICK i \in DOMAIN ingested : SameMoves(rows[k], ingested[i])
      BY <1>6, <2>1 DEF OriginInv, Derived
    <3>2. i \in DOMAIN g /\ g[i] = ingested[i] /\ r[k] = rows[k]
      BY <1>6, <1>7, <1>8, <1>9, <2>1
    <3>. QED
      BY <3>1, <3>2
  <2>2. CASE k \in (n + 1) .. (n + Len(new))
    <3>1. k - n \in DOMAIN new /\ r[k] = new[k - n]
      BY <1>7, <2>2
    <3>2. m + (k - n) \in DOMAIN g /\ g[m + (k - n)] = new[k - n]
      BY <1>6, <1>8, <1>9, <3>1
    <3>. QED
      BY <3>1, <3>2 DEF SameMoves
  <2>. QED
    BY <1>6, <1>7, <2>1, <2>2
<1>11. ASSUME NEW i \in DOMAIN g
       PROVE  \E tx2 \in Txs : \E j \in DOMAIN tx2 : SameMoves(g[i], tx2[j])
  <2>1. CASE i \in 1 .. m
    BY <1>6, <1>8, <2>1 DEF OriginInv
  <2>2. CASE i \in (m + 1) .. (m + Len(new))
    BY <1>4, <1>8, <2>2
  <2>. QED
    BY <1>6, <1>8, <2>1, <2>2
<1>12. ASSUME NEW items, Derived(items)
       PROVE  Derived(items)'
  <2>. SUFFICES ASSUME NEW k \in DOMAIN items
                PROVE  \E i \in DOMAIN g : SameMoves(items[k], g[i])
    BY DEF Derived, g
  <2>1. PICK i \in DOMAIN ingested : SameMoves(items[k], ingested[i])
    BY <1>12 DEF Derived
  <2>. QED
    BY <1>6, <1>8, <1>9, <2>1
<1>13. file.format = "default" => \E items : DefaultFile(items) /\ Derived(items)'
  BY <1>12 DEF OriginInv
<1>. QED
  BY <1>2, <1>10, <1>11, <1>13 DEF OriginInv, Derived, DefaultFile, r, g

LEMMA FinishHistoryOrigin == OrderInv /\ OriginInv /\ FinishHistory => OriginInv'
<1>. SUFFICES ASSUME OrderInv, OriginInv, FinishHistory PROVE OriginInv'
  OBVIOUS
<1>1. CASE UNCHANGED <<rows, isReverse, ingested>>
  BY <1>1 DEF FinishHistory, OriginInv, Derived, DefaultFile
<1>2. CASE /\ rows' = ConvertAlloyed(SortRows(TRUE))
           /\ ingested' = ConvertAlloyed(ingested)
  <2> DEFINE s == SortRows(TRUE)
             r == ConvertAlloyed(s)
             g == ConvertAlloyed(ingested)
  <2>1. /\ s \in Seq(Rows) /\ ingested \in Seq(Rows)
        /\ \A k \in DOMAIN s : \E i \in DOMAIN rows : s[k] = rows[i]
    BY SortRowsIs DEF OrderInv, TypeInv
  <2>. HIDE DEF s
  <2>2. /\ DOMAIN r = DOMAIN s /\ \A k \in DOMAIN s : SameMoves(r[k], s[k])
        /\ DOMAIN g = DOMAIN ingested
        /\ \A i \in DOMAIN ingested : SameMoves(g[i], ingested[i]) /\ SameMoves(ingested[i], g[i])
    BY <2>1, Converted DEF SameMoves
  <2>. HIDE DEF r, g
  <2>3. rows' = r /\ ingested' = g /\ UNCHANGED file
    BY <1>2 DEF FinishHistory, r, g, s
  <2>4. ASSUME NEW items, Derived(items)
        PROVE  \A k \in DOMAIN items : \E i \in DOMAIN g : SameMoves(items[k], g[i])
    BY <2>2, <2>4, SameMovesOrder DEF Derived
  <2>5. \A k \in DOMAIN r : \E i \in DOMAIN g : SameMoves(r[k], g[i])
    <3>. TAKE k \in DOMAIN r
    <3>1. PICK o \in DOMAIN rows : s[k] = rows[o]
      BY <2>1, <2>2
    <3>2. PICK i \in DOMAIN g : SameMoves(rows[o], g[i])
      BY <2>4 DEF OriginInv
    <3>3. SameMoves(r[k], rows[o])
      BY <2>2, <3>1
    <3>. QED
      BY <3>2, <3>3, SameMovesOrder
  <2>6. \A i \in DOMAIN g : \E tx \in Txs : \E j \in DOMAIN tx : SameMoves(g[i], tx[j])
    BY <2>2, SameMovesOrder DEF OriginInv
  <2>. QED
    BY <2>3, <2>4, <2>5, <2>6 DEF OriginInv, Derived, DefaultFile
<1>. QED
  BY <1>1, <1>2 DEF FinishHistory

LEMMA StartExportOrigin == OrderInv /\ OriginInv /\ StartExport => OriginInv'
<1>. SUFFICES ASSUME OrderInv, OriginInv, StartExport PROVE OriginInv'
  OBVIOUS
<1> DEFINE s == SortRows(TRUE)
<1>1. \A k \in DOMAIN s : \E i \in DOMAIN rows : s[k] = rows[i]
  BY SortRowsIs DEF OrderInv
<1>. HIDE DEF s
<1>2. rows' = s /\ UNCHANGED <<file, ingested>>
  BY DEF StartExport, s
<1>3. \A k \in DOMAIN s : \E i \in DOMAIN ingested : SameMoves(s[k], ingested[i])
  BY <1>1 DEF OriginInv, Derived
<1>. QED
  BY <1>2, <1>3 DEF OriginInv, Derived, DefaultFile

LEMMA ExportOrigin == OrderInv /\ OriginInv /\ Export => OriginInv'
<1>. SUFFICES ASSUME OrderInv, OriginInv, Export PROVE OriginInv'
  OBVIOUS
<1>1. TypeInv /\ RowsInv /\ UNCHANGED ingested
  BY DEF OrderInv, Export
<1> DEFINE f       == Head(todo)
           reverse == Delegate(f) \notin OldestFirst
           s       == SortRows(reverse)
           r       == [i \in DOMAIN s |-> AfterExport(f, s[i])]
<1>2. /\ rows' = r
      /\ \/ UNCHANGED file
         \/ file' = [format |-> f, lines |-> Lines(f, s, lp)]
  BY DEF Export
<1>3. reverse \in BOOLEAN
  OBVIOUS
<1>. HIDE DEF reverse, f
<1>4. /\ s \in Seq(Rows) /\ Timed(s) /\ InTime(s, ~reverse)
      /\ \A k \in DOMAIN s : \E i \in DOMAIN rows : s[k] = rows[i]
  BY <1>1, <1>3, SortRowsIs
<1>5. \A k \in DOMAIN r : \E i \in DOMAIN rows : SameMoves(r[k], rows[i])
  <2>. HIDE DEF s
  <2>1. DOMAIN r = DOMAIN s /\ \A k \in DOMAIN s : r[k] = AfterExport(f, s[k])
    OBVIOUS
  <2>. HIDE DEF r
  <2>. TAKE k \in DOMAIN r
  <2>2. PICK i \in DOMAIN rows : s[k] = rows[i]
    BY <1>4, <2>1
  <2>3. s[k] \in Rows /\ r[k] = AfterExport(f, s[k])
    BY <1>4, <2>1
  <2>4. r[k].type = s[k].type /\ r[k].ra = s[k].ra /\ r[k].sa = s[k].sa
    BY <2>3, AfterExportIs
  <2>. QED
    BY <2>2, <2>4 DEF SameMoves
<1>. HIDE DEF s, r
<1>6. \A k \in DOMAIN r : \E i \in DOMAIN ingested : SameMoves(r[k], ingested[i])
  BY <1>5, SameMovesOrder DEF OriginInv, Derived
<1>7. \A k \in DOMAIN s : \E i \in DOMAIN ingested : SameMoves(s[k], ingested[i])
  BY <1>4 DEF OriginInv, Derived
<1>8. file'.format = "default" => \E items : DefaultFile(items)' /\ Derived(items)'
  <2>1. CASE UNCHANGED file
    BY <1>1, <2>1 DEF OriginInv, DefaultFile, Derived
  <2>2. CASE file' = [format |-> f, lines |-> Lines(f, s, lp)]
    <3>. SUFFICES ASSUME f = "default" PROVE \E items : DefaultFile(items)' /\ Derived(items)'
      BY <2>2
    <3>1. (~reverse) = FALSE
      BY DEF reverse, Delegate, OldestFirst
    <3>2. InTime(s, FALSE)
      BY <1>4, <3>1
    <3>3. file'.lines = [i \in 1 .. Len(s) |-> Line(s[i].type, s[i].txid, s[i])]
      BY <1>4, <2>2, DefaultLines
    <3>4. PICK items : items = s
      OBVIOUS
    <3>5. /\ items \in Seq(Rows) /\ Timed(items) /\ InTime(items, FALSE)
          /\ file'.lines = [i \in 1 .. Len(items) |-> Line(items[i].type, items[i].txid, items[i])]
          /\ \A k \in DOMAIN items : \E i \in DOMAIN ingested : SameMoves(items[k], ingested[i])
      BY <1>4, <1>7, <3>2, <3>3, <3>4
    <3>. QED
      BY <1>1, <3>5 DEF DefaultFile, Derived
  <2>. QED
    BY <1>2, <2>1, <2>2
<1>. QED
  BY <1>1, <1>2, <1>6, <1>8 DEF OriginInv, Derived

LEMMA LoadOrigin == OrderInv /\ OriginInv /\ LoadCsv => OriginInv'
<1>. SUFFICES ASSUME OrderInv, OriginInv, LoadCsv PROVE OriginInv'
  OBVIOUS
<1>1. PICK items : DefaultFile(items) /\ Derived(items)
  BY DEF OriginInv, LoadCsv
<1> DEFINE r == [i \in DOMAIN file.lines |-> RowOfLine(file.lines[i], i)]
<1>2. /\ DOMAIN r = DOMAIN items
      /\ \A i \in DOMAIN items : SameMoves(r[i], items[i])
  BY <1>1, LoadedRows DEF SameMoves
<1>. HIDE DEF r
<1>3. rows' = r /\ UNCHANGED <<file, ingested>>
  BY DEF LoadCsv, r
<1>4. \A k \in DOMAIN r : \E i \in DOMAIN ingested : SameMoves(r[k], ingested[i])
  BY <1>1, <1>2, SameMovesOrder DEF Derived
<1>. QED
  BY <1>3, <1>4 DEF OriginInv, Derived, DefaultFile

LEMMA OriginStep == OrderInv /\ OriginInv /\ [Next]_vars => OriginInv'
<1>. SUFFICES ASSUME OrderInv, OriginInv, [Next]_vars PROVE OriginInv'
  OBVIOUS
<1>1. CASE IngestTx
  BY <1>1, IngestOrigin
<1>2. CASE FinishHistory
  BY <1>2, FinishHistoryOrigin
<1>3. CASE StartExport
  BY <1>3, StartExportOrigin
<1>4. CASE Export
  BY <1>4, ExportOrigin
<1>5. CASE LoadCsv
  BY <1>5, LoadOrigin
<1>6. CASE Finish \/ UNCHANGED vars
  BY <1>6 DEF Finish, vars, OriginInv, Derived, DefaultFile
<1>. QED
  BY <1>1, <1>2, <1>3, <1>4, <1>5, <1>6 DEF Next

LEMMA AlwaysDerived == Spec => [](OrderInv /\ OriginInv)
<1>1. Init => OrderInv /\ OriginInv
  BY OrderInit, OriginInit
<1>2. OrderInv /\ OriginInv /\ [Next]_vars => OrderInv' /\ OriginInv'
  BY OrderStep, OriginStep
<1>. QED
  BY <1>1, <1>2, PTL DEF Spec

-----------------------------------------------------------------------------
(* Directions *)

\* make_tx.py makes transfers, loans, repayments and gains of perpetuals of one
\* side (_make_tx_received, _make_tx_sent, make_perp_pnl_tx).
OneSided == \A tx \in Txs : \A i \in DOMAIN tx : OneSidedRow(tx[i])

LEMMA RowsOneSided ==
  ASSUME OriginInv, OneSided
  PROVE  \A k \in DOMAIN rows : OneSidedRow(rows[k])
<1>. TAKE k \in DOMAIN rows
<1>1. PICK i \in DOMAIN ingested : SameMoves(rows[k], ingested[i])
  BY DEF OriginInv, Derived
<1>2. PICK tx \in Txs : \E j \in DOMAIN tx : SameMoves(ingested[i], tx[j])
  BY <1>1 DEF OriginInv
<1>3. PICK j \in DOMAIN tx : SameMoves(ingested[i], tx[j])
  BY <1>2
<1>4. OneSidedRow(tx[j])
  BY <1>3 DEF OneSided
<1>. QED
  BY <1>1, <1>3, <1>4 DEF SameMoves, OneSidedRow

LEMMA DirectionsStep ==
  ASSUME OneSided
  PROVE  OrderInv /\ OriginInv /\ DirectionsAgree /\ [Next]_vars => DirectionsAgree'
<1>. SUFFICES ASSUME OrderInv, OriginInv, DirectionsAgree, [Next]_vars
              PROVE  DirectionsAgree'
  OBVIOUS
<1>1. CASE UNCHANGED file
  BY <1>1 DEF DirectionsAgree
<1>2. CASE Export
  <2> DEFINE f       == Head(todo)
             reverse == Delegate(f) \notin OldestFirst
             s       == SortRows(reverse)
  <2>1. \/ UNCHANGED file
        \/ file' = [format |-> f, lines |-> Lines(f, s, lp)]
    BY <1>2 DEF Export
  <2>2. reverse \in BOOLEAN /\ lp \in LP_TREATMENT_CHOICES /\ TypeInv /\ RowsInv
    BY DEF OrderInv, TypeInv
  <2>. HIDE DEF f, reverse
  <2>3. /\ s \in Seq(Rows) /\ Timed(s) /\ InTime(s, ~reverse)
        /\ \A k \in DOMAIN s : \E i \in DOMAIN rows : s[k] = rows[i]
    BY <2>2, SortRowsIs
  <2>. HIDE DEF s
  <2>4. \A k \in DOMAIN s : OneSidedRow(s[k])
    BY <2>3, RowsOneSided
  <2>5. CASE file' = [format |-> f, lines |-> Lines(f, s, lp)] /\ f # "balances"
    <3>1. Delegate(f) # "balances" /\ (~reverse) \in BOOLEAN
      BY <2>5 DEF Delegate
    <3>2. \A k \in DOMAIN Lines(f, s, lp) : KindAgrees(Lines(f, s, lp)[k])
      BY <2>2, <2>3, <2>4, <3>1, FileTells
    <3>3. file'.lines = Lines(f, s, lp)
      BY <2>5
    <3>. QED
      BY <3>2, <3>3 DEF DirectionsAgree, KindAgrees
  <2>6. CASE file' = [format |-> f, lines |-> Lines(f, s, lp)] /\ f = "balances"
    <3>1. file'.format = "balances"
      BY <2>6
    <3>. QED
      BY <3>1 DEF DirectionsAgree
  <2>. QED
    BY <1>1, <2>1, <2>5, <2>6
<1>. QED
  BY <1>1, <1>2 DEF Next, IngestTx, FinishHistory, StartExport, LoadCsv, Finish, vars

(***************************************************************************)
(* When the rows that say what moved on one side do move it on one side    *)
(* only, no file of any format says "in" of something that went out or     *)
(* "out" of something that came in, whichever amount its exporter looks at *)
(* first.                                                                  *)
(***************************************************************************)
THEOREM DirectionsAreRight == ASSUME OneSided PROVE Spec => []DirectionsAgree
<1>1. Init => DirectionsAgree
  BY DEF Init, NoFile, DirectionsAgree
<1>2. OrderInv /\ OriginInv /\ DirectionsAgree /\ [Next]_vars => DirectionsAgree'
  BY DirectionsStep
<1>. QED
  BY <1>1, <1>2, AlwaysDerived, PTL DEF Spec

-----------------------------------------------------------------------------
(* Exports that raise *)

\* Nothing moves on the side of the row that its transfer would tell of.
NothingMoves(row) ==
  \/ row.type \in TransferLike \cup {Pnl} /\ row.ra = 0 /\ row.sa = 0
  \/ row.type = "LP_DEPOSIT" /\ row.sa = 0
  \/ row.type = "LP_WITHDRAW" /\ row.ra = 0

RaisesForNothing ==
  pc = "raised" => \E i \in DOMAIN ingested : NothingMoves(ingested[i])

\* The rows of which an exporter cannot tell the direction.
LEMMA RaisesIs ==
  ASSUME NEW f, NEW items \in Seq(Rows), NEW treat \in LP_TREATMENT_CHOICES,
         ExportRaises(f, items, treat)
  PROVE  \E j \in DOMAIN items : NothingMoves(items[j])
<1> DEFINE g    == Delegate(f)
           seen == RowsExport(g, items, treat)
<1>1. Raises(g, seen)
  BY DEF ExportRaises
<1>. HIDE DEF g
<1>2. seen \in Seq(Rows) /\ \A k \in DOMAIN seen : \E j \in DOMAIN items : SeenAs(seen[k], items[j])
  BY SeenRows
<1>. HIDE DEF seen
<1>3. PICK i \in DOMAIN seen : Undetermined(g, seen[i])
  BY <1>1 DEF Raises
<1>4. PICK j \in DOMAIN items : SeenAs(seen[i], items[j])
  BY <1>2
<1> DEFINE told == seen[i]
           row  == items[j]
<1>5. told \in Rows /\ row \in Rows
  BY <1>2
<1>6. Undetermined(g, told) /\ SeenAs(told, row)
  BY <1>3, <1>4
<1>. HIDE DEF told, row
<1>7. told.type \in TransferLike \cup {Pnl} /\ told.ra = 0 /\ told.sa = 0
  <2>1. told.ra \in Nat /\ told.sa \in Nat
    BY <1>5 DEF Rows
  <2>2. Side(told) = "none" => told.ra = 0 /\ told.sa = 0
    BY <2>1 DEF Side, HasIn, HasOut
  <2>. QED
    BY <1>6, <2>2 DEF Undetermined, TransferLike
<1>8. NothingMoves(row)
  <2>1. CASE told = row
    BY <1>7, <2>1 DEF NothingMoves
  <2>2. CASE told = AsTrade(row)
    <3>1. told.type = "TRADE"
      BY <1>5, <2>2 DEF AsTrade, Rows
    <3>. QED
      BY <1>7, <3>1 DEF TransferLike, Pnl
  <2>3. CASE row.type = "LP_DEPOSIT" /\ told = AsTransferOut(row)
    <3>1. told.sa = row.sa
      BY <1>5, <2>3 DEF AsTransferOut, Rows
    <3>. QED
      BY <1>7, <2>3, <3>1 DEF NothingMoves
  <2>4. CASE row.type = "LP_WITHDRAW" /\ told = AsTransferIn(row)
    <3>1. told.ra = row.ra
      BY <1>5, <2>4 DEF AsTransferIn, Rows
    <3>. QED
      BY <1>7, <2>4, <3>1 DEF NothingMoves
  <2>. QED
    BY <1>6, <2>1, <2>2, <2>3, <2>4 DEF SeenAs
<1>. QED
  BY <1>4, <1>8 DEF row

LEMMA RaisesStep ==
  OrderInv /\ OriginInv /\ RaisesForNothing /\ [Next]_vars => RaisesForNothing'
<1>. SUFFICES ASSUME OrderInv, OriginInv, RaisesForNothing, [Next]_vars, pc' = "raised"
              PROVE  \E i \in DOMAIN ingested' : NothingMoves(ingested'[i])
  BY DEF RaisesForNothing
<1>1. CASE Export
  <2> DEFINE f       == Head(todo)
             reverse == Delegate(f) \notin OldestFirst
             s       == SortRows(reverse)
  <2>1. UNCHANGED ingested /\ ExportRaises(f, s, lp)
    BY <1>1 DEF Export
  <2>2. reverse \in BOOLEAN /\ lp \in LP_TREATMENT_CHOICES /\ TypeInv /\ RowsInv
    BY DEF OrderInv, TypeInv
  <2>. HIDE DEF f, reverse
  <2>3. s \in Seq(Rows) /\ \A k \in DOMAIN s : \E i \in DOMAIN rows : s[k] = rows[i]
    BY <2>2, SortRowsIs
  <2>. HIDE DEF s
  <2>4. PICK k \in DOMAIN s : NothingMoves(s[k])
    BY <2>1, <2>2, <2>3, RaisesIs
  <2>5. PICK j \in DOMAIN rows : s[k] = rows[j]
    BY <2>3
  <2>6. PICK i \in DOMAIN ingested : SameMoves(rows[j], ingested[i])
    BY DEF OriginInv, Derived
  <2>7. NothingMoves(ingested[i])
    BY <2>4, <2>5, <2>6 DEF SameMoves, NothingMoves
  <2>. QED
    BY <2>1, <2>7
<1>2. CASE pc = "raised" /\ UNCHANGED ingested
  BY <1>2 DEF RaisesForNothing
<1>. QED
  BY <1>1, <1>2 DEF Next, IngestTx, FinishHistory, StartExport, LoadCsv, Finish, vars

(***************************************************************************)
(* An export raises only in a report with a row of nothing: a transfer, a  *)
(* loan, a repayment or the gain of a perpetual without an amount, or the  *)
(* deposit into a pool of nothing or the withdrawal of nothing from one.   *)
(***************************************************************************)
THEOREM OnlyNothingRaises == Spec => []RaisesForNothing
<1>1. Init => RaisesForNothing
  BY DEF Init, RaisesForNothing
<1>. QED
  BY <1>1, RaisesStep, AlwaysDerived, PTL DEF Spec

\* What the processors of a chain ingest moves something, but for perpetuals.
SomethingMoves ==
  \A tx \in Txs : \A i \in DOMAIN tx : NothingMoves(tx[i]) => tx[i].type = Pnl

(***************************************************************************)
(* When every row but those of perpetuals moves something, api.csv_all     *)
(* writes every format, unless a perpetual breaks even.                    *)
(***************************************************************************)
THEOREM EveryFormatIsWritten == ASSUME SomethingMoves PROVE Spec => []EveryFormatWritten
<1>1. OriginInv /\ RaisesForNothing => EveryFormatWritten
  <2>. SUFFICES ASSUME OriginInv, RaisesForNothing, pc = "raised"
                PROVE  \E i \in DOMAIN ingested :
                         ingested[i].type = "REALIZED_PNL" /\ ingested[i].ra = 0 /\ ingested[i].sa = 0
    BY DEF EveryFormatWritten
  <2>1. PICK i \in DOMAIN ingested : NothingMoves(ingested[i])
    BY DEF RaisesForNothing
  <2>2. PICK tx \in Txs : \E j \in DOMAIN tx : SameMoves(ingested[i], tx[j])
    BY DEF OriginInv
  <2>3. PICK j \in DOMAIN tx : SameMoves(ingested[i], tx[j])
    BY <2>2
  <2>4. NothingMoves(tx[j])
    BY <2>1, <2>3 DEF SameMoves, NothingMoves
  <2>5. ingested[i].type = Pnl
    BY <2>3, <2>4 DEF SomethingMoves, SameMoves
  <2>. QED
    BY <2>1, <2>5 DEF NothingMoves, Pnl, TransferLike
<1>. QED
  BY <1>1, OnlyNothingRaises, AlwaysDerived, PTL

=============================================================================
