--------------------------- MODULE AlgoGroups_proofs ---------------------------
(***************************************************************************)
(* Proofs about the walk over the transactions of an Algorand account: for *)
(* any history, any order of the plugins and whatever the dapps answer,    *)
(* export or raise, every transaction is in exactly one group; and about   *)
(* the cost basis of the lending dapps: its queues hold what is left of    *)
(* what was bought, the oldest first.                                      *)
(***************************************************************************)
EXTENDS AlgoGroups, NatLemmas

-----------------------------------------------------------------------------
(* Groups *)

\* The history, as the assumption has it.
LEMMA HistoryType ==
  ASSUME transactions \in Histories
  PROVE  /\ transactions \in Seq({transactions[k] : k \in DOMAIN transactions})
         /\ Len(transactions) \in Nat /\ DOMAIN transactions = 1 .. Len(transactions)
         /\ \A k \in 1 .. Len(transactions) : transactions[k].offset \in Nat
         /\ \A j, k \in 1 .. Len(transactions) :
              /\ j < k /\ transactions[j].group # "none"
              /\ \A between \in j .. k : transactions[between].group = transactions[j].group
              => transactions[j].offset # transactions[k].offset
<1>1. transactions \in Seq({transactions[k] : k \in DOMAIN transactions})
  BY AlgoGroupsAssumption
<1>2. Len(transactions) \in Nat /\ DOMAIN transactions = 1 .. Len(transactions)
  BY <1>1
<1>. QED
  BY <1>1, <1>2, AlgoGroupsAssumption

\* A group goes on to the transaction before the first that is of another.
LEMMA GroupEndIs ==
  ASSUME transactions \in Histories, NEW start \in 1 .. Len(transactions)
  PROVE  /\ GroupEnd(start) \in start .. Len(transactions)
         /\ \A j \in start .. GroupEnd(start) : transactions[j].group = transactions[start].group
<1> DEFINE n == Len(transactions)
           Member(k) == transactions[k].group = transactions[start].group
           others == {k \in (start + 1) .. (n + 1) : k <= n => ~Member(k)}
<1>1. n \in Nat
  BY HistoryType
<1>2. others \in SUBSET Nat /\ n + 1 \in others
  BY <1>1
<1>3. PICK m \in others : \A k \in others : m <= k
  BY <1>2, LeastNat
<1>4. \A k \in start .. (m - 1) : Member(k)
  <2>1. ASSUME NEW k \in start .. (m - 1), ~Member(k)
        PROVE  FALSE
    <3>1. k # start
      BY <2>1
    <3>2. k \in (start + 1) .. (n + 1)
      BY <1>1, <1>3, <3>1
    <3>3. k \in others
      BY <2>1, <3>2
    <3>. QED
      BY <1>1, <1>3, <3>2, <3>3
  <2>. QED
    BY <2>1
<1>5. m - 1 \in start .. n /\ (m - 1 < n => ~Member(m - 1 + 1))
  BY <1>1, <1>3
<1>6. GroupEnd(start) = CHOOSE k \in start .. n :
                          /\ \A j \in start .. k : Member(j)
                          /\ k < n => ~Member(k + 1)
  BY DEF GroupEnd
<1>7. \E k \in start .. n : /\ \A j \in start .. k : Member(j)
                            /\ k < n => ~Member(k + 1)
  BY <1>4, <1>5
<1>. QED
  BY <1>6, <1>7

\* Putting a group in the order of its round leaves no transaction out and adds none.
LEMMA InRoundOrderKeeps ==
  ASSUME NEW txs, NEW n \in Nat, DOMAIN txs = 1 .. n,
         \A k \in 1 .. n : txs[k].offset \in Nat,
         \A j, k \in 1 .. n : j # k => txs[j].offset # txs[k].offset
  PROVE  /\ DOMAIN InRoundOrder(txs) = 1 .. n
         /\ \A k \in 1 .. n : \E p \in 1 .. n : InRoundOrder(txs)[p] = txs[k]
         /\ \A p \in 1 .. n : \E k \in 1 .. n : InRoundOrder(txs)[p] = txs[k]
<1> DEFINE S == 1 .. n
           before == [k \in S |-> {j \in S : txs[j].offset < txs[k].offset}]
           rank(t) == Cardinality({j \in DOMAIN txs : txs[j].offset < t.offset})
           all == {txs[k] : k \in DOMAIN txs}
<1>1. IsFiniteSet(S) /\ Cardinality(S) = n
  BY FS_Interval
<1>2. /\ before \in [S -> SUBSET S]
      /\ \A k \in S : k \notin before[k]
      /\ \A j, k \in S : k \in before[j] => before[k] \subseteq before[j]
      /\ \A j, k \in S : j # k => j \in before[k] \/ k \in before[j]
  OBVIOUS
<1>3. \A k \in S : before[k] = {j \in DOMAIN txs : txs[j].offset < txs[k].offset}
  OBVIOUS
<1>4. InRoundOrder(txs) = [p \in DOMAIN txs |-> CHOOSE t \in all : rank(t) = p - 1]
  BY DEF InRoundOrder
<1>. HIDE DEF before
<1>5. /\ \A k \in S : Cardinality(before[k]) \in 0 .. (n - 1)
      /\ \A j, k \in S : Cardinality(before[j]) = Cardinality(before[k]) => j = k
      /\ \A p \in S : \E k \in S : Cardinality(before[k]) = p - 1
  BY <1>1, <1>2, Counting
<1>6. ASSUME NEW k \in S
      PROVE  \E p \in S : InRoundOrder(txs)[p] = txs[k]
  <2> DEFINE p == rank(txs[k]) + 1
  <2>1. rank(txs[k]) = Cardinality(before[k])
    BY <1>3
  <2>2. p \in S /\ rank(txs[k]) = p - 1
    BY <1>5, <2>1
  <2>3. \A t \in all : rank(t) = p - 1 => t = txs[k]
    <3>1. SUFFICES ASSUME NEW j \in S, rank(txs[j]) = p - 1
                   PROVE  j = k
      OBVIOUS
    <3>2. rank(txs[j]) = Cardinality(before[j])
      BY <1>3
    <3>. QED
      BY <1>5, <2>1, <2>2, <3>1, <3>2
  <2>4. txs[k] \in all
    OBVIOUS
  <2>. HIDE DEF p, rank, all
  <2>5. (CHOOSE t \in all : rank(t) = p - 1) = txs[k]
    BY <2>2, <2>3, <2>4
  <2>6. InRoundOrder(txs)[p] = txs[k]
    BY <1>4, <2>2, <2>5
  <2>. QED
    BY <2>2, <2>6
<1>7. ASSUME NEW p \in S
      PROVE  \E k \in S : InRoundOrder(txs)[p] = txs[k]
  <2>1. PICK k \in S : Cardinality(before[k]) = p - 1
    BY <1>5
  <2>2. txs[k] \in all /\ rank(txs[k]) = p - 1
    BY <1>3, <2>1
  <2>3. p \in DOMAIN txs /\ \A t \in all : \E j \in S : t = txs[j]
    OBVIOUS
  <2>. HIDE DEF rank, all
  <2>4. (CHOOSE t \in all : rank(t) = p - 1) \in all
    BY <2>2
  <2>. QED
    BY <1>4, <2>3, <2>4
<1>. QED
  BY <1>4, <1>6, <1>7

\* A group has the transactions from its start on, none left out and no others.
LEMMA GroupAtIs ==
  ASSUME transactions \in Histories, NEW start \in 1 .. Len(transactions)
  PROVE  LET g == GroupAt(start)
         IN  /\ Len(g) \in Nat \ {0}
             /\ start + Len(g) - 1 <= Len(transactions)
             /\ \A p \in start .. (start + Len(g) - 1) : \E j \in DOMAIN g : g[j] = transactions[p]
             /\ IsSeq(g) /\ \A j \in DOMAIN g : \E p \in 1 .. Len(transactions) : g[j] = transactions[p]
<1> DEFINE g == GroupAt(start)
<1>1. /\ Len(transactions) \in Nat /\ DOMAIN transactions = 1 .. Len(transactions)
      /\ transactions \in Seq({transactions[k] : k \in DOMAIN transactions})
      /\ \A k \in 1 .. Len(transactions) : transactions[k].offset \in Nat
      /\ \A j, k \in 1 .. Len(transactions) :
           /\ j < k /\ transactions[j].group # "none"
           /\ \A between \in j .. k : transactions[between].group = transactions[j].group
           => transactions[j].offset # transactions[k].offset
  BY HistoryType
<1>2. CASE transactions[start].group = "none"
  <2>1. g = <<transactions[start]>>
    BY <1>2 DEF GroupAt
  <2>2. Len(g) = 1 /\ DOMAIN g = 1 .. 1 /\ g[1] = transactions[start] /\ IsSeq(g)
    BY <2>1 DEF IsSeq
  <2>. HIDE DEF g
  <2>3. \A p \in start .. (start + Len(g) - 1) : p = start
    BY <2>2
  <2>. QED
    BY <1>1, <2>2, <2>3 DEF g
<1>3. CASE transactions[start].group # "none"
  <2> DEFINE last == GroupEnd(start)
             txs == SubSeq(transactions, start, last)
             n == last - start + 1
  <2>1. last \in start .. Len(transactions) /\ \A j \in start .. last : transactions[j].group = transactions[start].group
    BY GroupEndIs
  <2>. HIDE DEF last
  <2>2. n \in Nat \ {0} /\ start + n - 1 = last
    BY <1>1, <2>1
  <2>3. DOMAIN txs = 1 .. n /\ \A k \in 1 .. n : txs[k] = transactions[start + k - 1]
    BY <1>1, <2>1
  <2>. HIDE DEF txs, n
  <2>4. \A k \in 1 .. n : start + k - 1 \in start .. last /\ start + k - 1 \in 1 .. Len(transactions)
    BY <1>1, <2>1, <2>2
  <2>5. \A k \in 1 .. n : txs[k].offset \in Nat
    BY <1>1, <2>3, <2>4
  <2>6. ASSUME NEW j \in 1 .. n, NEW k \in 1 .. n, j < k
        PROVE  txs[j].offset # txs[k].offset
    <3> DEFINE a == start + j - 1
               b == start + k - 1
    <3>a. a \in 1 .. Len(transactions) /\ b \in 1 .. Len(transactions) /\ a \in start .. last /\ b \in start .. last
      BY <2>4
    <3>b. a < b
      BY <2>2, <2>6
    <3>1. a \in 1 .. Len(transactions) /\ b \in 1 .. Len(transactions) /\ a < b /\ a \in start .. last /\ b \in start .. last
      BY <3>a, <3>b
    <3>2. \A between \in a .. b : transactions[between].group = transactions[start].group
      BY <1>1, <2>1, <3>1
    <3>3. transactions[a].group = transactions[start].group
      BY <2>1, <3>1
    <3>4. txs[j] = transactions[a] /\ txs[k] = transactions[b]
      BY <2>3
    <3>. HIDE DEF a, b
    <3>. QED
      BY <1>1, <1>3, <3>1, <3>2, <3>3, <3>4
  <2>7. \A j, k \in 1 .. n : j # k => txs[j].offset # txs[k].offset
    <3>1. \A j, k \in 1 .. n : j < k => txs[j].offset # txs[k].offset
      BY <2>6
    <3>2. \A j, k \in 1 .. n : j # k => j < k \/ k < j
      BY <2>2
    <3>. QED
      BY <3>1, <3>2
  <2>8. g = InRoundOrder(txs)
    BY <1>3 DEF GroupAt, txs, last
  <2>9. /\ DOMAIN g = 1 .. n /\ \A k \in 1 .. n : \E p \in 1 .. n : g[p] = txs[k]
        /\ \A p \in 1 .. n : \E k \in 1 .. n : g[p] = txs[k]
    <3>1. n \in Nat /\ DOMAIN txs = 1 .. n
      BY <2>2, <2>3
    <3>2. /\ DOMAIN InRoundOrder(txs) = 1 .. n
          /\ \A k \in 1 .. n : \E p \in 1 .. n : InRoundOrder(txs)[p] = txs[k]
          /\ \A p \in 1 .. n : \E k \in 1 .. n : InRoundOrder(txs)[p] = txs[k]
      BY <2>5, <2>7, <3>1, InRoundOrderKeeps
    <3>. HIDE DEF g
    <3>. QED
      BY <2>8, <3>2
  <2>10. Len(g) = n
    <3>1. g = [p \in DOMAIN txs |-> g[p]]
      BY <2>8 DEF InRoundOrder
    <3>. HIDE DEF g
    <3>. QED
      BY <2>2, <2>3, <3>1
  <2>11. ASSUME NEW p \in start .. (start + n - 1)
         PROVE  \E j \in DOMAIN g : g[j] = transactions[p]
    <3>1. p - start + 1 \in 1 .. n /\ start + (p - start + 1) - 1 = p
      BY <2>2
    <3>2. txs[p - start + 1] = transactions[p]
      BY <2>3, <3>1
    <3>. QED
      BY <2>9, <3>1, <3>2
  <2>12. \A j \in DOMAIN g : \E p \in 1 .. Len(transactions) : g[j] = transactions[p]
    <3>. HIDE DEF g
    <3>. TAKE j \in DOMAIN g
    <3>1. PICK k \in 1 .. n : g[j] = txs[k]
      BY <2>9
    <3>2. start + k - 1 \in 1 .. Len(transactions) /\ txs[k] = transactions[start + k - 1]
      BY <2>3, <2>4
    <3>. QED
      BY <3>1, <3>2
  <2>13. IsSeq(g)
    <3>1. n \in Nat /\ g = [p \in 1 .. n |-> g[p]]
      BY <2>2, <2>3, <2>8 DEF InRoundOrder
    <3>. HIDE DEF g
    <3>. QED
      BY <3>1 DEF IsSeq
  <2>. QED
    BY <1>1, <2>1, <2>2, <2>10, <2>11, <2>12, <2>13
<1>. QED
  BY <1>2, <1>3

-----------------------------------------------------------------------------
(* The walk *)

\* The group that is handled is the one at the place of the walk.
Walk ==
  /\ transactions \in Histories /\ dapps \in Orders
  /\ asked \in Nat
  /\ i \in 1 .. (Len(transactions) + 1)
  /\ group # << >> => i <= Len(transactions) /\ group = GroupAt(i)
  /\ handled \in Seq({handled[k] : k \in DOMAIN handled})

\* No group that is over has a transaction that is still to come.
Behind == \A k \in DOMAIN handled : Places(handled[k]) \subseteq 1 .. (i - 1)

WalkedOnce == Walk /\ Behind /\ EachOnce

\* A group that is over has the places from where the walk was to where it goes.
LEMMA OverOnce ==
  ASSUME WalkedOnce, group # << >>, NEW by, NEW moreRows, NEW moreErrors, Over(by, moreRows, moreErrors),
         UNCHANGED <<transactions, dapps>>,
         i' = IF by = "raised" THEN i + 1 ELSE i + Len(group)
  PROVE  WalkedOnce'
<1> DEFINE h == [first |-> i, group |-> group, by |-> by,
                 rows |-> rows \o moreRows, errors |-> errors + moreErrors]
           n == Len(handled)
<1>1. /\ Len(group) \in Nat \ {0} /\ i + Len(group) - 1 <= Len(transactions)
      /\ \A p \in i .. (i + Len(group) - 1) : \E j \in DOMAIN group : group[j] = transactions[p]
      /\ Len(transactions) \in Nat /\ i \in 1 .. Len(transactions)
  <2>1. i \in 1 .. Len(transactions) /\ group = GroupAt(i) /\ transactions \in Histories
    BY DEF WalkedOnce, Walk
  <2>. QED
    BY <2>1, GroupAtIs, HistoryType
<1>2. h.first = i /\ h.group = group /\ h.by = by
  OBVIOUS
<1>. HIDE DEF h
<1>3. Places(h) = i .. (i' - 1)
  <2>1. CASE by = "raised"
    BY <1>1, <1>2, <2>1 DEF Places
  <2>2. CASE by # "raised"
    BY <1>1, <1>2, <2>2 DEF Places
  <2>. QED
    BY <2>1, <2>2
<1>4. i' \in (i + 1) .. (i + Len(group))
  BY <1>1
<1>5. handled' = Append(handled, h)
  BY DEF Over, h
<1>6. /\ handled' \in Seq({handled'[k] : k \in DOMAIN handled'})
      /\ n \in Nat /\ DOMAIN handled = 1 .. n /\ DOMAIN handled' = 1 .. (n + 1)
      /\ \A k \in 1 .. n : handled'[k] = handled[k]
      /\ handled'[n + 1] = h
  BY <1>5, Appended DEF WalkedOnce, Walk
<1>. HIDE DEF n
<1>7. Walk'
  <2>1. transactions' \in Histories /\ dapps' \in Orders
    BY DEF WalkedOnce, Walk
  <2>2. asked' \in Nat /\ group' = << >>
    BY DEF Over
  <2>3. i' \in 1 .. (Len(transactions') + 1)
    BY <1>1, <1>4
  <2>. QED
    BY <1>6, <2>1, <2>2, <2>3 DEF Walk
<1>8. Behind'
  <2>1. ASSUME NEW k \in 1 .. (n + 1)
        PROVE  Places(handled'[k]) \subseteq 1 .. (i' - 1)
    <3>1. CASE k = n + 1
      BY <1>1, <1>3, <1>4, <1>6, <3>1
    <3>2. CASE k \in 1 .. n
      <4>1. Places(handled'[k]) = Places(handled[k])
        BY <1>6, <3>2
      <4>2. Places(handled[k]) \subseteq 1 .. (i - 1)
        BY <1>6, <3>2 DEF WalkedOnce, Behind
      <4>3. 1 .. (i - 1) \subseteq 1 .. (i' - 1)
        BY <1>1, <1>4
      <4>. QED
        BY <4>1, <4>2, <4>3
    <3>. QED
      BY <1>6, <3>1, <3>2
  <2>. QED
    BY <1>6, <2>1 DEF Behind, Places
<1>9. EachOnce'
  <2>1. ASSUME NEW p \in 1 .. (i' - 1)
        PROVE  LET over == {k \in DOMAIN handled' : p \in Places(handled'[k])}
               IN  /\ Cardinality(over) = 1
                   /\ \A k \in over : \E j \in DOMAIN handled'[k].group : handled'[k].group[j] = transactions[p]
    <3> DEFINE over == {k \in DOMAIN handled' : p \in Places(handled'[k])}
               before == {k \in DOMAIN handled : p \in Places(handled[k])}
    <3>1. CASE p < i
      <4>1. p \in 1 .. (i - 1)
        BY <1>1, <3>1
      <4>2. /\ Cardinality(before) = 1
            /\ \A k \in before : \E j \in DOMAIN handled[k].group : handled[k].group[j] = transactions[p]
        BY <4>1 DEF WalkedOnce, EachOnce
      <4>3. p \notin Places(h)
        BY <1>1, <1>3, <1>4, <3>1
      <4>4. over = before
        BY <1>6, <4>3
      <4>. QED
        BY <1>6, <4>2, <4>4
    <3>2. CASE ~(p < i)
      <4>1. p \in i .. (i' - 1) /\ p \in i .. (i + Len(group) - 1)
        BY <1>1, <1>4, <3>2
      <4>2. \A k \in 1 .. n : p \notin Places(handled[k])
        <5>1. \A k \in 1 .. n : Places(handled[k]) \subseteq 1 .. (i - 1)
          BY <1>6 DEF WalkedOnce, Behind
        <5>2. p \notin 1 .. (i - 1)
          BY <1>1, <3>2
        <5>. QED
          BY <5>1, <5>2
      <4>3. over = {n + 1}
        <5>1. p \in Places(handled'[n + 1])
          BY <1>3, <1>6, <4>1
        <5>2. \A k \in 1 .. n : p \notin Places(handled'[k])
          BY <1>6, <4>2
        <5>3. \A k \in 1 .. (n + 1) : k \in 1 .. n \/ k = n + 1
          BY <1>6
        <5>4. n + 1 \in 1 .. (n + 1)
          BY <1>6
        <5>. QED
          BY <1>6, <5>1, <5>2, <5>3, <5>4
      <4>4. Cardinality(over) = 1
        BY <4>3, FS_Singleton
      <4>5. \E j \in DOMAIN group : group[j] = transactions[p]
        BY <1>1, <4>1
      <4>. QED
        BY <1>2, <1>6, <4>3, <4>4, <4>5
    <3>. QED
      BY <1>1, <3>1, <3>2
  <2>. QED
    BY <2>1 DEF EachOnce, Places
<1>. QED
  BY <1>7, <1>8, <1>9 DEF WalkedOnce

\* A step that leaves the place of the walk.
LEMMA StillOnce ==
  ASSUME WalkedOnce, UNCHANGED <<transactions, dapps, i, handled>>, asked' \in Nat,
         group' # group => i <= Len(transactions) /\ group' = GroupAt(i)
  PROVE  WalkedOnce'
<1>1. GroupAt(i)' = GroupAt(i)
  BY DEF GroupAt, GroupEnd
<1>2. Walk'
  BY <1>1 DEF WalkedOnce, Walk
<1>3. Behind'
  BY DEF WalkedOnce, Behind
<1>4. EachOnce'
  BY DEF WalkedOnce, EachOnce
<1>. QED
  BY <1>2, <1>3, <1>4 DEF WalkedOnce

LEMMA WalkedOnceStep ==
  ASSUME WalkedOnce, [Next]_vars
  PROVE  WalkedOnce'
<1>1. CASE NextGroup
  <2>1. asked' \in Nat
    BY <1>1 DEF NextGroup, WalkedOnce, Walk
  <2>. QED
    BY <1>1, <2>1, StillOnce DEF NextGroup, More
<1>2. CASE AskDapp
  <2>1. dapps[asked + 1] \in Plugins
    <3>1. asked \in Nat /\ asked < Len(dapps) /\ dapps \in Seq(Plugins)
      BY <1>2, AlgoGroupsAssumption DEF AskDapp, WalkedOnce, Walk
    <3>2. asked + 1 \in 1 .. Len(dapps)
      BY <3>1
    <3>. QED
      BY <3>1, <3>2
  <2>2. dapps[asked + 1] # "raised"
    BY <2>1 DEF Plugins
  <2>3. group # << >> /\ UNCHANGED <<transactions, dapps>>
    BY <1>2 DEF AskDapp
  <2>4. ASSUME NEW moreRows, NEW moreErrors, AskNext(moreRows, moreErrors)
        PROVE  WalkedOnce'
    <3>1. asked' \in Nat
      BY <2>4 DEF AskNext, WalkedOnce, Walk
    <3>. QED
      BY <2>3, <2>4, <3>1, StillOnce DEF AskNext
  <2>5. ASSUME NEW moreRows, Over(dapps[asked + 1], moreRows, 0), i' = i + Len(group)
        PROVE  WalkedOnce'
    BY <2>2, <2>3, <2>5, OverOnce
  <2>6. \/ \E moreRows, moreErrors : AskNext(moreRows, moreErrors)
        \/ \E moreRows : Over(dapps[asked + 1], moreRows, 0) /\ i' = i + Len(group)
    BY <1>2 DEF AskDapp
  <2>. QED
    BY <2>4, <2>5, <2>6
<1>3. CASE Generic
  <2>1. group # << >> /\ UNCHANGED <<transactions, dapps>>
    BY <1>3 DEF Generic
  <2>2. \/ \E moreRows : Over("generic", moreRows, 0) /\ i' = i + Len(group)
        \/ \E moreRows : Over("raised", moreRows, 1) /\ i' = i + 1
    BY <1>3 DEF Generic, AfterException
  <2>. QED
    BY <2>1, <2>2, OverOnce
<1>4. CASE UNCHANGED vars
  <2>1. asked' \in Nat
    BY <1>4 DEF vars, WalkedOnce, Walk
  <2>. QED
    BY <1>4, <2>1, StillOnce DEF vars
<1>. QED
  BY <1>1, <1>2, <1>3, <1>4 DEF Next

LEMMA WalkedOnceInit ==
  ASSUME Init
  PROVE  WalkedOnce
<1>1. Len(transactions) \in Nat
  BY HistoryType DEF Init
<1>2. Walk
  BY <1>1 DEF Init, Walk
<1>. QED
  BY <1>2 DEF Init, WalkedOnce, Behind, EachOnce

\* Every transaction that is passed is in exactly one group that was handled, or the
\* first of one that raised: for any history, any order of the plugins and whatever
\* they answer, export or raise.
THEOREM PassedOnce == Spec => []EachOnce
<1>1. Init => WalkedOnce
  BY WalkedOnceInit
<1>2. WalkedOnce /\ [Next]_vars => WalkedOnce'
  BY WalkedOnceStep
<1>3. WalkedOnce => EachOnce
  BY DEF WalkedOnce
<1>. QED
  BY <1>1, <1>2, <1>3, PTL DEF Spec

-----------------------------------------------------------------------------
(* Recursive functions: they exist, and two that begin and go on alike agree *)

\* A function that begins with a and goes on as g says.
Goes(n, V, a, g) == \E f \in [0 .. n -> V] : f[0] = a /\ \A k \in 1 .. n : f[k] = g[k][f[k - 1]]

LEMMA RecursionExists ==
  ASSUME NEW n \in Nat, NEW V, NEW a \in V, NEW g \in [1 .. n -> [V -> V]]
  PROVE  Goes(n, V, a, g)
<1> DEFINE Has(m) == \E f \in [0 .. n -> V] : f[0] = a /\ \A k \in 1 .. m : f[k] = g[k][f[k - 1]]
           S == {m \in 0 .. n : ~Has(m)}
<1>. SUFFICES ASSUME S # {} PROVE FALSE
  <2>. n \in 0 .. n
    OBVIOUS
  <2>. USE DEF Goes
  <2>. QED
    OBVIOUS
<1>1. PICK m \in S : \A k \in S : m <= k
  <2>. S \in SUBSET Nat
    OBVIOUS
  <2>. HIDE DEF S
  <2>. QED
    BY LeastNat
<1>2. m \in 0 .. n /\ ~Has(m)
  OBVIOUS
<1>3. m # 0
  <2>. SUFFICES Has(0)
    BY <1>2
  <2> DEFINE f == [k \in 0 .. n |-> a]
  <2>1. f \in [0 .. n -> V] /\ f[0] = a /\ 1 .. 0 = {}
    OBVIOUS
  <2>. HIDE DEF f
  <2>. QED
    BY <2>1
<1>4. m - 1 \in 0 .. n /\ Has(m - 1)
  <2>1. m - 1 \in 0 .. n /\ ~(m <= m - 1)
    BY <1>2, <1>3
  <2>. HIDE DEF Has
  <2>. QED
    BY <1>1, <2>1
<1>5. PICK f \in [0 .. n -> V] : f[0] = a /\ \A k \in 1 .. (m - 1) : f[k] = g[k][f[k - 1]]
  BY <1>4
<1> DEFINE h == [f EXCEPT ![m] = g[m][f[m - 1]]]
<1>6. h \in [0 .. n -> V] /\ h[m] = g[m][f[m - 1]] /\ \A k \in 0 .. (m - 1) : h[k] = f[k]
  <2>1. m \in 1 .. n
    BY <1>2, <1>3
  <2>2. g[m] \in [V -> V] /\ f[m - 1] \in V
    BY <1>4, <2>1
  <2>3. g[m][f[m - 1]] \in V
    BY <2>2
  <2>. QED
    BY <1>2, <2>1, <2>3
<1>. HIDE DEF h
<1>7. \A k \in 1 .. m : h[k] = g[k][h[k - 1]]
  <2>1. ASSUME NEW k \in 1 .. m
        PROVE  h[k - 1] = f[k - 1] /\ (k = m \/ (k \in 1 .. (m - 1) /\ h[k] = f[k]))
    BY <1>2, <1>6
  <2>. QED
    BY <1>5, <1>6, <2>1
<1>8. h[0] = a
  BY <1>2, <1>3, <1>5, <1>6
<1>. QED
  BY <1>2, <1>6, <1>7, <1>8

Alike(n, f, h) == f[0] = h[0] /\ \A k \in 1 .. n : f[k - 1] = h[k - 1] => f[k] = h[k]

LEMMA RecursionAgrees ==
  ASSUME NEW n \in Nat, NEW f, NEW h, Alike(n, f, h)
  PROVE  \A k \in 0 .. n : f[k] = h[k]
<1> DEFINE S == {k \in 0 .. n : f[k] # h[k]}
<1>. SUFFICES ASSUME S # {} PROVE FALSE
  OBVIOUS
<1>1. PICK m \in S : \A k \in S : m <= k
  <2>. S \in SUBSET Nat
    OBVIOUS
  <2>. HIDE DEF S
  <2>. QED
    BY LeastNat
<1>2. m # 0
  BY DEF Alike
<1>3. m \in 1 .. n /\ m - 1 \in 0 .. n /\ ~(m <= m - 1)
  BY <1>2
<1>4. f[m - 1] = h[m - 1]
  BY <1>1, <1>3
<1>5. f[m] = h[m]
  BY <1>3, <1>4 DEF Alike
<1>. QED
  BY <1>5

-----------------------------------------------------------------------------
(* The cost basis: the rows of tokens *)

\* What was pushed, and what was bought of it.
Entries == [quantity : Int, price : Int]
Bought  == [quantity : Nat \ {0}, price : Int]

LEMMA SizeIs ==
  ASSUME NEW e \in Entries
  PROVE  /\ Size(e) \in Nat /\ (e.quantity > 0 => Size(e) = e.quantity /\ e \in Bought)
         /\ Units(e) \in Seq(Int) /\ Len(Units(e)) = Size(e) /\ \A j \in 1 .. Size(e) : Units(e)[j] = e.price
<1>1. Size(e) \in Nat /\ (e.quantity > 0 => Size(e) = e.quantity /\ e \in Bought)
  BY DEF Size, Entries, Bought
<1>2. e.price \in Int
  BY DEF Entries
<1>3. Units(e) = [k \in 1 .. Size(e) |-> e.price]
  BY DEF Units
<1>. QED
  BY <1>1, <1>2, <1>3

LEMMA BoughtAreEntries == Bought \subseteq Entries
  BY DEF Bought, Entries

\* What an entry of the history makes of the row of tokens.
AfterEntry(units, e) ==
  IF e.quantity > 0 THEN units \o Units(e) ELSE Dropped(units, Smaller(Size(e), Len(units)))

LEMMA AfterEntryType ==
  ASSUME NEW e \in Entries, NEW units \in Seq(Int)
  PROVE  AfterEntry(units, e) \in Seq(Int)
<1>1. Smaller(Size(e), Len(units)) \in Nat
  BY SizeIs DEF Smaller
<1>2. Dropped(units, Smaller(Size(e), Len(units))) \in Seq(Int)
  BY <1>1 DEF Dropped
<1>. QED
  BY <1>2, SizeIs DEF AfterEntry

LEMMA UnpackedIs ==
  ASSUME NEW inv \in Seq(Entries)
  PROVE  \E all \in [0 .. Len(inv) -> Seq(Int)] :
           /\ all[0] = <<>> /\ \A k \in 1 .. Len(inv) : all[k] = all[k - 1] \o Units(inv[k])
           /\ Unpacked(inv) = all[Len(inv)]
<1> DEFINE g == [k \in 1 .. Len(inv) |-> [s \in Seq(Int) |-> s \o Units(inv[k])]]
           Solves(f) == f = [k \in 0 .. Len(inv) |-> IF k = 0 THEN <<>> ELSE f[k - 1] \o Units(inv[k])]
           all == CHOOSE f : Solves(f)
<1>1. Unpacked(inv) = all[Len(inv)]
  BY DEF Unpacked
<1>2. Len(inv) \in Nat /\ \A k \in 1 .. Len(inv) : Units(inv[k]) \in Seq(Int)
  BY SizeIs
<1>3. <<>> \in Seq(Int) /\ g \in [1 .. Len(inv) -> [Seq(Int) -> Seq(Int)]]
  BY <1>2
<1>4. \A f \in [0 .. Len(inv) -> Seq(Int)] : \A k \in 1 .. Len(inv) : g[k][f[k - 1]] = f[k - 1] \o Units(inv[k])
  <2>. SUFFICES ASSUME NEW f \in [0 .. Len(inv) -> Seq(Int)], NEW k \in 1 .. Len(inv)
                PROVE  g[k][f[k - 1]] = f[k - 1] \o Units(inv[k])
    OBVIOUS
  <2>1. k - 1 \in 0 .. Len(inv)
    BY <1>2
  <2>2. f[k - 1] \in Seq(Int)
    BY <2>1
  <2>. QED
    BY <2>2
<1>. HIDE DEF g
<1>5. PICK f \in [0 .. Len(inv) -> Seq(Int)] : f[0] = <<>> /\ \A k \in 1 .. Len(inv) : f[k] = g[k][f[k - 1]]
  <2>1. Goes(Len(inv), Seq(Int), <<>>, g)
    BY <1>2, <1>3, RecursionExists
  <2>. QED
    BY <2>1 DEF Goes
<1>6. \A k \in 1 .. Len(inv) : f[k] = f[k - 1] \o Units(inv[k])
  BY <1>4, <1>5
<1>7. Solves(f)
  <2>1. f = [k \in 0 .. Len(inv) |-> f[k]]
    OBVIOUS
  <2>2. \A k \in 0 .. Len(inv) : k # 0 => k \in 1 .. Len(inv)
    BY <1>2
  <2>. QED
    BY <1>5, <1>6, <2>1, <2>2
<1>8. Solves(all)
  <2>. HIDE DEF Solves
  <2>. QED
    BY <1>7
<1>. HIDE DEF all
<1>9. all[0] = <<>> /\ \A k \in 1 .. Len(inv) : all[k] = all[k - 1] \o Units(inv[k])
  <2>1. 0 \in 0 .. Len(inv) /\ \A k \in 1 .. Len(inv) : k \in 0 .. Len(inv) /\ k # 0
    BY <1>2
  <2>2. \A k \in 0 .. Len(inv) : all[k] = IF k = 0 THEN <<>> ELSE all[k - 1] \o Units(inv[k])
    BY <1>8, Zenon
  <2>. QED
    BY <2>1, <2>2, Zenon
<1>10. \A k \in 0 .. Len(inv) : f[k] = all[k]
  <2>1. \A k \in 1 .. Len(inv) : f[k - 1] = all[k - 1] => f[k] = all[k]
    BY <1>6, <1>9, Zenon
  <2>. QED
    <3>1. Len(inv) \in Nat /\ f[0] = all[0]
      BY <1>2, <1>5, <1>9, Zenon
    <3>2. Alike(Len(inv), f, all)
      BY <2>1, <3>1, Zenon DEF Alike
    <3>. QED
      BY <3>1, <3>2, RecursionAgrees, Zenon
<1>11. Len(inv) \in 0 .. Len(inv)
  BY <1>2
<1>. QED
  BY <1>1, <1>5, <1>6, <1>10, <1>11, Zenon

LEMMA UnitsLeftIs ==
  ASSUME NEW history \in Seq(Entries)
  PROVE  \E left \in [0 .. Len(history) -> Seq(Int)] :
           /\ left[0] = <<>> /\ \A k \in 1 .. Len(history) : left[k] = AfterEntry(left[k - 1], history[k])
           /\ UnitsLeft(history) = left[Len(history)]
<1> DEFINE g == [k \in 1 .. Len(history) |-> [s \in Seq(Int) |-> AfterEntry(s, history[k])]]
           Solves(f) == f = [k \in 0 .. Len(history) |-> IF k = 0 THEN <<>> ELSE AfterEntry(f[k - 1], history[k])]
           left == CHOOSE f : Solves(f)
<1>1. UnitsLeft(history) = left[Len(history)]
  BY DEF UnitsLeft, AfterEntry
<1>2. Len(history) \in Nat /\ \A k \in 1 .. Len(history) : \A s \in Seq(Int) : AfterEntry(s, history[k]) \in Seq(Int)
  BY AfterEntryType
<1>3. <<>> \in Seq(Int) /\ g \in [1 .. Len(history) -> [Seq(Int) -> Seq(Int)]]
  BY <1>2
<1>4. \A f \in [0 .. Len(history) -> Seq(Int)] : \A k \in 1 .. Len(history) : g[k][f[k - 1]] = AfterEntry(f[k - 1], history[k])
  <2>. SUFFICES ASSUME NEW f \in [0 .. Len(history) -> Seq(Int)], NEW k \in 1 .. Len(history)
                PROVE  g[k][f[k - 1]] = AfterEntry(f[k - 1], history[k])
    OBVIOUS
  <2>1. k - 1 \in 0 .. Len(history)
    BY <1>2
  <2>2. f[k - 1] \in Seq(Int)
    BY <2>1
  <2>. QED
    BY <2>2
<1>. HIDE DEF g
<1>5. PICK f \in [0 .. Len(history) -> Seq(Int)] : f[0] = <<>> /\ \A k \in 1 .. Len(history) : f[k] = g[k][f[k - 1]]
  <2>1. Goes(Len(history), Seq(Int), <<>>, g)
    BY <1>2, <1>3, RecursionExists
  <2>. QED
    BY <2>1 DEF Goes
<1>6. \A k \in 1 .. Len(history) : f[k] = AfterEntry(f[k - 1], history[k])
  BY <1>4, <1>5
<1>7. Solves(f)
  <2>1. f = [k \in 0 .. Len(history) |-> f[k]]
    OBVIOUS
  <2>2. \A k \in 0 .. Len(history) : k # 0 => k \in 1 .. Len(history)
    BY <1>2
  <2>. QED
    BY <1>5, <1>6, <2>1, <2>2
<1>8. Solves(left)
  <2>. HIDE DEF Solves
  <2>. QED
    BY <1>7
<1>. HIDE DEF left
<1>9. left[0] = <<>> /\ \A k \in 1 .. Len(history) : left[k] = AfterEntry(left[k - 1], history[k])
  <2>1. 0 \in 0 .. Len(history) /\ \A k \in 1 .. Len(history) : k \in 0 .. Len(history) /\ k # 0
    BY <1>2
  <2>2. \A k \in 0 .. Len(history) : left[k] = IF k = 0 THEN <<>> ELSE AfterEntry(left[k - 1], history[k])
    BY <1>8, Zenon
  <2>. QED
    BY <2>1, <2>2, Zenon
<1>10. \A k \in 0 .. Len(history) : f[k] = left[k]
  <2>1. \A k \in 1 .. Len(history) : f[k - 1] = left[k - 1] => f[k] = left[k]
    BY <1>6, <1>9, Zenon
  <2>. QED
    <3>1. Len(history) \in Nat /\ f[0] = left[0]
      BY <1>2, <1>5, <1>9, Zenon
    <3>2. Alike(Len(history), f, left)
      BY <2>1, <3>1, Zenon DEF Alike
    <3>. QED
      BY <3>1, <3>2, RecursionAgrees, Zenon
<1>11. Len(history) \in 0 .. Len(history)
  BY <1>2
<1>. QED
  BY <1>1, <1>5, <1>6, <1>10, <1>11, Zenon

\* What holds at 0 and from each number to the next holds up to n.
LEMMA UpTo0n ==
  ASSUME NEW n \in Nat, NEW S, 0 \in S, \A k \in 1 .. n : k - 1 \in S => k \in S
  PROVE  \A k \in 0 .. n : k \in S
<1> DEFINE T == {k \in 0 .. n : k \notin S}
<1>. SUFFICES ASSUME T # {} PROVE FALSE
  OBVIOUS
<1>1. PICK m \in T : \A k \in T : m <= k
  <2>. T \in SUBSET Nat
    OBVIOUS
  <2>. HIDE DEF T
  <2>. QED
    BY LeastNat
<1>2. m \in 1 .. n /\ m - 1 \in 0 .. n /\ ~(m <= m - 1)
  OBVIOUS
<1>. QED
  BY <1>1, <1>2

LEMMA SameSeq ==
  ASSUME NEW s \in Seq(Int), NEW t \in Seq(Int), Len(s) = Len(t), \A k \in 1 .. Len(s) : s[k] = t[k]
  PROVE  s = t
  OBVIOUS

LEMMA JoinedInts ==
  ASSUME NEW s \in Seq(Int), NEW t \in Seq(Int)
  PROVE  /\ s \o t \in Seq(Int) /\ Len(s \o t) = Len(s) + Len(t)
         /\ \A k \in 1 .. Len(s) : (s \o t)[k] = s[k]
         /\ \A k \in (Len(s) + 1) .. (Len(s) + Len(t)) : (s \o t)[k] = t[k - Len(s)]
  OBVIOUS

LEMMA DroppedIs ==
  ASSUME NEW s \in Seq(Int), NEW n \in 0 .. Len(s)
  PROVE  /\ Dropped(s, n) \in Seq(Int) /\ Len(Dropped(s, n)) = Len(s) - n
         /\ \A k \in 1 .. (Len(s) - n) : Dropped(s, n)[k] = s[n + k]
  BY DEF Dropped

\* What is taken from the front of two rows, one after the other, is taken from the first.
LEMMA DroppedJoined ==
  ASSUME NEW s \in Seq(Int), NEW t \in Seq(Int), NEW n \in 0 .. Len(s)
  PROVE  Dropped(s \o t, n) = Dropped(s, n) \o t
<1> DEFINE u == s \o t
           d == Dropped(s, n)
           v == Dropped(u, n)
           w == d \o t
           a == Len(s)
           b == Len(t)
<1>1. a \in Nat /\ b \in Nat /\ n \in Nat /\ n <= a
  OBVIOUS
<1>2. /\ u \in Seq(Int) /\ Len(u) = a + b
      /\ \A k \in 1 .. a : u[k] = s[k]
      /\ \A k \in (a + 1) .. (a + b) : u[k] = t[k - a]
  BY JoinedInts
<1>3. d \in Seq(Int) /\ Len(d) = a - n /\ \A k \in 1 .. (a - n) : d[k] = s[n + k]
  BY DroppedIs
<1>. HIDE DEF u, d
<1>4. /\ w \in Seq(Int) /\ Len(w) = Len(d) + b
      /\ \A k \in 1 .. Len(d) : w[k] = d[k]
      /\ \A k \in (Len(d) + 1) .. (Len(d) + b) : w[k] = t[k - Len(d)]
  BY <1>3, JoinedInts
<1>5. n \in 0 .. Len(u)
  BY <1>1, <1>2
<1>6. v \in Seq(Int) /\ Len(v) = Len(u) - n /\ \A k \in 1 .. (Len(u) - n) : v[k] = u[n + k]
  BY <1>2, <1>5, DroppedIs
<1>. HIDE DEF v, w, a, b
<1>7. ASSUME NEW k \in 1 .. (a + b - n)
      PROVE  v[k] = w[k]
  <2>0. v[k] = u[n + k]
    <3>1. Len(u) - n = a + b - n
      BY <1>1, <1>2
    <3>. QED
      BY <1>6, <3>1
  <2>1. CASE k <= a - n
    <3>1. n + k \in 1 .. a /\ k \in 1 .. (a - n)
      BY <1>1, <2>1
    <3>2. u[n + k] = s[n + k] /\ d[k] = s[n + k] /\ w[k] = d[k]
      BY <1>2, <1>3, <1>4, <3>1
    <3>. QED
      BY <2>0, <3>2
  <2>2. CASE k > a - n
    <3>1. /\ n + k \in (a + 1) .. (a + b) /\ k \in (a - n + 1) .. (a - n + b)
          /\ (n + k) - a = k - (a - n)
      BY <1>1, <2>2
    <3>2. u[n + k] = t[(n + k) - a]
      BY <1>2, <3>1
    <3>3. w[k] = t[k - (a - n)]
      BY <1>3, <1>4, <3>1
    <3>. QED
      BY <2>0, <3>1, <3>2, <3>3
  <2>. QED
    BY <1>1, <2>1, <2>2
<1>8. Len(v) = Len(w) /\ Len(v) = a + b - n
  BY <1>1, <1>2, <1>3, <1>4, <1>6
<1>9. v = w
  BY <1>4, <1>6, <1>7, <1>8, SameSeq
<1>. QED
  BY <1>9 DEF u, v, w, d

-----------------------------------------------------------------------------
(* The cost basis: a sale *)

\* The tokens of the first k entries.
Heaps(inv, all) ==
  /\ all \in [0 .. Len(inv) -> Seq(Int)] /\ all[0] = <<>>
  /\ \A k \in 1 .. Len(inv) : all[k] = all[k - 1] \o Units(inv[k])

\* Every entry adds its quantity of tokens, of its price.
HeapStep(inv, all, k) ==
  /\ k - 1 \in 0 .. Len(inv) /\ k \in 0 .. Len(inv) /\ all[k - 1] \in Seq(Int) /\ all[k] \in Seq(Int)
  /\ Len(all[k - 1]) \in Nat /\ inv[k].quantity \in Nat \ {0} /\ inv[k].price \in Int
  /\ Units(inv[k]) \in Seq(Int) /\ Len(Units(inv[k])) = inv[k].quantity
  /\ \A j \in 1 .. inv[k].quantity : Units(inv[k])[j] = inv[k].price
  /\ all[k] = all[k - 1] \o Units(inv[k])
  /\ Len(all[k]) = Len(all[k - 1]) + inv[k].quantity

LEMMA HeapSteps ==
  ASSUME NEW inv \in Seq(Bought), NEW all, Heaps(inv, all), NEW k \in 1 .. Len(inv)
  PROVE  HeapStep(inv, all, k)
<1>1. k - 1 \in 0 .. Len(inv) /\ k \in 0 .. Len(inv) /\ inv[k] \in Bought /\ inv[k] \in Entries
  BY BoughtAreEntries
<1>2. all[k - 1] \in Seq(Int) /\ all[k] \in Seq(Int) /\ all[k] = all[k - 1] \o Units(inv[k])
  BY <1>1 DEF Heaps
<1>3. inv[k].quantity \in Nat \ {0} /\ inv[k].price \in Int
  BY <1>1 DEF Bought
<1>4. Size(inv[k]) = inv[k].quantity
  BY <1>1, <1>3, SizeIs
<1>5. /\ Units(inv[k]) \in Seq(Int) /\ Len(Units(inv[k])) = inv[k].quantity
      /\ \A j \in 1 .. inv[k].quantity : Units(inv[k])[j] = inv[k].price
  BY <1>1, <1>4, SizeIs
<1>6. Len(all[k]) = Len(all[k - 1]) + inv[k].quantity
  <2>1. Len(all[k - 1] \o Units(inv[k])) = Len(all[k - 1]) + Len(Units(inv[k]))
    BY <1>2, <1>5, JoinedInts, Zenon
  <2>. QED
    BY <1>2, <1>5, <2>1, Zenon
<1>7. Len(all[k - 1]) \in Nat
  BY <1>2
<1>. QED
  BY <1>1, <1>2, <1>3, <1>5, <1>6, <1>7 DEF HeapStep

LEMMA HeapsRise ==
  ASSUME NEW inv \in Seq(Bought), NEW all, Heaps(inv, all)
  PROVE  \A j, k \in 0 .. Len(inv) : j < k => Len(all[j]) < Len(all[k])
<1> DEFINE n == Len(inv)
           S == {k \in 0 .. n : \A j \in 0 .. n : j < k => Len(all[j]) < Len(all[k])}
<1>0. \A k \in 1 .. Len(inv) : Len(all[k]) = Len(all[k - 1]) + inv[k].quantity /\ inv[k].quantity \in Nat \ {0}
  <2>. TAKE k \in 1 .. Len(inv)
  <2>1. HeapStep(inv, all, k)
    BY HeapSteps
  <2>. QED
    BY <2>1 DEF HeapStep
<1>1. n \in Nat /\ \A k \in 0 .. n : Len(all[k]) \in Nat
  <2>1. \A k \in 0 .. n : all[k] \in Seq(Int)
    BY DEF Heaps
  <2>. QED
    BY <2>1
<1>2. 0 \in S
  BY <1>1
<1>3. ASSUME NEW k \in 1 .. n, k - 1 \in S
      PROVE  k \in S
  <2>1. /\ \A j \in 0 .. n : j < k - 1 => Len(all[j]) < Len(all[k - 1])
        /\ k \in 0 .. n /\ k - 1 \in 0 .. n
    BY <1>1, <1>3
  <2>2. Len(all[k - 1]) < Len(all[k])
    <3>1. Len(all[k]) = Len(all[k - 1]) + inv[k].quantity /\ inv[k].quantity \in Nat \ {0}
      BY <1>0
    <3>2. Len(all[k - 1]) \in Nat
      BY <1>1, <2>1
    <3>. QED
      BY <3>1, <3>2
  <2>3. ASSUME NEW j \in 0 .. n, j < k
        PROVE  Len(all[j]) < Len(all[k])
    <3>1. j < k - 1 \/ j = k - 1
      BY <2>3
    <3>2. Len(all[j]) \in Nat /\ Len(all[k - 1]) \in Nat /\ Len(all[k]) \in Nat
      BY <1>1, <2>1
    <3>. QED
      BY <2>1, <2>2, <3>1, <3>2
  <2>. HIDE DEF n
  <2>. QED
    BY <2>1, <2>3
<1>4. \A k \in 0 .. n : k \in S
  <2>. HIDE DEF S, n
  <2>. QED
    BY <1>1, <1>2, <1>3, UpTo0n
<1>. QED
  BY <1>4

\* What is taken of an entry: what the tokens in front of it leave of the size.
LEMMA TakenIs ==
  ASSUME NEW inv \in Seq(Bought), NEW all, Heaps(inv, all), NEW size \in Nat
  PROVE  /\ DOMAIN Taken(inv, size) = 1 .. Len(inv)
         /\ \A k \in 1 .. Len(inv) :
              Taken(inv, size)[k] = Smaller(NotBelow0(size - Len(all[k - 1])), inv[k].quantity)
<1> DEFINE Solves(f) == f = [k \in 0 .. Len(inv) |-> IF k = 0 THEN 0 ELSE f[k - 1] + inv[k].quantity]
           upTo == CHOOSE f : Solves(f)
           h == [k \in 0 .. Len(inv) |-> Len(all[k])]
<1>1. Taken(inv, size) = [k \in 1 .. Len(inv) |-> Smaller(NotBelow0(size - upTo[k - 1]), inv[k].quantity)]
  BY DEF Taken
<1>2. Len(inv) \in Nat
  OBVIOUS
<1>3. h[0] = 0 /\ \A k \in 1 .. Len(inv) : h[k] = h[k - 1] + inv[k].quantity
  <2>1. 0 \in 0 .. Len(inv) /\ Len(all[0]) = 0
    BY <1>2 DEF Heaps
  <2>2. ASSUME NEW k \in 1 .. Len(inv)
        PROVE  h[k] = h[k - 1] + inv[k].quantity
    BY HeapSteps DEF HeapStep
  <2>. QED
    BY <2>1, <2>2
<1>4. Solves(h)
  <2>1. h = [k \in 0 .. Len(inv) |-> h[k]]
    OBVIOUS
  <2>2. \A k \in 0 .. Len(inv) : k # 0 => k \in 1 .. Len(inv)
    BY <1>2
  <2>. HIDE DEF h
  <2>. QED
    BY <1>3, <2>1, <2>2
<1>5. Solves(upTo)
  <2>. HIDE DEF Solves
  <2>. QED
    BY <1>4
<1>. HIDE DEF upTo
<1>6. upTo[0] = 0 /\ \A k \in 1 .. Len(inv) : upTo[k] = upTo[k - 1] + inv[k].quantity
  <2>1. 0 \in 0 .. Len(inv) /\ \A k \in 1 .. Len(inv) : k \in 0 .. Len(inv) /\ k # 0
    BY <1>2
  <2>2. \A k \in 0 .. Len(inv) : upTo[k] = IF k = 0 THEN 0 ELSE upTo[k - 1] + inv[k].quantity
    BY <1>5, Zenon
  <2>. QED
    BY <2>1, <2>2, Zenon
<1>7. \A k \in 0 .. Len(inv) : upTo[k] = h[k]
  <2>. HIDE DEF h
  <2>1. \A k \in 1 .. Len(inv) : upTo[k - 1] = h[k - 1] => upTo[k] = h[k]
    BY <1>3, <1>6, Zenon
  <2>2. upTo[0] = h[0]
    BY <1>3, <1>6
  <2>3. Alike(Len(inv), upTo, h)
    BY <2>1, <2>2, Zenon DEF Alike
  <2>. QED
    BY <1>2, <2>3, RecursionAgrees
<1>8. \A k \in 1 .. Len(inv) : upTo[k - 1] = Len(all[k - 1])
  <2>1. \A k \in 1 .. Len(inv) : k - 1 \in 0 .. Len(inv)
    BY <1>2
  <2>. QED
    BY <1>7, <2>1
<1>. QED
  BY <1>1, <1>8

\* The entries up to m are sold, the next ones are not, or only in part.
Splits(inv, all, size, m) ==
  m \in 0 .. Len(inv) /\ Len(all[m]) <= size /\ \A k \in (m + 1) .. Len(inv) : size < Len(all[k])

LEMMA SplitExists ==
  ASSUME NEW inv \in Seq(Bought), NEW all, Heaps(inv, all), NEW size \in Nat
  PROVE  \E m : Splits(inv, all, size, m)
<1> DEFINE n == Len(inv)
           S == {k \in 0 .. n : size < Len(all[k])}
<1>1. n \in Nat /\ \A k \in 0 .. n : Len(all[k]) \in Nat
  <2>1. \A k \in 0 .. n : all[k] \in Seq(Int)
    BY DEF Heaps
  <2>. QED
    BY <2>1
<1>2. \A j, k \in 0 .. n : j < k => Len(all[j]) < Len(all[k])
  BY HeapsRise
<1>3. Len(all[0]) = 0
  BY DEF Heaps
<1>4. CASE S = {}
  <2>1. n \in 0 .. n /\ Len(all[n]) <= size
    <3>1. n \in 0 .. n /\ n \notin S
      BY <1>1, <1>4
    <3>. QED
      BY <1>1, <3>1
  <2>. QED
    BY <1>1, <2>1 DEF Splits
<1>5. CASE S # {}
  <2>1. PICK k \in S : \A j \in S : k <= j
    <3>. S \in SUBSET Nat
      BY <1>1
    <3>. HIDE DEF S
    <3>. QED
      BY <1>5, LeastNat
  <2>2. k \in 1 .. n /\ k - 1 \in 0 .. n /\ k - 1 \notin S /\ size < Len(all[k])
    BY <1>1, <1>3, <2>1
  <2>3. Len(all[k - 1]) <= size
    BY <1>1, <2>2
  <2>4. ASSUME NEW j \in ((k - 1) + 1) .. n
        PROVE  size < Len(all[j])
    <3>1. j \in 0 .. n /\ k \in 0 .. n /\ (j = k \/ k < j)
      BY <1>1, <2>2
    <3>2. Len(all[k]) \in Nat /\ Len(all[j]) \in Nat
      BY <1>1, <3>1
    <3>. QED
      BY <1>2, <2>2, <3>1, <3>2
  <2>. HIDE DEF n, S
  <2>5. Splits(inv, all, size, k - 1)
    BY <2>2, <2>3, <2>4 DEF Splits, n
  <2>. QED
    BY <2>5
<1>. QED
  BY <1>4, <1>5

\* So much is taken: all, a part of the next, nothing of the others.
LEMMA TakenSplit ==
  ASSUME NEW inv \in Seq(Bought), NEW all, Heaps(inv, all), NEW size \in Nat,
         NEW m, Splits(inv, all, size, m), NEW k \in 1 .. Len(inv)
  PROVE  /\ k <= m => Taken(inv, size)[k] = inv[k].quantity
         /\ k = m + 1 => /\ Taken(inv, size)[k] = size - Len(all[m])
                         /\ size - Len(all[m]) \in Nat /\ size - Len(all[m]) < inv[k].quantity
         /\ k > m + 1 => Taken(inv, size)[k] = 0
<1>1. HeapStep(inv, all, k)
  BY HeapSteps
<1>2. /\ k - 1 \in 0 .. Len(inv) /\ k \in 0 .. Len(inv)
      /\ Len(all[k - 1]) \in Nat /\ inv[k].quantity \in Nat \ {0}
      /\ Len(all[k]) = Len(all[k - 1]) + inv[k].quantity
  BY <1>1 DEF HeapStep
<1>3. Taken(inv, size)[k] = Smaller(NotBelow0(size - Len(all[k - 1])), inv[k].quantity)
  BY TakenIs
<1>4. \A i1, j1 \in 0 .. Len(inv) : i1 < j1 => Len(all[i1]) < Len(all[j1])
  BY HeapsRise
<1>5. \A j1 \in 0 .. Len(inv) : Len(all[j1]) \in Nat
  <2>1. \A j1 \in 0 .. Len(inv) : all[j1] \in Seq(Int)
    BY DEF Heaps
  <2>. QED
    BY <2>1
<1>6. m \in 0 .. Len(inv) /\ Len(all[m]) <= size /\ \A j1 \in (m + 1) .. Len(inv) : size < Len(all[j1])
  BY DEF Splits
<1>7. Len(inv) \in Nat
  OBVIOUS
<1>8. CASE k <= m
  <2>1. Len(all[k]) <= Len(all[m])
    BY <1>2, <1>4, <1>5, <1>6, <1>7, <1>8
  <2>2. Len(all[m]) \in Nat
    BY <1>5, <1>6
  <2>3. size - Len(all[k - 1]) >= inv[k].quantity
    BY <1>2, <1>6, <2>1, <2>2
  <2>. QED
    BY <1>2, <1>3, <1>6, <1>8, <2>3 DEF Smaller, NotBelow0
<1>9. CASE k = m + 1
  <2>1. k - 1 = m /\ size < Len(all[k])
    BY <1>6, <1>7, <1>9
  <2>2. size - Len(all[m]) \in Nat /\ size - Len(all[m]) < inv[k].quantity
    BY <1>2, <1>6, <2>1
  <2>. QED
    BY <1>2, <1>3, <1>6, <1>9, <2>1, <2>2 DEF Smaller, NotBelow0
<1>10. CASE k > m + 1
  <2>1. k - 1 \in (m + 1) .. Len(inv)
    BY <1>6, <1>7, <1>10
  <2>2. size < Len(all[k - 1])
    BY <1>6, <2>1
  <2>. QED
    BY <1>2, <1>3, <1>6, <1>10, <2>2 DEF Smaller, NotBelow0
<1>. QED
  BY <1>6, <1>8, <1>9, <1>10

\* What stays are the entries that are not sold, the first of them less what was taken.
LEMMA LeftIs ==
  ASSUME NEW inv \in Seq(Bought), NEW all, Heaps(inv, all), NEW size \in Nat,
         NEW m, Splits(inv, all, size, m)
  PROVE  /\ Left(inv, size) \in Seq(Bought) /\ Len(Left(inv, size)) = Len(inv) - m
         /\ \A j \in 1 .. (Len(inv) - m) :
              /\ m + j \in 1 .. Len(inv)
              /\ Left(inv, size)[j].price = inv[m + j].price
              /\ Left(inv, size)[j].quantity =
                   IF j = 1 THEN inv[m + j].quantity - (size - Len(all[m])) ELSE inv[m + j].quantity
<1> DEFINE n == Len(inv)
           taken == Taken(inv, size)
           gone == {k \in DOMAIN inv : taken[k] = inv[k].quantity}
           rest == [k \in DOMAIN inv |-> [inv[k] EXCEPT !.quantity = @ - taken[k]]]
           left == SubSeq(rest, Cardinality(gone) + 1, n)
<1>1. Left(inv, size) = left
  BY DEF Left
<1>2. n \in Nat /\ DOMAIN inv = 1 .. n /\ m \in 0 .. n
  BY DEF Splits
<1>3. \A k \in 1 .. n : inv[k] \in Bought /\ inv[k].quantity \in Nat \ {0} /\ inv[k].price \in Int
  <2>1. \A k \in 1 .. n : inv[k] \in Bought
    OBVIOUS
  <2>. QED
    BY <2>1 DEF Bought
<1>4. ASSUME NEW k \in 1 .. n
      PROVE  /\ k <= m => taken[k] = inv[k].quantity
             /\ k = m + 1 => /\ taken[k] = size - Len(all[m])
                             /\ size - Len(all[m]) \in Nat /\ size - Len(all[m]) < inv[k].quantity
             /\ k > m + 1 => taken[k] = 0
  BY TakenSplit
<1>. HIDE DEF taken
<1>5. \A k \in 1 .. n : /\ taken[k] \in 0 .. inv[k].quantity
                        /\ (taken[k] = inv[k].quantity <=> k <= m)
  <2>. TAKE k \in 1 .. n
  <2>1. k <= m \/ k = m + 1 \/ k > m + 1
    BY <1>2
  <2>. HIDE DEF n
  <2>. QED
    BY <1>2, <1>3, <1>4, <2>1
<1>6. gone = 1 .. m
  <2>. HIDE DEF n
  <2>1. \A k \in gone : k \in 1 .. m
    BY <1>2, <1>5
  <2>2. \A k \in 1 .. m : k \in gone
    BY <1>2, <1>5
  <2>. HIDE DEF gone
  <2>. QED
    BY <2>1, <2>2
<1>7. Cardinality(gone) = m
  <2>1. m \in Nat /\ Cardinality(1 .. m) = m
    BY <1>2, FS_Interval
  <2>. HIDE DEF gone
  <2>. QED
    BY <1>6, <2>1
<1> DEFINE Kept == [quantity : Nat, price : Int]
<1>8. /\ rest \in Seq(Kept) /\ Len(rest) = n
      /\ \A k \in 1 .. n : rest[k].price = inv[k].price /\ rest[k].quantity = inv[k].quantity - taken[k]
  <2>1. ASSUME NEW k \in 1 .. n
        PROVE  /\ [inv[k] EXCEPT !.quantity = @ - taken[k]] \in Kept
               /\ [inv[k] EXCEPT !.quantity = @ - taken[k]].price = inv[k].price
               /\ [inv[k] EXCEPT !.quantity = @ - taken[k]].quantity = inv[k].quantity - taken[k]
    <3>1. inv[k] \in [quantity : Nat \ {0}, price : Int] /\ taken[k] \in 0 .. inv[k].quantity
      BY <1>3, <1>5 DEF Bought
    <3>. QED
      BY <3>1
  <2>2. rest \in [1 .. n -> Kept]
    <3>. HIDE DEF Kept
    <3>. QED
      BY <1>2, <2>1
  <2>3. rest \in Seq(Kept) /\ Len(rest) = n
    <3>. HIDE DEF Kept, rest, n
    <3>. QED
      BY <1>2, <2>2
  <2>. QED
    BY <1>2, <2>1, <2>3
<1>. HIDE DEF gone, rest, n, Kept
<1>9. /\ left \in Seq(Kept) /\ Len(left) = n - m
      /\ \A j \in 1 .. (n - m) : left[j] = rest[m + j]
  <2>1. left = SubSeq(rest, m + 1, n)
    BY <1>7
  <2>. HIDE DEF left
  <2>. QED
    BY <1>2, <1>8, <2>1
<1>. HIDE DEF left
<1>10. ASSUME NEW j \in 1 .. (n - m)
       PROVE  /\ m + j \in 1 .. n /\ left[j].price = inv[m + j].price
              /\ left[j].quantity = IF j = 1 THEN inv[m + j].quantity - (size - Len(all[m])) ELSE inv[m + j].quantity
              /\ left[j] \in Bought
  <2>1. m + j \in 1 .. n /\ (j = 1 => m + j = m + 1) /\ (j # 1 => m + j > m + 1) /\ m + j > m
    BY <1>2
  <2>2. /\ left[j].price = inv[m + j].price
        /\ left[j].quantity = inv[m + j].quantity - taken[m + j]
    BY <1>8, <1>9, <2>1
  <2>3. inv[m + j].quantity \in Nat \ {0} /\ inv[m + j].price \in Int
    BY <1>3, <2>1
  <2>4. IF j = 1 THEN taken[m + j] = size - Len(all[m]) ELSE taken[m + j] = 0
    BY <1>4, <2>1
  <2>5. taken[m + j] \in 0 .. inv[m + j].quantity /\ taken[m + j] # inv[m + j].quantity
    BY <1>2, <1>5, <2>1
  <2>6. left[j] \in Kept
    BY <1>2, <1>9
  <2>7. left[j] \in Bought
    BY <2>2, <2>3, <2>5, <2>6 DEF Kept, Bought
  <2>. QED
    BY <2>1, <2>2, <2>3, <2>4, <2>7
<1>11. left \in Seq(Bought)
  <2>1. Len(left) \in Nat /\ left = [j \in 1 .. Len(left) |-> left[j]]
    BY <1>9
  <2>2. \A j \in 1 .. Len(left) : left[j] \in Bought
    BY <1>9, <1>10
  <2>. QED
    BY <2>1, <2>2
<1>. QED
  BY <1>1, <1>9, <1>10, <1>11 DEF n

\* The heaps of an inventory.
LEMMA HeapsExist ==
  ASSUME NEW inv \in Seq(Bought)
  PROVE  \E all : Heaps(inv, all) /\ Unpacked(inv) = all[Len(inv)]
<1>1. inv \in Seq(Entries)
  BY BoughtAreEntries
<1>. QED
  BY <1>1, UnpackedIs DEF Heaps

\* What stays is what the reference leaves, if there is enough.
LEMMA LeftUnpacked ==
  ASSUME NEW inv \in Seq(Bought), NEW size \in Nat, size <= Len(Unpacked(inv))
  PROVE  Unpacked(Left(inv, size)) = Dropped(Unpacked(inv), size)
<1>1. PICK all : Heaps(inv, all) /\ Unpacked(inv) = all[Len(inv)]
  BY HeapsExist
<1>2. PICK m : Splits(inv, all, size, m)
  BY <1>1, SplitExists
<1> DEFINE n == Len(inv)
           left == Left(inv, size)
<1>3. /\ left \in Seq(Bought) /\ Len(left) = n - m
      /\ \A j \in 1 .. (n - m) :
           /\ m + j \in 1 .. n /\ left[j].price = inv[m + j].price
           /\ left[j].quantity = IF j = 1 THEN inv[m + j].quantity - (size - Len(all[m])) ELSE inv[m + j].quantity
  BY <1>1, <1>2, LeftIs
<1>4. n \in Nat /\ m \in 0 .. n /\ n - m \in Nat
  BY <1>2 DEF Splits
<1>5. Len(all[m]) <= size /\ \A k \in (m + 1) .. n : size < Len(all[k])
  BY <1>2 DEF Splits
<1>. HIDE DEF left
<1>6. PICK rest : Heaps(left, rest) /\ Unpacked(left) = rest[Len(left)]
  BY <1>3, HeapsExist
<1>7. /\ all[m] \in Seq(Int) /\ all[n] \in Seq(Int)
      /\ rest[0] = <<>> /\ rest[Len(left)] \in Seq(Int)
  <2>1. all \in [0 .. n -> Seq(Int)] /\ rest \in [0 .. Len(left) -> Seq(Int)] /\ rest[0] = <<>>
    BY <1>1, <1>6 DEF Heaps
  <2>2. n \in 0 .. n /\ Len(left) \in 0 .. Len(left)
    BY <1>3, <1>4
  <2>. QED
    BY <1>4, <2>1, <2>2
<1>. HIDE DEF n
<1>8. CASE m = n
  <2>1. Len(left) = 0 /\ Unpacked(left) = <<>>
    BY <1>3, <1>4, <1>6, <1>7, <1>8
  <2>2. size = Len(all[n]) /\ size \in 0 .. Len(all[n])
    BY <1>1, <1>5, <1>7, <1>8 DEF n
  <2>3. Dropped(all[n], size) \in Seq(Int) /\ Len(Dropped(all[n], size)) = 0
    <3>1. Dropped(all[n], size) \in Seq(Int) /\ Len(Dropped(all[n], size)) = Len(all[n]) - size
      BY <1>7, <2>2, DroppedIs, Zenon
    <3>. QED
      BY <1>7, <2>2, <3>1
  <2>4. Dropped(all[n], size) = <<>>
    BY <2>3
  <2>. QED
    BY <1>1, <2>1, <2>4 DEF n, left
<1>9. CASE m # n
  <2>1. ASSUME NEW j \in 1 .. (n - m)
        PROVE  /\ m + j \in 1 .. n /\ HeapStep(inv, all, m + j) /\ HeapStep(left, rest, j)
               /\ size < Len(all[m + j]) /\ m + (j - 1) = (m + j) - 1
    <3>1. m + j \in 1 .. Len(inv) /\ j \in 1 .. Len(left)
      BY <1>3 DEF n
    <3>2. HeapStep(inv, all, m + j)
      BY <1>1, <3>1, HeapSteps
    <3>3. HeapStep(left, rest, j)
      BY <1>3, <1>6, <3>1, HeapSteps
    <3>4. size < Len(all[m + j])
      BY <1>4, <1>5, <3>1 DEF n
    <3>. QED
      BY <1>4, <3>1, <3>2, <3>3, <3>4 DEF n
  <2> DEFINE S == {0} \cup {j \in 1 .. (n - m) : rest[j] = Dropped(all[m + j], size)}
  <2>2. 1 \in 1 .. (n - m)
    BY <1>4, <1>9
  <2>3. rest[1] = Dropped(all[m + 1], size)
    <3> DEFINE u == Units(left[1])
               d == Dropped(all[m + 1], size)
               q == inv[m + 1].quantity
    <3>1. /\ all[m] \in Seq(Int) /\ all[m + 1] \in Seq(Int) /\ all[m + 1] = all[m] \o Units(inv[m + 1])
          /\ Units(inv[m + 1]) \in Seq(Int) /\ Len(Units(inv[m + 1])) = q
          /\ \A i1 \in 1 .. q : Units(inv[m + 1])[i1] = inv[m + 1].price
          /\ Len(all[m + 1]) = Len(all[m]) + q /\ q \in Nat \ {0}
      <4>1. HeapStep(inv, all, m + 1) /\ (m + 1) - 1 = m
        BY <1>4, <2>1, <2>2
      <4>. QED
        BY <4>1 DEF HeapStep
    <3>2. /\ u \in Seq(Int) /\ Len(u) = left[1].quantity
          /\ \A i1 \in 1 .. left[1].quantity : u[i1] = left[1].price
          /\ rest[1] = <<>> \o u
      <4>1. HeapStep(left, rest, 1) /\ 1 - 1 = 0
        BY <2>1, <2>2
      <4>. QED
        BY <1>7, <4>1 DEF HeapStep
    <3>3. left[1].price = inv[m + 1].price /\ left[1].quantity = q - (size - Len(all[m]))
      BY <1>3, <2>2
    <3>4. size \in 0 .. Len(all[m + 1]) /\ Len(all[m]) \in Nat
      <4>1. size < Len(all[m + 1])
        BY <2>1, <2>2, Zenon
      <4>2. Len(all[m + 1]) \in Nat /\ Len(all[m]) \in Nat
        BY <3>1
      <4>. QED
        BY <4>1, <4>2
    <3>5. d \in Seq(Int) /\ Len(d) = Len(all[m + 1]) - size /\ \A i1 \in 1 .. (Len(all[m + 1]) - size) : d[i1] = all[m + 1][size + i1]
      BY <3>1, <3>4, DroppedIs
    <3>6. /\ Len(all[m] \o Units(inv[m + 1])) = Len(all[m]) + q
          /\ \A i1 \in (Len(all[m]) + 1) .. (Len(all[m]) + q) :
               (all[m] \o Units(inv[m + 1]))[i1] = Units(inv[m + 1])[i1 - Len(all[m])]
      <4> DEFINE a == all[m]
                 v == Units(inv[m + 1])
      <4>1. a \in Seq(Int) /\ v \in Seq(Int) /\ Len(v) = q
        BY <3>1
      <4>. HIDE DEF a, v
      <4>2. /\ Len(a \o v) = Len(a) + Len(v)
            /\ \A i1 \in (Len(a) + 1) .. (Len(a) + Len(v)) : (a \o v)[i1] = v[i1 - Len(a)]
        BY <4>1, JoinedInts
      <4>. QED
        BY <4>1, <4>2 DEF a, v
    <3>7. rest[1] = u
      BY <3>2
    <3>. HIDE DEF u, d, q
    <3>8. Len(d) = Len(u)
      BY <3>1, <3>2, <3>3, <3>4, <3>5
    <3>9. ASSUME NEW i1 \in 1 .. Len(d)
          PROVE  d[i1] = u[i1]
      <4>1. i1 \in 1 .. (Len(all[m + 1]) - size) /\ i1 \in 1 .. left[1].quantity
        <5>1. Len(d) = Len(all[m + 1]) - size /\ Len(d) = left[1].quantity
          BY <3>2, <3>5, <3>8
        <5>. QED
          BY <3>9, <5>1
      <4>2. /\ size + i1 \in (Len(all[m]) + 1) .. (Len(all[m]) + q)
            /\ (size + i1) - Len(all[m]) \in 1 .. q
        BY <1>5, <3>1, <3>4, <4>1
      <4>3. d[i1] = all[m + 1][size + i1]
        BY <3>5, <4>1
      <4>4. all[m + 1][size + i1] = Units(inv[m + 1])[(size + i1) - Len(all[m])]
        BY <3>1, <3>6, <4>2
      <4>5. Units(inv[m + 1])[(size + i1) - Len(all[m])] = inv[m + 1].price
        BY <3>1, <4>2
      <4>6. u[i1] = left[1].price
        BY <3>2, <4>1
      <4>. QED
        BY <3>3, <4>3, <4>4, <4>5, <4>6
    <3>10. d = u
      BY <3>2, <3>5, <3>8, <3>9, SameSeq
    <3>. QED
      BY <3>7, <3>10 DEF d
  <2>4. ASSUME NEW j \in 1 .. (n - m), j - 1 \in S
        PROVE  j \in S
    <3>1. CASE j = 1
      BY <2>2, <2>3, <3>1
    <3>2. CASE j # 1
      <4>1. rest[j - 1] = Dropped(all[(m + j) - 1], size) /\ j - 1 \in 1 .. (n - m)
        <5>1. j - 1 # 0 /\ m + (j - 1) = (m + j) - 1
          BY <1>4, <3>2
        <5>. QED
          BY <2>4, <5>1
      <4>2. Units(left[j]) = Units(inv[m + j])
        <5>1. left[j].price = inv[m + j].price /\ left[j].quantity = inv[m + j].quantity
          BY <1>3, <3>2
        <5>. QED
          BY <5>1 DEF Units, Size
      <4>3. rest[j] = rest[j - 1] \o Units(left[j])
        BY <2>1 DEF HeapStep
      <4>4. /\ all[m + j] = all[(m + j) - 1] \o Units(inv[m + j])
            /\ all[(m + j) - 1] \in Seq(Int) /\ Units(inv[m + j]) \in Seq(Int)
        BY <2>1 DEF HeapStep
      <4>5. size \in 0 .. Len(all[(m + j) - 1])
        <5>1. size < Len(all[m + (j - 1)]) /\ m + (j - 1) = (m + j) - 1
          BY <2>1, <4>1, <1>4
        <5>. QED
          BY <4>4, <5>1
      <4>6. Dropped(all[m + j], size) = Dropped(all[(m + j) - 1], size) \o Units(inv[m + j])
        BY <4>4, <4>5, DroppedJoined
      <4>. QED
        BY <4>1, <4>2, <4>3, <4>6
    <3>. QED
      BY <3>1, <3>2
  <2>5. 0 \in S /\ n - m \in Nat
    BY <1>4
  <2>6. \A j \in 0 .. (n - m) : j \in S
    <3>. HIDE DEF S
    <3>. QED
      BY <2>4, <2>5, UpTo0n
  <2>7. rest[n - m] = Dropped(all[m + (n - m)], size)
    <3>1. n - m \in S /\ n - m # 0
      BY <1>4, <1>9, <2>6
    <3>. QED
      BY <3>1
  <2>8. m + (n - m) = n
    BY <1>4
  <2>. QED
    BY <1>1, <1>3, <1>6, <2>7, <2>8 DEF n, left
<1>. QED
  BY <1>8, <1>9

LEMMA UnpackedType ==
  ASSUME NEW inv \in Seq(Bought)
  PROVE  Unpacked(inv) \in Seq(Int) /\ Len(Unpacked(inv)) \in Nat
<1>1. inv \in Seq(Entries) /\ Len(inv) \in 0 .. Len(inv)
  BY BoughtAreEntries
<1>2. Unpacked(inv) \in Seq(Int)
  BY <1>1, UnpackedIs
<1>. QED
  BY <1>2

LEMMA UnpackedEmpty == Unpacked(<<>>) = <<>>
<1>1. <<>> \in Seq(Bought) /\ Len(<<>>) = 0
  OBVIOUS
<1>2. PICK all : Heaps(<<>>, all) /\ Unpacked(<<>>) = all[Len(<<>>)]
  BY <1>1, HeapsExist
<1>. QED
  BY <1>1, <1>2 DEF Heaps

LEMMA UnpackedAppend ==
  ASSUME NEW inv \in Seq(Bought), NEW e \in Bought
  PROVE  Unpacked(Append(inv, e)) = Unpacked(inv) \o Units(e)
<1> DEFINE more == Append(inv, e)
           n == Len(inv)
<1>1. /\ n \in Nat /\ more \in Seq(Bought) /\ Len(more) = n + 1 /\ more[n + 1] = e
      /\ \A k \in 1 .. n : more[k] = inv[k]
  OBVIOUS
<1>2. PICK all : Heaps(inv, all) /\ Unpacked(inv) = all[n]
  BY HeapsExist
<1>. HIDE DEF more, n
<1>3. PICK all2 : Heaps(more, all2) /\ Unpacked(more) = all2[n + 1]
  BY <1>1, HeapsExist
<1>4. all[0] = <<>> /\ \A k \in 1 .. n : all[k] = all[k - 1] \o Units(inv[k])
  BY <1>2 DEF Heaps, n
<1>5. /\ all2[0] = <<>> /\ \A k \in 1 .. n : all2[k] = all2[k - 1] \o Units(inv[k])
      /\ all2[n + 1] = all2[n] \o Units(e)
  <2>1. all2[0] = <<>> /\ \A k \in 1 .. (n + 1) : all2[k] = all2[k - 1] \o Units(more[k])
    BY <1>1, <1>3 DEF Heaps
  <2>2. (n + 1) - 1 = n /\ n + 1 \in 1 .. (n + 1) /\ \A k \in 1 .. n : k \in 1 .. (n + 1)
    BY <1>1
  <2>. QED
    BY <1>1, <2>1, <2>2
<1>6. \A k \in 0 .. n : all[k] = all2[k]
  <2>1. \A k \in 1 .. n : all[k - 1] = all2[k - 1] => all[k] = all2[k]
    BY <1>4, <1>5, Zenon
  <2>2. n \in Nat /\ all[0] = all2[0]
    BY <1>1, <1>4, <1>5, Zenon
  <2>3. Alike(n, all, all2)
    BY <2>1, <2>2, Zenon DEF Alike
  <2>. QED
    BY <2>2, <2>3, RecursionAgrees, Zenon
<1>7. all[n] = all2[n]
  BY <1>1, <1>6
<1>. QED
  BY <1>2, <1>3, <1>5, <1>7 DEF more

\* The rows of tokens that the entries leave, one after another.
Leaves(history, left) ==
  /\ left \in [0 .. Len(history) -> Seq(Int)] /\ left[0] = <<>>
  /\ \A k \in 1 .. Len(history) : left[k] = AfterEntry(left[k - 1], history[k])

LEMMA LeavesExist ==
  ASSUME NEW history \in Seq(Entries)
  PROVE  /\ \E left : Leaves(history, left) /\ UnitsLeft(history) = left[Len(history)]
         /\ UnitsLeft(history) \in Seq(Int) /\ Len(UnitsLeft(history)) \in Nat
<1>1. PICK left : Leaves(history, left) /\ UnitsLeft(history) = left[Len(history)]
  BY UnitsLeftIs DEF Leaves
<1>2. UnitsLeft(history) \in Seq(Int)
  <2>1. Len(history) \in 0 .. Len(history)
    OBVIOUS
  <2>. QED
    BY <1>1, <2>1 DEF Leaves
<1>. QED
  BY <1>1, <1>2

LEMMA UnitsLeftAppend ==
  ASSUME NEW history \in Seq(Entries), NEW e \in Entries
  PROVE  UnitsLeft(Append(history, e)) = AfterEntry(UnitsLeft(history), e)
<1> DEFINE more == Append(history, e)
           n == Len(history)
<1>1. /\ n \in Nat /\ more \in Seq(Entries) /\ Len(more) = n + 1 /\ more[n + 1] = e
      /\ \A k \in 1 .. n : more[k] = history[k]
  OBVIOUS
<1>2. PICK all : Leaves(history, all) /\ UnitsLeft(history) = all[n]
  BY LeavesExist
<1>. HIDE DEF more, n
<1>3. PICK all2 : Leaves(more, all2) /\ UnitsLeft(more) = all2[n + 1]
  BY <1>1, LeavesExist
<1>4. all[0] = <<>> /\ \A k \in 1 .. n : all[k] = AfterEntry(all[k - 1], history[k])
  BY <1>2 DEF Leaves, n
<1>5. /\ all2[0] = <<>> /\ \A k \in 1 .. n : all2[k] = AfterEntry(all2[k - 1], history[k])
      /\ all2[n + 1] = AfterEntry(all2[n], e)
  <2>1. all2[0] = <<>> /\ \A k \in 1 .. (n + 1) : all2[k] = AfterEntry(all2[k - 1], more[k])
    BY <1>1, <1>3 DEF Leaves
  <2>2. (n + 1) - 1 = n /\ n + 1 \in 1 .. (n + 1) /\ \A k \in 1 .. n : k \in 1 .. (n + 1)
    BY <1>1
  <2>. QED
    BY <1>1, <2>1, <2>2
<1>6. \A k \in 0 .. n : all[k] = all2[k]
  <2>1. \A k \in 1 .. n : all[k - 1] = all2[k - 1] => all[k] = all2[k]
    BY <1>4, <1>5, Zenon
  <2>2. n \in Nat /\ all[0] = all2[0]
    BY <1>1, <1>4, <1>5, Zenon
  <2>3. Alike(n, all, all2)
    BY <2>1, <2>2, Zenon DEF Alike
  <2>. QED
    BY <2>2, <2>3, RecursionAgrees, Zenon
<1>7. all[n] = all2[n]
  BY <1>1, <1>6
<1>. QED
  BY <1>2, <1>3, <1>5, <1>7 DEF more

-----------------------------------------------------------------------------
(* The cost basis: the queues *)

\* A queue that holds what is left of what was bought.
Fifos == [balance : Nat, inventory : Seq(Bought), history : Seq(Entries)]
Kept  == {fifo \in Fifos : QueueKept(fifo)}

LEMMA EmptyKept == EmptyFifo \in Kept
<1>1. EmptyFifo \in Fifos /\ EmptyFifo.inventory = <<>> /\ EmptyFifo.history = <<>> /\ EmptyFifo.balance = 0
  BY DEF EmptyFifo, Fifos
<1>2. UnitsLeft(<<>>) = <<>>
  <2>1. <<>> \in Seq(Entries) /\ Len(<<>>) = 0
    OBVIOUS
  <2>2. PICK left : Leaves(<<>>, left) /\ UnitsLeft(<<>>) = left[Len(<<>>)]
    BY <2>1, LeavesExist
  <2>. QED
    BY <2>1, <2>2 DEF Leaves
<1>3. Len(<<>>) = 0
  OBVIOUS
<1>. QED
  BY <1>1, <1>2, <1>3, UnpackedEmpty DEF Kept, QueueKept

LEMMA BuyKeeps ==
  ASSUME NEW fifo \in Kept, NEW e \in Entries, e.quantity > 0
  PROVE  Buy(fifo, e) \in Kept
<1>1. /\ fifo.balance \in Nat /\ fifo.inventory \in Seq(Bought) /\ fifo.history \in Seq(Entries)
      /\ Unpacked(fifo.inventory) = UnitsLeft(fifo.history) /\ fifo.balance = Len(UnitsLeft(fifo.history))
  BY DEF Kept, Fifos, QueueKept
<1>2. e \in Bought /\ Size(e) \in Nat /\ Units(e) \in Seq(Int) /\ Len(Units(e)) = Size(e)
  BY SizeIs
<1> DEFINE next == Buy(fifo, e)
<1>3. /\ next.balance = fifo.balance + Size(e) /\ next.inventory = Append(fifo.inventory, e)
      /\ next.history = Append(fifo.history, e) /\ next \in Fifos
  BY <1>1, <1>2 DEF Buy, Fifos
<1>4. Unpacked(next.inventory) = Unpacked(fifo.inventory) \o Units(e)
  BY <1>1, <1>2, <1>3, UnpackedAppend
<1>5. UnitsLeft(next.history) = UnitsLeft(fifo.history) \o Units(e)
  BY <1>1, <1>3, UnitsLeftAppend DEF AfterEntry
<1>6. Len(UnitsLeft(fifo.history) \o Units(e)) = Len(UnitsLeft(fifo.history)) + Size(e)
  <2>1. UnitsLeft(fifo.history) \in Seq(Int)
    BY <1>1, LeavesExist
  <2>. QED
    BY <1>2, <2>1, JoinedInts, Zenon
<1>. HIDE DEF next
<1>7. QueueKept(next)
  BY <1>1, <1>3, <1>4, <1>5, <1>6 DEF QueueKept
<1>. QED
  BY <1>3, <1>7 DEF Kept, next

LEMMA SellKeeps ==
  ASSUME NEW fifo \in Kept, NEW e \in Entries, ~(e.quantity > 0)
  PROVE  Sell(fifo, e) \in Kept
<1>1. /\ fifo.balance \in Nat /\ fifo.inventory \in Seq(Bought) /\ fifo.history \in Seq(Entries)
      /\ Unpacked(fifo.inventory) = UnitsLeft(fifo.history) /\ fifo.balance = Len(UnitsLeft(fifo.history))
  BY DEF Kept, Fifos, QueueKept
<1>2. Size(e) \in Nat
  BY SizeIs
<1> DEFINE next == Sell(fifo, e)
           units == UnitsLeft(fifo.history)
           size == Size(e)
<1>3. units \in Seq(Int) /\ Len(units) \in Nat
  BY <1>1, LeavesExist
<1>4. next.history = Append(fifo.history, e) /\ next.history \in Seq(Entries)
  BY <1>1 DEF Sell
<1>5. UnitsLeft(next.history) = Dropped(units, Smaller(size, Len(units)))
  BY <1>1, <1>4, UnitsLeftAppend DEF AfterEntry
<1>. HIDE DEF units, size
<1>6. CASE fifo.balance >= size
  <2>1. /\ next.balance = fifo.balance - size /\ next.inventory = Left(fifo.inventory, size)
        /\ next = [balance |-> next.balance, inventory |-> next.inventory, history |-> next.history]
    BY <1>6 DEF Sell, size
  <2>. HIDE DEF next
  <2>2. Smaller(size, Len(units)) = size /\ size \in 0 .. Len(units)
    BY <1>1, <1>2, <1>3, <1>6 DEF Smaller, size, units
  <2>3. Unpacked(next.inventory) = Dropped(units, size)
    <3>1. size \in Nat /\ size <= Len(Unpacked(fifo.inventory))
      BY <1>1, <1>2, <2>2 DEF size, units
    <3>. QED
      BY <1>1, <2>1, <3>1, LeftUnpacked DEF units
  <2>4. next.inventory \in Seq(Bought)
    <3>1. PICK all : Heaps(fifo.inventory, all)
      BY <1>1, HeapsExist
    <3>2. size \in Nat
      BY <1>2 DEF size
    <3>3. PICK m : Splits(fifo.inventory, all, size, m)
      BY <1>1, <3>1, <3>2, SplitExists
    <3>. QED
      BY <1>1, <2>1, <3>1, <3>2, <3>3, LeftIs
  <2>5. Len(Dropped(units, size)) = Len(units) - size
    BY <1>3, <2>2, DroppedIs
  <2>6. next.balance = Len(Dropped(units, size)) /\ next.balance \in Nat
    BY <1>1, <1>3, <2>1, <2>2, <2>5 DEF units
  <2>7. QueueKept(next)
    BY <1>5, <2>2, <2>3, <2>6 DEF QueueKept
  <2>8. next \in Fifos
    <3>1. [balance |-> next.balance, inventory |-> next.inventory, history |-> next.history] \in Fifos
      BY <1>4, <2>4, <2>6 DEF Fifos
    <3>. QED
      BY <2>1, <3>1, Zenon
  <2>. QED
    BY <2>7, <2>8 DEF Kept, next
<1>7. CASE ~(fifo.balance >= size)
  <2>1. /\ next.balance = 0 /\ next.inventory = <<>>
        /\ next = [balance |-> next.balance, inventory |-> next.inventory, history |-> next.history]
    BY <1>7 DEF Sell, size
  <2>. HIDE DEF next
  <2>2. Smaller(size, Len(units)) = Len(units) /\ Len(units) \in 0 .. Len(units)
    BY <1>1, <1>2, <1>3, <1>7 DEF Smaller, size, units
  <2>3. Dropped(units, Len(units)) = <<>>
    <3>1. Dropped(units, Len(units)) \in Seq(Int) /\ Len(Dropped(units, Len(units))) = Len(units) - Len(units)
      BY <1>3, <2>2, DroppedIs, Zenon
    <3>2. Len(Dropped(units, Len(units))) = 0
      BY <1>3, <3>1
    <3>. QED
      BY <3>1, <3>2
  <2>4. Len(<<>>) = 0 /\ <<>> \in Seq(Bought)
    OBVIOUS
  <2>5. QueueKept(next)
    BY <1>5, <2>1, <2>2, <2>3, <2>4, UnpackedEmpty DEF QueueKept
  <2>6. next \in Fifos
    <3>1. [balance |-> 0, inventory |-> <<>>, history |-> next.history] \in Fifos
      BY <1>4, <2>4 DEF Fifos
    <3>. QED
      BY <2>1, <3>1
  <2>. QED
    BY <2>5, <2>6 DEF Kept, next
<1>. QED
  BY <1>6, <1>7

\* The queues of some tokens.
Trackers(ids) == UNION {[known -> Kept] : known \in SUBSET ids}

LEMMA PushKeeps ==
  ASSUME NEW ids, NEW tracker \in Trackers(ids), NEW pushed, pushed.id \in ids, pushed.entry \in Entries
  PROVE  Push(tracker, pushed) \in Trackers(ids)
<1>1. PICK known \in SUBSET ids : tracker \in [known -> Kept]
  BY DEF Trackers
<1> DEFINE fifo == FifoOf(tracker, pushed.id)
           next == IF pushed.entry.quantity > 0 THEN Buy(fifo, pushed.entry) ELSE Sell(fifo, pushed.entry)
           after == [id \in known \cup {pushed.id} |-> IF id = pushed.id THEN next ELSE tracker[id]]
<1>2. Push(tracker, pushed) = after
  BY <1>1 DEF Push
<1>3. fifo \in Kept
  BY <1>1, EmptyKept DEF FifoOf
<1>. HIDE DEF fifo
<1>4. next \in Kept
  BY <1>3, BuyKeeps, SellKeeps
<1>. HIDE DEF next
<1>5. after \in [known \cup {pushed.id} -> Kept]
  BY <1>1, <1>4
<1>6. known \cup {pushed.id} \in SUBSET ids
  OBVIOUS
<1>. HIDE DEF after
<1>. QED
  BY <1>2, <1>5, <1>6 DEF Trackers

\* Whatever is bought and sold, in any order and amounts, every queue holds what is left
\* of what was bought, in the order it came, and knows how much (FIFO.push).
LEMMA PushAllKeeps ==
  ASSUME NEW ids, NEW tracker \in Trackers(ids), NEW all, IsSeq(all),
         \A k \in DOMAIN all : all[k].id \in ids /\ all[k].entry \in Entries
  PROVE  /\ PushAll(tracker, all) \in Trackers(ids)
         /\ \A id \in DOMAIN PushAll(tracker, all) : QueueKept(PushAll(tracker, all)[id])
<1> DEFINE n == Len(all)
           V == Trackers(ids)
           g == [k \in 1 .. n |-> [t \in V |-> Push(t, all[k])]]
           Solves(f) == f = [k \in 0 .. n |-> IF k = 0 THEN tracker ELSE Push(f[k - 1], all[k])]
           done == CHOOSE f : Solves(f)
<1>1. PushAll(tracker, all) = done[n]
  BY DEF PushAll
<1>2. n \in Nat /\ DOMAIN all = 1 .. n
  BY IsSeqType
<1>. HIDE DEF n, V
<1>3. \A k \in 1 .. n : \A t \in V : Push(t, all[k]) \in V
  BY <1>2, PushKeeps DEF V
<1>4. tracker \in V /\ g \in [1 .. n -> [V -> V]]
  BY <1>3 DEF V
<1>5. \A f \in [0 .. n -> V] : \A k \in 1 .. n : g[k][f[k - 1]] = Push(f[k - 1], all[k])
  <2>. SUFFICES ASSUME NEW f \in [0 .. n -> V], NEW k \in 1 .. n
                PROVE  g[k][f[k - 1]] = Push(f[k - 1], all[k])
    OBVIOUS
  <2>1. k - 1 \in 0 .. n
    BY <1>2
  <2>2. f[k - 1] \in V
    BY <2>1
  <2>. QED
    BY <2>2
<1>. HIDE DEF g
<1>6. PICK f \in [0 .. n -> V] : f[0] = tracker /\ \A k \in 1 .. n : f[k] = g[k][f[k - 1]]
  <2>1. Goes(n, V, tracker, g)
    BY <1>2, <1>4, RecursionExists
  <2>. QED
    BY <2>1 DEF Goes
<1>7. \A k \in 1 .. n : f[k] = Push(f[k - 1], all[k])
  BY <1>5, <1>6
<1>8. Solves(f)
  <2>1. f = [k \in 0 .. n |-> f[k]]
    OBVIOUS
  <2>2. \A k \in 0 .. n : k # 0 => k \in 1 .. n
    BY <1>2
  <2>. QED
    BY <1>6, <1>7, <2>1, <2>2
<1>9. Solves(done)
  <2>. HIDE DEF Solves
  <2>. QED
    BY <1>8
<1>. HIDE DEF done
<1>10. done[0] = tracker /\ \A k \in 1 .. n : done[k] = Push(done[k - 1], all[k])
  <2>1. 0 \in 0 .. n /\ \A k \in 1 .. n : k \in 0 .. n /\ k # 0
    BY <1>2
  <2>2. \A k \in 0 .. n : done[k] = IF k = 0 THEN tracker ELSE Push(done[k - 1], all[k])
    BY <1>9, Zenon
  <2>. QED
    BY <2>1, <2>2, Zenon
<1>11. \A k \in 0 .. n : f[k] = done[k]
  <2>1. \A k \in 1 .. n : f[k - 1] = done[k - 1] => f[k] = done[k]
    BY <1>7, <1>10, Zenon
  <2>2. n \in Nat /\ f[0] = done[0]
    BY <1>2, <1>6, <1>10, Zenon
  <2>. QED
    <3> DEFINE S == {k \in 0 .. n : f[k] = done[k]}
    <3>1. 0 \in S /\ \A k \in 1 .. n : k - 1 \in S => k \in S
      BY <1>2, <2>1, <2>2
    <3>2. \A k \in 0 .. n : k \in S
      <4>. HIDE DEF S
      <4>. QED
        BY <1>2, <3>1, UpTo0n
    <3>. QED
      BY <3>2
<1>12. PushAll(tracker, all) \in V
  <2>1. n \in 0 .. n
    BY <1>2
  <2>. QED
    BY <1>1, <1>6, <1>11, <2>1, Zenon
<1>13. ASSUME NEW t \in V
       PROVE  \A id \in DOMAIN t : QueueKept(t[id])
  <2>1. PICK known \in SUBSET ids : t \in [known -> Kept]
    BY DEF V, Trackers
  <2>. QED
    BY <2>1 DEF Kept
<1>. QED
  BY <1>12, <1>13 DEF V


-----------------------------------------------------------------------------
(* The cost basis: what the handlers push *)

\* A result that pushes entries of whole amounts, a sequence of them.
Sound(r) == IsSeq(r.pushed) /\ \A k \in DOMAIN r.pushed : r.pushed[k].entry \in Entries

LEMMA SoundPlain ==
  /\ \A told : Sound(Rows(told))
  /\ Sound(Nothing) /\ Sound(Fail) /\ Sound(UnknownResult) /\ Sound(ExcludedResult)
<1>1. IsSeq(<<>>) /\ DOMAIN <<>> = {}
  BY DEF IsSeq
<1>2. ASSUME NEW told
      PROVE  Sound(Rows(told))
  BY <1>1 DEF Sound, Rows
<1>3. Fail.pushed = <<>>
  BY DEF Fail, Nothing, Rows
<1>4. Sound(Fail)
  BY <1>1, <1>3 DEF Sound
<1>. QED
  BY <1>2, <1>4 DEF Nothing, UnknownResult, ExcludedResult

LEMMA SoundThen ==
  ASSUME NEW r, NEW s, Sound(r), Sound(s)
  PROVE  Sound(Then(r, s))
<1>1. CASE r.ok
  <2> DEFINE all == r.pushed \o s.pushed
  <2>1. Then(r, s).pushed = all
    BY <1>1 DEF Then
  <2>2. /\ IsSeq(r.pushed) /\ IsSeq(s.pushed)
        /\ \A k \in DOMAIN r.pushed : r.pushed[k].entry \in Entries
        /\ \A k \in DOMAIN s.pushed : s.pushed[k].entry \in Entries
    BY DEF Sound
  <2>3. /\ IsSeq(all) /\ DOMAIN all = 1 .. (Len(r.pushed) + Len(s.pushed))
        /\ \A k \in 1 .. Len(r.pushed) : all[k] = r.pushed[k]
        /\ \A k \in (Len(r.pushed) + 1) .. (Len(r.pushed) + Len(s.pushed)) :
             k - Len(r.pushed) \in DOMAIN s.pushed /\ all[k] = s.pushed[k - Len(r.pushed)]
    BY <2>2, Joined
  <2>4. /\ Len(r.pushed) \in Nat /\ DOMAIN r.pushed = 1 .. Len(r.pushed)
        /\ Len(s.pushed) \in Nat /\ DOMAIN s.pushed = 1 .. Len(s.pushed)
    BY <2>2, IsSeqType
  <2>. HIDE DEF all
  <2>5. ASSUME NEW k \in DOMAIN all
        PROVE  all[k].entry \in Entries
    <3>1. k \in 1 .. Len(r.pushed) \/ k \in (Len(r.pushed) + 1) .. (Len(r.pushed) + Len(s.pushed))
      <4>1. \A m, n \in Nat : \A j \in 1 .. (m + n) : j \in 1 .. m \/ j \in (m + 1) .. (m + n)
        OBVIOUS
      <4>2. k \in 1 .. (Len(r.pushed) + Len(s.pushed))
        BY <2>3, <2>5
      <4>. QED
        BY <2>4, <4>1, <4>2, Zenon
    <3>2. CASE k \in 1 .. Len(r.pushed)
      BY <2>2, <2>3, <2>4, <3>2
    <3>3. CASE k \in (Len(r.pushed) + 1) .. (Len(r.pushed) + Len(s.pushed))
      BY <2>2, <2>3, <3>3
    <3>. QED
      BY <3>1, <3>2, <3>3
  <2>. QED
    BY <2>1, <2>3, <2>5 DEF Sound
<1>2. CASE ~r.ok
  BY <1>2 DEF Then
<1>. QED
  BY <1>1, <1>2

\* The results up to the first that raises.
LEMMA SoundInTurn ==
  ASSUME NEW results, IsSeq(results), \A k \in DOMAIN results : Sound(results[k])
  PROVE  Sound(InTurn(results))
<1> DEFINE wrong == {k \in DOMAIN results : ~results[k].ok}
           last  == IF wrong = {} THEN Len(results) ELSE Min(wrong)
           seqs  == [k \in 1 .. last |-> results[k].pushed]
<1>1. Len(results) \in Nat /\ DOMAIN results = 1 .. Len(results)
  BY IsSeqType
<1>2. last \in 0 .. Len(results)
  <2>1. CASE wrong = {}
    BY <1>1, <2>1
  <2>2. CASE wrong # {}
    <3>1. wrong \in SUBSET Nat
      BY <1>1
    <3>2. \E m \in wrong : \A k \in wrong : m <= k
      <4>. HIDE DEF wrong
      <4>. QED
        BY <2>2, <3>1, LeastNat
    <3>3. Min(wrong) \in wrong
      <4>. HIDE DEF wrong
      <4>. QED
        BY <3>2 DEF Min
    <3>4. last = Min(wrong)
      BY <2>2
    <3>. HIDE DEF last
    <3>. QED
      BY <1>1, <3>3, <3>4
  <2>. QED
    BY <2>1, <2>2
<1>3. InTurn(results).pushed = FlattenSeq(seqs)
  BY DEF InTurn
<1>. HIDE DEF last
<1>4. Len(seqs) = last /\ IsSeq(seqs) /\ last \in Nat
  <2>1. last \in Nat /\ DOMAIN seqs = 1 .. last
    BY <1>1, <1>2
  <2>2. seqs \in Seq({seqs[k] : k \in DOMAIN seqs})
    BY <2>1
  <2>3. Len(seqs) = last
    BY <2>1
  <2>. QED
    BY <2>1, <2>2, <2>3 DEF IsSeq
<1>5. ASSUME NEW k \in 1 .. last
      PROVE  seqs[k] = results[k].pushed /\ IsSeq(seqs[k]) /\ \A a \in DOMAIN seqs[k] : seqs[k][a].entry \in Entries
  <2>1. k \in DOMAIN results
    BY <1>1, <1>2
  <2>2. Sound(results[k]) /\ seqs[k] = results[k].pushed
    BY <2>1
  <2>. HIDE DEF seqs
  <2>. QED
    BY <2>2 DEF Sound
<1>. HIDE DEF seqs
<1>6. ComesFrom(FlattenSeq(seqs), seqs, last)
  BY <1>4, <1>5, Flattened
<1>. QED
  BY <1>3, <1>5, <1>6 DEF ComesFrom, Sound

\* Rows push nothing.
LEMMA SoundExport ==
  /\ \A assets, r : Sound(r) => Sound(Export(assets, r))
  /\ \A a, r : Sound(r) => Sound(ExportLp(a, r)) /\ Sound(NonZero(a, r))
  /\ \A lp, assets, r : Sound(r) => Sound(ExportPool(lp, assets, r))
  /\ \A txs, n, pays, r : Sound(r) => Sound(Takes(txs, n, pays, r))
  /\ \A kind, a, fee : Sound(Sent(kind, a, fee)) /\ Sound(Received(kind, a, fee))
<1>1. \A assets, r : Sound(r) => Sound(Export(assets, r))
  BY SoundPlain DEF Export
<1>2. \A a, r : Sound(r) => Sound(ExportLp(a, r)) /\ Sound(NonZero(a, r))
  BY <1>1, SoundPlain DEF ExportLp, NonZero
<1>3. \A lp, assets, r : Sound(r) => Sound(ExportPool(lp, assets, r))
  BY SoundPlain DEF ExportPool
<1>4. \A txs, n, pays, r : Sound(r) => Sound(Takes(txs, n, pays, r))
  BY SoundPlain DEF Takes
<1>5. \A kind, a, fee : Sound(Sent(kind, a, fee)) /\ Sound(Received(kind, a, fee))
  BY SoundPlain DEF Sent, Received
<1>. QED
  BY <1>1, <1>2, <1>3, <1>4, <1>5

\* The rows of every kind.
LEMMA SoundRow ==
  /\ \A a, fee : /\ Sound(ExportReward(a, fee)) /\ Sound(ExportSpendFee(a)) /\ Sound(ExportStake(a, fee))
                 /\ Sound(ExportUnstake(a, fee)) /\ Sound(ExportLpStake(a, fee)) /\ Sound(ExportLpUnstake(a, fee))
                 /\ Sound(ExportDepositCollateral(a, fee)) /\ Sound(ExportWithdrawCollateral(a, fee))
                 /\ Sound(ExportAirdrop(a, fee)) /\ Sound(ExportBorrow(a, fee)) /\ Sound(ExportRepay(a, fee))
                 /\ Sound(ExportInterest(a, fee))
  /\ \A out, in, fee : Sound(ExportSwap(out, in, fee)) /\ Sound(ExportLiquidate(out, in, fee))
  /\ \A a, b, lp, fee : Sound(ExportLpDeposit(a, b, lp, fee)) /\ Sound(ExportLpWithdraw(lp, a, b, fee))
  /\ \A txs, r : Sound(r) => Sound(AfterRewards(txs, r))
<1>1. \A a, fee : Sound(ExportReward(a, fee)) /\ Sound(ExportInterest(a, fee)) /\ Sound(ExportSpendFee(a))
  BY SoundPlain, SoundExport DEF ExportReward, ExportInterest, ExportSpendFee
<1>2. \A a, fee : Sound(ExportLpStake(a, fee)) /\ Sound(ExportLpUnstake(a, fee))
  BY SoundExport DEF ExportLpStake, ExportLpUnstake
<1>3. \A a, fee : Sound(ExportStake(a, fee)) /\ Sound(ExportUnstake(a, fee))
  BY <1>2, SoundExport DEF ExportStake, ExportUnstake
<1>4. \A a, fee : /\ Sound(ExportDepositCollateral(a, fee)) /\ Sound(ExportWithdrawCollateral(a, fee))
                  /\ Sound(ExportAirdrop(a, fee)) /\ Sound(ExportBorrow(a, fee)) /\ Sound(ExportRepay(a, fee))
  BY SoundExport DEF ExportDepositCollateral, ExportWithdrawCollateral, ExportAirdrop, ExportBorrow, ExportRepay
<1>5. \A out, in, fee : Sound(ExportSwap(out, in, fee)) /\ Sound(ExportLiquidate(out, in, fee))
  BY SoundPlain, SoundExport DEF ExportSwap, ExportLiquidate
<1>6. \A a, b, lp, fee : Sound(ExportLpDeposit(a, b, lp, fee)) /\ Sound(ExportLpWithdraw(lp, a, b, fee))
  BY SoundPlain, SoundExport DEF ExportLpDeposit, ExportLpWithdraw
<1>7. \A txs, r : Sound(r) => Sound(AfterRewards(txs, r))
  BY <1>1, SoundThen DEF AfterRewards, ExportParticipation
<1>. QED
  BY <1>1, <1>2, <1>3, <1>4, <1>5, <1>6, <1>7

-----------------------------------------------------------------------------
(* The cost basis: amounts *)

\* What a transaction moves, tells and causes comes in whole numbers.
Whole(tx) ==
  /\ tx.amount \in Nat /\ tx.told \in Nat /\ IsSeq(tx.inner)
  /\ \A j \in DOMAIN tx.inner : tx.inner[j].amount \in Nat

Wholes(txs) == IsSeq(txs) /\ \A k \in DOMAIN txs : Whole(txs[k])

Amount(a) == a.amount \in Nat

LEMMA AssetAmount ==
  /\ Amount(None) /\ Amount(Raised)
  /\ \A id : \A n \in Int : Amount(Asset(id, n))
  /\ \A a, b : Amount(a) /\ Amount(b) => Amount(Minus(a, b)) /\ Amount(Less(a, b))
<1>1. Amount(None) /\ Amount(Raised)
  BY DEF Amount, None, Raised
<1>2. \A id : \A n \in Int : Amount(Asset(id, n))
  BY <1>1 DEF Amount, Asset
<1>3. ASSUME NEW a, NEW b, Amount(a), Amount(b)
      PROVE  Amount(Minus(a, b))
  <2>1. a.amount - b.amount \in Int
    BY <1>3 DEF Amount
  <2>. QED
    BY <1>1, <1>2, <2>1 DEF Minus
<1>4. \A a, b : Amount(a) /\ Amount(b) => Amount(Less(a, b))
  BY <1>1, <1>3 DEF Less
<1>. QED
  BY <1>1, <1>2, <1>3, <1>4

\* The assets that a transaction moves.
LEMMA TxAmounts ==
  ASSUME NEW tx, Whole(tx)
  PROVE  /\ Amount(TransferAsset(tx)) /\ Amount(InnerAsset(tx)) /\ Amount(ReceivedAsset(tx))
         /\ IsSeq(InnerTransfers(tx)) /\ IsSeq(Direct(tx))
         /\ \A k \in DOMAIN InnerTransfers(tx) : Amount(TransferAsset(InnerTransfers(tx)[k]))
<1>1. IsSeq(tx.inner) /\ \A j \in DOMAIN tx.inner : tx.inner[j].amount \in Nat
  BY DEF Whole
<1>2. ASSUME NEW places \in SUBSET (DOMAIN tx.inner)
      PROVE  LET txs == AtPlaces(tx.inner, places)
             IN  /\ IsSeq(txs) /\ \A k \in DOMAIN txs : Amount(TransferAsset(txs[k]))
                 /\ Amount(FirstAsset(txs))
  <2> DEFINE txs == AtPlaces(tx.inner, places)
  <2>1. PICK n, sel : Picks(txs, tx.inner, places, n, sel)
    BY <1>1, AtPlacesIs DEF IsSeq
  <2>. HIDE DEF txs
  <2>2. n \in Nat /\ txs = [k \in 1 .. n |-> tx.inner[sel[k]]] /\ \A k \in 1 .. n : sel[k] \in places
    BY <2>1 DEF Picks
  <2>3. DOMAIN txs = 1 .. n /\ \A k \in 1 .. n : txs[k].amount \in Nat
    BY <1>1, <2>2
  <2>4. IsSeq(txs) /\ Len(txs) = n
    <3>1. txs \in Seq({txs[k] : k \in DOMAIN txs})
      BY <2>2, <2>3
    <3>. QED
      BY <2>2, <3>1 DEF IsSeq
  <2>5. \A k \in DOMAIN txs : Amount(TransferAsset(txs[k]))
    BY <2>3, AssetAmount DEF TransferAsset
  <2>6. txs # <<>> => 1 \in DOMAIN txs
    BY <2>2, <2>3
  <2>7. Amount(FirstAsset(txs))
    BY <2>5, <2>6, AssetAmount DEF FirstAsset
  <2>. QED
    BY <2>4, <2>5, <2>7 DEF txs
<1>3. Amount(TransferAsset(tx))
  BY AssetAmount DEF TransferAsset, Whole
<1>4. /\ {k \in DOMAIN tx.inner : IsTransfer(tx.inner[k])} \in SUBSET (DOMAIN tx.inner)
      /\ {k \in DOMAIN tx.inner : IsReceiver(tx.inner[k])} \in SUBSET (DOMAIN tx.inner)
      /\ {k \in DOMAIN tx.inner : tx.inner[k].depth = 1} \in SUBSET (DOMAIN tx.inner)
  OBVIOUS
<1>5. /\ IsSeq(InnerTransfers(tx)) /\ Amount(FirstAsset(InnerTransfers(tx)))
      /\ \A k \in DOMAIN InnerTransfers(tx) : Amount(TransferAsset(InnerTransfers(tx)[k]))
  BY <1>2, <1>4 DEF InnerTransfers
<1>6. Amount(FirstAsset(InnerReceipts(tx)))
  BY <1>2, <1>4 DEF InnerReceipts
<1>7. IsSeq(Direct(tx))
  BY <1>2, <1>4 DEF Direct
<1>. QED
  BY <1>3, <1>5, <1>6, <1>7 DEF InnerAsset, ReceivedAsset

\* A part of a group, and a place in it.
LEMMA WholePart ==
  ASSUME NEW txs, Wholes(txs)
  PROVE  /\ \A m, n \in Nat : m > 0 /\ n <= Len(txs) => Wholes(SubSeq(txs, m, n))
         /\ Len(txs) \in Nat /\ \A k \in 1 .. Len(txs) : Whole(txs[k]) /\ Whole(Back(txs, k))
<1>1. Len(txs) \in Nat /\ DOMAIN txs = 1 .. Len(txs) /\ txs \in Seq({txs[k] : k \in DOMAIN txs})
  BY IsSeqType DEF Wholes
<1>2. \A k \in 1 .. Len(txs) : Whole(txs[k])
  BY <1>1 DEF Wholes
<1>3. \A k \in 1 .. Len(txs) : Whole(Back(txs, k))
  <2>1. \A k \in 1 .. Len(txs) : Len(txs) + 1 - k \in 1 .. Len(txs)
    BY <1>1
  <2>. QED
    BY <1>2, <2>1 DEF Back
<1>4. ASSUME NEW m \in Nat, NEW n \in Nat, m > 0, n <= Len(txs)
      PROVE  Wholes(SubSeq(txs, m, n))
  <2> DEFINE part == SubSeq(txs, m, n)
             T == {txs[k] : k \in DOMAIN txs}
  <2>1. part \in Seq(T)
    BY <1>1, <1>4
  <2>2. \A t \in T : Whole(t)
    BY <1>1, <1>2
  <2>. HIDE DEF part, T
  <2>3. IsSeq(part) /\ \A k \in DOMAIN part : part[k] \in T
    BY <2>1, IsSeqOf
  <2>4. Wholes(part)
    BY <2>2, <2>3 DEF Wholes
  <2>. QED
    BY <2>4 DEF part
<1>. QED
  BY <1>1, <1>2, <1>3, <1>4

\* What is tracked is a whole number of tokens at a price, or raises.
LEMMA SoundTracked ==
  ASSUME NEW collateral, NEW receipt, Amount(collateral), Amount(receipt)
  PROVE  /\ Sound(TrackDeposit(collateral, receipt))
         /\ \A tracker, fee : Sound(TrackWithdraw(tracker, receipt, collateral, fee))
         /\ \A fee : Sound(Deposit(collateral, receipt, fee))
         /\ \A tracker, fee : Sound(Withdraw(tracker, receipt, collateral, fee))
<1>1. ASSUME NEW quantity \in Int \ {0}
      PROVE  Sound(Pushing(receipt, quantity, collateral))
  <2> DEFINE e == Entry(quantity, collateral.amount)
             pushed == <<[id |-> receipt.id, entry |-> e]>>
  <2>1. e \in Entries
    <3>1. (IF quantity < 0 THEN -quantity ELSE quantity) \in Nat \ {0}
      OBVIOUS
    <3>2. collateral.amount * PriceUnit \in Int
      BY PriceUnitAssumption DEF Amount
    <3>3. \A n \in Int, d \in Nat \ {0} : n \div d \in Int
      OBVIOUS
    <3>4. (collateral.amount * PriceUnit) \div (IF quantity < 0 THEN -quantity ELSE quantity) \in Int
      BY <3>1, <3>2, <3>3, Zenon
    <3>. QED
      BY <3>4 DEF Entry, Entries
  <2>. HIDE DEF e
  <2>2. Pushing(receipt, quantity, collateral).pushed = pushed
    BY DEF Pushing, Nothing, Rows, e
  <2>3. IsSeq(pushed) /\ \A k \in DOMAIN pushed : pushed[k].entry \in Entries
    BY <2>1 DEF IsSeq
  <2>. HIDE DEF pushed
  <2>. QED
    BY <2>2, <2>3 DEF Sound
<1>2. ~NoEntry(collateral, receipt) => receipt.amount \in Int \ {0} /\ -receipt.amount \in Int \ {0}
  BY DEF NoEntry, Amount
<1>3. Sound(TrackDeposit(collateral, receipt))
  BY <1>1, <1>2, SoundPlain DEF TrackDeposit
<1>4. \A tracker, fee : Sound(TrackWithdraw(tracker, receipt, collateral, fee))
  <2>. TAKE tracker, fee
  <2>1. ~NoEntry(collateral, receipt) => Sound(Pushing(receipt, -receipt.amount, collateral))
    BY <1>1, <1>2
  <2>. QED
    BY <2>1, SoundPlain, SoundThen, SoundRow DEF TrackWithdraw
<1>. QED
  BY <1>3, <1>4, SoundThen, SoundRow DEF Deposit, Withdraw

\* A sequence with the length of another.
LEMMA SameLength ==
  ASSUME NEW s, IsSeq(s), NEW f, f = [k \in DOMAIN s |-> f[k]]
  PROVE  IsSeq(f) /\ DOMAIN f = DOMAIN s
<1>1. Len(s) \in Nat /\ DOMAIN s = 1 .. Len(s)
  BY IsSeqType
<1>2. f = [k \in 1 .. Len(s) |-> f[k]]
  BY <1>1
<1>. QED
  BY <1>1, <1>2 DEF IsSeq

\* The tokens of a deposit, at the rate of the call or as many as it told.
LEMMA TokenAmounts ==
  ASSUME NEW asset, Amount(asset)
  PROVE  /\ \A n \in Nat : Amount(BankToken(asset, n))
         /\ \A tx : Whole(tx) /\ tx.told # 0 => Amount(AtRate(asset, tx))
<1>1. \A n \in Int : Amount(BankToken(asset, n))
  BY AssetAmount DEF BankToken
<1>2. ASSUME NEW tx, Whole(tx), tx.told # 0
      PROVE  Amount(AtRate(asset, tx))
  <2>1. tx.told \in Nat \ {0} /\ asset.amount * RateUnit \in Int
    BY <1>2, AlgoLendingAssumption DEF Whole, Amount
  <2>2. \A n \in Int, d \in Nat \ {0} : n \div d \in Int
    OBVIOUS
  <2>3. (asset.amount * RateUnit) \div tx.told \in Int
    BY <2>1, <2>2, Zenon
  <2>. QED
    BY <1>1, <2>3 DEF AtRate
<1>. QED
  BY <1>1, <1>2

LEMMA SoundGovernance == \A txs : Sound(HandleGovernanceReward(txs))
  BY SoundRow DEF HandleGovernanceReward

-----------------------------------------------------------------------------
(* AlgoFi 1 *)

LEMMA SoundAlgofiV1Rows ==
  \A txs : /\ Sound(HandleAlgofiSwap(txs)) /\ Sound(HandleAlgofiLpAdd(txs)) /\ Sound(HandleAlgofiZap(txs))
           /\ Sound(HandleAlgofiLpRemove(txs)) /\ Sound(HandleAlgofiRepay(txs)) /\ Sound(HandleAlgofiLiquidate(txs))
           /\ Sound(HandleAlgofiFlashLoan(txs)) /\ \A tx, fee : Sound(Borrow(tx, fee))
<1>1. \A txs : Sound(HandleAlgofiSwap(txs)) /\ Sound(HandleAlgofiLpAdd(txs)) /\ Sound(HandleAlgofiRepay(txs))
  BY SoundRow, SoundExport DEF HandleAlgofiSwap, HandleAlgofiLpAdd, HandleAlgofiRepay
<1>2. \A txs : Sound(HandleAlgofiZap(txs))
  BY <1>1, SoundThen DEF HandleAlgofiZap
<1>3. \A txs : Sound(HandleAlgofiLpRemove(txs)) /\ Sound(HandleAlgofiLiquidate(txs))
  BY SoundRow DEF HandleAlgofiLpRemove, HandleAlgofiLiquidate
<1>4. \A tx, fee : Sound(Borrow(tx, fee))
  BY SoundRow DEF Borrow
<1>5. \A txs : Sound(HandleAlgofiFlashLoan(txs))
  BY <1>1, <1>4, SoundThen DEF HandleAlgofiFlashLoan
<1>. QED
  BY <1>1, <1>2, <1>3, <1>4, <1>5

LEMMA SoundAlgofiClaim ==
  ASSUME NEW txs, Wholes(txs), Len(txs) > 0
  PROVE  Sound(HandleAlgofiClaim(txs))
<1> DEFINE direct  == Direct(Back(txs, 1))
           results == [k \in DOMAIN direct |-> ExportReward(TransferAsset(direct[k]), FeeAmount(txs) \div Len(direct))]
<1>1. Whole(Back(txs, 1))
  <2>1. 1 \in 1 .. Len(txs)
    BY WholePart
  <2>. QED
    BY <2>1, WholePart
<1>2. IsSeq(direct)
  BY <1>1, TxAmounts
<1>3. results = [k \in DOMAIN direct |-> results[k]] /\ \A k \in DOMAIN direct : Sound(results[k])
  BY SoundRow
<1>4. HandleAlgofiClaim(txs) = InTurn(results)
  BY DEF HandleAlgofiClaim
<1>. HIDE DEF direct, results
<1>. QED
  BY <1>2, <1>3, <1>4, SameLength, SoundInTurn

LEMMA SoundAlgofiDeposit ==
  ASSUME NEW txs, Wholes(txs), IsAlgofiDeposit(txs)
  PROVE  Sound(HandleAlgofiDeposit(txs))
<1>1. 1 \in 1 .. Len(txs) /\ 2 \in 1 .. Len(txs)
  BY AlgoLendingAssumption DEF IsAlgofiDeposit
<1>2. Whole(Back(txs, 1)) /\ Whole(Back(txs, 2))
  BY <1>1, WholePart
<1> DEFINE sent == TransferAsset(Back(txs, 1))
           call == Back(txs, 2)
<1>3. Amount(sent) /\ (call.told # 0 => Amount(AtRate(sent, call)))
  BY <1>2, TxAmounts, TokenAmounts
<1>4. call.told # 0 => Sound(TrackDeposit(sent, AtRate(sent, call)))
  BY <1>3, SoundTracked
<1>. QED
  BY <1>4, SoundRow, SoundThen DEF HandleAlgofiDeposit

LEMMA SoundAlgofiWithdraw ==
  ASSUME NEW txs, Wholes(txs), Len(txs) > 0, NEW tracker
  PROVE  Sound(HandleAlgofiWithdraw(txs, tracker))
<1>1. 1 \in 1 .. Len(txs)
  BY WholePart
<1>2. Whole(Back(txs, 1))
  BY <1>1, WholePart
<1> DEFINE call == Back(txs, 1)
           got == InnerAsset(call)
<1>3. Amount(got) /\ (call.told # 0 => Amount(AtRate(got, call)))
  BY <1>2, TxAmounts, TokenAmounts
<1>4. call.told # 0 => Sound(Withdraw(tracker, AtRate(got, call), got, FeeAmount(txs)))
  BY <1>3, SoundTracked
<1>. QED
  BY <1>4, SoundRow DEF HandleAlgofiWithdraw

LEMMA SoundAlgofiV1 ==
  ASSUME NEW txs, Wholes(txs), Len(txs) > 0, NEW tracker
  PROVE  Sound(HandleAlgofiV1(txs, tracker))
<1>1. /\ Sound(HandleAlgofiClaim(txs)) /\ Sound(HandleAlgofiWithdraw(txs, tracker))
      /\ IsAlgofiDeposit(txs) => Sound(HandleAlgofiDeposit(txs))
  BY SoundAlgofiClaim, SoundAlgofiWithdraw, SoundAlgofiDeposit
<1>. QED
  BY <1>1, SoundAlgofiV1Rows, SoundGovernance, SoundPlain, SoundRow DEF HandleAlgofiV1

-----------------------------------------------------------------------------
(* Folks 1 *)

LEMMA SoundFolksV1Rows ==
  \A txs : /\ Sound(HandleGalgo3Mint(txs)) /\ Sound(HandleGalgo3Burn(txs)) /\ Sound(HandleGalgo3Claim(txs))
           /\ Sound(HandleGalgoMint(txs)) /\ Sound(HandleGalgoBurn(txs)) /\ Sound(HandleGalgoBurnAndPremint(txs))
           /\ Sound(HandleGalgoClaimPremint(txs)) /\ Sound(HandleAddEscrow(txs)) /\ Sound(HandleBorrow1(txs))
           /\ Sound(HandleRepay1(txs)) /\ \A tx : Sound(RewardOf(tx))
<1>1. \A txs : Sound(HandleGalgo3Mint(txs)) /\ Sound(HandleGalgo3Burn(txs)) /\ Sound(HandleGalgo3Claim(txs))
  BY SoundRow DEF HandleGalgo3Mint, HandleGalgo3Burn, HandleGalgo3Claim
<1>2. \A txs : Sound(HandleGalgoMint(txs)) /\ Sound(HandleGalgoBurn(txs))
  BY SoundRow DEF HandleGalgoMint, HandleGalgoBurn
<1>3. \A txs : Sound(HandleGalgoBurnAndPremint(txs)) /\ Sound(HandleGalgoClaimPremint(txs))
  BY <1>2, SoundPlain, SoundThen, SoundRow DEF HandleGalgoBurnAndPremint, HandleGalgoClaimPremint
<1>4. \A txs : Sound(HandleAddEscrow(txs))
  <2>. TAKE txs
  <2>1. HandleAddEscrow(txs).pushed = Nothing.pushed
    BY DEF HandleAddEscrow, Nothing, Rows
  <2>. QED
    BY <2>1, SoundPlain DEF Sound
<1>5. \A txs : Sound(HandleBorrow1(txs)) /\ Sound(HandleRepay1(txs))
  BY SoundRow DEF HandleBorrow1, HandleRepay1
<1>6. \A tx : Sound(RewardOf(tx))
  BY SoundRow DEF RewardOf
<1>. QED
  BY <1>1, <1>2, <1>3, <1>4, <1>5, <1>6

LEMMA SoundFolksV1 ==
  ASSUME NEW txs, Wholes(txs), NEW tracker, NEW escrows
  PROVE  Sound(HandleFolksV1(txs, tracker, escrows))
<1>1. IsDeposit1(txs) \/ IsWithdraw1(txs) => Amount(TransferAsset(txs[2])) /\ Amount(InnerAsset(txs[1]))
  <2>1. IsDeposit1(txs) \/ IsWithdraw1(txs) => Len(txs) = 2
    BY DEF IsDeposit1, IsWithdraw1, Is
  <2>2. Len(txs) = 2 => Whole(txs[1]) /\ Whole(txs[2])
    <3>1. Len(txs) = 2 => 1 \in 1 .. Len(txs) /\ 2 \in 1 .. Len(txs)
      OBVIOUS
    <3>. QED
      BY <3>1, WholePart
  <2>. QED
    BY <2>1, <2>2, TxAmounts
<1>2. /\ IsDeposit1(txs) => Sound(HandleDeposit1(txs))
      /\ IsWithdraw1(txs) => Sound(HandleWithdraw1(txs, tracker))
  BY <1>1, SoundTracked DEF HandleDeposit1, HandleWithdraw1
<1> DEFINE results == [k \in DOMAIN txs |-> RewardOf(txs[k])]
<1>3. Sound(InTurn(results))
  <2>1. results = [k \in DOMAIN txs |-> results[k]] /\ \A k \in DOMAIN txs : Sound(results[k])
    BY SoundFolksV1Rows
  <2>2. IsSeq(txs)
    BY DEF Wholes
  <2>. HIDE DEF results
  <2>. QED
    BY <2>1, <2>2, SameLength, SoundInTurn
<1>. QED
  BY <1>2, <1>3, SoundFolksV1Rows, SoundPlain, SoundRow DEF HandleFolksV1

-----------------------------------------------------------------------------
(* AlgoFi 2 *)

\* The claims of a group are a sequence.
LEMMA ClaimsAreSeq ==
  ASSUME NEW txs, IsSeq(txs), NEW calls \in 1 .. 2
  PROVE  IsSeq(Claims(txs, calls))
<1> DEFINE n == Len(txs)
           at == [k \in 1 .. n + 1 |-> IF k <= n /\ IsAssetOptin(txs[k]) THEN k + 1 ELSE k]
           P == {[first |-> a, call |-> b] : a, b \in 1 .. n + 1}
           Step(f, k) == IF k > n THEN <<>> ELSE <<[first |-> k, call |-> at[k]]>> \o f[at[k] + calls]
           Solves(f) == f = [k \in 1 .. n + 3 |->
                               LET s == IF k <= n /\ IsAssetOptin(txs[k]) THEN k + 1 ELSE k
                               IN  IF k > n THEN <<>> ELSE <<[first |-> k, call |-> s]>> \o f[s + calls]]
           from == CHOOSE f : Solves(f)
<1>1. Claims(txs, calls) = from[1]
  BY DEF Claims
<1>2. n \in Nat
  BY IsSeqType
<1>. HIDE DEF n
<1>3. \A k \in 1 .. n : at[k] \in k .. (k + 1) /\ at[k] \in 1 .. n + 1 /\ at[k] + calls \in (k + 1) .. (n + 3)
                      /\ k \in 1 .. n + 1 /\ k \in 1 .. n + 3
  BY <1>2
<1>4. \A f : Solves(f) <=> f = [k \in 1 .. n + 3 |-> Step(f, k)]
  <2>1. \A k \in 1 .. n + 3 : ~(k > n) => at[k] = IF k <= n /\ IsAssetOptin(txs[k]) THEN k + 1 ELSE k
    BY <1>2
  <2>. HIDE DEF at
  <2>. QED
    BY <2>1
<1>. HIDE DEF at, P
<1> DEFINE Has(m) == \E f \in [1 .. n + 3 -> Seq(P)] : \A k \in m .. n + 3 : f[k] = Step(f, k)
<1>5. Has(1)
  <2> DEFINE S == {d \in 0 .. n + 2 : ~Has(n + 3 - d)}
  <2>1. ASSUME S # {} PROVE FALSE
    <3>1. S \in SUBSET Nat
      BY <1>2
    <3>2. PICK d \in S : \A e \in S : d <= e
      <4>. HIDE DEF S
      <4>. QED
        BY <2>1, <3>1, LeastNat
    <3> DEFINE m == n + 3 - d
    <3>3. m \in 1 .. n + 3 /\ ~Has(m) /\ d \in 0 .. n + 2
      BY <1>2
    <3>4. m = n + 3 \/ Has(m + 1)
      <4>1. d # 0 => d - 1 \in 0 .. n + 2 /\ ~(d <= d - 1) /\ n + 3 - (d - 1) = m + 1
        BY <1>2, <3>3
      <4>. HIDE DEF Has
      <4>. QED
        BY <1>2, <3>2, <3>3, <4>1
    <3>. HIDE DEF m
    <3>5. PICK f \in [1 .. n + 3 -> Seq(P)] : \A k \in (m + 1) .. n + 3 : f[k] = Step(f, k)
      <4>1. CASE m = n + 3
        <5> DEFINE f0 == [k \in 1 .. n + 3 |-> <<>>]
        <5>1. f0 \in [1 .. n + 3 -> Seq(P)] /\ (m + 1) .. n + 3 = {}
          BY <1>2, <4>1
        <5>. HIDE DEF f0
        <5>. QED
          BY <5>1
      <4>. QED
        BY <3>4, <4>1
    <3> DEFINE h == [f EXCEPT ![m] = Step(f, m)]
    <3>6. Step(f, m) \in Seq(P)
      <4>1. CASE m > n
        BY <4>1
      <4>2. CASE m \in 1 .. n
        <5>1. at[m] \in 1 .. n + 1 /\ at[m] + calls \in 1 .. n + 3 /\ m \in 1 .. n + 1
          BY <1>2, <1>3, <4>2
        <5>2. f[at[m] + calls] \in Seq(P) /\ <<[first |-> m, call |-> at[m]]>> \in Seq(P)
          BY <5>1 DEF P
        <5>. QED
          BY <4>2, <5>2
      <4>. QED
        BY <1>2, <3>3, <4>1, <4>2
    <3>7. h \in [1 .. n + 3 -> Seq(P)] /\ h[m] = Step(f, m) /\ \A k \in (m + 1) .. n + 3 : h[k] = f[k]
      <4>. HIDE DEF Step
      <4>. QED
        BY <1>2, <3>3, <3>6
    <3>. HIDE DEF h
    <3>8. \A k \in m .. n + 3 : Step(h, k) = Step(f, k)
      <4>. TAKE k \in m .. n + 3
      <4>1. CASE k > n
        BY <4>1
      <4>2. CASE ~(k > n)
        <5>1. k \in 1 .. n
          BY <1>2, <3>3, <4>2
        <5>2. at[k] + calls \in (m + 1) .. n + 3
          BY <1>2, <1>3, <3>3, <5>1
        <5>3. h[at[k] + calls] = f[at[k] + calls]
          BY <3>7, <5>2
        <5>. QED
          BY <5>3
      <4>. QED
        BY <4>1, <4>2
    <3>9. \A k \in m .. n + 3 : h[k] = Step(h, k)
      <4>1. \A k \in m .. n + 3 : k = m \/ k \in (m + 1) .. n + 3
        BY <1>2, <3>3
      <4>. HIDE DEF Step
      <4>. QED
        BY <3>5, <3>7, <3>8, <4>1
    <3>. QED
      BY <3>3, <3>7, <3>9
  <2>2. n + 2 \in 0 .. n + 2 /\ n + 3 - (n + 2) = 1
    BY <1>2
  <2>. HIDE DEF Has
  <2>. QED
    BY <2>1, <2>2
<1>6. PICK f \in [1 .. n + 3 -> Seq(P)] : \A k \in 1 .. n + 3 : f[k] = Step(f, k)
  BY <1>5
<1>. HIDE DEF Has
<1>7. Solves(f)
  <2>1. f = [k \in 1 .. n + 3 |-> f[k]]
    OBVIOUS
  <2>2. f = [k \in 1 .. n + 3 |-> Step(f, k)]
    <3>. HIDE DEF Step
    <3>. QED
      BY <1>6, <2>1
  <2>. HIDE DEF Step, Solves
  <2>. QED
    BY <1>4, <2>2
<1>8. from = [k \in 1 .. n + 3 |-> Step(from, k)]
  <2>1. Solves(from)
    <3>. HIDE DEF Solves
    <3>. QED
      BY <1>7
  <2>. HIDE DEF Step, Solves, from
  <2>. QED
    BY <1>4, <2>1
<1>. HIDE DEF from, Solves
<1>9. \A k \in 1 .. n + 3 : from[k] = Step(from, k)
  <2>. HIDE DEF Step
  <2>. QED
    BY <1>8
<1>10. \A k \in 1 .. n + 3 : from[k] \in Seq(P)
  <2> DEFINE S == {d \in 0 .. n + 2 : from[n + 3 - d] \notin Seq(P)}
  <2>1. ASSUME S # {} PROVE FALSE
    <3>1. S \in SUBSET Nat
      BY <1>2
    <3>2. PICK d \in S : \A e \in S : d <= e
      <4>. HIDE DEF S
      <4>. QED
        BY <2>1, <3>1, LeastNat
    <3> DEFINE m == n + 3 - d
    <3>3. m \in 1 .. n + 3 /\ from[m] \notin Seq(P) /\ d \in 0 .. n + 2
      BY <1>2
    <3>4. from[m] = Step(from, m)
      BY <1>9, <3>3
    <3>5. m \in 1 .. n
      <4>1. m > n => Step(from, m) = <<>> /\ <<>> \in Seq(P)
        OBVIOUS
      <4>2. ~(m > n)
        <5>. HIDE DEF Step, m
        <5>. QED
          BY <3>3, <3>4, <4>1, Zenon
      <4>. HIDE DEF m
      <4>. QED
        BY <1>2, <3>3, <4>2
    <3>6. from[at[m] + calls] \in Seq(P)
      <4> DEFINE e == n + 3 - (at[m] + calls)
      <4>1. at[m] + calls \in (m + 1) .. n + 3 /\ m \in 1 .. n
        BY <1>3, <3>5
      <4>a. \A a \in Nat : \A b \in 0 .. a + 2 : \A q \in (a + 3 - b + 1) .. a + 3 :
              a + 3 - q \in 0 .. a + 2 /\ a + 3 - q < b /\ a + 3 - (a + 3 - q) = q
        OBVIOUS
      <4>2. e \in 0 .. n + 2 /\ e < d /\ n + 3 - e = at[m] + calls
        BY <1>2, <3>3, <4>1, <4>a, Zenon
      <4>3. e \notin S
        BY <3>2, <3>3, <4>2
      <4>. HIDE DEF e
      <4>. QED
        BY <4>2, <4>3
    <3>7. <<[first |-> m, call |-> at[m]]>> \in Seq(P)
      BY <1>3, <3>5 DEF P
    <3>8. Step(from, m) = <<[first |-> m, call |-> at[m]]>> \o from[at[m] + calls]
      BY <1>2, <3>5
    <3>9. Step(from, m) \in Seq(P)
      <4>. HIDE DEF Step, m
      <4>. QED
        BY <3>6, <3>7, <3>8
    <3>. QED
      BY <3>3, <3>4, <3>9
  <2>2. ASSUME NEW k \in 1 .. n + 3
        PROVE  from[k] \in Seq(P)
    <3>1. n + 3 - k \in 0 .. n + 2 /\ n + 3 - (n + 3 - k) = k
      BY <1>2
    <3>. QED
      BY <2>1, <3>1
  <2>. QED
    BY <2>2
<1>11. 1 \in 1 .. n + 3
  BY <1>2
<1>. QED
  BY <1>1, <1>10, <1>11, IsSeqOf

LEMMA SoundClaims ==
  ASSUME NEW txs, IsSeq(txs)
  PROVE  Sound(HandleClaimStaking(txs)) /\ Sound(HandleClaimLending(txs))
<1>1. Sound(HandleClaimStaking(txs))
  <2> DEFINE claims == Claims(txs, 2)
             RewardAt(claim) ==
               ExportReward(InnerAsset(txs[claim.call + 1]), SumFees(SubSeq(txs, claim.first, claim.call + 1)))
             results == [k \in DOMAIN claims |-> RewardAt(claims[k])]
  <2>1. HandleClaimStaking(txs) = InTurn(results)
    BY DEF HandleClaimStaking
  <2>2. IsSeq(claims)
    BY ClaimsAreSeq
  <2>3. results = [k \in DOMAIN claims |-> results[k]] /\ \A k \in DOMAIN claims : Sound(results[k])
    BY SoundRow
  <2>. HIDE DEF claims, results
  <2>. QED
    BY <2>1, <2>2, <2>3, SameLength, SoundInTurn
<1>2. Sound(HandleClaimLending(txs))
  <2> DEFINE n == Len(txs)
             claims  == Claims(txs, 1)
             rewards == [k \in DOMAIN claims |-> IF claims[k].call > n THEN None ELSE InnerAsset(txs[claims[k].call])]
             fees    == [k \in DOMAIN claims |-> SumFees(SubSeq(txs, claims[k].first, claims[k].call))]
             FeeOf(id) == Summed([k \in DOMAIN claims |-> If(rewards[k].id = id, fees[k])])
             RewardAt(k) ==
               LET id == rewards[k].id
               IN  IF \E j \in 1 .. k - 1 : rewards[j].id = id THEN Nothing
                   ELSE ExportReward(Asset(id, Total(rewards, id)), FeeOf(id))
             results == [k \in DOMAIN claims |-> RewardAt(k)]
             wrong == \E k \in DOMAIN claims : rewards[k] \in {None, Raised}
  <2>1. HandleClaimLending(txs) = IF wrong THEN Fail ELSE InTurn(results)
    BY DEF HandleClaimLending
  <2>2. IsSeq(claims)
    BY ClaimsAreSeq
  <2>. HIDE DEF claims, rewards, FeeOf
  <2>3. results = [k \in DOMAIN claims |-> results[k]] /\ \A k \in DOMAIN claims : Sound(results[k])
    BY SoundRow, SoundPlain
  <2>. HIDE DEF results, wrong
  <2>4. Sound(InTurn(results))
    BY <2>2, <2>3, SameLength, SoundInTurn
  <2>. QED
    BY <2>1, <2>4, SoundPlain
<1>. QED
  BY <1>1, <1>2

LEMMA SoundAlgofiV2Rows ==
  \A txs : /\ Sound(HandleLendSwap(txs)) /\ Sound(HandlePoolSwap(txs)) /\ Sound(HandleLendLpAdd(txs))
           /\ Sound(HandlePoolLpAdd(txs)) /\ Sound(HandleLendLpRemove(txs)) /\ Sound(HandlePoolLpRemove(txs))
           /\ Sound(HandleLendZap(txs)) /\ Sound(HandlePoolZap(txs)) /\ Sound(HandleRepayBorrow(txs))
           /\ Sound(HandleAirdrop(txs)) /\ Sound(HandleSeize(txs))
<1>1. \A txs : Sound(HandleLendSwap(txs)) /\ Sound(HandlePoolSwap(txs))
  BY SoundPlain, SoundRow DEF HandleLendSwap, HandlePoolSwap
<1>2. \A txs : Sound(HandleLendLpAdd(txs)) /\ Sound(HandlePoolLpAdd(txs))
  BY SoundPlain, SoundRow DEF HandleLendLpAdd, HandlePoolLpAdd
<1>3. \A txs : Sound(HandleLendLpRemove(txs)) /\ Sound(HandlePoolLpRemove(txs))
  BY SoundPlain, SoundRow, SoundExport DEF HandleLendLpRemove, HandlePoolLpRemove
<1>4. \A txs : Sound(HandleLendZap(txs)) /\ Sound(HandlePoolZap(txs))
  BY <1>1, <1>2, SoundThen DEF HandleLendZap, HandlePoolZap
<1>5. \A txs : Sound(HandleRepayBorrow(txs))
  BY SoundRow DEF HandleRepayBorrow
<1>6. \A txs : Sound(HandleAirdrop(txs))
  BY SoundPlain, SoundThen, SoundRow DEF HandleAirdrop
<1>7. \A txs : Sound(HandleSeize(txs))
  BY SoundPlain, SoundRow DEF HandleSeize
<1>. QED
  BY <1>1, <1>2, <1>3, <1>4, <1>5, <1>6, <1>7

LEMMA SoundCollateral ==
  ASSUME NEW txs, Wholes(txs), NEW tracker
  PROVE  /\ IsDepositCollateral(txs) => Sound(HandleDepositCollateral(txs))
         /\ IsWithdrawCollateral(txs) => Sound(HandleWithdrawCollateral(txs, tracker))
<1>1. ASSUME IsDepositCollateral(txs)
      PROVE  Sound(HandleDepositCollateral(txs))
  <2> DEFINE sent == TransferAsset(txs[AfterOptin(txs)])
             call == Back(txs, 1)
  <2>1. AfterOptin(txs) \in 1 .. Len(txs) /\ 1 \in 1 .. Len(txs)
    BY <1>1 DEF IsDepositCollateral, AfterOptin
  <2>2. Whole(txs[AfterOptin(txs)]) /\ Whole(call)
    BY <2>1, WholePart
  <2>3. Amount(sent) /\ (call.told # 0 => Amount(AtRate(sent, call)))
    BY <2>2, TxAmounts, TokenAmounts
  <2>4. call.told # 0 => Sound(Deposit(sent, AtRate(sent, call), FeeAmount(txs)))
    BY <2>3, SoundTracked
  <2>. QED
    BY <2>4, SoundRow DEF HandleDepositCollateral
<1>2. ASSUME IsWithdrawCollateral(txs)
      PROVE  Sound(HandleWithdrawCollateral(txs, tracker))
  <2> DEFINE call == Back(txs, 1)
             got == InnerAsset(call)
  <2>1. 1 \in 1 .. Len(txs)
    BY <1>2 DEF IsWithdrawCollateral, Is
  <2>2. Whole(call)
    BY <2>1, WholePart
  <2>3. Amount(got) /\ Amount(BankToken(got, call.told))
    BY <2>2, TxAmounts, TokenAmounts DEF Whole
  <2>4. Sound(Withdraw(tracker, BankToken(got, call.told), got, FeeAmount(txs)))
    BY <2>3, SoundTracked
  <2>. QED
    BY <2>4, SoundRow DEF HandleWithdrawCollateral
<1>. QED
  BY <1>1, <1>2

LEMMA SoundLendStake ==
  ASSUME NEW txs, Wholes(txs), NEW tracker
  PROVE  /\ IsLendStake(txs) = "yes" => Sound(HandleLendStake(txs))
         /\ IsLendUnstake(txs) => Sound(HandleLendUnstake(txs, tracker))
<1>1. ASSUME IsLendStake(txs) = "yes"
      PROVE  Sound(HandleLendStake(txs))
  <2> DEFINE s == AfterOptin(txs)
  <2>1. Len(txs) \in 5 .. 6
    BY <1>1 DEF IsLendStake, AfterOne, Sized
  <2>2. s \in 1 .. Len(txs) /\ s + 1 \in 1 .. Len(txs)
    BY <2>1 DEF AfterOptin
  <2>3. Whole(txs[s]) /\ Whole(txs[s + 1])
    BY <2>2, WholePart
  <2>4. Amount(TransferAsset(txs[s])) /\ Amount(InnerAsset(txs[s + 1]))
    BY <2>3, TxAmounts
  <2>5. Sound(TrackDeposit(TransferAsset(txs[s]), InnerAsset(txs[s + 1])))
    BY <2>4, SoundTracked
  <2>. QED
    BY <2>5, SoundRow, SoundThen DEF HandleLendStake
<1>2. ASSUME IsLendUnstake(txs)
      PROVE  Sound(HandleLendUnstake(txs, tracker))
  <2>1. 3 \in 1 .. Len(txs) /\ 4 \in 1 .. Len(txs)
    BY <1>2 DEF IsLendUnstake, Is
  <2>2. Whole(txs[3]) /\ Whole(txs[4])
    BY <2>1, WholePart
  <2>3. Amount(TransferAsset(txs[3])) /\ Amount(InnerAsset(txs[4]))
    BY <2>2, TxAmounts
  <2>4. \A fee : Sound(TrackWithdraw(tracker, TransferAsset(txs[3]), InnerAsset(txs[4]), fee))
    BY <2>3, SoundTracked
  <2>. QED
    BY <2>4, SoundRow, SoundThen DEF HandleLendUnstake
<1>. QED
  BY <1>1, <1>2

LEMMA SoundAlgofiV2 ==
  ASSUME NEW txs, Wholes(txs), NEW tracker
  PROVE  Sound(HandleAlgofiV2(txs, tracker))
<1>1. Sound(HandleClaimStaking(txs)) /\ Sound(HandleClaimLending(txs))
  BY SoundClaims DEF Wholes
<1>2. /\ IsDepositCollateral(txs) => Sound(HandleDepositCollateral(txs))
      /\ IsWithdrawCollateral(txs) => Sound(HandleWithdrawCollateral(txs, tracker))
      /\ IsLendStake(txs) = "yes" => Sound(HandleLendStake(txs))
      /\ IsLendUnstake(txs) => Sound(HandleLendUnstake(txs, tracker))
  BY SoundCollateral, SoundLendStake
<1>3. \A tx, fee : Sound(Borrow(tx, fee))
  BY SoundAlgofiV1Rows
<1>. QED
  BY <1>1, <1>2, <1>3, SoundAlgofiV2Rows, SoundGovernance, SoundPlain, SoundRow DEF HandleAlgofiV2

-----------------------------------------------------------------------------
(* Folks 2 *)

LEMMA SoundFolksV2Rows ==
  \A txs : /\ Sound(HandleStakeClaim(txs)) /\ Sound(HandleBorrow2(txs)) /\ Sound(HandleRepayWithTxn(txs))
           /\ Sound(HandleReduceCollateral2(txs)) /\ Sound(HandleSwapRepay(txs)) /\ Sound(HandleSwapCollateral(txs))
           /\ Sound(HandleCommit(txs)) /\ Sound(HandleBurn(txs)) /\ Sound(HandleGalgoMint2(txs))
           /\ Sound(HandleClaimPremint2(txs)) /\ Sound(HandleLeveragedUnroll(txs))
<1>1. \A txs : Sound(HandleStakeClaim(txs)) /\ Sound(HandleBorrow2(txs)) /\ Sound(HandleRepayWithTxn(txs))
  BY SoundRow DEF HandleStakeClaim, HandleBorrow2, HandleRepayWithTxn
<1>2. \A txs : Sound(HandleReduceCollateral2(txs)) /\ Sound(HandleCommit(txs)) /\ Sound(HandleBurn(txs))
  BY SoundRow DEF HandleReduceCollateral2, HandleCommit, HandleBurn
<1>3. \A txs : Sound(HandleSwapRepay(txs)) /\ Sound(HandleSwapCollateral(txs))
  BY <1>1, SoundThen, SoundRow DEF HandleSwapRepay, HandleSwapCollateral
<1>4. \A txs : Sound(HandleGalgoMint2(txs)) /\ Sound(HandleClaimPremint2(txs))
  BY SoundPlain, SoundRow DEF HandleGalgoMint2, HandleClaimPremint2
<1>5. \A txs : Sound(HandleLeveragedUnroll(txs))
  <2>. TAKE txs
  <2> DEFINE a == HandleRepayWithTxn(SubSeq(txs, 3, 4))
             b == HandleReduceCollateral2(SubSeq(txs, 5, 6))
             c == HandleBurn(SubSeq(txs, 7, 8))
  <2>1. Sound(a) /\ Sound(b) /\ Sound(c)
    BY <1>1, <1>2
  <2>2. HandleLeveragedUnroll(txs) = Flashing(txs, <<a, b, c>>)
    BY DEF HandleLeveragedUnroll
  <2>. HIDE DEF a, b, c
  <2>3. IsSeq(<<a, b, c>>) /\ \A k \in DOMAIN <<a, b, c>> : Sound(<<a, b, c>>[k])
    BY <2>1 DEF IsSeq
  <2>. QED
    BY <2>2, <2>3, SoundInTurn, SoundThen, SoundRow DEF Flashing
<1>. QED
  BY <1>1, <1>2, <1>3, <1>4, <1>5

LEMMA SoundDeposit2 ==
  ASSUME NEW txs, Wholes(txs)
  PROVE  /\ IsDeposit2(txs) => Sound(HandleDeposit2(txs))
         /\ IsStakeDeposit(txs) => Sound(HandleStakeDeposit(txs))
<1>1. /\ IsDeposit2(txs) => 1 \in 1 .. Len(txs) /\ 2 \in 1 .. Len(txs)
      /\ IsStakeDeposit(txs) => 2 \in 1 .. Len(txs) /\ 3 \in 1 .. Len(txs)
  <2>1. /\ IsDeposit2(txs) => Len(txs) \in 2 .. 5
        /\ IsStakeDeposit(txs) => Len(txs) \in 4 .. 7
    BY Zenon DEF IsDeposit2, IsStakeDeposit, Ends
  <2>2. /\ \A n \in 2 .. 5 : 1 \in 1 .. n /\ 2 \in 1 .. n
        /\ \A n \in 4 .. 7 : 2 \in 1 .. n /\ 3 \in 1 .. n
    OBVIOUS
  <2>. QED
    BY <2>1, <2>2, Zenon
<1>2. ASSUME NEW j \in 1 .. Len(txs), NEW k \in 1 .. Len(txs)
      PROVE  \A fee : Sound(Deposit(TransferAsset(Back(txs, j)), InnerAsset(Back(txs, k)), fee))
  <2>1. Whole(Back(txs, j)) /\ Whole(Back(txs, k))
    BY WholePart
  <2>2. Amount(TransferAsset(Back(txs, j))) /\ Amount(InnerAsset(Back(txs, k)))
    BY <2>1, TxAmounts
  <2>. QED
    BY <2>2, SoundTracked
<1>. QED
  BY <1>1, <1>2 DEF HandleDeposit2, HandleStakeDeposit

LEMMA SoundWithdraw2 ==
  ASSUME NEW txs, Wholes(txs), Len(txs) > 0, NEW tracker
  PROVE  Sound(HandleWithdraw2(txs, tracker))
<1> DEFINE call   == Back(txs, 1)
           inner  == Assets(InnerTransfers(call))
           tokens == IF Len(inner) = 3 THEN Less(inner[1], inner[3]) ELSE inner[1]
<1>1. Whole(call)
  <2>1. 1 \in 1 .. Len(txs)
    BY WholePart
  <2>. QED
    BY <2>1, WholePart
<1>2. /\ IsSeq(InnerTransfers(call)) /\ Amount(ReceivedAsset(call))
      /\ \A k \in DOMAIN InnerTransfers(call) : Amount(TransferAsset(InnerTransfers(call)[k]))
  BY <1>1, TxAmounts
<1>3. IsSeq(inner) /\ \A k \in DOMAIN inner : Amount(inner[k])
  <2>1. inner = [k \in DOMAIN InnerTransfers(call) |-> inner[k]]
        /\ \A k \in DOMAIN InnerTransfers(call) : Amount(inner[k])
    BY <1>2 DEF Assets
  <2>. HIDE DEF inner
  <2>. QED
    BY <1>2, <2>1, SameLength
<1>. HIDE DEF inner
<1>4. inner # <<>> => Amount(tokens)
  <2>1. Len(inner) \in Nat /\ DOMAIN inner = 1 .. Len(inner) /\ inner = [k \in 1 .. Len(inner) |-> inner[k]]
    BY <1>3, IsSeqType
  <2>2. inner # <<>> => Len(inner) > 0
    BY <2>1
  <2>3. inner # <<>> => 1 \in DOMAIN inner /\ (Len(inner) = 3 => 3 \in DOMAIN inner)
    BY <2>1, <2>2
  <2>. QED
    BY <1>3, <2>3, AssetAmount
<1>5. inner # <<>> => \A fee : Sound(Withdraw(tracker, tokens, ReceivedAsset(call), fee))
  BY <1>2, <1>4, SoundTracked
<1>. QED
  BY <1>5, SoundPlain DEF HandleWithdraw2, inner

LEMMA SoundLeveragedCommit ==
  ASSUME NEW txs, Wholes(txs), IsLeveragedCommit(txs)
  PROVE  Sound(HandleLeveragedCommit(txs))
<1> DEFINE a == HandleGalgoMint2(SubSeq(txs, 4, 5))
           b == HandleDeposit2(SubSeq(txs, 7, 8))
           c == HandleBorrow2(SubSeq(txs, 11, 12))
<1>1. Sound(a) /\ Sound(c)
  BY SoundFolksV2Rows
<1>2. Sound(b)
  <2>1. Len(txs) = 14 /\ IsDeposit2(SubSeq(txs, 7, 8))
    BY DEF IsLeveragedCommit, Flash, Is
  <2>2. Wholes(SubSeq(txs, 7, 8))
    <3>1. 7 \in Nat /\ 8 \in Nat /\ 7 > 0 /\ 8 <= Len(txs)
      BY <2>1
    <3>. QED
      BY <3>1, WholePart
  <2>. QED
    BY <2>1, <2>2, SoundDeposit2
<1>3. HandleLeveragedCommit(txs) = Flashing(txs, <<a, b, c>>)
  BY DEF HandleLeveragedCommit
<1>. HIDE DEF a, b, c
<1>4. IsSeq(<<a, b, c>>) /\ \A k \in DOMAIN <<a, b, c>> : Sound(<<a, b, c>>[k])
  BY <1>1, <1>2 DEF IsSeq
<1>. QED
  BY <1>3, <1>4, SoundInTurn, SoundThen, SoundRow DEF Flashing

LEMMA SoundFolksV2 ==
  ASSUME NEW txs, Wholes(txs), Len(txs) > 0, NEW tracker
  PROVE  Sound(HandleFolksV2(txs, tracker))
<1>1. Sound(HandleWithdraw2(txs, tracker))
  BY SoundWithdraw2
<1>2. /\ IsDeposit2(txs) => Sound(HandleDeposit2(txs))
      /\ IsStakeDeposit(txs) => Sound(HandleStakeDeposit(txs))
  BY SoundDeposit2
<1>3. ASSUME IsIncreaseCollateral2(txs)
      PROVE  Sound(HandleDeposit2(UpTo(txs, Len(txs) - 2)))
  <2>1. Len(txs) \in 5 .. 7 /\ IsDeposit2(UpTo(txs, Len(txs) - 2))
    BY <1>3, Zenon DEF IsIncreaseCollateral2, Ends
  <2>2. 1 \in Nat /\ Len(txs) - 2 \in Nat /\ 1 > 0 /\ Len(txs) - 2 <= Len(txs)
    <3>1. \A n \in 5 .. 7 : 1 \in Nat /\ n - 2 \in Nat /\ 1 > 0 /\ n - 2 <= n
      OBVIOUS
    <3>. QED
      BY <2>1, <3>1, Zenon
  <2>3. Wholes(UpTo(txs, Len(txs) - 2))
    BY <2>2, WholePart DEF UpTo
  <2>. QED
    BY <2>1, <2>3, SoundDeposit2
<1>4. IsLeveragedCommit(txs) => Sound(HandleLeveragedCommit(txs))
  BY SoundLeveragedCommit
<1>. QED
  BY <1>1, <1>2, <1>3, <1>4, SoundFolksV2Rows, SoundPlain, SoundRow DEF HandleFolksV2

-----------------------------------------------------------------------------
(* The cost basis: the walk over the groups *)

\* The group at the place of the walk is of whole amounts.
LEMMA WholeGroup ==
  ASSUME transactions \in Histories, NEW start \in 1 .. Len(transactions)
  PROVE  Wholes(GroupAt(start)) /\ Len(GroupAt(start)) > 0
<1>1. /\ IsSeq(GroupAt(start)) /\ Len(GroupAt(start)) \in Nat \ {0}
      /\ \A j \in DOMAIN GroupAt(start) : \E p \in 1 .. Len(transactions) : GroupAt(start)[j] = transactions[p]
  BY GroupAtIs
<1>2. DOMAIN transactions = 1 .. Len(transactions)
  BY HistoryType
<1>3. \A p \in 1 .. Len(transactions) : Whole(transactions[p])
  BY <1>2, AlgoGroupsAssumption DEF Whole, IsSeq
<1>. QED
  BY <1>1, <1>3 DEF Wholes

\* The tracker of a dapp.
Tracked(tracker) == tracker \in Trackers(DOMAIN tracker)

LEMMA PushedTracked ==
  ASSUME NEW tracker, Tracked(tracker), NEW r, Sound(r)
  PROVE  Tracked(PushAll(tracker, r.pushed))
<1> DEFINE ids == DOMAIN tracker \cup {r.pushed[k].id : k \in DOMAIN r.pushed}
           after == PushAll(tracker, r.pushed)
<1>1. tracker \in Trackers(ids)
  <2>1. PICK known \in SUBSET (DOMAIN tracker) : tracker \in [known -> Kept]
    BY DEF Tracked, Trackers
  <2>2. known \in SUBSET ids
    OBVIOUS
  <2>. HIDE DEF ids
  <2>. QED
    BY <2>1, <2>2 DEF Trackers
<1>2. IsSeq(r.pushed) /\ \A k \in DOMAIN r.pushed : r.pushed[k].id \in ids /\ r.pushed[k].entry \in Entries
  BY DEF Sound
<1>. HIDE DEF ids
<1>3. after \in Trackers(ids)
  BY <1>1, <1>2, PushAllKeeps
<1>. HIDE DEF after
<1>4. PICK known \in SUBSET ids : after \in [known -> Kept]
  BY <1>3 DEF Trackers
<1>5. DOMAIN after = known /\ known \in SUBSET known
  BY <1>4
<1>6. Tracked(after)
  BY <1>4, <1>5 DEF Tracked, Trackers
<1>. QED
  BY <1>6 DEF after

\* What the handler of a lending dapp pushes, whatever else it does.
LEMMA SoundLender ==
  ASSUME NEW dapp \in Lenders, NEW txs, Wholes(txs), Len(txs) > 0
  PROVE  Sound(HandleDappTransaction(dapp, txs))
<1>1. dapp = "algofiv1" \/ dapp = "algofiv2" \/ dapp = "folksv1" \/ dapp = "folksv2"
  BY DEF Lenders
<1>2. CASE dapp = "algofiv1"
  <2>1. HandleDappTransaction(dapp, txs) = HandleAlgofiV1(txs, memory.trackers[dapp])
    BY <1>2 DEF HandleDappTransaction
  <2>. QED
    BY <2>1, SoundAlgofiV1
<1>3. CASE dapp = "algofiv2"
  <2>1. HandleDappTransaction(dapp, txs) = HandleAlgofiV2(txs, memory.trackers[dapp])
    BY <1>3 DEF HandleDappTransaction
  <2>. QED
    BY <2>1, SoundAlgofiV2
<1>4. CASE dapp = "folksv1"
  <2>1. HandleDappTransaction(dapp, txs) = HandleFolksV1(txs, memory.trackers[dapp], memory.escrows)
    BY <1>4 DEF HandleDappTransaction
  <2>. QED
    BY <2>1, SoundFolksV1
<1>5. CASE dapp = "folksv2"
  <2>1. HandleDappTransaction(dapp, txs) = HandleFolksV2(txs, memory.trackers[dapp])
    BY <1>5 DEF HandleDappTransaction
  <2>. QED
    BY <2>1, SoundFolksV2
<1>. QED
  BY <1>1, <1>2, <1>3, <1>4, <1>5

\* Every lending dapp keeps its queues.
AllTracked ==
  /\ DOMAIN memory.trackers = Lenders
  /\ \A dapp \in Lenders : Tracked(memory.trackers[dapp])

LEMMA RememberKeeps ==
  ASSUME AllTracked, NEW dapp, NEW r, dapp \in Lenders => Sound(r), NEW noted, Remember(dapp, r.pushed, noted)
  PROVE  AllTracked'
<1> DEFINE after == [d \in Lenders |-> IF d = dapp THEN PushAll(memory.trackers[d], r.pushed) ELSE memory.trackers[d]]
<1>1. memory'.trackers = after
  BY DEF Remember
<1>2. DOMAIN after = Lenders /\ \A d \in Lenders : Tracked(after[d])
  <2>. SUFFICES ASSUME NEW d \in Lenders PROVE Tracked(after[d])
    OBVIOUS
  <2>1. CASE d = dapp
    <3>1. Tracked(PushAll(memory.trackers[d], r.pushed))
      BY <2>1, PushedTracked DEF AllTracked
    <3>. QED
      BY <2>1, <3>1
  <2>2. CASE d # dapp
    BY <2>2 DEF AllTracked
  <2>. QED
    BY <2>1, <2>2
<1>. HIDE DEF after
<1>. QED
  BY <1>1, <1>2 DEF AllTracked

LEMMA AllTrackedStep ==
  ASSUME WalkedOnce, AllTracked, [Next]_vars
  PROVE  AllTracked'
<1>1. ASSUME UNCHANGED memory
      PROVE  AllTracked'
  BY <1>1 DEF AllTracked
<1>2. CASE AskDapp
  <2> DEFINE dapp == dapps[asked + 1]
             result == HandleDappTransaction(dapp, group)
  <2>1. Wholes(group) /\ Len(group) > 0
    <3>1. transactions \in Histories /\ i \in 1 .. Len(transactions) /\ group = GroupAt(i)
      <4>1. Len(transactions) \in Nat
        BY HistoryType DEF WalkedOnce, Walk
      <4>. QED
        BY <1>2, <4>1 DEF AskDapp, WalkedOnce, Walk
    <3>. QED
      BY <3>1, WholeGroup
  <2>2. dapp \in Lenders => Sound(result)
    BY <2>1, SoundLender
  <2>3. \/ Remember(dapp, <<>>, {})
        \/ Remember(dapp, result.pushed, result.noted)
    BY <1>2 DEF AskDapp
  <2>. HIDE DEF dapp, result
  <2>4. CASE Remember(dapp, <<>>, {})
    <3>1. Sound(Nothing) /\ Nothing.pushed = <<>>
      BY SoundPlain DEF Nothing, Rows
    <3>. QED
      BY <2>4, <3>1, RememberKeeps
  <2>5. CASE Remember(dapp, result.pushed, result.noted)
    BY <2>2, <2>5, RememberKeeps
  <2>. QED
    BY <2>3, <2>4, <2>5
<1>. QED
  BY <1>1, <1>2 DEF Next, NextGroup, Generic, vars

LEMMA AllTrackedKept ==
  ASSUME AllTracked
  PROVE  QueuesKept
<1>. SUFFICES ASSUME NEW dapp \in Lenders, NEW id \in DOMAIN memory.trackers[dapp]
              PROVE  QueueKept(memory.trackers[dapp][id])
  BY DEF AllTracked, QueuesKept
<1>1. PICK known : memory.trackers[dapp] \in [known -> Kept]
  BY DEF AllTracked, Tracked, Trackers
<1>. QED
  BY <1>1 DEF Kept

\* In every report, whatever is deposited and withdrawn by the groups that the lending
\* dapps handle, and whichever of them raise: every queue of the cost basis holds what
\* is left of the tokens that were bought, the oldest gone first, and knows how many
\* (DepositCostBasisTracker, FIFO.push).
THEOREM CostBasisKept == Spec => []QueuesKept
<1>1. Init => WalkedOnce /\ AllTracked
  <2>1. SUFFICES ASSUME Init
                 PROVE  WalkedOnce /\ AllTracked
    OBVIOUS
  <2>2. WalkedOnce
    BY <2>1, WalkedOnceInit
  <2>3. Tracked(<<>>)
    <3>1. DOMAIN <<>> = {} /\ <<>> \in [{} -> Kept]
      OBVIOUS
    <3>. QED
      BY <3>1 DEF Tracked, Trackers
  <2>4. memory.trackers = [d \in Lenders |-> <<>>]
    BY <2>1 DEF Init
  <2>5. AllTracked
    BY <2>3, <2>4 DEF AllTracked
  <2>. QED
    BY <2>2, <2>5
<1>2. WalkedOnce /\ AllTracked /\ [Next]_vars => WalkedOnce' /\ AllTracked'
  BY WalkedOnceStep, AllTrackedStep
<1>3. AllTracked => QueuesKept
  BY AllTrackedKept
<1>. QED
  BY <1>1, <1>2, <1>3, PTL DEF Spec

=============================================================================
