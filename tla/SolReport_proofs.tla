--------------------------- MODULE SolReport_proofs ---------------------------
(***************************************************************************)
(* Proofs about the Solana report: whatever the ledger, the settings, the  *)
(* token accounts and the answers of the node, and whatever the handlers   *)
(* make of a transaction, each one is handled once and in order.           *)
(***************************************************************************)
EXTENDS SolReport, NatLemmas

-----------------------------------------------------------------------------
(* Sets of places *)

\* NewestFirst is the set in falling order.
LEMMA NewestFirstIs ==
  ASSUME NEW S \in SUBSET Nat, IsFiniteSet(S)
  PROVE  /\ Cardinality(S) \in Nat
         /\ NewestFirst(S) \in Seq(S) /\ Len(NewestFirst(S)) = Cardinality(S)
         /\ \A k \in 1 .. Cardinality(S) : NewestFirst(S)[k] \in S
         /\ \A k, l \in 1 .. Cardinality(S) : k < l => NewestFirst(S)[k] > NewestFirst(S)[l]
         /\ \A p \in S : \E k \in 1 .. Cardinality(S) : NewestFirst(S)[k] = p
<1> DEFINE before == [p \in S |-> NewerThan(p, S)]
           s == NewestFirst(S)
           n == Cardinality(S)
<1>1. before \in [S -> SUBSET S]
  BY DEF NewerThan
<1>2. /\ \A p \in S : p \notin before[p]
      /\ \A p, q \in S : q \in before[p] => before[q] \subseteq before[p]
      /\ \A p, q \in S : p # q => p \in before[q] \/ q \in before[p]
  <2>1. \A p, q \in S : p \in Int /\ (q \in before[p] <=> q > p)
    BY DEF NewerThan
  <2>. HIDE DEF before
  <2>2. ASSUME NEW p \in S, NEW q \in S, q \in before[p]
        PROVE  before[q] \subseteq before[p]
    <3>1. ASSUME NEW r \in S, r \in before[q]
          PROVE  r \in before[p]
      BY <2>1, <2>2, <3>1
    <3>2. before[q] \subseteq S
      BY <1>1
    <3>. QED
      BY <3>1, <3>2
  <2>. QED
    BY <2>1, <2>2
<1>3. s = [k \in 1 .. n |-> CHOOSE p \in S : Cardinality(before[p]) = k - 1]
  BY DEF NewestFirst
<1>4. \A k \in 1 .. n : s[k] = CHOOSE p \in S : Cardinality(before[p]) = k - 1
  BY <1>3
<1>. HIDE DEF s
<1>5. /\ n \in Nat
      /\ \A k \in 1 .. n : s[k] \in S
      /\ \A k, l \in 1 .. n : k < l => s[k] \in before[s[l]]
      /\ \A p \in S : \E k \in 1 .. n : s[k] = p
  <2>. HIDE DEF before
  <2>. QED
    BY <1>1, <1>2, <1>4, Ranked
<1>6. \A k, l \in 1 .. n : k < l => s[k] > s[l]
  BY <1>5 DEF NewerThan
<1>7. s \in Seq(S) /\ Len(s) = n
  <2>1. s \in [1 .. n -> S]
    BY <1>3, <1>5
  <2>. QED
    BY <1>5, <2>1
<1>. QED
  BY <1>5, <1>6, <1>7 DEF s

\* The newest places of a set: none that is left is newer than one of them, and there
\* are as many of them as asked for, or all.
LEMMA NewestOf ==
  ASSUME NEW S \in SUBSET Nat, IsFiniteSet(S), NEW n \in Nat, NEW page,
         page = {p \in S : Cardinality(NewerThan(p, S)) < n}
  PROVE  /\ page \subseteq S
         /\ \A p \in page, q \in S : q > p => q \in page
         /\ page = S \/ Cardinality(page) >= n
<1> DEFINE before == [p \in S |-> NewerThan(p, S)]
<1>1. before \in [S -> SUBSET S]
  BY DEF NewerThan
<1>2. /\ \A p \in S : p \notin before[p]
      /\ \A p, q \in S : q \in before[p] => before[q] \subseteq before[p]
      /\ \A p, q \in S : p # q => p \in before[q] \/ q \in before[p]
  <2>1. \A p, q \in S : p \in Int /\ (q \in before[p] <=> q > p)
    BY DEF NewerThan
  <2>. HIDE DEF before
  <2>2. ASSUME NEW p \in S, NEW q \in S, q \in before[p]
        PROVE  before[q] \subseteq before[p]
    <3>1. ASSUME NEW r \in S, r \in before[q]
          PROVE  r \in before[p]
      BY <2>1, <2>2, <3>1
    <3>2. before[q] \subseteq S
      BY <1>1
    <3>. QED
      BY <3>1, <3>2
  <2>. QED
    BY <2>1, <2>2
<1>3. \A p \in S : before[p] = {q \in S : q > p}
  BY DEF NewerThan
<1>4. page = {p \in S : Cardinality(before[p]) < n}
  OBVIOUS
<1>. HIDE DEF before
<1>5. /\ Cardinality(S) \in Nat
      /\ \A p \in S : Cardinality(before[p]) \in 0 .. Cardinality(S) - 1
      /\ \A p, q \in S : Cardinality(before[p]) < Cardinality(before[q]) <=> p \in before[q]
      /\ \A k \in 1 .. Cardinality(S) : \E p \in S : Cardinality(before[p]) = k - 1
  BY <1>1, <1>2, Counting
<1>6. ASSUME NEW p \in page, NEW q \in S, q > p
      PROVE  q \in page
  <2>1. q \in before[p] /\ p \in S /\ Cardinality(before[p]) < n
    BY <1>3, <1>4, <1>6
  <2>2. /\ Cardinality(before[q]) < Cardinality(before[p])
        /\ Cardinality(before[q]) \in Nat /\ Cardinality(before[p]) \in Nat
    BY <1>5, <2>1
  <2>3. Cardinality(before[q]) < n
    BY <2>1, <2>2
  <2>. QED
    BY <1>4, <2>3
<1>7. ASSUME page # S
      PROVE  Cardinality(page) >= n
  <2>1. PICK p \in S : ~(Cardinality(before[p]) < n)
    BY <1>4, <1>7
  <2>2. n + 1 \in 1 .. Cardinality(S) /\ (n + 1) - 1 = n
    BY <1>5, <2>1
  <2>3. PICK q \in S : Cardinality(before[q]) = n
    BY <1>5, <2>2
  <2>4. before[q] \subseteq page
    <3>1. ASSUME NEW r \in S, r \in before[q]
          PROVE  r \in page
      <4>1. Cardinality(before[r]) < n
        BY <1>5, <2>3, <3>1
      <4>. QED
        BY <1>4, <4>1
    <3>2. before[q] \subseteq S
      BY <1>1
    <3>. QED
      BY <3>1, <3>2
  <2>5. IsFiniteSet(page)
    BY <1>4, FS_Subset
  <2>6. Cardinality(before[q]) <= Cardinality(page)
    BY <2>4, <2>5, FS_Subset
  <2>. QED
    BY <2>3, <2>6
<1>. QED
  BY <1>4, <1>6, <1>7

LEMMA MinIs ==
  ASSUME NEW S \in SUBSET Nat, S # {}
  PROVE  Min(S) \in S /\ \A p \in S : Min(S) <= p
<1>1. \E m \in S : \A p \in S : m <= p
  BY LeastNat
<1>. QED
  BY <1>1 DEF Min

\* One sequence behind another.
LEMMA Concatenated ==
  ASSUME NEW X, NEW s \in Seq(X), NEW t \in Seq(X)
  PROVE  /\ s \o t \in Seq(X) /\ Len(s \o t) = Len(s) + Len(t)
         /\ \A k \in 1 .. Len(s) : (s \o t)[k] = s[k]
         /\ \A k \in (Len(s) + 1) .. (Len(s) + Len(t)) : (s \o t)[k] = t[k - Len(s)]
  OBVIOUS

\* SetToSeq has the elements of the set.
LEMMA SetToSeqIs ==
  ASSUME NEW S, IsFiniteSet(S)
  PROVE  SetToSeq(S) \in Seq(S) /\ ToSet(SetToSeq(S)) = S
<1> DEFINE n == Cardinality(S)
           s == SetToSeq(S)
<1>1. n \in Nat /\ ExistsBijection(1 .. n, S)
  BY FS_CardinalityType
<1>2. PICK f \in [1 .. n -> S] : \A a, b \in 1 .. n : f[a] = f[b] => a = b
  BY <1>1 DEF ExistsBijection, Bijection, Injection, IsInjective
<1>3. IsInjective(f)
  BY <1>2 DEF IsInjective
<1>4. s \in [1 .. n -> S] /\ IsInjective(s)
  <2>1. s = CHOOSE g \in [1 .. n -> S] : IsInjective(g)
    BY DEF SetToSeq
  <2>. QED
    BY <1>2, <1>3, <2>1
<1>. HIDE DEF s
<1>5. s \in Injection(1 .. n, S)
  BY <1>4 DEF IsInjective, Injection
<1>6. IsFiniteSet(1 .. n) /\ Cardinality(1 .. n) = n
  BY <1>1, FS_Interval
<1>7. s \in Surjection(1 .. n, S)
  BY <1>5, <1>6, FS_Injection
<1>8. \A e \in S : \E k \in 1 .. n : s[k] = e
  BY <1>7 DEF Surjection
<1>9. s \in Seq(S)
  BY <1>1, <1>4
<1>10. ToSet(s) = S
  BY <1>4, <1>8 DEF ToSet
<1>. QED
  BY <1>9, <1>10 DEF s

-----------------------------------------------------------------------------
(* Queries *)

\* The ledger is one of the instance.
LedgerInv == \E report \in Reports : ledger = report.ledger /\ config = report.config

LEMMA LedgerType ==
  ASSUME LedgerInv
  PROVE  /\ Len(ledger.txs) \in Nat /\ DOMAIN ledger.txs = 1 .. Len(ledger.txs)
         /\ \A p \in DOMAIN ledger.txs : TimeOf(ledger.txs[p]) \in Nat /\ ledger.txs[p].delegated \subseteq StakeAccounts
         /\ ledger.staking \subseteq StakeAccounts
         /\ config.limit \in Nat /\ config.start \in Nat
<1>1. \A p \in DOMAIN ledger.txs : ledger.txs[p].time \in Nat => TimeOf(ledger.txs[p]) \in Nat
  BY DEF TimeOf
<1>. QED
  BY <1>1, SolReportAssumption DEF LedgerInv

\* What the answers on an address should lead to.
Due(address) == {p \in Signatures(address) : Kept(p) /\ InDates(ledger.txs[p])}

\* What the queries have gone through.
Passed(address) == {p \in Signatures(address) : query.before # 0 /\ p >= query.before}

QueryType(address) ==
  /\ query.before \in Nat
  /\ query.queries \in 0 .. (MaxQueries - 1)
  /\ query.found \subseteq Due(address)
  /\ query.found \cap ToSet(txids) = {}

\* Nothing that was gone through is lost, and a query goes through a page.
QueryCovers(address) ==
  /\ \A p \in Due(address) \cap Passed(address) : p \in query.found \cup ToSet(txids)
  /\ \/ query.queries * PageSize <= Cardinality(Passed(address))
     \/ Passed(address) = Signatures(address)

Finished(address, found) == Due(address) \subseteq found \cup ToSet(txids)

\* What one page adds is due, and is new.
LEMMA TakenIsNew ==
  ASSUME LedgerInv, NEW address, QueryType(address), NEW limit,
         NEW page, page \subseteq Signatures(address),
         NEW found, found = TakePage({p \in page : Kept(p)}, query.found, limit).found
  PROVE  found \subseteq Due(address) /\ found \cap ToSet(txids) = {} /\ query.found \subseteq found
<1>1. /\ query.found \subseteq found
      /\ \A p \in found : p \in query.found \/ (p \in page /\ Kept(p) /\ InDates(ledger.txs[p]) /\ NotSeen(p, query.found))
  BY DEF TakePage
<1>2. \A p \in found : p \in Due(address) /\ p \notin ToSet(txids)
  BY <1>1 DEF QueryType, Due, NotSeen
<1>. QED
  BY <1>1, <1>2

\* The page of a query: the newest transactions not gone through yet.
LEMMA PageIs ==
  ASSUME LedgerInv, NEW address, QueryType(address)
  PROVE  LET page == Page(address)
             rest == Signatures(address) \ Passed(address)
         IN  /\ page \subseteq rest
             /\ \A p \in page, q \in rest : q > p => q \in page
             /\ \A p \in rest, q \in Passed(address) : p < q
             /\ page = rest \/ Cardinality(page) >= PageSize
             /\ rest \subseteq DOMAIN ledger.txs
<1> DEFINE page == Page(address)
           rest == {p \in Signatures(address) : query.before = 0 \/ p < query.before}
<1>1. /\ DOMAIN ledger.txs = 1 .. Len(ledger.txs) /\ Len(ledger.txs) \in Nat
      /\ query.before \in Nat
  BY LedgerType DEF QueryType
<1>2. Signatures(address) \subseteq 1 .. Len(ledger.txs)
  BY <1>1 DEF Signatures
<1>3. rest = Signatures(address) \ Passed(address)
  <2>1. \A p \in Signatures(address) : p \in Int
    BY <1>2
  <2>2. \A p \in Signatures(address) : query.before = 0 \/ p < query.before <=> ~(query.before # 0 /\ p >= query.before)
    BY <1>1, <2>1
  <2>. QED
    BY <2>2 DEF Passed
<1>4. page = {p \in rest : Cardinality(NewerThan(p, rest)) < PageSize}
  BY DEF Page
<1>5. rest \in SUBSET Nat /\ IsFiniteSet(rest)
  <2>1. rest \subseteq 1 .. Len(ledger.txs)
    BY <1>2
  <2>2. IsFiniteSet(1 .. Len(ledger.txs))
    BY <1>1, FS_Interval
  <2>. QED
    BY <2>1, <2>2, FS_Subset
<1>6. \A p \in rest, q \in Passed(address) : p < q
  <2>1. \A p \in Signatures(address) : p \in Int
    BY <1>2
  <2>. QED
    BY <1>1, <2>1 DEF Passed
<1>. HIDE DEF page, rest
<1>7. /\ page \subseteq rest
      /\ \A p \in page, q \in rest : q > p => q \in page
      /\ page = rest \/ Cardinality(page) >= PageSize
  BY <1>4, <1>5, NewestOf, SolReportAssumption
<1>8. rest \subseteq DOMAIN ledger.txs
  BY <1>1, <1>2, <1>3
<1>. QED
  BY <1>3, <1>6, <1>7, <1>8 DEF page

\* With nothing in the way, a set of places as large as a limit is all of them.
LEMMA LimitIsAll ==
  ASSUME LedgerInv, NothingCut, NEW address, NEW S, S \subseteq DOMAIN ledger.txs,
         \/ Cardinality(S) >= Limit(address)
         \/ Cardinality(S) >= MaxQueries * PageSize
  PROVE  S = DOMAIN ledger.txs
<1> DEFINE n == Len(ledger.txs)
<1>1. /\ n \in Nat /\ DOMAIN ledger.txs = 1 .. n
      /\ config.limit \in Nat /\ config.limit >= 5 * n
      /\ MaxQueries * PageSize \in Nat /\ MaxQueries * PageSize >= n
  BY LedgerType, SolReportAssumption DEF NothingCut
<1>2. Limit(address) \in Nat /\ Limit(address) >= n
  BY <1>1 DEF Limit
<1>3. IsFiniteSet(1 .. n) /\ Cardinality(1 .. n) = n
  <2>1. n \in Nat
    BY <1>1
  <2>. HIDE DEF n
  <2>2. /\ IsFiniteSet(1 .. n)
        /\ Cardinality(1 .. n) = IF 1 > n THEN 0 ELSE n - 1 + 1
    BY <2>1, FS_Interval
  <2>. QED
    BY <2>1, <2>2
<1>4. /\ Cardinality(S) <= n
      /\ Cardinality(S) = n => S = 1 .. n
      /\ IsFiniteSet(S)
  BY <1>1, <1>3, FS_Subset
<1>5. Cardinality(S) \in Nat
  BY <1>4, FS_CardinalityType
<1>. HIDE DEF n
<1>6. Cardinality(S) >= n
  <2>1. CASE Cardinality(S) >= Limit(address)
    BY <1>1, <1>2, <1>5, <2>1
  <2>2. CASE Cardinality(S) >= MaxQueries * PageSize
    BY <1>1, <1>5, <2>2
  <2>. QED
    BY <2>1, <2>2
<1>. QED
  BY <1>1, <1>4, <1>5, <1>6

\* If the loop over a page returns, all that is due is found; otherwise all of the page.
LEMMA PageCovers ==
  ASSUME LedgerInv, NothingCut, NEW address, QueryType(address), QueryCovers(address),
         NEW page, page = Page(address),
         NEW taken, taken = TakePage({p \in page : Kept(p)}, query.found, Limit(address))
  PROVE  /\ taken.over => Finished(address, taken.found)
         /\ ~taken.over => \A p \in Due(address) \cap (Passed(address) \cup page) : p \in taken.found \cup ToSet(txids)
<1> DEFINE kept == {p \in page : Kept(p)}
           found == query.found
           new  == {p \in kept : InDates(ledger.txs[p]) /\ NotSeen(p, found)}
           ends == {p \in kept : \/ TimeOf(ledger.txs[p]) < config.start
                                 \/ Cardinality(found \cup (new \ 1 .. (p - 1))) >= Limit(address)}
           rest == Signatures(address) \ Passed(address)
<1>1. /\ taken.over = (ends # {})
      /\ taken.found = found \cup {p \in new : NewerThan(p, ends) = {}}
  BY DEF TakePage
<1>2. /\ page \subseteq rest
      /\ \A p \in page, q \in rest : q > p => q \in page
      /\ rest \subseteq DOMAIN ledger.txs
  BY PageIs
<1>3. /\ DOMAIN ledger.txs = 1 .. Len(ledger.txs) /\ Len(ledger.txs) \in Nat
      /\ \A p \in DOMAIN ledger.txs : TimeOf(ledger.txs[p]) \in Nat
      /\ config.start \in Nat
  BY LedgerType
<1>4. \A p \in Due(address) : /\ p \in Signatures(address) /\ p \in DOMAIN ledger.txs
                              /\ Kept(p) /\ InDates(ledger.txs[p])
                              /\ TimeOf(ledger.txs[p]) >= config.start
  BY DEF Due, Signatures, InDates
<1>5. found \subseteq DOMAIN ledger.txs /\ new \subseteq DOMAIN ledger.txs
  <2>1. found \subseteq DOMAIN ledger.txs
    BY <1>4 DEF QueryType
  <2>. QED
    BY <1>2, <2>1
<1>6. \A p \in Due(address) \cap page : p \in new \/ p \in found \cup ToSet(txids)
  BY <1>4 DEF NotSeen
<1>7. \A p \in Due(address) \cap Passed(address) : p \in found \cup ToSet(txids)
  BY DEF QueryCovers
<1>8. \A p \in ends : p \in page /\ p \in DOMAIN ledger.txs
  BY <1>2
<1>. SUFFICES ASSUME NEW d \in Due(address), d \notin taken.found \cup ToSet(txids),
                     taken.over \/ d \in Passed(address) \cup page
              PROVE  FALSE
  BY DEF Finished
<1>9. d \notin Passed(address) /\ d \in rest /\ d \notin found
  BY <1>1, <1>4, <1>7
<1>10. PICK e \in ends : e > d
  <2>1. CASE d \in page
    <3>1. d \in new /\ NewerThan(d, ends) # {}
      BY <1>1, <1>6, <1>9, <2>1
    <3>. HIDE DEF ends
    <3>. QED
      BY <3>1 DEF NewerThan
  <2>2. CASE d \notin page
    <3>1. PICK e \in ends : TRUE
      BY <1>1, <1>9, <2>2
    <3>2. e \in page /\ ~(d > e) /\ e # d /\ e \in DOMAIN ledger.txs /\ d \in DOMAIN ledger.txs
      BY <1>2, <1>4, <1>8, <1>9, <2>2
    <3>3. e > d
      BY <1>3, <3>2
    <3>. QED
      BY <3>3
  <2>. QED
    BY <2>1, <2>2
<1>11. /\ e \in DOMAIN ledger.txs /\ d \in DOMAIN ledger.txs /\ d < e
       /\ TimeOf(ledger.txs[d]) \in Nat /\ TimeOf(ledger.txs[e]) \in Nat
       /\ d \in Int /\ e \in Int /\ d >= 1
  <2>1. e \in DOMAIN ledger.txs /\ d \in DOMAIN ledger.txs /\ e > d
    BY <1>4, <1>8, <1>10
  <2>. QED
    BY <1>3, <2>1
<1>12. CASE TimeOf(ledger.txs[e]) < config.start
  <2>1. TimeOf(ledger.txs[d]) <= TimeOf(ledger.txs[e]) \/ config.start = 0
    BY <1>11 DEF NothingCut
  <2>2. TimeOf(ledger.txs[d]) >= config.start
    BY <1>4
  <2>. QED
    BY <1>3, <1>11, <1>12, <2>1, <2>2
<1>13. CASE Cardinality(found \cup (new \ 1 .. (e - 1))) >= Limit(address)
  <2> DEFINE S == found \cup (new \ 1 .. (e - 1))
  <2>1. S \subseteq DOMAIN ledger.txs
    BY <1>5
  <2>2. Cardinality(S) >= Limit(address)
    BY <1>13
  <2>3. d \notin S
    BY <1>9, <1>11
  <2>. HIDE DEF S
  <2>4. S = DOMAIN ledger.txs
    BY <2>1, <2>2, LimitIsAll
  <2>. QED
    BY <1>11, <2>3, <2>4
<1>. QED
  BY <1>12, <1>13

\* Where a page is empty or the last that is asked for, nothing is left behind it;
\* otherwise the next query goes on behind it.
LEMMA QueryGoesOn ==
  ASSUME LedgerInv, NothingCut, NEW address, QueryType(address), QueryCovers(address),
         NEW page, page = Page(address)
  PROVE  /\ page = {} \/ query.queries + 1 = MaxQueries => Signatures(address) = Passed(address) \cup page
         /\ page # {} =>
              /\ Min(page) \in Nat \ {0}
              /\ {p \in Signatures(address) : p >= Min(page)} = Passed(address) \cup page
              /\ \/ (query.queries + 1) * PageSize <= Cardinality(Passed(address) \cup page)
                 \/ Passed(address) \cup page = Signatures(address)
<1> DEFINE passed == Passed(address)
           sigs   == Signatures(address)
           rest   == sigs \ passed
           m      == Min(page)
<1>1. /\ page \subseteq rest
      /\ \A p \in page, q \in rest : q > p => q \in page
      /\ \A p \in rest, q \in passed : p < q
      /\ page = rest \/ Cardinality(page) >= PageSize
      /\ rest \subseteq DOMAIN ledger.txs
  BY PageIs
<1>2. /\ DOMAIN ledger.txs = 1 .. Len(ledger.txs) /\ Len(ledger.txs) \in Nat
      /\ query.queries \in Nat /\ PageSize \in Nat \ {0} /\ MaxQueries \in Nat \ {0}
  BY LedgerType, SolReportAssumption DEF QueryType
<1>3. passed \subseteq sigs /\ sigs \subseteq DOMAIN ledger.txs
  BY DEF Passed, Signatures
<1>4. query.queries * PageSize <= Cardinality(passed) \/ passed = sigs
  BY DEF QueryCovers
<1>. HIDE DEF passed, sigs
<1>5. /\ IsFiniteSet(passed) /\ IsFiniteSet(page) /\ passed \cap page = {}
      /\ Cardinality(passed) \in Nat /\ Cardinality(page) \in Nat
      /\ Cardinality(passed \cup page) = Cardinality(passed) + Cardinality(page)
  <2>1. IsFiniteSet(DOMAIN ledger.txs)
    BY <1>2, FS_Interval
  <2>2. IsFiniteSet(passed) /\ IsFiniteSet(page)
    BY <1>1, <1>3, <2>1, FS_Subset
  <2>3. passed \cap page = {}
    BY <1>1
  <2>4. /\ Cardinality(passed) \in Nat /\ Cardinality(page) \in Nat
        /\ Cardinality(passed \cup page) = Cardinality(passed) + Cardinality(page) - Cardinality({})
    BY <2>2, <2>3, FS_CardinalityType, FS_Union
  <2>. QED
    BY <2>2, <2>3, <2>4, FS_EmptySet
<1>6. \/ (query.queries + 1) * PageSize <= Cardinality(passed \cup page)
      \/ passed \cup page = sigs
  <2>1. CASE page = rest
    BY <1>3, <2>1
  <2>2. CASE page # rest
    <3>1. Cardinality(page) >= PageSize
      BY <1>1, <2>2
    <3>2. passed # sigs
      BY <1>1, <2>2
    <3>3. query.queries * PageSize <= Cardinality(passed)
      BY <1>4, <3>2
    <3>4. /\ query.queries * PageSize \in Nat
          /\ (query.queries + 1) * PageSize = query.queries * PageSize + PageSize
      BY <1>2
    <3>. QED
      BY <1>2, <1>5, <3>1, <3>3, <3>4
  <2>. QED
    BY <2>1, <2>2
<1>7. ASSUME page = {} \/ query.queries + 1 = MaxQueries
      PROVE  sigs = passed \cup page
  <2>1. CASE page = {}
    <3>1. Cardinality(page) = 0
      BY <2>1, FS_EmptySet
    <3>2. page = rest
      BY <1>1, <1>2, <3>1
    <3>. QED
      BY <1>3, <3>2
  <2>2. CASE query.queries + 1 = MaxQueries
    <3>1. SUFFICES ASSUME MaxQueries * PageSize <= Cardinality(passed \cup page)
                   PROVE  sigs = passed \cup page
      BY <1>6, <2>2
    <3>2. passed \cup page \subseteq sigs
      BY <1>1, <1>3
    <3>3. passed \cup page = DOMAIN ledger.txs
      <4>1. Cardinality(passed \cup page) >= MaxQueries * PageSize
        BY <1>2, <1>5, <3>1
      <4>2. passed \cup page \subseteq DOMAIN ledger.txs
        BY <1>3, <3>2
      <4>. QED
        BY <4>1, <4>2, LimitIsAll
    <3>. QED
      BY <1>3, <3>2, <3>3
  <2>. QED
    BY <1>7, <2>1, <2>2
<1>8. ASSUME page # {}
      PROVE  /\ m \in Nat \ {0}
             /\ {p \in sigs : p >= m} = passed \cup page
  <2>1. page \in SUBSET Nat
    BY <1>1, <1>2
  <2>2. m \in page /\ \A p \in page : m <= p
    BY <1>8, <2>1, MinIs
  <2>. HIDE DEF m
  <2>3. m \in Nat \ {0}
    BY <1>1, <1>2, <2>2
  <2>4. \A p \in sigs : p \in Nat
    BY <1>2, <1>3
  <2>5. ASSUME NEW p \in sigs, p >= m
        PROVE  p \in passed \cup page
    <3>1. p \in rest => p > m \/ p = m
      BY <2>3, <2>4, <2>5
    <3>. QED
      BY <1>1, <2>2, <3>1
  <2>6. ASSUME NEW p \in passed \cup page
        PROVE  p \in sigs /\ p >= m
    <3>1. p \in sigs
      BY <1>1, <1>3
    <3>2. CASE p \in passed
      <4>1. m < p
        BY <1>1, <2>2, <3>2
      <4>. QED
        BY <2>3, <2>4, <3>1, <4>1
    <3>3. CASE p \in page
      BY <2>2, <2>3, <2>4, <3>1, <3>3
    <3>. QED
      BY <3>1, <3>2, <3>3
  <2>. QED
    BY <2>3, <2>5, <2>6
<1>. QED
  BY <1>6, <1>7, <1>8 DEF passed, sigs

-----------------------------------------------------------------------------
(* The inductive invariant *)

PlaceInv ==
  /\ LedgerInv
  /\ faults \in Nat
  /\ staking \subseteq StakeAccounts /\ visited \subseteq StakeAccounts
  /\ (account = Wallet /\ visited = {}) \/ account \in visited

\* What is found is wanted, once.
TxidsInv ==
  /\ txids \in Seq(Wanted(account))
  /\ \A j, k \in DOMAIN txids : j # k => txids[j] # txids[k]
  /\ phase = "accounts" => txids = <<>>

\* It names the account itself.
Own(p) == Names(ledger.txs[p], account)

Falling == \A j, k \in DOMAIN txids : j < k /\ Own(txids[j]) /\ Own(txids[k]) => txids[j] > txids[k]
Rising  == \A j, k \in DOMAIN txids : j < k /\ Own(txids[j]) /\ Own(txids[k]) => txids[j] < txids[k]

\* While the lists are fetched: the addresses that are done have all of theirs found.  Of
\* the transactions that name the account itself all are, from its own list and newest
\* first, before the next address is asked for.
AddressesInv ==
  phase = "fetch" =>
    /\ addresses \in Seq(Asked(account))
    /\ \A a : addresses # <<>> /\ a = Head(addresses) => QueryType(a) /\ (NothingCut => QueryCovers(a))
CoverInv ==
  phase = "fetch" /\ NothingCut =>
    /\ \A a \in Asked(account) : a \in ToSet(addresses) \/ Due(a) \subseteq ToSet(txids)
    /\ Due(account) \subseteq ToSet(txids) \/ (txids = <<>> /\ addresses # <<>> /\ Head(addresses) = account)
    /\ Falling

\* Afterwards they are turned around, and all of them there.
ListInv ==
  NothingCut =>
    /\ phase \in {"staking", "process"} => Rising
    /\ phase = "staking" => Wanted(account) \subseteq ToSet(txids)

HandledFor(a) == {handled[k].p : k \in DoneFor(a)}

\* What was handled, once, and what is left of the account.
HandledInv ==
  /\ handled \in Seq({handled[k] : k \in DOMAIN handled})
  /\ \A k \in DOMAIN handled : handled[k].account \in {Wallet} \cup visited /\ handled[k].p \in Wanted(handled[k].account)
  /\ phase \in {"accounts", "fetch", "staking"} => \A k \in DOMAIN handled : handled[k].account # account
  /\ \A j, k \in DOMAIN handled : j # k /\ handled[j].account = handled[k].account => handled[j].p # handled[k].p
  /\ \A k \in DOMAIN handled, j \in DOMAIN txids : handled[k].account = account => handled[k].p # txids[j]

\* With nothing in the way all of it is handled, of every account that was reported on,
\* and in order.
ReportInv ==
  NothingCut =>
    /\ phase = "process" => Wanted(account) \subseteq HandledFor(account) \cup ToSet(txids)
    /\ \A a \in {Wallet} \cup visited : a # account \/ phase = "done" => Wanted(a) \subseteq HandledFor(a)
    /\ OldestBefore
    /\ phase = "process" =>
         \A k \in DOMAIN handled, j \in DOMAIN txids :
           handled[k].account = account /\ Own(handled[k].p) /\ Own(txids[j]) => handled[k].p < txids[j]

Inv == PlaceInv /\ TxidsInv /\ AddressesInv /\ CoverInv /\ ListInv /\ HandledInv /\ ReportInv

\* What a step does not touch.
LEMMA Steady ==
  ASSUME ledger' = ledger, config' = config
  PROVE  /\ \A a : /\ Wanted(a)' = Wanted(a) /\ Asked(a)' = Asked(a)
                   /\ Due(a)' = Due(a) /\ Signatures(a)' = Signatures(a)
         /\ LedgerInv => LedgerInv'
         /\ faults' = faults => NothingCut' = NothingCut
         /\ faults \in Nat /\ (faults' = faults \/ faults' = faults + 1) => faults' \in Nat /\ (NothingCut' => NothingCut)
<1>1. ASSUME NEW a
      PROVE  Wanted(a)' = Wanted(a) /\ Asked(a)' = Asked(a)
  BY DEF Wanted, Asked, Kept, InDates
<1>2. ASSUME NEW a
      PROVE  Due(a)' = Due(a) /\ Signatures(a)' = Signatures(a)
  BY DEF Due, Signatures, Kept, InDates
<1>3. LedgerInv => LedgerInv'
  BY DEF LedgerInv
<1>4. faults' = faults => NothingCut' = NothingCut
  BY DEF NothingCut
<1>5. faults \in Nat /\ faults' = faults + 1 => faults' \in Nat /\ ~NothingCut'
  BY DEF NothingCut
<1>6. faults \in Nat /\ faults' = faults => faults' \in Nat /\ (NothingCut' => NothingCut)
  BY <1>4
<1>. QED
  BY <1>1, <1>2, <1>3, <1>4, <1>5, <1>6

\* What is due at one of the addresses is wanted, and nothing else.
LEMMA WantedIs ==
  ASSUME LedgerInv, NEW a
  PROVE  /\ \A address \in Asked(a) : Due(address) \subseteq Wanted(a)
         /\ \A p \in Wanted(a) : \E address \in Asked(a) : p \in Due(address)
         /\ Wanted(a) \subseteq Nat /\ a \in Asked(a)
         /\ IsFiniteSet(Wanted(a))
<1>1. DOMAIN ledger.txs = 1 .. Len(ledger.txs) /\ Len(ledger.txs) \in Nat
  BY LedgerType
<1>2. /\ \A address \in Asked(a) : Due(address) \subseteq Wanted(a)
      /\ \A p \in Wanted(a) : \E address \in Asked(a) : p \in Due(address)
  BY DEF Wanted, Due, Signatures
<1>3. Wanted(a) \subseteq 1 .. Len(ledger.txs)
  BY <1>1 DEF Wanted
<1>4. IsFiniteSet(Wanted(a))
  <2>1. IsFiniteSet(1 .. Len(ledger.txs))
    BY <1>1, FS_Interval
  <2>. QED
    BY <1>3, <2>1, FS_Subset
<1>5. a \in Asked(a)
  BY DEF Asked
<1>. QED
  BY <1>1, <1>2, <1>3, <1>4, <1>5

LEMMA InitInv ==
  ASSUME Init
  PROVE  Inv
<1>1. PlaceInv
  BY DEF Init, PlaceInv, LedgerInv
<1>2. TxidsInv /\ AddressesInv /\ CoverInv
  BY DEF Init, TxidsInv, AddressesInv, CoverInv
<1>3. ListInv /\ HandledInv
  BY DEF Init, ListInv, HandledInv
<1>4. ReportInv
  BY DEF Init, ReportInv, OldestBefore
<1>. QED
  BY <1>1, <1>2, <1>3, <1>4 DEF Inv

-----------------------------------------------------------------------------
(* The steps *)

\* A step that handles nothing and stays with the account leaves what is handled as it is.
LEMMA NothingHandled ==
  ASSUME HandledInv, ReportInv,
         UNCHANGED <<ledger, config, account, visited, handled>>, NothingCut' => NothingCut,
         phase \in {"accounts", "fetch", "staking"}, phase' # "done",
         phase' = "process" /\ NothingCut' => Wanted(account) \subseteq ToSet(txids')
  PROVE  HandledInv' /\ ReportInv'
<1>1. \A a : Wanted(a)' = Wanted(a) /\ HandledFor(a)' = HandledFor(a)
  BY Steady DEF HandledFor, DoneFor
<1>2. \A k \in DOMAIN handled : handled[k].account # account
  BY DEF HandledInv
<1>3. HandledInv'
  BY <1>1, <1>2 DEF HandledInv
<1>4. OldestBefore => OldestBefore'
  BY DEF OldestBefore, Tx
<1>5. ReportInv'
  <2>. SUFFICES ASSUME NothingCut' PROVE ReportInv'
    BY DEF ReportInv
  <2>1. OldestBefore'
    BY <1>4 DEF ReportInv
  <2>2. \A a \in {Wallet} \cup visited' : a # account' \/ phase' = "done" => Wanted(a)' \subseteq HandledFor(a)'
    BY <1>1 DEF ReportInv
  <2>3. phase' = "process" => Wanted(account)' \subseteq HandledFor(account)' \cup ToSet(txids')
    <3>1. Wanted(account)' = Wanted(account)
      BY <1>1 DEF Wanted, Asked
    <3>. QED
      BY <3>1
  <2>4. \A k \in DOMAIN handled' : handled'[k].account # account'
    BY <1>2
  <2>. QED
    BY <2>1, <2>2, <2>3, <2>4 DEF ReportInv
<1>. QED
  BY <1>3, <1>5

LEMMA FetchTokenAccountsInv ==
  ASSUME Inv, FetchTokenAccounts
  PROVE  Inv'
<1>. USE DEF Inv
<1>1. /\ phase = "accounts" /\ txids = <<>>
      /\ UNCHANGED <<ledger, config, account, visited, staking, handled>>
      /\ phase' \in {"fetch", "aborted"}
  BY DEF FetchTokenAccounts, TxidsInv
<1>2. txids' = <<>>
  BY <1>1 DEF FetchTokenAccounts, fetchVars
<1>3. /\ \A a : /\ Wanted(a)' = Wanted(a) /\ Asked(a)' = Asked(a)
                /\ Due(a)' = Due(a) /\ Signatures(a)' = Signatures(a)
      /\ LedgerInv'
      /\ faults' \in Nat /\ (NothingCut' => NothingCut)
  BY <1>1, Steady DEF PlaceInv, FetchTokenAccounts
<1>4. PlaceInv'
  BY <1>1, <1>3 DEF PlaceInv
<1>5. TxidsInv'
  BY <1>1, <1>2 DEF TxidsInv
<1>6. CASE phase' = "fetch"
  <2> DEFINE tokens == IF config.excludeAssociated THEN <<>> ELSE SetToSeq(DOMAIN Open(account))
             others == IF config.excludeAssociated THEN {} ELSE DOMAIN Open(account)
  <2>1. addresses' = <<account>> \o tokens /\ query' = NoQuery
    BY <1>1, <1>6 DEF FetchTokenAccounts
  <2>2. tokens \in Seq(others) /\ ToSet(tokens) = others
    <3>1. IsFiniteSet(DOMAIN Open(account))
      <4>1. DOMAIN <<>> = {}
        OBVIOUS
      <4>. QED
        BY <4>1, FS_EmptySet, SolReportAssumption DEF Open
    <3>2. ToSet(<<>>) = {} /\ <<>> \in Seq({})
      BY DEF ToSet
    <3>. QED
      BY <3>1, <3>2, SetToSeqIs
  <2>3. Asked(account) = {account} \cup others
    BY DEF Asked
  <2>. HIDE DEF tokens, others
  <2>4. /\ addresses' \in Seq(Asked(account)) /\ addresses' # <<>>
        /\ Head(addresses') = account
        /\ Asked(account) \subseteq ToSet(addresses')
    <3>1. /\ tokens \in Seq(Asked(account)) /\ <<account>> \in Seq(Asked(account)) /\ Len(<<account>>) = 1 /\ <<account>>[1] = account
          /\ Len(tokens) \in Nat /\ DOMAIN tokens = 1 .. Len(tokens)
      BY <2>2, <2>3
    <3>2. /\ addresses' \in Seq(Asked(account)) /\ Len(addresses') = 1 + Len(tokens)
          /\ DOMAIN addresses' = 1 .. (1 + Len(tokens))
          /\ addresses'[1] = account
          /\ \A k \in 1 .. Len(tokens) : addresses'[1 + k] = tokens[k] /\ 1 + k \in DOMAIN addresses'
      BY <2>1, <3>1
    <3>3. \A k \in DOMAIN tokens : tokens[k] \in ToSet(addresses')
      BY <3>1, <3>2 DEF ToSet
    <3>4. account \in ToSet(addresses')
      BY <3>1, <3>2 DEF ToSet
    <3>5. others \subseteq ToSet(addresses')
      BY <2>2, <3>3 DEF ToSet
    <3>. QED
      BY <2>3, <3>1, <3>2, <3>4, <3>5
  <2>5. ASSUME NEW a
        PROVE  QueryType(a)' /\ QueryCovers(a)'
    <3>1. query'.before = 0 /\ query'.queries = 0 /\ query'.found = {}
      BY <2>1 DEF NoQuery
    <3>2. Passed(a)' = {}
      BY <3>1 DEF Passed
    <3>3. Cardinality({}) = 0 /\ 0 * PageSize = 0 /\ MaxQueries \in Nat \ {0}
      BY FS_EmptySet, SolReportAssumption
    <3>4. QueryType(a)'
      BY <3>1, <3>3 DEF QueryType
    <3>5. QueryCovers(a)'
      BY <3>1, <3>2, <3>3 DEF QueryCovers
    <3>. QED
      BY <3>4, <3>5
  <2>6. AddressesInv'
    BY <1>1, <1>3, <2>4, <2>5 DEF AddressesInv, Asked
  <2>7. CoverInv'
    <3>1. Asked(account)' = Asked(account)
      BY <1>1 DEF Asked
    <3>2. \A a \in Asked(account)' : a \in ToSet(addresses')
      BY <2>4, <3>1
    <3>3. Falling'
      BY <1>2 DEF Falling
    <3>. QED
      BY <1>1, <1>2, <2>4, <3>2, <3>3 DEF CoverInv
  <2>8. ListInv'
    BY <1>6 DEF ListInv
  <2>9. HandledInv' /\ ReportInv'
    BY <1>1, <1>3, <1>6, NothingHandled
  <2>. QED
    BY <1>4, <1>5, <2>6, <2>7, <2>8, <2>9
<1>7. CASE phase' = "aborted"
  <2>1. AddressesInv' /\ CoverInv' /\ ListInv'
    BY <1>7 DEF AddressesInv, CoverInv, ListInv
  <2>2. HandledInv' /\ ReportInv'
    BY <1>1, <1>3, <1>7, NothingHandled
  <2>. QED
    BY <1>4, <1>5, <2>1, <2>2
<1>. QED
  BY <1>1, <1>6, <1>7

\* An address is done: what it has that is new comes behind the rest, newest first.
LEMMA NextAddressInv ==
  ASSUME Inv, phase = "fetch", addresses # <<>>,
         UNCHANGED <<ledger, config, phase, account, staking, visited, books, handled>>,
         faults' = faults \/ faults' = faults + 1,
         NEW found, found \subseteq Due(Head(addresses)), found \cap ToSet(txids) = {},
         NothingCut' => Finished(Head(addresses), found),
         NextAddress(found)
  PROVE  Inv'
<1>. USE DEF Inv
<1> DEFINE head == Head(addresses)
           new == NewestFirst(found)
           n == Len(txids)
           m == Cardinality(found)
<1>1. /\ \A a : /\ Wanted(a)' = Wanted(a) /\ Asked(a)' = Asked(a)
                /\ Due(a)' = Due(a) /\ Signatures(a)' = Signatures(a)
      /\ LedgerInv'
      /\ faults' \in Nat /\ (NothingCut' => NothingCut)
  BY Steady DEF PlaceInv
<1>2. /\ addresses \in Seq(Asked(account)) /\ head \in Asked(account)
      /\ addresses' = Tail(addresses) /\ addresses' \in Seq(Asked(account))
      /\ \A a \in ToSet(addresses) : a = head \/ a \in ToSet(addresses')
  <2>1. addresses \in Seq(Asked(account)) /\ addresses' = Tail(addresses)
    BY DEF AddressesInv, NextAddress
  <2>2. /\ Len(addresses) \in Nat /\ Len(addresses) > 0 /\ DOMAIN addresses = 1 .. Len(addresses)
        /\ addresses' \in Seq(Asked(account)) /\ DOMAIN addresses' = 1 .. (Len(addresses) - 1)
        /\ \A k \in 1 .. (Len(addresses) - 1) : addresses'[k] = addresses[k + 1]
        /\ head = addresses[1] /\ head \in Asked(account)
    BY <2>1
  <2>3. ASSUME NEW k \in DOMAIN addresses, k # 1
        PROVE  addresses[k] \in ToSet(addresses')
    <3>1. k - 1 \in 1 .. (Len(addresses) - 1) /\ (k - 1) + 1 = k
      BY <2>2, <2>3
    <3>2. k - 1 \in DOMAIN addresses' /\ addresses'[k - 1] = addresses[k]
      BY <2>2, <3>1
    <3>. QED
      BY <3>2 DEF ToSet
  <2>. QED
    BY <2>1, <2>2, <2>3 DEF ToSet
<1>3. /\ \A address \in Asked(account) : Due(address) \subseteq Wanted(account)
      /\ \A p \in Wanted(account) : \E address \in Asked(account) : p \in Due(address)
      /\ Wanted(account) \subseteq Nat /\ account \in Asked(account)
      /\ IsFiniteSet(Wanted(account))
  BY WantedIs DEF PlaceInv
<1>4. found \subseteq Wanted(account)
  BY <1>2, <1>3
<1>5. /\ m \in Nat /\ new \in Seq(found) /\ Len(new) = m
      /\ \A k \in 1 .. m : new[k] \in found
      /\ \A k, l \in 1 .. m : k < l => new[k] > new[l]
      /\ \A p \in found : \E k \in 1 .. m : new[k] = p
  <2>1. found \in SUBSET Nat /\ IsFiniteSet(found)
    BY <1>3, <1>4, FS_Subset
  <2>. QED
    BY <2>1, NewestFirstIs
<1>6. /\ txids \in Seq(Wanted(account)) /\ n \in Nat /\ DOMAIN txids = 1 .. n
      /\ \A j, k \in DOMAIN txids : j # k => txids[j] # txids[k]
  BY DEF TxidsInv
<1>7. txids' = txids \o new
  BY DEF NextAddress
<1>. HIDE DEF new, m, n, head
<1>8. /\ txids' \in Seq(Wanted(account)) /\ DOMAIN txids' = 1 .. (n + m)
      /\ \A k \in 1 .. n : txids'[k] = txids[k]
      /\ \A k \in (n + 1) .. (n + m) : txids'[k] = new[k - n] /\ k - n \in 1 .. m
      /\ \A k \in 1 .. m : txids'[n + k] = new[k] /\ n + k \in 1 .. (n + m)
  <2>1. new \in Seq(Wanted(account)) /\ txids \in Seq(Wanted(account)) /\ Len(txids) = n /\ Len(new) = m
    BY <1>4, <1>5, <1>6 DEF n
  <2>2. /\ txids' \in Seq(Wanted(account)) /\ Len(txids') = n + m
        /\ \A k \in 1 .. n : txids'[k] = txids[k]
        /\ \A k \in (n + 1) .. (n + m) : txids'[k] = new[k - n]
    <3> DEFINE W == Wanted(account)
    <3>1. new \in Seq(W) /\ txids \in Seq(W)
      BY <2>1
    <3>. HIDE DEF W
    <3>2. /\ txids \o new \in Seq(W) /\ Len(txids \o new) = Len(txids) + Len(new)
          /\ \A k \in 1 .. Len(txids) : (txids \o new)[k] = txids[k]
          /\ \A k \in (Len(txids) + 1) .. (Len(txids) + Len(new)) : (txids \o new)[k] = new[k - Len(txids)]
      BY <3>1, Concatenated, Zenon
    <3>3. /\ txids \o new \in Seq(W) /\ Len(txids \o new) = n + m
          /\ \A k \in 1 .. n : (txids \o new)[k] = txids[k]
          /\ \A k \in (n + 1) .. (n + m) : (txids \o new)[k] = new[k - n]
      BY <2>1, <3>2, Zenon
    <3>. QED
      BY <1>7, <3>3, Zenon DEF W
  <2>3. \A k \in (n + 1) .. (n + m) : k - n \in 1 .. m
    BY <1>5, <1>6
  <2>4. ASSUME NEW k \in 1 .. m
        PROVE  txids'[n + k] = new[k] /\ n + k \in 1 .. (n + m)
    <3>1. n + k \in (n + 1) .. (n + m) /\ (n + k) - n = k /\ n + k \in 1 .. (n + m)
      BY <1>5, <1>6
    <3>. QED
      BY <2>2, <3>1
  <2>5. DOMAIN txids' = 1 .. (n + m)
    BY <2>2
  <2>. QED
    BY <2>2, <2>3, <2>4, <2>5
<1>9. \A k \in 1 .. (n + m) : k \in 1 .. n \/ k \in (n + 1) .. (n + m)
  BY <1>5, <1>6
<1>10. ToSet(txids') = ToSet(txids) \cup found
  <2>1. \A k \in 1 .. n : txids[k] \in ToSet(txids')
    <3>1. \A k \in 1 .. n : k \in DOMAIN txids' /\ txids'[k] = txids[k]
      BY <1>5, <1>6, <1>8
    <3>. QED
      BY <3>1 DEF ToSet
  <2>2. \A k \in 1 .. m : new[k] \in ToSet(txids')
    BY <1>8 DEF ToSet
  <2>3. \A k \in 1 .. (n + m) : txids'[k] \in ToSet(txids) \cup found
    BY <1>5, <1>6, <1>8, <1>9 DEF ToSet
  <2>. QED
    BY <1>5, <1>6, <1>8, <2>1, <2>2, <2>3 DEF ToSet
<1>11. ASSUME NEW j \in DOMAIN txids', NEW k \in DOMAIN txids', j # k
       PROVE  txids'[j] # txids'[k]
  <2>1. \A i \in 1 .. n : txids[i] \in ToSet(txids) /\ txids[i] \notin found
    BY <1>6 DEF ToSet
  <2>2. \A i, l \in 1 .. m : i # l => new[i] # new[l]
    <3>1. \A i \in 1 .. m : new[i] \in Nat
      BY <1>3, <1>4, <1>5
    <3>2. \A i, l \in 1 .. m : i # l => i < l \/ l < i
      OBVIOUS
    <3>. QED
      BY <1>5, <3>1, <3>2
  <2>3. CASE j \in 1 .. n /\ k \in 1 .. n
    BY <1>6, <1>8, <1>11, <2>3
  <2>4. CASE j \in 1 .. n /\ k \in (n + 1) .. (n + m)
    BY <1>5, <1>8, <2>1, <2>4
  <2>5. CASE j \in (n + 1) .. (n + m) /\ k \in 1 .. n
    BY <1>5, <1>8, <2>1, <2>5
  <2>6. CASE j \in (n + 1) .. (n + m) /\ k \in (n + 1) .. (n + m)
    <3>1. j - n # k - n
      BY <1>6, <1>11, <2>6
    <3>. QED
      BY <1>8, <2>2, <2>6, <3>1
  <2>. QED
    BY <1>8, <1>9, <2>3, <2>4, <2>5, <2>6
<1>12. PlaceInv'
  BY <1>1 DEF PlaceInv
<1>13. TxidsInv'
  <2>1. Wanted(account)' = Wanted(account)
    BY <1>1 DEF Wanted, Asked
  <2>. QED
    BY <1>8, <1>11, <2>1 DEF TxidsInv
<1>14. AddressesInv'
  <2>1. Asked(account)' = Asked(account)
    BY DEF Asked
  <2>2. ASSUME NEW a
        PROVE  QueryType(a)' /\ QueryCovers(a)'
    <3>1. query'.before = 0 /\ query'.queries = 0 /\ query'.found = {}
      BY DEF NoQuery, NextAddress
    <3>2. Passed(a)' = {}
      BY <3>1 DEF Passed
    <3>3. Cardinality({}) = 0 /\ 0 * PageSize = 0 /\ MaxQueries \in Nat \ {0}
      BY FS_EmptySet, SolReportAssumption
    <3>4. QueryType(a)'
      BY <3>1, <3>3 DEF QueryType
    <3>5. QueryCovers(a)'
      BY <3>1, <3>2, <3>3 DEF QueryCovers
    <3>. QED
      BY <3>4, <3>5
  <2>. QED
    BY <1>2, <2>1, <2>2 DEF AddressesInv
<1>15. CoverInv'
  <2>. SUFFICES ASSUME NothingCut' PROVE CoverInv'
    BY DEF CoverInv
  <2>1. /\ \A a \in Asked(account) : a \in ToSet(addresses) \/ Due(a) \subseteq ToSet(txids)
        /\ Due(account) \subseteq ToSet(txids) \/ (txids = <<>> /\ head = account)
        /\ Falling
    BY <1>1 DEF CoverInv, head
  <2>2. Due(head) \subseteq ToSet(txids')
    BY <1>10 DEF Finished, head
  <2>3. \A a \in Asked(account) : a \in ToSet(addresses') \/ Due(a) \subseteq ToSet(txids')
    BY <1>2, <1>10, <2>1, <2>2
  <2>4. Due(account) \subseteq ToSet(txids')
    BY <1>10, <2>1, <2>2
  <2>5. ASSUME NEW j \in DOMAIN txids', NEW k \in DOMAIN txids', j < k, Own(txids'[j]), Own(txids'[k])
        PROVE  txids'[j] > txids'[k]
    <3>1. CASE Due(account) \subseteq ToSet(txids)
      <4>1. \A p \in found : ~Own(p)
        <5>. SUFFICES ASSUME NEW p \in found, Own(p) PROVE FALSE
          OBVIOUS
        <5>1. p \in Due(account)
          BY DEF Due, Own, Signatures
        <5>. QED
          BY <3>1, <5>1
      <4>2. j \in 1 .. n /\ k \in 1 .. n
        BY <1>5, <1>8, <1>9, <2>5, <4>1
      <4>. QED
        BY <1>6, <1>8, <2>1, <2>5, <4>2 DEF Falling
    <3>2. CASE txids = <<>>
      <4>1. n = 0
        BY <3>2 DEF n
      <4>2. j \in 1 .. m /\ k \in 1 .. m /\ txids'[j] = new[j] /\ txids'[k] = new[k]
        BY <1>5, <1>8, <4>1
      <4>. QED
        BY <1>5, <2>5, <4>2
    <3>. QED
      BY <2>1, <3>1, <3>2
  <2>6. Falling'
    <3>1. \A p : Own(p)' = Own(p)
      BY DEF Own
    <3>. QED
      BY <2>5, <3>1 DEF Falling
  <2>7. Asked(account)' = Asked(account) /\ Due(account)' = Due(account)
    BY DEF Asked, Due, Signatures, Kept, InDates
  <2>. QED
    BY <1>1, <2>3, <2>4, <2>6, <2>7 DEF CoverInv
<1>16. ListInv'
  BY DEF ListInv
<1>17. HandledInv' /\ ReportInv'
  BY <1>1, NothingHandled
<1>. QED
  BY <1>12, <1>13, <1>14, <1>15, <1>16, <1>17

LEMMA QueryPageInv ==
  ASSUME Inv, QueryPage
  PROVE  Inv'
<1>. USE DEF Inv
<1> DEFINE head == Head(addresses)
           page == Page(head)
           taken == TakePage({p \in page : Kept(p)}, query.found, Limit(head))
<1>1. /\ phase = "fetch" /\ addresses # <<>> /\ LedgerInv
      /\ UNCHANGED <<ledger, config, phase, account, staking, visited, books, handled>>
  BY DEF QueryPage, PlaceInv
<1>2. QueryType(head) /\ (NothingCut => QueryCovers(head))
  BY <1>1 DEF AddressesInv
<1>3. \/ /\ taken.over \/ page = {} \/ query.queries + 1 = MaxQueries
         /\ NextAddress(taken.found) /\ faults' = faults
      \/ /\ ~(taken.over \/ page = {} \/ query.queries + 1 = MaxQueries)
         /\ query' = [before |-> Min(page), queries |-> query.queries + 1, found |-> taken.found]
         /\ addresses' = addresses /\ txids' = txids /\ faults' = faults
      \/ NextAddress(query.found) /\ faults' = faults + 1
  BY DEF QueryPage
<1>4. /\ page \subseteq Signatures(head) \ Passed(head)
      /\ page \subseteq DOMAIN ledger.txs
  BY <1>1, <1>2, PageIs
<1>5. /\ taken.found \subseteq Due(head) /\ taken.found \cap ToSet(txids) = {}
      /\ query.found \subseteq taken.found
  <2>1. page \subseteq Signatures(head)
    BY <1>4
  <2>. QED
    BY <1>1, <1>2, <2>1, TakenIsNew
<1>6. NothingCut =>
        /\ taken.over => Finished(head, taken.found)
        /\ ~taken.over => \A p \in Due(head) \cap (Passed(head) \cup page) : p \in taken.found \cup ToSet(txids)
  <2>. SUFFICES ASSUME NothingCut
                PROVE  /\ taken.over => Finished(head, taken.found)
                       /\ ~taken.over => \A p \in Due(head) \cap (Passed(head) \cup page) : p \in taken.found \cup ToSet(txids)
    OBVIOUS
  <2>1. /\ LedgerInv /\ QueryType(head) /\ QueryCovers(head)
        /\ page = Page(head) /\ taken = TakePage({p \in page : Kept(p)}, query.found, Limit(head))
    BY <1>1, <1>2
  <2>. HIDE DEF page, taken, head
  <2>. QED
    BY <2>1, PageCovers
<1>7. NothingCut =>
        /\ page = {} \/ query.queries + 1 = MaxQueries => Signatures(head) = Passed(head) \cup page
        /\ page # {} =>
             /\ Min(page) \in Nat \ {0}
             /\ {p \in Signatures(head) : p >= Min(page)} = Passed(head) \cup page
             /\ \/ (query.queries + 1) * PageSize <= Cardinality(Passed(head) \cup page)
                \/ Passed(head) \cup page = Signatures(head)
  BY <1>1, <1>2, QueryGoesOn
<1>8. page # {} => Min(page) \in Nat
  <2>1. page \in SUBSET Nat
    BY <1>1, <1>4, LedgerType
  <2>. QED
    BY <2>1, MinIs
<1>. HIDE DEF taken, page, head
<1>9. CASE /\ taken.over \/ page = {} \/ query.queries + 1 = MaxQueries
           /\ NextAddress(taken.found) /\ faults' = faults
  <2>1. NothingCut' => NothingCut
    BY <1>1, <1>9, Steady
  <2>2. NothingCut => Finished(head, taken.found)
    <3>. SUFFICES ASSUME NothingCut, ~taken.over PROVE Finished(head, taken.found)
      BY <1>6
    <3>1. Signatures(head) = Passed(head) \cup page
      BY <1>7, <1>9
    <3>2. Due(head) \subseteq Signatures(head)
      BY DEF Due
    <3>. QED
      BY <1>6, <3>1, <3>2 DEF Finished
  <2>. QED
    BY <1>1, <1>5, <1>9, <2>1, <2>2, NextAddressInv DEF head
<1>10. CASE NextAddress(query.found) /\ faults' = faults + 1
  <2>1. ~NothingCut'
    BY <1>10 DEF NothingCut, PlaceInv
  <2>2. query.found \subseteq Due(head) /\ query.found \cap ToSet(txids) = {}
    BY <1>2 DEF QueryType
  <2>. QED
    BY <1>1, <1>10, <2>1, <2>2, NextAddressInv DEF head
<1>11. CASE /\ ~(taken.over \/ page = {} \/ query.queries + 1 = MaxQueries)
            /\ query' = [before |-> Min(page), queries |-> query.queries + 1, found |-> taken.found]
            /\ addresses' = addresses /\ txids' = txids /\ faults' = faults
  <2>1. /\ \A a : /\ Wanted(a)' = Wanted(a) /\ Asked(a)' = Asked(a)
                  /\ Due(a)' = Due(a) /\ Signatures(a)' = Signatures(a)
        /\ LedgerInv'
        /\ NothingCut' = NothingCut
    BY <1>1, <1>11, Steady
  <2>2. query'.before = Min(page) /\ query'.queries = query.queries + 1 /\ query'.found = taken.found
    BY <1>11
  <2>3. PICK a : a = head
    OBVIOUS
  <2>4. QueryType(a)'
    <3>1. query.queries + 1 \in 0 .. (MaxQueries - 1)
      <4>1. query.queries \in 0 .. (MaxQueries - 1) /\ MaxQueries \in Nat \ {0}
        BY <1>2, SolReportAssumption DEF QueryType
      <4>. QED
        BY <1>11, <4>1
    <3>2. taken.found \subseteq Due(a)' /\ taken.found \cap ToSet(txids') = {}
      BY <1>5, <1>11, <2>1, <2>3
    <3>. QED
      BY <1>8, <1>11, <2>2, <3>1, <3>2 DEF QueryType
  <2>5. NothingCut => QueryCovers(a)'
    <3>. SUFFICES ASSUME NothingCut PROVE QueryCovers(a)'
      OBVIOUS
    <3>1. Passed(a)' = Passed(head) \cup page
      <4>1. Passed(a)' = {p \in Signatures(a)' : query'.before # 0 /\ p >= query'.before}
        BY DEF Passed
      <4>2. Passed(a)' = {p \in Signatures(head) : Min(page) # 0 /\ p >= Min(page)}
        BY <2>1, <2>2, <2>3, <4>1
      <4>. QED
        BY <1>7, <1>11, <4>2
    <3>2. \A p \in Due(head) \cap (Passed(head) \cup page) : p \in taken.found \cup ToSet(txids)
      BY <1>6, <1>11
    <3>3. \A p \in Due(a)' \cap Passed(a)' : p \in query'.found \cup ToSet(txids')
      BY <1>11, <2>1, <2>2, <2>3, <3>1, <3>2
    <3>4. \/ query'.queries * PageSize <= Cardinality(Passed(a)')
          \/ Passed(a)' = Signatures(a)'
      BY <1>7, <1>11, <2>1, <2>2, <2>3, <3>1
    <3>. QED
      BY <3>3, <3>4 DEF QueryCovers
  <2>6. AddressesInv'
    <3>1. Asked(account)' = Asked(account)
      BY <1>1 DEF Asked
    <3>2. \A b : b = Head(addresses') => b = a
      BY <1>11, <2>3 DEF head
    <3>3. addresses' \in Seq(Asked(account)')
      BY <1>1, <1>11, <3>1 DEF AddressesInv
    <3>. QED
      BY <2>1, <2>4, <2>5, <3>2, <3>3 DEF AddressesInv
  <2>7. CoverInv'
    <3>1. Asked(account)' = Asked(account) /\ Due(account)' = Due(account) /\ (Falling => Falling')
      BY <1>1, <1>11 DEF Asked, Due, Signatures, Kept, InDates, Falling, Own
    <3>. QED
      BY <1>1, <1>11, <2>1, <3>1 DEF CoverInv
  <2>8. PlaceInv'
    BY <1>1, <1>11, <2>1 DEF PlaceInv
  <2>9. TxidsInv'
    <3>1. Wanted(account)' = Wanted(account)
      BY <1>1, <2>1 DEF Wanted, Asked
    <3>. QED
      BY <1>1, <1>11, <3>1 DEF TxidsInv
  <2>10. ListInv'
    BY <1>1 DEF ListInv
  <2>11. HandledInv' /\ ReportInv'
    BY <1>1, <1>11, <2>1, NothingHandled
  <2>. QED
    BY <2>6, <2>7, <2>8, <2>9, <2>10, <2>11
<1>. QED
  BY <1>3, <1>9, <1>10, <1>11

\* A sequence turned around.
LEMMA Reversed ==
  ASSUME NEW X, NEW s \in Seq(X)
  PROVE  /\ OldestFirst(s) \in Seq(X) /\ Len(OldestFirst(s)) = Len(s)
         /\ \A k \in 1 .. Len(s) : OldestFirst(s)[k] = s[Len(s) - k + 1] /\ Len(s) - k + 1 \in 1 .. Len(s)
         /\ ToSet(OldestFirst(s)) = ToSet(s)
<1> DEFINE n == Len(s)
           t == OldestFirst(s)
<1>1. n \in Nat /\ DOMAIN s = 1 .. n /\ \A k \in 1 .. n : s[k] \in X
  OBVIOUS
<1>2. t = [k \in 1 .. n |-> s[(n - k) + 1]]
  BY DEF OldestFirst, Reverse
<1>. HIDE DEF n, t
<1>3. \A k \in 1 .. n : (n - k) + 1 \in 1 .. n
  BY <1>1
<1>4. t \in [1 .. n -> X]
  BY <1>1, <1>2, <1>3
<1>5. t \in Seq(X) /\ Len(t) = n /\ DOMAIN t = 1 .. n
  BY <1>1, <1>4
<1>6. \A k \in 1 .. n : t[k] = s[(n - k) + 1]
  BY <1>2
<1>7. \A k \in 1 .. n : t[(n - k) + 1] = s[k]
  <2>1. \A k \in 1 .. n : (n - ((n - k) + 1)) + 1 = k
    BY <1>1
  <2>. QED
    BY <1>3, <1>6, <2>1
<1>8. ToSet(t) = ToSet(s)
  BY <1>1, <1>3, <1>5, <1>6, <1>7 DEF ToSet
<1>. QED
  BY <1>3, <1>5, <1>6, <1>8 DEF n, t

LEMMA FetchedAllInv ==
  ASSUME Inv, FetchedAll
  PROVE  Inv'
<1>. USE DEF Inv
<1> DEFINE n == Len(txids)
<1>1. /\ phase = "fetch" /\ addresses = <<>> /\ txids' = OldestFirst(txids)
      /\ phase' \in {"staking", "process"}
      /\ UNCHANGED <<ledger, config, account, staking, visited, addresses, query, books, faults, handled>>
  BY DEF FetchedAll
<1>2. /\ \A a : /\ Wanted(a)' = Wanted(a) /\ Asked(a)' = Asked(a)
      /\ LedgerInv' /\ NothingCut' = NothingCut
  BY <1>1, Steady DEF PlaceInv
<1>3. /\ txids \in Seq(Wanted(account)) /\ n \in Nat /\ DOMAIN txids = 1 .. n
      /\ \A j, k \in DOMAIN txids : j # k => txids[j] # txids[k]
  BY DEF TxidsInv
<1>4. /\ txids' \in Seq(Wanted(account)) /\ DOMAIN txids' = 1 .. n
      /\ \A k \in 1 .. n : txids'[k] = txids[n - k + 1] /\ n - k + 1 \in 1 .. n
      /\ ToSet(txids') = ToSet(txids)
  <2>1. /\ OldestFirst(txids) \in Seq(Wanted(account)) /\ Len(OldestFirst(txids)) = Len(txids)
        /\ \A k \in 1 .. Len(txids) : OldestFirst(txids)[k] = txids[Len(txids) - k + 1] /\ Len(txids) - k + 1 \in 1 .. Len(txids)
        /\ ToSet(OldestFirst(txids)) = ToSet(txids)
    BY <1>3, Reversed
  <2>. QED
    BY <1>1, <2>1
<1>. HIDE DEF n
<1>5. PlaceInv'
  BY <1>1, <1>2 DEF PlaceInv
<1>6. TxidsInv'
  <2>1. Wanted(account)' = Wanted(account)
    BY <1>1 DEF Wanted, Asked, Kept, InDates
  <2>2. \A j, k \in 1 .. n : j # k => n - j + 1 # n - k + 1
    BY <1>3
  <2>3. \A j, k \in DOMAIN txids' : j # k => txids'[j] # txids'[k]
    BY <1>3, <1>4, <2>2
  <2>. QED
    BY <1>1, <1>4, <2>1, <2>3 DEF TxidsInv
<1>7. AddressesInv' /\ CoverInv'
  BY <1>1 DEF AddressesInv, CoverInv
<1>8. NothingCut => Wanted(account) \subseteq ToSet(txids')
  <2>1. \A a : a \notin ToSet(<<>>)
    BY DEF ToSet
  <2>2. NothingCut => \A a \in Asked(account) : Due(a) \subseteq ToSet(txids)
    BY <1>1, <2>1 DEF CoverInv
  <2>3. \A p \in Wanted(account) : \E address \in Asked(account) : p \in Due(address)
    BY WantedIs DEF PlaceInv
  <2>. QED
    BY <1>4, <2>2, <2>3
<1>9. ListInv'
  <2>. SUFFICES ASSUME NothingCut PROVE ListInv'
    BY <1>2 DEF ListInv
  <2>1. Falling
    BY <1>1 DEF CoverInv
  <2>2. ASSUME NEW j \in DOMAIN txids', NEW k \in DOMAIN txids', j < k, Own(txids'[j]), Own(txids'[k])
        PROVE  txids'[j] < txids'[k]
    <3>1. /\ n - j + 1 \in DOMAIN txids /\ n - k + 1 \in DOMAIN txids /\ n - k + 1 < n - j + 1
          /\ txids'[j] = txids[n - j + 1] /\ txids'[k] = txids[n - k + 1]
      BY <1>3, <1>4, <2>2
    <3>2. txids[n - k + 1] > txids[n - j + 1]
      BY <2>1, <2>2, <3>1 DEF Falling
    <3>3. txids[n - k + 1] \in Nat /\ txids[n - j + 1] \in Nat
      <4>1. Wanted(account) \subseteq Nat
        BY WantedIs DEF PlaceInv
      <4>. QED
        BY <1>3, <3>1, <4>1
    <3>. QED
      BY <3>1, <3>2, <3>3
  <2>3. Rising'
    <3>1. \A p : Own(p)' = Own(p)
      BY <1>1 DEF Own
    <3>. QED
      BY <2>2, <3>1 DEF Rising
  <2>4. Wanted(account)' \subseteq ToSet(txids')
    <3>1. Wanted(account)' = Wanted(account)
      BY <1>1 DEF Wanted, Asked, Kept, InDates
    <3>. QED
      BY <1>8, <3>1
  <2>. QED
    BY <2>3, <2>4 DEF ListInv
<1>10. HandledInv' /\ ReportInv'
  BY <1>1, <1>2, <1>8, NothingHandled
<1>. QED
  BY <1>5, <1>6, <1>7, <1>9, <1>10

LEMMA FetchStakingInv ==
  ASSUME Inv, FetchStaking
  PROVE  Inv'
<1>. USE DEF Inv
<1>1. /\ phase = "staking" /\ phase' = "process"
      /\ UNCHANGED <<ledger, config, account, visited, fetchVars, books, handled>>
      /\ (staking' = staking \cup ledger.staking /\ faults' = faults) \/ (staking' = staking /\ faults' = faults + 1)
  BY DEF FetchStaking
<1>2. /\ addresses' = addresses /\ query' = query /\ txids' = txids
  BY <1>1 DEF fetchVars
<1>3. LedgerInv' /\ faults' \in Nat /\ (NothingCut' => NothingCut)
  BY <1>1, Steady DEF PlaceInv
<1>4. Wanted(account)' = Wanted(account) /\ (Rising => Rising')
  BY <1>1, <1>2 DEF Wanted, Asked, Kept, InDates, Rising, Own
<1>5. PlaceInv'
  BY <1>1, <1>3, LedgerType DEF PlaceInv
<1>6. TxidsInv'
  BY <1>1, <1>2, <1>4 DEF TxidsInv
<1>7. AddressesInv' /\ CoverInv'
  BY <1>1 DEF AddressesInv, CoverInv
<1>8. ListInv'
  BY <1>1, <1>3, <1>4 DEF ListInv
<1>9. HandledInv' /\ ReportInv'
  BY <1>1, <1>2, <1>3, NothingHandled DEF ListInv
<1>. QED
  BY <1>5, <1>6, <1>7, <1>8, <1>9

LEMMA ProcessTxInv ==
  ASSUME Inv, ProcessTx
  PROVE  Inv'
<1>. USE DEF Inv
<1> DEFINE n == Len(txids)
           done == Len(handled)
           first == Head(txids)
<1>1. /\ phase = "process" /\ txids # <<>> /\ txids' = Tail(txids)
      /\ UNCHANGED <<ledger, config, phase, account, visited, addresses, query>>
      /\ faults' = faults \/ faults' = faults + 1
      /\ staking' = staking \/ staking' = staking \cup Delegated(ledger.txs[first])
  BY DEF ProcessTx
<1>2. PICK new : handled' = Append(handled, new) /\ new.account = account /\ new.p = first
  <2>1. PICK result : Export(first, result)
    BY DEF ProcessTx
  <2>2. PICK new : /\ new = [account |-> account, p |-> first, by |-> result.by, rows |-> result.rows, errors |-> result.errors]
                   /\ handled' = Append(handled, new)
    BY <2>1 DEF Export
  <2>3. new.account = account /\ new.p = first
    BY <2>2
  <2>. QED
    BY <2>2, <2>3
<1>3. /\ \A a : /\ Wanted(a)' = Wanted(a) /\ Asked(a)' = Asked(a)
      /\ LedgerInv' /\ faults' \in Nat /\ (NothingCut' => NothingCut)
  BY <1>1, Steady DEF PlaceInv
<1>4. /\ txids \in Seq(Wanted(account)) /\ n \in Nat /\ n > 0 /\ DOMAIN txids = 1 .. n
      /\ \A j, k \in DOMAIN txids : j # k => txids[j] # txids[k]
      /\ first = txids[1] /\ first \in Wanted(account) /\ 1 \in DOMAIN txids
  BY <1>1 DEF TxidsInv
<1>5. /\ txids' \in Seq(Wanted(account)) /\ DOMAIN txids' = 1 .. (n - 1)
      /\ \A k \in 1 .. (n - 1) : txids'[k] = txids[k + 1] /\ k + 1 \in DOMAIN txids /\ k + 1 # 1 /\ 1 < k + 1
  <2>1. /\ txids' \in Seq(Wanted(account)) /\ DOMAIN txids' = 1 .. (n - 1)
        /\ \A k \in 1 .. (n - 1) : txids'[k] = txids[k + 1]
    BY <1>1, <1>4
  <2>2. \A k \in 1 .. (n - 1) : k + 1 \in 1 .. n /\ k + 1 # 1 /\ 1 < k + 1
    BY <1>4
  <2>. QED
    BY <1>4, <2>1, <2>2
<1>6. ToSet(txids) \subseteq ToSet(txids') \cup {first}
  <2>1. ASSUME NEW k \in 1 .. n, k # 1
        PROVE  txids[k] \in ToSet(txids')
    <3>1. k - 1 \in 1 .. (n - 1) /\ (k - 1) + 1 = k
      BY <1>4, <2>1
    <3>2. k - 1 \in DOMAIN txids' /\ txids'[k - 1] = txids[k]
      BY <1>5, <3>1
    <3>. QED
      BY <3>2 DEF ToSet
  <2>. QED
    BY <1>4, <2>1 DEF ToSet
<1>7. /\ handled' \in Seq({handled'[k] : k \in DOMAIN handled'})
      /\ done \in Nat /\ DOMAIN handled = 1 .. done /\ DOMAIN handled' = 1 .. (done + 1)
      /\ \A k \in 1 .. done : handled'[k] = handled[k]
      /\ handled'[done + 1] = new
  BY <1>2, Appended DEF HandledInv
<1>. HIDE DEF n, done, first
<1>8. /\ \A k \in DOMAIN handled' : (k \in DOMAIN handled /\ handled'[k] = handled[k]) \/ (k = done + 1 /\ handled'[k] = new)
      /\ \A k \in DOMAIN handled : k \in DOMAIN handled' /\ handled'[k] = handled[k] /\ k < done + 1
      /\ done + 1 \in DOMAIN handled'
      /\ \A k \in DOMAIN handled' : ~(done + 1 < k)
  BY <1>7
<1>9. /\ \A a : HandledFor(a) \subseteq HandledFor(a)'
      /\ first \in HandledFor(account)'
  <2>1. ASSUME NEW a, NEW k \in DoneFor(a)
        PROVE  handled[k].p \in HandledFor(a)'
    <3>1. k \in DOMAIN handled /\ handled[k].account = a
      BY <2>1 DEF DoneFor
    <3>2. k \in DOMAIN handled' /\ handled'[k] = handled[k]
      BY <1>8, <3>1
    <3>. QED
      BY <3>1, <3>2 DEF HandledFor, DoneFor
  <2>2. first \in HandledFor(account)'
    <3>1. done + 1 \in DOMAIN handled' /\ handled'[done + 1].account = account' /\ handled'[done + 1].p = first
      BY <1>1, <1>2, <1>7, <1>8
    <3>. QED
      BY <3>1 DEF HandledFor, DoneFor
  <2>. QED
    BY <2>1, <2>2 DEF HandledFor
<1>10. PlaceInv'
  <2>1. first \in DOMAIN ledger.txs
    BY <1>4 DEF Wanted
  <2>2. Delegated(ledger.txs[first]) \subseteq StakeAccounts
    BY <2>1, LedgerType DEF Delegated, PlaceInv
  <2>. QED
    BY <1>1, <1>3, <2>2 DEF PlaceInv
<1>11. Wanted(account)' = Wanted(account)
  BY <1>1 DEF Wanted, Asked, Kept, InDates
<1>12. TxidsInv'
  <2>1. ASSUME NEW j \in DOMAIN txids', NEW k \in DOMAIN txids', j # k
        PROVE  txids'[j] # txids'[k]
    <3>1. /\ j + 1 \in DOMAIN txids /\ k + 1 \in DOMAIN txids /\ j + 1 # k + 1
          /\ txids'[j] = txids[j + 1] /\ txids'[k] = txids[k + 1]
      BY <1>4, <1>5, <2>1
    <3>. QED
      BY <1>4, <3>1
  <2>. QED
    BY <1>1, <1>5, <1>11, <2>1 DEF TxidsInv
<1>13. AddressesInv' /\ CoverInv'
  BY <1>1 DEF AddressesInv, CoverInv
<1>14. Rising => Rising'
  <2>1. \A p : Own(p)' = Own(p)
    BY <1>1 DEF Own
  <2>2. ASSUME Rising, NEW j \in DOMAIN txids', NEW k \in DOMAIN txids', j < k, Own(txids'[j]), Own(txids'[k])
        PROVE  txids'[j] < txids'[k]
    <3>1. /\ j + 1 \in DOMAIN txids /\ k + 1 \in DOMAIN txids /\ j + 1 < k + 1
          /\ txids'[j] = txids[j + 1] /\ txids'[k] = txids[k + 1]
      BY <1>4, <1>5, <2>2
    <3>. QED
      BY <2>2, <3>1 DEF Rising
  <2>. QED
    BY <2>1, <2>2 DEF Rising
<1>15. ListInv'
  BY <1>1, <1>3, <1>14 DEF ListInv
<1>16. account \in {Wallet} \cup visited
  BY DEF PlaceInv
<1>17. HandledInv'
  <2>1. \A k \in DOMAIN handled' : handled'[k].account \in {Wallet} \cup visited' /\ handled'[k].p \in Wanted(handled'[k].account)
    BY <1>1, <1>2, <1>4, <1>8, <1>16 DEF HandledInv
  <2>2. \A k \in DOMAIN handled' : (handled[k].p \in Wanted(handled[k].account))'
    <3>1. ASSUME NEW k \in DOMAIN handled'
          PROVE  (handled[k].p \in Wanted(handled[k].account))'
      <4>1. PICK a : a = handled'[k].account
        OBVIOUS
      <4>. QED
        BY <1>1, <2>1, <4>1 DEF Wanted, Asked, Kept, InDates
    <3>. QED
      BY <3>1
  <2>3. ASSUME NEW j \in DOMAIN handled', NEW k \in DOMAIN handled', j # k, handled'[j].account = handled'[k].account
        PROVE  handled'[j].p # handled'[k].p
    <3>1. \A i \in DOMAIN handled : handled[i].account = account => handled[i].p # first
      BY <1>4 DEF HandledInv
    <3>2. CASE j \in DOMAIN handled /\ k \in DOMAIN handled
      BY <1>8, <2>3, <3>2 DEF HandledInv
    <3>3. CASE j = done + 1 /\ handled'[j] = new /\ k \in DOMAIN handled
      BY <1>2, <1>8, <2>3, <3>1, <3>3
    <3>4. CASE k = done + 1 /\ handled'[k] = new /\ j \in DOMAIN handled
      BY <1>2, <1>8, <2>3, <3>1, <3>4
    <3>. QED
      BY <1>8, <2>3, <3>2, <3>3, <3>4
  <2>4. ASSUME NEW k \in DOMAIN handled', NEW j \in DOMAIN txids', handled'[k].account = account'
        PROVE  handled'[k].p # txids'[j]
    <3>1. j + 1 \in DOMAIN txids /\ j + 1 # 1 /\ txids'[j] = txids[j + 1]
      BY <1>5
    <3>2. CASE k \in DOMAIN handled /\ handled'[k] = handled[k]
      BY <1>1, <2>4, <3>1, <3>2 DEF HandledInv
    <3>3. CASE handled'[k] = new
      BY <1>2, <1>4, <3>1, <3>3
    <3>. QED
      BY <1>8, <3>2, <3>3
  <2>. QED
    BY <1>1, <1>7, <2>1, <2>2, <2>3, <2>4 DEF HandledInv
<1>18. ReportInv'
  <2>. SUFFICES ASSUME NothingCut', NothingCut PROVE ReportInv'
    BY <1>3 DEF ReportInv
  <2>1. /\ Wanted(account) \subseteq HandledFor(account) \cup ToSet(txids)
        /\ \A a \in {Wallet} \cup visited : a # account => Wanted(a) \subseteq HandledFor(a)
        /\ OldestBefore
        /\ \A k \in DOMAIN handled, j \in DOMAIN txids :
             handled[k].account = account /\ Own(handled[k].p) /\ Own(txids[j]) => handled[k].p < txids[j]
    BY <1>1 DEF ReportInv
  <2>2. Wanted(account)' \subseteq HandledFor(account)' \cup ToSet(txids')
    <3>1. HandledFor(account) \subseteq HandledFor(account)'
      <4>1. PICK a : a = account
        OBVIOUS
      <4>2. HandledFor(account)' = HandledFor(a)'
        BY <1>1, <4>1 DEF HandledFor, DoneFor
      <4>. QED
        BY <1>9, <4>1, <4>2
    <3>. QED
      BY <1>6, <1>9, <1>11, <2>1, <3>1
  <2>3. \A a \in {Wallet} \cup visited' : a # account' \/ phase' = "done" => Wanted(a)' \subseteq HandledFor(a)'
    BY <1>1, <1>3, <1>9, <2>1
  <2>4. \A p : Own(p)' = Own(p)
    BY <1>1 DEF Own
  <2>5. Rising
    BY <1>1 DEF ListInv
  <2>6. ASSUME NEW k \in DOMAIN handled', NEW j \in DOMAIN txids',
               handled'[k].account = account', Own(handled'[k].p), Own(txids'[j])
        PROVE  handled'[k].p < txids'[j]
    <3>1. j + 1 \in DOMAIN txids /\ 1 < j + 1 /\ txids'[j] = txids[j + 1]
      BY <1>5
    <3>2. CASE k \in DOMAIN handled /\ handled'[k] = handled[k]
      BY <1>1, <2>1, <2>6, <3>1, <3>2
    <3>3. CASE handled'[k] = new
      <4>1. Own(txids[1]) /\ Own(txids[j + 1]) /\ handled'[k].p = txids[1]
        BY <1>2, <1>4, <2>6, <3>1, <3>3
      <4>2. txids[1] < txids[j + 1]
        BY <1>4, <2>5, <3>1, <4>1 DEF Rising
      <4>. QED
        BY <3>1, <4>1, <4>2
    <3>. QED
      BY <1>8, <3>2, <3>3
  <2>7. ASSUME NEW j \in DOMAIN handled', NEW k \in DOMAIN handled', j < k, handled'[k].account = handled'[j].account,
               Names(ledger.txs[handled'[j].p], handled'[j].account), Names(ledger.txs[handled'[k].p], handled'[j].account)
        PROVE  handled'[j].p < handled'[k].p
    <3>1. CASE j \in DOMAIN handled /\ k \in DOMAIN handled
      <4>1. handled'[j] = handled[j] /\ handled'[k] = handled[k]
        BY <1>8, <3>1
      <4>. QED
        BY <2>1, <2>7, <3>1, <4>1 DEF OldestBefore, Tx
    <3>2. CASE j \in DOMAIN handled /\ k = done + 1 /\ handled'[k] = new
      <4>1. handled'[j] = handled[j] /\ handled[j].account = account /\ handled'[k].p = txids[1]
        BY <1>2, <1>4, <1>8, <2>7, <3>2
      <4>2. Own(handled[j].p) /\ Own(txids[1])
        BY <2>7, <4>1 DEF Own
      <4>. QED
        BY <1>4, <2>1, <3>2, <4>1, <4>2
    <3>3. j \in DOMAIN handled
      BY <1>8, <2>7
    <3>. QED
      BY <1>8, <2>7, <3>1, <3>2, <3>3
  <2>8. OldestBefore'
    BY <1>1, <2>7 DEF OldestBefore, Tx
  <2>9. \A k \in DOMAIN handled', j \in DOMAIN txids' :
          handled'[k].account = account' /\ Own(handled[k].p)' /\ Own(txids[j])' => handled'[k].p < txids'[j]
    BY <1>1, <2>6 DEF Own
  <2>. QED
    BY <2>2, <2>3, <2>8, <2>9 DEF ReportInv
<1>. QED
  BY <1>10, <1>12, <1>13, <1>15, <1>17, <1>18

LEMMA ParseFailsInv ==
  ASSUME Inv, ParseFails
  PROVE  Inv'
<1>. USE DEF Inv
<1>1. /\ phase = "process" /\ phase' = "aborted" /\ faults' = faults + 1
      /\ UNCHANGED <<ledger, config, account, staking, visited, books, handled>>
      /\ addresses' = addresses /\ query' = query /\ txids' = txids
  BY DEF ParseFails, fetchVars
<1>2. ~NothingCut' /\ faults' \in Nat
  BY <1>1 DEF NothingCut, PlaceInv
<1>3. /\ \A a : Wanted(a)' = Wanted(a)
      /\ LedgerInv'
  BY <1>1, Steady DEF PlaceInv
<1>4. PlaceInv'
  BY <1>1, <1>2, <1>3 DEF PlaceInv
<1>5. TxidsInv'
  <2>1. Wanted(account)' = Wanted(account)
    BY <1>1 DEF Wanted, Asked, Kept, InDates
  <2>. QED
    BY <1>1, <2>1 DEF TxidsInv
<1>6. AddressesInv' /\ CoverInv' /\ ListInv' /\ ReportInv'
  BY <1>1, <1>2 DEF AddressesInv, CoverInv, ListInv, ReportInv
<1>7. HandledInv'
  <2>1. \A k \in DOMAIN handled : (handled[k].p \in Wanted(handled[k].account))'
    BY <1>1 DEF HandledInv, Wanted, Asked, Kept, InDates
  <2>. QED
    BY <1>1, <2>1 DEF HandledInv
<1>. QED
  BY <1>4, <1>5, <1>6, <1>7

LEMMA NextAccountInv ==
  ASSUME Inv, NextAccount
  PROVE  Inv'
<1>. USE DEF Inv
<1>1. /\ phase = "process" /\ txids = <<>>
      /\ UNCHANGED <<ledger, config, staking, books, faults, handled>>
      /\ addresses' = addresses /\ query' = query /\ txids' = txids
      /\ \/ /\ phase' = "accounts"
            /\ \E next \in staking \ visited : account' = next /\ visited' = visited \cup {next}
         \/ phase' = "done" /\ account' = account /\ visited' = visited
  BY DEF NextAccount, fetchVars
<1>2. /\ \A a : Wanted(a)' = Wanted(a)
      /\ LedgerInv' /\ NothingCut' = NothingCut
  BY <1>1, Steady DEF PlaceInv
<1>3. \A a : HandledFor(a)' = HandledFor(a)
  BY <1>1 DEF HandledFor, DoneFor
<1>4. OldestBefore => OldestBefore'
  BY <1>1, <1>2 DEF OldestBefore, Tx
<1>5. NothingCut => \A a \in {Wallet} \cup visited : Wanted(a) \subseteq HandledFor(a)
  <2>. SUFFICES ASSUME NothingCut PROVE \A a \in {Wallet} \cup visited : Wanted(a) \subseteq HandledFor(a)
    OBVIOUS
  <2>1. ToSet(txids) = {}
    BY <1>1 DEF ToSet
  <2>2. Wanted(account) \subseteq HandledFor(account)
    BY <1>1, <2>1 DEF ReportInv
  <2>. QED
    BY <2>2 DEF ReportInv
<1>6. \A k \in DOMAIN handled : (handled[k].p \in Wanted(handled[k].account))'
  BY <1>1 DEF HandledInv, Wanted, Asked, Kept, InDates
<1>7. AddressesInv' /\ CoverInv'
  BY <1>1 DEF AddressesInv, CoverInv
<1>8. ListInv'
  <2>1. Rising'
    BY <1>1 DEF Rising
  <2>. QED
    BY <1>1 DEF ListInv
<1>9. TxidsInv'
  <2>1. txids' \in Seq(Wanted(account)')
    BY <1>1
  <2>. QED
    BY <1>1, <2>1 DEF TxidsInv
<1>10. CASE phase' = "done" /\ account' = account /\ visited' = visited
  <2>1. PlaceInv'
    BY <1>1, <1>2, <1>10 DEF PlaceInv
  <2>2. HandledInv'
    BY <1>1, <1>6, <1>10 DEF HandledInv
  <2>3. ReportInv'
    BY <1>1, <1>2, <1>3, <1>4, <1>5, <1>10 DEF ReportInv
  <2>. QED
    BY <1>7, <1>8, <1>9, <2>1, <2>2, <2>3
<1>11. ASSUME NEW next \in staking \ visited, account' = next, visited' = visited \cup {next}, phase' = "accounts"
       PROVE  Inv'
  <2>1. next \in StakeAccounts /\ next # Wallet /\ next \notin visited
    BY <1>11, SolReportAssumption DEF PlaceInv
  <2>2. PlaceInv'
    BY <1>1, <1>2, <1>11, <2>1 DEF PlaceInv
  <2>3. \A k \in DOMAIN handled : handled[k].account \in {Wallet} \cup visited
    BY DEF HandledInv
  <2>4. HandledInv'
    BY <1>1, <1>6, <1>11, <2>1, <2>3 DEF HandledInv
  <2>5. ReportInv'
    <3>. SUFFICES ASSUME NothingCut PROVE ReportInv'
      BY <1>2 DEF ReportInv
    <3>1. \A a \in {Wallet} \cup visited' : a # account' => Wanted(a)' \subseteq HandledFor(a)'
      BY <1>2, <1>3, <1>5, <1>11
    <3>2. OldestBefore'
      BY <1>4 DEF ReportInv
    <3>. QED
      BY <1>11, <3>1, <3>2 DEF ReportInv
  <2>. QED
    BY <1>7, <1>8, <1>9, <2>2, <2>4, <2>5
<1>. QED
  BY <1>1, <1>10, <1>11

LEMMA StutterInv ==
  ASSUME Inv, UNCHANGED vars
  PROVE  Inv'
<1>. USE DEF vars, fetchVars
<1>1. PlaceInv' /\ TxidsInv'
  BY DEF Inv, PlaceInv, TxidsInv, LedgerInv, Wanted, Asked, Kept, InDates
<1>2. NothingCut' = NothingCut
  BY DEF NothingCut
<1>3. AddressesInv'
  <2>1. \A a : (QueryType(a) => QueryType(a)') /\ (QueryCovers(a) => QueryCovers(a)')
    BY DEF QueryType, QueryCovers, Passed, Due, Signatures, Kept, InDates
  <2>. QED
    BY <1>2, <2>1 DEF Inv, AddressesInv, Asked
<1>4. CoverInv' /\ ListInv'
  BY <1>2 DEF Inv, CoverInv, ListInv, Falling, Rising, Own, Due, Signatures, Wanted, Asked, Kept, InDates
<1>5. HandledInv'
  BY DEF Inv, HandledInv, Wanted, Asked, Kept, InDates
<1>6. ReportInv'
  BY <1>2 DEF Inv, ReportInv, HandledFor, DoneFor, OldestBefore, Tx, Own, Wanted, Asked, Kept, InDates
<1>. QED
  BY <1>1, <1>3, <1>4, <1>5, <1>6 DEF Inv

\* The invariant holds in every state of a report.
LEMMA AlwaysInv == Spec => []Inv
<1>1. Init => Inv
  BY InitInv
<1>2. Inv /\ [Next]_vars => Inv'
  <2>. SUFFICES ASSUME Inv, [Next]_vars PROVE Inv'
    OBVIOUS
  <2>1. CASE FetchTokenAccounts
    BY <2>1, FetchTokenAccountsInv
  <2>2. CASE QueryPage
    BY <2>2, QueryPageInv
  <2>3. CASE FetchedAll
    BY <2>3, FetchedAllInv
  <2>4. CASE FetchStaking
    BY <2>4, FetchStakingInv
  <2>5. CASE ProcessTx
    BY <2>5, ProcessTxInv
  <2>6. CASE ParseFails
    BY <2>6, ParseFailsInv
  <2>7. CASE NextAccount
    BY <2>7, NextAccountInv
  <2>8. CASE UNCHANGED vars
    BY <2>8, StutterInv
  <2>. QED
    BY <2>1, <2>2, <2>3, <2>4, <2>5, <2>6, <2>7, <2>8 DEF Next
<1>. QED
  BY <1>1, <1>2, PTL DEF Spec

-----------------------------------------------------------------------------
(* Theorems *)

\* txids_seen (txids.py): no transaction is handled twice for an account, whatever the
\* wallet and its token accounts share, and with nothing in the way none is missing, of
\* the wallet and of every stake account.
THEOREM HandledOnce == Spec => []OnceEach
<1>1. Inv => OnceEach
  <2>. SUFFICES ASSUME Inv PROVE OnceEach
    OBVIOUS
  <2>1. ASSUME phase = "done", NothingCut, NEW a \in {Wallet} \cup visited
        PROVE  {handled[k].p : k \in DoneFor(a)} = Wanted(a)
    <3>1. Wanted(a) \subseteq HandledFor(a)
      BY <2>1 DEF Inv, ReportInv
    <3>2. \A k \in DoneFor(a) : handled[k].p \in Wanted(a)
      BY DEF Inv, HandledInv, DoneFor
    <3>. QED
      BY <3>1, <3>2 DEF HandledFor
  <2>. QED
    BY <2>1 DEF Inv, HandledInv, OnceEach
<1>. QED
  BY <1>1, AlwaysInv, PTL

\* out.reverse() (txids.py): with nothing in the way the transactions that name the
\* account itself are handled oldest first, although its token accounts are asked for
\* after it and everything is turned around.
THEOREM HandledInOrder == Spec => []OldestBefore
<1>1. Inv => OldestBefore
  BY DEF Inv, ReportInv, OldestBefore
<1>. QED
  BY <1>1, AlwaysInv, PTL

=============================================================================
