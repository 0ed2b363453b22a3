---------------------------- MODULE TxFetch_proofs ----------------------------
(***************************************************************************)
(* Proofs about the paged fetch of a history, for any number of lists, any *)
(* limits and any growth of the lists between two requests: type           *)
(* correctness under every fault; that no transaction is missed when no    *)
(* server answers with an error; that each is returned once, in the order  *)
(* of the timestamps; and that an error answer costs an account's list its *)
(* oldest transactions only.                                               *)
(***************************************************************************)
EXTENDS TxFetch, NatLemmas

-----------------------------------------------------------------------------
(* Pages *)

\* Rounding up a division leaves nothing out.
LEMMA CeilDiv ==
  ASSUME NEW n \in Nat, NEW d \in Nat \ {0}
  PROVE  /\ (n + d - 1) \div d \in Nat
         /\ ((n + d - 1) \div d) * d >= n
         /\ n > 0 => (n + d - 1) \div d > 0
<1> DEFINE k == n + d - 1
<1>1. k \in Nat
  OBVIOUS
<1>2. /\ k \div d \in Nat /\ k % d \in 0 .. (d - 1)
      /\ k = d * (k \div d) + (k % d)
  BY <1>1, SMTT(30)
<1>3. d * (k \div d) = (k \div d) * d
  BY <1>2, SMTT(30)
<1>4. (k \div d) * d >= n
  BY <1>2, <1>3
<1>5. n > 0 => k \div d > 0
  <2>. SUFFICES ASSUME n > 0, k \div d = 0
                PROVE  FALSE
    BY <1>2
  <2>1. (k \div d) * d = 0
    BY SMTT(30)
  <2>. QED
    BY <1>4, <2>1
<1>. QED
  BY <1>2, <1>4, <1>5

\* A later page starts at least as far, and the next one a page further.
LEMMA Pages ==
  ASSUME NEW m \in Nat, NEW n \in Nat, NEW d \in Nat \ {0}
  PROVE  /\ n * d \in Nat
         /\ (n + 1) * d = n * d + d
         /\ m <= n => m * d <= n * d
<1>1. n * d \in Nat /\ (n + 1) * d = n * d + d
  BY SMTT(30)
<1>2. m <= n => m * d <= n * d
  BY SMTT(30)
<1>. QED
  BY <1>1, <1>2

\* Down lists the places from a place on, at most n of them and none below 1.
LEMMA DownPlaces ==
  ASSUME NEW top \in Nat, NEW from \in Int, from <= top, NEW n \in Nat \ {0}
  PROVE  /\ Down(from, n) \in Seq(1 .. top)
         /\ Len(Down(from, n)) <= n
         /\ Len(Down(from, n)) < n => from < n
         /\ Len(Down(from, n)) < n /\ from > 0 => Len(Down(from, n)) = from
         /\ from > 0 => Len(Down(from, n)) > 0
         /\ \A k \in 1 .. Len(Down(from, n)) : Down(from, n)[k] = from - k + 1
<1> DEFINE m == IF AtMost(n, from) > 0 THEN AtMost(n, from) ELSE 0
<1>1. /\ m \in Nat /\ m <= n /\ (m < n => from < n) /\ (from > 0 => m > 0 /\ m <= from)
      /\ (n <= from => m = n) /\ (from < n /\ from > 0 => m = from) /\ (from <= 0 => m = 0)
  BY DEF AtMost
<1>2. 1 .. AtMost(n, from) = 1 .. m
  BY DEF AtMost
<1> HIDE DEF m
<1>3. Down(from, n) = [k \in 1 .. m |-> from - k + 1]
  BY <1>2 DEF Down
<1>4. \A k \in 1 .. m : from - k + 1 \in 1 .. top
  BY <1>1
<1>5. Down(from, n) \in Seq(1 .. top) /\ Len(Down(from, n)) = m
  BY <1>1, <1>3, <1>4
<1>. QED
  BY <1>1, <1>3, <1>5

Among(x, seq) == \E k \in 1 .. Len(seq) : seq[k] = x

\* The places that Down reaches.
LEMMA DownReaches ==
  ASSUME NEW top \in Nat, NEW from \in Int, from <= top, NEW n \in Nat \ {0},
         NEW p \in 1 .. top, p <= from, p > from - n
  PROVE  Among(p, Down(from, n))
<1>1. /\ Down(from, n) \in Seq(1 .. top) /\ Len(Down(from, n)) <= n
      /\ Len(Down(from, n)) < n /\ from > 0 => Len(Down(from, n)) = from
      /\ \A k \in 1 .. Len(Down(from, n)) : Down(from, n)[k] = from - k + 1
  BY DownPlaces
<1>2. Len(Down(from, n)) \in Nat
  BY <1>1
<1>3. from - p + 1 \in 1 .. Len(Down(from, n))
  BY <1>1, <1>2
<1>4. Down(from, n)[from - p + 1] = p
  BY <1>1, <1>3
<1>. QED
  BY <1>3, <1>4 DEF Among

\* Up lists the places after a place, at most n of them and none above the top.
LEMMA UpPlaces ==
  ASSUME NEW top \in Nat, NEW after \in Nat, NEW n \in Nat \ {0}
  PROVE  /\ Up(after, n, top) \in Seq(1 .. top)
         /\ after < top => after + Len(Up(after, n, top)) = AtMost(after + n, top)
         /\ \A k \in 1 .. Len(Up(after, n, top)) : Up(after, n, top)[k] = after + k
<1> DEFINE m == IF AtMost(n, top - after) > 0 THEN AtMost(n, top - after) ELSE 0
<1>1. m \in Nat /\ (m > 0 => after + m <= top) /\ (after < top => after + m = AtMost(after + n, top))
  BY DEF AtMost
<1>2. 1 .. AtMost(n, top - after) = 1 .. m
  BY DEF AtMost
<1> HIDE DEF m
<1>3. Up(after, n, top) = [k \in 1 .. m |-> after + k]
  BY <1>2 DEF Up
<1>4. \A k \in 1 .. m : after + k \in 1 .. top
  BY <1>1
<1>5. Up(after, n, top) \in Seq(1 .. top) /\ Len(Up(after, n, top)) = m
  BY <1>1, <1>3, <1>4
<1>. QED
  BY <1>1, <1>3, <1>5

\* The places that Up reaches.
LEMMA UpReaches ==
  ASSUME NEW top \in Nat, NEW after \in Nat, NEW n \in Nat \ {0},
         NEW p \in 1 .. top, p > after, p <= after + n
  PROVE  Among(p, Up(after, n, top))
<1>1. /\ Up(after, n, top) \in Seq(1 .. top)
      /\ after < top => after + Len(Up(after, n, top)) = AtMost(after + n, top)
      /\ \A k \in 1 .. Len(Up(after, n, top)) : Up(after, n, top)[k] = after + k
  BY UpPlaces
<1>2. Len(Up(after, n, top)) \in Nat
  BY <1>1
<1>3. p - after \in 1 .. Len(Up(after, n, top))
  BY <1>1, <1>2 DEF AtMost
<1>4. Up(after, n, top)[p - after] = p
  BY <1>1, <1>3
<1>. QED
  BY <1>3, <1>4 DEF Among

\* Appending to a sequence adds to what it holds.
LEMMA Concatenated ==
  ASSUME NEW s \in Seq(Nat), NEW t \in Seq(Nat)
  PROVE  /\ s \o t \in Seq(Nat)
         /\ {(s \o t)[i] : i \in DOMAIN (s \o t)}
              = {s[i] : i \in DOMAIN s} \cup {t[i] : i \in DOMAIN t}
<1>1. s \o t \in Seq(Nat) /\ Len(s \o t) = Len(s) + Len(t)
  OBVIOUS
<1>2. \A i \in 1 .. Len(s) : (s \o t)[i] = s[i]
  OBVIOUS
<1>3. \A i \in 1 .. Len(t) : (s \o t)[Len(s) + i] = t[i]
  OBVIOUS
<1>4. \A i \in 1 .. Len(s) + Len(t) : i \in 1 .. Len(s) \/ i - Len(s) \in 1 .. Len(t)
  OBVIOUS
<1>5. ASSUME NEW x \in {(s \o t)[i] : i \in DOMAIN (s \o t)}
      PROVE  x \in {s[i] : i \in DOMAIN s} \cup {t[i] : i \in DOMAIN t}
  <2>1. PICK i \in 1 .. Len(s) + Len(t) : x = (s \o t)[i]
    BY <1>1, <1>5
  <2>2. CASE i \in 1 .. Len(s)
    BY <1>2, <2>1, <2>2
  <2>3. CASE i - Len(s) \in 1 .. Len(t)
    <3>1. (s \o t)[i] = t[i - Len(s)]
      BY <1>3, <2>3
    <3>. QED
      BY <2>1, <2>3, <3>1
  <2>. QED
    BY <1>4, <2>2, <2>3
<1>6. ASSUME NEW i \in DOMAIN s
      PROVE  s[i] \in {(s \o t)[j] : j \in DOMAIN (s \o t)}
  <2>1. i \in DOMAIN (s \o t)
    BY <1>1
  <2>. QED
    BY <1>2, <2>1
<1>7. ASSUME NEW i \in DOMAIN t
      PROVE  t[i] \in {(s \o t)[j] : j \in DOMAIN (s \o t)}
  <2>1. Len(s) + i \in DOMAIN (s \o t)
    BY <1>1
  <2>. QED
    BY <1>3, <2>1
<1>. QED
  BY <1>1, <1>5, <1>6, <1>7

-----------------------------------------------------------------------------
(* Type correctness *)

LEMMA MaxPagesType ==
  MaxPages \in Nat /\ MaxPages > 0 /\ MaxPages * Limit >= MaxTxs
BY CeilDiv, TxFetchAssumption DEF MaxPages

\* The query in progress is of one of the lists.
LEMMA ListType ==
  ASSUME TypeOK, pc = "fetch"
  PROVE  /\ q \in 1 .. Len(Queries[api])
         /\ List \in Lists
         /\ History \in Seq(Nat) /\ Len(History) \in Nat
         /\ Offset \in Nat
<1>1. q \in 1 .. Len(Queries[api])
  BY TxFetchAssumption DEF TypeOK
<1>2. List \in Lists
  BY <1>1, TxFetchAssumption DEF TypeOK, List
<1>3. page \in Nat
  BY MaxPagesType DEF TypeOK
<1>4. Offset \in Nat
  BY <1>3, Pages, TxFetchAssumption DEF Offset
<1>. QED
  BY <1>1, <1>2, <1>4 DEF TypeOK, History

\* The transactions at some places of the list.
LEMMA AtType ==
  ASSUME TypeOK, pc = "fetch", NEW places \in Seq(1 .. Len(History))
  PROVE  /\ At(places) \in Seq(Nat)
         /\ {At(places)[i] : i \in DOMAIN At(places)}
              = {History[places[k]] : k \in 1 .. Len(places)}
<1>1. History \in Seq(Nat)
  BY ListType
<1>2. \A k \in 1 .. Len(places) : History[places[k]] \in Nat
  BY <1>1
<1>3. Len(places) \in Nat /\ At(places) = [k \in 1 .. Len(places) |-> History[places[k]]]
  BY DEF At
<1>4. At(places) \in Seq(Nat)
  BY <1>2, <1>3
<1>5. DOMAIN At(places) = 1 .. Len(places)
  BY <1>3
<1>6. \A k \in 1 .. Len(places) : At(places)[k] = History[places[k]]
  BY <1>3
<1>7. {At(places)[i] : i \in DOMAIN At(places)} = {History[places[k]] : k \in 1 .. Len(places)}
  BY <1>5, <1>6
<1>. QED
  BY <1>4, <1>7

LEMMA PagePlacesType ==
  ASSUME TypeOK, pc = "fetch", cursor <= Len(History)
  PROVE  PagePlaces \in Seq(1 .. Len(History))
<1>1. Len(History) \in Nat /\ Offset \in Nat /\ Limit \in Nat \ {0} /\ cursor \in Nat
  BY ListType, TxFetchAssumption DEF TypeOK
<1>2. Up(Offset, Limit, Len(History)) \in Seq(1 .. Len(History))
  BY <1>1, UpPlaces
<1>3. Down(Len(History) - Offset, Limit) \in Seq(1 .. Len(History))
  <2>1. Len(History) - Offset \in Int /\ Len(History) - Offset <= Len(History)
    BY <1>1
  <2>. QED
    BY <1>1, <2>1, DownPlaces
<1>4. Down(IF cursor = 0 THEN Len(History) ELSE cursor - 1, Limit) \in Seq(1 .. Len(History))
  <2> DEFINE from == IF cursor = 0 THEN Len(History) ELSE cursor - 1
  <2>1. from \in Int /\ from <= Len(History)
    BY <1>1
  <2>. QED
    BY <1>1, <2>1, DownPlaces
<1>. QED
  BY <1>2, <1>3, <1>4 DEF PagePlaces

CutType == cut \in BOOLEAN

LEMMA EndPageType ==
  ASSUME TypeOK, pc = "fetch", NEW last, NEW received \in Seq(Nat), EndPage(last, received),
         cursor' \in Nat, CutType', UNCHANGED <<server, api, old>>
  PROVE  TypeOK'
<1>1. q \in 1 .. Len(Queries[api]) /\ Len(Queries[api]) \in Nat
  BY ListType, TxFetchAssumption DEF TypeOK
<1>2. page' \in 0 .. (MaxPages - 1)
  <2>1. MaxPages \in Nat /\ MaxPages > 0 /\ page \in 0 .. (MaxPages - 1)
    BY MaxPagesType DEF TypeOK
  <2>. QED
    BY <2>1 DEF EndPage, MorePages
<1>3. /\ q' \in 1 .. (Len(Queries[api]) + 1)
      /\ pc' \in {"fetch", "done"}
      /\ pc' = "fetch" => q' <= Len(Queries[api])
  BY <1>1 DEF EndPage, MorePages
<1>4. single' = -1 /\ attempts' = 0 /\ out' = received
  BY DEF EndPage, MorePages
<1>. QED
  BY <1>2, <1>3, <1>4, TxFetchAssumption DEF TypeOK, CutType, server

-----------------------------------------------------------------------------
(* Where a fetch stands in its lists *)

\* No list had more transactions at the start than it has now.
OldFits == \A l \in Lists : old[l] <= Len(hist[l])

\* Nothing was asked for before the start.
FreshUntilStart == pc = "idle" => q = 1 /\ page = 0 /\ single = -1 /\ cursor = 0

\* A cursor is a place that the pages before it reach, and only _get_txs of the
\* LCD servers goes on one by one.
CursorReached ==
  pc = "fetch" =>
    /\ api \notin CursorApis => cursor = 0
    /\ api # "lcd_v2" => single = -1
    /\ cursor <= Len(History)
    /\ api \in CursorApis => (cursor = 0 <=> page = 0)
    /\ cursor > 1 => cursor <= Len(History) - Offset + 1

Standing == TypeOK /\ OldFits /\ FreshUntilStart /\ CursorReached

\* Lists only get longer.
LEMMA Grows ==
  ASSUME TypeOK, NewTx
  PROVE  /\ hist' \in [Lists -> Seq(Nat)] /\ count' \in Nat
         /\ \A l \in Lists : Len(hist'[l]) >= Len(hist[l])
         /\ \A l \in Lists : \A p \in 1 .. Len(hist[l]) : hist'[l][p] = hist[l][p]
<1>1. PICK in \in SUBSET Lists :
        hist' = [l \in Lists |-> IF l \in in THEN Append(hist[l], count + 1) ELSE hist[l]]
  BY DEF NewTx
<1>2. count + 1 \in Nat /\ count' = count + 1
  BY DEF NewTx, TypeOK
<1>3. ASSUME NEW l \in Lists
      PROVE  /\ hist'[l] \in Seq(Nat) /\ Len(hist'[l]) >= Len(hist[l])
             /\ \A p \in 1 .. Len(hist[l]) : hist'[l][p] = hist[l][p]
  <2>1. hist[l] \in Seq(Nat)
    BY DEF TypeOK
  <2>2. CASE l \in in
    <3>1. hist'[l] = Append(hist[l], count + 1)
      BY <1>1, <2>2
    <3>. QED
      BY <1>2, <2>1, <3>1
  <2>3. CASE l \notin in
    <3>1. hist'[l] = hist[l]
      BY <1>1, <2>3
    <3>. QED
      BY <2>1, <3>1
  <2>. QED
    BY <2>2, <2>3
<1>4. hist' \in [Lists -> Seq(Nat)]
  BY <1>1, <1>3
<1>. QED
  BY <1>2, <1>3, <1>4

\* The cursor that a page leaves is one that the next page may start from.
LEMMA NextCursorReached ==
  ASSUME Standing, pc = "fetch", single = -1, NEW last \in LastPages(PagePlaces)
  PROVE  LET c == NextCursor(PagePlaces, last)
         IN  /\ c \in Nat /\ c <= Len(History)
             /\ api \notin CursorApis => c = 0
             /\ ~MorePages(last) => c = 0
             /\ api \in CursorApis /\ MorePages(last) => c # 0
             /\ c > 1 => c <= Len(History) - (page + 1) * Limit + 1
<1>1. /\ Len(History) \in Nat /\ Offset \in Nat /\ Limit \in Nat \ {0} /\ cursor \in Nat /\ page \in Nat
      /\ cursor <= Len(History)
  BY ListType, TxFetchAssumption, MaxPagesType DEF Standing, TypeOK, CursorReached
<1>2. (page + 1) * Limit = Offset + Limit
  BY <1>1, Pages DEF Offset
<1>3. CASE ~(api \in CursorApis /\ MorePages(last))
  BY <1>1, <1>3 DEF NextCursor
<1>4. CASE api \in CursorApis /\ MorePages(last)
  <2> DEFINE from == IF cursor = 0 THEN Len(History) ELSE cursor - 1
  <2> DEFINE places == Down(from, Limit)
  <2>1. PagePlaces = places
    BY <1>4 DEF PagePlaces, CursorApis, DistanceApis
  <2>2. from \in Int /\ from <= Len(History)
    BY <1>1
  <2>from0. cursor = 0 => from = Len(History)
    OBVIOUS
  <2>from1. cursor # 0 => from = cursor - 1
    OBVIOUS
  <2> HIDE DEF from
  <2>3. /\ places \in Seq(1 .. Len(History)) /\ Len(places) <= Limit
        /\ Len(places) < Limit /\ from > 0 => Len(places) = from
        /\ \A k \in 1 .. Len(places) : places[k] = from - k + 1
    BY <1>1, <2>2, DownPlaces
  <2> HIDE DEF places
  <2>4. places # << >>
    <3>1. SUFFICES ASSUME places = << >>
                   PROVE  FALSE
      OBVIOUS
    <3>2. api # "lcd_v1" /\ api \notin {"lcd_v2", "rpc"}
      BY <1>4 DEF CursorApis
    <3>3. LastPages(places) = {TRUE}
      BY <3>1, <3>2 DEF LastPages
    <3>4. last = TRUE
      BY <2>1, <3>3
    <3>. QED
      BY <1>4, <3>4 DEF MorePages
  <2>5. Len(places) \in 1 .. Limit
    BY <1>1, <2>3, <2>4
  <2>6. NextCursor(PagePlaces, last) = places[Len(places)]
    BY <1>4, <2>1 DEF NextCursor
  <2>7. places[Len(places)] \in 1 .. Len(History) /\ places[Len(places)] = from - Len(places) + 1
    <3>1. Len(places) \in 1 .. Len(places)
      BY <1>1, <2>5
    <3>2. \A k \in 1 .. Len(places) : places[k] \in 1 .. Len(History)
      BY <2>3
    <3>. QED
      BY <2>3, <3>1, <3>2
  <2>8. from <= Len(History) - Offset
    <3>1. CASE cursor = 0
      <4>1. page = 0
        BY <1>4, <3>1 DEF Standing, CursorReached
      <4>2. Offset = 0
        BY <1>1, <4>1 DEF Offset
      <4>. QED
        BY <1>1, <2>from0, <3>1, <4>2
    <3>2. CASE cursor = 1
      <4>1. from = 0
        BY <2>from1, <3>2
      <4>. QED
        BY <2>5, <2>7, <4>1
    <3>3. CASE cursor > 1
      BY <1>1, <2>from1, <3>3 DEF Standing, CursorReached
    <3>. QED
      BY <1>1, <3>1, <3>2, <3>3
  <2>9. places[Len(places)] > 1 => places[Len(places)] <= Len(History) - (Offset + Limit) + 1
    BY <1>1, <2>2, <2>3, <2>5, <2>7, <2>8
  <2>. QED
    BY <1>1, <1>2, <1>4, <2>6, <2>7, <2>9
<1>. QED
  BY <1>3, <1>4

\* The end of a page leaves the fetch standing, if its cursor is right.
LEMMA EndPageStanding ==
  ASSUME Standing, pc = "fetch", NEW last, NEW received \in Seq(Nat), EndPage(last, received),
         UNCHANGED <<server, api, old>>, CutType',
         cursor' \in Nat, cursor' <= Len(History),
         api \notin CursorApis => cursor' = 0,
         ~MorePages(last) => cursor' = 0,
         api \in CursorApis /\ MorePages(last) => cursor' # 0,
         cursor' > 1 => cursor' <= Len(History) - (page + 1) * Limit + 1
  PROVE  Standing'
<1>1. TypeOK'
  BY EndPageType DEF Standing
<1>2. OldFits'
  BY DEF Standing, OldFits, server
<1>3. FreshUntilStart'
  BY DEF FreshUntilStart, EndPage, MorePages
<1>4. CursorReached'
  <2>1. SUFFICES ASSUME pc' = "fetch"
                 PROVE  /\ api' \notin CursorApis => cursor' = 0
                        /\ api' # "lcd_v2" => single' = -1
                        /\ cursor' <= Len(History')
                        /\ api' \in CursorApis => (cursor' = 0 <=> page' = 0)
                        /\ cursor' > 1 => cursor' <= Len(History') - Offset' + 1
    BY DEF CursorReached
  <2>2. single' = -1
    BY DEF EndPage
  <2>3. CASE MorePages(last)
    <3>1. page' = page + 1 /\ q' = q
      BY <2>3 DEF EndPage
    <3>2. History' = History /\ Offset' = (page + 1) * Limit
      BY <3>1 DEF History, List, Offset, server
    <3>3. page + 1 # 0
      BY MaxPagesType DEF Standing, TypeOK
    <3>. QED
      BY <2>2, <2>3, <3>1, <3>2, <3>3
  <2>4. CASE ~MorePages(last)
    <3>1. page' = 0 /\ cursor' = 0
      BY <2>4 DEF EndPage
    <3>2. Len(History') \in Nat
      <4>1. q' \in 1 .. Len(Queries[api'])
        BY <1>1, <2>1, TxFetchAssumption DEF TypeOK
      <4>2. List' \in Lists
        BY <1>1, <4>1, TxFetchAssumption DEF TypeOK, List
      <4>. QED
        BY <1>1, <4>2 DEF TypeOK, History
    <3>. QED
      BY <2>2, <3>1, <3>2
  <2>. QED
    BY <2>3, <2>4
<1>. QED
  BY <1>1, <1>2, <1>3, <1>4 DEF Standing

\* Every step leaves the fetch standing.
LEMMA StandingStep ==
  ASSUME Standing, [Next]_vars
  PROVE  Standing'
<1> USE DEF Standing
<1>0. CutType'
  <2>1. cut' = cut \/ cut' = TRUE
    BY DEF Next, Step, NewTx, Start, Answer, TooLarge, AnswerOne, Fail, AnswerError, vars
  <2>. QED
    BY <2>1 DEF TypeOK, CutType
<1>. USE <1>0
<1>1. CASE NewTx
  <2>1. TypeOK'
    BY <1>1, Grows DEF NewTx, TypeOK
  <2>2. OldFits'
    <3>1. ASSUME NEW l \in Lists
          PROVE  old[l] <= Len(hist'[l])
      <4>1. /\ Len(hist'[l]) >= Len(hist[l]) /\ old[l] <= Len(hist[l])
            /\ Len(hist'[l]) \in Nat /\ Len(hist[l]) \in Nat /\ old[l] \in Nat
        BY <1>1, Grows DEF OldFits, TypeOK
      <4>. QED
        BY <4>1
    <3>. QED
      BY <1>1, <3>1 DEF OldFits, NewTx
  <2>3. FreshUntilStart'
    BY <1>1 DEF FreshUntilStart, NewTx
  <2>4. CursorReached'
    <3>1. CASE pc = "fetch"
      <4>1. /\ Len(History') >= Len(History) /\ Len(History') \in Nat /\ Len(History) \in Nat
            /\ Offset \in Nat /\ cursor \in Nat
        <5>1. List' = List /\ List \in Lists
          BY <1>1, <3>1, ListType DEF List, NewTx
        <5>. QED
          BY <1>1, <3>1, <5>1, Grows, ListType DEF History, TypeOK
      <4>2. Offset' = Offset
        BY <1>1 DEF Offset, NewTx
      <4>. QED
        BY <1>1, <3>1, <4>1, <4>2 DEF CursorReached, NewTx
    <3>2. CASE pc # "fetch"
      BY <1>1, <3>2 DEF CursorReached, NewTx
    <3>. QED
      BY <3>1, <3>2
  <2>. QED
    BY <2>1, <2>2, <2>3, <2>4
<1>2. CASE Start
  <2>1. \A l \in Lists : Len(hist[l]) \in Nat
    BY DEF TypeOK
  <2>2. /\ q = 1 /\ page = 0 /\ single = -1 /\ cursor = 0
        /\ q' = q /\ page' = page /\ single' = single /\ cursor' = cursor /\ hist' = hist
        /\ api' = api /\ pc' = "fetch"
    BY <1>2 DEF Start, FreshUntilStart, server
  <2>3. TypeOK'
    <3>1. 1 <= Len(Queries[api])
      BY TxFetchAssumption DEF TypeOK
    <3>. QED
      BY <1>2, <2>1, <2>2, <3>1 DEF Start, TypeOK, server
  <2>4. OldFits'
    BY <1>2, <2>1 DEF Start, OldFits, server
  <2>5. CursorReached'
    <3>1. Len(History') \in Nat
      <4>1. List' \in Lists
        BY <2>2, TxFetchAssumption DEF TypeOK, List
      <4>. QED
        BY <2>1, <2>2, <4>1 DEF History
    <3>. QED
      BY <2>2, <3>1 DEF CursorReached
  <2>. QED
    BY <2>2, <2>3, <2>4, <2>5 DEF FreshUntilStart
<1>3. CASE Answer
  <2>1. pc = "fetch" /\ single = -1 /\ UNCHANGED <<server, api, old>>
    BY <1>3 DEF Answer
  <2>2. PICK last \in LastPages(PagePlaces) :
          /\ EndPage(last, out \o At(PagePlaces))
          /\ cursor' = NextCursor(PagePlaces, last)
    BY <1>3 DEF Answer
  <2>3. out \o At(PagePlaces) \in Seq(Nat)
    <3>1. PagePlaces \in Seq(1 .. Len(History))
      BY <2>1, PagePlacesType DEF CursorReached
    <3>2. At(PagePlaces) \in Seq(Nat)
      BY <2>1, <3>1, AtType
    <3>. QED
      BY <3>2 DEF TypeOK
  <2>. QED
    BY <2>1, <2>2, <2>3, NextCursorReached, EndPageStanding
<1>4. CASE TooLarge
  <2>1. pc = "fetch" /\ pc' = "fetch" /\ api = "lcd_v2" /\ single' = 0 /\ attempts' = 0
    BY <1>4 DEF TooLarge
  <2>2. TypeOK'
    BY <1>4, TxFetchAssumption DEF TooLarge, TypeOK, server
  <2>3. OldFits'
    BY <1>4 DEF TooLarge, OldFits, server
  <2>4. CursorReached'
    <3>1. Len(History') = Len(History) /\ Offset' = Offset
      BY <1>4 DEF TooLarge, History, List, Offset, server
    <3>. QED
      BY <1>4, <2>1, <3>1 DEF CursorReached, TooLarge
  <2>. QED
    BY <2>1, <2>2, <2>3, <2>4 DEF FreshUntilStart
<1>5. CASE AnswerOne
  <2>1. pc = "fetch" /\ single >= 0 /\ UNCHANGED <<server, api, old, cursor>>
    BY <1>5 DEF AnswerOne
  <2>2. api = "lcd_v2" /\ cursor = 0 /\ Len(History) \in Nat /\ Offset \in Nat
    BY <2>1, ListType DEF CursorReached, CursorApis
  <2> DEFINE received == out \o At(SinglePlace)
             number == Offset + single + 1
  <2>3. received \in Seq(Nat)
    <3>1. SinglePlace \in Seq(1 .. Len(History))
      <4>1. /\ Len(History) - (Offset + single) \in Int
            /\ Len(History) - (Offset + single) <= Len(History)
        <5>1. single \in Int /\ single >= 0
          BY <2>1 DEF TypeOK
        <5>. QED
          BY <2>2, <5>1
      <4>. QED
        BY <2>2, <4>1, DownPlaces DEF SinglePlace
    <3>2. At(SinglePlace) \in Seq(Nat)
      BY <2>1, <3>1, AtType
    <3>. QED
      BY <3>2 DEF TypeOK
  <2> HIDE DEF received
  <2>4. CASE single + 1 = Limit \/ number = Len(History)
    <3>1. EndPage(number >= Len(History), received)
      BY <1>5, <2>4 DEF AnswerOne, received
    <3>2. cursor' = 0 /\ api \notin CursorApis
      BY <2>1, <2>2 DEF CursorApis
    <3>. QED
      BY <2>1, <2>2, <2>3, <3>1, <3>2, EndPageStanding
  <2>5. CASE ~(single + 1 = Limit \/ number = Len(History))
    <3>1. /\ single' = single + 1 /\ out' = received /\ attempts' = 0
          /\ UNCHANGED <<pc, q, page, result>>
      BY <1>5, <2>5 DEF AnswerOne, received
    <3>2. single' \in -1 .. (Limit - 1)
      BY <2>1, <2>5, <3>1, TxFetchAssumption DEF TypeOK
    <3>3. TypeOK'
      BY <2>1, <2>3, <3>1, <3>2, TxFetchAssumption DEF TypeOK, CutType, server
    <3>4. Len(History') = Len(History) /\ Offset' = Offset
      BY <2>1, <3>1 DEF History, List, Offset, server
    <3>5. CursorReached'
      BY <2>1, <2>2, <3>1, <3>4 DEF CursorReached
    <3>6. OldFits' /\ FreshUntilStart'
      BY <2>1, <3>1 DEF OldFits, FreshUntilStart, server
    <3>. QED
      BY <3>3, <3>5, <3>6
  <2>. QED
    BY <2>4, <2>5
<1>6. CASE Fail
  <2>1. UNCHANGED <<server, api, old, q, page, single, cursor, out, result>>
    BY <1>6 DEF Fail
  <2>2. pc = "fetch" /\ pc' \in {"fetch", "raised"} /\ attempts' \in 0 .. (Retries - 1)
    BY <1>6, TxFetchAssumption DEF Fail, MoreAttempts, TypeOK
  <2>3. TypeOK'
    BY <2>1, <2>2 DEF TypeOK, CutType, server
  <2>4. Len(History') = Len(History) /\ Offset' = Offset
    BY <2>1 DEF History, List, Offset, server
  <2>. QED
    BY <2>1, <2>2, <2>3, <2>4 DEF OldFits, FreshUntilStart, CursorReached, server
<1>7. CASE AnswerError
  <2>1. pc = "fetch" /\ UNCHANGED <<server, api, old>>
    BY <1>7 DEF AnswerError
  <2>2. CASE single = -1 /\ api \in DistanceApis \cup {"mintscan", "algo"}
    <3>1. EndPage(TRUE, out) /\ cursor' = 0
      BY <1>7, <2>2 DEF AnswerError
    <3>2. out \in Seq(Nat) /\ ~MorePages(TRUE) /\ Len(History) \in Nat
      BY <2>1, ListType DEF TypeOK, MorePages
    <3>3. cursor' \in Nat /\ cursor' <= Len(History) /\ ~(cursor' > 1)
      BY <3>1, <3>2
    <3>. QED
      BY <2>1, <3>1, <3>2, <3>3, EndPageStanding
  <2>3. CASE ~(single = -1 /\ api \in DistanceApis \cup {"mintscan", "algo"})
    <3>1. pc' = "raised" /\ UNCHANGED <<q, page, single, cursor, attempts, out, result>>
      BY <1>7, <2>3 DEF AnswerError
    <3>. QED
      BY <2>1, <3>1 DEF TypeOK, CutType, OldFits, FreshUntilStart, CursorReached, server
  <2>. QED
    BY <2>2, <2>3
<1>8. CASE UNCHANGED vars
  <2>1. History' = History /\ Offset' = Offset
    BY <1>8 DEF vars, History, List, Offset
  <2>. QED
    BY <1>8, <2>1 DEF vars, TypeOK, OldFits, FreshUntilStart, CursorReached
<1>. QED
  BY <1>1, <1>2, <1>3, <1>4, <1>5, <1>6, <1>7, <1>8 DEF Next, Step

LEMMA StandingInit == Init => Standing
<1>. SUFFICES ASSUME Init
              PROVE  Standing
  OBVIOUS
<1>1. MaxPages - 1 >= 0 /\ Len(Queries[api]) > 0 /\ Len(Queries[api]) \in Nat
  BY MaxPagesType, TxFetchAssumption DEF Init
<1>. cut \in BOOLEAN
  BY DEF Init
<1>2. TypeOK
  BY <1>1, TxFetchAssumption DEF Init, TypeOK
<1>3. OldFits
  BY DEF Init, OldFits
<1>. QED
  BY <1>2, <1>3 DEF Init, Standing, FreshUntilStart, CursorReached

LEMMA AlwaysStanding == Spec => []Standing
BY StandingInit, StandingStep, PTL DEF Spec

\* The fetch never leaves its states, for every API, fault and growth of the
\* lists: it asks for no page past the limit, makes no attempt past Retries, and
\* the one by one loop stays within its page.
THEOREM TypeCorrect == Spec => []TypeOK
<1>1. Standing => TypeOK
  BY DEF Standing
<1>. QED
  BY <1>1, AlwaysStanding, PTL

-----------------------------------------------------------------------------
(* No transaction is missed *)

Covered(l) == \A p \in Due(l) : hist[l][p] \in Received

\* Places of the current list that the pages to come stand for.
Ahead(p) ==
  /\ api = "rpc" => p > Offset
  /\ api \in DistanceApis => p <= Len(History) - Offset - (IF single = -1 THEN 0 ELSE single)
  /\ api \in CursorApis => cursor = 0 \/ p < cursor

EarlierCovered == \A i \in 1 .. Len(Queries[api]) : i < q => Covered(Queries[api][i])

DoneAtEnd == pc = "done" => q = Len(Queries[api]) + 1

CurrentCovered ==
  pc = "fetch" => \A p \in 1 .. old[List] : History[p] \in Received \/ Ahead(p)

Covering == Standing /\ EarlierCovered /\ DoneAtEnd /\ CurrentCovered

\* Places that are left for the next page of the query, and places past the limit.
AheadAfter(p, c) ==
  /\ api = "rpc" => p > (page + 1) * Limit
  /\ api \in DistanceApis => p <= Len(History) - (page + 1) * Limit
  /\ api \in CursorApis => p < c

Beyond(p) == IF api = "rpc" THEN p > MaxTxs ELSE p <= Len(History) - MaxTxs

\* Every API is one of the three kinds, and of one kind only.
LEMMA ApiKinds ==
  ASSUME TypeOK
  PROVE  /\ api = "rpc" \/ api \in DistanceApis \/ api \in CursorApis
         /\ api = "rpc" => api \notin DistanceApis \cup CursorApis
         /\ api \in DistanceApis => api \notin CursorApis
BY TxFetchAssumption DEF TypeOK, DistanceApis, CursorApis

\* The loop over pages stops at the end of the list or at the limit.
LEMMA LimitReached ==
  ASSUME TypeOK, ~MorePages(FALSE)
  PROVE  (page + 1) * Limit >= MaxTxs
<1>1. page \in Nat /\ MaxPages \in Nat /\ MaxPages <= page + 1 /\ Limit \in Nat \ {0}
  BY MaxPagesType, TxFetchAssumption DEF TypeOK, MorePages
<1>2. MaxPages * Limit <= (page + 1) * Limit /\ MaxPages * Limit \in Nat /\ (page + 1) * Limit \in Nat
  BY <1>1, Pages
<1>. QED
  BY <1>2, MaxPagesType, TxFetchAssumption

\* The last page by the count of pages reaches the other end of the list.
LEMMA LastPageReached ==
  ASSUME NEW n \in Nat, NEW k \in Nat, k >= PageCount(n)
  PROVE  k * Limit >= n
<1>1. PageCount(n) \in Nat /\ PageCount(n) * Limit >= n
  BY CeilDiv, TxFetchAssumption DEF PageCount
<1>2. PageCount(n) * Limit <= k * Limit /\ PageCount(n) * Limit \in Nat /\ k * Limit \in Nat
  BY <1>1, Pages, TxFetchAssumption
<1>. QED
  BY <1>1, <1>2

\* Of the places ahead, a page returns some, leaves some to the next page, and
\* when there is none, only places past the limit are left.
LEMMA PageCovers ==
  ASSUME Standing, pc = "fetch", single = -1, NEW last \in LastPages(PagePlaces),
         NEW p \in 1 .. Len(History), Ahead(p)
  PROVE  \/ Among(p, PagePlaces)
         \/ MorePages(last) /\ AheadAfter(p, NextCursor(PagePlaces, last))
         \/ ~MorePages(last) /\ Beyond(p)
<1>1. /\ Len(History) \in Nat /\ Offset \in Nat /\ Limit \in Nat \ {0} /\ MaxTxs \in Nat /\ cursor \in Nat
      /\ page \in Nat /\ cursor <= Len(History) /\ TypeOK
  BY ListType, TxFetchAssumption, MaxPagesType DEF Standing, TypeOK, CursorReached
<1>2. (page + 1) * Limit = Offset + Limit
  BY <1>1, Pages DEF Offset
<1>3. CASE api = "rpc"
  <2>1. p > Offset /\ PagePlaces = Up(Offset, Limit, Len(History))
    BY <1>3 DEF Ahead, PagePlaces, DistanceApis
  <2>2. CASE p <= Offset + Limit
    <3>1. Among(p, Up(Offset, Limit, Len(History)))
      BY <1>1, <2>1, <2>2, UpReaches
    <3>. QED
      BY <2>1, <3>1
  <2>3. CASE p > Offset + Limit
    <3>1. last = (page + 1 >= PageCount(Len(History)))
      BY <1>3 DEF LastPages
    <3>2. ~last
      <4>1. SUFFICES ASSUME page + 1 >= PageCount(Len(History))
                     PROVE  FALSE
        BY <3>1
      <4>2. (page + 1) * Limit >= Len(History)
        BY <1>1, <4>1, LastPageReached
      <4>. QED
        BY <1>1, <1>2, <2>3, <4>2
    <3>3. CASE MorePages(last)
      BY <1>2, <1>3, <2>3, <3>3 DEF AheadAfter, DistanceApis, CursorApis
    <3>4. CASE ~MorePages(last)
      <4>1. (page + 1) * Limit >= MaxTxs
        BY <1>1, <3>2, <3>4, LimitReached DEF MorePages
      <4>. QED
        BY <1>1, <1>2, <1>3, <2>3, <3>4, <4>1 DEF Beyond
    <3>. QED
      BY <3>3, <3>4
  <2>. QED
    BY <1>1, <2>2, <2>3
<1>4. CASE api \in DistanceApis
  <2> DEFINE from == Len(History) - Offset
  <2>1. p <= from /\ PagePlaces = Down(from, Limit) /\ api # "rpc" /\ api \notin CursorApis
    BY <1>1, <1>4 DEF Ahead, PagePlaces, DistanceApis, CursorApis
  <2>2. from \in Int /\ from <= Len(History)
    BY <1>1
  <2>3. from - Limit = Len(History) - (page + 1) * Limit
    BY <1>1, <1>2
  <2> DEFINE places == Down(from, Limit)
  <2>places. /\ places \in Seq(1 .. Len(History)) /\ Len(places) <= Limit
             /\ Len(places) < Limit => from < Limit
             /\ p > from - Limit => Among(p, places)
    <3>1. places \in Seq(1 .. Len(History)) /\ Len(places) <= Limit
      BY <1>1, <2>2, DownPlaces
    <3>2. Len(places) < Limit => from < Limit
      BY <1>1, <2>2, DownPlaces
    <3>3. ASSUME p > from - Limit
          PROVE  Among(p, places)
      BY <1>1, <2>1, <2>2, <3>3, DownReaches
    <3>. QED
      BY <3>1, <3>2, <3>3
  <2>1b. PagePlaces = places
    BY <2>1
  <2> HIDE DEF places
  <2> HIDE DEF from
  <2>4. CASE p > from - Limit
    BY <2>1, <2>1b, <2>4, <2>places
  <2>5. CASE p <= from - Limit
    <3>1. ~last
      <4>1. CASE api = "lcd_v1"
        <5>1. ~(Len(places) < Limit)
          BY <1>1, <2>1, <2>2, <2>5, <2>places
        <5>2. Len(places) <= Limit /\ Len(places) \in Nat
          BY <2>places
        <5>3. last = (Len(places) # Limit)
          BY <2>1b, <4>1 DEF LastPages
        <5>4. Len(places) = Limit
          BY <1>1, <5>1, <5>2
        <5>. QED
          BY <5>3, <5>4
      <4>2. CASE api = "lcd_v2"
        <5>1. last = (page + 1 >= PageCount(Len(History)))
          BY <4>2 DEF LastPages
        <5>2. ASSUME page + 1 >= PageCount(Len(History))
              PROVE  FALSE
          <6>1. (page + 1) * Limit >= Len(History)
            BY <1>1, <5>2, LastPageReached
          <6>. QED
            BY <1>1, <1>2, <2>3, <2>5, <6>1
        <5>. QED
          BY <4>2, <5>2 DEF LastPages
      <4>. QED
        BY <1>4, <4>1, <4>2 DEF DistanceApis
    <3>2. CASE MorePages(last)
      BY <2>1, <2>3, <2>5, <3>2 DEF AheadAfter
    <3>3. CASE ~MorePages(last)
      <4>1. (page + 1) * Limit >= MaxTxs
        BY <1>1, <3>1, <3>3, LimitReached DEF MorePages
      <4>. QED
        BY <1>1, <1>2, <2>1, <2>3, <2>5, <3>3, <4>1 DEF Beyond
    <3>. QED
      BY <3>2, <3>3
  <2>. QED
    BY <1>1, <2>2, <2>4, <2>5
<1>5. CASE api \in CursorApis
  <2> DEFINE from == IF cursor = 0 THEN Len(History) ELSE cursor - 1
  <2> DEFINE places == Down(from, Limit)
  <2>1. PagePlaces = places /\ api # "rpc" /\ api \notin DistanceApis
    BY <1>5 DEF PagePlaces, CursorApis, DistanceApis
  <2>2. from \in Int /\ from <= Len(History) /\ p <= from
    BY <1>1, <1>5 DEF Ahead
  <2>from. from <= Len(History) - Offset
    <3>1. CASE cursor = 0
      <4>1. page = 0
        BY <1>5, <3>1 DEF Standing, CursorReached
      <4>2. Offset = 0
        BY <1>1, <4>1 DEF Offset
      <4>. QED
        BY <1>1, <3>1, <4>2
    <3>2. CASE cursor = 1
      BY <1>1, <2>2, <3>2
    <3>3. CASE cursor > 1
      BY <1>1, <3>3 DEF Standing, CursorReached
    <3>. QED
      BY <1>1, <3>1, <3>2, <3>3
  <2> HIDE DEF from
  <2>3. /\ places \in Seq(1 .. Len(History)) /\ Len(places) <= Limit /\ Len(places) > 0
        /\ Len(places) < Limit => Len(places) = from
        /\ \A k \in 1 .. Len(places) : places[k] = from - k + 1
    <3>1. from > 0
      BY <1>1, <2>2
    <3>. QED
      BY <1>1, <2>2, <3>1, DownPlaces
  <2>reach. ASSUME p > from - Limit
            PROVE  Among(p, places)
    BY <1>1, <2>2, <2>reach, DownReaches
  <2> HIDE DEF places
  <2>4. Len(places) \in 1 .. Limit /\ Len(places) \in 1 .. Len(places)
    BY <1>1, <2>3
  <2>5. CASE p > from - Limit
    BY <2>1, <2>5, <2>reach
  <2>6. CASE p <= from - Limit
    <3>1. Len(places) = Limit
      BY <1>1, <2>2, <2>3, <2>4, <2>6
    <3>2. places[Len(places)] = from - Limit + 1
      BY <2>3, <2>4, <3>1
    <3>3. places[Len(places)] # 1 /\ places # << >>
      BY <1>1, <2>2, <2>4, <2>6, <3>2
    <3>4. last = FALSE
      <4>1. LastPages(places) = {FALSE}
        BY <2>1, <3>3, <1>5 DEF LastPages, DistanceApis, CursorApis
      <4>. QED
        BY <2>1, <4>1
    <3>5. CASE MorePages(last)
      <4>1. NextCursor(PagePlaces, last) = from - Limit + 1
        BY <1>5, <2>1, <3>2, <3>5 DEF NextCursor
      <4>. QED
        BY <1>1, <2>1, <2>2, <2>6, <3>5, <4>1 DEF AheadAfter
    <3>6. CASE ~MorePages(last)
      <4>1. (page + 1) * Limit >= MaxTxs
        BY <1>1, <3>4, <3>6, LimitReached DEF MorePages
      <4>. QED
        BY <1>1, <1>2, <2>1, <2>2, <2>from, <2>6, <3>6, <4>1 DEF Beyond
    <3>. QED
      BY <3>5, <3>6
  <2>. QED
    BY <1>1, <2>2, <2>5, <2>6
<1>. QED
  BY <1>1, <1>3, <1>4, <1>5, ApiKinds

\* A list stays covered when more is received.
LEMMA StaysCovered ==
  ASSUME NEW l, Covered(l), UNCHANGED <<server, api, old>>, Received \subseteq Received'
  PROVE  Covered(l)'
BY DEF Covered, Due, server

\* The end of a page keeps account of what was received, if the page left out
\* nothing but the places ahead of the next page or past the limit.
LEMMA EndPageCovers ==
  ASSUME Covering, pc = "fetch", NEW last, NEW received, EndPage(last, received),
         UNCHANGED <<server, api, old>>, Standing', Received \subseteq Received',
         ~MorePages(last) => cursor' = 0,
         \A p \in 1 .. old[List] :
           \/ History[p] \in Received'
           \/ MorePages(last) /\ AheadAfter(p, cursor')
           \/ ~MorePages(last) /\ Beyond(p)
  PROVE  Covering'
<1>1. /\ TypeOK /\ q \in 1 .. Len(Queries[api]) /\ Len(Queries[api]) \in Nat /\ List \in Lists
      /\ Len(History) \in Nat /\ old[List] \in Nat /\ MaxTxs \in Nat
  <2>1. TypeOK
    BY DEF Covering, Standing
  <2>2. /\ q \in 1 .. Len(Queries[api]) /\ List \in Lists /\ Len(History) \in Nat
        /\ Len(Queries[api]) \in Nat
    BY <2>1, ListType, TxFetchAssumption DEF TypeOK
  <2>3. old[List] \in Nat /\ MaxTxs \in Nat
    BY <2>1, <2>2, TxFetchAssumption DEF TypeOK
  <2>. QED
    BY <2>1, <2>2, <2>3
<1>2. CASE MorePages(last)
  <2>1. page' = page + 1 /\ q' = q /\ pc' = pc /\ single' = -1
    BY <1>2 DEF EndPage
  <2>2. List' = List /\ History' = History
    BY <2>1 DEF List, History, server
  <2>3. EarlierCovered'
    BY <2>1, StaysCovered DEF Covering, EarlierCovered
  <2>4. DoneAtEnd'
    BY <2>1 DEF DoneAtEnd
  <2>5. CurrentCovered'
    <3>1. SUFFICES ASSUME NEW p \in 1 .. old[List], AheadAfter(p, cursor')
                   PROVE  Ahead(p)'
      BY <1>2, <2>1, <2>2 DEF CurrentCovered
    <3>2. Offset' = (page + 1) * Limit
      BY <2>1 DEF Offset
    <3>3. /\ api \in DistanceApis => p <= Len(History) - (page + 1) * Limit
          /\ api \in CursorApis => p < cursor'
          /\ api = "rpc" => p > (page + 1) * Limit
      BY <3>1 DEF AheadAfter
    <3>4. api \in DistanceApis => p <= Len(History) - (page + 1) * Limit - 0
      <4>1. (page + 1) * Limit \in Nat
        BY MaxPagesType, Pages, TxFetchAssumption, <1>1 DEF TypeOK
      <4>. QED
        BY <1>1, <3>3, <4>1
    <3>. QED
      BY <2>1, <2>2, <3>2, <3>3, <3>4 DEF Ahead
  <2>. QED
    BY <2>3, <2>4, <2>5 DEF Covering
<1>3. CASE ~MorePages(last)
  <2>1. page' = 0 /\ q' = q + 1 /\ single' = -1 /\ cursor' = 0
    BY <1>3 DEF EndPage
  <2>2. EarlierCovered'
    <3>1. SUFFICES ASSUME NEW i \in 1 .. Len(Queries[api]), i < q + 1
                   PROVE  Covered(Queries[api][i])'
      BY <2>1 DEF EarlierCovered
    <3>2. CASE i < q
      BY <3>2, StaysCovered DEF Covering, EarlierCovered
    <3>3. CASE i = q
      <4>1. SUFFICES ASSUME NEW p \in Due(List)
                     PROVE  hist[List][p] \in Received'
        BY <3>3 DEF Covered, Due, List, server
      <4>2. p \in 1 .. old[List] /\ ~Beyond(p)
        BY <1>1 DEF Due, Beyond, AtMost, History
      <4>. QED
        BY <1>3, <4>2 DEF History
    <3>. QED
      BY <1>1, <3>1, <3>2, <3>3
  <2>3. DoneAtEnd'
    BY <1>1, <1>3, <2>1 DEF EndPage, DoneAtEnd
  <2>4. CurrentCovered'
    <3>1. SUFFICES ASSUME pc' = "fetch", NEW p \in 1 .. old'[List']
                   PROVE  Ahead(p)'
      BY DEF CurrentCovered
    <3>2. Offset' = 0
      BY <2>1, TxFetchAssumption DEF Offset
    <3>3. old'[List'] \in Nat /\ Len(History') \in Nat /\ old'[List'] <= Len(History')
      <4>1. q' \in 1 .. Len(Queries[api'])
        BY <3>1, TxFetchAssumption DEF Standing, TypeOK
      <4>2. List' \in Lists
        BY <4>1, TxFetchAssumption DEF Standing, TypeOK, List
      <4>. QED
        BY <4>2 DEF Standing, OldFits, TypeOK, History
    <3>4. p > 0 /\ p <= Len(History') - 0 - 0
      BY <3>3
    <3>. QED
      BY <2>1, <3>2, <3>4 DEF Ahead
  <2>. QED
    BY <2>2, <2>3, <2>4 DEF Covering
<1>. QED
  BY <1>2, <1>3

\* A step that is no error answer keeps account of what was received.
LEMMA CoveringStep ==
  ASSUME Covering, [Next]_vars, ~cut'
  PROVE  Covering'
<1>0. Standing /\ TypeOK /\ Standing'
  BY StandingStep DEF Covering, Standing
<1>1. CASE NewTx
  <2>1. UNCHANGED <<pc, api, old, q, page, single, cursor, attempts, out, result>>
    BY <1>1 DEF NewTx
  <2>2. Received' = Received /\ Offset' = Offset
    BY <2>1 DEF Received, Offset
  <2>3. ASSUME NEW l \in Lists, Covered(l)
        PROVE  Covered(l)'
    <3>1. SUFFICES ASSUME NEW p \in Due(l)'
                   PROVE  hist'[l][p] \in Received
      BY <2>2 DEF Covered
    <3>2. /\ Len(hist'[l]) >= Len(hist[l]) /\ old[l] <= Len(hist[l])
          /\ Len(hist'[l]) \in Nat /\ Len(hist[l]) \in Nat /\ old[l] \in Nat /\ MaxTxs \in Nat
      <4>1. Len(hist'[l]) >= Len(hist[l]) /\ hist' \in [Lists -> Seq(Nat)]
        BY <1>0, <1>1, Grows
      <4>2. hist[l] \in Seq(Nat) /\ hist'[l] \in Seq(Nat) /\ old[l] \in Nat /\ MaxTxs \in Nat
        BY <1>0, <4>1, TxFetchAssumption DEF TypeOK
      <4>. QED
        BY <1>0, <4>1, <4>2 DEF Standing, OldFits
    <3>3. p \in Due(l) /\ p \in 1 .. Len(hist[l])
      BY <2>1, <3>2 DEF Due, AtMost
    <3>4. hist'[l][p] = hist[l][p]
      BY <1>0, <1>1, <3>3, Grows
    <3>. QED
      BY <2>3, <3>3, <3>4 DEF Covered
  <2>4. EarlierCovered'
    <3>1. \A i \in 1 .. Len(Queries[api]) : Queries[api][i] \in Lists
      BY <1>0, TxFetchAssumption DEF TypeOK
    <3>. QED
      BY <2>1, <2>3, <3>1 DEF Covering, EarlierCovered
  <2>5. DoneAtEnd'
    BY <2>1 DEF Covering, DoneAtEnd
  <2>6. CurrentCovered'
    <3>1. SUFFICES ASSUME pc = "fetch", NEW p \in 1 .. old[List]
                   PROVE  History'[p] \in Received' \/ Ahead(p)'
      BY <2>1 DEF CurrentCovered, List
    <3>2. List \in Lists /\ List' = List /\ Offset \in Nat
      BY <1>0, <2>1, <3>1, ListType DEF List
    <3>3. /\ Len(History') >= Len(History) /\ old[List] <= Len(History) /\ old[List] \in Nat
          /\ Len(History') \in Nat /\ Len(History) \in Nat
          /\ \A r \in 1 .. Len(History) : History'[r] = History[r]
      <4>1. /\ Len(hist'[List]) >= Len(hist[List]) /\ hist' \in [Lists -> Seq(Nat)]
            /\ \A r \in 1 .. Len(hist[List]) : hist'[List][r] = hist[List][r]
        BY <1>0, <1>1, <3>2, Grows
      <4>2. hist[List] \in Seq(Nat) /\ hist'[List] \in Seq(Nat) /\ old[List] \in Nat
        BY <1>0, <3>2, <4>1 DEF TypeOK
      <4>3. old[List] <= Len(hist[List])
        BY <1>0, <3>2 DEF Standing, OldFits
      <4>4. History = hist[List] /\ History' = hist'[List]
        BY <3>2 DEF History
      <4>. QED
        BY <4>1, <4>2, <4>3, <4>4
    <3>4. p \in 1 .. Len(History)
      BY <3>3
    <3>5. CASE History[p] \in Received
      BY <2>2, <3>3, <3>4, <3>5
    <3>6. CASE Ahead(p)
      BY <1>0, <2>1, <2>2, <3>2, <3>3, <3>4, <3>6 DEF Ahead, TypeOK
    <3>. QED
      BY <3>1, <3>5, <3>6 DEF Covering, CurrentCovered
  <2>. QED
    BY <1>0, <2>4, <2>5, <2>6 DEF Covering
<1>2. CASE Start
  <2>1. /\ q = 1 /\ page = 0 /\ single = -1 /\ cursor = 0
        /\ q' = q /\ page' = page /\ single' = single /\ cursor' = cursor /\ api' = api /\ pc' = "fetch"
    BY <1>0, <1>2 DEF Start, Standing, FreshUntilStart
  <2>2. EarlierCovered' /\ DoneAtEnd'
    BY <2>1 DEF EarlierCovered, DoneAtEnd
  <2>3. CurrentCovered'
    <3>1. SUFFICES ASSUME NEW p \in 1 .. old'[List']
                   PROVE  Ahead(p)'
      BY DEF CurrentCovered
    <3>2. Offset' = 0
      BY <2>1, TxFetchAssumption DEF Offset
    <3>3. old'[List'] \in Nat /\ Len(History') \in Nat /\ old'[List'] <= Len(History')
      <4>1. List' \in Lists
        BY <1>0, <2>1, TxFetchAssumption DEF TypeOK, List
      <4>. QED
        BY <1>0, <4>1 DEF Standing, OldFits, TypeOK, History
    <3>4. p > 0 /\ p <= Len(History') - 0 - 0
      BY <3>3
    <3>. QED
      BY <2>1, <3>2, <3>4 DEF Ahead
  <2>. QED
    BY <1>0, <2>2, <2>3 DEF Covering
<1>3. CASE Answer
  <2>1. pc = "fetch" /\ single = -1 /\ UNCHANGED <<server, api, old>>
    BY <1>3 DEF Answer
  <2>2. PICK last \in LastPages(PagePlaces) :
          /\ EndPage(last, out \o At(PagePlaces))
          /\ cursor' = NextCursor(PagePlaces, last)
    BY <1>3 DEF Answer
  <2>3. PagePlaces \in Seq(1 .. Len(History))
    BY <1>0, <2>1, PagePlacesType DEF Standing, CursorReached
  <2>4. /\ At(PagePlaces) \in Seq(Nat) /\ out \in Seq(Nat)
        /\ {At(PagePlaces)[i] : i \in DOMAIN At(PagePlaces)}
             = {History[PagePlaces[k]] : k \in 1 .. Len(PagePlaces)}
    BY <1>0, <2>1, <2>3, AtType DEF TypeOK
  <2>5. Received' = Received \cup {History[PagePlaces[k]] : k \in 1 .. Len(PagePlaces)}
    <3>1. out' = out \o At(PagePlaces)
      BY <2>2 DEF EndPage
    <3> DEFINE s == At(PagePlaces)
    <3>2. s \in Seq(Nat) /\ out \in Seq(Nat)
      BY <2>4
    <3>3. {(out \o s)[i] : i \in DOMAIN (out \o s)} = {out[i] : i \in DOMAIN out} \cup {s[i] : i \in DOMAIN s}
      <4> HIDE DEF s
      <4>. QED
        BY <3>2, Concatenated
    <3>4. Received' = {(out \o s)[i] : i \in DOMAIN (out \o s)} /\ Received = {out[i] : i \in DOMAIN out}
      BY <3>1 DEF Received
    <3>. QED
      BY <2>4, <3>3, <3>4
  <2>6. ~MorePages(last) => cursor' = 0
    BY <2>2 DEF NextCursor
  <2>7. ASSUME NEW p \in 1 .. old[List]
        PROVE  \/ History[p] \in Received'
               \/ MorePages(last) /\ AheadAfter(p, cursor')
               \/ ~MorePages(last) /\ Beyond(p)
    <3>1. p \in 1 .. Len(History)
      <4>1. List \in Lists /\ Len(History) \in Nat
        BY <1>0, <2>1, ListType DEF Standing
      <4>2. old[List] <= Len(History)
        BY <1>0, <4>1 DEF Standing, OldFits, History
      <4>3. old[List] \in Nat
        BY <1>0, <4>1 DEF Standing, TypeOK
      <4>. QED
        BY <4>1, <4>2, <4>3
    <3>2. CASE History[p] \in Received
      BY <2>5, <3>2
    <3>3. CASE Ahead(p)
      <4>1. CASE Among(p, PagePlaces)
        BY <2>5, <4>1 DEF Among
      <4>. QED
        BY <1>0, <2>1, <2>2, <3>1, <3>3, <4>1, PageCovers
    <3>. QED
      BY <2>1, <3>2, <3>3 DEF Covering, CurrentCovered
  <2>. QED
    BY <1>0, <2>1, <2>2, <2>5, <2>6, <2>7, EndPageCovers
<1>4. CASE TooLarge
  <2>1. /\ pc = "fetch" /\ single = -1 /\ single' = 0 /\ api = "lcd_v2"
        /\ UNCHANGED <<server, pc, api, old, q, page, cursor, out, result>>
    BY <1>4 DEF TooLarge
  <2>2. List' = List /\ History' = History /\ Received' = Received /\ Offset' = Offset
    BY <2>1 DEF List, History, Received, Offset, server
  <2>3. EarlierCovered' /\ DoneAtEnd'
    BY <2>1, <2>2, StaysCovered DEF Covering, EarlierCovered, DoneAtEnd
  <2>4. CurrentCovered'
    BY <2>1, <2>2 DEF Covering, CurrentCovered, Ahead
  <2>. QED
    BY <1>0, <2>3, <2>4 DEF Covering
<1>5. CASE AnswerOne
  <2>1. /\ pc = "fetch" /\ single >= 0 /\ UNCHANGED <<server, api, old, cursor>>
        /\ api = "lcd_v2" /\ cursor = 0
    BY <1>0, <1>5 DEF AnswerOne, Standing, CursorReached, CursorApis
  <2>2. /\ Len(History) \in Nat /\ Offset \in Nat /\ single \in Nat /\ single # -1 /\ page \in Nat
        /\ Limit \in Nat \ {0} /\ MaxTxs \in Nat /\ List \in Lists /\ old[List] \in Nat
        /\ old[List] <= Len(History)
    <3>1. /\ Len(History) \in Nat /\ Offset \in Nat /\ List \in Lists
      BY <1>0, <2>1, ListType
    <3>2. /\ single \in Nat /\ single # -1 /\ page \in Nat /\ Limit \in Nat \ {0} /\ MaxTxs \in Nat
      BY <1>0, <2>1, TxFetchAssumption, MaxPagesType DEF TypeOK
    <3>3. old[List] \in Nat /\ old[List] <= Len(History)
      BY <1>0, <3>1 DEF Standing, OldFits, History, TypeOK
    <3>. QED
      BY <3>1, <3>2, <3>3
  <2>3. (page + 1) * Limit = Offset + Limit
    BY <2>2, Pages DEF Offset
  <2> DEFINE received == out \o At(SinglePlace)
             number == Offset + single + 1
  <2>4. out' = received
    BY <1>5 DEF AnswerOne, EndPage
  <2>5. /\ SinglePlace \in Seq(1 .. Len(History))
        /\ \A p \in 1 .. Len(History) :
             p <= Len(History) - Offset - single => p <= Len(History) - number \/ Among(p, SinglePlace)
    <3>1. /\ Len(History) - (Offset + single) \in Int
          /\ Len(History) - (Offset + single) <= Len(History)
      BY <2>2
    <3>2. SinglePlace \in Seq(1 .. Len(History))
      BY <2>2, <3>1, DownPlaces DEF SinglePlace
    <3>3. ASSUME NEW p \in 1 .. Len(History), p <= Len(History) - Offset - single,
                 ~(p <= Len(History) - number)
          PROVE  Among(p, SinglePlace)
      <4>1. p <= Len(History) - (Offset + single) /\ p > Len(History) - (Offset + single) - 1
        BY <2>2, <3>3
      <4>. QED
        BY <2>2, <3>1, <4>1, DownReaches DEF SinglePlace
    <3>. QED
      BY <3>2, <3>3
  <2>6. /\ At(SinglePlace) \in Seq(Nat) /\ out \in Seq(Nat)
        /\ {At(SinglePlace)[i] : i \in DOMAIN At(SinglePlace)}
             = {History[SinglePlace[k]] : k \in 1 .. Len(SinglePlace)}
    BY <1>0, <2>1, <2>5, AtType DEF TypeOK
  <2>7. Received' = Received \cup {History[SinglePlace[k]] : k \in 1 .. Len(SinglePlace)}
    <3> DEFINE s == At(SinglePlace)
    <3>1. s \in Seq(Nat) /\ out \in Seq(Nat)
      BY <2>6
    <3>2. {(out \o s)[i] : i \in DOMAIN (out \o s)} = {out[i] : i \in DOMAIN out} \cup {s[i] : i \in DOMAIN s}
      <4> HIDE DEF s
      <4>. QED
        BY <3>1, Concatenated
    <3>3. Received' = {(out \o s)[i] : i \in DOMAIN (out \o s)} /\ Received = {out[i] : i \in DOMAIN out}
      BY <2>4 DEF Received
    <3>. QED
      BY <2>6, <3>2, <3>3
  <2> HIDE DEF received
  <2>8. ASSUME NEW p \in 1 .. old[List]
        PROVE  History[p] \in Received' \/ p <= Len(History) - number
    <3>1. p \in 1 .. Len(History)
      BY <2>2
    <3>2. CASE History[p] \in Received
      BY <2>7, <3>2
    <3>3. CASE Ahead(p)
      <4>1. p <= Len(History) - Offset - single
        BY <2>1, <2>2, <3>3 DEF Ahead, DistanceApis
      <4>2. CASE Among(p, SinglePlace)
        BY <2>7, <4>2 DEF Among
      <4>. QED
        BY <2>5, <3>1, <4>1, <4>2
    <3>. QED
      BY <2>1, <3>2, <3>3 DEF Covering, CurrentCovered
  <2>9. CASE single + 1 = Limit \/ number = Len(History)
    <3>1. EndPage(number >= Len(History), received)
      BY <1>5, <2>9 DEF AnswerOne, received
    <3>2. ASSUME NEW p \in 1 .. old[List], p <= Len(History) - number
          PROVE  \/ MorePages(number >= Len(History)) /\ AheadAfter(p, cursor')
                 \/ ~MorePages(number >= Len(History)) /\ Beyond(p)
      <4>1. ~(number >= Len(History)) /\ number = (page + 1) * Limit
        BY <2>2, <2>3, <2>9, <3>2
      <4>2. CASE MorePages(number >= Len(History))
        BY <2>1, <3>2, <4>1, <4>2 DEF AheadAfter, DistanceApis, CursorApis
      <4>3. CASE ~MorePages(number >= Len(History))
        <5>1. (page + 1) * Limit >= MaxTxs
          BY <1>0, <4>1, <4>3, LimitReached DEF MorePages
        <5>. QED
          BY <2>1, <2>2, <2>3, <3>2, <4>1, <4>3, <5>1 DEF Beyond
      <4>. QED
        BY <4>2, <4>3
    <3>3. \A p \in 1 .. old[List] :
            \/ History[p] \in Received'
            \/ MorePages(number >= Len(History)) /\ AheadAfter(p, cursor')
            \/ ~MorePages(number >= Len(History)) /\ Beyond(p)
      BY <2>8, <3>2
    <3>. QED
      BY <1>0, <2>1, <2>7, <3>1, <3>3, EndPageCovers
  <2>10. CASE ~(single + 1 = Limit \/ number = Len(History))
    <3>1. single' = single + 1 /\ UNCHANGED <<pc, q, page>>
      BY <1>5, <2>10 DEF AnswerOne
    <3>2. List' = List /\ History' = History /\ Offset' = Offset
      BY <2>1, <3>1 DEF List, History, Offset, server
    <3>3. EarlierCovered' /\ DoneAtEnd'
      BY <2>1, <2>7, <3>1, StaysCovered DEF Covering, EarlierCovered, DoneAtEnd
    <3>4. CurrentCovered'
      <4>1. SUFFICES ASSUME NEW p \in 1 .. old[List], p <= Len(History) - number
                     PROVE  Ahead(p)'
        BY <2>1, <2>8, <3>1, <3>2 DEF CurrentCovered
      <4>2. single' # -1 /\ p <= Len(History) - Offset - single'
        BY <2>2, <3>1, <4>1
      <4>. QED
        BY <2>1, <3>2, <4>2 DEF Ahead, DistanceApis, CursorApis
    <3>. QED
      BY <1>0, <3>3, <3>4 DEF Covering
  <2>. QED
    BY <2>9, <2>10
<1>6. CASE Fail
  <2>1. UNCHANGED <<server, api, old, q, page, single, cursor, out, result>> /\ pc' \in {pc, "raised"}
    BY <1>6 DEF Fail
  <2>2. List' = List /\ History' = History /\ Received' = Received /\ Offset' = Offset
    BY <2>1 DEF List, History, Received, Offset, server
  <2>3. EarlierCovered' /\ DoneAtEnd'
    BY <2>1, <2>2, StaysCovered DEF Covering, EarlierCovered, DoneAtEnd
  <2>4. CurrentCovered'
    BY <2>1, <2>2 DEF Covering, CurrentCovered, Ahead
  <2>. QED
    BY <1>0, <2>3, <2>4 DEF Covering
<1>7. CASE AnswerError
  BY <1>7 DEF AnswerError
<1>8. CASE UNCHANGED vars
  BY <1>8 DEF vars, Covering, Standing, TypeOK, OldFits, FreshUntilStart, CursorReached, EarlierCovered,
     DoneAtEnd, CurrentCovered, Covered, Due, Ahead, List, History, Offset, Received
<1>. QED
  BY <1>1, <1>2, <1>3, <1>4, <1>5, <1>6, <1>7, <1>8 DEF Next, Step

\* Unless a server answers with an error, get_txs_all returns every transaction that was there
\* when it was called, within the limit: for any lists, page size, limit, number of
\* retries and growth of the lists, with pages that are refused as too large.
THEOREM NothingMissed == Spec => []NoneMissed
<1>1. Init => cut \/ Covering
  <2>1. SUFFICES ASSUME Init
                 PROVE  Covering
    OBVIOUS
  <2>. QED
    BY <2>1, StandingInit DEF Init, Covering, EarlierCovered, DoneAtEnd, CurrentCovered
<1>2. (cut \/ Covering) /\ [Next]_vars => cut' \/ Covering'
  <2>1. SUFFICES ASSUME cut \/ Covering, [Next]_vars, ~cut'
                 PROVE  Covering'
    OBVIOUS
  <2>2. ~cut
    BY <2>1 DEF Next, Step, NewTx, Start, Answer, TooLarge, AnswerOne, Fail, AnswerError, vars
  <2>. QED
    BY <2>1, <2>2, CoveringStep
<1>3. (cut \/ Covering) => NoneMissed
  <2>1. SUFFICES ASSUME Covering, pc = "done", NEW i \in 1 .. Len(Queries[api])
                 PROVE  Covered(Queries[api][i])
    BY DEF NoneMissed, Covered
  <2>2. i < q
    BY <2>1, TxFetchAssumption DEF Covering, Standing, TypeOK, DoneAtEnd
  <2>. QED
    BY <2>1, <2>2 DEF Covering, EarlierCovered
<1>. QED
  BY <1>1, <1>2, <1>3, PTL DEF Spec

-----------------------------------------------------------------------------
(* What is returned of what was received *)

\* Timestamps follow the order of the chain.
LEMMA Timestamps ==
  ASSUME NEW a \in Nat, NEW b \in Nat
  PROVE  /\ Timestamp(a) \in Nat
         /\ a <= b => Timestamp(a) <= Timestamp(b)
<1>1. /\ a \div 2 \in Nat /\ a % 2 \in 0 .. 1 /\ a = 2 * (a \div 2) + (a % 2)
      /\ b \div 2 \in Nat /\ b % 2 \in 0 .. 1 /\ b = 2 * (b \div 2) + (b % 2)
  BY SMTT(30)
<1>. QED
  BY <1>1 DEF Timestamp

\* Sorting leaves no place out, repeats none, and puts the earlier timestamp first.
LEMMA SortedPlacesOrder ==
  ASSUME NEW txs \in Seq(Nat), NEW places \in SUBSET (DOMAIN txs)
  PROVE  LET sorted == SortedPlaces(txs, places)
             n == Cardinality(places)
         IN  /\ n \in Nat /\ sorted \in [1 .. n -> places]
             /\ \A i \in places : \E k \in 1 .. n : sorted[k] = i
             /\ \A k, l \in 1 .. n : k < l => /\ sorted[k] # sorted[l]
                                              /\ Timestamp(txs[sorted[k]]) <= Timestamp(txs[sorted[l]])
<1> DEFINE before == [j \in places |-> {i \in places : \/ Timestamp(txs[i]) < Timestamp(txs[j])
                                                       \/ Timestamp(txs[i]) = Timestamp(txs[j]) /\ i < j}]
           n == Cardinality(places)
           sorted == SortedPlaces(txs, places)
<1>1. IsFiniteSet(places) /\ \A i \in places : i \in Nat
  <2>1. DOMAIN txs = 1 .. Len(txs) /\ Len(txs) \in Nat
    OBVIOUS
  <2>2. IsFiniteSet(1 .. Len(txs))
    BY <2>1, FS_Interval
  <2>. QED
    BY <2>1, <2>2, FS_Subset
<1>2. \A i \in places : Timestamp(txs[i]) \in Nat
  <2>1. \A i \in places : txs[i] \in Nat
    OBVIOUS
  <2>. QED
    BY <2>1, Timestamps
<1>3. /\ before \in [places -> SUBSET places]
      /\ \A i \in places : i \notin before[i]
      /\ \A i, j \in places : j \in before[i] => before[j] \subseteq before[i]
      /\ \A i, j \in places : i # j => i \in before[j] \/ j \in before[i]
      /\ \A i, j \in places : i \in before[j] => Timestamp(txs[i]) <= Timestamp(txs[j])
  <2>1. before \in [places -> SUBSET places]
    OBVIOUS
  <2>2. \A i, j \in places :
          i \in before[j] <=> Timestamp(txs[i]) < Timestamp(txs[j]) \/ (Timestamp(txs[i]) = Timestamp(txs[j]) /\ i < j)
    OBVIOUS
  <2>. HIDE DEF before
  <2>3. ASSUME NEW i \in places, NEW j \in places, j \in before[i], NEW k \in before[j]
        PROVE  k \in before[i]
    <3>1. k \in places /\ i \in Nat /\ j \in Nat /\ k \in Nat
      BY <1>1, <2>1
    <3>2. Timestamp(txs[i]) \in Nat /\ Timestamp(txs[j]) \in Nat /\ Timestamp(txs[k]) \in Nat
      BY <1>2, <3>1
    <3>3. Timestamp(txs[j]) < Timestamp(txs[i]) \/ (Timestamp(txs[j]) = Timestamp(txs[i]) /\ j < i)
      BY <2>2, <2>3
    <3>4. Timestamp(txs[k]) < Timestamp(txs[j]) \/ (Timestamp(txs[k]) = Timestamp(txs[j]) /\ k < j)
      BY <2>2, <2>3, <3>1
    <3>5. Timestamp(txs[k]) < Timestamp(txs[i]) \/ (Timestamp(txs[k]) = Timestamp(txs[i]) /\ k < i)
      BY <3>1, <3>2, <3>3, <3>4
    <3>. QED
      BY <2>2, <3>1, <3>5
  <2>4. ASSUME NEW i \in places, NEW j \in places
        PROVE  /\ i \notin before[i]
               /\ i # j => i \in before[j] \/ j \in before[i]
               /\ i \in before[j] => Timestamp(txs[i]) <= Timestamp(txs[j])
    <3>1. i \in Nat /\ j \in Nat /\ Timestamp(txs[i]) \in Nat /\ Timestamp(txs[j]) \in Nat
      BY <1>1, <1>2
    <3>. QED
      BY <2>2, <3>1
  <2>5. \A i, j \in places : j \in before[i] => before[j] \subseteq before[i]
    BY <2>3
  <2>. QED
    BY <2>1, <2>4, <2>5
<1>4. \A j \in places : before[j] = {i \in places : Timestamp(txs[i]) < Timestamp(txs[j]) \/ (Timestamp(txs[i]) = Timestamp(txs[j]) /\ i < j)}
  OBVIOUS
<1>5. sorted = [k \in 1 .. n |-> CHOOSE j \in places : Cardinality({i \in places : Timestamp(txs[i]) < Timestamp(txs[j]) \/ (Timestamp(txs[i]) = Timestamp(txs[j]) /\ i < j)}) = k - 1]
  BY Zenon DEF SortedPlaces
<1>. HIDE DEF before, sorted, n
<1>6. /\ n \in Nat
      /\ \A i \in places : Cardinality(before[i]) \in 0 .. n - 1
      /\ \A i, j \in places : Cardinality(before[i]) < Cardinality(before[j]) <=> i \in before[j]
      /\ \A k \in 1 .. n : \E i \in places : Cardinality(before[i]) = k - 1
      /\ \A i, j \in places : Cardinality(before[i]) = Cardinality(before[j]) => i = j
  BY <1>1, <1>3, Counting DEF n
<1>7. ASSUME NEW k \in 1 .. n
      PROVE  sorted[k] \in places /\ Cardinality(before[sorted[k]]) = k - 1
  <2>1. \E j \in places : Cardinality({i \in places : Timestamp(txs[i]) < Timestamp(txs[j]) \/ (Timestamp(txs[i]) = Timestamp(txs[j]) /\ i < j)}) = k - 1
    BY <1>4, <1>6
  <2>2. /\ sorted[k] \in places
        /\ Cardinality({i \in places : Timestamp(txs[i]) < Timestamp(txs[sorted[k]]) \/ (Timestamp(txs[i]) = Timestamp(txs[sorted[k]]) /\ i < sorted[k])}) = k - 1
    BY <1>5, <2>1
  <2>. QED
    BY <1>4, <2>2
<1>8. sorted \in [1 .. n -> places]
  BY <1>5, <1>7
<1>9. ASSUME NEW i \in places
      PROVE  \E k \in 1 .. n : sorted[k] = i
  <2>1. Cardinality(before[i]) + 1 \in 1 .. n /\ Cardinality(before[i]) + 1 - 1 = Cardinality(before[i])
    BY <1>6
  <2>. QED
    BY <1>6, <1>7, <2>1
<1>10. ASSUME NEW k \in 1 .. n, NEW l \in 1 .. n, k < l
       PROVE  sorted[k] # sorted[l] /\ Timestamp(txs[sorted[k]]) <= Timestamp(txs[sorted[l]])
  <2>1. Cardinality(before[sorted[k]]) < Cardinality(before[sorted[l]])
    BY <1>6, <1>7, <1>10
  <2>2. sorted[k] \in before[sorted[l]]
    BY <1>6, <1>7, <2>1
  <2>. QED
    BY <1>3, <1>7, <2>2
<1>. QED
  BY <1>6, <1>8, <1>9, <1>10 DEF n, sorted

\* A transaction is at its first place.
LEMMA FirstPlacesCover ==
  ASSUME NEW txs \in Seq(Nat)
  PROVE  /\ FirstPlaces(txs) \subseteq DOMAIN txs
         /\ \A i \in DOMAIN txs : \E j \in FirstPlaces(txs) : txs[j] = txs[i]
         /\ \A i, j \in FirstPlaces(txs) : txs[i] = txs[j] => i = j
<1>1. DOMAIN txs = 1 .. Len(txs) /\ Len(txs) \in Nat
  OBVIOUS
<1>2. ASSUME NEW i \in DOMAIN txs
      PROVE  \E j \in FirstPlaces(txs) : txs[j] = txs[i]
  <2> DEFINE same == {j \in DOMAIN txs : txs[j] = txs[i]}
  <2>1. same \in SUBSET Nat /\ same # {}
    BY <1>1
  <2>2. PICK j \in same : \A k \in same : j <= k
    BY <2>1, LeastNat
  <2>3. \A k \in 1 .. (j - 1) : k \in DOMAIN txs /\ k \notin same
    BY <1>1, <2>2
  <2>. QED
    BY <2>2, <2>3 DEF FirstPlaces
<1>3. ASSUME NEW i \in FirstPlaces(txs), NEW j \in FirstPlaces(txs), txs[i] = txs[j]
      PROVE  i = j
  BY <1>1, <1>3 DEF FirstPlaces
<1>. QED
  BY <1>2, <1>3 DEF FirstPlaces

\* The order in which an account's list comes: newest first.
Descending(txs) == \A i, j \in DOMAIN txs : i < j => txs[i] > txs[j]

\* What is returned of transactions that come newest first where they are not
\* searched for duplicates: each of them once, oldest first.
LEMMA ReturnedOnce ==
  ASSUME NEW txs \in Seq(Nat), api \in CursorApis => Descending(txs)
  PROVE  LET res == Returned(txs)
         IN  /\ {res[i] : i \in DOMAIN res} = {txs[i] : i \in DOMAIN txs}
             /\ \A i, j \in DOMAIN res : i < j => /\ res[i] # res[j]
                                                  /\ Timestamp(res[i]) <= Timestamp(res[j])
<1> DEFINE res == Returned(txs)
<1>1. DOMAIN txs = 1 .. Len(txs) /\ Len(txs) \in Nat /\ \A i \in DOMAIN txs : txs[i] \in Nat
  OBVIOUS
<1>2. CASE api = "algo"
  <2>1. Descending(txs)
    BY <1>2 DEF CursorApis
  <2>2. DOMAIN res = DOMAIN txs /\ \A k \in DOMAIN txs : res[k] = txs[Len(txs) + 1 - k]
    BY <1>2 DEF Returned
  <2>. HIDE DEF res
  <2>3. \A k \in DOMAIN txs : Len(txs) + 1 - k \in DOMAIN txs
    BY <1>1
  <2>4. \A k \in DOMAIN txs : Len(txs) + 1 - (Len(txs) + 1 - k) = k
    BY <1>1
  <2>5. {res[i] : i \in DOMAIN res} = {txs[i] : i \in DOMAIN txs}
    BY <2>2, <2>3, <2>4
  <2>6. ASSUME NEW i \in DOMAIN res, NEW j \in DOMAIN res, i < j
        PROVE  res[i] # res[j] /\ Timestamp(res[i]) <= Timestamp(res[j])
    <3>1. Len(txs) + 1 - j < Len(txs) + 1 - i
      BY <1>1, <2>2, <2>6
    <3>2. res[i] < res[j] /\ res[i] \in Nat /\ res[j] \in Nat
      BY <1>1, <2>1, <2>2, <2>3, <3>1 DEF Descending
    <3>. QED
      BY <3>2, Timestamps
  <2>. QED
    BY <2>5, <2>6 DEF res
<1>3. CASE api # "algo"
  <2> DEFINE places == IF api = "fcd" THEN DOMAIN txs ELSE FirstPlaces(txs)
             sorted == SortedPlaces(txs, places)
             n == Cardinality(places)
  <2>1. /\ places \in SUBSET (DOMAIN txs)
        /\ \A i \in DOMAIN txs : \E j \in places : txs[j] = txs[i]
        /\ \A i, j \in places : txs[i] = txs[j] => i = j
    <3>1. CASE api = "fcd"
      <4>1. \A i, j \in DOMAIN txs : i # j => txs[i] # txs[j]
        BY <1>1, <3>1 DEF CursorApis, Descending
      <4>. QED
        BY <3>1, <4>1
    <3>2. CASE api # "fcd"
      BY <3>2, FirstPlacesCover
    <3>. QED
      BY <3>1, <3>2
  <2>2. res = [k \in DOMAIN sorted |-> txs[sorted[k]]]
    BY <1>3 DEF Returned
  <2>. HIDE DEF places, res
  <2>3. /\ n \in Nat /\ sorted \in [1 .. n -> places]
        /\ \A i \in places : \E k \in 1 .. n : sorted[k] = i
        /\ \A k, l \in 1 .. n : k < l => /\ sorted[k] # sorted[l]
                                         /\ Timestamp(txs[sorted[k]]) <= Timestamp(txs[sorted[l]])
    BY <2>1, SortedPlacesOrder
  <2>. HIDE DEF sorted, n
  <2>4. DOMAIN res = 1 .. n /\ \A k \in 1 .. n : res[k] = txs[sorted[k]] /\ sorted[k] \in places
    BY <2>2, <2>3
  <2>5. {res[i] : i \in DOMAIN res} = {txs[i] : i \in DOMAIN txs}
    <3>1. \A k \in DOMAIN res : res[k] = txs[sorted[k]] /\ sorted[k] \in DOMAIN txs
      BY <2>1, <2>4
    <3>2. ASSUME NEW i \in DOMAIN txs
          PROVE  \E k \in DOMAIN res : res[k] = txs[i]
      <4>1. PICK j \in places : txs[j] = txs[i]
        BY <2>1
      <4>2. PICK k \in 1 .. n : sorted[k] = j
        BY <2>3
      <4>. QED
        BY <2>4, <4>1, <4>2
    <3>. QED
      BY <3>1, <3>2
  <2>6. ASSUME NEW i \in DOMAIN res, NEW j \in DOMAIN res, i < j
        PROVE  res[i] # res[j] /\ Timestamp(res[i]) <= Timestamp(res[j])
    BY <2>1, <2>3, <2>4, <2>6
  <2>. QED
    BY <2>5, <2>6 DEF res
<1>. QED
  BY <1>2, <1>3

\* A list is in the order of the chain.
HistOrdered ==
  \A l \in Lists :
    /\ \A i \in DOMAIN hist[l] : hist[l][i] <= count
    /\ \A i, j \in DOMAIN hist[l] : i < j => hist[l][i] < hist[l][j]

Account == Queries[api][1]

\* The transactions of the account from a place of its list down, n of them.
Run(top, n) == [k \in 1 .. n |-> hist[Account][top - k + 1]]

\* What a server with cursors has returned is a run of the account's list, from
\* a place that no transaction of the start is above, down to the cursor.
CursorRun ==
  api \in CursorApis =>
    \E top \in 0 .. Len(hist[Account]) : \E n \in 0 .. top :
      /\ out = Run(top, n)
      /\ n > 0 => top >= old[Account]
      /\ pc = "idle" => n = 0
      /\ pc = "fetch" => IF cursor = 0 THEN n = 0 ELSE n > 0 /\ cursor = top - n + 1

ResultIs == pc = "done" => result = Returned(out)

Returning == Standing /\ HistOrdered /\ CursorRun /\ ResultIs

\* A server with cursors is asked for the one list of the account.
LEMMA AccountType ==
  ASSUME TypeOK, api \in CursorApis
  PROVE  /\ Account \in Lists /\ hist[Account] \in Seq(Nat) /\ Len(hist[Account]) \in Nat
         /\ Len(Queries[api]) = 1
         /\ pc = "fetch" => q = 1 /\ List = Account /\ History = hist[Account]
<1>1. api \in Apis /\ Queries[api] \in Seq(Lists) /\ Len(Queries[api]) = 1
  BY TxFetchAssumption DEF TypeOK
<1>2. Account \in Lists
  BY <1>1 DEF Account
<1>3. hist[Account] \in Seq(Nat)
  BY <1>2 DEF TypeOK
<1>4. pc = "fetch" => q = 1
  BY <1>1 DEF TypeOK
<1>. QED
  BY <1>1, <1>2, <1>3, <1>4 DEF List, History, Account

\* A sequence that begins like another and goes on like a third is their concatenation.
LEMMA ConcatenationIs ==
  ASSUME NEW s \in Seq(Nat), NEW t \in Seq(Nat), NEW u \in Seq(Nat), Len(u) = Len(s) + Len(t),
         \A k \in 1 .. Len(s) : u[k] = s[k],
         \A k \in 1 .. Len(t) : u[Len(s) + k] = t[k]
  PROVE  s \o t = u
<1>1. s \o t \in Seq(Nat) /\ Len(s \o t) = Len(s) + Len(t)
  OBVIOUS
<1>2. \A i \in 1 .. Len(s) : (s \o t)[i] = s[i]
  OBVIOUS
<1>3. \A i \in 1 .. Len(t) : (s \o t)[Len(s) + i] = t[i]
  OBVIOUS
<1>4. ASSUME NEW k \in 1 .. (Len(s) + Len(t))
      PROVE  (s \o t)[k] = u[k]
  <2>1. CASE k <= Len(s)
    BY <1>2, <2>1
  <2>2. CASE ~(k <= Len(s))
    <3>1. k - Len(s) \in 1 .. Len(t) /\ Len(s) + (k - Len(s)) = k
      BY <2>2
    <3>. QED
      BY <1>3, <3>1
  <2>. QED
    BY <2>1, <2>2
<1>5. \A v \in Seq(Nat) : v = [k \in 1 .. Len(v) |-> v[k]]
  OBVIOUS
<1>6. s \o t = [k \in 1 .. Len(s \o t) |-> (s \o t)[k]] /\ u = [k \in 1 .. Len(u) |-> u[k]]
  BY <1>1, <1>5
<1>. QED
  BY <1>1, <1>4, <1>6

\* A run of the list and the run below it are a run.
LEMMA RunExtended ==
  ASSUME NEW h \in Seq(Nat), NEW top \in 0 .. Len(h), NEW n \in 0 .. top, NEW m \in 0 .. (top - n)
  PROVE  [k \in 1 .. n |-> h[top - k + 1]] \o [k \in 1 .. m |-> h[top - n - k + 1]]
           = [k \in 1 .. (n + m) |-> h[top - k + 1]]
<1> DEFINE run == [k \in 1 .. n |-> h[top - k + 1]]
           more == [k \in 1 .. m |-> h[top - n - k + 1]]
           whole == [k \in 1 .. (n + m) |-> h[top - k + 1]]
<1>1. \A k \in 1 .. n : h[top - k + 1] \in Nat
  OBVIOUS
<1>2. \A k \in 1 .. m : h[top - n - k + 1] \in Nat
  OBVIOUS
<1>3. run \in Seq(Nat) /\ Len(run) = n
  BY <1>1
<1>4. more \in Seq(Nat) /\ Len(more) = m
  BY <1>2
<1>5. \A k \in 1 .. n : run[k] = whole[k]
  OBVIOUS
<1>6. \A k \in 1 .. m : more[k] = whole[n + k]
  <2>1. \A k \in 1 .. m : n + k \in 1 .. (n + m) /\ top - (n + k) + 1 = top - n - k + 1
    OBVIOUS
  <2>. QED
    BY <2>1
<1>. HIDE DEF run, more, whole
<1>7. whole \in Seq(Nat) /\ Len(whole) = n + m
  <2>1. n + m \in Nat /\ \A k \in 1 .. (n + m) : top - k + 1 \in 1 .. Len(h)
    OBVIOUS
  <2>2. \A k \in 1 .. (n + m) : h[top - k + 1] \in Nat
    BY <2>1
  <2>. QED
    BY <2>1, <2>2 DEF whole
<1>8. run \o more = whole
  BY <1>3, <1>4, <1>5, <1>6, <1>7, ConcatenationIs
<1>. QED
  BY <1>8 DEF run, more, whole

LEMMA HistOrderedStep ==
  ASSUME TypeOK, HistOrdered, [Next]_vars
  PROVE  HistOrdered'
<1>1. CASE NewTx
  <2>1. PICK in \in SUBSET Lists :
          hist' = [l \in Lists |-> IF l \in in THEN Append(hist[l], count + 1) ELSE hist[l]]
    BY <1>1 DEF NewTx
  <2>2. count' = count + 1 /\ count \in Nat
    BY <1>1 DEF NewTx, TypeOK
  <2>3. ASSUME NEW l \in Lists
        PROVE  /\ \A i \in DOMAIN hist'[l] : hist'[l][i] <= count'
               /\ \A i, j \in DOMAIN hist'[l] : i < j => hist'[l][i] < hist'[l][j]
    <3>1. /\ hist[l] \in Seq(Nat)
          /\ \A i \in DOMAIN hist[l] : hist[l][i] <= count /\ hist[l][i] \in Nat
          /\ \A i, j \in DOMAIN hist[l] : i < j => hist[l][i] < hist[l][j]
      BY DEF TypeOK, HistOrdered
    <3>2. CASE l \notin in
      BY <2>1, <2>2, <3>1, <3>2
    <3>3. CASE l \in in
      <4>1. hist'[l] = Append(hist[l], count + 1)
        BY <2>1, <3>3
      <4>2. /\ Len(hist[l]) \in Nat
            /\ DOMAIN hist'[l] = 1 .. (Len(hist[l]) + 1) /\ DOMAIN hist[l] = 1 .. Len(hist[l])
            /\ \A i \in DOMAIN hist[l] : hist'[l][i] = hist[l][i]
            /\ hist'[l][Len(hist[l]) + 1] = count + 1
        BY <2>2, <3>1, <4>1
      <4>3. \A i \in 1 .. (Len(hist[l]) + 1) : i \in 1 .. Len(hist[l]) \/ i = Len(hist[l]) + 1
        BY <4>2
      <4>4. \A i \in DOMAIN hist'[l] : hist'[l][i] <= count'
        BY <2>2, <3>1, <4>2, <4>3
      <4>5. ASSUME NEW i \in DOMAIN hist'[l], NEW j \in DOMAIN hist'[l], i < j
            PROVE  hist'[l][i] < hist'[l][j]
        <5>1. i \in 1 .. Len(hist[l]) /\ (j \in 1 .. Len(hist[l]) \/ j = Len(hist[l]) + 1)
          BY <4>2, <4>5
        <5>2. CASE j \in 1 .. Len(hist[l])
          BY <3>1, <4>2, <4>5, <5>1, <5>2
        <5>3. CASE j = Len(hist[l]) + 1
          BY <2>2, <3>1, <4>2, <5>1, <5>3
        <5>. QED
          BY <5>1, <5>2, <5>3
      <4>. QED
        BY <4>4, <4>5
    <3>. QED
      BY <3>2, <3>3
  <2>. QED
    BY <2>3 DEF HistOrdered
<1>2. CASE ~NewTx
  <2>1. hist' = hist /\ count' = count
    BY <1>2 DEF Next, Step, Start, Answer, TooLarge, AnswerOne, Fail, AnswerError, server, vars
  <2>. QED
    BY <2>1 DEF HistOrdered
<1>. QED
  BY <1>1, <1>2

LEMMA ResultIsStep ==
  ASSUME ResultIs, [Next]_vars
  PROVE  ResultIs'
<1>1. CASE UNCHANGED <<pc, api, out, result>>
  BY <1>1 DEF ResultIs, Returned
<1>2. CASE pc' # "done"
  BY <1>2 DEF ResultIs
<1>3. ASSUME NEW last, NEW received, EndPage(last, received), api' = api, pc = "fetch"
      PROVE  ResultIs'
  <2>1. out' = received /\ (pc' = "done" => result' = Returned(received))
    BY <1>3 DEF EndPage
  <2>. QED
    BY <1>3, <2>1 DEF ResultIs, Returned
<1>4. CASE NewTx \/ Start \/ TooLarge \/ UNCHANGED vars
  BY <1>1, <1>2, <1>4 DEF NewTx, Start, TooLarge, vars
<1>5. CASE Answer
  <2>1. PICK last \in LastPages(PagePlaces) : EndPage(last, out \o At(PagePlaces))
    BY <1>5 DEF Answer
  <2>. QED
    BY <1>3, <1>5, <2>1 DEF Answer
<1>6. CASE AnswerOne
  BY <1>2, <1>3, <1>6 DEF AnswerOne
<1>7. CASE Fail
  BY <1>1, <1>2, <1>7 DEF Fail
<1>8. CASE AnswerError
  BY <1>2, <1>3, <1>8 DEF AnswerError
<1>. QED
  BY <1>4, <1>5, <1>6, <1>7, <1>8 DEF Next, Step

\* A page of a server with cursors prolongs the run.
LEMMA PageProlongs ==
  ASSUME Standing, api \in CursorApis, pc = "fetch", single = -1, NEW last \in LastPages(PagePlaces),
         NEW top \in 0 .. Len(hist[Account]), NEW n \in 0 .. top, out = Run(top, n),
         n > 0 => top >= old[Account],
         IF cursor = 0 THEN n = 0 ELSE n > 0 /\ cursor = top - n + 1
  PROVE  \E above \in 0 .. Len(hist[Account]) : \E number \in 0 .. above :
           /\ out \o At(PagePlaces) = Run(above, number)
           /\ number > 0 => above >= old[Account]
           /\ MorePages(last) => number > 0 /\ NextCursor(PagePlaces, last) = above - number + 1
<1> DEFINE h == hist[Account]
           above == IF cursor = 0 THEN Len(h) ELSE top
           places == Down(above - n, Limit)
           m == Len(places)
<1>1. /\ TypeOK /\ Account \in Lists /\ h \in Seq(Nat) /\ Len(h) \in Nat
      /\ List = Account /\ History = h /\ Limit \in Nat \ {0} /\ cursor \in Nat
  BY AccountType, TxFetchAssumption DEF Standing, TypeOK
<1>2. PagePlaces = Down(IF cursor = 0 THEN Len(h) ELSE cursor - 1, Limit)
  BY <1>1 DEF PagePlaces, CursorApis, DistanceApis
<1>3. /\ above \in 0 .. Len(h) /\ n \in 0 .. above /\ out = [k \in 1 .. n |-> h[above - k + 1]]
      /\ (IF cursor = 0 THEN Len(h) ELSE cursor - 1) = above - n
  <2>1. CASE cursor = 0
    <3>1. n = 0 /\ above = Len(h)
      BY <2>1
    <3>2. out = [k \in 1 .. n |-> h[above - k + 1]]
      <4>1. \A k \in 1 .. n : FALSE
        BY <3>1
      <4>2. out = [k \in 1 .. n |-> h[top - k + 1]]
        BY DEF Run
      <4>. QED
        BY <4>1, <4>2
    <3>. QED
      BY <1>1, <2>1, <3>1, <3>2
  <2>2. CASE cursor # 0
    BY <1>1, <2>2 DEF Run
  <2>. QED
    BY <2>1, <2>2
<1>4. PagePlaces = places
  BY <1>2, <1>3
<1>5. above >= old[Account]
  <2>1. CASE cursor = 0
    BY <1>1, <2>1 DEF Standing, OldFits
  <2>2. CASE cursor # 0
    BY <1>1, <2>2
  <2>. QED
    BY <2>1, <2>2
<1>. HIDE DEF above
<1>6. /\ places \in Seq(1 .. Len(h)) /\ m \in Nat
      /\ \A k \in 1 .. m : places[k] = above - n - k + 1
  <2> DEFINE from == above - n
  <2>1. from \in Int /\ from <= Len(h) /\ Len(h) \in Nat
    BY <1>1, <1>3
  <2>. HIDE DEF from, h
  <2>2. /\ Down(from, Limit) \in Seq(1 .. Len(h))
        /\ \A k \in 1 .. Len(Down(from, Limit)) : Down(from, Limit)[k] = from - k + 1
    BY <1>1, <2>1, DownPlaces
  <2>3. Len(Down(from, Limit)) \in Nat
    BY <2>2
  <2>. QED
    BY <2>2, <2>3 DEF from
<1>. HIDE DEF places
<1>7. m \in 0 .. (above - n)
  <2>1. CASE m = 0
    BY <1>1, <1>3, <2>1
  <2>2. CASE m # 0
    <3>1. m \in 1 .. m
      BY <1>6, <2>2
    <3>2. places[m] \in 1 .. Len(h) /\ places[m] = above - n - m + 1
      BY <1>6, <3>1
    <3>. QED
      BY <1>1, <1>3, <1>6, <3>2
  <2>. QED
    BY <2>1, <2>2
<1>8. At(places) = [k \in 1 .. m |-> h[above - n - k + 1]]
  <2>1. At(places) = [k \in 1 .. m |-> h[places[k]]]
    BY <1>1, <1>6 DEF At
  <2>. QED
    BY <1>6, <2>1
<1>9. out \o At(places) = Run(above, n + m)
  <2>1. [k \in 1 .. n |-> h[above - k + 1]] \o [k \in 1 .. m |-> h[above - n - k + 1]]
          = [k \in 1 .. (n + m) |-> h[above - k + 1]]
    <3>. HIDE DEF h, m
    <3>. QED
      BY <1>1, <1>3, <1>7, RunExtended
  <2>. QED
    BY <1>3, <1>8, <2>1 DEF Run
<1>10. ASSUME MorePages(last)
       PROVE  n + m > 0 /\ NextCursor(PagePlaces, last) = above - (n + m) + 1
  <2>1. api # "lcd_v1" /\ api \notin {"lcd_v2", "rpc"}
    BY DEF CursorApis
  <2>2. places # << >>
    BY <1>4, <1>10, <2>1 DEF LastPages, MorePages
  <2>3. m \in 1 .. m
    BY <1>6, <2>2
  <2>4. NextCursor(PagePlaces, last) = places[m] /\ places[m] = above - n - m + 1
    BY <1>4, <1>6, <1>10, <2>3 DEF NextCursor
  <2>5. above \in Nat /\ n \in Nat /\ m \in Nat /\ m > 0
    BY <1>1, <1>3, <1>6, <2>3
  <2>. HIDE DEF m
  <2>6. above - n - m + 1 = above - (n + m) + 1 /\ n + m > 0
    BY <2>5
  <2>. QED
    BY <2>4, <2>6
<1>11. n + m \in 0 .. above
  BY <1>1, <1>3, <1>7
<1>. QED
  BY <1>3, <1>4, <1>5, <1>9, <1>10, <1>11

LEMMA CursorRunStep ==
  ASSUME Standing, CursorRun, [Next]_vars
  PROVE  CursorRun'
<1>. SUFFICES ASSUME api' \in CursorApis
              PROVE  CursorRun'
  BY DEF CursorRun
<1>1. /\ api' = api /\ api \in CursorApis
      /\ Account' = Account /\ Account \in Lists /\ hist[Account] \in Seq(Nat) /\ Len(hist[Account]) \in Nat
      /\ pc = "fetch" => q = 1 /\ Len(Queries[api]) = 1
  <2>1. api' = api
    BY DEF Next, Step, NewTx, Start, Answer, TooLarge, AnswerOne, Fail, AnswerError, vars
  <2>. QED
    BY <2>1, AccountType DEF Standing, Account
<1>2. PICK top \in 0 .. Len(hist[Account]) : \E n \in 0 .. top :
        /\ out = Run(top, n)
        /\ n > 0 => top >= old[Account]
        /\ pc = "idle" => n = 0
        /\ pc = "fetch" => IF cursor = 0 THEN n = 0 ELSE n > 0 /\ cursor = top - n + 1
  BY <1>1 DEF CursorRun
<1>3. PICK n \in 0 .. top :
        /\ out = Run(top, n)
        /\ n > 0 => top >= old[Account]
        /\ pc = "idle" => n = 0
        /\ pc = "fetch" => IF cursor = 0 THEN n = 0 ELSE n > 0 /\ cursor = top - n + 1
  BY <1>2
<1>4. CASE NewTx
  <2>1. /\ hist[Account] \in Seq(Nat) /\ hist'[Account] \in Seq(Nat)
        /\ Len(hist'[Account]) >= Len(hist[Account])
        /\ \A p \in 1 .. Len(hist[Account]) : hist'[Account][p] = hist[Account][p]
    BY <1>1, <1>4, Grows DEF Standing
  <2>2. top \in 0 .. Len(hist'[Account])
    BY <1>1, <2>1
  <2>3. \A k \in 1 .. n : hist'[Account][top - k + 1] = hist[Account][top - k + 1]
    <3>1. \A k \in 1 .. n : top - k + 1 \in 1 .. Len(hist[Account])
      BY <1>1
    <3>. QED
      BY <2>1, <3>1
  <2>4. Run(top, n)' = Run(top, n)
    BY <1>1, <2>3 DEF Run
  <2>5. UNCHANGED <<out, old, pc, cursor>>
    BY <1>4 DEF NewTx
  <2>. QED
    BY <1>1, <1>3, <2>2, <2>4, <2>5 DEF CursorRun
<1>5. ASSUME hist' = hist, old' = old \/ n = 0, out' = out,
             pc' = "idle" => n = 0,
             pc' = "fetch" => IF cursor' = 0 THEN n = 0 ELSE n > 0 /\ cursor' = top - n + 1
      PROVE  CursorRun'
  <2>1. Run(top, n)' = Run(top, n)
    BY <1>1, <1>5 DEF Run
  <2>. QED
    BY <1>1, <1>3, <1>5, <2>1 DEF CursorRun
<1>6. CASE Start
  BY <1>3, <1>5, <1>6 DEF Start, Standing, FreshUntilStart, server
<1>7. CASE Answer
  <2>1. PICK last \in LastPages(PagePlaces) :
          /\ EndPage(last, out \o At(PagePlaces))
          /\ cursor' = NextCursor(PagePlaces, last)
    BY <1>7 DEF Answer
  <2>2. pc = "fetch" /\ single = -1 /\ UNCHANGED <<server, old>> /\ Len(Queries[api]) = 1 /\ q = 1
    BY <1>1, <1>7 DEF Answer
  <2>3. PICK above \in 0 .. Len(hist[Account]) : \E number \in 0 .. above :
           /\ out \o At(PagePlaces) = Run(above, number)
           /\ number > 0 => above >= old[Account]
           /\ MorePages(last) => number > 0 /\ NextCursor(PagePlaces, last) = above - number + 1
    BY <1>1, <1>3, <2>2, PageProlongs
  <2>4. PICK number \in 0 .. above :
           /\ out \o At(PagePlaces) = Run(above, number)
           /\ number > 0 => above >= old[Account]
           /\ MorePages(last) => number > 0 /\ NextCursor(PagePlaces, last) = above - number + 1
    BY <2>3
  <2>5. out' = out \o At(PagePlaces) /\ pc' = (IF MorePages(last) THEN "fetch" ELSE "done")
    BY <2>1, <2>2 DEF EndPage
  <2>6. MorePages(last) => cursor' # 0
    BY <1>1, <2>1, <2>2, NextCursorReached
  <2>7. hist' = hist /\ Run(above, number)' = Run(above, number)
    BY <1>1, <2>2 DEF server, Run
  <2>. QED
    BY <1>1, <2>1, <2>2, <2>4, <2>5, <2>6, <2>7 DEF CursorRun
<1>8. CASE TooLarge
  BY <1>1, <1>8 DEF TooLarge, CursorApis
<1>9. CASE AnswerOne
  BY <1>1, <1>9 DEF AnswerOne, Standing, CursorReached, CursorApis
<1>10. CASE Fail
  BY <1>3, <1>5, <1>10 DEF Fail, server
<1>11. CASE AnswerError
  <2>1. pc = "fetch" /\ UNCHANGED <<server, old>> /\ Len(Queries[api]) = 1 /\ q = 1
    BY <1>1, <1>11 DEF AnswerError
  <2>2. out' = out /\ pc' \in {"done", "raised"}
    BY <1>11, <2>1 DEF AnswerError, EndPage, MorePages
  <2>. QED
    BY <1>5, <2>1, <2>2 DEF server
<1>12. CASE UNCHANGED vars
  BY <1>3, <1>5, <1>12 DEF vars
<1>. QED
  BY <1>4, <1>6, <1>7, <1>8, <1>9, <1>10, <1>11, <1>12 DEF Next, Step

LEMMA AlwaysReturning == Spec => []Returning
<1>1. Init => HistOrdered /\ CursorRun /\ ResultIs
  <2>1. SUFFICES ASSUME Init
                 PROVE  HistOrdered /\ CursorRun /\ ResultIs
    OBVIOUS
  <2>2. \A l \in Lists : hist[l] = << >> /\ DOMAIN hist[l] = {}
    BY <2>1 DEF Init
  <2>3. HistOrdered
    BY <2>2 DEF HistOrdered
  <2>4. CursorRun
    <3>1. SUFFICES ASSUME api \in CursorApis
                   PROVE  0 \in 0 .. Len(hist[Account]) /\ out = Run(0, 0)
      BY <2>1 DEF CursorRun, Init
    <3>2. Account \in Lists
      BY <2>1, <3>1, AccountType, StandingInit DEF Standing
    <3>3. Len(hist[Account]) = 0
      BY <2>2, <3>2
    <3>4. 1 .. 0 = {}
      OBVIOUS
    <3>5. Run(0, 0) = << >>
      BY <3>4 DEF Run
    <3>. QED
      BY <2>1, <3>3, <3>5 DEF Init
  <2>5. ResultIs
    BY <2>1 DEF Init, ResultIs
  <2>. QED
    BY <2>3, <2>4, <2>5
<1>2. Standing /\ HistOrdered /\ CursorRun /\ ResultIs /\ [Next]_vars => (HistOrdered /\ CursorRun /\ ResultIs)'
  BY HistOrderedStep, CursorRunStep, ResultIsStep DEF Standing
<1>. QED
  BY <1>1, <1>2, AlwaysStanding, PTL DEF Spec, Returning

\* What a run of the account's list holds.
LEMMA RunOrdered ==
  ASSUME TypeOK, HistOrdered, api \in CursorApis,
         NEW top \in 0 .. Len(hist[Account]), NEW n \in 0 .. top, out = Run(top, n)
  PROVE  /\ DOMAIN out = 1 .. n
         /\ \A k \in 1 .. n : /\ top - k + 1 \in 1 .. Len(hist[Account])
                              /\ out[k] = hist[Account][top - k + 1]
         /\ \A p, r \in 1 .. Len(hist[Account]) : p < r => hist[Account][p] < hist[Account][r]
         /\ \A p \in 1 .. Len(hist[Account]) : hist[Account][p] \in Nat
         /\ Descending(out)
<1>1. Account \in Lists /\ hist[Account] \in Seq(Nat) /\ Len(hist[Account]) \in Nat
  BY AccountType
<1>2. DOMAIN out = 1 .. n
  BY DEF Run
<1>3. \A k \in 1 .. n : top - k + 1 \in 1 .. Len(hist[Account]) /\ out[k] = hist[Account][top - k + 1]
  BY <1>1 DEF Run
<1>4. \A p, r \in 1 .. Len(hist[Account]) : p < r => hist[Account][p] < hist[Account][r]
  BY <1>1 DEF HistOrdered
<1>5. \A p \in 1 .. Len(hist[Account]) : hist[Account][p] \in Nat
  BY <1>1
<1>6. ASSUME NEW i \in 1 .. n, NEW j \in 1 .. n, i < j
      PROVE  out[i] > out[j]
  <2>1. top - j + 1 < top - i + 1
    BY <1>1, <1>6
  <2>2. hist[Account][top - j + 1] < hist[Account][top - i + 1]
    BY <1>3, <1>4, <2>1
  <2>. QED
    BY <1>3, <1>5, <2>2
<1>. QED
  BY <1>2, <1>3, <1>4, <1>5, <1>6 DEF Descending

\* A processor gets every transaction that was received once, in the order of the
\* timestamps: for any lists, page size, number of queries and growth between the
\* requests, whatever fails.
THEOREM OnceInOrder == Spec => []EachOnceInOrder
<1>1. Returning => EachOnceInOrder
  <2>1. SUFFICES ASSUME Returning, pc = "done"
                 PROVE  /\ {result[i] : i \in DOMAIN result} = Received
                        /\ \A i, j \in DOMAIN result : i < j => /\ result[i] # result[j]
                                                                /\ Timestamp(result[i]) <= Timestamp(result[j])
    BY DEF EachOnceInOrder
  <2>2. out \in Seq(Nat) /\ result = Returned(out)
    BY <2>1 DEF Returning, Standing, TypeOK, ResultIs
  <2>3. api \in CursorApis => Descending(out)
    BY <2>1, RunOrdered DEF Returning, Standing, CursorRun
  <2>4. /\ {Returned(out)[i] : i \in DOMAIN Returned(out)} = {out[i] : i \in DOMAIN out}
        /\ \A i, j \in DOMAIN Returned(out) :
             i < j => /\ Returned(out)[i] # Returned(out)[j]
                      /\ Timestamp(Returned(out)[i]) <= Timestamp(Returned(out)[j])
    <3>. HIDE DEF Descending
    <3>. QED
      BY <2>2, <2>3, ReturnedOnce
  <2>5. {result[i] : i \in DOMAIN result} = Received
    BY <2>2, <2>4 DEF Received
  <2>6. \A i, j \in DOMAIN result : i < j => /\ result[i] # result[j]
                                              /\ Timestamp(result[i]) <= Timestamp(result[j])
    BY <2>2, <2>4
  <2>. QED
    BY <2>5, <2>6
<1>. QED
  BY <1>1, AlwaysReturning, PTL

\* An error answer costs an account's list its oldest transactions only.
THEOREM NoHole == Spec => []OnlyOldestCut
<1>1. Returning => OnlyOldestCut
  <2> DEFINE h == hist[Account]
  <2>1. SUFFICES ASSUME Returning, pc = "done", api \in CursorApis,
                        NEW p \in 1 .. old[Account], NEW r \in 1 .. old[Account], p < r, h[p] \in Received
                 PROVE  h[r] \in Received
    BY DEF OnlyOldestCut, Account
  <2>2. TypeOK /\ OldFits /\ HistOrdered
    BY <2>1 DEF Returning, Standing
  <2>3. PICK top \in 0 .. Len(h) : \E n \in 0 .. top : out = Run(top, n) /\ (n > 0 => top >= old[Account])
    BY <2>1 DEF Returning, CursorRun
  <2>4. PICK n \in 0 .. top : out = Run(top, n) /\ (n > 0 => top >= old[Account])
    BY <2>3
  <2>5. /\ DOMAIN out = 1 .. n
        /\ \A k \in 1 .. n : top - k + 1 \in 1 .. Len(h) /\ out[k] = h[top - k + 1]
        /\ \A i, j \in 1 .. Len(h) : i < j => h[i] < h[j]
        /\ \A i \in 1 .. Len(h) : h[i] \in Nat
    BY <2>1, <2>2, <2>4, RunOrdered
  <2>6. Account \in Lists /\ Len(h) \in Nat /\ old[Account] \in Nat /\ old[Account] <= Len(h)
    BY <2>1, <2>2, AccountType DEF TypeOK, OldFits
  <2>. HIDE DEF h
  <2>7. PICK k \in 1 .. n : out[k] = h[p]
    BY <2>1, <2>5 DEF Received
  <2>8. p = top - k + 1
    <3>1. p \in 1 .. Len(h) /\ top - k + 1 \in 1 .. Len(h) /\ h[top - k + 1] = h[p]
      BY <2>5, <2>6, <2>7
    <3>. QED
      BY <2>5, <3>1
  <2>9. top - r + 1 \in 1 .. n /\ top - (top - r + 1) + 1 = r
    BY <2>1, <2>4, <2>6, <2>8
  <2>10. out[top - r + 1] = h[r]
    BY <2>5, <2>9
  <2>. QED
    BY <2>5, <2>9, <2>10 DEF Received
<1>. QED
  BY <1>1, AlwaysReturning, PTL

=============================================================================
