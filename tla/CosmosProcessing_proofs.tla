------------------------ MODULE CosmosProcessing_proofs ------------------------
(***************************************************************************)
(* Proofs about the rows of the Cosmos chains and of Osmosis, for any      *)
(* history of any of the chains.                                           *)
(***************************************************************************)
EXTENDS CosmosProcessing, NatLemmas

-----------------------------------------------------------------------------
(* Sequences that are made of others *)

LEMMA FunctionIsSeq ==
  ASSUME NEW n \in Nat, NEW f, f = [k \in 1 .. n |-> f[k]]
  PROVE  IsSeq(f) /\ Len(f) = n /\ DOMAIN f = 1 .. n
<1>1. DOMAIN f = 1 .. n
  OBVIOUS
<1>2. f \in [1 .. n -> {f[k] : k \in DOMAIN f}]
  BY <1>1
<1>. QED
  BY <1>1, <1>2 DEF IsSeq

LEMMA PlacesIsSeq ==
  ASSUME NEW s, IsSeq(s), NEW places \in SUBSET (DOMAIN s)
  PROVE  /\ IsSeq(AtPlaces(s, places))
         /\ Len(AtPlaces(s, places)) <= Len(s)
         /\ \A k \in DOMAIN AtPlaces(s, places) : \E i \in places : AtPlaces(s, places)[k] = s[i]
<1>1. s \in Seq({s[k] : k \in DOMAIN s}) /\ Len(s) \in Nat /\ DOMAIN s = 1 .. Len(s)
  BY IsSeqType
<1>2. PICK n, sel : Picks(AtPlaces(s, places), s, places, n, sel)
  BY <1>1, AtPlacesIs
<1> DEFINE t == AtPlaces(s, places)
<1>3. /\ n \in Nat /\ t = [k \in 1 .. n |-> s[sel[k]]]
      /\ \A k \in 1 .. n : sel[k] \in places
      /\ \A k, l \in 1 .. n : k < l => sel[k] < sel[l]
  BY <1>2 DEF Picks
<1>. HIDE DEF t
<1>4. IsSeq(t) /\ Len(t) = n /\ DOMAIN t = 1 .. n
  BY <1>3, FunctionIsSeq
<1>5. n <= Len(s)
  <2>1. \A k \in 1 .. n : sel[k] \in 1 .. Len(s)
    BY <1>1, <1>3
  <2>. QED
    BY <1>1, <1>3, <2>1, RisingFits
<1>6. \A k \in DOMAIN t : \E i \in places : t[k] = s[i]
  BY <1>3, <1>4
<1>. QED
  BY <1>4, <1>5, <1>6 DEF t

-----------------------------------------------------------------------------
(* Messages and their transfers *)

LEMMA MessageType ==
  ASSUME NEW m \in Messages
  PROVE  /\ m.flows \in Seq(Flows) /\ IsSeq(m.flows) /\ IsSeq(m.event.legs)
         /\ m.subs \in Seq(MessagesAround({<<>>}))
         /\ \A a, b \in m.flags : a = b
         /\ m.type = "MsgDepositClaim" => m.nonce # 0
<1>1. /\ m.flows \in Seq(Flows) /\ m.event \in Events
      /\ m.subs \in Seq(MessagesAround({<<>>}))
      /\ \A a, b \in m.flags : a = b
      /\ m.type = "MsgDepositClaim" => m.nonce # 0
  <2> DEFINE Subs == Seq(MessagesAround({<<>>}))
  <2>. HIDE DEF Subs
  <2>1. m \in MessagesAround(Subs)
    BY DEF Messages, Subs
  <2>. QED
    BY <2>1 DEF MessagesAround, Subs
<1>2. m.event.legs \in Seq(Legs)
  BY <1>1 DEF Events
<1>. QED
  BY <1>1, <1>2, IsSeqOf

LEMMA WrappedAreMessages == MessagesAround({<<>>}) \subseteq Messages
<1> DEFINE Subs == MessagesAround({<<>>})
<1>1. {<<>>} \subseteq Seq(Subs)
  OBVIOUS
<1>. HIDE DEF Subs
<1>2. MessagesAround({<<>>}) \subseteq MessagesAround(Seq(Subs))
  BY <1>1 DEF MessagesAround
<1>. QED
  BY <1>2 DEF Messages, Subs

LEMMA CoinsAtSeq ==
  ASSUME NEW m \in Messages, NEW places \in SUBSET (DOMAIN m.flows)
  PROVE  /\ IsSeq(CoinsAt(m, places)) /\ Len(CoinsAt(m, places)) <= Len(m.flows)
         /\ \A k \in DOMAIN CoinsAt(m, places) : \E i \in places : CoinsAt(m, places)[k] = Coin(m.flows[i])
         /\ ~Contains(CoinsAt(m, places), NoCoin)
<1> DEFINE taken == AtPlaces(m.flows, places)
           coins == CoinsAt(m, places)
<1>1. m.flows \in Seq(Flows) /\ IsSeq(m.flows)
  BY MessageType
<1>2. /\ IsSeq(taken) /\ Len(taken) <= Len(m.flows)
      /\ \A k \in DOMAIN taken : \E i \in places : taken[k] = m.flows[i]
  BY <1>1, PlacesIsSeq
<1>3. Len(taken) \in Nat /\ DOMAIN taken = 1 .. Len(taken)
  BY <1>2, IsSeqType
<1>4. coins = [k \in DOMAIN taken |-> Coin(taken[k])]
  BY DEF CoinsAt, Coins
<1>. HIDE DEF taken, coins
<1>5. IsSeq(coins) /\ Len(coins) = Len(taken) /\ DOMAIN coins = DOMAIN taken
  <2>1. coins = [k \in 1 .. Len(taken) |-> coins[k]]
    BY <1>3, <1>4
  <2>. QED
    BY <1>3, <2>1, FunctionIsSeq
<1>6. \A k \in DOMAIN coins : \E i \in places : coins[k] = Coin(m.flows[i])
  BY <1>2, <1>4, <1>5
<1>7. ASSUME NEW f \in Flows
      PROVE  Coin(f) # NoCoin
  <2>1. f.cur # ""
    BY DEF Flows
  <2>2. Coin(f).cur = f.cur /\ NoCoin.cur = ""
    BY DEF Coin, NoCoin
  <2>. QED
    BY <2>1, <2>2
<1>8. \A i \in places : m.flows[i] \in Flows
  BY <1>1
<1>9. ~Contains(coins, NoCoin)
  BY <1>5, <1>6, <1>7, <1>8 DEF Contains
<1>. QED
  BY <1>2, <1>5, <1>6, <1>9 DEF coins

LEMMA EmptyIsSeq == IsSeq(<<>>) /\ Len(<<>>) = 0 /\ DOMAIN <<>> = {}
  BY DEF IsSeq

\* What a message moves, with the events of any age.
AreTransfers(t) ==
  /\ IsSeq(t.in) /\ IsSeq(t.out)
  /\ ~Contains(t.in, NoCoin)

LEMMA TransfersType ==
  ASSUME NEW m \in Messages
  PROVE  AreTransfers(Transfers(m)) /\ AreTransfers(TransfersEvent(m))
<1>1. /\ Inward(m) \in SUBSET DOMAIN m.flows /\ Outward(m) \in SUBSET DOMAIN m.flows
      /\ Outward(m) \ Inward(m) \in SUBSET DOMAIN m.flows
  BY DEF Inward, Outward
<1>2. ~Contains(<<>>, NoCoin)
  BY DEF Contains
<1>3. AreTransfers(TransfersEvent(m))
  BY <1>1, <1>2, CoinsAtSeq, EmptyIsSeq DEF TransfersEvent, AreTransfers
<1>4. AreTransfers(Transfers(m))
  BY <1>1, <1>3, CoinsAtSeq DEF Transfers, AreTransfers
<1>. QED
  BY <1>3, <1>4

LEMMA CurrenciesSeq ==
  ASSUME NEW coins, IsSeq(coins)
  PROVE  IsSeq(CurrenciesOf(coins))
<1> DEFINE places == {k \in DOMAIN coins : \A j \in 1 .. (k - 1) : coins[j].cur # coins[k].cur}
           firsts == AtPlaces(coins, places)
           curs == CurrenciesOf(coins)
<1>1. IsSeq(firsts)
  <2>1. places \in SUBSET (DOMAIN coins)
    OBVIOUS
  <2>. HIDE DEF places
  <2>. QED
    BY <2>1, PlacesIsSeq
<1>2. Len(firsts) \in Nat /\ DOMAIN firsts = 1 .. Len(firsts)
  BY <1>1, IsSeqType
<1>3. curs = [k \in DOMAIN firsts |-> firsts[k].cur]
  BY DEF CurrenciesOf
<1>. HIDE DEF firsts, curs
<1>4. curs = [k \in 1 .. Len(firsts) |-> curs[k]]
  BY <1>2, <1>3
<1>. QED
  BY <1>2, <1>4, FunctionIsSeq DEF curs

LEMMA NetSeq ==
  ASSUME NEW t, IsSeq(t.in), IsSeq(t.out)
  PROVE  IsSeq(TransfersNet(t).in) /\ IsSeq(TransfersNet(t).out)
<1> DEFINE curs == CurrenciesOf(t.in \o t.out)
           gained == AtPlaces(curs, {k \in DOMAIN curs : Net(t, curs[k]) > 0})
           lost   == AtPlaces(curs, {k \in DOMAIN curs : Net(t, curs[k]) < 0})
           in  == [k \in DOMAIN gained |-> [amt |-> Net(t, gained[k]), cur |-> gained[k]]]
           out == [k \in DOMAIN lost |-> [amt |-> -Net(t, lost[k]), cur |-> lost[k]]]
<1>1. IsSeq(curs)
  BY Joined, CurrenciesSeq
<1>2. IsSeq(gained) /\ IsSeq(lost)
  <2> DEFINE P == {k \in DOMAIN curs : Net(t, curs[k]) > 0}
             Q == {k \in DOMAIN curs : Net(t, curs[k]) < 0}
  <2>1. P \in SUBSET (DOMAIN curs) /\ Q \in SUBSET (DOMAIN curs)
    OBVIOUS
  <2>. HIDE DEF P, Q, curs
  <2>2. IsSeq(AtPlaces(curs, P)) /\ IsSeq(AtPlaces(curs, Q))
    BY <1>1, <2>1, PlacesIsSeq
  <2>. QED
    BY <2>2 DEF P, Q
<1>3. TransfersNet(t).in = in /\ TransfersNet(t).out = out
  BY DEF TransfersNet
<1>. HIDE DEF gained, lost
<1>4. /\ Len(gained) \in Nat /\ DOMAIN gained = 1 .. Len(gained)
      /\ Len(lost) \in Nat /\ DOMAIN lost = 1 .. Len(lost)
  BY <1>2, IsSeqType
<1>5. in = [k \in 1 .. Len(gained) |-> in[k]] /\ out = [k \in 1 .. Len(lost) |-> out[k]]
  BY <1>4
<1>. HIDE DEF in, out
<1>6. IsSeq(in) /\ IsSeq(out)
  BY <1>4, <1>5, FunctionIsSeq
<1>. QED
  BY <1>3, <1>6

-----------------------------------------------------------------------------
(* Rows *)

IsRow(r)   == r = Row(r.type, r.recv, r.sent, r.fee, r.about) /\ r.fee \in BOOLEAN
Receipt(r) == r.type = "TRANSFER" /\ r.recv # NoCoin

\* The fee is in one row at most.
Once(rs) == \A j, k \in DOMAIN rs : rs[j].fee /\ rs[k].fee => j = k

\* Rows that are no transfers, and show the fee at most if f.
Lines(rs, f) ==
  /\ IsSeq(rs)
  /\ \A k \in DOMAIN rs : IsRow(rs[k]) /\ rs[k].type # "TRANSFER" /\ (rs[k].fee => f)

LEMMA RowIs ==
  ASSUME NEW type, NEW recv, NEW sent, NEW f \in BOOLEAN, NEW about
  PROVE  /\ IsRow(Row(type, recv, sent, f, about))
         /\ Row(type, recv, sent, f, about).type = type
         /\ Row(type, recv, sent, f, about).recv = recv
         /\ Row(type, recv, sent, f, about).sent = sent
         /\ Row(type, recv, sent, f, about).about = about
         /\ Row(type, recv, sent, f, about).fee = f
  BY DEF IsRow, Row

LEMMA RowFee ==
  ASSUME NEW r, IsRow(r), NEW f \in BOOLEAN
  PROVE  [r EXCEPT !.fee = f] = Row(r.type, r.recv, r.sent, f, r.about)
  BY DEF IsRow, Row

LEMMA OneLine ==
  ASSUME NEW type, type # "TRANSFER", NEW recv, NEW sent, NEW f \in BOOLEAN, NEW about, NEW g, f => g
  PROVE  Lines(<<Row(type, recv, sent, f, about)>>, g) /\ Once(<<Row(type, recv, sent, f, about)>>)
<1> DEFINE r == Row(type, recv, sent, f, about)
<1>1. IsRow(r) /\ r.type # "TRANSFER" /\ (r.fee => g)
  BY RowIs
<1>. HIDE DEF r
<1>2. /\ <<r>> \in Seq({r}) /\ DOMAIN <<r>> = {1} /\ <<r>>[1] = r
  OBVIOUS
<1>3. IsSeq(<<r>>)
  BY <1>2, IsSeqOf
<1>4. Lines(<<r>>, g) /\ Once(<<r>>)
  BY <1>1, <1>2, <1>3 DEF Lines, Once
<1>. QED
  BY <1>4 DEF r

LEMMA NoLines ==
  ASSUME NEW f
  PROVE  Lines(<<>>, f) /\ Once(<<>>)
  BY EmptyIsSeq DEF Lines, Once

LEMMA LinesWeaken ==
  ASSUME NEW rs, NEW f, NEW g, Lines(rs, f), f => g
  PROVE  Lines(rs, g)
  BY DEF Lines

LEMMA LinesJoined ==
  ASSUME NEW a, NEW b, NEW f, Lines(a, f), Lines(b, f)
  PROVE  /\ Lines(a \o b, f)
         /\ Len(a) = 0 /\ Once(b) => Once(a \o b)
         /\ Len(b) = 0 /\ Once(a) => Once(a \o b)
<1>1. IsSeq(a) /\ IsSeq(b)
  BY DEF Lines
<1>2. /\ Len(a) \in Nat /\ DOMAIN a = 1 .. Len(a)
      /\ Len(b) \in Nat /\ DOMAIN b = 1 .. Len(b)
  BY <1>1, IsSeqType
<1> DEFINE j == a \o b
<1>3. /\ IsSeq(j) /\ DOMAIN j = 1 .. (Len(a) + Len(b))
      /\ \A k \in 1 .. Len(a) : j[k] = a[k]
      /\ \A k \in (Len(a) + 1) .. (Len(a) + Len(b)) : k - Len(a) \in DOMAIN b /\ j[k] = b[k - Len(a)]
  BY <1>1, Joined
<1>. HIDE DEF j
<1>4. \A k \in DOMAIN j : k \in 1 .. Len(a) \/ k \in (Len(a) + 1) .. (Len(a) + Len(b))
  BY <1>2, <1>3
<1>5. Lines(j, f)
  <2>1. \A k \in DOMAIN j : (\E i \in DOMAIN a : j[k] = a[i]) \/ (\E i \in DOMAIN b : j[k] = b[i])
    BY <1>2, <1>3, <1>4
  <2>. QED
    BY <1>3, <2>1 DEF Lines
<1>6. Len(a) = 0 /\ Once(b) => Once(j)
  BY <1>2, <1>3 DEF Once
<1>7. Len(b) = 0 /\ Once(a) => Once(j)
  BY <1>2, <1>3 DEF Once
<1>. QED
  BY <1>5, <1>6, <1>7 DEF j

\* util_osmo._ingest_rows
LEMMA FirstKeepsLines ==
  ASSUME NEW rs, NEW f, Lines(rs, f)
  PROVE  Lines(FirstKeepsFee(rs), f) /\ Once(FirstKeepsFee(rs)) /\ Len(FirstKeepsFee(rs)) = Len(rs)
<1>1. IsSeq(rs) /\ Len(rs) \in Nat /\ DOMAIN rs = 1 .. Len(rs)
  BY IsSeqType DEF Lines
<1> DEFINE ks == FirstKeepsFee(rs)
           h(k) == rs[k].fee /\ k = 1
<1>2. ks = [k \in 1 .. Len(rs) |-> [rs[k] EXCEPT !.fee = h(k)]]
  BY <1>1 DEF FirstKeepsFee
<1>3. \A k \in 1 .. Len(rs) : h(k) \in BOOLEAN /\ (h(k) => f) /\ (h(k) => k = 1)
  BY <1>1 DEF Lines
<1>. HIDE DEF h
<1>4. ASSUME NEW k \in 1 .. Len(rs)
      PROVE  ks[k] = Row(rs[k].type, rs[k].recv, rs[k].sent, h(k), rs[k].about)
  <2>1. IsRow(rs[k])
    BY <1>1 DEF Lines
  <2>2. [rs[k] EXCEPT !.fee = h(k)] = Row(rs[k].type, rs[k].recv, rs[k].sent, h(k), rs[k].about)
    BY <1>3, <2>1, RowFee
  <2>. QED
    BY <1>2, <2>2
<1>5. ks = [k \in 1 .. Len(rs) |-> ks[k]]
  BY <1>2
<1>. HIDE DEF ks
<1>6. IsSeq(ks) /\ Len(ks) = Len(rs) /\ DOMAIN ks = 1 .. Len(rs)
  BY <1>1, <1>5, FunctionIsSeq
<1>7. ASSUME NEW k \in DOMAIN ks
      PROVE  IsRow(ks[k]) /\ ks[k].type # "TRANSFER" /\ (ks[k].fee => f) /\ (ks[k].fee => k = 1)
  <2>1. rs[k].type # "TRANSFER" /\ ks[k] = Row(rs[k].type, rs[k].recv, rs[k].sent, h(k), rs[k].about)
    BY <1>1, <1>4, <1>6 DEF Lines
  <2>2. IsRow(ks[k]) /\ ks[k].type = rs[k].type /\ ks[k].fee = h(k)
    BY <1>3, <1>6, <2>1, RowIs
  <2>. QED
    BY <1>3, <1>6, <2>1, <2>2
<1>8. Lines(ks, f) /\ Once(ks)
  BY <1>6, <1>7 DEF Lines, Once
<1>. QED
  BY <1>6, <1>8 DEF ks

\* util_ibc._ingest_rows
LEMMA IngestLines ==
  ASSUME NEW rs, NEW g, Lines(rs, g), NEW f \in BOOLEAN, NEW i
  PROVE  Lines(IngestRows(f, i, rs), FirstFee(f, i)) /\ Once(IngestRows(f, i, rs)) /\ Len(IngestRows(f, i, rs)) = Len(rs)
         /\ \A k \in DOMAIN IngestRows(f, i, rs) : IngestRows(f, i, rs)[k].fee => k = 1
<1>1. IsSeq(rs) /\ Len(rs) \in Nat /\ DOMAIN rs = 1 .. Len(rs)
  BY IsSeqType DEF Lines
<1> DEFINE ks == IngestRows(f, i, rs)
           h(k) == FirstFee(f, i) /\ k = 1
<1>2. ks = [k \in 1 .. Len(rs) |-> [rs[k] EXCEPT !.fee = h(k)]]
  BY <1>1 DEF IngestRows
<1>3. \A k : h(k) \in BOOLEAN /\ (h(k) => FirstFee(f, i)) /\ (h(k) => k = 1)
  OBVIOUS
<1>. HIDE DEF h
<1>4. ASSUME NEW k \in 1 .. Len(rs)
      PROVE  ks[k] = Row(rs[k].type, rs[k].recv, rs[k].sent, h(k), rs[k].about)
  <2>1. IsRow(rs[k])
    BY <1>1 DEF Lines
  <2>2. [rs[k] EXCEPT !.fee = h(k)] = Row(rs[k].type, rs[k].recv, rs[k].sent, h(k), rs[k].about)
    BY <1>3, <2>1, RowFee
  <2>. QED
    BY <1>2, <2>2
<1>5. ks = [k \in 1 .. Len(rs) |-> ks[k]]
  BY <1>2
<1>. HIDE DEF ks
<1>6. IsSeq(ks) /\ Len(ks) = Len(rs) /\ DOMAIN ks = 1 .. Len(rs)
  BY <1>1, <1>5, FunctionIsSeq
<1>7. ASSUME NEW k \in DOMAIN ks
      PROVE  IsRow(ks[k]) /\ ks[k].type # "TRANSFER" /\ (ks[k].fee => FirstFee(f, i)) /\ (ks[k].fee => k = 1)
  <2>1. rs[k].type # "TRANSFER" /\ ks[k] = Row(rs[k].type, rs[k].recv, rs[k].sent, h(k), rs[k].about)
    BY <1>1, <1>4, <1>6 DEF Lines
  <2>2. IsRow(ks[k]) /\ ks[k].type = rs[k].type /\ ks[k].fee = h(k)
    BY <1>3, <2>1, RowIs
  <2>. QED
    BY <1>3, <2>1, <2>2
<1>8. Lines(ks, FirstFee(f, i)) /\ Once(ks)
  BY <1>6, <1>7 DEF Lines, Once
<1>. QED
  BY <1>6, <1>7, <1>8 DEF ks

\* A row for each of some coins.
LEMMA EachLine ==
  ASSUME NEW n \in Nat, NEW rs, rs = [k \in 1 .. n |-> rs[k]], NEW f,
         \A k \in 1 .. n : IsRow(rs[k]) /\ rs[k].type # "TRANSFER" /\ (rs[k].fee => f)
  PROVE  Lines(rs, f) /\ Len(rs) = n /\ (n <= 1 => Once(rs))
<1>1. IsSeq(rs) /\ Len(rs) = n /\ DOMAIN rs = 1 .. n
  BY FunctionIsSeq
<1>. QED
  BY <1>1 DEF Lines, Once

LEMMA RewardLines ==
  ASSUME NEW f \in BOOLEAN, NEW i, NEW coins, IsSeq(coins)
  PROVE  /\ Lines(RewardRows(f, i, coins), FirstFee(f, i))
         /\ Len(RewardRows(f, i, coins)) = Len(coins)
         /\ Len(coins) <= 1 => Once(RewardRows(f, i, coins))
<1> DEFINE rs == RewardRows(f, i, coins)
<1>1. Len(coins) \in Nat /\ DOMAIN coins = 1 .. Len(coins)
  BY IsSeqType
<1>2. rs = [k \in 1 .. Len(coins) |-> IbcRow("STAKING", f, i, coins[k], NoCoin)]
  BY <1>1 DEF RewardRows
<1>3. FirstFee(f, i) \in BOOLEAN
  BY DEF FirstFee
<1>4. \A k \in 1 .. Len(coins) : IsRow(rs[k]) /\ rs[k].type # "TRANSFER" /\ (rs[k].fee => FirstFee(f, i))
  <2>. TAKE k \in 1 .. Len(coins)
  <2>1. rs[k] = Row("STAKING", coins[k], NoCoin, FirstFee(f, i), 0)
    BY <1>2 DEF IbcRow
  <2>. HIDE DEF rs
  <2>. QED
    BY <1>3, <2>1, RowIs
<1>5. rs = [k \in 1 .. Len(coins) |-> rs[k]]
  BY <1>2
<1>. HIDE DEF rs
<1>6. Lines(rs, FirstFee(f, i)) /\ Len(rs) = Len(coins) /\ (Len(coins) <= 1 => Once(rs))
  BY <1>1, <1>4, <1>5, EachLine
<1>. QED
  BY <1>6 DEF rs

LEMMA LpDepositLines ==
  ASSUME NEW f \in BOOLEAN, NEW i, NEW lp, NEW out, IsSeq(out)
  PROVE  Lines(LpDepositRows(f, i, lp, out), FirstFee(f, i)) /\ Once(LpDepositRows(f, i, lp, out))
<1> DEFINE rs == [k \in DOMAIN out |-> IbcRow("LP_DEPOSIT", f, i, Share(lp, Len(out)), out[k])]
<1>1. Len(out) \in Nat /\ DOMAIN out = 1 .. Len(out)
  BY IsSeqType
<1>3. FirstFee(f, i) \in BOOLEAN
  BY DEF FirstFee
<1>4. \A k \in 1 .. Len(out) : IsRow(rs[k]) /\ rs[k].type # "TRANSFER" /\ (rs[k].fee => FirstFee(f, i))
  <2>. TAKE k \in 1 .. Len(out)
  <2>1. rs[k] = Row("LP_DEPOSIT", Share(lp, Len(out)), out[k], FirstFee(f, i), 0)
    BY <1>1 DEF IbcRow
  <2>. HIDE DEF rs
  <2>. QED
    BY <1>3, <2>1, RowIs
<1>5. rs = [k \in 1 .. Len(out) |-> rs[k]]
  BY <1>1
<1>6. LpDepositRows(f, i, lp, out) = FirstKeepsFee(rs)
  BY DEF LpDepositRows
<1>. HIDE DEF rs
<1>7. Lines(rs, FirstFee(f, i))
  BY <1>1, <1>4, <1>5, EachLine
<1>. QED
  BY <1>6, <1>7, FirstKeepsLines

LEMMA LpWithdrawLines ==
  ASSUME NEW f \in BOOLEAN, NEW i, NEW lp, NEW in, IsSeq(in)
  PROVE  Lines(LpWithdrawRows(f, i, lp, in), FirstFee(f, i)) /\ Once(LpWithdrawRows(f, i, lp, in))
<1> DEFINE rs == [k \in DOMAIN in |-> IbcRow("LP_WITHDRAW", f, i, in[k], Share(lp, Len(in)))]
<1>1. Len(in) \in Nat /\ DOMAIN in = 1 .. Len(in)
  BY IsSeqType
<1>3. FirstFee(f, i) \in BOOLEAN
  BY DEF FirstFee
<1>4. \A k \in 1 .. Len(in) : IsRow(rs[k]) /\ rs[k].type # "TRANSFER" /\ (rs[k].fee => FirstFee(f, i))
  <2>. TAKE k \in 1 .. Len(in)
  <2>1. rs[k] = Row("LP_WITHDRAW", in[k], Share(lp, Len(in)), FirstFee(f, i), 0)
    BY <1>1 DEF IbcRow
  <2>. HIDE DEF rs
  <2>. QED
    BY <1>3, <2>1, RowIs
<1>5. rs = [k \in 1 .. Len(in) |-> rs[k]]
  BY <1>1
<1>6. LpWithdrawRows(f, i, lp, in) = FirstKeepsFee(rs)
  BY DEF LpWithdrawRows
<1>. HIDE DEF rs
<1>7. Lines(rs, FirstFee(f, i))
  BY <1>1, <1>4, <1>5, EachLine
<1>. QED
  BY <1>6, <1>7, FirstKeepsLines

\* unknown_txs_detect_transfers
LEMMA DetectLines ==
  ASSUME NEW t, NEW n, IsSeq(n.in), IsSeq(n.out)
  PROVE  Lines(DetectRowsFrom(t, n), FALSE)
<1> DEFINE ins == [k \in DOMAIN n.in |-> Row("_UNKNOWN", n.in[k], NoCoin, FALSE, 0)]
           outs == [k \in DOMAIN n.out |-> Row("_UNKNOWN", NoCoin, n.out[k], FALSE, 0)]
           nothing == <<Row("_UNKNOWN", NoCoin, NoCoin, FALSE, 0)>>
           both == <<Row("_UNKNOWN", t.in[1], t.out[1], FALSE, 0)>>
<1>1. DetectRowsFrom(t, n) = IF None(t.in) /\ None(t.out) THEN nothing
                             ELSE IF Single(t.in) /\ Single(t.out) THEN both
                             ELSE outs \o ins
  BY DEF DetectRowsFrom
<1>2. /\ Len(n.in) \in Nat /\ DOMAIN n.in = 1 .. Len(n.in)
      /\ Len(n.out) \in Nat /\ DOMAIN n.out = 1 .. Len(n.out)
  BY IsSeqType
<1>3. Lines(ins, FALSE)
  <2>1. \A k \in 1 .. Len(n.in) : IsRow(ins[k]) /\ ins[k].type # "TRANSFER" /\ (ins[k].fee => FALSE)
    <3>. TAKE k \in 1 .. Len(n.in)
    <3> DEFINE r == Row("_UNKNOWN", n.in[k], NoCoin, FALSE, 0)
    <3>1. ins[k] = r
      BY <1>2
    <3>2. IsRow(r) /\ r.type = "_UNKNOWN" /\ ~r.fee
      BY DEF IsRow, Row
    <3>. HIDE DEF ins, r
    <3>. QED
      BY <3>1, <3>2
  <2>2. ins = [k \in 1 .. Len(n.in) |-> ins[k]]
    BY <1>2
  <2>. HIDE DEF ins
  <2>. QED
    BY <1>2, <2>1, <2>2, EachLine
<1>4. Lines(outs, FALSE)
  <2>1. \A k \in 1 .. Len(n.out) : IsRow(outs[k]) /\ outs[k].type # "TRANSFER" /\ (outs[k].fee => FALSE)
    <3>. TAKE k \in 1 .. Len(n.out)
    <3> DEFINE r == Row("_UNKNOWN", NoCoin, n.out[k], FALSE, 0)
    <3>1. outs[k] = r
      BY <1>2
    <3>2. IsRow(r) /\ r.type = "_UNKNOWN" /\ ~r.fee
      BY DEF IsRow, Row
    <3>. HIDE DEF outs, r
    <3>. QED
      BY <3>1, <3>2
  <2>2. outs = [k \in 1 .. Len(n.out) |-> outs[k]]
    BY <1>2
  <2>. HIDE DEF outs
  <2>. QED
    BY <1>2, <2>1, <2>2, EachLine
<1>5. Lines(nothing, FALSE) /\ Lines(both, FALSE)
  BY OneLine
<1>. HIDE DEF ins, outs, nothing, both
<1>6. Lines(outs \o ins, FALSE)
  BY <1>3, <1>4, LinesJoined
<1>. QED
  BY <1>1, <1>5, <1>6

LEMMA DetectedLines ==
  ASSUME NEW m \in Messages, NEW f \in BOOLEAN, NEW i, NEW left
  PROVE  /\ Lines(Detected(f, i, m, left), FirstFee(f, i)) /\ Once(Detected(f, i, m, left))
         /\ Lines(IngestRows(f, i, DetectRows(m)), FirstFee(f, i)) /\ Once(IngestRows(f, i, DetectRows(m)))
         /\ \A k \in DOMAIN IngestRows(f, i, DetectRows(m)) : IngestRows(f, i, DetectRows(m))[k].fee => k = 1
<1> DEFINE t == Transfers(m)
           n == TransfersNet(Transfers(m))
<1>1. IsSeq(t.in) /\ IsSeq(t.out)
  BY TransfersType DEF AreTransfers
<1>2. IsSeq(n.in) /\ IsSeq(n.out)
  BY <1>1, NetSeq
<1>. HIDE DEF n
<1>3. Lines(DetectRowsFrom(left, n), FALSE) /\ Lines(DetectRowsFrom(t, n), FALSE)
  BY <1>2, DetectLines
<1>. QED
  BY <1>3, IngestLines DEF Detected, DetectRows, n

-----------------------------------------------------------------------------
(* What a handler returns *)

\* Rows of message i may show the fee.
Shows(f, i, repeats) == f /\ (i = 0 \/ repeats)

\* The result of a handler that was given fee f: repeats says whether its rows may show
\* the fee whatever the index of the message, one whether they show it once.
Tidy(result, f, i, repeats, one) ==
  /\ IsSeq(result.rows)
  /\ result.fee \in BOOLEAN /\ result.raised \in BOOLEAN
  /\ result.fee => f
  /\ \A k \in DOMAIN result.rows :
       /\ result.rows[k].fee => Shows(f, i, repeats)
       /\ result.rows[k].type = "TRANSFER" => result.rows[k].about = 0
       /\ Receipt(result.rows[k]) => ~result.fee
  /\ \A j, k \in DOMAIN result.rows : j < k /\ Receipt(result.rows[j]) => ~result.rows[k].fee
  /\ one => Once(result.rows) /\ (result.raised => result.rows = <<>>)

LEMMA TidyLines ==
  ASSUME NEW f \in BOOLEAN, NEW i, NEW repeats \in BOOLEAN, NEW one \in BOOLEAN, NEW g, g => Shows(f, i, repeats),
         NEW rs, Lines(rs, g), one => Once(rs)
  PROVE  /\ Tidy(Ingested(rs, f), f, i, repeats, one)
         /\ ~one => Tidy([rows |-> rs, fee |-> f, raised |-> TRUE], f, i, repeats, one)
<1>1. IsSeq(rs) /\ \A k \in DOMAIN rs : (rs[k].fee => g) /\ rs[k].type # "TRANSFER"
  BY DEF Lines
<1>2. ASSUME NEW result, result.rows = rs, result.fee = f, result.raised \in BOOLEAN, result.raised => ~one
      PROVE  Tidy(result, f, i, repeats, one)
  BY <1>1, <1>2 DEF Tidy, Receipt
<1>3. Ingested(rs, f).rows = rs /\ Ingested(rs, f).fee = f /\ Ingested(rs, f).raised = FALSE
  BY DEF Ingested
<1> DEFINE wrong == [rows |-> rs, fee |-> f, raised |-> TRUE]
<1>4. wrong.rows = rs /\ wrong.fee = f /\ wrong.raised = TRUE
  OBVIOUS
<1>. HIDE DEF wrong
<1>5. Tidy(Ingested(rs, f), f, i, repeats, one)
  BY <1>2, <1>3
<1>6. ~one => Tidy(wrong, f, i, repeats, one)
  BY <1>2, <1>4
<1>. QED
  BY <1>5, <1>6 DEF wrong

LEMMA TidyRaised ==
  ASSUME NEW f \in BOOLEAN, NEW g \in BOOLEAN, g => f, NEW i, NEW repeats \in BOOLEAN, NEW one \in BOOLEAN
  PROVE  Tidy(Raised(g), f, i, repeats, one)
<1>1. Raised(g).rows = <<>> /\ Raised(g).fee = g /\ Raised(g).raised = TRUE
  BY DEF Raised
<1>. HIDE DEF Raised
<1>2. DOMAIN <<>> = {} /\ IsSeq(<<>>) /\ Once(<<>>)
  BY EmptyIsSeq DEF Once
<1>. QED
  BY <1>1, <1>2 DEF Tidy

LEMMA SubSeqIs ==
  ASSUME NEW s, IsSeq(s), NEW a \in Int, a > 0, NEW b \in Int, b <= Len(s)
  PROVE  IsSeq(SubSeq(s, a, b)) /\ \A k \in DOMAIN SubSeq(s, a, b) : \E j \in DOMAIN s : SubSeq(s, a, b)[k] = s[j]
<1> DEFINE X == {s[k] : k \in DOMAIN s}
<1>1. s \in Seq(X) /\ Len(s) \in Nat /\ DOMAIN s = 1 .. Len(s)
  BY IsSeqType
<1>. HIDE DEF X
<1>2. SubSeq(s, a, b) \in Seq(X)
  BY <1>1
<1>3. IsSeq(SubSeq(s, a, b))
  BY <1>2, IsSeqOf
<1>4. \A k \in DOMAIN SubSeq(s, a, b) : SubSeq(s, a, b)[k] \in X
  BY <1>2
<1>. QED
  BY <1>3, <1>4 DEF X

LEMMA RemoveFirstIs ==
  ASSUME NEW s, IsSeq(s), NEW e
  PROVE  IsSeq(RemoveFirst(s, e))
<1>1. Len(s) \in Nat /\ DOMAIN s = 1 .. Len(s)
  BY IsSeqType
<1>2. CASE ~ \E i \in 1 .. Len(s) : s[i] = e
  BY <1>2 DEF RemoveFirst
<1>3. CASE \E i \in 1 .. Len(s) : s[i] = e
  <2> DEFINE I == {i \in 1 .. Len(s) : s[i] = e}
             least == CHOOSE i \in I : \A j \in I : i <= j
  <2>1. RemoveFirst(s, e) = SubSeq(s, 1, least - 1) \o SubSeq(s, least + 1, Len(s))
    BY <1>3 DEF RemoveFirst, RemoveAt, SelectInSeq, Min
  <2>2. least \in I
    <3>1. I # {} /\ I \in SUBSET Nat
      BY <1>3
    <3>. HIDE DEF I
    <3>2. \E i \in I : \A j \in I : i <= j
      BY <3>1, LeastNat
    <3>. QED
      BY <3>2
  <2>. HIDE DEF least
  <2>3. least \in 1 .. Len(s)
    BY <2>2
  <2>4. IsSeq(SubSeq(s, 1, least - 1))
    <3>1. 1 \in Int /\ 1 > 0 /\ least - 1 \in Int /\ least - 1 <= Len(s)
      BY <1>1, <2>3
    <3>. QED
      BY <3>1, SubSeqIs
  <2>5. IsSeq(SubSeq(s, least + 1, Len(s)))
    <3>1. least + 1 \in Int /\ least + 1 > 0 /\ Len(s) \in Int /\ Len(s) <= Len(s)
      BY <1>1, <2>3
    <3>. QED
      BY <3>1, SubSeqIs
  <2>. QED
    BY <2>1, <2>4, <2>5, Joined
<1>. QED
  BY <1>2, <1>3

LEMMA TidyFirst ==
  ASSUME NEW f \in BOOLEAN, NEW i, NEW repeats \in BOOLEAN, NEW one \in BOOLEAN,
         NEW rs, Lines(rs, FirstFee(f, i)), one => Once(rs)
  PROVE  /\ Tidy(Ingested(rs, f), f, i, repeats, one)
         /\ ~one => Tidy([rows |-> rs, fee |-> f, raised |-> TRUE], f, i, repeats, one)
<1>1. FirstFee(f, i) => Shows(f, i, repeats)
  BY DEF FirstFee, Shows
<1>. QED
  BY <1>1, TidyLines

\* One row of _make_tx.
LEMMA TidyIbcRow ==
  ASSUME NEW f \in BOOLEAN, NEW i, NEW repeats \in BOOLEAN, NEW one \in BOOLEAN,
         NEW type, type # "TRANSFER", NEW recv, NEW sent
  PROVE  Tidy(Ingested(<<IbcRow(type, f, i, recv, sent)>>, f), f, i, repeats, one)
<1>1. FirstFee(f, i) \in BOOLEAN
  BY DEF FirstFee
<1> DEFINE rs == <<Row(type, recv, sent, FirstFee(f, i), 0)>>
<1>2. Lines(rs, FirstFee(f, i)) /\ Once(rs)
  BY <1>1, OneLine
<1>3. <<IbcRow(type, f, i, recv, sent)>> = rs
  BY DEF IbcRow
<1>. HIDE DEF rs
<1>. QED
  BY <1>2, <1>3, TidyFirst

\* One row that shows the fee, whatever the message, if repeats.
LEMMA TidyRow ==
  ASSUME NEW f \in BOOLEAN, NEW i, NEW repeats \in BOOLEAN, i = 0 \/ repeats, NEW one \in BOOLEAN,
         NEW type, type # "TRANSFER", NEW recv, NEW sent
  PROVE  Tidy(Ingested(<<Row(type, recv, sent, f, 0)>>, f), f, i, repeats, one)
<1> DEFINE rs == <<Row(type, recv, sent, f, 0)>>
<1>1. Lines(rs, f) /\ Once(rs)
  BY OneLine
<1>2. f => Shows(f, i, repeats)
  BY DEF Shows
<1>. HIDE DEF rs
<1>3. Tidy(Ingested(rs, f), f, i, repeats, one)
  BY <1>1, <1>2, TidyLines
<1>. QED
  BY <1>3 DEF rs

LEMMA TidyNone ==
  ASSUME NEW f \in BOOLEAN, NEW i, NEW repeats \in BOOLEAN, NEW one \in BOOLEAN
  PROVE  Tidy(Ingested(<<>>, f), f, i, repeats, one)
  BY NoLines, TidyFirst

LEMMA TidySimple ==
  ASSUME NEW f \in BOOLEAN, NEW i, NEW repeats \in BOOLEAN, NEW one \in BOOLEAN, NEW m, m.type # "TRANSFER"
  PROVE  /\ Tidy(Ingested(<<SimpleRow(f, i, m)>>, f), f, i, repeats, one)
         /\ Tidy(Ingested(<<UnknownRow(f, i)>>, f), f, i, repeats, one)
         /\ i = 0 \/ repeats => Tidy(Ingested(<<SpendFeeRow(f)>>, f), f, i, repeats, one)
<1>1. Tidy(Ingested(<<SimpleRow(f, i, m)>>, f), f, i, repeats, one)
  BY TidyIbcRow DEF SimpleRow
<1>2. Tidy(Ingested(<<UnknownRow(f, i)>>, f), f, i, repeats, one)
  BY TidyIbcRow DEF UnknownRow
<1>3. i = 0 \/ repeats => Tidy(Ingested(<<SpendFeeRow(f)>>, f), f, i, repeats, one)
  BY TidyRow DEF SpendFeeRow
<1>. QED
  BY <1>1, <1>2, <1>3

\* A handler that was given no fee.
LEMMA TidyFree ==
  ASSUME NEW f \in BOOLEAN, NEW i, NEW repeats \in BOOLEAN, NEW one \in BOOLEAN,
         NEW result, Tidy(result, FALSE, i, repeats, FALSE), result.raised => result.rows = <<>>
  PROVE  Tidy(result, f, i, repeats, one)
<1>1. \A k \in DOMAIN result.rows : ~result.rows[k].fee
  BY DEF Tidy, Shows
<1>. QED
  BY <1>1 DEF Tidy, Once

-----------------------------------------------------------------------------
(* The handlers of common/ibc *)

\* What comes in by a transfer clears the fee; what goes out shows what is left of it.
Outgoing(outs, left) ==
  /\ IsSeq(outs)
  /\ \A k \in DOMAIN outs :
       /\ outs[k].type = "TRANSFER" /\ outs[k].recv = NoCoin /\ outs[k].about = 0
       /\ outs[k].fee => left

LEMMA InRowsAre ==
  ASSUME NEW coins, IsSeq(coins)
  PROVE  /\ IsSeq(InRows(coins)) /\ Len(InRows(coins)) = Len(coins)
         /\ \A k \in DOMAIN InRows(coins) : ~InRows(coins)[k].fee /\ InRows(coins)[k].about = 0
<1> DEFINE rs == InRows(coins)
<1>1. Len(coins) \in Nat /\ DOMAIN coins = 1 .. Len(coins)
  BY IsSeqType
<1>2. rs = [k \in 1 .. Len(coins) |-> TransferInRow(coins[k])]
  BY <1>1 DEF InRows
<1>3. \A k \in 1 .. Len(coins) : ~rs[k].fee /\ rs[k].about = 0
  BY <1>2 DEF TransferInRow, Row
<1>4. rs = [k \in 1 .. Len(coins) |-> rs[k]]
  BY <1>2
<1>. HIDE DEF rs
<1>5. IsSeq(rs) /\ Len(rs) = Len(coins) /\ DOMAIN rs = 1 .. Len(coins)
  BY <1>1, <1>4, FunctionIsSeq
<1>. QED
  BY <1>3, <1>5 DEF rs

LEMMA OutRowsAre ==
  ASSUME NEW coins, IsSeq(coins), NEW left \in BOOLEAN
  PROVE  Outgoing(OutRows(left, coins), left) /\ (Len(coins) <= 1 => Once(OutRows(left, coins)))
<1> DEFINE rs == OutRows(left, coins)
<1>1. Len(coins) \in Nat /\ DOMAIN coins = 1 .. Len(coins)
  BY IsSeqType
<1>2. rs = [k \in 1 .. Len(coins) |-> TransferOutRow(left, coins[k])]
  BY <1>1 DEF OutRows
<1>3. \A k \in 1 .. Len(coins) : rs[k].type = "TRANSFER" /\ rs[k].recv = NoCoin /\ rs[k].about = 0 /\ (rs[k].fee => left)
  BY <1>2 DEF TransferOutRow, Row
<1>4. rs = [k \in 1 .. Len(coins) |-> rs[k]]
  BY <1>2
<1>. HIDE DEF rs
<1>5. IsSeq(rs) /\ Len(rs) = Len(coins) /\ DOMAIN rs = 1 .. Len(coins)
  BY <1>1, <1>4, FunctionIsSeq
<1>6. Len(coins) <= 1 => Once(rs)
  BY <1>1, <1>5 DEF Once
<1>. QED
  BY <1>3, <1>5, <1>6 DEF rs, Outgoing

LEMMA TidyTransfers ==
  ASSUME NEW f \in BOOLEAN, NEW i, NEW repeats \in BOOLEAN, repeats, NEW one \in BOOLEAN,
         NEW coins, IsSeq(coins), NEW left \in BOOLEAN, left => f /\ None(coins),
         NEW outs, Outgoing(outs, left), one => Once(outs)
  PROVE  Tidy(Ingested(InRows(coins) \o outs, left), f, i, repeats, one)
<1> DEFINE ins == InRows(coins)
           rs == ins \o outs
<1>1. /\ IsSeq(ins) /\ Len(ins) = Len(coins)
      /\ \A k \in DOMAIN ins : ~ins[k].fee /\ ins[k].about = 0
  BY InRowsAre
<1>2. IsSeq(outs) /\ Len(outs) \in Nat /\ DOMAIN outs = 1 .. Len(outs)
  BY IsSeqType DEF Outgoing
<1>. HIDE DEF ins
<1>3. Len(ins) \in Nat /\ DOMAIN ins = 1 .. Len(ins)
  BY <1>1, IsSeqType
<1>4. /\ IsSeq(rs) /\ DOMAIN rs = 1 .. (Len(ins) + Len(outs))
      /\ \A k \in 1 .. Len(ins) : rs[k] = ins[k]
      /\ \A k \in (Len(ins) + 1) .. (Len(ins) + Len(outs)) : k - Len(ins) \in DOMAIN outs /\ rs[k] = outs[k - Len(ins)]
  BY <1>1, <1>2, Joined
<1>. HIDE DEF rs
<1>5. \A k \in DOMAIN rs : k \in 1 .. Len(ins) \/ k \in (Len(ins) + 1) .. (Len(ins) + Len(outs))
  BY <1>2, <1>3, <1>4
<1>6. ASSUME NEW k \in DOMAIN rs
      PROVE  /\ rs[k].about = 0
             /\ rs[k].fee => left /\ k > Len(ins)
             /\ Receipt(rs[k]) => Len(ins) # 0 /\ k <= Len(ins)
  <2>1. CASE k \in 1 .. Len(ins)
    <3>1. rs[k] = ins[k] /\ ~ins[k].fee /\ ins[k].about = 0
      BY <1>1, <1>3, <1>4, <2>1
    <3>. QED
      BY <1>3, <2>1, <3>1
  <2>2. CASE k \in (Len(ins) + 1) .. (Len(ins) + Len(outs))
    <3>1. k - Len(ins) \in DOMAIN outs /\ rs[k] = outs[k - Len(ins)]
      BY <1>4, <2>2
    <3>2. rs[k].recv = NoCoin /\ rs[k].about = 0 /\ (rs[k].fee => left)
      BY <3>1 DEF Outgoing
    <3>. QED
      BY <1>2, <1>3, <2>2, <3>2 DEF Receipt
  <2>. QED
    BY <1>5, <2>1, <2>2
<1>7. left => Len(ins) = 0
  BY <1>1 DEF None
<1>8. Once(outs) => Once(rs)
  <2>. SUFFICES ASSUME Once(outs), NEW j \in DOMAIN rs, NEW k \in DOMAIN rs, rs[j].fee, rs[k].fee
                PROVE  j = k
    BY DEF Once
  <2>1. /\ j \in (Len(ins) + 1) .. (Len(ins) + Len(outs))
        /\ k \in (Len(ins) + 1) .. (Len(ins) + Len(outs))
    BY <1>2, <1>3, <1>4, <1>6
  <2>2. j - Len(ins) = k - Len(ins)
    BY <1>4, <2>1 DEF Once
  <2>. QED
    BY <1>3, <2>1, <2>2
<1> DEFINE result == Ingested(rs, left)
<1>9. result.rows = rs /\ result.fee = left /\ result.raised = FALSE
  BY DEF Ingested
<1>. HIDE DEF result
<1>10. IsSeq(rs) /\ DOMAIN rs = 1 .. (Len(ins) + Len(outs))
  BY <1>4
<1>11. \A k \in DOMAIN rs : rs[k].fee => Shows(f, i, repeats)
  BY <1>6 DEF Shows
<1>12. \A k \in DOMAIN rs : Receipt(rs[k]) => ~left
  BY <1>6, <1>7
<1>13. \A j, k \in DOMAIN rs : j < k /\ Receipt(rs[j]) => ~rs[k].fee
  BY <1>6, <1>7
<1>14. Tidy(result, f, i, repeats, one)
  BY <1>6, <1>8, <1>9, <1>10, <1>11, <1>12, <1>13 DEF Tidy
<1>. QED
  BY <1>14 DEF result, rs, ins

\* Only what comes in, or only what goes out.
LEMMA TidyIn ==
  ASSUME NEW f \in BOOLEAN, NEW i, NEW repeats \in BOOLEAN, NEW one \in BOOLEAN, NEW coins, IsSeq(coins)
  PROVE  Tidy(Ingested(InRows(coins), FALSE), f, i, repeats, one)
<1> DEFINE rs == InRows(coins)
<1>1. IsSeq(rs) /\ \A k \in DOMAIN rs : ~rs[k].fee /\ rs[k].about = 0
  BY InRowsAre
<1>. HIDE DEF rs
<1> DEFINE result == Ingested(rs, FALSE)
<1>2. result.rows = rs /\ result.fee = FALSE /\ result.raised = FALSE
  BY DEF Ingested
<1>. HIDE DEF result
<1>3. Tidy(result, f, i, repeats, one)
  BY <1>1, <1>2 DEF Tidy, Once
<1>. QED
  BY <1>3 DEF result, rs

LEMMA TidyOut ==
  ASSUME NEW f \in BOOLEAN, NEW i, NEW repeats \in BOOLEAN, NEW one \in BOOLEAN,
         NEW outs, NEW left \in BOOLEAN, left => Shows(f, i, repeats), Outgoing(outs, left), one => Once(outs)
  PROVE  Tidy(Ingested(outs, f), f, i, repeats, one)
<1> DEFINE result == Ingested(outs, f)
<1>1. result.rows = outs /\ result.fee = f /\ result.raised = FALSE
  BY DEF Ingested
<1>. HIDE DEF result
<1>2. /\ IsSeq(outs)
      /\ \A k \in DOMAIN outs : (outs[k].fee => Shows(f, i, repeats)) /\ outs[k].about = 0 /\ ~Receipt(outs[k])
  BY DEF Outgoing, Receipt
<1>3. Tidy(result, f, i, repeats, one)
  BY <1>1, <1>2 DEF Tidy
<1>. QED
  BY <1>3 DEF result

LEMMA SimpleTidy ==
  ASSUME NEW f \in BOOLEAN, NEW i, NEW repeats \in BOOLEAN, repeats, NEW one \in BOOLEAN, NEW m, m.type # "TRANSFER"
  PROVE  Tidy(HandleSimple(f, i, m), f, i, repeats, one)
<1>1. HandleSimple(f, i, m) = IF f THEN Ingested(<<SpendFeeRow(f)>>, f) ELSE Ingested(<<SimpleRow(f, i, m)>>, f)
  BY DEF HandleSimple
<1>. QED
  BY <1>1, TidySimple

LEMMA ProposalTidy ==
  ASSUME NEW f \in BOOLEAN, NEW i, NEW repeats \in BOOLEAN, repeats, NEW one \in BOOLEAN, NEW m, m.type # "TRANSFER"
  PROVE  Tidy(HandleProposal(f, i, m), f, i, repeats, one)
<1>1. CASE None(Transfers(m).in) /\ Single(Transfers(m).out)
  BY <1>1, TidyIbcRow DEF HandleProposal
<1>2. CASE ~(None(Transfers(m).in) /\ Single(Transfers(m).out))
  BY <1>2, SimpleTidy DEF HandleProposal
<1>. QED
  BY <1>1, <1>2

LEMMA StakingTidy ==
  ASSUME NEW f \in BOOLEAN, NEW i, NEW repeats \in BOOLEAN, NEW one \in BOOLEAN, NEW m \in Messages, m.type # "TRANSFER"
  PROVE  Tidy(HandleStaking(f, i, m), f, i, repeats, one)
<1> DEFINE in == Transfers(m).in
           curs == CurrenciesOf(in)
           still == \A k \in DOMAIN in : in[k].amt = 0
           h(k) == FirstFee(f /\ k = 1, i)
           rs == [k \in DOMAIN curs |-> IbcRow("STAKING", f /\ k = 1, i, [amt |-> Total(in, curs[k]), cur |-> curs[k]], NoCoin)]
<1>1. HandleStaking(f, i, m) = IF "broken" \in m.flags THEN Raised(f)
                               ELSE IF still THEN Ingested(<<SimpleRow(f, i, m)>>, f)
                               ELSE Ingested(rs, f)
  BY DEF HandleStaking
<1>2. IsSeq(curs)
  BY TransfersType, CurrenciesSeq DEF AreTransfers
<1>3. Len(curs) \in Nat /\ DOMAIN curs = 1 .. Len(curs)
  BY <1>2, IsSeqType
<1>4. \A k : h(k) \in BOOLEAN /\ (h(k) => FirstFee(f, i)) /\ (h(k) => k = 1)
  BY DEF FirstFee
<1>. HIDE DEF curs, in, still, h
<1>5. \A k \in 1 .. Len(curs) : IsRow(rs[k]) /\ rs[k].type # "TRANSFER" /\ (rs[k].fee => FirstFee(f, i)) /\ (rs[k].fee => k = 1)
  <2>. TAKE k \in 1 .. Len(curs)
  <2>1. rs[k] = Row("STAKING", [amt |-> Total(in, curs[k]), cur |-> curs[k]], NoCoin, h(k), 0)
    BY <1>3 DEF IbcRow, h
  <2>2. h(k) \in BOOLEAN
    BY <1>4
  <2>. HIDE DEF rs
  <2>3. IsRow(rs[k]) /\ rs[k].type = "STAKING" /\ rs[k].fee = h(k)
    BY <2>1, <2>2, RowIs
  <2>. QED
    BY <1>4, <2>3
<1>6. rs = [k \in 1 .. Len(curs) |-> rs[k]]
  BY <1>3
<1>. HIDE DEF rs
<1>7. Lines(rs, FirstFee(f, i)) /\ Once(rs)
  <2>1. Lines(rs, FirstFee(f, i))
    BY <1>3, <1>5, <1>6, EachLine
  <2>2. DOMAIN rs = 1 .. Len(curs)
    BY <1>6
  <2>. QED
    BY <1>5, <2>1, <2>2 DEF Once
<1>8. Tidy(Ingested(rs, f), f, i, repeats, one)
  BY <1>7, TidyFirst
<1>9. Tidy(Raised(f), f, i, repeats, one) /\ Tidy(Ingested(<<SimpleRow(f, i, m)>>, f), f, i, repeats, one)
  BY TidyRaised, TidySimple
<1>. QED
  BY <1>1, <1>8, <1>9

\* Of one flow, either what comes in or what goes out is none.
LEMMA OneFlow ==
  ASSUME NEW m \in Messages, Len(m.flows) <= 1
  PROVE  Len(TransfersEvent(m).in) + Len(TransfersEvent(m).out) <= 1
<1>1. m.flows \in Seq(Flows) /\ IsSeq(m.flows) /\ Len(m.flows) \in Nat /\ DOMAIN m.flows = 1 .. Len(m.flows)
  BY MessageType, IsSeqType
<1> DEFINE I == Inward(m)
           O == Outward(m) \ Inward(m)
           in == CoinsAt(m, I)
           out == CoinsAt(m, O)
<1>2. I \in SUBSET DOMAIN m.flows /\ O \in SUBSET DOMAIN m.flows
  BY DEF Inward, Outward
<1>3. I = {} \/ O = {}
  <2>1. \A a, b \in DOMAIN m.flows : a = b
    BY <1>1
  <2>. QED
    BY <1>2, <2>1
<1>. HIDE DEF I, O
<1>4. /\ IsSeq(in) /\ Len(in) <= Len(m.flows) /\ (I = {} => DOMAIN in = {})
      /\ IsSeq(out) /\ Len(out) <= Len(m.flows) /\ (O = {} => DOMAIN out = {})
  BY <1>2, CoinsAtSeq
<1>. HIDE DEF in, out
<1>5. /\ Len(in) \in Nat /\ (DOMAIN in = {} => Len(in) = 0)
      /\ Len(out) \in Nat /\ (DOMAIN out = {} => Len(out) = 0)
  BY <1>4, IsSeqType
<1>6. Len(in) + Len(out) <= 1
  BY <1>1, <1>3, <1>4, <1>5
<1>7. CASE m.type = "MsgMultiSend"
  BY <1>7 DEF TransfersEvent
<1>8. CASE m.type # "MsgMultiSend"
  BY <1>6, <1>8 DEF TransfersEvent, in, out, I, O
<1>. QED
  BY <1>7, <1>8

LEMMA TransferTidy ==
  ASSUME NEW f \in BOOLEAN, NEW i, NEW repeats \in BOOLEAN, repeats, NEW one \in BOOLEAN, NEW m \in Messages,
         one => Len(m.flows) <= 1
  PROVE  Tidy(HandleTransfer(f, i, m), f, i, repeats, one)
<1> DEFINE t == TransfersEvent(m)
           n == IF Len(t.in \o t.out) > 1 THEN TransfersNet(t) ELSE t
           left == f /\ None(n.in)
<1>1. IsSeq(t.in) /\ IsSeq(t.out)
  BY TransfersType DEF AreTransfers
<1>2. Len(t.in \o t.out) = Len(t.in) + Len(t.out) /\ Len(t.in) \in Nat /\ Len(t.out) \in Nat
  BY <1>1, Joined, IsSeqType
<1>3. one => n = t /\ Len(t.out) <= 1
  <2>. SUFFICES ASSUME one PROVE n = t /\ Len(t.out) <= 1
    OBVIOUS
  <2>1. Len(t.in) + Len(t.out) <= 1
    BY OneFlow
  <2>2. \A a, b \in Nat : \A c : c = a + b /\ a + b <= 1 => ~(c > 1) /\ b <= 1
    OBVIOUS
  <2>. HIDE DEF t
  <2>3. ~(Len(t.in \o t.out) > 1) /\ Len(t.out) <= 1
    BY <1>2, <2>1, <2>2, Zenon
  <2>. QED
    BY <2>3
<1>4. HandleTransfer(f, i, m) = IF "self" \in m.flags THEN Ingested(<<IbcRow("_SELF_TRANSFER", f, i, NoCoin, NoCoin)>>, f)
                                ELSE Ingested(InRows(n.in) \o OutRows(left, n.out), left)
  BY DEF HandleTransfer
<1>5. IsSeq(n.in) /\ IsSeq(n.out)
  BY <1>1, NetSeq
<1>. HIDE DEF n, t
<1>6. left \in BOOLEAN /\ (left => f /\ None(n.in))
  BY DEF None
<1>. HIDE DEF left
<1>7. Outgoing(OutRows(left, n.out), left) /\ (one => Once(OutRows(left, n.out)))
  BY <1>3, <1>5, <1>6, OutRowsAre
<1>8. Tidy(Ingested(InRows(n.in) \o OutRows(left, n.out), left), f, i, repeats, one)
  BY <1>5, <1>6, <1>7, TidyTransfers
<1>9. Tidy(Ingested(<<IbcRow("_SELF_TRANSFER", f, i, NoCoin, NoCoin)>>, f), f, i, repeats, one)
  BY TidyIbcRow
<1>. QED
  BY <1>4, <1>8, <1>9

LEMMA MultisendTidy ==
  ASSUME NEW f \in BOOLEAN, NEW i, NEW repeats \in BOOLEAN, repeats, NEW one \in BOOLEAN, NEW m \in Messages
  PROVE  Tidy(HandleMultisend(f, i, m), f, i, repeats, one)
<1> DEFINE t == Transfers(m)
           left == f /\ None(t.in)
           h(k) == left /\ k = 1
           outs == [k \in DOMAIN t.out |-> TransferOutRow(h(k), t.out[k])]
<1>1. IsSeq(t.in) /\ IsSeq(t.out)
  BY TransfersType DEF AreTransfers
<1>2. Len(t.out) \in Nat /\ DOMAIN t.out = 1 .. Len(t.out)
  BY <1>1, IsSeqType
<1>3. HandleMultisend(f, i, m) = Ingested(InRows(t.in) \o outs, left)
  BY DEF HandleMultisend
<1>. HIDE DEF t
<1>4. left \in BOOLEAN /\ (left => f /\ None(t.in))
  BY DEF None
<1>5. \A k : h(k) \in BOOLEAN /\ (h(k) => left) /\ (h(k) => k = 1)
  BY <1>4
<1>. HIDE DEF h
<1>6. \A k \in 1 .. Len(t.out) :
        outs[k].type = "TRANSFER" /\ outs[k].recv = NoCoin /\ outs[k].about = 0 /\ (outs[k].fee => left) /\ (outs[k].fee => k = 1)
  <2>. TAKE k \in 1 .. Len(t.out)
  <2>1. outs[k] = Row("TRANSFER", NoCoin, t.out[k], h(k), 0)
    BY <1>2 DEF TransferOutRow
  <2>2. h(k) \in BOOLEAN
    BY <1>5
  <2>. HIDE DEF outs, left
  <2>3. outs[k].type = "TRANSFER" /\ outs[k].recv = NoCoin /\ outs[k].about = 0 /\ outs[k].fee = h(k)
    BY <2>1, <2>2, RowIs
  <2>. QED
    BY <1>5, <2>3
<1>7. outs = [k \in 1 .. Len(t.out) |-> outs[k]]
  BY <1>2
<1>. HIDE DEF outs, left
<1>8. IsSeq(outs) /\ DOMAIN outs = 1 .. Len(t.out)
  BY <1>2, <1>7, FunctionIsSeq
<1>9. Outgoing(outs, left) /\ Once(outs)
  BY <1>6, <1>8 DEF Outgoing, Once
<1>. QED
  BY <1>1, <1>3, <1>4, <1>9, TidyTransfers DEF t

\* The fee is cleared before anything is told.
LEMMA ExecTidy ==
  ASSUME NEW f \in BOOLEAN, NEW i, NEW repeats \in BOOLEAN, NEW one \in BOOLEAN, NEW m \in Messages, m.type # "TRANSFER"
  PROVE  Tidy(HandleExec(f, i, m), f, i, repeats, one)
<1>1. Tidy(Raised(FALSE), f, i, repeats, one)
  BY TidyRaised
<1>2. Tidy(Ingested(<<UnknownRow(FALSE, i)>>, FALSE), FALSE, i, repeats, one)
  BY TidySimple
<1>3. Tidy(Ingested(<<>>, FALSE), FALSE, i, repeats, one)
  BY TidyNone
<1>4. Tidy(HandleStaking(FALSE, i, m), FALSE, i, repeats, one)
  BY StakingTidy
<1>5. ASSUME NEW result, Tidy(result, FALSE, i, repeats, one)
      PROVE  Tidy(result, f, i, repeats, one)
  BY <1>5 DEF Tidy, Shows
<1>. QED
  BY <1>1, <1>2, <1>3, <1>4, <1>5 DEF HandleExec

LEMMA GrantTidy ==
  ASSUME NEW f \in BOOLEAN, NEW i, NEW repeats \in BOOLEAN, NEW one \in BOOLEAN, NEW m, m.type # "TRANSFER"
  PROVE  Tidy(HandleGrant(f, i, m), f, i, repeats, one) /\ Tidy(HandleSilent(f, i, m), f, i, repeats, one)
<1>1. Tidy(HandleSilent(f, i, m), f, i, repeats, one)
  BY TidyNone DEF HandleSilent
<1>2. Tidy(HandleGrant(f, i, m), f, i, repeats, one)
  <2>1. CASE i = 0
    BY <2>1, TidySimple DEF HandleGrant
  <2>2. CASE i # 0
    BY <2>2, TidyNone DEF HandleGrant
  <2>. QED
    BY <2>1, <2>2
<1>. QED
  BY <1>1, <1>2

LEMMA UnknownTidy ==
  ASSUME NEW f \in BOOLEAN, NEW i, NEW repeats \in BOOLEAN, NEW one \in BOOLEAN, NEW m \in Messages
  PROVE  Tidy(HandleUnknownDetectTransfers(f, i, m), f, i, repeats, one)
<1>1. Lines(IngestRows(f, i, DetectRows(m)), FirstFee(f, i)) /\ Once(IngestRows(f, i, DetectRows(m)))
  BY DetectedLines
<1>. QED
  BY <1>1, TidyFirst DEF HandleUnknownDetectTransfers

-----------------------------------------------------------------------------
(* The handlers of the chains *)

LEMMA LiquidStakeTidy ==
  ASSUME NEW f \in BOOLEAN, NEW i, NEW repeats \in BOOLEAN, NEW one \in BOOLEAN, NEW m \in Messages,
         one => Len(Transfers(m).in) <= 1
  PROVE  Tidy(HandleLiquidStake(f, i, m), f, i, repeats, one)
<1> DEFINE t == Transfers(m)
           n == TransfersNet(t)
           strd == {k \in DOMAIN n.in : n.in[k].cur = "STRD"}
           claim == CHOOSE k \in strd : TRUE
           swap == <<IbcRow("TRADE", f, i, t.in[1], t.out[1])>>
           both == <<IbcRow("STAKING", f, i, n.in[claim], NoCoin), IbcRow("TRADE", f, i, n.in[3 - claim], n.out[1])>>
           two == Len(t.in) > 1 /\ Single(t.out) /\ Len(n.in) = 2 /\ Single(n.out) /\ strd # {}
<1>1. HandleLiquidStake(f, i, m) = IF Single(t.in) /\ Single(t.out) THEN Ingested(swap, f)
                                   ELSE IF two THEN Ingested(both, f) ELSE Raised(f)
  BY DEF HandleLiquidStake
<1>2. Tidy(Ingested(swap, f), f, i, repeats, one) /\ Tidy(Raised(f), f, i, repeats, one)
  BY TidyIbcRow, TidyRaised
<1>3. two => Len(t.in) > 1
  OBVIOUS
<1>4. Lines(both, FirstFee(f, i))
  <2> DEFINE claimed == Row("STAKING", n.in[claim], NoCoin, FirstFee(f, i), 0)
             traded == Row("TRADE", n.in[3 - claim], n.out[1], FirstFee(f, i), 0)
  <2>1. both = <<claimed>> \o <<traded>>
    BY DEF IbcRow
  <2>2. FirstFee(f, i) \in BOOLEAN
    BY DEF FirstFee
  <2>3. Lines(<<claimed>>, FirstFee(f, i)) /\ Lines(<<traded>>, FirstFee(f, i))
    BY <2>2, OneLine
  <2>. HIDE DEF claimed, traded, both
  <2>. QED
    BY <2>1, <2>3, LinesJoined
<1>5. two => ~one
  <2>1. IsSeq(t.in)
    BY TransfersType DEF AreTransfers
  <2>2. Len(t.in) \in Nat
    BY <2>1, IsSeqType
  <2>. HIDE DEF t, two
  <2>3. Len(t.in) > 1 => ~(Len(t.in) <= 1)
    BY <2>2
  <2>. QED
    BY <1>3, <2>3 DEF t
<1>. HIDE DEF both, two, swap, t
<1>6. two => Tidy(Ingested(both, f), f, i, repeats, one)
  BY <1>4, <1>5, TidyFirst
<1>. QED
  BY <1>1, <1>2, <1>6

LEMMA EvmTransferTidy ==
  ASSUME NEW f \in BOOLEAN, NEW i, NEW repeats \in BOOLEAN, repeats, NEW one \in BOOLEAN, NEW m \in Messages
  PROVE  Tidy(HandleEvmTransfer(f, i, m), f, i, repeats, one)
<1> DEFINE n == TransfersNet(Transfers(m))
<1>1. IsSeq(n.in) /\ IsSeq(n.out)
  <2>1. IsSeq(Transfers(m).in) /\ IsSeq(Transfers(m).out)
    BY TransfersType DEF AreTransfers
  <2>. QED
    BY <2>1, NetSeq
<1>2. HandleEvmTransfer(f, i, m) = IF Single(n.in) /\ None(n.out) THEN Ingested(InRows(n.in), FALSE)
                                   ELSE IF None(n.in) /\ Single(n.out) THEN Ingested(OutRows(f, n.out), f)
                                   ELSE Raised(f)
  BY DEF HandleEvmTransfer
<1>. HIDE DEF n
<1>3. Tidy(Ingested(InRows(n.in), FALSE), f, i, repeats, one) /\ Tidy(Raised(f), f, i, repeats, one)
  BY <1>1, TidyIn, TidyRaised
<1>4. Single(n.out) => Tidy(Ingested(OutRows(f, n.out), f), f, i, repeats, one)
  <2>. SUFFICES ASSUME Single(n.out) PROVE Tidy(Ingested(OutRows(f, n.out), f), f, i, repeats, one)
    OBVIOUS
  <2>1. Len(n.out) <= 1
    BY DEF Single
  <2>2. Outgoing(OutRows(f, n.out), f) /\ Once(OutRows(f, n.out))
    BY <1>1, <2>1, OutRowsAre
  <2>3. f => Shows(f, i, repeats)
    BY DEF Shows
  <2>. QED
    BY <2>2, <2>3, TidyOut
<1>. QED
  BY <1>2, <1>3, <1>4

\* One row that goes out.
LEMMA OutRowTidy ==
  ASSUME NEW f \in BOOLEAN, NEW left \in BOOLEAN, NEW i, NEW repeats \in BOOLEAN, NEW one \in BOOLEAN, NEW coin,
         left => Shows(f, i, repeats)
  PROVE  Tidy(Ingested(<<Row("TRANSFER", NoCoin, coin, left, 0)>>, f), f, i, repeats, one)
<1> DEFINE r == Row("TRANSFER", NoCoin, coin, left, 0)
<1>1. r.type = "TRANSFER" /\ r.recv = NoCoin /\ r.about = 0 /\ r.fee = left
  BY RowIs
<1>. HIDE DEF r
<1>2. <<r>> \in Seq({r}) /\ DOMAIN <<r>> = {1} /\ <<r>>[1] = r
  OBVIOUS
<1>3. IsSeq(<<r>>)
  BY <1>2, IsSeqOf
<1>4. Outgoing(<<r>>, left) /\ Once(<<r>>)
  BY <1>1, <1>2, <1>3 DEF Outgoing, Once
<1>5. Tidy(Ingested(<<r>>, f), f, i, repeats, one)
  BY <1>4, TidyOut
<1>. QED
  BY <1>5 DEF r

LEMMA SendToEthTidy ==
  ASSUME NEW f \in BOOLEAN, NEW i, NEW repeats \in BOOLEAN, repeats, NEW one \in BOOLEAN, NEW m
  PROVE  Tidy(HandleSendToEth(f, i, m), f, i, repeats, one)
<1>1. f => Shows(f, i, repeats)
  BY DEF Shows
<1>2. Tidy(Ingested(<<TransferOutRow(f, Coin(m.flows[1]))>>, f), f, i, repeats, one)
  BY <1>1, OutRowTidy DEF TransferOutRow
<1>. QED
  BY <1>2, TidyRaised DEF HandleSendToEth

LEMMA AirdropTidy ==
  ASSUME NEW f \in BOOLEAN, NEW i, NEW repeats \in BOOLEAN, repeats, NEW one \in BOOLEAN, NEW m \in Messages
  PROVE  Tidy(HandleAirdrop(f, i, m), f, i, repeats, one)
<1>1. Tidy(Ingested(<<Row("AIRDROP", Transfers(m).in[1], NoCoin, f, 0)>>, f), f, i, repeats, one)
  BY TidyRow
<1>. QED
  BY <1>1, UnknownTidy DEF HandleAirdrop

LEMMA NtrnContractTidy ==
  ASSUME NEW f \in BOOLEAN, NEW i, NEW repeats \in BOOLEAN, repeats, NEW one \in BOOLEAN, NEW m \in Messages,
         m.type # "TRANSFER"
  PROVE  Tidy(HandleNtrnContract(f, i, m), f, i, repeats, one)
<1> DEFINE n == TransfersNet(Transfers(m))
<1>1. Tidy(Ingested(<<Row("TRADE", n.in[1], n.out[1], f, 0)>>, f), f, i, repeats, one)
  BY TidyRow
<1>2. Tidy(Ingested(<<SpendFeeRow(f)>>, f), f, i, repeats, one)
  BY TidySimple
<1>3. Tidy(Raised(f), f, i, repeats, one) /\ Tidy(HandleUnknownDetectTransfers(f, i, m), f, i, repeats, one)
  BY TidyRaised, UnknownTidy
<1>. QED
  BY <1>1, <1>2, <1>3 DEF HandleNtrnContract

LEMMA SentinelTidy ==
  ASSUME NEW f \in BOOLEAN, NEW i, NEW repeats \in BOOLEAN, repeats, NEW one \in BOOLEAN, NEW m, m.type # "TRANSFER",
         NEW counted
  PROVE  /\ Tidy(HandleSpendFee(f, i, m, counted), f, i, repeats, one)
         /\ Tidy(HandleSubscribedToNode(f, i, m), f, i, repeats, one)
<1>1. Tidy(HandleSpendFee(f, i, m, counted), f, i, repeats, one)
  <2>1. Tidy(Ingested(<<SpendFeeRow(f)>>, f), f, i, repeats, one) /\ Tidy(Ingested(<<>>, f), f, i, repeats, one)
    BY TidySimple, TidyNone
  <2>2. CASE counted
    BY <2>1, <2>2 DEF HandleSpendFee
  <2>3. CASE ~counted
    BY <2>1, <2>3 DEF HandleSpendFee
  <2>. QED
    BY <2>2, <2>3
<1>2. Tidy(HandleSubscribedToNode(f, i, m), f, i, repeats, one)
  <2>1. Tidy(Ingested(<<Row("SPEND", NoCoin, Transfers(m).out[1], f, 0)>>, f), f, i, repeats, one)
    BY TidyRow
  <2>. QED
    BY <2>1, TidyRaised DEF HandleSubscribedToNode
<1>. QED
  BY <1>1, <1>2

\* As Tidy, of rows that may be about a deposit.
Neat(result, f, i, repeats, one) ==
  /\ IsSeq(result.rows)
  /\ result.fee \in BOOLEAN
  /\ result.fee => f
  /\ \A k \in DOMAIN result.rows :
       (result.rows[k].fee => Shows(f, i, repeats)) /\ (Receipt(result.rows[k]) => ~result.fee)
  /\ \A j, k \in DOMAIN result.rows : j < k /\ Receipt(result.rows[j]) => ~result.rows[k].fee
  /\ one => Once(result.rows)

\* A claim that brings a deposit that was not counted is counted by the one row it has;
\* any other claim counts none.
Brings(m, counted) == m.flags \cap {"foreign", "broken"} = {} /\ m.nonce \notin counted
Counts(rs, nonce)  == DOMAIN rs = {1} /\ rs[1].type = "TRANSFER" /\ rs[1].about = nonce

LEMMA DepositClaimIs ==
  ASSUME NEW f \in BOOLEAN, NEW i, NEW repeats \in BOOLEAN, NEW one \in BOOLEAN, NEW m, NEW counted,
         NEW result, result = HandleDepositClaim(f, i, m, counted)
  PROVE  /\ Brings(m, counted) =>
              Neat(result, f, i, repeats, one) /\ ~result.raised /\ Counts(result.rows, m.nonce)
         /\ ~Brings(m, counted) => Tidy(result, f, i, repeats, one)
<1> DEFINE coin == Coin(m.flows[1])
           r == Row("TRANSFER", coin, NoCoin, FALSE, m.nonce)
<1>1. result = IF "broken" \in m.flags THEN Raised(f)
               ELSE IF "foreign" \in m.flags THEN Ingested(<<IbcRow("_NOOP", f, i, NoCoin, NoCoin)>>, f)
               ELSE IF m.nonce \in counted
               THEN Ingested(<<Row("_DUPLICATE_DEPOSIT_CLAIM", NoCoin, NoCoin, FirstFee(f, i), m.nonce)>>, f)
               ELSE Ingested(<<r>>, FALSE)
  BY DEF HandleDepositClaim
<1>2. Tidy(Raised(f), f, i, repeats, one) /\ Tidy(Ingested(<<IbcRow("_NOOP", f, i, NoCoin, NoCoin)>>, f), f, i, repeats, one)
  BY TidyRaised, TidyIbcRow
<1>3. Tidy(Ingested(<<Row("_DUPLICATE_DEPOSIT_CLAIM", NoCoin, NoCoin, FirstFee(f, i), m.nonce)>>, f), f, i, repeats, one)
  <2> DEFINE rs == <<Row("_DUPLICATE_DEPOSIT_CLAIM", NoCoin, NoCoin, FirstFee(f, i), m.nonce)>>
  <2>1. FirstFee(f, i) \in BOOLEAN
    BY DEF FirstFee
  <2>2. Lines(rs, FirstFee(f, i)) /\ Once(rs)
    BY <2>1, OneLine
  <2>. HIDE DEF rs
  <2>3. Tidy(Ingested(rs, f), f, i, repeats, one)
    BY <2>2, TidyFirst
  <2>. QED
    BY <2>3 DEF rs
<1>4. r.type = "TRANSFER" /\ ~r.fee /\ r.about = m.nonce
  BY DEF Row
<1> DEFINE told == Ingested(<<r>>, FALSE)
<1>. HIDE DEF r
<1>5. <<r>> \in Seq({r}) /\ DOMAIN <<r>> = {1} /\ <<r>>[1] = r
  OBVIOUS
<1>6. IsSeq(<<r>>)
  BY <1>5, IsSeqOf
<1>7. told.rows = <<r>> /\ told.fee = FALSE /\ told.raised = FALSE
  BY DEF Ingested
<1>. HIDE DEF told
<1>8. Neat(told, f, i, repeats, one)
  BY <1>4, <1>5, <1>6, <1>7 DEF Neat, Once
<1>9. Brings(m, counted) => result = told
  BY <1>1 DEF told, Brings
<1>10. ~Brings(m, counted) => Tidy(result, f, i, repeats, one)
  BY <1>1, <1>2, <1>3 DEF Brings
<1>. QED
  BY <1>4, <1>5, <1>7, <1>8, <1>9, <1>10 DEF Counts

-----------------------------------------------------------------------------
(* The handlers of Osmosis *)

LEMMA OsmoTransfers ==
  ASSUME NEW m \in Messages
  PROVE  /\ IsSeq(Transfers(m).in) /\ IsSeq(Transfers(m).out)
         /\ IsSeq(TransfersNet(Transfers(m)).in) /\ IsSeq(TransfersNet(Transfers(m)).out)
         /\ IsSeq(AfterClaim(m).in) /\ IsSeq(AfterClaim(m).out)
<1>1. IsSeq(Transfers(m).in) /\ IsSeq(Transfers(m).out)
  BY TransfersType DEF AreTransfers
<1>2. IsSeq(TransfersNet(Transfers(m)).in) /\ IsSeq(TransfersNet(Transfers(m)).out)
  BY <1>1, NetSeq
<1>3. AfterClaim(m).in = RemoveFirst(Transfers(m).in, Reward(m)) /\ AfterClaim(m).out = Transfers(m).out
  <2>1. \E a, b : Transfers(m) = [in |-> a, out |-> b]
    BY DEF Transfers, TransfersEvent
  <2>. QED
    BY <2>1 DEF AfterClaim
<1>. QED
  BY <1>1, <1>2, <1>3, RemoveFirstIs

LEMMA OrElseTidy ==
  ASSUME NEW f \in BOOLEAN, NEW i, NEW repeats \in BOOLEAN, NEW one \in BOOLEAN, NEW m \in Messages, NEW left
  PROVE  /\ Tidy(Raised(f), f, i, repeats, one)
         /\ Tidy(Ingested(Detected(f, i, m, left), f), f, i, repeats, one)
<1>1. Lines(Detected(f, i, m, left), FirstFee(f, i)) /\ Once(Detected(f, i, m, left))
  BY DetectedLines
<1>. QED
  BY <1>1, TidyFirst, TidyRaised

\* A reward that is claimed along with something else has a row; without any there is none.
LEMMA ClaimLines ==
  ASSUME NEW f \in BOOLEAN, NEW i, NEW m \in Messages
  PROVE  /\ Lines(ClaimRows(f, i, m), FirstFee(f, i))
         /\ m.event.legs = <<>> => Len(ClaimRows(f, i, m)) = 0
<1>1. IsSeq(<<Reward(m)>>)
  <2>1. <<Reward(m)>> \in Seq({Reward(m)})
    OBVIOUS
  <2>. QED
    BY <2>1, IsSeqOf
<1>2. Lines(RewardRows(f, i, <<Reward(m)>>), FirstFee(f, i))
  BY <1>1, RewardLines
<1>3. m.event.legs = <<>> => ClaimRows(f, i, m) = <<>>
  <2>1. ~Contains(Transfers(m).in, NoCoin)
    BY TransfersType DEF AreTransfers
  <2>. QED
    BY <2>1 DEF ClaimRows, Reward
<1>. QED
  BY <1>2, <1>3, NoLines, EmptyIsSeq DEF ClaimRows

\* The rows of a reward, and those of what it was claimed along with.
LEMMA ClaimedTidy ==
  ASSUME NEW f \in BOOLEAN, NEW i, NEW repeats \in BOOLEAN, NEW one \in BOOLEAN, NEW m \in Messages,
         one => m.event.legs = <<>>,
         NEW rs, Lines(rs, FirstFee(f, i)), Once(rs)
  PROVE  Tidy(Ingested(ClaimRows(f, i, m) \o rs, f), f, i, repeats, one)
<1> DEFINE claimed == ClaimRows(f, i, m)
<1>1. Lines(claimed, FirstFee(f, i)) /\ (one => Len(claimed) = 0)
  BY ClaimLines
<1>. HIDE DEF claimed
<1>2. Lines(claimed \o rs, FirstFee(f, i)) /\ (one => Once(claimed \o rs))
  BY <1>1, LinesJoined
<1>. QED
  BY <1>2, TidyFirst DEF claimed

LEMMA SwapTidy ==
  ASSUME NEW f \in BOOLEAN, NEW i, NEW repeats \in BOOLEAN, NEW one \in BOOLEAN, NEW m \in Messages,
         one => m.event.legs = <<>>
  PROVE  /\ Tidy(HandleSwap(f, i, m), f, i, repeats, one)
         /\ Tidy(HandleLpDeposit(f, i, m), f, i, repeats, one)
         /\ Tidy(HandleLpWithdraw(f, i, m), f, i, repeats, one)
         /\ ~HandleSwap(f, i, m).raised
<1> DEFINE t == AfterClaim(m)
           n == TransfersNet(t)
           Fits(rs) == Lines(rs, FirstFee(f, i)) /\ Once(rs)
           detected == Detected(f, i, m, t)
           traded == <<TradeRow(f, i, n.in[1], n.out[1])>>
           entered == LpDepositRows(f, i, t.in[1], t.out)
           left == LpWithdrawRows(f, i, t.out[1], t.in)
<1>1. Fits(detected)
  BY DetectedLines
<1>2. Fits(traded)
  <2>1. FirstFee(f, i) \in BOOLEAN
    BY DEF FirstFee
  <2>. QED
    BY <2>1, OneLine DEF TradeRow, IbcRow
<1>3. Fits(entered) /\ Fits(left)
  BY OsmoTransfers, LpDepositLines, LpWithdrawLines
<1>4. /\ HandleSwap(f, i, m) = Ingested(ClaimRows(f, i, m) \o (IF Swaps(n) THEN traded ELSE detected), f)
      /\ HandleLpDeposit(f, i, m) =
           Ingested(ClaimRows(f, i, m) \o (IF Single(t.in) /\ Len(t.out) = 2 THEN entered ELSE detected), f)
      /\ HandleLpWithdraw(f, i, m) =
           Ingested(ClaimRows(f, i, m) \o (IF Len(t.in) = 2 /\ Single(t.out) THEN left ELSE detected), f)
  BY DEF HandleSwap, HandleLpDeposit, HandleLpWithdraw
<1>5. ~HandleSwap(f, i, m).raised
  BY <1>4 DEF Ingested
<1>6. ASSUME NEW rs, Fits(rs)
      PROVE  Tidy(Ingested(ClaimRows(f, i, m) \o rs, f), f, i, repeats, one)
  BY <1>6, ClaimedTidy
<1>. HIDE DEF detected, traded, entered, left, t, n, Fits
<1>7. /\ Fits(IF Swaps(n) THEN traded ELSE detected)
      /\ Fits(IF Single(t.in) /\ Len(t.out) = 2 THEN entered ELSE detected)
      /\ Fits(IF Len(t.in) = 2 /\ Single(t.out) THEN left ELSE detected)
  BY <1>1, <1>2, <1>3
<1>. QED
  BY <1>4, <1>5, <1>6, <1>7

LEMMA LpTidy ==
  ASSUME NEW f \in BOOLEAN, NEW i, NEW repeats \in BOOLEAN, NEW one \in BOOLEAN, NEW m \in Messages, m.type # "TRANSFER",
         NEW locks
  PROVE  /\ Tidy(HandleLpDepositPartial(f, i, m), f, i, repeats, one)
         /\ Tidy(HandleLpStake(f, i, m), f, i, repeats, one)
         /\ ~HandleLpStake(f, i, m).raised
         /\ Tidy(HandleLpUnstake(f, i, m, locks), f, i, repeats, one)
         /\ Tidy(HandleUndelegateOrUnbond(f, i, m), f, i, repeats, one)
         /\ Tidy(HandleSuperfluid(f, i, m), f, i, repeats, one)
<1> DEFINE t == Transfers(m)
           OK(result) == Tidy(result, f, i, repeats, one)
           else == Ingested(Detected(f, i, m, t), f)
<1>1. OK(else)
  BY OrElseTidy
<1>2. OK(Ingested(LpDepositRows(f, i, t.in[1], t.out), f))
  BY OsmoTransfers, LpDepositLines, TidyFirst
<1>3. /\ OK(Ingested(<<IbcRow(m.type, f, i, NoCoin, t.out[1])>>, f))
      /\ OK(Ingested(<<IbcRow(m.type, f, i, locks[m.event.id], NoCoin)>>, f))
      /\ OK(Ingested(<<SimpleRow(f, i, m)>>, f))
  BY TidyIbcRow, TidySimple
<1>4. /\ HandleLpDepositPartial(f, i, m) = IF Swaps(t) THEN Ingested(LpDepositRows(f, i, t.in[1], t.out), f) ELSE else
      /\ HandleLpStake(f, i, m) = IF OnlyOut(t) THEN Ingested(<<IbcRow(m.type, f, i, NoCoin, t.out[1])>>, f) ELSE else
      /\ HandleLpUnstake(f, i, m, locks) =
           IF m.event.id \in DOMAIN locks THEN Ingested(<<IbcRow(m.type, f, i, locks[m.event.id], NoCoin)>>, f) ELSE else
      /\ HandleUndelegateOrUnbond(f, i, m) =
           IF None(t.in) /\ None(t.out) THEN Ingested(<<SimpleRow(f, i, m)>>, f) ELSE else
      /\ HandleSuperfluid(f, i, m) = Ingested(<<SimpleRow(f, i, m)>>, f)
  BY DEF HandleLpDepositPartial, HandleLpStake, HandleLpUnstake, HandleUndelegateOrUnbond, HandleSuperfluid, OrUnknown, Ingested
<1>5. ~HandleLpStake(f, i, m).raised
  BY DEF HandleLpStake, OrUnknown, Ingested
<1>. HIDE DEF OK, else, t
<1>6. OK(HandleLpDepositPartial(f, i, m)) /\ OK(HandleLpStake(f, i, m))
  BY <1>1, <1>2, <1>3, <1>4
<1>7. OK(HandleLpUnstake(f, i, m, locks)) /\ OK(HandleUndelegateOrUnbond(f, i, m)) /\ OK(HandleSuperfluid(f, i, m))
  BY <1>1, <1>3, <1>4
<1>. QED
  BY <1>5, <1>6, <1>7 DEF OK

LEMMA OsmoSimpleTidy ==
  ASSUME NEW f \in BOOLEAN, NEW i, NEW repeats \in BOOLEAN, NEW one \in BOOLEAN, NEW m, m.type # "TRANSFER"
  PROVE  Tidy(HandleOsmoSimple(f, i, m), f, i, repeats, one)
<1>1. HandleOsmoSimple(f, i, m) = IF FirstFee(f, i) THEN Ingested(<<SpendFeeRow(f)>>, f) ELSE Ingested(<<SimpleRow(f, i, m)>>, f)
  BY DEF HandleOsmoSimple
<1>2. FirstFee(f, i) => i = 0
  BY DEF FirstFee
<1>. QED
  BY <1>1, <1>2, TidySimple

LEMMA PositionTidy ==
  ASSUME NEW f \in BOOLEAN, NEW i, NEW repeats \in BOOLEAN, NEW one \in BOOLEAN, NEW m \in Messages, NEW positions
  PROVE  /\ Tidy(HandleCreatePosition(f, i, m, positions), f, i, repeats, one)
         /\ Tidy(HandleWithdrawPosition(f, i, m), f, i, repeats, one)
         /\ Tidy(HandleCollect(f, i, m), f, i, repeats, one)
<1> DEFINE t == Transfers(m)
           n == TransfersNet(t)
           OK(result) == Tidy(result, f, i, repeats, one)
           entered == LpDepositRows(f, i, Liquidity(m.event.liquidity), t.out)
           left == LpWithdrawRows(f, i, Liquidity(m.event.liquidity), n.in)
           collected == FirstKeepsFee(RewardRows(f, i, n.in))
<1>1. OK(Raised(f))
  BY TidyRaised
<1>2. OK(Ingested(entered, f)) /\ OK(Ingested(left, f))
  BY OsmoTransfers, LpDepositLines, LpWithdrawLines, TidyFirst
<1>3. OK(Ingested(collected, f))
  <2>1. Lines(RewardRows(f, i, n.in), FirstFee(f, i))
    BY OsmoTransfers, RewardLines
  <2>2. Lines(collected, FirstFee(f, i)) /\ Once(collected)
    BY <2>1, FirstKeepsLines
  <2>. QED
    BY <2>2, TidyFirst
<1>4. /\ HandleCreatePosition(f, i, m, positions) = IF Creates(m, positions) THEN Ingested(entered, f) ELSE Raised(f)
      /\ HandleWithdrawPosition(f, i, m) = IF Withdraws(m) THEN Ingested(left, f) ELSE Raised(f)
      /\ HandleCollect(f, i, m) = IF ~None(n.in) /\ None(n.out) THEN Ingested(collected, f) ELSE Raised(f)
  BY DEF HandleCreatePosition, HandleWithdrawPosition, HandleCollect, OrRaise
<1>. HIDE DEF OK, n, entered, left, collected
<1>5. OK(HandleCreatePosition(f, i, m, positions)) /\ OK(HandleWithdrawPosition(f, i, m)) /\ OK(HandleCollect(f, i, m))
  BY <1>1, <1>2, <1>3, <1>4
<1>. QED
  BY <1>5 DEF OK

LEMMA AddToPositionTidy ==
  ASSUME NEW f \in BOOLEAN, NEW i, NEW repeats \in BOOLEAN, NEW one \in BOOLEAN, NEW m \in Messages, NEW positions,
         one => m.event.legs = <<>>
  PROVE  Tidy(HandleAddToPosition(f, i, m, positions), f, i, repeats, one)
<1> DEFINE n == TransfersNet(Transfers(m))
           more == Liquidity(m.event.liquidity - LiquidityOf(positions, m.event.from))
           entered == LpDepositRows(f, i, more, n.out)
           rewards == RewardRows(f, i, RewardsOf(m))
           rest == IF Single(n.in) THEN rewards ELSE <<>>
<1>1. HandleAddToPosition(f, i, m, positions) = IF ~Adds(m) THEN Ingested(<<>>, f) ELSE Ingested(entered \o rest, f)
  BY DEF HandleAddToPosition
<1>2. Lines(entered, FirstFee(f, i)) /\ Once(entered)
  BY OsmoTransfers, LpDepositLines
<1>3. IsSeq(RewardsOf(m)) /\ (m.event.legs = <<>> => Len(RewardsOf(m)) = 0)
  <2> DEFINE legs == m.event.legs
             rs == RewardsOf(m)
  <2>1. IsSeq(legs) /\ Len(legs) \in Nat /\ DOMAIN legs = 1 .. Len(legs)
    BY MessageType, IsSeqType
  <2>2. rs = [k \in 1 .. Len(legs) |-> rs[k]]
    BY <2>1 DEF RewardsOf
  <2>3. legs = <<>> => Len(legs) = 0
    BY EmptyIsSeq
  <2>. HIDE DEF rs, legs
  <2>4. IsSeq(rs) /\ Len(rs) = Len(legs)
    BY <2>1, <2>2, FunctionIsSeq
  <2>. QED
    BY <2>3, <2>4 DEF rs, legs
<1>4. Lines(rewards, FirstFee(f, i)) /\ (one => Len(rewards) = 0)
  BY <1>3, RewardLines
<1>. HIDE DEF rewards, entered
<1>5. Lines(rest, FirstFee(f, i)) /\ (one => Len(rest) = 0)
  BY <1>4, NoLines, EmptyIsSeq
<1>. HIDE DEF rest
<1>6. Lines(entered \o rest, FirstFee(f, i)) /\ (one => Once(entered \o rest))
  BY <1>2, <1>5, LinesJoined
<1>. QED
  BY <1>1, <1>6, TidyFirst, TidyNone

\* What is left and what is entered are two sets of rows.
LEMMA MigrateTidy ==
  ASSUME NEW f \in BOOLEAN, NEW i, NEW repeats \in BOOLEAN, NEW one \in BOOLEAN, ~one, NEW m \in Messages, NEW positions
  PROVE  Tidy(HandleMigrate(f, i, m, positions), f, i, repeats, one)
<1> DEFINE lp == PoolToken(m)
           in == OtherThanPool(Transfers(m).in)
           out == OtherThanPool(Transfers(m).out)
           left == LpWithdrawRows(f, i, lp, in)
           leave == IF Len(in) <= 2 THEN left ELSE <<>>
           enter == LpDepositRows(f, i, lp, out)
           told == [rows |-> leave, fee |-> f, raised |-> TRUE]
<1>1. HandleMigrate(f, i, m, positions) =
        IF lp = NoCoin THEN HandleUnknownDetectTransfers(f, i, m)
        ELSE IF m.event.id \in DOMAIN positions \/ None(in) THEN Raised(f)
        ELSE IF None(out) THEN told ELSE Ingested(leave \o enter, f)
  BY DEF HandleMigrate
<1>2. ASSUME NEW coins, IsSeq(coins)
      PROVE  IsSeq(OtherThanPool(coins))
  <2> DEFINE places == {k \in DOMAIN coins : coins[k].cur # "G"}
  <2>1. places \in SUBSET DOMAIN coins
    OBVIOUS
  <2>. HIDE DEF places
  <2>2. IsSeq(AtPlaces(coins, places))
    BY <1>2, <2>1, PlacesIsSeq
  <2>. QED
    BY <2>2 DEF OtherThanPool, places
<1>3. IsSeq(in) /\ IsSeq(out)
  BY <1>2, OsmoTransfers
<1>4. Lines(left, FirstFee(f, i)) /\ Lines(enter, FirstFee(f, i))
  BY <1>3, LpWithdrawLines, LpDepositLines
<1>. HIDE DEF left, enter, lp, in, out
<1>5. Lines(leave, FirstFee(f, i))
  BY <1>4, NoLines
<1>. HIDE DEF leave
<1>6. Lines(leave \o enter, FirstFee(f, i))
  BY <1>4, <1>5, LinesJoined
<1>7. Tidy(told, f, i, repeats, one) /\ Tidy(Ingested(leave \o enter, f), f, i, repeats, one)
  BY <1>5, <1>6, TidyFirst
<1>8. Tidy(HandleUnknownDetectTransfers(f, i, m), f, i, repeats, one) /\ Tidy(Raised(f), f, i, repeats, one)
  BY UnknownTidy, TidyRaised
<1>. HIDE DEF told
<1>. QED
  BY <1>1, <1>7, <1>8

LEMMA UpdateCreditTidy ==
  ASSUME NEW f \in BOOLEAN, NEW i, NEW repeats \in BOOLEAN, NEW one \in BOOLEAN, NEW m \in Messages,
         one => \A k \in DOMAIN m.event.legs : m.event.legs[k].does \notin {"other", "eventless"}
  PROVE  Tidy(HandleUpdateCredit(f, i, m), f, i, repeats, one)
<1> DEFINE legs == m.event.legs
           ends == {k \in DOMAIN legs : legs[k].does = "eventless"}
           least == CHOOSE k \in ends : \A j \in ends : k <= j
           known == IF ends = {} THEN legs ELSE SubSeq(legs, 1, least - 1)
           wrong == ends # {} \/ \E k \in DOMAIN known : known[k].does = "other"
           acts == [k \in DOMAIN known |-> ActionRow(f, i, legs, k)]
           rs == FirstKeepsFee(acts)
<1>1. HandleUpdateCredit(f, i, m) = [rows |-> rs, fee |-> f, raised |-> wrong]
  BY DEF HandleUpdateCredit
<1>2. IsSeq(legs) /\ Len(legs) \in Nat /\ DOMAIN legs = 1 .. Len(legs)
  BY MessageType, IsSeqType
<1>3. one => ~wrong
  BY <1>2
<1>4. IsSeq(known)
  <2>1. CASE ends = {}
    BY <1>2, <2>1
  <2>2. CASE ends # {}
    <3>1. ends \in SUBSET Nat /\ ends \in SUBSET (1 .. Len(legs))
      BY <1>2
    <3>. HIDE DEF ends
    <3>2. \E k \in ends : \A j \in ends : k <= j
      BY <2>2, <3>1, LeastNat
    <3>3. least \in 1 .. Len(legs)
      BY <3>1, <3>2
    <3>. HIDE DEF least, legs
    <3>4. 1 \in Int /\ 1 > 0 /\ least - 1 \in Int /\ least - 1 <= Len(legs)
      BY <1>2, <3>3
    <3>5. IsSeq(SubSeq(legs, 1, least - 1))
      BY <1>2, <3>4, SubSeqIs
    <3>. QED
      BY <2>2, <3>5
  <2>. QED
    BY <2>1, <2>2
<1>5. wrong \in BOOLEAN
  OBVIOUS
<1>. HIDE DEF known, wrong
<1>6. Len(known) \in Nat /\ DOMAIN known = 1 .. Len(known)
  BY <1>4, IsSeqType
<1>7. FirstFee(f, i) \in BOOLEAN
  BY DEF FirstFee
<1>8. ASSUME NEW k
      PROVE  \E type, recv, sent : type # "TRANSFER" /\ ActionRow(f, i, legs, k) = Row(type, recv, sent, FirstFee(f, i), 0)
  <2> DEFINE leg == EventOf(legs, legs[k].does)
             Is(type, recv, sent) == ActionRow(f, i, legs, k) = Row(type, recv, sent, FirstFee(f, i), 0)
  <2>1. \/ Is("BORROW", leg.recv, NoCoin) \/ Is("REPAY", NoCoin, leg.sent)
        \/ Is("TRADE", leg.recv, leg.sent) \/ Is("_MARS", NoCoin, NoCoin)
    BY DEF ActionRow, IbcRow, TradeRow
  <2>. HIDE DEF Is
  <2>2. \E type, recv, sent : type # "TRANSFER" /\ Is(type, recv, sent)
    <3>1. "BORROW" # "TRANSFER" /\ "REPAY" # "TRANSFER" /\ "TRADE" # "TRANSFER" /\ "_MARS" # "TRANSFER"
      OBVIOUS
    <3>. QED
      BY <2>1, <3>1, Zenon
  <2>. QED
    BY <2>2 DEF Is
<1>9. \A k \in 1 .. Len(known) : IsRow(acts[k]) /\ acts[k].type # "TRANSFER" /\ (acts[k].fee => FirstFee(f, i))
  <2>. TAKE k \in 1 .. Len(known)
  <2>1. PICK type, recv, sent : type # "TRANSFER" /\ ActionRow(f, i, legs, k) = Row(type, recv, sent, FirstFee(f, i), 0)
    BY <1>8
  <2>2. acts[k] = Row(type, recv, sent, FirstFee(f, i), 0)
    BY <1>6, <2>1
  <2>. HIDE DEF acts
  <2>. QED
    BY <1>7, <2>1, <2>2, RowIs
<1>10. acts = [k \in 1 .. Len(known) |-> acts[k]]
  BY <1>6
<1>. HIDE DEF acts
<1>11. Lines(acts, FirstFee(f, i))
  BY <1>6, <1>9, <1>10, EachLine
<1>12. Lines(rs, FirstFee(f, i)) /\ Once(rs)
  BY <1>11, FirstKeepsLines
<1>. HIDE DEF rs
<1>13. CASE wrong
  <2>1. Tidy([rows |-> rs, fee |-> f, raised |-> TRUE], f, i, repeats, one)
    BY <1>3, <1>12, <1>13, TidyFirst
  <2>. QED
    BY <1>1, <1>5, <1>13, <2>1
<1>14. CASE ~wrong
  <2>1. Tidy(Ingested(rs, f), f, i, repeats, one)
    BY <1>12, TidyFirst
  <2>. QED
    BY <1>1, <1>5, <1>14, <2>1 DEF Ingested
<1>. QED
  BY <1>13, <1>14

\* The one reward of a message that brings one coin.
LEMMA TidyRewards ==
  ASSUME NEW f \in BOOLEAN, NEW i, NEW repeats \in BOOLEAN, NEW one \in BOOLEAN, NEW m \in Messages, OnlyIn(Transfers(m))
  PROVE  Tidy(Ingested(RewardRows(f, i, Transfers(m).in), f), f, i, repeats, one)
<1> DEFINE in == Transfers(m).in
<1>1. Len(in) <= 1
  BY DEF OnlyIn, Single
<1>2. IsSeq(in)
  BY OsmoTransfers
<1>3. Lines(RewardRows(f, i, in), FirstFee(f, i)) /\ Once(RewardRows(f, i, in))
  BY <1>1, <1>2, RewardLines
<1>. QED
  BY <1>3, TidyFirst

LEMMA LevanaTidy ==
  ASSUME NEW f \in BOOLEAN, NEW i, NEW repeats \in BOOLEAN, NEW one \in BOOLEAN, NEW m \in Messages, m.type # "TRANSFER",
         NEW how \in {"price_feeds", "deposit_perps", "claim_yield", "unstake_perps", "withdraw_perps"}
  PROVE  Tidy(HandleLevana(f, i, m, how), f, i, repeats, one)
<1> DEFINE t == Transfers(m)
           OK(result) == Tidy(result, f, i, repeats, one)
           spent == Ingested(<<IbcRow("SPEND", f, i, NoCoin, t.out[1])>>, f)
           entered == Ingested(LpDepositRows(f, i, LevanaToken(m), t.out), f)
           rewards == Ingested(RewardRows(f, i, t.in), f)
           simple == Ingested(<<SimpleRow(f, i, m)>>, f)
           left == Ingested(LpWithdrawRows(f, i, LevanaToken(m), t.in), f)
<1>1. OK(Raised(f)) /\ OK(spent) /\ OK(simple)
  BY TidyRaised, TidyIbcRow, TidySimple
<1>2. OK(entered) /\ OK(left)
  BY OsmoTransfers, LpDepositLines, LpWithdrawLines, TidyFirst
<1>3. OnlyIn(t) => OK(rewards)
  BY TidyRewards
<1>4. /\ how = "price_feeds" => HandleLevana(f, i, m, how) = IF OnlyOut(t) THEN spent ELSE Raised(f)
      /\ how = "deposit_perps" => HandleLevana(f, i, m, how) = IF OnlyOut(t) THEN entered ELSE Raised(f)
      /\ how = "claim_yield" => HandleLevana(f, i, m, how) = IF OnlyIn(t) THEN rewards ELSE Raised(f)
      /\ how = "unstake_perps" => HandleLevana(f, i, m, how) = IF None(t.in) /\ None(t.out) THEN simple ELSE Raised(f)
      /\ how = "withdraw_perps" => HandleLevana(f, i, m, how) = IF OnlyIn(t) THEN left ELSE Raised(f)
  BY DEF HandleLevana, OrRaise
<1>. HIDE DEF OK, t, spent, entered, rewards, simple, left
<1>5. OK(HandleLevana(f, i, m, how))
  BY <1>1, <1>2, <1>3, <1>4
<1>. QED
  BY <1>5 DEF OK

LEMMA RedBankTidy ==
  ASSUME NEW f \in BOOLEAN, NEW i, NEW repeats \in BOOLEAN, NEW one \in BOOLEAN, NEW m \in Messages,
         NEW how \in {"lend", "reclaim", "repay", "borrow"}, how \in {"repay", "borrow"} => repeats
  PROVE  Tidy(HandleRedBank(f, i, m, how), f, i, repeats, one)
<1> DEFINE t == Transfers(m)
           n == TransfersNet(t)
           OK(result) == Tidy(result, f, i, repeats, one)
           lent == Ingested(<<IbcRow("TRANSFER", f, i, NoCoin, t.out[1])>>, f)
           reclaimed == Ingested(InRows(t.in), FALSE)
           repaid == Ingested(<<Row("REPAY", NoCoin, n.out[1], f, 0)>>, f)
           borrowed == Ingested(<<Row("BORROW", t.in[1], NoCoin, f, 0)>>, f)
<1>1. OK(Raised(f))
  BY TidyRaised
<1>2. OK(lent)
  <2>1. f => Shows(f, 0, repeats)
    BY DEF Shows
  <2>2. CASE i = 0
    <3>1. IbcRow("TRANSFER", f, i, NoCoin, t.out[1]) = Row("TRANSFER", NoCoin, t.out[1], f, 0)
      BY <2>2 DEF IbcRow, FirstFee
    <3>2. Tidy(Ingested(<<Row("TRANSFER", NoCoin, t.out[1], f, 0)>>, f), f, i, repeats, one)
      BY <2>1, <2>2, OutRowTidy
    <3>. QED
      BY <3>1, <3>2
  <2>3. CASE i # 0
    <3>1. IbcRow("TRANSFER", f, i, NoCoin, t.out[1]) = Row("TRANSFER", NoCoin, t.out[1], FALSE, 0)
      BY <2>3 DEF IbcRow, FirstFee
    <3>2. Tidy(Ingested(<<Row("TRANSFER", NoCoin, t.out[1], FALSE, 0)>>, f), f, i, repeats, one)
      BY OutRowTidy
    <3>. QED
      BY <3>1, <3>2
  <2>. QED
    BY <2>2, <2>3
<1>3. OK(reclaimed)
  BY OsmoTransfers, TidyIn
<1>4. repeats => OK(repaid) /\ OK(borrowed)
  BY TidyRow
<1>5. /\ how = "lend" => HandleRedBank(f, i, m, how) = IF OnlyOut(t) THEN lent ELSE Raised(f)
      /\ how = "reclaim" => HandleRedBank(f, i, m, how) = IF OnlyIn(t) THEN reclaimed ELSE Raised(f)
      /\ how = "repay" => HandleRedBank(f, i, m, how) = IF OnlyOut(n) THEN repaid ELSE Raised(f)
      /\ how = "borrow" => HandleRedBank(f, i, m, how) = IF OnlyIn(t) THEN borrowed ELSE Raised(f)
  BY DEF HandleRedBank, OrRaise
<1>. HIDE DEF OK, t, n, lent, reclaimed, repaid, borrowed
<1>6. OK(HandleRedBank(f, i, m, how))
  BY <1>1, <1>2, <1>3, <1>4, <1>5
<1>. QED
  BY <1>6 DEF OK

LEMMA CreditManagerTidy ==
  ASSUME NEW f \in BOOLEAN, NEW i, NEW repeats \in BOOLEAN, NEW one \in BOOLEAN, NEW m \in Messages, m.type # "TRANSFER",
         NEW how \in {"create_credit", "update_credit", "repay_credit", "mars_rewards"},
         one /\ how = "update_credit" => \A k \in DOMAIN m.event.legs : m.event.legs[k].does \notin {"other", "eventless"}
  PROVE  Tidy(HandleCreditManager(f, i, m, how), f, i, repeats, one)
<1> DEFINE t == Transfers(m)
           OK(result) == Tidy(result, f, i, repeats, one)
           created == Ingested(<<IF i = 0 THEN SpendFeeRow(f) ELSE SimpleRow(FALSE, i, m)>>, f)
           repaid == Ingested(<<IbcRow("REPAY", f, i, NoCoin, t.out[1])>>, f)
           rewards == Ingested(RewardRows(f, i, t.in), f)
<1>1. OK(Raised(f)) /\ OK(repaid)
  BY TidyRaised, TidyIbcRow
<1>2. OK(created)
  <2>1. CASE i = 0
    BY <2>1, TidySimple
  <2>2. CASE i # 0
    <3>1. SimpleRow(FALSE, i, m) = SimpleRow(f, i, m)
      BY <2>2 DEF SimpleRow, IbcRow, FirstFee
    <3>. QED
      BY <2>2, <3>1, TidySimple
  <2>. QED
    BY <2>1, <2>2
<1>3. how = "update_credit" => OK(HandleUpdateCredit(f, i, m))
  BY UpdateCreditTidy
<1>4. /\ how = "create_credit" => HandleCreditManager(f, i, m, how) = IF None(t.in) /\ None(t.out) THEN created ELSE Raised(f)
      /\ how = "update_credit" => HandleCreditManager(f, i, m, how) = HandleUpdateCredit(f, i, m)
      /\ how = "repay_credit" => HandleCreditManager(f, i, m, how) = IF OnlyOut(t) THEN repaid ELSE Raised(f)
      /\ how = "mars_rewards" => HandleCreditManager(f, i, m, how) = IF OnlyIn(t) THEN rewards ELSE Raised(f)
  BY DEF HandleCreditManager, OrRaise
<1>5. OnlyIn(t) => OK(rewards)
  BY TidyRewards
<1>. HIDE DEF OK, t, created, repaid, rewards
<1>6. OK(HandleCreditManager(f, i, m, how))
  BY <1>1, <1>2, <1>3, <1>4, <1>5
<1>. QED
  BY <1>6 DEF OK

LEMMA LimitOrderTidy ==
  ASSUME NEW f \in BOOLEAN, NEW i, NEW repeats \in BOOLEAN, NEW one \in BOOLEAN, NEW m \in Messages, m.type # "TRANSFER",
         NEW how \in {"submit_order", "execute_order", "cancel_order"}, NEW orders
  PROVE  Tidy(HandleLimitOrder(f, i, m, how, orders), f, i, repeats, one)
<1> DEFINE t == Transfers(m)
           OK(result) == Tidy(result, f, i, repeats, one)
           simple == Ingested(<<SimpleRow(f, i, m)>>, f)
           traded == Ingested(<<TradeRow(f, i, t.in[1], orders[m.event.id])>>, f)
<1>1. OK(Raised(f)) /\ OK(simple)
  BY TidyRaised, TidySimple
<1>2. OK(traded)
  BY TidyIbcRow DEF TradeRow
<1>3. /\ how = "submit_order" => HandleLimitOrder(f, i, m, how, orders) = IF OnlyOut(t) THEN simple ELSE Raised(f)
      /\ how = "execute_order" =>
           HandleLimitOrder(f, i, m, how, orders) = IF OnlyIn(t) /\ m.event.id \in DOMAIN orders THEN traded ELSE Raised(f)
      /\ how = "cancel_order" => HandleLimitOrder(f, i, m, how, orders) = IF OnlyIn(t) THEN simple ELSE Raised(f)
  BY DEF HandleLimitOrder, OrRaise
<1>. HIDE DEF OK, t, simple, traded
<1>4. OK(HandleLimitOrder(f, i, m, how, orders))
  BY <1>1, <1>2, <1>3
<1>. QED
  BY <1>4 DEF OK

LEMMA PoolTidy ==
  ASSUME NEW f \in BOOLEAN, NEW i, NEW repeats \in BOOLEAN, NEW one \in BOOLEAN, NEW m \in Messages, m.type # "TRANSFER",
         NEW how \in {"place_limit", "cancel_limit", "claim_limit"}, how \in {"place_limit", "cancel_limit"} => repeats
  PROVE  Tidy(HandlePool(f, i, m, how), f, i, repeats, one)
<1> DEFINE t == Transfers(m)
           n == TransfersNet(t)
           OK(result) == Tidy(result, f, i, repeats, one)
           places == {k \in DOMAIN m.event.legs : m.event.legs[k].does = "own"}
           own == AtPlaces(m.event.legs, places)
           trades == [k \in DOMAIN own |-> TradeRow(f, i, own[k].recv, own[k].sent)]
           kept == FirstKeepsFee(trades)
           spent == Ingested(<<SpendFeeRow(f)>>, f)
<1>1. OK(Raised(f)) /\ OK(Ingested(<<>>, f)) /\ (repeats => OK(spent))
  BY TidyRaised, TidyNone, TidySimple
<1>2. IsSeq(own) /\ Len(own) \in Nat /\ DOMAIN own = 1 .. Len(own)
  <2>1. places \in SUBSET DOMAIN m.event.legs /\ IsSeq(m.event.legs)
    BY MessageType
  <2>. HIDE DEF places
  <2>. QED
    BY <2>1, PlacesIsSeq, IsSeqType
<1>3. FirstFee(f, i) \in BOOLEAN
  BY DEF FirstFee
<1>. HIDE DEF own
<1>4. \A k \in 1 .. Len(own) : IsRow(trades[k]) /\ trades[k].type # "TRANSFER" /\ (trades[k].fee => FirstFee(f, i))
  <2>. TAKE k \in 1 .. Len(own)
  <2>1. trades[k] = Row("TRADE", own[k].recv, own[k].sent, FirstFee(f, i), 0)
    BY <1>2 DEF TradeRow, IbcRow
  <2>. HIDE DEF trades
  <2>. QED
    BY <1>3, <2>1, RowIs
<1>5. trades = [k \in 1 .. Len(own) |-> trades[k]]
  BY <1>2
<1>6. /\ how = "place_limit" => HandlePool(f, i, m, how) = IF OnlyOut(t) THEN spent ELSE Raised(f)
      /\ how = "cancel_limit" => HandlePool(f, i, m, how) = IF OnlyIn(t) THEN spent ELSE Raised(f)
      /\ how = "claim_limit" =>
           HandlePool(f, i, m, how) = IF ~None(n.in) /\ None(n.out) THEN Ingested(kept, f) ELSE Ingested(<<>>, f)
  BY DEF HandlePool, OrRaise, own
<1>. HIDE DEF trades
<1>7. Lines(trades, FirstFee(f, i))
  BY <1>2, <1>4, <1>5, EachLine
<1>8. OK(Ingested(kept, f))
  BY <1>7, FirstKeepsLines, TidyFirst
<1>. HIDE DEF OK, t, n, kept, spent
<1>9. OK(HandlePool(f, i, m, how))
  BY <1>1, <1>6, <1>8
<1>. QED
  BY <1>9 DEF OK

LEMMA OtherContractsTidy ==
  ASSUME NEW f \in BOOLEAN, NEW i, NEW repeats \in BOOLEAN, NEW one \in BOOLEAN, NEW m \in Messages, m.type # "TRANSFER"
  PROVE  /\ Tidy(HandleIcns(f, i, m), f, i, repeats, one)
         /\ (one => Len(Transfers(m).in) <= 1) => Tidy(HandleQuasar(f, i, m), f, i, repeats, one)
         /\ Tidy(HandleContractSwap(f, i, m), f, i, repeats, one)
<1> DEFINE t == Transfers(m)
<1>1. Tidy(HandleIcns(f, i, m), f, i, repeats, one)
  <2> DEFINE row == IF i = 0 /\ OnlyOut(t) THEN Row("SPEND", NoCoin, t.out[1], f, 0) ELSE SimpleRow(FALSE, i, m)
  <2>1. HandleIcns(f, i, m) = Ingested(<<row>>, f)
    BY DEF HandleIcns
  <2>2. CASE i = 0 /\ OnlyOut(t)
    <3>1. Tidy(Ingested(<<Row("SPEND", NoCoin, t.out[1], f, 0)>>, f), f, i, repeats, one)
      BY <2>2, TidyRow
    <3>. QED
      BY <2>1, <2>2, <3>1
  <2>3. CASE ~(i = 0 /\ OnlyOut(t))
    <3>1. SimpleRow(FALSE, i, m) = Row(m.type, NoCoin, NoCoin, FALSE, 0)
      BY DEF SimpleRow, IbcRow, FirstFee
    <3> DEFINE rs == <<Row(m.type, NoCoin, NoCoin, FALSE, 0)>>
    <3>2. Lines(rs, FirstFee(f, i)) /\ Once(rs)
      BY OneLine
    <3>. HIDE DEF rs
    <3>3. Tidy(Ingested(rs, f), f, i, repeats, one)
      BY <3>2, TidyFirst
    <3>. QED
      BY <2>1, <2>3, <3>1, <3>3 DEF rs
  <2>. QED
    BY <2>2, <2>3
<1>2. (one => Len(t.in) <= 1) => Tidy(HandleQuasar(f, i, m), f, i, repeats, one)
  <2>. SUFFICES ASSUME one => Len(t.in) <= 1 PROVE Tidy(HandleQuasar(f, i, m), f, i, repeats, one)
    OBVIOUS
  <2>1. Lines(RewardRows(f, i, t.in), FirstFee(f, i)) /\ (one => Once(RewardRows(f, i, t.in)))
    BY OsmoTransfers, RewardLines
  <2>2. Tidy(Ingested(RewardRows(f, i, t.in), f), f, i, repeats, one)
    BY <2>1, TidyFirst
  <2>. QED
    BY <2>2, TidyRaised DEF HandleQuasar, OrRaise
<1>3. Tidy(HandleContractSwap(f, i, m), f, i, repeats, one)
  <2>1. Tidy(Ingested(<<TradeRow(f, i, t.in[1], t.out[1])>>, f), f, i, repeats, one)
    BY TidyIbcRow DEF TradeRow
  <2>. QED
    BY <2>1, TidyRaised DEF HandleContractSwap, OrRaise
<1>. QED
  BY <1>1, <1>2, <1>3

\* A contract that a message calls: its flag says which.
LEMMA CalledHow ==
  ASSUME NEW m \in Messages, NEW hows, Calls(m, hows)
  PROVE  How(m) \in hows /\ How(m) \in m.flags
<1>1. PICK how \in m.flags : how \in hows
  BY DEF Calls
<1>2. \A a, b \in m.flags : a = b
  BY MessageType
<1>3. How(m) \in m.flags
  BY <1>1 DEF How
<1>. QED
  BY <1>1, <1>2, <1>3

LEMMA OsmoContractTidy ==
  ASSUME NEW f \in BOOLEAN, NEW i, NEW repeats \in BOOLEAN, NEW one \in BOOLEAN, NEW m \in Messages, m.type # "TRANSFER",
         NEW orders,
         Calls(m, {"place_limit", "cancel_limit", "repay", "borrow"}) => repeats,
         one /\ Calls(m, {"quasar"}) => Len(Transfers(m).in) <= 1,
         one /\ Calls(m, {"update_credit"}) =>
           \A k \in DOMAIN m.event.legs : m.event.legs[k].does \notin {"other", "eventless"}
  PROVE  Tidy(HandleOsmoContract(f, i, m, orders), f, i, repeats, one)
<1> DEFINE result == HandleOsmoContract(f, i, m, orders)
           OK(r) == Tidy(r, f, i, repeats, one)
           levana == {"price_feeds", "deposit_perps", "claim_yield", "unstake_perps", "withdraw_perps"}
           redbank == {"lend", "reclaim", "repay", "borrow"}
           credit == {"create_credit", "update_credit", "repay_credit", "mars_rewards"}
           limit == {"submit_order", "execute_order", "cancel_order"}
           pool == {"place_limit", "cancel_limit", "claim_limit"}
           swaps == Calls(m, {"liquid", "swap_operations"})
           icns == Calls(m, {"icns"})
           quasar == Calls(m, {"quasar"})
           isLevana == Calls(m, levana)
           isRedbank == Calls(m, redbank)
           isCredit == Calls(m, credit)
           isLimit == Calls(m, limit)
           isPool == Calls(m, pool)
           broken == Calls(m, {"broken"})
           r1 == HandleContractSwap(f, i, m)
           r2 == HandleIcns(f, i, m)
           r3 == HandleQuasar(f, i, m)
           r4 == HandleLevana(f, i, m, How(m))
           r5 == HandleRedBank(f, i, m, How(m))
           r6 == HandleCreditManager(f, i, m, How(m))
           r7 == HandleLimitOrder(f, i, m, How(m), orders)
           r8 == HandlePool(f, i, m, How(m))
           r9 == HandleUnknownDetectTransfers(f, i, m)
           called == CASE swaps -> r1 [] icns -> r2 [] quasar -> r3 [] isLevana -> r4 [] isRedbank -> r5
                       [] isCredit -> r6 [] isLimit -> r7 [] isPool -> r8 [] OTHER -> r9
<1>1. result = IF broken THEN Raised(f) ELSE called
  BY DEF HandleOsmoContract
<1>2. OK(HandleContractSwap(f, i, m)) /\ OK(HandleIcns(f, i, m)) /\ OK(Raised(f)) /\ OK(HandleUnknownDetectTransfers(f, i, m))
  BY OtherContractsTidy, TidyRaised, UnknownTidy
<1>3. quasar => OK(HandleQuasar(f, i, m))
  BY OtherContractsTidy
<1>4. Calls(m, levana) => OK(HandleLevana(f, i, m, How(m)))
  BY CalledHow, LevanaTidy
<1>5. Calls(m, redbank) => OK(HandleRedBank(f, i, m, How(m)))
  <2>. SUFFICES ASSUME Calls(m, redbank) PROVE OK(HandleRedBank(f, i, m, How(m)))
    OBVIOUS
  <2>1. How(m) \in redbank /\ How(m) \in m.flags
    BY CalledHow
  <2>2. How(m) \in {"repay", "borrow"} => repeats
    BY <2>1 DEF Calls
  <2>. QED
    BY <2>1, <2>2, RedBankTidy
<1>6. Calls(m, credit) => OK(HandleCreditManager(f, i, m, How(m)))
  <2>. SUFFICES ASSUME Calls(m, credit) PROVE OK(HandleCreditManager(f, i, m, How(m)))
    OBVIOUS
  <2>1. How(m) \in credit /\ How(m) \in m.flags
    BY CalledHow
  <2>2. How(m) = "update_credit" => Calls(m, {"update_credit"})
    BY <2>1 DEF Calls
  <2>. QED
    BY <2>1, <2>2, CreditManagerTidy
<1>7. Calls(m, limit) => OK(HandleLimitOrder(f, i, m, How(m), orders))
  <2>. SUFFICES ASSUME Calls(m, limit) PROVE OK(HandleLimitOrder(f, i, m, How(m), orders))
    OBVIOUS
  <2>1. How(m) \in limit
    BY CalledHow
  <2>. QED
    BY <2>1, LimitOrderTidy
<1>8. Calls(m, pool) => OK(HandlePool(f, i, m, How(m)))
  <2>. SUFFICES ASSUME Calls(m, pool) PROVE OK(HandlePool(f, i, m, How(m)))
    OBVIOUS
  <2>1. How(m) \in pool /\ How(m) \in m.flags
    BY CalledHow
  <2>2. How(m) \in {"place_limit", "cancel_limit"} => repeats
    BY <2>1 DEF Calls
  <2>. QED
    BY <2>1, <2>2, PoolTidy
<1>. HIDE DEF OK, swaps, icns, quasar, isLevana, isRedbank, isCredit, isLimit, isPool, broken,
              r1, r2, r3, r4, r5, r6, r7, r8, r9
<1>9. \/ (swaps /\ called = r1) \/ (icns /\ called = r2) \/ (quasar /\ called = r3) \/ (isLevana /\ called = r4)
      \/ (isRedbank /\ called = r5) \/ (isCredit /\ called = r6) \/ (isLimit /\ called = r7)
      \/ (isPool /\ called = r8) \/ called = r9
  OBVIOUS
<1>10. /\ OK(r1) /\ OK(r2) /\ OK(r9) /\ (quasar => OK(r3)) /\ (isLevana => OK(r4)) /\ (isRedbank => OK(r5))
       /\ (isCredit => OK(r6)) /\ (isLimit => OK(r7)) /\ (isPool => OK(r8))
  BY <1>2, <1>3, <1>4, <1>5, <1>6, <1>7, <1>8
     DEF quasar, isLevana, isRedbank, isCredit, isLimit, isPool, r1, r2, r3, r4, r5, r6, r7, r8, r9
<1>. HIDE DEF called, result
<1>11. OK(called)
  BY <1>9, <1>10
<1>12. OK(result)
  BY <1>1, <1>2, <1>11
<1>. QED
  BY <1>12 DEF OK, result

LEMMA LpMessageTidy ==
  ASSUME NEW f \in BOOLEAN, NEW i, NEW repeats \in BOOLEAN, NEW one \in BOOLEAN, NEW m \in Messages, NEW locks,
         m.type \in LpTypes, one => OneFeeRow(m)
  PROVE  Tidy(HandleLp(f, i, m, locks), f, i, repeats, one)
<1> DEFINE result == HandleLp(f, i, m, locks)
           OK(r) == Tidy(r, f, i, repeats, one)
           r1 == HandleLpDeposit(f, i, m)
           r2 == HandleLpDepositPartial(f, i, m)
           r3 == HandleLpWithdraw(f, i, m)
           r4 == HandleLpStake(f, i, m)
           r5 == HandleLpUnstake(f, i, m, locks)
           r6 == HandleOsmoSimple(f, i, m)
           r7 == HandleSuperfluid(f, i, m)
           r8 == HandleUndelegateOrUnbond(f, i, m)
<1>1. m.type # "TRANSFER"
  BY DEF LpTypes, LockTypes
<1>2. one /\ m.type \in {"MsgJoinPool", "MsgExitPool"} => m.event.legs = <<>>
  BY DEF OneFeeRow
<1>3. m.type \in {"MsgJoinPool", "MsgExitPool"} => OK(r1) /\ OK(r3)
  BY <1>2, SwapTidy
<1>4. OK(r2) /\ OK(r4) /\ OK(r5) /\ OK(r6) /\ OK(r7) /\ OK(r8)
  BY <1>1, LpTidy, OsmoSimpleTidy
<1>5. result = CASE m.type = "MsgJoinPool" -> r1 [] m.type = "MsgJoinSwapExternAmountIn" -> r2
                 [] m.type = "MsgExitPool" -> r3 [] m.type \in LockTypes -> r4
                 [] m.type = "MsgBeginUnlocking" -> r5 [] m.type = "MsgUnlockPeriodLock" -> r6
                 [] m.type = "MsgSuperfluidDelegate" -> r7 [] m.type = "MsgSuperfluidUndelegate" -> r8
  BY DEF HandleLp
<1>. HIDE DEF result, OK, r1, r2, r3, r4, r5, r6, r7, r8
<1>6. \/ (m.type = "MsgJoinPool" /\ result = r1) \/ (m.type = "MsgExitPool" /\ result = r3)
      \/ result = r2 \/ result = r4 \/ result = r5 \/ result = r6 \/ result = r7 \/ result = r8
  BY <1>5 DEF LpTypes, LockTypes
<1>7. OK(result)
  BY <1>3, <1>4, <1>6
<1>. QED
  BY <1>7 DEF OK, result

LEMMA PositionMessageTidy ==
  ASSUME NEW f \in BOOLEAN, NEW i, NEW repeats \in BOOLEAN, NEW one \in BOOLEAN, NEW m \in Messages, NEW positions,
         m.type \in PositionTypes, one => OneFeeRow(m)
  PROVE  Tidy(HandlePosition(f, i, m, positions), f, i, repeats, one)
<1> DEFINE result == HandlePosition(f, i, m, positions)
           OK(r) == Tidy(r, f, i, repeats, one)
           migrates == "MsgUnlockAndMigrateSharesToFullRangeConcentratedPosition"
           r1 == HandleCreatePosition(f, i, m, positions)
           r2 == HandleAddToPosition(f, i, m, positions)
           r3 == HandleCollect(f, i, m)
           r4 == HandleWithdrawPosition(f, i, m)
           r5 == HandleMigrate(f, i, m, positions)
<1>1. m.type # "TRANSFER"
  BY DEF PositionTypes, CreateTypes
<1>2. (one /\ m.type = "MsgAddToPosition" => m.event.legs = <<>>) /\ (one => m.type # migrates)
  BY DEF OneFeeRow
<1>3. OK(r1) /\ OK(r3) /\ OK(r4)
  BY <1>1, PositionTidy
<1>4. m.type = "MsgAddToPosition" => OK(r2)
  BY <1>2, AddToPositionTidy
<1>5. m.type = migrates => OK(r5)
  BY <1>1, <1>2, MigrateTidy
<1>6. result = CASE m.type \in CreateTypes -> r1 [] m.type = "MsgAddToPosition" -> r2
                 [] m.type = "MsgCollectIncentives" -> r3 [] m.type = "MsgWithdrawPosition" -> r4 [] m.type = migrates -> r5
  BY DEF HandlePosition
<1>. HIDE DEF result, OK, r1, r2, r3, r4, r5
<1>7. \/ (m.type = "MsgAddToPosition" /\ result = r2) \/ (m.type = migrates /\ result = r5)
      \/ result = r1 \/ result = r3 \/ result = r4
  BY <1>6 DEF PositionTypes, CreateTypes
<1>8. OK(result)
  BY <1>3, <1>4, <1>5, <1>7
<1>. QED
  BY <1>8 DEF OK, result

LEMMA OsmoTidy ==
  ASSUME NEW f \in BOOLEAN, NEW i, NEW repeats \in BOOLEAN, NEW one \in BOOLEAN, NEW m \in Messages, NEW kept,
         m.type \in OsmoTypes,
         Calls(m, {"place_limit", "cancel_limit", "repay", "borrow"}) => repeats,
         one => OneFeeRow(m)
  PROVE  Tidy(HandleOsmo(f, i, m, kept), f, i, repeats, one)
<1> DEFINE result == HandleOsmo(f, i, m, kept)
           OK(r) == Tidy(r, f, i, repeats, one)
           r1 == HandleSwap(f, i, m)
           r2 == HandleLp(f, i, m, kept.locks)
           r3 == HandlePosition(f, i, m, kept.positions)
           r4 == HandleOsmoContract(f, i, m, kept.orders)
           r5 == HandleOsmoSimple(f, i, m)
<1>1. m.type # "TRANSFER"
  BY DEF OsmoTypes, LpTypes, PositionTypes, LockTypes, SwapTypes, CreateTypes
<1>2. /\ one /\ m.type \in SwapTypes => m.event.legs = <<>>
      /\ one /\ Calls(m, {"quasar"}) => Len(Transfers(m).in) <= 1
      /\ one /\ Calls(m, {"update_credit"}) =>
           \A k \in DOMAIN m.event.legs : m.event.legs[k].does \notin {"other", "eventless"}
  BY DEF OneFeeRow
<1>3. m.type \in SwapTypes => OK(r1)
  BY <1>2, SwapTidy
<1>4. m.type \in LpTypes => OK(r2)
  BY LpMessageTidy
<1>5. m.type \in PositionTypes => OK(r3)
  BY PositionMessageTidy
<1>6. OK(r4)
  BY <1>1, <1>2, OsmoContractTidy
<1>7. OK(r5)
  BY <1>1, OsmoSimpleTidy
<1>8. result = CASE m.type \in SwapTypes -> r1 [] m.type \in LpTypes -> r2 [] m.type \in PositionTypes -> r3
                 [] m.type = "MsgExecuteContract" -> r4 [] m.type = "MsgAddAuthenticator" -> r5
  BY DEF HandleOsmo
<1>. HIDE DEF result, OK, r1, r2, r3, r4, r5
<1>9. \/ (m.type \in SwapTypes /\ result = r1) \/ (m.type \in LpTypes /\ result = r2)
      \/ (m.type \in PositionTypes /\ result = r3) \/ result = r4 \/ result = r5
  BY <1>8 DEF OsmoTypes
<1>10. OK(result)
  BY <1>3, <1>4, <1>5, <1>6, <1>7, <1>9
<1>. QED
  BY <1>10 DEF OK, result

\* A MsgExec of Osmosis has no fee to show.
LEMMA OsmoExecTidy ==
  ASSUME NEW f \in BOOLEAN, NEW i, NEW repeats \in BOOLEAN, NEW one \in BOOLEAN, NEW m \in Messages, m.type # "TRANSFER"
  PROVE  Tidy(HandleOsmoExec(m, i), f, i, repeats, one)
<1>1. ASSUME NEW result, Tidy(result, FALSE, i, repeats, FALSE), ~result.raised
      PROVE  Tidy(result, f, i, repeats, one)
  BY <1>1, TidyFree
<1>2. Tidy(HandleLpStake(FALSE, i, m), f, i, repeats, one)
  BY <1>1, LpTidy
<1>3. Tidy(HandleSwap(FALSE, i, m), f, i, repeats, one)
  BY <1>1, SwapTidy
<1>4. /\ Tidy(Ingested(<<UnknownRow(FALSE, i)>>, FALSE), f, i, repeats, one)
      /\ Tidy(Ingested(<<>>, FALSE), f, i, repeats, one)
  <2>1. ~Ingested(<<UnknownRow(FALSE, i)>>, FALSE).raised /\ ~Ingested(<<>>, FALSE).raised
    BY DEF Ingested
  <2>2. Tidy(Ingested(<<UnknownRow(FALSE, i)>>, FALSE), FALSE, i, repeats, FALSE) /\ Tidy(Ingested(<<>>, FALSE), FALSE, i, repeats, FALSE)
    BY TidySimple, TidyNone
  <2>. QED
    BY <1>1, <2>1, <2>2
<1>. QED
  BY <1>2, <1>3, <1>4 DEF HandleOsmoExec

-----------------------------------------------------------------------------
(* What a message does to a report *)

\* A result whose transfers are about no deposit.
NoDeposit(result) == \A k \in DOMAIN result.rows : result.rows[k].type = "TRANSFER" => result.rows[k].about = 0

\* Rows of the message that is handled may show the fee whatever its index.
Repeats == RepeatsFee(info.m) /\ (info.m.type = "MsgStart" => chain = "dvpn" /\ at \notin handled)

\* The result of the message that is handled.
IsTidy(result) == Tidy(result, fee, info.i, Repeats, OneFeeRow(info.m))
IsNeat(result) == Neat(result, fee, info.i, Repeats, OneFeeRow(info.m))

\* A message that is handled, and one whose handler raises and ends the report.
MessageStep ==
  \E result :
    /\ Take(result) /\ IsNeat(result)
    /\ handled \subseteq handled'
    /\ chain = "dvpn" /\ info.m.type = "MsgStart" => at \in handled'
    /\ \/ /\ NoDeposit(result) /\ deposits' = deposits
          /\ chain = "inj" /\ Claims(info.m) => info.m.nonce \in deposits
       \/ /\ info.m.nonce # 0 /\ info.m.nonce \notin deposits /\ deposits' = deposits \cup {info.m.nonce}
          /\ Counts(result.rows, info.m.nonce)

MessageRaises == pc' = "raised" /\ UNCHANGED <<report, at, msgs, next, fee, memory, rows>>

LEMMA TidyIsNeat ==
  ASSUME NEW result, NEW f, NEW i, NEW repeats, NEW one, Tidy(result, f, i, repeats, one)
  PROVE  Neat(result, f, i, repeats, one) /\ NoDeposit(result)
  BY DEF Tidy, Neat, NoDeposit

\* The row of common/ibc for a handler that raised.
LEMMA UnknownRowTidy ==
  ASSUME NEW f \in BOOLEAN, NEW g \in BOOLEAN, g => f, NEW i, NEW repeats \in BOOLEAN, NEW one \in BOOLEAN
  PROVE  Tidy(Ingested(<<UnknownRow(g, i)>>, g), f, i, repeats, one)
<1> DEFINE result == Ingested(<<UnknownRow(g, i)>>, g)
<1>1. Tidy(result, g, i, repeats, one)
  BY TidyIbcRow DEF UnknownRow
<1>2. Shows(g, i, repeats) => Shows(f, i, repeats)
  BY DEF Shows
<1>. HIDE DEF result
<1>3. Tidy(result, f, i, repeats, one)
  BY <1>1, <1>2 DEF Tidy
<1>. QED
  BY <1>3 DEF result

\* The rows of the transfers of a message whose handler raised, after those it made.
LEMMA DetectTidy ==
  ASSUME NEW f \in BOOLEAN, NEW i, NEW repeats \in BOOLEAN, NEW one \in BOOLEAN, NEW m \in Messages,
         NEW result, Tidy(result, f, i, repeats, one), result.raised
  PROVE  Tidy(Ingested(result.rows \o IngestRows(result.fee, i, DetectRows(m)), result.fee), f, i, repeats, one)
<1> DEFINE rs == result.rows
           left == result.fee
           ds == IngestRows(left, i, DetectRows(m))
           all == rs \o ds
           made == Ingested(all, left)
<1>1. /\ IsSeq(rs) /\ left \in BOOLEAN /\ (left => f)
      /\ \A k \in DOMAIN rs :
           /\ rs[k].fee => Shows(f, i, repeats)
           /\ rs[k].type = "TRANSFER" => rs[k].about = 0
           /\ Receipt(rs[k]) => ~left
      /\ \A j, k \in DOMAIN rs : j < k /\ Receipt(rs[j]) => ~rs[k].fee
      /\ one => rs = <<>>
  BY DEF Tidy
<1>. HIDE DEF rs, left
<1>2. Lines(ds, FirstFee(left, i)) /\ Once(ds)
  BY <1>1, DetectedLines
<1>3. /\ IsSeq(ds)
      /\ \A k \in DOMAIN ds : ds[k].type # "TRANSFER" /\ ~Receipt(ds[k]) /\ (ds[k].fee => left /\ Shows(f, i, repeats))
  BY <1>1, <1>2 DEF Lines, FirstFee, Shows, Receipt
<1>. HIDE DEF ds
<1>4. /\ Len(rs) \in Nat /\ DOMAIN rs = 1 .. Len(rs) /\ Len(ds) \in Nat /\ DOMAIN ds = 1 .. Len(ds)
      /\ IsSeq(all) /\ DOMAIN all = 1 .. (Len(rs) + Len(ds))
      /\ \A k \in 1 .. Len(rs) : all[k] = rs[k]
      /\ \A k \in (Len(rs) + 1) .. (Len(rs) + Len(ds)) : k - Len(rs) \in DOMAIN ds /\ all[k] = ds[k - Len(rs)]
  BY <1>1, <1>3, IsSeqType, Joined
<1>5. one => all = ds
  <2>1. \A s : IsSeq(s) => <<>> \o s = s
    BY IsSeqType
  <2>. QED
    BY <1>1, <1>3, <2>1
<1>. HIDE DEF all
<1>6. \A k \in DOMAIN all : \/ k \in DOMAIN rs /\ all[k] = rs[k]
                            \/ k \notin DOMAIN rs /\ \E l \in DOMAIN ds : all[k] = ds[l]
  BY <1>4
<1>7. \A j, k \in DOMAIN all : j < k /\ k \in DOMAIN rs => j \in DOMAIN rs
  BY <1>4
<1>8. \A k \in DOMAIN all :
        /\ all[k].fee => Shows(f, i, repeats)
        /\ all[k].type = "TRANSFER" => all[k].about = 0
        /\ Receipt(all[k]) => ~left
  BY <1>1, <1>3, <1>6
<1>9. \A j, k \in DOMAIN all : j < k /\ Receipt(all[j]) => ~all[k].fee
  BY <1>1, <1>3, <1>6, <1>7, <1>8
<1>10. made.rows = all /\ made.fee = left /\ made.raised = FALSE
  BY DEF Ingested
<1>11. one => Once(all)
  BY <1>2, <1>5
<1>. HIDE DEF made
<1>12. Tidy(made, f, i, repeats, one)
  BY <1>1, <1>4, <1>8, <1>9, <1>10, <1>11 DEF Tidy
<1>. QED
  BY <1>12 DEF made, all, ds, rs, left

LEMMA ChainTypesAre ==
  /\ chain = "inj" => ChainTypes = {"MsgDepositClaim", "MsgSendToEth"}
  /\ chain = "dvpn" => ChainTypes = {"MsgStart", "MsgSubscribeToNode"}
  /\ "MsgStart" \in ChainTypes => chain = "dvpn"
<1> DEFINE c1 == {"MsgLiquidStake", "MsgClaimFreeAmount"}
           c2 == {"MsgDepositClaim", "MsgSendToEth"}
           c3 == {"MsgEthereumTx"}
           c4 == {"MsgInitialClaim"}
           c5 == {"MsgExecuteContract"}
           c6 == {"MsgStart", "MsgSubscribeToNode"}
           types == ChainTypes
<1>1. types = CASE chain = "strd" -> c1 [] chain = "inj" -> c2 [] chain = "dym" -> c3 [] chain = "stars" -> c4
                [] chain = "ntrn" -> c5 [] chain = "osmo" -> OsmoTypes [] chain = "dvpn" -> c6 [] OTHER -> {}
  BY DEF ChainTypes
<1>2. /\ \A c \in {c1, c2, c3, c4, c5, {}} : "MsgStart" \notin c
      /\ "MsgStart" \notin OsmoTypes
  BY DEF OsmoTypes, LpTypes, PositionTypes, LockTypes, SwapTypes, CreateTypes
<1>. HIDE DEF c1, c2, c3, c4, c5, c6, types
<1>3. \/ types \in {c1, c2, c3, c4, c5, {}} \/ types = OsmoTypes \/ (chain = "dvpn" /\ types = c6)
  BY <1>1
<1>4. chain = "inj" => types = c2
  BY <1>1
<1>5. chain = "dvpn" => types = c6
  BY <1>1
<1>6. "MsgStart" \in types => chain = "dvpn"
  BY <1>2, <1>3
<1>. QED
  BY <1>4, <1>5, <1>6 DEF types, c2, c6

LEMMA TidyStep ==
  ASSUME NEW result, IsTidy(result), Take(result), deposits' = deposits, handled \subseteq handled',
         chain = "dvpn" /\ info.m.type = "MsgStart" => at \in handled',
         chain = "inj" /\ Claims(info.m) => info.m.nonce \in deposits
  PROVE  MessageStep
<1>1. IsNeat(result) /\ NoDeposit(result)
  BY TidyIsNeat DEF IsTidy, IsNeat
<1>. QED
  BY <1>1 DEF MessageStep

\* What the lemmas of the messages assume.
Handling == fee \in BOOLEAN /\ info.m \in Messages

LEMMA Booleans == Repeats \in BOOLEAN /\ (\A m : RepeatsFee(m) \in BOOLEAN /\ OneFeeRow(m) \in BOOLEAN)
<1>1. \A m : RepeatsFee(m) \in BOOLEAN
  BY DEF RepeatsFee
<1>2. \A m : OneFeeRow(m) \in BOOLEAN
  BY DEF OneFeeRow
<1>3. Repeats \in BOOLEAN
  BY DEF Repeats
<1>. QED
  BY <1>1, <1>2, <1>3

\* A handler of common/ibc.
LEMMA CommonStep ==
  ASSUME Handling, NEW result, IsTidy(result),
         Take(IF result.raised THEN HandleUnknown(result.fee) ELSE result),
         deposits' = deposits, handled' = handled, info.m.type \notin {"MsgStart", "MsgDepositClaim"}
  PROVE  MessageStep
<1> DEFINE made == IF result.raised THEN HandleUnknown(result.fee) ELSE result
<1>1. result.fee \in BOOLEAN /\ (result.fee => fee) /\ result.raised \in BOOLEAN
  BY DEF IsTidy, Tidy
<1>2. IsTidy(HandleUnknown(result.fee))
  BY <1>1, UnknownRowTidy, Booleans DEF IsTidy, HandleUnknown, Handling
<1>3. IsTidy(made)
  BY <1>1, <1>2
<1>. HIDE DEF made
<1>4. Take(made)
  BY DEF made
<1>. QED
  BY <1>3, <1>4, TidyStep DEF Claims

\* A handler of a chain.
LEMMA DetectStep ==
  ASSUME Handling, NEW result, IsTidy(result), Take(OrDetect(result)),
         deposits' = deposits, handled' = handled, info.m.type \notin {"MsgStart", "MsgDepositClaim"}
  PROVE  MessageStep
<1>1. result.raised \in BOOLEAN
  BY DEF IsTidy, Tidy
<1>2. IsTidy(OrDetect(result))
  BY <1>1, DetectTidy, Booleans DEF IsTidy, OrDetect, Handling
<1>. QED
  BY <1>2, TidyStep DEF Claims

\* Messages whose rows may show the fee whatever their index.
LEMMA RepeatsAre ==
  /\ info.m.type \in {"MsgVote", "MsgDeposit", "MsgSend", "MsgTransfer", "MsgMultiSend", "MsgSendToEth", "MsgEthereumTx",
                      "MsgInitialClaim", "MsgSubscribeToNode"} => Repeats
  /\ info.m.type = "MsgExecuteContract" /\ chain = "ntrn" => Repeats
  /\ info.m.type # "MsgStart" /\ chain = "osmo" /\ Calls(info.m, {"place_limit", "cancel_limit", "repay", "borrow"}) => Repeats
  /\ info.m.type = "MsgStart" /\ chain = "dvpn" /\ at \notin handled => Repeats
<1>1. info.m.type \in {"MsgVote", "MsgDeposit", "MsgSend", "MsgTransfer", "MsgMultiSend", "MsgSendToEth", "MsgEthereumTx",
                       "MsgInitialClaim", "MsgSubscribeToNode", "MsgStart"} => RepeatsFee(info.m)
  BY DEF RepeatsFee
<1>2. info.m.type = "MsgExecuteContract" /\ chain = "ntrn" => RepeatsFee(info.m)
  BY DEF RepeatsFee
<1>3. chain = "osmo" /\ Calls(info.m, {"place_limit", "cancel_limit", "repay", "borrow"}) => RepeatsFee(info.m)
  BY DEF RepeatsFee
<1>. QED
  BY <1>1, <1>2, <1>3 DEF Repeats

LEMMA CommonMessages ==
  ASSUME Handling, CommonMessage
  PROVE  MessageStep
<1> DEFINE m == info.m
           Done(result) == /\ m.type \in CommonTypes /\ IsTidy(result)
                           /\ Take(IF result.raised THEN HandleUnknown(result.fee) ELSE result)
                           /\ deposits' = deposits /\ handled' = handled
<1>1. \A result : Done(result) => MessageStep
  BY CommonStep DEF CommonTypes
<1>2. /\ fee \in BOOLEAN /\ m \in Messages /\ Repeats \in BOOLEAN /\ OneFeeRow(m) \in BOOLEAN
  BY Booleans DEF Handling
<1>3. ASSUME NEW result, Common(result), m.type \in CommonTypes, IsTidy(result) PROVE Done(result)
  BY <1>3 DEF Common, memory
<1>4. ASSUME Vote PROVE MessageStep
  <2>1. m.type = "MsgVote" /\ m.type \in CommonTypes /\ Common(HandleSimple(fee, info.i, m))
    BY <1>4 DEF Vote, At, CommonTypes
  <2>2. IsTidy(HandleSimple(fee, info.i, m))
    BY <1>2, <2>1, RepeatsAre, SimpleTidy DEF IsTidy
  <2>. QED
    BY <1>1, <1>3, <2>1, <2>2
<1>5. ASSUME Proposal PROVE MessageStep
  <2>1. m.type = "MsgDeposit" /\ m.type \in CommonTypes /\ Common(HandleProposal(fee, info.i, m))
    BY <1>5 DEF Proposal, At, CommonTypes
  <2>2. IsTidy(HandleProposal(fee, info.i, m))
    BY <1>2, <2>1, RepeatsAre, ProposalTidy DEF IsTidy
  <2>. QED
    BY <1>1, <1>3, <2>1, <2>2
<1>6. ASSUME Staking PROVE MessageStep
  <2>1. m.type = "MsgDelegate" /\ m.type \in CommonTypes /\ Common(HandleStaking(fee, info.i, m))
    BY <1>6 DEF Staking, At, CommonTypes
  <2>2. IsTidy(HandleStaking(fee, info.i, m))
    BY <1>2, <2>1, StakingTidy DEF IsTidy
  <2>. QED
    BY <1>1, <1>3, <2>1, <2>2
<1>7. ASSUME Send PROVE MessageStep
  <2>1. m.type \in {"MsgSend", "MsgTransfer"} /\ m.type \in CommonTypes /\ Common(HandleTransfer(fee, info.i, m))
    BY <1>7 DEF Send, At, CommonTypes
  <2>2. OneFeeRow(m) => Len(m.flows) <= 1
    BY <2>1 DEF OneFeeRow
  <2>3. IsTidy(HandleTransfer(fee, info.i, m))
    BY <1>2, <2>1, <2>2, RepeatsAre, TransferTidy DEF IsTidy
  <2>. QED
    BY <1>1, <1>3, <2>1, <2>3
<1>8. ASSUME Multisend PROVE MessageStep
  <2>1. m.type = "MsgMultiSend" /\ m.type \in CommonTypes /\ Common(HandleMultisend(fee, info.i, m))
    BY <1>8 DEF Multisend, At, CommonTypes
  <2>2. IsTidy(HandleMultisend(fee, info.i, m))
    BY <1>2, <2>1, RepeatsAre, MultisendTidy DEF IsTidy
  <2>. QED
    BY <1>1, <1>3, <2>1, <2>2
<1>9. ASSUME Exec PROVE MessageStep
  <2>1. m.type = "MsgExec" /\ m.type \in CommonTypes /\ Common(HandleExec(fee, info.i, m))
    BY <1>9 DEF Exec, At, CommonTypes
  <2>2. IsTidy(HandleExec(fee, info.i, m))
    BY <1>2, <2>1, ExecTidy DEF IsTidy
  <2>. QED
    BY <1>1, <1>3, <2>1, <2>2
<1>10. ASSUME Grant PROVE MessageStep
  <2>1. m.type = "MsgGrant" /\ m.type \in CommonTypes /\ Common(HandleGrant(fee, info.i, m))
    BY <1>10 DEF Grant, At, CommonTypes
  <2>2. IsTidy(HandleGrant(fee, info.i, m))
    BY <1>2, <2>1, GrantTidy DEF IsTidy
  <2>. QED
    BY <1>1, <1>3, <2>1, <2>2
<1>11. ASSUME Silent PROVE MessageStep
  <2>1. m.type = "MsgTimeout" /\ m.type \in CommonTypes /\ Common(HandleSilent(fee, info.i, m))
    BY <1>11 DEF Silent, At, CommonTypes
  <2>2. IsTidy(HandleSilent(fee, info.i, m))
    BY <1>2, <2>1, GrantTidy DEF IsTidy
  <2>. QED
    BY <1>1, <1>3, <2>1, <2>2
<1>. QED
  BY <1>4, <1>5, <1>6, <1>7, <1>8, <1>9, <1>10, <1>11 DEF CommonMessage

LEMMA DepositStep ==
  ASSUME Handling, DepositClaim
  PROVE  MessageStep
<1> DEFINE m == info.m
           result == HandleDepositClaim(fee, info.i, m, deposits)
           fresh == Brings(m, deposits)
<1>1. /\ fee \in BOOLEAN /\ m \in Messages /\ Repeats \in BOOLEAN /\ OneFeeRow(m) \in BOOLEAN
  BY Booleans DEF Handling
<1>2. /\ m.type = "MsgDepositClaim" /\ Take(OrDetect(result)) /\ deposits' = Deposited(m) /\ handled' = handled
  BY DEF DepositClaim, AtChain, At
<1>3. m.nonce # 0
  BY <1>1, <1>2, MessageType
<1>4. /\ fresh => IsNeat(result) /\ ~result.raised /\ Counts(result.rows, m.nonce)
      /\ ~fresh => IsTidy(result)
  <2> DEFINE repeats == Repeats
             one == OneFeeRow(m)
             i == info.i
  <2>1. fee \in BOOLEAN /\ repeats \in BOOLEAN /\ one \in BOOLEAN /\ result = HandleDepositClaim(fee, i, m, deposits)
    BY <1>1
  <2>. HIDE DEF repeats, one, result, i, m
  <2>2. /\ fresh => Neat(result, fee, i, repeats, one) /\ ~result.raised /\ Counts(result.rows, m.nonce)
        /\ ~fresh => Tidy(result, fee, i, repeats, one)
    BY <2>1, DepositClaimIs
  <2>. QED
    BY <2>2 DEF IsNeat, IsTidy, repeats, one, i, m
<1>. HIDE DEF result
<1>5. CASE fresh
  <2>1. OrDetect(result) = result
    BY <1>4, <1>5 DEF OrDetect
  <2>2. deposits' = deposits \cup {m.nonce}
    BY <1>2, <1>5 DEF Deposited, Claims, Brings
  <2>. QED
    BY <1>2, <1>3, <1>4, <1>5, <2>1, <2>2 DEF MessageStep, Brings
<1>6. CASE ~fresh
  <2>1. deposits' = deposits /\ (Claims(m) => m.nonce \in deposits)
    BY <1>2, <1>6 DEF Deposited, Claims, Brings
  <2>2. IsTidy(OrDetect(result))
    <3>1. IsTidy(result) /\ result.raised \in BOOLEAN
      BY <1>4, <1>6 DEF IsTidy, Tidy
    <3>. QED
      BY <1>1, <3>1, DetectTidy DEF IsTidy, OrDetect
  <2>. QED
    BY <1>2, <2>1, <2>2, TidyStep
<1>. QED
  BY <1>5, <1>6

LEMMA SessionSteps ==
  ASSUME Handling
  PROVE  /\ StartSession => MessageStep
         /\ SubscribeToNode => MessageStep \/ MessageRaises
<1> DEFINE m == info.m
<1>1. /\ fee \in BOOLEAN /\ m \in Messages /\ Repeats \in BOOLEAN /\ OneFeeRow(m) \in BOOLEAN
  BY Booleans DEF Handling
<1>2. ASSUME StartSession PROVE MessageStep
  <2> DEFINE result == HandleSpendFee(fee, info.i, m, at \in handled)
  <2>1. /\ m.type = "MsgStart" /\ Take(result) /\ deposits' = deposits /\ handled' = handled \cup {at}
        /\ "MsgStart" \in ChainTypes
    BY <1>2 DEF StartSession, AtChain, At
  <2>2. chain = "dvpn"
    BY <2>1, ChainTypesAre
  <2>3. IsTidy(result)
    <3>1. CASE at \in handled
      BY <1>1, <3>1, TidyNone DEF IsTidy, HandleSpendFee
    <3>2. CASE at \notin handled
      <4>1. Repeats
        BY <2>1, <2>2, <3>2, RepeatsAre
      <4>. QED
        BY <1>1, <2>1, <4>1, SentinelTidy DEF IsTidy
    <3>. QED
      BY <3>1, <3>2
  <2>. HIDE DEF result
  <2>. QED
    BY <2>1, <2>3, TidyStep DEF Claims
<1>3. ASSUME SubscribeToNode PROVE MessageStep \/ MessageRaises
  <2> DEFINE result == HandleSubscribedToNode(fee, info.i, m)
  <2>1. /\ m.type = "MsgSubscribeToNode" /\ deposits' = deposits /\ handled' = handled /\ UNCHANGED memory
        /\ IF result.raised THEN pc' = "raised" /\ UNCHANGED <<report, at, msgs, next, fee, rows>> ELSE Take(result)
    BY <1>3 DEF SubscribeToNode, AtChain, At, memory
  <2>2. IsTidy(result)
    BY <1>1, <2>1, RepeatsAre, SentinelTidy DEF IsTidy
  <2>3. result.raised \in BOOLEAN
    BY <2>2 DEF IsTidy, Tidy
  <2>. HIDE DEF result
  <2>4. CASE result.raised
    BY <2>1, <2>4 DEF MessageRaises
  <2>5. CASE ~result.raised
    BY <2>1, <2>2, <2>5, TidyStep DEF Claims
  <2>. QED
    BY <2>3, <2>4, <2>5
<1>. QED
  BY <1>2, <1>3

LEMMA OsmoSteps ==
  ASSUME Handling, OsmoMessage \/ OsmoExec
  PROVE  MessageStep
<1> DEFINE m == info.m
<1>1. /\ fee \in BOOLEAN /\ m \in Messages /\ Repeats \in BOOLEAN /\ OneFeeRow(m) \in BOOLEAN
  BY Booleans DEF Handling
<1>2. ASSUME OsmoMessage PROVE MessageStep
  <2> DEFINE result == HandleOsmo(fee, info.i, m, holdings)
  <2>1. /\ chain = "osmo" /\ m.type \in OsmoTypes /\ Take(OrDetect(result)) /\ deposits' = deposits /\ handled' = handled
    BY <1>2 DEF OsmoMessage, AtChain, At
  <2>2. m.type \notin {"MsgStart", "MsgDepositClaim"}
    BY <2>1 DEF OsmoTypes, LpTypes, PositionTypes, LockTypes, SwapTypes, CreateTypes
  <2>3. IsTidy(result)
    BY <1>1, <2>1, <2>2, RepeatsAre, OsmoTidy DEF IsTidy
  <2>. HIDE DEF result
  <2>. QED
    BY <2>1, <2>2, <2>3, DetectStep
<1>3. ASSUME OsmoExec PROVE MessageStep
  <2> DEFINE result == IF Calls(m, {"staking", "broken"}) THEN HandleExec(fee, info.i, m) ELSE HandleOsmoExec(m, info.i)
  <2>1. /\ m.type = "MsgExec" /\ deposits' = deposits /\ handled' = handled
        /\ Take(IF result.raised THEN HandleUnknown(result.fee) ELSE result)
    BY <1>3 DEF OsmoExec, At
  <2>2. IsTidy(HandleExec(fee, info.i, m)) /\ IsTidy(HandleOsmoExec(m, info.i))
    BY <1>1, <2>1, ExecTidy, OsmoExecTidy DEF IsTidy
  <2>3. IsTidy(result)
    BY <2>2
  <2>. HIDE DEF result
  <2>. QED
    BY <2>1, <2>3, CommonStep
<1>. QED
  BY <1>2, <1>3

LEMMA ChainMessages ==
  ASSUME Handling, ChainMessage
  PROVE  MessageStep \/ MessageRaises
<1> DEFINE m == info.m
<1>1. /\ fee \in BOOLEAN /\ m \in Messages /\ Repeats \in BOOLEAN /\ OneFeeRow(m) \in BOOLEAN
  BY Booleans DEF Handling
<1>2. ASSUME LiquidStake PROVE MessageStep
  <2>1. /\ m.type = "MsgLiquidStake" /\ Take(OrDetect(HandleLiquidStake(fee, info.i, m)))
        /\ deposits' = deposits /\ handled' = handled
    BY <1>2 DEF LiquidStake, AtChain, At, memory
  <2>2. OneFeeRow(m) => Len(Transfers(m).in) <= 1
    BY <2>1 DEF OneFeeRow
  <2>3. IsTidy(HandleLiquidStake(fee, info.i, m))
    BY <1>1, <2>2, LiquidStakeTidy DEF IsTidy
  <2>. QED
    BY <2>1, <2>3, DetectStep
<1>3. ASSUME ClaimFreeAmount PROVE MessageStep
  <2>1. /\ m.type = "MsgClaimFreeAmount" /\ Take(OrDetect(HandleClaimFreeAmount(fee, info.i, m)))
        /\ deposits' = deposits /\ handled' = handled
    BY <1>3 DEF ClaimFreeAmount, AtChain, At, memory
  <2>2. IsTidy(HandleClaimFreeAmount(fee, info.i, m))
    BY <1>1, TidyRaised DEF IsTidy, HandleClaimFreeAmount
  <2>. QED
    BY <2>1, <2>2, DetectStep
<1>4. ASSUME SendToEth PROVE MessageStep
  <2>1. /\ m.type = "MsgSendToEth" /\ Take(OrDetect(HandleSendToEth(fee, info.i, m)))
        /\ deposits' = deposits /\ handled' = handled
    BY <1>4 DEF SendToEth, AtChain, At, memory
  <2>2. IsTidy(HandleSendToEth(fee, info.i, m))
    BY <1>1, <2>1, RepeatsAre, SendToEthTidy DEF IsTidy
  <2>. QED
    BY <2>1, <2>2, DetectStep
<1>5. ASSUME EvmTransfer PROVE MessageStep
  <2>1. /\ m.type = "MsgEthereumTx" /\ Take(OrDetect(HandleEvmTransfer(fee, info.i, m)))
        /\ deposits' = deposits /\ handled' = handled
    BY <1>5 DEF EvmTransfer, AtChain, At, memory
  <2>2. IsTidy(HandleEvmTransfer(fee, info.i, m))
    BY <1>1, <2>1, RepeatsAre, EvmTransferTidy DEF IsTidy
  <2>. QED
    BY <2>1, <2>2, DetectStep
<1>6. ASSUME Airdrop PROVE MessageStep
  <2>1. /\ m.type = "MsgInitialClaim" /\ Take(HandleAirdrop(fee, info.i, m))
        /\ deposits' = deposits /\ handled' = handled
    BY <1>6 DEF Airdrop, AtChain, At, memory
  <2>2. IsTidy(HandleAirdrop(fee, info.i, m))
    BY <1>1, <2>1, RepeatsAre, AirdropTidy DEF IsTidy
  <2>. QED
    BY <2>1, <2>2, TidyStep DEF Claims
<1>7. ASSUME NtrnContract PROVE MessageStep
  <2>1. /\ chain = "ntrn" /\ m.type = "MsgExecuteContract" /\ Take(OrDetect(HandleNtrnContract(fee, info.i, m)))
        /\ deposits' = deposits /\ handled' = handled
    BY <1>7 DEF NtrnContract, AtChain, At, memory
  <2>2. IsTidy(HandleNtrnContract(fee, info.i, m))
    BY <1>1, <2>1, RepeatsAre, NtrnContractTidy DEF IsTidy
  <2>. QED
    BY <2>1, <2>2, DetectStep
<1>. QED
  BY <1>2, <1>3, <1>4, <1>5, <1>6, <1>7, DepositStep, SessionSteps, OsmoSteps DEF ChainMessage

LEMMA UnknownMessages ==
  ASSUME Handling, UnknownMessage
  PROVE  MessageStep
<1> DEFINE m == info.m
           result == HandleUnknownDetectTransfers(fee, info.i, m)
<1>1. /\ fee \in BOOLEAN /\ m \in Messages /\ Repeats \in BOOLEAN /\ OneFeeRow(m) \in BOOLEAN
  BY Booleans DEF Handling
<1>2. /\ Take(result) /\ deposits' = deposits /\ handled' = handled /\ m.type \notin ChainTypes
  BY DEF UnknownMessage, memory
<1>3. (chain = "inj" => m.type # "MsgDepositClaim") /\ (chain = "dvpn" => m.type # "MsgStart")
  BY <1>2, ChainTypesAre
<1>4. IsTidy(result)
  BY <1>1, UnknownTidy DEF IsTidy
<1>. HIDE DEF result
<1>. QED
  BY <1>2, <1>3, <1>4, TidyStep DEF Claims

-----------------------------------------------------------------------------
(* The messages of a transaction *)

LEMMA InfosAt ==
  ASSUME NEW ms \in Seq(Messages), NEW places \in SUBSET (DOMAIN ms)
  PROVE  LET infos == AtPlaces(Indexed(ms), places)
         IN  /\ IsSeq(infos)
             /\ \A k \in DOMAIN infos : infos[k].m \in Messages /\ (k > 1 => infos[k].i # 0)
             /\ \A p \in places : \E k \in DOMAIN infos : infos[k].m = ms[p]
<1> DEFINE all == Indexed(ms)
           infos == AtPlaces(Indexed(ms), places)
<1>1. Len(ms) \in Nat /\ DOMAIN ms = 1 .. Len(ms) /\ \A k \in DOMAIN ms : ms[k] \in Messages
  OBVIOUS
<1>2. all = [k \in 1 .. Len(ms) |-> [i |-> k - 1, m |-> ms[k]]]
  BY <1>1 DEF Indexed
<1>3. all = [k \in 1 .. Len(ms) |-> all[k]]
  BY <1>2
<1>4. IsSeq(all) /\ DOMAIN all = 1 .. Len(ms)
  BY <1>1, <1>3, FunctionIsSeq
<1>5. \A k \in 1 .. Len(ms) : all[k].i = k - 1 /\ all[k].m = ms[k]
  BY <1>2
<1>. HIDE DEF all
<1>6. places \in SUBSET (DOMAIN all)
  BY <1>1, <1>4
<1>7. PICK n, sel : Picks(AtPlaces(all, places), all, places, n, sel)
  BY <1>4, <1>6, AtPlacesIs DEF IsSeq
<1>8. /\ n \in Nat /\ infos = [k \in 1 .. n |-> all[sel[k]]]
      /\ \A k \in 1 .. n : sel[k] \in places
      /\ \A k, l \in 1 .. n : k < l => sel[k] < sel[l]
      /\ \A p \in places : \E k \in 1 .. n : sel[k] = p
  BY <1>7 DEF Picks, all
<1>. HIDE DEF infos
<1>9. infos = [k \in 1 .. n |-> infos[k]] /\ \A k \in 1 .. n : infos[k] = all[sel[k]]
  BY <1>8
<1>10. IsSeq(infos) /\ DOMAIN infos = 1 .. n
  BY <1>8, <1>9, FunctionIsSeq
<1>11. \A k \in 1 .. n : sel[k] \in 1 .. Len(ms) /\ infos[k].m = ms[sel[k]] /\ infos[k].i = sel[k] - 1
  BY <1>1, <1>5, <1>8, <1>9
<1>12. \A k \in 1 .. n : k > 1 => sel[k] > 1
  <2>. TAKE k \in 1 .. n
  <2>. HAVE k > 1
  <2>1. 1 \in 1 .. n /\ 1 < k
    BY <1>8
  <2>2. sel[1] < sel[k]
    BY <1>8, <2>1
  <2>. QED
    BY <1>11, <2>1, <2>2
<1>13. \A k \in DOMAIN infos : infos[k].m \in Messages /\ (k > 1 => infos[k].i # 0)
  BY <1>1, <1>10, <1>11, <1>12
<1>14. \A p \in places : \E k \in DOMAIN infos : infos[k].m = ms[p]
  BY <1>8, <1>10, <1>11
<1>. QED
  BY <1>10, <1>13, <1>14 DEF infos

LEMMA SubMessagesAre ==
  ASSUME NEW m \in Messages
  PROVE  /\ IsSeq(SubMessages(m))
         /\ \A k \in DOMAIN SubMessages(m) :
              SubMessages(m)[k].m \in Messages /\ (k > 1 => SubMessages(m)[k].i # 0)
<1> DEFINE ms == m.subs
           places == {k \in DOMAIN m.subs : Relevant(m.subs[k])}
<1>1. ms \in Seq(Messages)
  <2>1. ms \in Seq(MessagesAround({<<>>}))
    BY MessageType
  <2>. QED
    BY <2>1, WrappedAreMessages
<1>2. places \in SUBSET (DOMAIN ms)
  OBVIOUS
<1>3. SubMessages(m) = AtPlaces(Indexed(ms), places)
  BY DEF SubMessages
<1>. HIDE DEF ms, places
<1>. QED
  BY <1>1, <1>2, <1>3, InfosAt

\* The messages of a transaction, of which only the first has index 0, unless several
\* MsgExec number what they wrap.
LEMMA InfosAre ==
  ASSUME NEW t \in Transactions
  PROVE  LET infos == MsgInfos(t)
         IN  /\ IsSeq(infos)
             /\ \A k \in DOMAIN infos : infos[k].m \in Messages
             /\ (IsAuthzNoLogs(t) => Len(t.msgs) = 1) => \A k \in DOMAIN infos : k > 1 => infos[k].i # 0
             /\ t.logs => \A p \in DOMAIN t.msgs : "null" \notin t.msgs[p].flags => \E k \in DOMAIN infos : infos[k].m = t.msgs[p]
<1> DEFINE ms == t.msgs
           infos == MsgInfos(t)
<1>1. ms \in Seq(Messages) /\ Len(ms) \in Nat /\ DOMAIN ms = 1 .. Len(ms) /\ t.logs \in BOOLEAN
  BY DEF Transactions
<1>2. CASE IsAuthzNoLogs(t)
  <2> DEFINE seqs == [k \in DOMAIN ms |-> SubMessages(ms[k])]
  <2>1. infos = FlattenSeq(seqs) /\ ~t.logs
    BY <1>2 DEF MsgInfos, IsAuthzNoLogs
  <2>2. \A k \in 1 .. Len(ms) : seqs[k] = SubMessages(ms[k]) /\ ms[k] \in Messages
    BY <1>1
  <2>3. seqs = [k \in 1 .. Len(ms) |-> seqs[k]]
    BY <1>1
  <2>. HIDE DEF seqs
  <2>4. IsSeq(seqs) /\ Len(seqs) = Len(ms) /\ DOMAIN seqs = 1 .. Len(ms)
    BY <1>1, <2>3, FunctionIsSeq
  <2>5. \A k \in 1 .. Len(seqs) :
          IsSeq(seqs[k]) /\ \A l \in DOMAIN seqs[k] : seqs[k][l].m \in Messages /\ (l > 1 => seqs[k][l].i # 0)
    BY <2>2, <2>4, SubMessagesAre
  <2>6. ComesFrom(infos, seqs, Len(ms))
    BY <2>1, <2>4, <2>5, Flattened
  <2>7. /\ IsSeq(infos)
        /\ \A k \in DOMAIN infos : \E o \in 1 .. Len(ms) : \E a \in DOMAIN seqs[o] : infos[k] = seqs[o][a]
        /\ \A k, l \in DOMAIN infos :
             k < l => \E o, p \in 1 .. Len(ms) :
                        /\ o <= p
                        /\ \E a \in DOMAIN seqs[o], b \in DOMAIN seqs[p] :
                             infos[k] = seqs[o][a] /\ infos[l] = seqs[p][b] /\ (o = p => a < b)
    BY <2>6 DEF ComesFrom
  <2>. HIDE DEF infos
  <2>8. \A k \in DOMAIN infos : infos[k].m \in Messages
    BY <2>4, <2>5, <2>7
  <2>9. ASSUME Len(ms) = 1, NEW k \in DOMAIN infos, k > 1 PROVE infos[k].i # 0
    <3>0. Len(infos) \in Nat /\ DOMAIN infos = 1 .. Len(infos)
      BY <2>7, IsSeqType
    <3>1. 1 \in DOMAIN infos /\ 1 < k
      BY <2>9, <3>0
    <3>2. PICK o \in 1 .. Len(ms), p \in 1 .. Len(ms) :
            \E a \in DOMAIN seqs[o], b \in DOMAIN seqs[p] :
              infos[1] = seqs[o][a] /\ infos[k] = seqs[p][b] /\ (o = p => a < b)
      BY <2>7, <3>1
    <3>3. PICK a \in DOMAIN seqs[o], b \in DOMAIN seqs[p] : infos[k] = seqs[p][b] /\ (o = p => a < b)
      BY <3>2
    <3>4. o = 1 /\ p = 1 /\ a < b
      BY <2>9, <3>3
    <3>5. IsSeq(seqs[1]) /\ 1 \in 1 .. Len(seqs)
      BY <2>4, <2>5, <2>9
    <3>6. a \in Nat /\ b \in Nat /\ a >= 1
      <4>1. Len(seqs[1]) \in Nat /\ DOMAIN seqs[1] = 1 .. Len(seqs[1])
        BY <3>5, IsSeqType
      <4>2. a \in DOMAIN seqs[1] /\ b \in DOMAIN seqs[1]
        BY <3>3, <3>4
      <4>. QED
        BY <4>1, <4>2
    <3>7. b > 1
      BY <3>4, <3>6
    <3>. QED
      BY <2>5, <3>3, <3>4, <3>5, <3>7
  <2>10. (IsAuthzNoLogs(t) => Len(t.msgs) = 1) => \A k \in DOMAIN infos : k > 1 => infos[k].i # 0
    BY <1>2, <2>9
  <2>. QED
    BY <2>1, <2>7, <2>8, <2>10 DEF infos
<1>3. CASE ~IsAuthzNoLogs(t) /\ t.logs
  <2> DEFINE places == {k \in DOMAIN ms : "null" \notin ms[k].flags}
  <2>1. infos = AtPlaces(Indexed(ms), places)
    BY <1>3 DEF MsgInfos
  <2>2. places \in SUBSET (DOMAIN ms) /\ \A p \in DOMAIN ms : "null" \notin ms[p].flags => p \in places
    OBVIOUS
  <2>. HIDE DEF places, infos, ms
  <2>3. /\ IsSeq(infos)
        /\ \A k \in DOMAIN infos : infos[k].m \in Messages /\ (k > 1 => infos[k].i # 0)
        /\ \A p \in places : \E k \in DOMAIN infos : infos[k].m = ms[p]
    BY <1>1, <2>1, <2>2, InfosAt
  <2>. QED
    BY <2>2, <2>3 DEF infos, ms
<1>4. CASE ~IsAuthzNoLogs(t) /\ ~t.logs
  <2>1. infos = <<>>
    BY <1>4 DEF MsgInfos
  <2>. HIDE DEF infos
  <2>2. IsSeq(infos) /\ DOMAIN infos = {}
    BY <2>1, EmptyIsSeq
  <2>. QED
    BY <1>4, <2>2 DEF infos
<1>. QED
  BY <1>1, <1>2, <1>3, <1>4

-----------------------------------------------------------------------------
(* The inductive invariant *)

\* What is known of the transaction that is processed: its messages and how they are
\* handled, and that it has no rows before its first message, as later ones have none.
Progress ==
  /\ txs \in Seq(Transactions) /\ at \in Nat /\ at >= 1 /\ fee \in BOOLEAN
  /\ DOMAIN rows = DOMAIN txs /\ \A t \in DOMAIN txs : IsSeq(rows[t])
  /\ pc \in {"failed", "many", "contract", "msgs"} => at <= Len(txs) /\ msgs = MsgInfos(tx) /\ pc = Route(tx, msgs)
  /\ pc = "msgs" => next \in Nat /\ next >= 1 /\ next <= Len(msgs) + 1
  /\ \A t \in DOMAIN txs :
       \/ t > at
       \/ t = at /\ (pc \in {"tx", "failed", "many", "contract"} \/ (pc = "msgs" /\ next = 1))
       => rows[t] = <<>>

\* No row shows the fee after a receipt, nor may one of the messages that are left.
InOrder(rs) == \A j, k \in DOMAIN rs : j < k /\ Receipt(rs[j]) => ~rs[k].fee

Ordered ==
  /\ \A t \in DOMAIN txs : InOrder(rows[t])
  /\ pc = "msgs" => \A j \in DOMAIN rows[at] : Receipt(rows[at][j]) => ~fee

\* The fee is shown once if only the first message may repeat it; a transaction that
\* starts with a session is remembered.
Paid ==
  /\ \A t \in DOMAIN txs : FirstPays(txs[t]) => Once(rows[t])
  /\ pc = "msgs" /\ next > 1 /\ chain = "dvpn" /\ msgs[1].m.type = "MsgStart" => at \in handled

\* The deposits are those of the rows, each of one row, and those of the claims so far.
IsDeposit(r) == r.type = "TRANSFER" /\ r.about # 0

CountedIn(R, counted) ==
  /\ \A t \in DOMAIN R : \A k \in DOMAIN R[t] : IsDeposit(R[t][k]) => R[t][k].about \in counted
  /\ \A n \in counted : \E t \in DOMAIN R : \E k \in DOMAIN R[t] : IsDeposit(R[t][k]) /\ R[t][k].about = n
  /\ \A t, u \in DOMAIN R : \A j \in DOMAIN R[t], k \in DOMAIN R[u] :
       IsDeposit(R[t][j]) /\ IsDeposit(R[u][k]) /\ R[t][j].about = R[u][k].about => t = u /\ j = k

Counted == CountedIn(rows, deposits)

Claimed ==
  chain = "inj" =>
    /\ \A t \in DOMAIN txs : \A k \in DOMAIN txs[t].msgs :
         t < at /\ ~txs[t].failed /\ txs[t].logs /\ Claims(txs[t].msgs[k]) /\ "null" \notin txs[t].msgs[k].flags
           => txs[t].msgs[k].nonce \in deposits
    /\ pc = "msgs" => \A k \in DOMAIN msgs : k < next /\ Claims(msgs[k].m) => msgs[k].m.nonce \in deposits

IInv == Progress /\ Ordered /\ Paid /\ Counted /\ Claimed

\* FirstPays is about a transaction of one chain.
LEMMA SameChain ==
  ASSUME UNCHANGED report
  PROVE  /\ chain' = chain /\ txs' = txs
         /\ \A t : FirstPays(txs[t])' <=> FirstPays(txs[t])
  BY DEF report, FirstPays, RepeatsFee

LEMMA InitInv ==
  ASSUME Init
  PROVE  IInv
<1>1. /\ txs \in Seq(Transactions)
      /\ at = 1 /\ pc = "tx" /\ fee \in BOOLEAN /\ deposits = {} /\ rows = [t \in DOMAIN txs |-> <<>>]
  BY CosmosProcessingAssumption DEF Init
<1>2. DOMAIN rows = DOMAIN txs /\ \A t \in DOMAIN txs : rows[t] = <<>> /\ t >= 1
  BY <1>1
<1>3. IsSeq(<<>>) /\ DOMAIN <<>> = {}
  BY EmptyIsSeq
<1>4. Progress
  <2>1. \A t \in DOMAIN txs : IsSeq(rows[t]) /\ rows[t] = <<>>
    BY <1>2, <1>3
  <2>2. at \in Nat /\ at >= 1 /\ pc \notin {"failed", "many", "contract", "msgs"} /\ pc # "msgs"
    BY <1>1
  <2>. QED
    BY <1>1, <1>2, <2>1, <2>2 DEF Progress
<1>5. Ordered /\ Paid /\ Counted
  BY <1>1, <1>2, <1>3 DEF Ordered, InOrder, Paid, Once, Counted, CountedIn
<1>6. Claimed
  BY <1>1, <1>2 DEF Claimed
<1>. QED
  BY <1>4, <1>5, <1>6 DEF IInv

\* The transaction that is processed.
LEMMA CurrentTx ==
  ASSUME Progress, at <= Len(txs)
  PROVE  /\ at \in DOMAIN txs /\ tx \in Transactions /\ IsSeq(MsgInfos(tx))
         /\ Len(MsgInfos(tx)) \in Nat /\ DOMAIN MsgInfos(tx) = 1 .. Len(MsgInfos(tx))
<1>1. at \in DOMAIN txs /\ tx \in Transactions
  BY DEF Progress, tx
<1>2. IsSeq(MsgInfos(tx))
  BY <1>1, InfosAre
<1>. QED
  BY <1>1, <1>2, IsSeqType

LEMMA RouteIs ==
  ASSUME NEW t, NEW infos
  PROVE  /\ Route(t, infos) \in {"failed", "many", "contract", "msgs"}
         /\ Route(t, infos) = "failed" => t.failed
         /\ Route(t, infos) \in {"many", "contract"} => chain # "inj"
  BY DEF Route

\* The transaction is read; nothing of it has been reported.
LEMMA ReadKeeps ==
  ASSUME IInv, ReadTx
  PROVE  IInv'
<1>1. /\ pc = "tx" /\ at <= Len(txs) /\ msgs' = MsgInfos(tx) /\ pc' = Route(tx, msgs') /\ next' = 1 /\ fee' = tx.fee
      /\ UNCHANGED report /\ at' = at /\ rows' = rows /\ deposits' = deposits /\ handled' = handled
  BY DEF ReadTx, memory
<1>2. /\ at \in DOMAIN txs /\ tx.fee \in BOOLEAN
      /\ Len(msgs') \in Nat /\ DOMAIN msgs' = 1 .. Len(msgs')
  BY <1>1, CurrentTx DEF IInv, Transactions
<1>3. chain' = chain /\ txs' = txs /\ \A t : FirstPays(txs[t])' <=> FirstPays(txs[t])
  BY <1>1, SameChain
<1>4. rows[at] = <<>> /\ DOMAIN <<>> = {}
  BY <1>1, <1>2, EmptyIsSeq DEF IInv, Progress
<1>5. pc' = Route(tx, msgs)' /\ tx' = tx
  <2>1. tx' = tx
    BY <1>1, <1>3 DEF tx
  <2>2. Route(tx, msgs)' = Route(tx, msgs')
    BY <1>3, <2>1 DEF Route
  <2>. QED
    BY <1>1, <2>1, <2>2
<1>6. Progress'
  <2>1. /\ (txs \in Seq(Transactions) /\ at \in Nat /\ at >= 1 /\ DOMAIN rows = DOMAIN txs /\ \A t \in DOMAIN txs : IsSeq(rows[t]))'
        /\ fee' \in BOOLEAN
    BY <1>1, <1>2, <1>3 DEF IInv, Progress
  <2>2. (pc \in {"failed", "many", "contract", "msgs"} => at <= Len(txs) /\ msgs = MsgInfos(tx) /\ pc = Route(tx, msgs))'
    <3>1. at' <= Len(txs') /\ msgs' = MsgInfos(tx') /\ pc' = Route(tx, msgs)'
      BY <1>1, <1>3, <1>5
    <3>. QED
      BY <3>1
  <2>3. (pc = "msgs" => next \in Nat /\ next >= 1 /\ next <= Len(msgs) + 1)'
    BY <1>1, <1>2
  <2>4. \A t \in DOMAIN txs' :
          \/ t > at'
          \/ t = at' /\ (pc' \in {"tx", "failed", "many", "contract"} \/ (pc' = "msgs" /\ next' = 1))
          => rows'[t] = <<>>
    BY <1>1, <1>2, <1>3, <1>4 DEF IInv, Progress
  <2>. QED
    BY <2>1, <2>2, <2>3, <2>4 DEF Progress
<1>7. Ordered'
  BY <1>1, <1>2, <1>3, <1>4 DEF IInv, Ordered
<1>8. Paid'
  BY <1>1, <1>3 DEF IInv, Paid
<1>9. Counted'
  BY <1>1, <1>3 DEF IInv, Counted
<1>10. Claimed'
  BY <1>1, <1>2, <1>3 DEF IInv, Claimed
<1>. QED
  BY <1>6, <1>7, <1>8, <1>9, <1>10 DEF IInv

\* The report ends, or the next transaction is read after one whose messages are all handled.
LEMMA EndKeeps ==
  ASSUME IInv, pc' \in {"done", "raised"}, UNCHANGED <<report, at, fee, deposits, rows>>
  PROVE  IInv'
<1>1. chain' = chain /\ txs' = txs /\ \A t : FirstPays(txs[t])' <=> FirstPays(txs[t])
  BY SameChain
<1>2. Progress' /\ Ordered' /\ Counted' /\ Claimed'
  BY <1>1 DEF IInv, Progress, Ordered, Counted, Claimed
<1>3. Paid'
  BY <1>1 DEF IInv, Paid
<1>. QED
  BY <1>2, <1>3 DEF IInv

LEMMA EndTxKeeps ==
  ASSUME IInv, EndTx
  PROVE  IInv'
<1>1. /\ pc = "msgs" /\ next > Len(msgs) /\ at' = at + 1 /\ pc' = "tx"
      /\ UNCHANGED report /\ rows' = rows /\ deposits' = deposits /\ fee' = fee
  BY DEF EndTx, NextTx, memory
<1>2. /\ at \in Nat /\ at >= 1 /\ at <= Len(txs) /\ msgs = MsgInfos(tx) /\ next \in Nat
      /\ txs \in Seq(Transactions) /\ DOMAIN txs \subseteq Nat
  BY <1>1 DEF IInv, Progress
<1>3. chain' = chain /\ txs' = txs /\ \A t : FirstPays(txs[t])' <=> FirstPays(txs[t])
  BY <1>1, SameChain
<1>4. Progress'
  <2>1. \A t \in DOMAIN txs' : t > at' \/ (t = at' /\ (pc' \in {"tx", "failed", "many", "contract"} \/ (pc' = "msgs" /\ next' = 1)))
          => rows'[t] = <<>>
    BY <1>1, <1>2, <1>3 DEF IInv, Progress
  <2>2. at' \in Nat /\ at' >= 1
    BY <1>1, <1>2
  <2>. QED
    BY <1>1, <1>3, <2>1, <2>2 DEF IInv, Progress
<1>5. Ordered' /\ Counted'
  BY <1>1, <1>3 DEF IInv, Ordered, Counted
<1>6. Paid'
  BY <1>1, <1>3 DEF IInv, Paid
<1>7. Claimed'
  <2>1. /\ tx \in Transactions
        /\ Len(msgs) \in Nat /\ DOMAIN msgs = 1 .. Len(msgs)
    BY <1>2, CurrentTx DEF IInv
  <2>2. tx.logs => \A p \in DOMAIN tx.msgs : "null" \notin tx.msgs[p].flags => \E k \in DOMAIN msgs : msgs[k].m = tx.msgs[p]
    BY <1>2, <2>1, InfosAre
  <2>3. \A k \in DOMAIN msgs : k < next
    BY <1>1, <1>2, <2>1
  <2>4. ASSUME chain = "inj", NEW t \in DOMAIN txs, NEW k \in DOMAIN txs[t].msgs, t < at + 1, ~txs[t].failed, txs[t].logs,
               Claims(txs[t].msgs[k]), "null" \notin txs[t].msgs[k].flags
        PROVE  txs[t].msgs[k].nonce \in deposits
    <3>1. CASE t < at
      BY <2>4, <3>1 DEF IInv, Claimed
    <3>2. CASE t = at
      <4>1. PICK p \in DOMAIN msgs : msgs[p].m = txs[t].msgs[k]
        BY <2>2, <2>4, <3>2 DEF tx
      <4>2. p < next /\ Claims(msgs[p].m)
        BY <2>3, <2>4, <4>1
      <4>. QED
        BY <1>1, <2>4, <4>1, <4>2 DEF IInv, Claimed
    <3>3. t < at \/ t = at
      BY <1>2, <2>4
    <3>. QED
      BY <3>1, <3>2, <3>3
  <2>. QED
    BY <1>1, <1>3, <2>4 DEF Claimed
<1>. QED
  BY <1>4, <1>5, <1>6, <1>7 DEF IInv

-----------------------------------------------------------------------------
(* Rows that are added to a report *)

LEMMA InOrderJoined ==
  ASSUME NEW a, NEW b, IsSeq(a), IsSeq(b), InOrder(a), InOrder(b),
         \A j \in DOMAIN a : Receipt(a[j]) => \A k \in DOMAIN b : ~b[k].fee
  PROVE  InOrder(a \o b)
<1> DEFINE all == a \o b
           n == Len(a)
<1>1. n \in Nat /\ Len(b) \in Nat /\ DOMAIN a = 1 .. n /\ DOMAIN b = 1 .. Len(b)
  BY IsSeqType
<1>2. /\ DOMAIN all = 1 .. (n + Len(b))
      /\ \A k \in 1 .. n : all[k] = a[k]
      /\ \A k \in (n + 1) .. (n + Len(b)) : k - n \in DOMAIN b /\ all[k] = b[k - n]
  BY Joined
<1>. HIDE DEF all, n
<1>3. ASSUME NEW j \in DOMAIN all, NEW k \in DOMAIN all, j < k, Receipt(all[j])
      PROVE  ~all[k].fee
  <2>1. CASE k <= n
    <3>1. j \in DOMAIN a /\ k \in DOMAIN a /\ all[j] = a[j] /\ all[k] = a[k]
      BY <1>1, <1>2, <1>3, <2>1
    <3>. QED
      BY <1>3, <3>1 DEF InOrder
  <2>2. CASE k > n /\ j <= n
    <3>1. j \in DOMAIN a /\ k - n \in DOMAIN b /\ all[j] = a[j] /\ all[k] = b[k - n]
      BY <1>1, <1>2, <1>3, <2>2
    <3>. QED
      BY <1>3, <3>1
  <2>3. CASE j > n
    <3>1. j - n \in DOMAIN b /\ k - n \in DOMAIN b /\ all[j] = b[j - n] /\ all[k] = b[k - n] /\ j - n < k - n
      BY <1>1, <1>2, <1>3, <2>3
    <3>. QED
      BY <1>3, <3>1 DEF InOrder
  <2>. QED
    BY <1>1, <1>2, <1>3, <2>1, <2>2, <2>3
<1>. QED
  BY <1>3 DEF InOrder, all

LEMMA OnceJoined ==
  ASSUME NEW a, NEW b, IsSeq(a), IsSeq(b), Once(a), \A k \in DOMAIN b : ~b[k].fee
  PROVE  Once(a \o b)
<1> DEFINE all == a \o b
           n == Len(a)
<1>1. n \in Nat /\ Len(b) \in Nat /\ DOMAIN a = 1 .. n
  BY IsSeqType
<1>2. /\ DOMAIN all = 1 .. (n + Len(b))
      /\ \A k \in 1 .. n : all[k] = a[k]
      /\ \A k \in (n + 1) .. (n + Len(b)) : k - n \in DOMAIN b /\ all[k] = b[k - n]
  BY Joined
<1>. HIDE DEF all, n
<1>3. \A k \in DOMAIN all : all[k].fee => k \in DOMAIN a /\ all[k] = a[k]
  BY <1>1, <1>2
<1>. QED
  BY <1>3 DEF Once, all

\* Rows that count no deposit, and the row of one that was not counted.
LEMMA NoneCounted ==
  ASSUME NEW R, NEW counted, CountedIn(R, counted), NEW u \in DOMAIN R, NEW rs, IsSeq(R[u]), IsSeq(rs),
         \A k \in DOMAIN rs : ~IsDeposit(rs[k])
  PROVE  CountedIn([R EXCEPT ![u] = @ \o rs], counted)
<1> DEFINE S == [R EXCEPT ![u] = @ \o rs]
           n == Len(R[u])
<1>1. n \in Nat /\ Len(rs) \in Nat /\ DOMAIN R[u] = 1 .. n
  BY IsSeqType
<1>2. /\ DOMAIN S = DOMAIN R /\ \A t \in DOMAIN R : t # u => S[t] = R[t]
      /\ S[u] = R[u] \o rs
  OBVIOUS
<1>3. /\ DOMAIN (R[u] \o rs) = 1 .. (n + Len(rs))
      /\ \A k \in 1 .. n : (R[u] \o rs)[k] = R[u][k]
      /\ \A k \in (n + 1) .. (n + Len(rs)) : k - n \in DOMAIN rs /\ (R[u] \o rs)[k] = rs[k - n]
  BY Joined
<1>. HIDE DEF S, n
<1>4. \A k \in DOMAIN S[u] : IsDeposit(S[u][k]) => k \in DOMAIN R[u] /\ S[u][k] = R[u][k]
  BY <1>1, <1>2, <1>3
<1>5. \A k \in DOMAIN R[u] : k \in DOMAIN S[u] /\ S[u][k] = R[u][k]
  BY <1>1, <1>2, <1>3
<1>6. \A t \in DOMAIN S : \A k \in DOMAIN S[t] : IsDeposit(S[t][k]) => t \in DOMAIN R /\ k \in DOMAIN R[t] /\ S[t][k] = R[t][k]
  BY <1>2, <1>4
<1>7. \A t \in DOMAIN R : \A k \in DOMAIN R[t] : t \in DOMAIN S /\ k \in DOMAIN S[t] /\ S[t][k] = R[t][k]
  BY <1>2, <1>5
<1>8. \A t \in DOMAIN S : \A k \in DOMAIN S[t] : IsDeposit(S[t][k]) => S[t][k].about \in counted
  BY <1>6 DEF CountedIn
<1>9. \A m \in counted : \E t \in DOMAIN S : \E k \in DOMAIN S[t] : IsDeposit(S[t][k]) /\ S[t][k].about = m
  BY <1>7 DEF CountedIn
<1>10. \A t, v \in DOMAIN S : \A j \in DOMAIN S[t], k \in DOMAIN S[v] :
         IsDeposit(S[t][j]) /\ IsDeposit(S[v][k]) /\ S[t][j].about = S[v][k].about => t = v /\ j = k
  BY <1>6 DEF CountedIn
<1>11. CountedIn(S, counted)
  BY <1>8, <1>9, <1>10 DEF CountedIn
<1>. QED
  BY <1>11 DEF S

LEMMA OneCounted ==
  ASSUME NEW R, NEW counted, CountedIn(R, counted), NEW u \in DOMAIN R, NEW rs, IsSeq(R[u]), IsSeq(rs),
         NEW nonce, nonce # 0, nonce \notin counted, Counts(rs, nonce)
  PROVE  CountedIn([R EXCEPT ![u] = @ \o rs], counted \cup {nonce})
<1> DEFINE S == [R EXCEPT ![u] = @ \o rs]
           n == Len(R[u])
<1>1. n \in Nat /\ Len(rs) \in Nat /\ DOMAIN R[u] = 1 .. n /\ DOMAIN rs = 1 .. Len(rs)
  BY IsSeqType
<1>2. /\ DOMAIN S = DOMAIN R /\ \A t \in DOMAIN R : t # u => S[t] = R[t]
      /\ S[u] = R[u] \o rs
  OBVIOUS
<1>3. /\ DOMAIN (R[u] \o rs) = 1 .. (n + Len(rs))
      /\ \A k \in 1 .. n : (R[u] \o rs)[k] = R[u][k]
      /\ \A k \in (n + 1) .. (n + Len(rs)) : k - n \in DOMAIN rs /\ (R[u] \o rs)[k] = rs[k - n]
  BY Joined
<1>. HIDE DEF S, n
<1>4. DOMAIN rs = {1} /\ IsDeposit(rs[1]) /\ rs[1].about = nonce /\ Len(rs) = 1
  <2>1. DOMAIN rs = {1} /\ IsDeposit(rs[1]) /\ rs[1].about = nonce
    BY DEF Counts, IsDeposit
  <2>2. Len(rs) >= 1
    BY <1>1, <2>1
  <2>3. Len(rs) \in DOMAIN rs
    BY <1>1, <2>2
  <2>. QED
    BY <2>1, <2>3
<1>5. n + 1 \notin DOMAIN R[u] /\ n + 1 \in DOMAIN S[u] /\ S[u][n + 1] = rs[1]
  <2>1. n + 1 \in (n + 1) .. (n + Len(rs)) /\ (n + 1) - n = 1 /\ n + 1 \in 1 .. (n + Len(rs))
    BY <1>1, <1>4
  <2>. QED
    BY <1>1, <1>2, <1>3, <2>1
<1>6. \A k \in DOMAIN S[u] : k = n + 1 \/ (k \in DOMAIN R[u] /\ S[u][k] = R[u][k])
  <2>1. \A k \in (n + 1) .. (n + Len(rs)) : k = n + 1
    BY <1>1, <1>3, <1>4
  <2>. QED
    BY <1>1, <1>2, <1>3, <2>1
<1>7. \A k \in DOMAIN R[u] : k \in DOMAIN S[u] /\ S[u][k] = R[u][k]
  BY <1>1, <1>2, <1>3
<1>8. \A t \in DOMAIN S : \A k \in DOMAIN S[t] :
        \/ t = u /\ k = n + 1
        \/ t \in DOMAIN R /\ k \in DOMAIN R[t] /\ S[t][k] = R[t][k]
  BY <1>2, <1>6
<1>9. \A t \in DOMAIN R : \A k \in DOMAIN R[t] : t \in DOMAIN S /\ k \in DOMAIN S[t] /\ S[t][k] = R[t][k]
  BY <1>2, <1>7
<1>10. u \in DOMAIN S /\ n + 1 \in DOMAIN S[u] /\ IsDeposit(S[u][n + 1]) /\ S[u][n + 1].about = nonce
  BY <1>2, <1>4, <1>5
<1>11. \A t \in DOMAIN S : \A k \in DOMAIN S[t] : IsDeposit(S[t][k]) => S[t][k].about \in counted \cup {nonce}
  BY <1>8, <1>10 DEF CountedIn
<1>12. \A m \in counted \cup {nonce} : \E t \in DOMAIN S : \E k \in DOMAIN S[t] : IsDeposit(S[t][k]) /\ S[t][k].about = m
  BY <1>9, <1>10 DEF CountedIn
<1>13. \A t \in DOMAIN R : \A k \in DOMAIN R[t] : IsDeposit(R[t][k]) => R[t][k].about # nonce
  BY DEF CountedIn
<1>14. \A t, v \in DOMAIN S : \A j \in DOMAIN S[t], k \in DOMAIN S[v] :
         IsDeposit(S[t][j]) /\ IsDeposit(S[v][k]) /\ S[t][j].about = S[v][k].about => t = v /\ j = k
  <2>. TAKE t, v \in DOMAIN S
  <2>. TAKE j \in DOMAIN S[t], k \in DOMAIN S[v]
  <2>. HAVE IsDeposit(S[t][j]) /\ IsDeposit(S[v][k]) /\ S[t][j].about = S[v][k].about
  <2>1. CASE t = u /\ j = n + 1
    BY <1>8, <1>10, <1>13, <2>1
  <2>2. CASE v = u /\ k = n + 1
    BY <1>8, <1>10, <1>13, <2>2
  <2>3. CASE ~(t = u /\ j = n + 1) /\ ~(v = u /\ k = n + 1)
    <3>1. t \in DOMAIN R /\ j \in DOMAIN R[t] /\ S[t][j] = R[t][j] /\ v \in DOMAIN R /\ k \in DOMAIN R[v] /\ S[v][k] = R[v][k]
      BY <1>8, <2>3
    <3>. QED
      BY <3>1 DEF CountedIn
  <2>. QED
    BY <2>1, <2>2, <2>3
<1>15. CountedIn(S, counted \cup {nonce})
  BY <1>11, <1>12, <1>14 DEF CountedIn
<1>. QED
  BY <1>15 DEF S

LEMMA RowsAdded ==
  ASSUME Progress, at <= Len(txs), NEW rs, IsSeq(rs), Ingest(rs)
  PROVE  /\ at \in DOMAIN txs /\ at \in DOMAIN rows /\ IsSeq(rows[at])
         /\ rows' = [rows EXCEPT ![at] = @ \o rs]
         /\ DOMAIN rows' = DOMAIN txs
         /\ \A t \in DOMAIN txs : IsSeq(rows'[t]) /\ (t # at => rows'[t] = rows[t])
         /\ rows'[at] = rows[at] \o rs
         /\ rows[at] = <<>> => rows'[at] = rs
<1>1. at \in DOMAIN txs /\ DOMAIN rows = DOMAIN txs /\ \A t \in DOMAIN txs : IsSeq(rows[t])
  BY CurrentTx DEF Progress
<1>2. rows' = [rows EXCEPT ![at] = @ \o rs]
  BY DEF Ingest
<1>3. /\ DOMAIN rows' = DOMAIN txs /\ rows'[at] = rows[at] \o rs
      /\ \A t \in DOMAIN txs : t # at => rows'[t] = rows[t]
  BY <1>1, <1>2
<1>4. IsSeq(rows[at] \o rs)
  BY <1>1, Joined
<1>5. <<>> \o rs = rs
  BY IsSeqType
<1>. QED
  BY <1>1, <1>2, <1>3, <1>4, <1>5

\* A transaction is handled as a whole: its rows are no transfers.
LEMMA WholeKeeps ==
  ASSUME IInv, pc \in {"failed", "many", "contract"}, NEW rs, Ingest(rs), NextTx,
         UNCHANGED <<report, msgs, next, fee, memory>>,
         IsSeq(rs), \A k \in DOMAIN rs : rs[k].type # "TRANSFER",
         FirstPays(tx) => Once(rs)
  PROVE  IInv'
<1>1. /\ at' = at + 1 /\ pc' = "tx" /\ fee' = fee /\ deposits' = deposits /\ UNCHANGED report
  BY DEF NextTx, memory
<1>2. /\ at \in Nat /\ at >= 1 /\ at <= Len(txs) /\ pc = Route(tx, msgs) /\ Progress
      /\ txs \in Seq(Transactions) /\ DOMAIN txs \subseteq Nat
  BY DEF IInv, Progress
<1>3. chain' = chain /\ txs' = txs /\ \A t : FirstPays(txs[t])' <=> FirstPays(txs[t])
  BY <1>1, SameChain
<1>4. /\ at \in DOMAIN txs /\ at \in DOMAIN rows /\ IsSeq(rows[at])
      /\ rows' = [rows EXCEPT ![at] = @ \o rs]
      /\ DOMAIN rows' = DOMAIN txs
      /\ \A t \in DOMAIN txs : IsSeq(rows'[t]) /\ (t # at => rows'[t] = rows[t])
      /\ rows[at] = <<>> => rows'[at] = rs
  BY <1>2, RowsAdded
<1>5. rows'[at] = rs
  BY <1>2, <1>4 DEF Progress
<1>6. Progress'
  <2>1. \A t \in DOMAIN txs' : t > at' \/ (t = at' /\ (pc' \in {"tx", "failed", "many", "contract"} \/ (pc' = "msgs" /\ next' = 1)))
          => rows'[t] = <<>>
    BY <1>1, <1>2, <1>3, <1>4 DEF Progress
  <2>2. at' \in Nat /\ at' >= 1
    BY <1>1, <1>2
  <2>. QED
    BY <1>1, <1>3, <1>4, <2>1, <2>2 DEF IInv, Progress
<1>7. Ordered'
  <2>1. InOrder(rs)
    BY DEF InOrder, Receipt
  <2>2. \A t \in DOMAIN txs : InOrder(rows'[t])
    BY <1>4, <1>5, <2>1 DEF IInv, Ordered
  <2>. QED
    BY <1>1, <1>3, <2>2 DEF Ordered
<1>8. Paid'
  <2>1. \A t \in DOMAIN txs : FirstPays(txs[t]) => Once(rows'[t])
    BY <1>4, <1>5 DEF IInv, Paid, tx
  <2>. QED
    BY <1>1, <1>3, <2>1 DEF Paid
<1>9. Counted'
  <2>1. \A k \in DOMAIN rs : ~IsDeposit(rs[k])
    BY DEF IsDeposit
  <2>2. CountedIn([rows EXCEPT ![at] = @ \o rs], deposits)
    BY <1>4, <2>1, NoneCounted DEF IInv, Counted
  <2>. QED
    BY <1>1, <1>4, <2>2 DEF Counted
<1>10. Claimed'
  <2>1. chain = "inj" => txs[at].failed
    BY <1>2, RouteIs DEF tx
  <2>2. \A t \in DOMAIN txs : t < at + 1 => t < at \/ t = at
    BY <1>2
  <2>. QED
    BY <1>1, <1>3, <2>1, <2>2 DEF IInv, Claimed
<1>. QED
  BY <1>6, <1>7, <1>8, <1>9, <1>10 DEF IInv

LEMMA LinesAreWhole ==
  ASSUME NEW rs, NEW f, Lines(rs, f)
  PROVE  IsSeq(rs) /\ \A k \in DOMAIN rs : rs[k].type # "TRANSFER"
  BY DEF Lines

\* The rows of the transfers of a contract that no handler is for.
LEMMA ContractLines ==
  ASSUME IInv, pc = "contract"
  PROVE  LET rs == FlattenSeq([k \in DOMAIN msgs |-> IngestRows(fee, msgs[k].i, DetectRows(msgs[k].m))])
         IN  /\ IsSeq(rs) /\ \A k \in DOMAIN rs : rs[k].type # "TRANSFER"
             /\ FirstPays(tx) => Once(rs)
<1> DEFINE seqs == [k \in DOMAIN msgs |-> IngestRows(fee, msgs[k].i, DetectRows(msgs[k].m))]
           rs == FlattenSeq(seqs)
           n == Len(msgs)
<1>1. /\ fee \in BOOLEAN /\ at <= Len(txs) /\ msgs = MsgInfos(tx) /\ Progress
  BY DEF IInv, Progress
<1>2. tx \in Transactions /\ n \in Nat /\ DOMAIN msgs = 1 .. n
  BY <1>1, CurrentTx
<1>3. /\ \A k \in DOMAIN msgs : msgs[k].m \in Messages
      /\ FirstPays(tx) => \A k \in DOMAIN msgs : k > 1 => msgs[k].i # 0
  BY <1>1, <1>2, InfosAre DEF FirstPays
<1>4. \A k \in 1 .. n :
        /\ Lines(seqs[k], FirstFee(fee, msgs[k].i))
        /\ \A a \in DOMAIN seqs[k] : seqs[k][a].fee => a = 1
  <2>1. \A k \in 1 .. n : seqs[k] = IngestRows(fee, msgs[k].i, DetectRows(msgs[k].m))
    BY <1>2
  <2>2. ASSUME NEW m \in Messages, NEW i
        PROVE  /\ Lines(IngestRows(fee, i, DetectRows(m)), FirstFee(fee, i))
               /\ \A a \in DOMAIN IngestRows(fee, i, DetectRows(m)) : IngestRows(fee, i, DetectRows(m))[a].fee => a = 1
    BY <1>1, DetectedLines
  <2>. HIDE DEF seqs
  <2>3. ASSUME NEW k \in 1 .. n
        PROVE  Lines(seqs[k], FirstFee(fee, msgs[k].i)) /\ \A a \in DOMAIN seqs[k] : seqs[k][a].fee => a = 1
    <3>1. msgs[k].m \in Messages /\ seqs[k] = IngestRows(fee, msgs[k].i, DetectRows(msgs[k].m))
      BY <1>2, <1>3, <2>1
    <3>. QED
      BY <2>2, <3>1
  <2>. QED
    BY <2>3
<1>5. seqs = [k \in 1 .. n |-> seqs[k]]
  BY <1>2
<1>. HIDE DEF seqs, n
<1>6. IsSeq(seqs) /\ Len(seqs) = n
  BY <1>2, <1>5, FunctionIsSeq
<1>7. ComesFrom(rs, seqs, n)
  <2>1. \A k \in 1 .. Len(seqs) : IsSeq(seqs[k])
    BY <1>4, <1>6 DEF Lines
  <2>. QED
    BY <1>6, <2>1, Flattened
<1>. HIDE DEF rs
<1>8. /\ IsSeq(rs)
      /\ \A k \in DOMAIN rs : \E o \in 1 .. n : \E a \in DOMAIN seqs[o] : rs[k] = seqs[o][a]
      /\ \A k, l \in DOMAIN rs :
           k < l => \E o, p \in 1 .. n :
                      /\ o <= p
                      /\ \E a \in DOMAIN seqs[o], b \in DOMAIN seqs[p] :
                           rs[k] = seqs[o][a] /\ rs[l] = seqs[p][b] /\ (o = p => a < b)
  BY <1>7 DEF ComesFrom
<1>9. \A k \in DOMAIN rs : rs[k].type # "TRANSFER"
  BY <1>4, <1>8 DEF Lines
<1>10. ASSUME FirstPays(tx), NEW k \in DOMAIN rs, NEW l \in DOMAIN rs, k < l, rs[k].fee, rs[l].fee
       PROVE  FALSE
  <2>1. PICK o \in 1 .. n, p \in 1 .. n : \E a \in DOMAIN seqs[o], b \in DOMAIN seqs[p] :
          rs[k] = seqs[o][a] /\ rs[l] = seqs[p][b] /\ (o = p => a < b)
    BY <1>8, <1>10
  <2>2. PICK a \in DOMAIN seqs[o], b \in DOMAIN seqs[p] : rs[k] = seqs[o][a] /\ rs[l] = seqs[p][b] /\ (o = p => a < b)
    BY <2>1
  <2>3. a = 1 /\ b = 1
    BY <1>4, <1>10, <2>2
  <2>4. msgs[o].i = 0 /\ msgs[p].i = 0
    BY <1>4, <1>10, <2>2 DEF Lines, FirstFee
  <2>5. o = 1 /\ p = 1
    BY <1>2, <1>3, <1>10, <2>4
  <2>. QED
    BY <2>2, <2>3, <2>5
<1>11. FirstPays(tx) => Once(rs)
  <2>1. DOMAIN rs \subseteq Nat
    BY <1>8, IsSeqType
  <2>2. \A k, l \in DOMAIN rs : k # l => k < l \/ l < k
    BY <2>1
  <2>. QED
    BY <1>10, <2>2 DEF Once
<1>. QED
  BY <1>8, <1>9, <1>11 DEF rs, seqs

LEMMA WholeSteps ==
  ASSUME IInv, HandleFailedTransaction \/ HandleManyContracts \/ HandleContract
  PROVE  IInv'
<1> DEFINE Rest == UNCHANGED <<report, msgs, next, fee, memory>>
           Fits(rs) == IsSeq(rs) /\ (\A k \in DOMAIN rs : rs[k].type # "TRANSFER") /\ (FirstPays(tx) => Once(rs))
<1>1. fee \in BOOLEAN
  BY DEF IInv, Progress
<1>2. ASSUME pc \in {"failed", "many", "contract"}, Rest, NEW rs, Ingest(rs), NextTx, Fits(rs)
      PROVE  IInv'
  BY <1>2, WholeKeeps
<1>3. ASSUME NEW type, type # "TRANSFER", NEW f \in BOOLEAN
      PROVE  Fits(<<Row(type, NoCoin, NoCoin, f, 0)>>)
  <2>1. Lines(<<Row(type, NoCoin, NoCoin, f, 0)>>, TRUE) /\ Once(<<Row(type, NoCoin, NoCoin, f, 0)>>)
    BY <1>3, OneLine
  <2>. QED
    BY <2>1, LinesAreWhole
<1>. HIDE DEF Rest, Fits
<1>4. ASSUME HandleFailedTransaction PROVE IInv'
  <2>1. pc = "failed" /\ Ingest(FailedRows) /\ NextTx /\ Rest
    BY <1>4 DEF HandleFailedTransaction, Rest
  <2>2. FailedRows = <<Row("SPEND", NoCoin, NoCoin, fee, 0)>> \/ FailedRows = <<Row("_FAILED_NO_FEE", NoCoin, NoCoin, FALSE, 0)>>
    BY DEF FailedRows, SpendFeeRow
  <2>3. Fits(FailedRows)
    BY <1>1, <1>3, <2>2
  <2>. QED
    BY <1>2, <2>1, <2>3
<1>5. ASSUME HandleManyContracts PROVE IInv'
  <2>1. pc = "many" /\ Ingest(<<TxUnknownRow>>) /\ NextTx /\ Rest
    BY <1>5 DEF HandleManyContracts, Rest
  <2>2. Fits(<<TxUnknownRow>>)
    BY <1>1, <1>3 DEF TxUnknownRow
  <2>. QED
    BY <1>2, <2>1, <2>2
<1>6. ASSUME HandleContract PROVE IInv'
  <2> DEFINE detected == FlattenSeq([k \in DOMAIN msgs |-> IngestRows(fee, msgs[k].i, DetectRows(msgs[k].m))])
  <2>1. /\ pc = "contract" /\ Rest
        /\ \/ Ingest(detected) /\ NextTx
           \/ \E n \in 0 .. MaxRows : Ingest(TxIngestRows(n)) /\ NextTx
           \/ Ingest(<<TxUnknownRow>>) /\ NextTx
           \/ pc' = "raised" /\ UNCHANGED <<at, rows>>
    BY <1>6 DEF HandleContract, Rest
  <2>2. Fits(detected)
    BY <2>1, ContractLines DEF Fits
  <2>. HIDE DEF detected
  <2>3. Fits(<<TxUnknownRow>>)
    BY <1>1, <1>3 DEF TxUnknownRow
  <2>4. ASSUME NEW n \in 0 .. MaxRows PROVE Fits(TxIngestRows(n))
    <3> DEFINE rs == TxIngestRows(n)
    <3>1. n \in Nat
      BY CosmosProcessingAssumption
    <3>2. rs = [k \in 1 .. n |-> rs[k]] /\ \A k \in 1 .. n : rs[k] = Row("_CONTRACT", NoCoin, NoCoin, fee /\ k = 1, 0)
      BY DEF TxIngestRows
    <3>. HIDE DEF rs
    <3>3. IsSeq(rs) /\ DOMAIN rs = 1 .. n
      BY <3>1, <3>2, FunctionIsSeq
    <3>4. \A k \in 1 .. n : rs[k].type # "TRANSFER" /\ (rs[k].fee => k = 1)
      <4>. TAKE k \in 1 .. n
      <4> DEFINE f == fee /\ k = 1
      <4>1. f \in BOOLEAN /\ (f => k = 1) /\ rs[k] = Row("_CONTRACT", NoCoin, NoCoin, f, 0)
        BY <3>2
      <4>. HIDE DEF f
      <4>2. rs[k].type = "_CONTRACT" /\ rs[k].fee = f
        BY <4>1, RowIs
      <4>. QED
        BY <4>1, <4>2
    <3>5. Once(rs)
      BY <3>3, <3>4 DEF Once
    <3>. QED
      BY <3>3, <3>4, <3>5 DEF Fits, rs
  <2>5. CASE pc' = "raised" /\ UNCHANGED <<at, rows>>
    BY <2>1, <2>5, EndKeeps DEF Rest, memory
  <2>. QED
    BY <1>2, <2>1, <2>2, <2>3, <2>4, <2>5
<1>. QED
  BY <1>4, <1>5, <1>6

\* A message is handled.
LEMMA MessageKeeps ==
  ASSUME IInv, pc = "msgs", next <= Len(msgs), MessageStep
  PROVE  IInv'
<1>1. PICK result :
        /\ Take(result) /\ IsNeat(result)
        /\ handled \subseteq handled'
        /\ chain = "dvpn" /\ info.m.type = "MsgStart" => at \in handled'
        /\ \/ /\ NoDeposit(result) /\ deposits' = deposits
              /\ chain = "inj" /\ Claims(info.m) => info.m.nonce \in deposits
           \/ /\ info.m.nonce # 0 /\ info.m.nonce \notin deposits /\ deposits' = deposits \cup {info.m.nonce}
              /\ Counts(result.rows, info.m.nonce)
  BY DEF MessageStep
<1> DEFINE rs == result.rows
           i == info.i
<1>2. /\ Ingest(rs) /\ fee' = result.fee /\ next' = next + 1 /\ UNCHANGED report
      /\ at' = at /\ pc' = pc /\ msgs' = msgs
  BY <1>1 DEF Take, NextMessage
<1>3. /\ IsSeq(rs) /\ fee' \in BOOLEAN /\ (fee' => fee)
      /\ \A k \in DOMAIN rs : (rs[k].fee => fee /\ (i = 0 \/ Repeats)) /\ (Receipt(rs[k]) => ~fee')
      /\ InOrder(rs)
      /\ OneFeeRow(info.m) => Once(rs)
  BY <1>1, <1>2, Booleans DEF IsNeat, Neat, Shows, InOrder
<1>. HIDE DEF rs, i
<1>4. /\ Progress /\ at \in Nat /\ at >= 1 /\ at <= Len(txs) /\ msgs = MsgInfos(tx) /\ pc = Route(tx, msgs)
      /\ next \in Nat /\ next >= 1 /\ txs \in Seq(Transactions)
  BY DEF IInv, Progress
<1>5. chain' = chain /\ txs' = txs /\ (\A t : FirstPays(txs[t])' <=> FirstPays(txs[t])) /\ tx' = tx
  BY <1>2, SameChain DEF tx
<1>6. /\ at \in DOMAIN txs /\ at \in DOMAIN rows /\ IsSeq(rows[at])
      /\ rows' = [rows EXCEPT ![at] = @ \o rs]
      /\ DOMAIN rows' = DOMAIN txs
      /\ \A t \in DOMAIN txs : IsSeq(rows'[t]) /\ (t # at => rows'[t] = rows[t])
      /\ rows'[at] = rows[at] \o rs
      /\ rows[at] = <<>> => rows'[at] = rs
  BY <1>2, <1>3, <1>4, RowsAdded
<1>7. /\ tx \in Transactions /\ Len(msgs) \in Nat /\ DOMAIN msgs = 1 .. Len(msgs) /\ next \in DOMAIN msgs
  BY <1>4, CurrentTx
<1>8. Progress'
  <2>1. Route(tx, msgs)' = Route(tx, msgs)
    BY <1>2, <1>5 DEF Route
  <2>2. (pc \in {"failed", "many", "contract", "msgs"} => at <= Len(txs) /\ msgs = MsgInfos(tx) /\ pc = Route(tx, msgs))'
    <3>1. at' <= Len(txs') /\ msgs' = MsgInfos(tx') /\ pc' = Route(tx, msgs)'
      BY <1>2, <1>4, <1>5, <2>1
    <3>. QED
      BY <3>1
  <2>3. next' \in Nat /\ next' >= 1 /\ next' <= Len(msgs') + 1 /\ next' # 1
    BY <1>2, <1>4, <1>7
  <2>4. \A t \in DOMAIN txs' :
          \/ t > at'
          \/ t = at' /\ (pc' \in {"tx", "failed", "many", "contract"} \/ (pc' = "msgs" /\ next' = 1))
          => rows'[t] = <<>>
    <3>1. \A t \in DOMAIN txs : t > at => rows'[t] = <<>>
      BY <1>4, <1>6 DEF Progress
    <3>. QED
      BY <1>2, <1>5, <2>3, <3>1
  <2>5. (txs \in Seq(Transactions) /\ at \in Nat /\ at >= 1 /\ fee \in BOOLEAN)'
    BY <1>2, <1>3, <1>4, <1>5
  <2>6. DOMAIN rows' = DOMAIN txs' /\ \A t \in DOMAIN txs' : IsSeq(rows'[t])
    BY <1>5, <1>6
  <2>. QED
    BY <2>2, <2>3, <2>4, <2>5, <2>6 DEF Progress
<1>9. Ordered'
  <2>1. \A j \in DOMAIN rows[at] : Receipt(rows[at][j]) => ~fee
    BY DEF IInv, Ordered
  <2>2. InOrder(rows[at]) /\ \A j \in DOMAIN rows[at] : Receipt(rows[at][j]) => \A k \in DOMAIN rs : ~rs[k].fee
    BY <1>3, <1>6, <2>1 DEF IInv, Ordered
  <2>3. InOrder(rows[at] \o rs)
    BY <1>3, <1>6, <2>2, InOrderJoined
  <2>4. \A t \in DOMAIN txs : InOrder(rows'[t])
    BY <1>6, <2>3 DEF IInv, Ordered
  <2>5. \A j \in DOMAIN (rows[at] \o rs) : Receipt((rows[at] \o rs)[j]) => ~fee'
    <3> DEFINE all == rows[at] \o rs
               n == Len(rows[at])
    <3>1. n \in Nat /\ Len(rs) \in Nat /\ DOMAIN rows[at] = 1 .. n
      BY <1>3, <1>6, IsSeqType
    <3>2. /\ DOMAIN all = 1 .. (n + Len(rs))
          /\ \A k \in 1 .. n : all[k] = rows[at][k]
          /\ \A k \in (n + 1) .. (n + Len(rs)) : k - n \in DOMAIN rs /\ all[k] = rs[k - n]
      BY <1>3, <1>6, Joined
    <3>. HIDE DEF all, n
    <3>3. \A j \in DOMAIN all : (j \in DOMAIN rows[at] /\ all[j] = rows[at][j]) \/ \E k \in DOMAIN rs : all[j] = rs[k]
      BY <3>1, <3>2
    <3>4. \A j \in DOMAIN all : Receipt(all[j]) => ~fee'
      BY <1>3, <2>1, <3>3
    <3>. QED
      BY <3>4 DEF all
  <2>. QED
    BY <1>2, <1>5, <1>6, <2>4, <2>5 DEF Ordered
<1>10. Paid'
  <2>1. FirstPays(tx) => Once(rows[at] \o rs)
    <3>1. CASE next = 1
      <4>1. rows[at] = <<>>
        BY <1>4, <1>6, <3>1 DEF Progress
      <4>2. FirstPays(tx) => OneFeeRow(info.m)
        <5>1. msgs # <<>> /\ info = msgs[1]
          BY <1>7, <3>1, EmptyIsSeq DEF info
        <5>. QED
          BY <1>4, <5>1 DEF FirstPays
      <4>. QED
        BY <1>3, <1>6, <4>1, <4>2
    <3>2. CASE next > 1 /\ FirstPays(tx)
      <4>1. i # 0
        BY <1>4, <1>7, <3>2, InfosAre DEF FirstPays, i, info
      <4>2. ~Repeats
        <5>1. ASSUME Repeats PROVE FALSE
          <6>1. RepeatsFee(info.m) /\ (info.m.type = "MsgStart" => chain = "dvpn" /\ at \notin handled)
            BY <5>1 DEF Repeats
          <6>2. msgs[1].m.type = "MsgStart" /\ info.m.type = "MsgStart"
            BY <1>4, <1>7, <3>2, <6>1 DEF FirstPays, info
          <6>. QED
            BY <3>2, <6>1, <6>2 DEF IInv, Paid
        <5>. QED
          BY <5>1
      <4>3. \A k \in DOMAIN rs : ~rs[k].fee
        BY <1>3, <4>1, <4>2
      <4>4. Once(rows[at])
        BY <1>6, <3>2 DEF IInv, Paid, tx
      <4>. QED
        BY <1>3, <1>6, <4>3, <4>4, OnceJoined
    <3>. QED
      BY <1>4, <3>1, <3>2
  <2>2. \A t \in DOMAIN txs : FirstPays(txs[t]) => Once(rows'[t])
    BY <1>6, <2>1 DEF IInv, Paid, tx
  <2>3. chain = "dvpn" /\ msgs[1].m.type = "MsgStart" => at \in handled'
    <3>1. CASE next = 1
      BY <1>1, <3>1 DEF info
    <3>2. CASE next > 1
      BY <1>1, <3>2 DEF IInv, Paid
    <3>. QED
      BY <1>4, <3>1, <3>2
  <2>. QED
    BY <1>2, <1>5, <2>2, <2>3 DEF Paid
<1>11. Counted'
  <2>1. CountedIn(rows, deposits)
    BY DEF IInv, Counted
  <2>2. CASE NoDeposit(result) /\ deposits' = deposits
    <3>1. \A k \in DOMAIN rs : ~IsDeposit(rs[k])
      BY <2>2 DEF NoDeposit, IsDeposit, rs
    <3>2. CountedIn([rows EXCEPT ![at] = @ \o rs], deposits)
      BY <1>3, <1>6, <2>1, <3>1, NoneCounted
    <3>. QED
      BY <1>6, <2>2, <3>2 DEF Counted
  <2>3. CASE /\ info.m.nonce # 0 /\ info.m.nonce \notin deposits /\ deposits' = deposits \cup {info.m.nonce}
             /\ Counts(result.rows, info.m.nonce)
    <3>1. CountedIn([rows EXCEPT ![at] = @ \o rs], deposits \cup {info.m.nonce})
      BY <1>3, <1>6, <2>1, <2>3, OneCounted DEF rs
    <3>. QED
      BY <1>6, <2>3, <3>1 DEF Counted
  <2>. QED
    BY <1>1, <2>2, <2>3
<1>12. Claimed'
  <2>1. deposits \subseteq deposits' /\ (chain = "inj" /\ Claims(info.m) => info.m.nonce \in deposits')
    BY <1>1
  <2>2. \A k \in DOMAIN msgs : k < next + 1 => k < next \/ k = next
    BY <1>4, <1>7
  <2>3. chain = "inj" => \A k \in DOMAIN msgs : k < next + 1 /\ Claims(msgs[k].m) => msgs[k].m.nonce \in deposits'
    BY <2>1, <2>2 DEF IInv, Claimed, info
  <2>. QED
    BY <1>2, <1>5, <2>1, <2>3 DEF IInv, Claimed
<1>. QED
  BY <1>8, <1>9, <1>10, <1>11, <1>12 DEF IInv

\* Every message is handled where the report is.
LEMMA MessagesAt ==
  ASSUME CommonMessage \/ ChainMessage \/ UnknownMessage
  PROVE  pc = "msgs" /\ next <= Len(msgs)
<1>1. CASE CommonMessage
  BY <1>1 DEF CommonMessage, Vote, Proposal, Staking, Send, Multisend, Exec, Grant, Silent, At
<1>2. CASE ChainMessage
  BY <1>2 DEF ChainMessage, LiquidStake, ClaimFreeAmount, DepositClaim, SendToEth, EvmTransfer, Airdrop, NtrnContract,
              OsmoMessage, OsmoExec, StartSession, SubscribeToNode, AtChain, At
<1>3. CASE UnknownMessage
  BY <1>3 DEF UnknownMessage
<1>. QED
  BY <1>1, <1>2, <1>3

LEMMA MessageStepsKeep ==
  ASSUME IInv, CommonMessage \/ ChainMessage \/ UnknownMessage
  PROVE  IInv'
<1>1. pc = "msgs" /\ next <= Len(msgs)
  BY MessagesAt
<1>2. Handling
  <2>1. /\ Progress /\ at <= Len(txs) /\ msgs = MsgInfos(tx) /\ next \in Nat /\ next >= 1 /\ fee \in BOOLEAN
    BY <1>1 DEF IInv, Progress
  <2>2. tx \in Transactions /\ next \in DOMAIN msgs
    BY <1>1, <2>1, CurrentTx
  <2>. QED
    BY <2>1, <2>2, InfosAre DEF Handling, info
<1>3. MessageStep \/ MessageRaises
  BY <1>2, CommonMessages, ChainMessages, UnknownMessages
<1>4. MessageRaises => IInv'
  <2>1. MessageRaises => pc' \in {"done", "raised"} /\ UNCHANGED <<report, at, fee, deposits, rows>>
    BY DEF MessageRaises, memory
  <2>. QED
    BY <2>1, EndKeeps
<1>. QED
  BY <1>1, <1>3, <1>4, MessageKeeps

LEMMA StepKeeps ==
  ASSUME IInv, [Next]_vars
  PROVE  IInv'
<1>1. ASSUME ReadTxRaises \/ EndReport PROVE IInv'
  <2>1. pc' \in {"done", "raised"} /\ UNCHANGED <<report, at, fee, deposits, rows>>
    BY <1>1 DEF ReadTxRaises, EndReport, memory
  <2>. QED
    BY <2>1, EndKeeps
<1>2. ASSUME UNCHANGED vars PROVE IInv'
  <2>1. /\ UNCHANGED report /\ at' = at /\ pc' = pc /\ msgs' = msgs /\ next' = next /\ fee' = fee
        /\ deposits' = deposits /\ handled' = handled /\ rows' = rows /\ tx' = tx
    BY <1>2 DEF vars, report, tx
  <2>2. chain' = chain /\ txs' = txs /\ \A t : FirstPays(txs[t])' <=> FirstPays(txs[t])
    BY <2>1, SameChain
  <2>3. Progress'
    <3>1. Route(tx, msgs)' = Route(tx, msgs)
      BY <2>1, <2>2 DEF Route
    <3>. QED
      BY <2>1, <2>2, <3>1 DEF IInv, Progress
  <2>4. Ordered' /\ Counted' /\ Claimed'
    BY <2>1, <2>2 DEF IInv, Ordered, Counted, Claimed
  <2>5. Paid'
    BY <2>1, <2>2 DEF IInv, Paid
  <2>. QED
    BY <2>3, <2>4, <2>5 DEF IInv
<1>. QED
  BY <1>1, <1>2, ReadKeeps, WholeSteps, MessageStepsKeep, EndTxKeeps DEF Next, Terminated

-----------------------------------------------------------------------------
(* Theorems *)

\* In every state of a report, of any history of any chain: the transaction that is
\* read next has no rows yet, no row shows the fee after a receipt and no message that
\* is left may, only a transaction whose first message pays shows the fee in one row, and
\* Deposits.txs is what the claims so far have brought and what the rows count.
THEOREM Invariance == Spec => []IInv
<1>1. Init => IInv
  BY InitInv
<1>2. IInv /\ [Next]_vars => IInv'
  BY StepKeeps
<1>. QED
  BY <1>1, <1>2, PTL DEF Spec

\* make_transfer_in_tx clears the fee for all that follows: in any history, whatever
\* handlers and messages come after a receipt, no later row of its transaction shows it.
THEOREM ReceiptsAreFree == Spec => []NoFeeAfterReceipt
<1>1. IInv => NoFeeAfterReceipt
  BY DEF IInv, Ordered, InOrder, Receipt, NoFeeAfterReceipt
<1>. QED
  BY <1>1, Invariance, PTL

\* A transaction of whose messages only the first repeats the fee, or that starts sessions
\* of Sentinel only, shows the fee in one row at most, in any history and at any time.
THEOREM FeeShownOnce == Spec => []FeeOnce
<1>1. IInv => FeeOnce
  BY DEF IInv, Paid, Once, FeeOnce
<1>. QED
  BY <1>1, Invariance, PTL

\* Every deposit that a claim of an Injective orchestrator brings to the wallet is counted
\* by exactly one row, however many claims there are of it and in whichever transactions.
THEOREM DepositsCountedOnce == Spec => []DepositsOnce
<1>1. IInv => DepositsOnce
  <2>1. SUFFICES ASSUME IInv, chain = "inj", NEW t \in DOMAIN txs, NEW k \in DOMAIN txs[t].msgs,
                        t < at, ~txs[t].failed, txs[t].logs, Claims(txs[t].msgs[k]), "null" \notin txs[t].msgs[k].flags
                 PROVE  \E p \in DepositRows(txs[t].msgs[k].nonce) : DepositRows(txs[t].msgs[k].nonce) = {p}
    BY DEF DepositsOnce, Finished
  <2> DEFINE n == txs[t].msgs[k].nonce
  <2>2. n # 0
    <3>1. txs \in Seq(Transactions)
      BY <2>1 DEF IInv, Progress
    <3>2. txs[t].msgs \in Seq(Messages)
      <4>1. txs[t] \in Transactions
        BY <3>1
      <4>. QED
        BY <4>1 DEF Transactions
    <3>3. txs[t].msgs[k] \in Messages /\ txs[t].msgs[k].type = "MsgDepositClaim"
      BY <2>1, <3>2 DEF Claims
    <3>. QED
      BY <3>3, MessageType
  <2>3. n \in deposits /\ CountedIn(rows, deposits)
    BY <2>1 DEF IInv, Claimed, Counted
  <2>. HIDE DEF n
  <2>4. PICK u \in DOMAIN rows : \E l \in DOMAIN rows[u] : IsDeposit(rows[u][l]) /\ rows[u][l].about = n
    BY <2>3 DEF CountedIn
  <2>5. PICK l \in DOMAIN rows[u] : IsDeposit(rows[u][l]) /\ rows[u][l].about = n
    BY <2>4
  <2>6. ASSUME NEW p, p \in DepositRows(n) PROVE p = <<u, l>>
    <3>1. PICK v \in DOMAIN rows : p \in {v} \X DOMAIN rows[v]
      BY <2>6 DEF DepositRows
    <3>2. p = <<v, p[2]>> /\ p[1] = v /\ p[2] \in DOMAIN rows[v]
      BY <3>1
    <3>3. IsDeposit(rows[v][p[2]]) /\ rows[v][p[2]].about = n
      BY <2>2, <2>6, <3>2 DEF DepositRows, IsDeposit
    <3>4. v = u /\ p[2] = l
      BY <2>3, <2>5, <3>2, <3>3 DEF CountedIn
    <3>. QED
      BY <3>2, <3>4
  <2>7. <<u, l>> \in DepositRows(n)
    <3> DEFINE q == <<u, l>>
    <3>1. q[1] = u /\ q[2] = l /\ q \in {u} \X DOMAIN rows[u]
      OBVIOUS
    <3>2. q \in UNION {{v} \X DOMAIN rows[v] : v \in DOMAIN rows}
      BY <3>1
    <3>3. rows[q[1]][q[2]].type = "TRANSFER" /\ rows[q[1]][q[2]].about = n
      BY <2>5, <3>1 DEF IsDeposit
    <3>. HIDE DEF q
    <3>4. q \in DepositRows(n)
      BY <3>2, <3>3 DEF DepositRows
    <3>. QED
      BY <3>4 DEF q
  <2>8. DepositRows(n) = {<<u, l>>}
    BY <2>6, <2>7
  <2>. QED
    BY <2>7, <2>8 DEF n
<1>. QED
  BY <1>1, Invariance, PTL

=============================================================================
