------------------------------- MODULE CosmosRows ------------------------------
(***************************************************************************)
(* The rows that a message of a Cosmos transaction becomes: the handlers   *)
(* of common/ibc (handle.py, handle_authz.py, make_tx.py, util_ibc.py) and *)
(* those of the chains that have messages of their own.                    *)
(*                                                                         *)
(* A message has a type, one for each group of message types that the      *)
(* processors treat alike, the flows of coins of its events, whether the   *)
(* events are coin_spent and coin_received or only transfer, and flags.  A *)
(* handler is a function of the message, its index and whether the fee of  *)
(* the transaction is still there (txinfo.fee, which handlers clear), and  *)
(* its result says what it ingested, the fee it leaves and if it raised.   *)
(***************************************************************************)
EXTENDS Integers, Sequences, SequencesExt, Places

\* "w" is the wallet, "x" anybody else.
Flow(src, dst, amt, cur) == [src |-> src, dst |-> dst, amt |-> amt, cur |-> cur]

Coin(f) == [amt |-> f.amt, cur |-> f.cur]
NoCoin  == [amt |-> 0, cur |-> ""]

\* A message.  Those that a MsgExec wraps wrap none; a flag says in which way, if in
\* any, the message differs from others of its type; a deposit has a nonce, from 1 on.
Flows   == [src: {"w", "x"}, dst: {"w", "x"}, amt: Nat, cur: STRING \ {""}]
Amounts == [amt: Nat, cur: STRING]
Legs    == [does: STRING, id: Nat, recv: Amounts, sent: Amounts]
Events  == [id: Nat, from: Nat, liquidity: Nat, legs: Seq(Legs)]

MessagesAround(wrapped) ==
  {m \in [type: STRING, flows: Seq(Flows), modern: BOOLEAN, flags: SUBSET STRING, nonce: Nat,
          subs: wrapped, event: Events] :
     /\ \A a, b \in m.flags : a = b
     /\ m.type = "MsgDepositClaim" => m.nonce # 0}

Messages == MessagesAround(Seq(MessagesAround({<<>>})))

\* A row: fee says whether it shows the fee of the transaction, in its fee
\* column or as the amount that was spent; about is the deposit of its comment.
Row(type, recv, sent, fee, about) ==
  [type |-> type, recv |-> recv, sent |-> sent, fee |-> fee, about |-> about]

Ingested(rows, fee) == [rows |-> rows, fee |-> fee, raised |-> FALSE]
Raised(fee)         == [rows |-> <<>>, fee |-> fee, raised |-> TRUE]

-----------------------------------------------------------------------------
\* The transfers of a message (MsgInfoIBC).

Coins(flows) == [k \in DOMAIN flows |-> Coin(flows[k])]

\* The places of the flows to the wallet, and from it.
Inward(m)  == {k \in DOMAIN m.flows : m.flows[k].dst = "w"}
Outward(m) == {k \in DOMAIN m.flows : m.flows[k].src = "w"}

CoinsAt(m, places) == Coins(AtPlaces(m.flows, places))

\* _transfers_from_transfer_event: a multisend is left out.
TransfersEvent(m) ==
  IF m.type = "MsgMultiSend" THEN [in |-> <<>>, out |-> <<>>]
  ELSE [in |-> CoinsAt(m, Inward(m)), out |-> CoinsAt(m, Outward(m) \ Inward(m))]

\* _transfers: from coin_received and coin_spent, if there are any.
Transfers(m) ==
  IF m.modern THEN [in |-> CoinsAt(m, Inward(m)), out |-> CoinsAt(m, Outward(m))] ELSE TransfersEvent(m)

\* The currencies of coins, in the order of a dict they are added to.
CurrenciesOf(coins) ==
  LET firsts == AtPlaces(coins, {k \in DOMAIN coins : \A j \in 1 .. (k - 1) : coins[j].cur # coins[k].cur})
  IN  [k \in DOMAIN firsts |-> firsts[k].cur]

Total(coins, cur) ==
  LET sum[n \in 0 .. Len(coins)] ==
        IF n = 0 THEN 0 ELSE sum[n - 1] + (IF coins[n].cur = cur THEN coins[n].amt ELSE 0)
  IN  sum[Len(coins)]

Net(t, cur) == Total(t.in, cur) - Total(t.out, cur)

\* aggregate_transfers_net
TransfersNet(t) ==
  LET curs == CurrenciesOf(t.in \o t.out)
      gained == AtPlaces(curs, {k \in DOMAIN curs : Net(t, curs[k]) > 0})
      lost   == AtPlaces(curs, {k \in DOMAIN curs : Net(t, curs[k]) < 0})
  IN  [in  |-> [k \in DOMAIN gained |-> [amt |-> Net(t, gained[k]), cur |-> gained[k]]],
       out |-> [k \in DOMAIN lost   |-> [amt |-> -Net(t, lost[k]),  cur |-> lost[k]]]]

None(coins)   == Len(coins) = 0
Single(coins) == Len(coins) = 1

-----------------------------------------------------------------------------
\* The rows of common/ibc/make_tx.py and common/make_tx.py.

\* _make_tx leaves the fee to the first message.
FirstFee(fee, i) == fee /\ i = 0

IbcRow(type, fee, i, recv, sent) == Row(type, recv, sent, FirstFee(fee, i), 0)

SimpleRow(fee, i, m) == IbcRow(m.type, fee, i, NoCoin, NoCoin)
UnknownRow(fee, i)   == IbcRow("_UNKNOWN", fee, i, NoCoin, NoCoin)

\* A row whose sent amount is the fee.
SpendFeeRow(fee) == Row("SPEND", NoCoin, NoCoin, fee, 0)

\* make_transfer_in_tx has cleared the fee; make_transfer_out_tx shows it, whatever the message.
TransferInRow(coin)       == Row("TRANSFER", coin, NoCoin, FALSE, 0)
TransferOutRow(fee, coin) == Row("TRANSFER", NoCoin, coin, fee, 0)

InRows(coins)       == [k \in DOMAIN coins |-> TransferInRow(coins[k])]
OutRows(fee, coins) == [k \in DOMAIN coins |-> TransferOutRow(fee, coins[k])]

-----------------------------------------------------------------------------
\* The handlers of common/ibc.

HandleSimple(fee, i, m) == Ingested(<<IF fee THEN SpendFeeRow(fee) ELSE SimpleRow(fee, i, m)>>, fee)

\* A proposal or its deposit: handle_simple_outbound, for one coin that goes out.
HandleProposal(fee, i, m) ==
  LET t == Transfers(m) IN
  IF None(t.in) /\ Single(t.out)
  THEN Ingested(<<IbcRow(m.type, fee, i, NoCoin, t.out[1])>>, fee)
  ELSE HandleSimple(fee, i, m)

\* Mutant: the fee is left in every row.
HandleStaking_EveryRow(fee, i, m) ==
  LET in   == Transfers(m).in
      curs == CurrenciesOf(in)
  IN  IF "broken" \in m.flags THEN Raised(fee)
      ELSE IF \A k \in DOMAIN in : in[k].amt = 0 THEN Ingested(<<SimpleRow(fee, i, m)>>, fee)
      ELSE Ingested([k \in DOMAIN curs |->
                       IbcRow("STAKING", fee, i, [amt |-> Total(in, curs[k]), cur |-> curs[k]], NoCoin)], fee)

\* A row for every currency that comes in; the amount of the message is read for the comment.
HandleStaking(fee, i, m) ==
  LET in   == Transfers(m).in
      curs == CurrenciesOf(in)
  IN  IF "broken" \in m.flags THEN Raised(fee)
      ELSE IF \A k \in DOMAIN in : in[k].amt = 0 THEN Ingested(<<SimpleRow(fee, i, m)>>, fee)
      ELSE Ingested([k \in DOMAIN curs |->
                       IbcRow("STAKING", fee /\ k = 1, i, [amt |-> Total(in, curs[k]), cur |-> curs[k]], NoCoin)], fee)

\* Mutant: the fee is left when coins come in.
HandleTransfer_Fee(fee, i, m) ==
  LET t == TransfersEvent(m)
      n == IF Len(t.in \o t.out) > 1 THEN TransfersNet(t) ELSE t
  IN  IF "self" \in m.flags THEN Ingested(<<IbcRow("_SELF_TRANSFER", fee, i, NoCoin, NoCoin)>>, fee)
      ELSE Ingested(InRows(n.in) \o OutRows(fee, n.out), fee)

\* _handle_transfer: to itself, one coin in, one coin out, unrelated, or the net of several.
HandleTransfer(fee, i, m) ==
  LET t == TransfersEvent(m)
      n == IF Len(t.in \o t.out) > 1 THEN TransfersNet(t) ELSE t
      left == fee /\ None(n.in)
  IN  IF "self" \in m.flags THEN Ingested(<<IbcRow("_SELF_TRANSFER", fee, i, NoCoin, NoCoin)>>, fee)
      ELSE Ingested(InRows(n.in) \o OutRows(left, n.out), left)

\* Only the first row may show the fee, and an inbound one clears it.
HandleMultisend(fee, i, m) ==
  LET t == Transfers(m)
      left == fee /\ None(t.in)
  IN  Ingested(InRows(t.in) \o [k \in DOMAIN t.out |-> TransferOutRow(left /\ k = 1, t.out[k])], left)

\* handle_exec: the fee is cleared before the wrapped messages are looked at.
HandleExec(fee, i, m) ==
  IF "broken" \in m.flags THEN Raised(FALSE)
  ELSE IF "staking" \notin m.flags THEN Ingested(<<UnknownRow(FALSE, i)>>, FALSE)
  ELSE IF None(Transfers(m).in) THEN Ingested(<<>>, FALSE)
  ELSE HandleStaking(FALSE, i, m)

\* handle_authz_grant and handle_authz_revoke
HandleGrant(fee, i, m) == Ingested(IF i = 0 THEN <<SpendFeeRow(fee)>> ELSE <<>>, fee)

\* An update of a client, an acknowledgment or a timeout.
HandleSilent(fee, i, m) == Ingested(<<>>, fee)

\* Mutant: what comes in is left out if something goes out.
DetectRowsFrom_OutOnly(t, n) ==
  LET unknown(recv, sent) == Row("_UNKNOWN", recv, sent, FALSE, 0)
  IN  IF None(t.in) /\ None(t.out) THEN <<unknown(NoCoin, NoCoin)>>
      ELSE IF Single(t.in) /\ Single(t.out) THEN <<unknown(NoCoin, t.out[1])>>
      ELSE [k \in DOMAIN n.out |-> unknown(NoCoin, n.out[k])] \o
           [k \in DOMAIN n.in  |-> unknown(n.in[k], NoCoin)]

\* unknown_txs_detect_transfers: t are the transfers of a message, n their net.
DetectRowsFrom(t, n) ==
  LET unknown(recv, sent) == Row("_UNKNOWN", recv, sent, FALSE, 0)
  IN  IF None(t.in) /\ None(t.out) THEN <<unknown(NoCoin, NoCoin)>>
      ELSE IF Single(t.in) /\ Single(t.out) THEN <<unknown(t.in[1], t.out[1])>>
      ELSE [k \in DOMAIN n.out |-> unknown(NoCoin, n.out[k])] \o
           [k \in DOMAIN n.in  |-> unknown(n.in[k], NoCoin)]

DetectRows(m) == DetectRowsFrom(Transfers(m), TransfersNet(Transfers(m)))

\* util_ibc._ingest_rows: the first row of the first message gets the fee.
IngestRows(fee, i, rs) == [k \in DOMAIN rs |-> [rs[k] EXCEPT !.fee = FirstFee(fee, i) /\ k = 1]]

HandleUnknownDetectTransfers(fee, i, m) == Ingested(IngestRows(fee, i, DetectRows(m)), fee)

-----------------------------------------------------------------------------
\* The handlers of the chains.

\* strd/handle.py: a swap, or a swap and the claim of a reward in STRD.
HandleLiquidStake(fee, i, m) ==
  LET t == Transfers(m)
      n == TransfersNet(t)
      swap(recv, sent) == IbcRow("TRADE", fee, i, recv, sent)
      strd == {k \in DOMAIN n.in : n.in[k].cur = "STRD"}
      claim == CHOOSE k \in strd : TRUE
  IN  IF Single(t.in) /\ Single(t.out) THEN Ingested(<<swap(t.in[1], t.out[1])>>, fee)
      ELSE IF Len(t.in) > 1 /\ Single(t.out) /\ Len(n.in) = 2 /\ Single(n.out) /\ strd # {}
      THEN Ingested(<<IbcRow("STAKING", fee, i, n.in[claim], NoCoin), swap(n.in[3 - claim], n.out[1])>>, fee)
      ELSE Raised(fee)

\* strd/handle.py: both branches raise.
HandleClaimFreeAmount(fee, i, m) == Raised(fee)

\* inj/handle_deposit_claim.py: the claims of several orchestrators report one deposit.
HandleDepositClaim(fee, i, m, counted) ==
  IF "broken" \in m.flags THEN Raised(fee)
  ELSE IF "foreign" \in m.flags THEN Ingested(<<IbcRow("_NOOP", fee, i, NoCoin, NoCoin)>>, fee)
  ELSE IF m.nonce \in counted
  THEN Ingested(<<Row("_DUPLICATE_DEPOSIT_CLAIM", NoCoin, NoCoin, FirstFee(fee, i), m.nonce)>>, fee)
  ELSE Ingested(<<Row("TRANSFER", Coin(m.flows[1]), NoCoin, FALSE, m.nonce)>>, FALSE)

\* inj/handle_send_to_eth.py: the bridge's fee cannot be added to a fee of "".
HandleSendToEth(fee, i, m) ==
  IF "broken" \in m.flags \/ ~fee THEN Raised(fee)
  ELSE Ingested(<<TransferOutRow(fee, Coin(m.flows[1]))>>, fee)

\* dym/handle.py
HandleEvmTransfer(fee, i, m) ==
  LET n == TransfersNet(Transfers(m)) IN
  IF Single(n.in) /\ None(n.out) THEN Ingested(InRows(n.in), FALSE)
  ELSE IF None(n.in) /\ Single(n.out) THEN Ingested(OutRows(fee, n.out), fee)
  ELSE Raised(fee)

\* stars/handle.py and tori/handle.py
HandleAirdrop(fee, i, m) ==
  LET t == Transfers(m) IN
  IF Single(t.in) THEN Ingested(<<Row("AIRDROP", t.in[1], NoCoin, fee, 0)>>, fee)
  ELSE HandleUnknownDetectTransfers(fee, i, m)

\* ntrn: a swap of Astroport, a vote, or any other contract.
HandleNtrnContract(fee, i, m) ==
  LET n == TransfersNet(Transfers(m)) IN
  IF "broken" \in m.flags THEN Raised(fee)
  ELSE IF "astroport" \in m.flags
  THEN IF Single(n.in) /\ Single(n.out) THEN Ingested(<<Row("TRADE", n.in[1], n.out[1], fee, 0)>>, fee)
       ELSE Raised(fee)
  ELSE IF "vote" \in m.flags THEN Ingested(<<SpendFeeRow(fee)>>, fee)
  ELSE HandleUnknownDetectTransfers(fee, i, m)

\* dvpn: the fee is spent once for all messages of a transaction.
HandleSpendFee(fee, i, m, handled) == Ingested(IF handled THEN <<>> ELSE <<SpendFeeRow(fee)>>, fee)

\* dvpn: asserts that one coin goes out.
HandleSubscribedToNode(fee, i, m) ==
  LET out == Transfers(m).out IN
  IF Single(out) THEN Ingested(<<Row("SPEND", NoCoin, out[1], fee, 0)>>, fee) ELSE Raised(fee)
=============================================================================
