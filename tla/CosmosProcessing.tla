---------------------------- MODULE CosmosProcessing ---------------------------
(***************************************************************************)
(* The processing of the transactions of a wallet of a Cosmos chain:       *)
(* process_txs and process_tx of the chains' processor.py on top of        *)
(* txinfo and handle_message of common/ibc/processor.py.                   *)
(*                                                                         *)
(* The fee of a transaction is a field that handlers clear, and modules    *)
(* remember for as long as the process lives the deposits and the fees     *)
(* that were counted, and what is locked, in positions and on order on     *)
(* Osmosis.  An exception in a handler is caught by some callers and not   *)
(* by others.                                                              *)
(***************************************************************************)
EXTENDS OsmoRows

CONSTANTS
  Inputs,        \* the chains and transactions of a report
  ManyContracts, \* contracts in a transaction that is not looked into, 100 in juno
  MaxRows        \* bound: rows that the handler of a contract returns

Transactions == [failed: BOOLEAN, fee: BOOLEAN, logs: BOOLEAN, msgs: Seq(Messages)]

ASSUME CosmosProcessingAssumption ==
  /\ ManyContracts \in Nat \ {0} /\ MaxRows \in Nat
  /\ Inputs \subseteq [chain: STRING, txs: Seq(Transactions)]

VARIABLES
  chain,    \* the processor that runs
  txs,      \* the transactions
  at,       \* the one that is processed
  pc,       \* "tx", "failed", "many", "contract", "msgs", "done" or "raised"
  msgs,     \* txinfo.msgs: messages and their indexes
  next,     \* the message that is handled
  fee,      \* whether txinfo.fee is there
  deposits, \* Deposits.txs of inj
  handled,  \* _handled_fee_spend_tx_hashes of dvpn
  holdings, \* LockedTokens, PositionLiquidity and LimitOrder of osmo
  rows      \* the rows of each transaction

report == <<chain, txs>>
memory == <<deposits, handled, holdings>>
vars == <<chain, txs, at, pc, msgs, next, fee, deposits, handled, holdings, rows>>

Init ==
  /\ \E input \in Inputs : chain = input.chain /\ txs = input.txs
  /\ at = 1 /\ pc = "tx"
  /\ msgs = <<>> /\ next = 1 /\ fee = FALSE
  /\ deposits = {} /\ handled = {} /\ holdings = NoHoldings
  /\ rows = [t \in DOMAIN txs |-> <<>>]

tx == txs[at]

-----------------------------------------------------------------------------
\* txinfo

\* A transaction without logs whose first message is a MsgExec.
IsAuthzNoLogs(t) == ~t.logs /\ t.msgs # <<>> /\ t.msgs[1].type = "MsgExec"

Indexed(ms) == [k \in DOMAIN ms |-> [i |-> k - 1, m |-> ms[k]]]

Relevant(m) == \E k \in DOMAIN m.flows : "w" \in {m.flows[k].src, m.flows[k].dst}

\* The wrapped messages that have to do with the wallet, numbered for each MsgExec anew.
SubMessages(m) == AtPlaces(Indexed(m.subs), {k \in DOMAIN m.subs : Relevant(m.subs[k])})

\* The messages that are handled: a log whose msg_index is null is left out.
MsgInfos(t) ==
  IF IsAuthzNoLogs(t) THEN FlattenSeq([k \in DOMAIN t.msgs |-> SubMessages(t.msgs[k])])
  ELSE IF t.logs THEN AtPlaces(Indexed(t.msgs), {k \in DOMAIN t.msgs : "null" \notin t.msgs[k].flags})
  ELSE <<>>

IsManyExecuteContracts(infos) ==
  Len(infos) >= ManyContracts /\ \A k \in DOMAIN infos : infos[k].m.type = "MsgExecuteContract"

IsExecuteContract(infos) == infos # <<>> /\ infos[1].m.type = "MsgExecuteContract"

\* What process_tx does with a transaction.
Route(t, infos) ==
  IF t.failed THEN "failed"
  ELSE IF chain = "juno" /\ IsManyExecuteContracts(infos) THEN "many"
  ELSE IF chain \in {"kuji", "luna2"} /\ IsExecuteContract(infos) THEN "contract"
  ELSE "msgs"

\* Any other message beside a MsgExec raises, and nothing catches it.
Unexpected(t) == IsAuthzNoLogs(t) /\ \E k \in DOMAIN t.msgs : t.msgs[k].type # "MsgExec"

ReadTx ==
  /\ pc = "tx" /\ at <= Len(txs) /\ ~Unexpected(tx)
  /\ msgs' = MsgInfos(tx)
  /\ pc' = Route(tx, msgs')
  /\ next' = 1 /\ fee' = tx.fee
  /\ UNCHANGED <<report, at, memory, rows>>

\* Nothing catches an exception of txinfo either if the currency of an amount is
\* asked for in vain.
ReadTxRaises ==
  /\ pc = "tx" /\ at <= Len(txs) /\ (Unexpected(tx) \/ tx.msgs # <<>>)
  /\ pc' = "raised"
  /\ UNCHANGED <<report, at, msgs, next, fee, memory, rows>>

-----------------------------------------------------------------------------
\* Transactions that are handled as a whole.

Ingest(rs) == rows' = [rows EXCEPT ![at] = @ \o rs]

NextTx == at' = at + 1 /\ pc' = "tx"

\* Mutant: a failed transaction without a fee is left out.
FailedRows_FeeOnly == IF fee THEN <<SpendFeeRow(fee)>> ELSE <<>>

FailedRows == IF fee THEN <<SpendFeeRow(fee)>> ELSE <<Row("_FAILED_NO_FEE", NoCoin, NoCoin, FALSE, 0)>>

HandleFailedTransaction ==
  /\ pc = "failed"
  /\ Ingest(FailedRows)
  /\ NextTx
  /\ UNCHANGED <<report, msgs, next, fee, memory>>

TxUnknownRow == Row("_UNKNOWN", NoCoin, NoCoin, fee, 0)

HandleManyContracts ==
  /\ pc = "many"
  /\ Ingest(<<TxUnknownRow>>)
  /\ NextTx
  /\ UNCHANGED <<report, msgs, next, fee, memory>>

\* ingest_rows: the first row gets the fee; without rows, none is made for the fee either.
TxIngestRows(n) == [k \in 1..n |-> Row("_CONTRACT", NoCoin, NoCoin, fee /\ k = 1, 0)]

\* The contract has no handler; the handler returns rows, or raises, which is
\* caught; the query for what the contract is raises, which is not.
HandleContract ==
  /\ pc = "contract"
  /\ \/ /\ Ingest(FlattenSeq([k \in DOMAIN msgs |-> IngestRows(fee, msgs[k].i, DetectRows(msgs[k].m))]))
        /\ NextTx
     \/ (\E n \in 0..MaxRows : Ingest(TxIngestRows(n))) /\ NextTx
     \/ Ingest(<<TxUnknownRow>>) /\ NextTx
     \/ pc' = "raised" /\ UNCHANGED <<at, rows>>
  /\ UNCHANGED <<report, msgs, next, fee, memory>>

-----------------------------------------------------------------------------
\* Messages.

info == msgs[next]

\* A message of one of these types is next.
At(types) == pc = "msgs" /\ next <= Len(msgs) /\ info.m.type \in types

NextMessage == next' = next + 1 /\ UNCHANGED <<report, at, pc, msgs>>

Take(result) == Ingest(result.rows) /\ fee' = result.fee /\ NextMessage

\* The exception of a handler of common/ibc: a row without transfers.
HandleUnknown(left) == Ingested(<<UnknownRow(left, info.i)>>, left)

Common(result) == Take(IF result.raised THEN HandleUnknown(result.fee) ELSE result) /\ UNCHANGED memory

\* The exception of a handler of a chain: a row for each transfer, after those it made.
OrDetect(result) ==
  IF result.raised THEN Ingested(result.rows \o IngestRows(result.fee, info.i, DetectRows(info.m)), result.fee) ELSE result

Vote       == At({"MsgVote"}) /\ Common(HandleSimple(fee, info.i, info.m))
Proposal   == At({"MsgDeposit"}) /\ Common(HandleProposal(fee, info.i, info.m))
Staking    == At({"MsgDelegate"}) /\ Common(HandleStaking(fee, info.i, info.m))
Send       == At({"MsgSend", "MsgTransfer"}) /\ Common(HandleTransfer(fee, info.i, info.m))
Multisend  == At({"MsgMultiSend"}) /\ Common(HandleMultisend(fee, info.i, info.m))
Exec       == At({"MsgExec"}) /\ chain # "osmo" /\ Common(HandleExec(fee, info.i, info.m))
Grant      == At({"MsgGrant"}) /\ Common(HandleGrant(fee, info.i, info.m))
Silent     == At({"MsgTimeout"}) /\ Common(HandleSilent(fee, info.i, info.m))

CommonTypes ==
  {"MsgVote", "MsgDeposit", "MsgDelegate", "MsgSend", "MsgTransfer", "MsgMultiSend", "MsgExec", "MsgGrant", "MsgTimeout"}

ChainTypes ==
  CASE chain = "strd"  -> {"MsgLiquidStake", "MsgClaimFreeAmount"}
    [] chain = "inj"   -> {"MsgDepositClaim", "MsgSendToEth"}
    [] chain = "dym"   -> {"MsgEthereumTx"}
    [] chain = "stars" -> {"MsgInitialClaim"}
    [] chain = "ntrn"  -> {"MsgExecuteContract"}
    [] chain = "osmo"  -> OsmoTypes
    [] chain = "dvpn"  -> {"MsgStart", "MsgSubscribeToNode"}
    [] OTHER           -> {}

AtChain(types) == At(types \cap ChainTypes)

LiquidStake     == AtChain({"MsgLiquidStake"}) /\ Take(OrDetect(HandleLiquidStake(fee, info.i, info.m))) /\ UNCHANGED memory
ClaimFreeAmount == AtChain({"MsgClaimFreeAmount"}) /\ Take(OrDetect(HandleClaimFreeAmount(fee, info.i, info.m))) /\ UNCHANGED memory
SendToEth       == AtChain({"MsgSendToEth"}) /\ Take(OrDetect(HandleSendToEth(fee, info.i, info.m))) /\ UNCHANGED memory
EvmTransfer     == AtChain({"MsgEthereumTx"}) /\ Take(OrDetect(HandleEvmTransfer(fee, info.i, info.m))) /\ UNCHANGED memory
Airdrop         == AtChain({"MsgInitialClaim"}) /\ Take(HandleAirdrop(fee, info.i, info.m)) /\ UNCHANGED memory

NtrnContract ==
  /\ chain = "ntrn" /\ AtChain({"MsgExecuteContract"})
  /\ Take(OrDetect(HandleNtrnContract(fee, info.i, info.m)))
  /\ UNCHANGED memory

OsmoMessage ==
  /\ chain = "osmo" /\ AtChain(OsmoTypes)
  /\ Take(OrDetect(HandleOsmo(fee, info.i, info.m, holdings)))
  /\ holdings' = KeptAfter(holdings, info.m)
  /\ UNCHANGED <<deposits, handled>>

\* A MsgExec of Osmosis may wrap other messages than those of staking.
OsmoExec ==
  /\ chain = "osmo" /\ At({"MsgExec"})
  /\ LET result == IF Calls(info.m, {"staking", "broken"}) THEN HandleExec(fee, info.i, info.m) ELSE HandleOsmoExec(info.m, info.i)
     IN  Take(IF result.raised THEN HandleUnknown(result.fee) ELSE result)
  /\ holdings' = [holdings EXCEPT !.locks = IF Calls(info.m, {"lock"}) THEN Staked(@, info.m) ELSE @]
  /\ UNCHANGED <<deposits, handled>>

\* Whether a claim brings a deposit to the wallet: it has the fields that are read.
Claims(m) == m.type = "MsgDepositClaim" /\ m.flags \cap {"foreign", "broken"} = {}

\* Mutant: a deposit is never remembered.
Deposited_Never(m) == deposits

Deposited(m) == IF Claims(m) THEN deposits \cup {m.nonce} ELSE deposits

DepositClaim ==
  /\ AtChain({"MsgDepositClaim"})
  /\ Take(OrDetect(HandleDepositClaim(fee, info.i, info.m, deposits)))
  /\ deposits' = Deposited(info.m)
  /\ UNCHANGED <<handled, holdings>>

StartSession ==
  /\ AtChain({"MsgStart"})
  /\ Take(HandleSpendFee(fee, info.i, info.m, at \in handled))
  /\ handled' = handled \cup {at}
  /\ UNCHANGED <<deposits, holdings>>

\* The assertion of dvpn is not caught.
SubscribeToNode ==
  /\ AtChain({"MsgSubscribeToNode"})
  /\ LET result == HandleSubscribedToNode(fee, info.i, info.m) IN
     IF result.raised
     THEN pc' = "raised" /\ UNCHANGED <<report, at, msgs, next, fee, rows>>
     ELSE Take(result)
  /\ UNCHANGED memory

UnknownMessage ==
  /\ pc = "msgs" /\ next <= Len(msgs)
  /\ info.m.type \notin CommonTypes \cup ChainTypes
  /\ Take(HandleUnknownDetectTransfers(fee, info.i, info.m))
  /\ UNCHANGED memory

EndTx ==
  /\ pc = "msgs" /\ next > Len(msgs)
  /\ NextTx
  /\ UNCHANGED <<report, msgs, next, fee, memory, rows>>

EndReport ==
  /\ pc = "tx" /\ at > Len(txs)
  /\ pc' = "done"
  /\ UNCHANGED <<report, at, msgs, next, fee, memory, rows>>

Terminated == pc \in {"done", "raised"} /\ UNCHANGED vars

CommonMessage == Vote \/ Proposal \/ Staking \/ Send \/ Multisend \/ Exec \/ Grant \/ Silent

ChainMessage ==
  \/ LiquidStake \/ ClaimFreeAmount \/ DepositClaim \/ SendToEth \/ EvmTransfer
  \/ Airdrop \/ NtrnContract \/ OsmoMessage \/ OsmoExec \/ StartSession \/ SubscribeToNode

Next ==
  \/ ReadTx \/ ReadTxRaises \/ HandleFailedTransaction \/ HandleManyContracts \/ HandleContract
  \/ CommonMessage \/ ChainMessage \/ UnknownMessage
  \/ EndTx \/ EndReport \/ Terminated

Spec == Init /\ [][Next]_vars

-----------------------------------------------------------------------------
\* Properties.

Finished(t) == t \in DOMAIN txs /\ t < at

ToItself(m) == Inward(m) \cap Outward(m) # {}

\* What a message adds to the coins of the wallet.
Brought(m, cur) == Total(CoinsAt(m, Inward(m)), cur) - Total(CoinsAt(m, Outward(m)), cur)

\* Messages of Osmosis that are reported with all their coins.  Left out are what
\* is told at another time (a lock that is released, an order), what a credit
\* account of Mars does, and shapes that are told twice or not at all: a reward
\* beside an unexpected shape or netted against a deposit, coins that come in with
\* a position or go out with a second message of ICNS.
OsmoConserving(m) ==
  LET t == AfterClaim(m)
      n == TransfersNet(Transfers(m))
      legs == m.event.legs
  IN  CASE m.type \in SwapTypes        -> legs = <<>> \/ Swaps(TransfersNet(t))
        [] m.type = "MsgJoinPool"      -> legs = <<>> \/ (Single(t.in) /\ Len(t.out) = 2)
        [] m.type = "MsgExitPool"      -> legs = <<>> \/ (Len(t.in) = 2 /\ Single(t.out))
        [] m.type \in CreateTypes      -> None(t.in)
        [] m.type = "MsgAddToPosition" -> Adds(m) /\ n.in = RewardsOf(m)
        [] m.type = "MsgUnlockAndMigrateSharesToFullRangeConcentratedPosition" ->
             Migrates(m) => Len(OtherThanPool(t.in)) \in 1..2 /\ ~None(OtherThanPool(t.out)) /\ Net(t, "G") = 0
        [] m.type \in {"MsgBeginUnlocking", "MsgUnlockPeriodLock"} -> FALSE
        [] m.type = "MsgExecuteContract" ->
             ~Calls(m, {"icns", "update_credit", "submit_order", "execute_order", "cancel_order",
                        "place_limit", "cancel_limit", "claim_limit"})
        [] OTHER -> m.type \in OsmoTypes

\* Messages that are reported with all their coins.  Left out are legacy
\* multisends, legacy transfers to itself, what another wallet makes this one do
\* and what is read from the message and not from its events.
Conserving(m) ==
  /\ m.flags \cap {"null", "broken"} = {}
  /\ \/ m.type \in {"MsgOther", "MsgLiquidStake", "MsgClaimFreeAmount", "MsgEthereumTx"} /\ (m.modern \/ ~ToItself(m))
     \/ m.type = "MsgExecuteContract" /\ chain # "osmo" /\ "vote" \notin m.flags /\ (m.modern \/ ~ToItself(m))
     \/ m.type \in {"MsgSend", "MsgTransfer"} /\ (ToItself(m) => "self" \in m.flags)
     \/ m.type = "MsgMultiSend" /\ m.modern
     \/ chain = "osmo" /\ m.type \in OsmoTypes /\ OsmoConserving(m)

\* "G" is the token of a pool of Osmosis.
Currencies == {"A", "B", "G", "STRD"}

\* Transactions that are handled message by message.
ByMessage(t) ==
  /\ ~t.failed /\ t.logs
  /\ chain \in {"juno", "kuji", "luna2"} => \A k \in DOMAIN t.msgs : t.msgs[k].type # "MsgExecuteContract"

SumOver(ms, value(_)) == FoldLeft(LAMBDA sum, m : sum + value(m), 0, ms)

Received(rs) == [k \in DOMAIN rs |-> rs[k].recv]
Sent(rs)     == [k \in DOMAIN rs |-> rs[k].sent]

\* The rows of a transaction add up to what its messages brought and took, in
\* every currency: none is counted twice and none is lost (_handle_transfer,
\* handle_multisend, unknown_txs_detect_transfers and the handlers of the chains).
MoneyConserved ==
  \A t \in DOMAIN txs : Finished(t) /\ ByMessage(txs[t]) /\ (\A k \in DOMAIN txs[t].msgs : Conserving(txs[t].msgs[k])) =>
    \A cur \in Currencies :
      Total(Received(rows[t]), cur) - Total(Sent(rows[t]), cur)
        = SumOver(txs[t].msgs, LAMBDA m : Brought(m, cur))

\* Messages that a report should have something to say about.
Notable(m) ==
  \/ m.type \in {"MsgVote", "MsgDeposit", "MsgDelegate"}
  \/ Conserving(m) /\ \E cur \in Currencies : Brought(m, cur) # 0

\* A transaction that failed, that stakes or votes, or that changes the coins of
\* the wallet has a row, so that it does not "appear missing" (handle_staking,
\* handle_failed_transaction), and so has a staking message that another wallet runs.
NoneMissing ==
  \A t \in DOMAIN txs : Finished(t) /\ rows[t] = <<>> =>
    /\ ~txs[t].failed
    /\ ByMessage(txs[t]) => \A k \in DOMAIN txs[t].msgs : "null" \in txs[t].msgs[k].flags \/ ~Notable(txs[t].msgs[k])
    /\ ~txs[t].logs =>
         \A k \in DOMAIN txs[t].msgs : \A j \in DOMAIN txs[t].msgs[k].subs :
           LET m == txs[t].msgs[k].subs[j] IN ~(Relevant(m) /\ m.type = "MsgDelegate")

\* Messages whose rows show the fee whatever their index.
RepeatsFee(m) ==
  \/ m.type \in {"MsgVote", "MsgDeposit", "MsgSend", "MsgTransfer", "MsgMultiSend", "MsgSendToEth", "MsgEthereumTx",
                 "MsgInitialClaim", "MsgSubscribeToNode", "MsgStart"}
  \/ m.type = "MsgExecuteContract" /\ chain = "ntrn"
  \/ chain = "osmo" /\ Calls(m, {"place_limit", "cancel_limit", "repay", "borrow"})

\* Messages that show the fee in one row at most: not several coins that are
\* sent, nor a liquid stake, a swap or a deposit together with a reward, several
\* rewards of Quasar, what is left and entered, nor rows of a handler that raised.
OneFeeRow(m) ==
  /\ m.type \in {"MsgSend", "MsgTransfer"} => Len(m.flows) <= 1
  /\ m.type = "MsgLiquidStake" => Len(Transfers(m).in) <= 1
  /\ m.type \in SwapTypes \cup {"MsgJoinPool", "MsgExitPool", "MsgAddToPosition"} => m.event.legs = <<>>
  /\ m.type # "MsgUnlockAndMigrateSharesToFullRangeConcentratedPosition"
  /\ Calls(m, {"quasar"}) => Len(Transfers(m).in) <= 1
  /\ Calls(m, {"update_credit"}) => \A k \in DOMAIN m.event.legs : m.event.legs[k].does \notin {"other", "eventless"}

\* Only the first message that is handled may show the fee whatever its index, or
\* all those that do start sessions.
FirstPays(t) ==
  LET infos == MsgInfos(t) IN
  /\ infos # <<>> => OneFeeRow(infos[1].m)
  /\ IsAuthzNoLogs(t) => Len(t.msgs) = 1
  /\ \A k \in DOMAIN infos :
       RepeatsFee(infos[k].m) /\ k > 1 => infos[1].m.type = "MsgStart" /\ infos[k].m.type = "MsgStart"

\* Such a transaction shows its fee once, at any time (_make_tx, _ingest_rows,
\* handle_staking, handle_authz_grant, _handle_spend_fee_tx).
FeeOnce ==
  \A t \in DOMAIN txs :
    FirstPays(txs[t]) => \A j, k \in DOMAIN rows[t] : rows[t][j].fee /\ rows[t][k].fee => j = k

\* "transactions can have multiple messages and the fee should only count once"
\* (dvpn/processor.py): of any transaction that is sent message by message.
FeeCountedOnce ==
  \A t \in DOMAIN txs : \A j, k \in DOMAIN rows[t] : rows[t][j].fee /\ rows[t][k].fee => j = k

\* Once a transaction has brought coins by a transfer, it was another wallet's
\* to pay for: no later row shows its fee (make_transfer_in_tx).
NoFeeAfterReceipt ==
  \A t \in DOMAIN txs : \A j, k \in DOMAIN rows[t] :
    j < k /\ rows[t][j].type = "TRANSFER" /\ rows[t][j].recv # NoCoin => ~rows[t][k].fee

\* The rows that count a deposit, as pairs of a transaction and a position.
DepositRows(nonce) ==
  {p \in UNION {{t} \X DOMAIN rows[t] : t \in DOMAIN rows} :
     rows[p[1]][p[2]].type = "TRANSFER" /\ rows[p[1]][p[2]].about = nonce}

\* Every deposit that a claim brings to the wallet is counted, and once, however
\* many claims of orchestrators there are, in whichever transactions (handle_deposit_claim).
DepositsOnce ==
  chain = "inj" =>
    \A t \in DOMAIN txs : \A k \in DOMAIN txs[t].msgs :
      LET m == txs[t].msgs[k] IN
      Finished(t) /\ ~txs[t].failed /\ txs[t].logs /\ Claims(m) /\ "null" \notin m.flags
        => \E p \in DepositRows(m.nonce) : DepositRows(m.nonce) = {p}

-----------------------------------------------------------------------------
\* Osmosis: what is told of a whole report.

\* The messages of transactions 1..n.
MessagesTo(n) == FlattenSeq([t \in 1..n |-> txs[t].msgs])
RowsTo(n)     == FlattenSeq([t \in 1..n |-> rows[t]])
Told(n, cur)  == Total(Received(RowsTo(n)), cur) - Total(Sent(RowsTo(n)), cur)

Holding(m) ==
  \/ m.type \in LockTypes \cup {"MsgBeginUnlocking", "MsgUnlockPeriodLock"}
  \/ Calls(m, {"lock", "submit_order", "execute_order", "cancel_order", "place_limit", "cancel_limit", "claim_limit"})
Locks(m) == m.type \in LockTypes \/ Calls(m, {"lock"})

Amount(coins) == FoldLeft(LAMBDA sum, c : sum + c.amt, 0, coins)
OutOf(held, id, amount) == Put(held, id, (IF id \in DOMAIN held THEN held[id] ELSE 0) - amount)

\* What is still locked or on order after a message, for each lock and order.
HeldAfter(held, m) ==
  LET t  == Transfers(m)
      id == m.event.id
  IN  IF Locks(m) \/ Calls(m, {"submit_order", "place_limit"}) THEN OutOf(held, id, -Amount(t.out))
      ELSE IF m.type = "MsgUnlockPeriodLock" \/ Calls(m, {"cancel_order", "cancel_limit"}) THEN OutOf(held, id, Amount(t.in))
      ELSE IF Calls(m, {"execute_order"}) THEN Put(held, id, 0)
      ELSE IF Calls(m, {"claim_limit"})
      THEN FoldLeft(LAMBDA h, leg : IF leg.does = "own" THEN OutOf(h, leg.id, leg.sent.amt) ELSE h, held, m.event.legs)
      ELSE held

\* Everything that was locked or ordered came back or was filled, and every lock was
\* locked once and began to unlock by a message of its own.
Settled(ms) ==
  LET held == FoldLeft(HeldAfter, <<>>, ms)
  IN  /\ \A id \in DOMAIN held : held[id] = 0
      /\ \A k \in DOMAIN ms : Locks(ms[k]) =>
           /\ \A j \in DOMAIN ms \ {k} : ~(Locks(ms[j]) /\ ms[j].event.id = ms[k].event.id)
           /\ \E j \in DOMAIN ms : ms[j].type = "MsgBeginUnlocking" /\ ms[j].event.id = ms[k].event.id

\* Once all that was locked or on order on Osmosis is settled, the rows of the whole
\* report add up to what came and went, whenever they were told: coins are told when
\* their lock begins to unlock, and an order of TFM when it is executed, with what
\* was submitted (LockedTokens, LimitOrder, LimitOrders.claim).
ReportAddsUp ==
  chain = "osmo" /\ pc = "done" /\ (\A t \in DOMAIN txs : ~txs[t].failed) =>
    LET ms == MessagesTo(Len(txs)) IN
    (\A k \in DOMAIN ms : Holding(ms[k]) \/ Conserving(ms[k])) /\ Settled(ms) =>
      \A cur \in Currencies : Told(Len(txs), cur) = SumOver(ms, LAMBDA m : Brought(m, cur))

\* The liquidity of the positions on the chain, after a message.
OpenAfter(open, m) ==
  CASE m.type \in CreateTypes           -> Put(open, m.event.id, m.event.liquidity)
    [] m.type = "MsgAddToPosition"      -> Put(Put(open, m.event.from, 0), m.event.id, m.event.liquidity)
    [] m.type = "MsgWithdrawPosition"   -> OutOf(open, m.event.id, m.event.liquidity)
    [] OTHER                            -> open

\* Positions are created, added to and taken from in the report, in the shapes that are handled.
Liquid(ms) ==
  LET opens(k) == ms[k].type \in CreateTypes \cup {"MsgAddToPosition"}
      known(k, id) == \E j \in 1..(k - 1) : opens(j) /\ ms[j].event.id = id
  IN  \A k \in DOMAIN ms :
        LET m == ms[k] IN
        /\ m.type \in CreateTypes           => Len(Transfers(m).out) \in 1..2 /\ ~known(k, m.event.id)
        /\ m.type = "MsgAddToPosition"      => Adds(m) /\ known(k, m.event.from)
        /\ m.type = "MsgWithdrawPosition"   => Withdraws(m) /\ known(k, m.event.id)
        /\ m.type # "MsgUnlockAndMigrateSharesToFullRangeConcentratedPosition"

\* The liquidity that is told, "L", is at any time that of the open positions, however
\* they were added to, which closes them, and partly withdrawn (PositionLiquidity).
LiquidityAddsUp ==
  chain = "osmo" /\ pc \in {"tx", "done"} /\ (\A t \in 1..(at - 1) : ~txs[t].failed) /\ Liquid(MessagesTo(at - 1)) =>
    LET open == FoldLeft(OpenAfter, <<>>, MessagesTo(at - 1))
    IN  Told(at - 1, "L") = MapThenSumSet(LAMBDA id : open[id], DOMAIN open)
=============================================================================
