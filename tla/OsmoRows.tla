-------------------------------- MODULE OsmoRows -------------------------------
(***************************************************************************)
(* The rows of the messages of Osmosis (osmo/handle_*.py, osmo/contracts,  *)
(* osmo/make_tx.py), and what its modules keep between messages: tokens    *)
(* that are locked, the liquidity of positions and limit orders.           *)
(*                                                                         *)
(* What a handler reads from the events of a message, other than its       *)
(* flows, is in m.event: the id of a lock, a position or an order, the     *)
(* position or lock that it comes from, the liquidity that a position      *)
(* has then or that is taken out of it, and legs, each of which is a       *)
(* reward, an order that was filled or an action of Mars.                  *)
(***************************************************************************)
EXTENDS CosmosRows

NoEvent == [id |-> 0, from |-> 0, liquidity |-> 0, legs |-> <<>>]

NoHoldings == [locks |-> <<>>, positions |-> <<>>, orders |-> <<>>]

Put(kept, id, value) == [j \in DOMAIN kept \cup {id} |-> IF j = id THEN value ELSE kept[j]]
Without(kept, id)    == Restrict(kept, DOMAIN kept \ {id})

OnlyIn(t)  == Single(t.in) /\ None(t.out)
OnlyOut(t) == None(t.in) /\ Single(t.out)
Swaps(t)   == Single(t.in) /\ Single(t.out)

\* util_osmo._ingest_rows: the first row keeps its fee.
FirstKeepsFee(rs) == [k \in DOMAIN rs |-> [rs[k] EXCEPT !.fee = @ /\ k = 1]]

\* handle_unknown_detect_transfers: the transfers that are left, but the net of all.
Detected(fee, i, m, left) == IngestRows(fee, i, DetectRowsFrom(left, TransfersNet(Transfers(m))))
OrUnknown(fee, i, m, handled, rs) == Ingested(IF handled THEN rs ELSE Detected(fee, i, m, Transfers(m)), fee)
OrRaise(fee, handled, rs) == IF handled THEN Ingested(rs, fee) ELSE Raised(fee)

RewardRows(fee, i, coins) == [k \in DOMAIN coins |-> IbcRow("STAKING", fee, i, coins[k], NoCoin)]
TradeRow(fee, i, recv, sent) == IbcRow("TRADE", fee, i, recv, sent)

\* The token of a pool is split between the rows of what went in or came out.
Share(coin, n) == [coin EXCEPT !.amt = @ \div n]
LpDepositRows(fee, i, lp, out) ==
  FirstKeepsFee([k \in DOMAIN out |-> IbcRow("LP_DEPOSIT", fee, i, Share(lp, Len(out)), out[k])])
LpWithdrawRows(fee, i, lp, in) ==
  FirstKeepsFee([k \in DOMAIN in |-> IbcRow("LP_WITHDRAW", fee, i, in[k], Share(lp, Len(in)))])

\* handle_claim: a reward that comes in has a row of its own and is taken from the transfers.
Reward(m) == IF m.event.legs = <<>> THEN NoCoin ELSE m.event.legs[1].recv
ClaimRows(fee, i, m) == IF Contains(Transfers(m).in, Reward(m)) THEN RewardRows(fee, i, <<Reward(m)>>) ELSE <<>>
AfterClaim(m) == [Transfers(m) EXCEPT !.in = RemoveFirst(@, Reward(m))]

HandleSwap(fee, i, m) ==
  LET t == AfterClaim(m)
      n == TransfersNet(t)
  IN  Ingested(ClaimRows(fee, i, m)
                 \o IF Swaps(n) THEN <<TradeRow(fee, i, n.in[1], n.out[1])>> ELSE Detected(fee, i, m, t), fee)

-----------------------------------------------------------------------------
\* handle_lp.py, handle_superfluid.py

HandleLpDeposit(fee, i, m) ==
  LET t == AfterClaim(m)
  IN  Ingested(ClaimRows(fee, i, m)
                 \o IF Single(t.in) /\ Len(t.out) = 2 THEN LpDepositRows(fee, i, t.in[1], t.out) ELSE Detected(fee, i, m, t), fee)

\* One currency instead of two.
HandleLpDepositPartial(fee, i, m) ==
  LET t == Transfers(m) IN OrUnknown(fee, i, m, Swaps(t), LpDepositRows(fee, i, t.in[1], t.out))

HandleLpWithdraw(fee, i, m) ==
  LET t == AfterClaim(m)
  IN  Ingested(ClaimRows(fee, i, m)
                 \o IF Len(t.in) = 2 /\ Single(t.out) THEN LpWithdrawRows(fee, i, t.out[1], t.in) ELSE Detected(fee, i, m, t), fee)

HandleLpStake(fee, i, m) ==
  LET t == Transfers(m) IN OrUnknown(fee, i, m, OnlyOut(t), <<IbcRow(m.type, fee, i, NoCoin, t.out[1])>>)

\* LockedTokens.add_stake: a lock is remembered as it was first.
Staked(locks, m) ==
  LET t == Transfers(m) IN IF OnlyOut(t) /\ m.event.id \notin DOMAIN locks THEN Put(locks, m.event.id, t.out[1]) ELSE locks

\* What was locked comes back when its unlocking begins.
HandleLpUnstake(fee, i, m, locks) ==
  OrUnknown(fee, i, m, m.event.id \in DOMAIN locks, <<IbcRow(m.type, fee, i, locks[m.event.id], NoCoin)>>)

\* LockedTokens.remove_stake
Unstaked(locks, id) == Without(locks, id)

\* handle_simple
HandleOsmoSimple(fee, i, m) == Ingested(<<IF FirstFee(fee, i) THEN SpendFeeRow(fee) ELSE SimpleRow(fee, i, m)>>, fee)

HandleSuperfluid(fee, i, m) == Ingested(<<SimpleRow(fee, i, m)>>, fee)

HandleUndelegateOrUnbond(fee, i, m) ==
  LET t == Transfers(m) IN OrUnknown(fee, i, m, None(t.in) /\ None(t.out), <<SimpleRow(fee, i, m)>>)

-----------------------------------------------------------------------------
\* handle_concentrated_lp.py.  "L" is the token of a pool, which is not on the chain.

Liquidity(amount) == [amt |-> amount, cur |-> "L"]

\* PositionLiquidity.create_position asserts that the position is new.
Creates(m, positions) == Len(Transfers(m).out) \in 1 .. 2 /\ m.event.id \notin DOMAIN positions
Created(positions, m) == IF Creates(m, positions) THEN Put(positions, m.event.id, m.event.liquidity) ELSE positions

HandleCreatePosition(fee, i, m, positions) ==
  OrRaise(fee, Creates(m, positions), LpDepositRows(fee, i, Liquidity(m.event.liquidity), Transfers(m).out))

\* Mutant: a position that is added to has been empty.
LiquidityOf_None(positions, id) == 0

LiquidityOf(positions, id) == IF id \in DOMAIN positions THEN positions[id] ELSE 0

\* A position is closed and another one is created, for more.
Adds(m) == LET n == TransfersNet(Transfers(m)) IN Len(n.in) <= 1 /\ Len(n.out) \in 1 .. 2
Added(positions, m) == IF Adds(m) THEN Put(Put(positions, m.event.from, 0), m.event.id, m.event.liquidity) ELSE positions

RewardsOf(m) == [k \in DOMAIN m.event.legs |-> m.event.legs[k].recv]

\* Each reward is ingested by itself.  What is of another shape has no row.
HandleAddToPosition(fee, i, m, positions) ==
  LET n == TransfersNet(Transfers(m))
      more == Liquidity(m.event.liquidity - LiquidityOf(positions, m.event.from))
  IN  Ingested(IF ~Adds(m) THEN <<>>
               ELSE LpDepositRows(fee, i, more, n.out) \o (IF Single(n.in) THEN RewardRows(fee, i, RewardsOf(m)) ELSE <<>>), fee)

\* handle_collect_incentives, handle_collect_spread_rewards
HandleCollect(fee, i, m) ==
  LET n == TransfersNet(Transfers(m)) IN OrRaise(fee, ~None(n.in) /\ None(n.out), FirstKeepsFee(RewardRows(fee, i, n.in)))

Withdraws(m) == LET n == TransfersNet(Transfers(m)) IN Len(n.in) \in 1 .. 3 /\ None(n.out)

HandleWithdrawPosition(fee, i, m) ==
  OrRaise(fee, Withdraws(m), LpWithdrawRows(fee, i, Liquidity(m.event.liquidity), TransfersNet(Transfers(m)).in))

\* PositionLiquidity.withdraw_position
Withdrawn(positions, m) ==
  LET left == LiquidityOf(positions, m.event.id) - m.event.liquidity
  IN  IF ~Withdraws(m) \/ m.event.id \notin DOMAIN positions THEN positions
      ELSE IF left <= 0 THEN Without(positions, m.event.id) ELSE Put(positions, m.event.id, left)

\* The token of the pool that is left, "G", is the first that comes in, or what the message says.
PoolToken(m) ==
  LET in == AtPlaces(Transfers(m).in, {k \in DOMAIN Transfers(m).in : Transfers(m).in[k].cur = "G"})
  IN  IF in # <<>> THEN in[1] ELSE IF m.event.legs # <<>> THEN m.event.legs[1].sent ELSE NoCoin
OtherThanPool(coins) == AtPlaces(coins, {k \in DOMAIN coins : coins[k].cur # "G"})

\* The pool is left with its token and the position entered with the same token, which
\* is not the position's.  Rows of leaving stay when there are none of entering.
HandleMigrate(fee, i, m, positions) ==
  LET lp  == PoolToken(m)
      in  == OtherThanPool(Transfers(m).in)
      out == OtherThanPool(Transfers(m).out)
      leave == IF Len(in) <= 2 THEN LpWithdrawRows(fee, i, lp, in) ELSE <<>>
  IN  IF lp = NoCoin THEN HandleUnknownDetectTransfers(fee, i, m)
      ELSE IF m.event.id \in DOMAIN positions \/ None(in) THEN Raised(fee)
      ELSE IF None(out) THEN [rows |-> leave, fee |-> fee, raised |-> TRUE]
      ELSE Ingested(leave \o LpDepositRows(fee, i, lp, out), fee)

Migrates(m) == PoolToken(m) # NoCoin
Migrated(positions, m) ==
  IF Migrates(m) /\ m.event.id \notin DOMAIN positions THEN Put(positions, m.event.id, m.event.liquidity) ELSE positions

-----------------------------------------------------------------------------
\* osmo/contracts.  The flag of a message says which contract it calls, and how.

LevanaToken(m) == [amt |-> m.event.liquidity, cur |-> "V"]

\* levana.py
HandleLevana(fee, i, m, how) ==
  LET t == Transfers(m)
  IN  CASE how = "price_feeds"     -> OrRaise(fee, OnlyOut(t), <<IbcRow("SPEND", fee, i, NoCoin, t.out[1])>>)
        [] how = "deposit_perps"   -> OrRaise(fee, OnlyOut(t), LpDepositRows(fee, i, LevanaToken(m), t.out))
        [] how = "claim_yield"     -> OrRaise(fee, OnlyIn(t), RewardRows(fee, i, t.in))
        [] how = "unstake_perps"   -> OrRaise(fee, None(t.in) /\ None(t.out), <<SimpleRow(fee, i, m)>>)
        [] how = "withdraw_perps"  -> OrRaise(fee, OnlyIn(t), LpWithdrawRows(fee, i, LevanaToken(m), t.in))

\* mars_red_bank.py: some rows have the fee whatever the index, and what comes in from a
\* deposit clears it.
HandleRedBank(fee, i, m, how) ==
  LET t == Transfers(m)
      n == TransfersNet(t)
  IN  CASE how = "lend"    -> OrRaise(fee, OnlyOut(t), <<IbcRow("TRANSFER", fee, i, NoCoin, t.out[1])>>)
        [] how = "reclaim" -> IF OnlyIn(t) THEN Ingested(InRows(t.in), FALSE) ELSE Raised(fee)
        [] how = "repay"   -> OrRaise(fee, OnlyOut(n), <<Row("REPAY", NoCoin, n.out[1], fee, 0)>>)
        [] how = "borrow"  -> OrRaise(fee, OnlyIn(t), <<Row("BORROW", t.in[1], NoCoin, fee, 0)>>)

\* The amounts of an action are those of the first event of its kind.
EventOf(legs, does) == legs[CHOOSE k \in DOMAIN legs : legs[k].does = does /\ \A j \in 1..(k - 1) : legs[j].does # does]

\* The row of one action of a credit account: what moves between the wallet and its
\* account, or the account and the pool, is only mentioned.
ActionRow(fee, i, legs, k) ==
  LET leg == EventOf(legs, legs[k].does)
  IN  CASE leg.does = "borrow" -> IbcRow("BORROW", fee, i, leg.recv, NoCoin)
        [] leg.does = "repay"  -> IbcRow("REPAY", fee, i, NoCoin, leg.sent)
        [] leg.does = "swap"   -> TradeRow(fee, i, leg.recv, leg.sent)
        [] OTHER               -> IbcRow("_MARS", fee, i, NoCoin, NoCoin)

\* mars_credit_manager.py: the actions in turn, until one has no event; one that is not
\* known has a row, and raises in the end.
HandleUpdateCredit(fee, i, m) ==
  LET legs  == m.event.legs
      ends  == {k \in DOMAIN legs : legs[k].does = "eventless"}
      known == IF ends = {} THEN legs ELSE SubSeq(legs, 1, (CHOOSE k \in ends : \A j \in ends : k <= j) - 1)
      wrong == ends # {} \/ \E k \in DOMAIN known : known[k].does = "other"
  IN  [rows |-> FirstKeepsFee([k \in DOMAIN known |-> ActionRow(fee, i, legs, k)]), fee |-> fee, raised |-> wrong]

HandleCreditManager(fee, i, m, how) ==
  LET t == Transfers(m)
  IN  CASE how = "create_credit" ->
             OrRaise(fee, None(t.in) /\ None(t.out), <<IF i = 0 THEN SpendFeeRow(fee) ELSE SimpleRow(FALSE, i, m)>>)
        [] how = "update_credit" -> HandleUpdateCredit(fee, i, m)
        [] how = "repay_credit"  -> OrRaise(fee, OnlyOut(t), <<IbcRow("REPAY", fee, i, NoCoin, t.out[1])>>)
        [] how = "mars_rewards"  -> OrRaise(fee, OnlyIn(t), RewardRows(fee, i, t.in))

\* tfm.py: an order is told when it is executed, with what was submitted.
HandleLimitOrder(fee, i, m, how, orders) ==
  LET t == Transfers(m)
  IN  CASE how = "submit_order"  -> OrRaise(fee, OnlyOut(t), <<SimpleRow(fee, i, m)>>)
        [] how = "execute_order" ->
             OrRaise(fee, OnlyIn(t) /\ m.event.id \in DOMAIN orders, <<TradeRow(fee, i, t.in[1], orders[m.event.id])>>)
        [] how = "cancel_order"  -> OrRaise(fee, OnlyIn(t), <<SimpleRow(fee, i, m)>>)

\* Mutant: only the last order is kept.
Submitted_Last(orders, m) ==
  IF "submit_order" \in m.flags /\ OnlyOut(Transfers(m)) THEN Put(<<>>, m.event.id, Transfers(m).out[1]) ELSE orders

\* LimitOrder.orders
Submitted(orders, m) ==
  IF "submit_order" \in m.flags /\ OnlyOut(Transfers(m)) THEN Put(orders, m.event.id, Transfers(m).out[1]) ELSE orders

\* cosmwasmpool.py: placing and cancelling an order show the fee only, whatever the index;
\* claiming tells what was filled, of the orders of the wallet.
HandlePool(fee, i, m, how) ==
  LET t == Transfers(m)
      n == TransfersNet(t)
      own == AtPlaces(m.event.legs, {k \in DOMAIN m.event.legs : m.event.legs[k].does = "own"})
      trades == [k \in DOMAIN own |-> TradeRow(fee, i, own[k].recv, own[k].sent)]
  IN  CASE how = "place_limit"  -> OrRaise(fee, OnlyOut(t), <<SpendFeeRow(fee)>>)
        [] how = "cancel_limit" -> OrRaise(fee, OnlyIn(t), <<SpendFeeRow(fee)>>)
        [] how = "claim_limit"  -> Ingested(IF ~None(n.in) /\ None(n.out) THEN FirstKeepsFee(trades) ELSE <<>>, fee)

\* icns.py
HandleIcns(fee, i, m) ==
  LET t == Transfers(m)
  IN  Ingested(<<IF i = 0 /\ OnlyOut(t) THEN Row("SPEND", NoCoin, t.out[1], fee, 0) ELSE SimpleRow(FALSE, i, m)>>, fee)

\* quasar.py: every reward is ingested by itself.
HandleQuasar(fee, i, m) == LET t == Transfers(m) IN OrRaise(fee, ~None(t.in) /\ None(t.out), RewardRows(fee, i, t.in))

\* liquid.py, tfm.py
HandleContractSwap(fee, i, m) == LET t == Transfers(m) IN OrRaise(fee, Swaps(t), <<TradeRow(fee, i, t.in[1], t.out[1])>>)

Calls(m, hows) == m.flags \cap hows # {}
How(m) == CHOOSE how \in m.flags : TRUE

\* _handle_execute_contract
HandleOsmoContract(fee, i, m, orders) ==
  IF Calls(m, {"broken"}) THEN Raised(fee)
  ELSE CASE Calls(m, {"liquid", "swap_operations"}) -> HandleContractSwap(fee, i, m)
         [] Calls(m, {"icns"})   -> HandleIcns(fee, i, m)
         [] Calls(m, {"quasar"}) -> HandleQuasar(fee, i, m)
         [] Calls(m, {"price_feeds", "deposit_perps", "claim_yield", "unstake_perps", "withdraw_perps"}) ->
              HandleLevana(fee, i, m, How(m))
         [] Calls(m, {"lend", "reclaim", "repay", "borrow"}) -> HandleRedBank(fee, i, m, How(m))
         [] Calls(m, {"create_credit", "update_credit", "repay_credit", "mars_rewards"}) -> HandleCreditManager(fee, i, m, How(m))
         [] Calls(m, {"submit_order", "execute_order", "cancel_order"}) -> HandleLimitOrder(fee, i, m, How(m), orders)
         [] Calls(m, {"place_limit", "cancel_limit", "claim_limit"}) -> HandlePool(fee, i, m, How(m))
         [] OTHER -> HandleUnknownDetectTransfers(fee, i, m)

-----------------------------------------------------------------------------
\* processor.py

LockTypes   == {"MsgLockTokens", "MsgLockAndSuperfluidDelegate"}
SwapTypes   == {"MsgSwapExactAmountIn"}
CreateTypes == {"MsgCreatePosition", "MsgCreateFullRangePositionAndSuperfluidDelegate"}

\* Those of handle_lp.py and handle_superfluid.py, and of handle_concentrated_lp.py.
LpTypes ==
  LockTypes \cup {"MsgJoinPool", "MsgJoinSwapExternAmountIn", "MsgExitPool", "MsgBeginUnlocking", "MsgUnlockPeriodLock",
                  "MsgSuperfluidDelegate", "MsgSuperfluidUndelegate"}
PositionTypes ==
  CreateTypes \cup {"MsgAddToPosition", "MsgCollectIncentives", "MsgWithdrawPosition",
                    "MsgUnlockAndMigrateSharesToFullRangeConcentratedPosition"}

OsmoTypes == SwapTypes \cup LpTypes \cup PositionTypes \cup {"MsgExecuteContract", "MsgAddAuthenticator"}

HandleLp(fee, i, m, locks) ==
  CASE m.type = "MsgJoinPool"               -> HandleLpDeposit(fee, i, m)
    [] m.type = "MsgJoinSwapExternAmountIn" -> HandleLpDepositPartial(fee, i, m)
    [] m.type = "MsgExitPool"               -> HandleLpWithdraw(fee, i, m)
    [] m.type \in LockTypes                 -> HandleLpStake(fee, i, m)
    [] m.type = "MsgBeginUnlocking"         -> HandleLpUnstake(fee, i, m, locks)
    [] m.type = "MsgUnlockPeriodLock"       -> HandleOsmoSimple(fee, i, m)
    [] m.type = "MsgSuperfluidDelegate"     -> HandleSuperfluid(fee, i, m)
    [] m.type = "MsgSuperfluidUndelegate"   -> HandleUndelegateOrUnbond(fee, i, m)

HandlePosition(fee, i, m, positions) ==
  CASE m.type \in CreateTypes       -> HandleCreatePosition(fee, i, m, positions)
    [] m.type = "MsgAddToPosition"     -> HandleAddToPosition(fee, i, m, positions)
    [] m.type = "MsgCollectIncentives" -> HandleCollect(fee, i, m)
    [] m.type = "MsgWithdrawPosition"  -> HandleWithdrawPosition(fee, i, m)
    [] m.type = "MsgUnlockAndMigrateSharesToFullRangeConcentratedPosition" -> HandleMigrate(fee, i, m, positions)

\* _handle_message
HandleOsmo(fee, i, m, kept) ==
  CASE m.type \in SwapTypes           -> HandleSwap(fee, i, m)
    [] m.type \in LpTypes             -> HandleLp(fee, i, m, kept.locks)
    [] m.type \in PositionTypes       -> HandlePosition(fee, i, m, kept.positions)
    [] m.type = "MsgExecuteContract"  -> HandleOsmoContract(fee, i, m, kept.orders)
    [] m.type = "MsgAddAuthenticator" -> HandleOsmoSimple(fee, i, m)

\* What is kept after a message, whether its handler raises or not.
KeptAfter(kept, m) ==
  CASE m.type \in LockTypes            -> [kept EXCEPT !.locks = Staked(@, m)]
    [] m.type = "MsgBeginUnlocking"    -> [kept EXCEPT !.locks = Unstaked(@, m.event.id)]
    [] m.type \in CreateTypes          -> [kept EXCEPT !.positions = Created(@, m)]
    [] m.type = "MsgAddToPosition"     -> [kept EXCEPT !.positions = Added(@, m)]
    [] m.type = "MsgWithdrawPosition"  -> [kept EXCEPT !.positions = Withdrawn(@, m)]
    [] m.type = "MsgUnlockAndMigrateSharesToFullRangeConcentratedPosition" /\ Migrates(m) ->
         [kept EXCEPT !.locks = Unstaked(@, m.event.from), !.positions = Migrated(@, m)]
    [] m.type = "MsgExecuteContract"   -> [kept EXCEPT !.orders = Submitted(@, m)]
    [] OTHER                           -> kept

\* handle_authz._handle_osmo_tx: of a MsgExec that wraps locks, or joins by a swap, of this
\* wallet; others have no row.
HandleOsmoExec(m, i) ==
  IF Calls(m, {"lock"}) THEN HandleLpStake(FALSE, i, m)
  ELSE IF Calls(m, {"join"})
  THEN IF Swaps(Transfers(m)) THEN HandleSwap(FALSE, i, m) ELSE Ingested(<<UnknownRow(FALSE, i)>>, FALSE)
  ELSE Ingested(<<>>, FALSE)
=============================================================================
