------------------------------- MODULE AlgoDapps -------------------------------
(***************************************************************************)
(* The exchanges and pools among the dapps (algo/dapp): for each, the      *)
(* groups of transactions that are its own and the rows that it makes of   *)
(* them.  Applications and arguments are labels; an argument that two      *)
(* dapps encode alike has one label.                                       *)
(***************************************************************************)
EXTENDS AlgoTransfers

CONSTANT LimitOrderApps  \* applications of Deflex that the account has created

\* The k-th transaction from the end.
Back(group, k) == group[Len(group) + 1 - k]

\* A handler that takes n transactions by their places, those of pays for payments.
Takes(group, n, pays, result) ==
  IF Len(group) < n \/ \E p \in pays : group[p].type # "pay" THEN Fail ELSE result

\* Fees of some transactions, and payments counted as fees.
Fees(group, places) == SumFees([k \in DOMAIN places |-> group[places[k]]])
FeesAndPayment(group, places, p) == Fees(group, places) + group[p].amount

\* The participation rewards of the first transaction, before what the handler exports.
AfterRewards(group, result) == Then(ExportParticipation(group[1].senderRewards), result)

IsFeeToDapp(tx) == tx.type = "pay" /\ IsSender(tx)

-----------------------------------------------------------------------------
\* Vestige.

IsVestigeSwapV1(group) ==
  Len(group) = 2 /\ IsTransfer(group[1]) /\ Calls(group[2], {"vestige1"}, {"call"})

IsVestigeSwapV3(group) ==
  /\ Len(group) >= 4
  /\ Calls(group[1], {"vestige3"}, {"swap_init"})
  /\ IsTransfer(group[2])
  /\ Calls(group[3], {"vestige3"}, {"swap_swap"})
  /\ Calls(Back(group, 1), {"vestige3"}, {"swap_finalize"})

IsVestige(group) == Or(<<YesNo(IsVestigeSwapV1(group)), YesNo(IsVestigeSwapV3(group))>>)

HandleVestige(group) ==
  LET sent == IF IsVestigeSwapV1(group) THEN group[1] ELSE group[2]
  IN  ExportSwap(TransferAsset(sent), ReceivedAsset(Back(group, 1)), FeeAmount(group))

-----------------------------------------------------------------------------
\* HumbleSwap: any application that was built with Reach.

IsReachCall(tx, args) == CallsWith(tx, args) /\ tx.note = "reach"
IsHumbleswapAmm(group)  == Len(group) \in 2 .. 3 /\ IsReachCall(Back(group, 1), {"0", "3"})
IsHumbleswapFarm(group) == Len(group) \in 1 .. 2 /\ IsReachCall(Back(group, 1), {"0", "4"})

IsHumbleswap(group) == Or(<<YesNo(IsHumbleswapAmm(group)), YesNo(IsHumbleswapFarm(group))>>)

\* The rewards of a farm: what the call moves but the token of the pool.
HandleHumbleswapFarm(group) ==
  LET moved == SelectSeq(Direct(Back(group, 1)), IsTransfer)
      Reward(a) == IF a = Raised THEN Fail ELSE IF IsLpToken(a) THEN Nothing ELSE ExportReward(a, 0)
  IN  InTurn([k \in DOMAIN moved |-> Reward(TransferAsset(moved[k]))])

HandleHumbleswap(group) ==
  LET is == Or(<<IsSwapGroup(group), IsLpAddGroup(group), IsLpRemoveGroup(group)>>)
  IN  IF is = "raise" THEN Fail
      ELSE IF IsSwapGroup(group) = "yes" THEN HandleSwap(group)
      ELSE IF IsLpAddGroup(group) = "yes" THEN HandleLpAdd(group)
      ELSE IF IsLpRemoveGroup(group) = "yes" THEN HandleLpRemove(group)
      ELSE IF IsHumbleswapFarm(group) THEN HandleHumbleswapFarm(group) ELSE UnknownResult

-----------------------------------------------------------------------------
\* Tinyman 1: the first payment is its fee, the second transaction the call.

IsTinymanAmm(group, n, arg) == Len(group) = n /\ Calls(group[2], {"tinyman1"}, {arg})
IsTinymanSwap(group)     == IsTinymanAmm(group, 4, "swap")
IsTinymanRedeem(group)   == IsTinymanAmm(group, 3, "redeem")
IsTinymanLpAdd(group)    == IsTinymanAmm(group, 5, "mint")
IsTinymanLpRemove(group) == IsTinymanAmm(group, 5, "burn")
IsTinymanClaim(group)    == Len(group) = 2 /\ Calls(group[1], {"tinymanStaking"}, {"claim"})

IsTinymanV1(group) ==
  YesNo(\/ IsTinymanSwap(group) \/ IsTinymanRedeem(group) \/ IsTinymanLpAdd(group)
        \/ IsTinymanLpRemove(group) \/ IsTinymanClaim(group))

HandleTinymanSwap(group) ==
  Takes(group, 4, {1}, ExportSwap(TransferAsset(group[3]), TransferAsset(group[4]), FeesAndPayment(group, <<1, 3>>, 1)))

HandleTinymanRedeem(group) ==
  Takes(group, 3, {1}, ExportReceive(TransferAsset(group[3]), FeesAndPayment(group, <<1>>, 1)))

HandleTinymanLpAdd(group) ==
  Takes(group, 5, {1},
        ExportLpDeposit(TransferAsset(group[3]), TransferAsset(group[4]), TransferAsset(group[5]),
                        FeesAndPayment(group, <<1, 3, 4>>, 1)))

HandleTinymanLpRemove(group) ==
  Takes(group, 5, {1},
        ExportLpWithdraw(TransferAsset(group[5]), TransferAsset(group[3]), TransferAsset(group[4]),
                         FeesAndPayment(group, <<1, 5>>, 1)))

HandleTinymanV1(group) ==
  AfterRewards(group,
    IF IsTinymanSwap(group) THEN HandleTinymanSwap(group)
    ELSE IF IsTinymanRedeem(group) THEN HandleTinymanRedeem(group)
    ELSE IF IsTinymanLpAdd(group) THEN HandleTinymanLpAdd(group)
    ELSE IF IsTinymanLpRemove(group) THEN HandleTinymanLpRemove(group)
    ELSE ExportReward(TransferAsset(group[2]), group[1].fee))

-----------------------------------------------------------------------------
\* Deflex.

IsDeflexRoutedSwap(group) ==
  /\ Len(group) \in 2 .. 3
  /\ IsTransfer(group[1]) /\ IsSender(group[1])
  /\ LET call == IF IsFeeToDapp(group[2]) THEN 3 ELSE 2
     IN  call <= Len(group) /\ CallsWith(group[call], {"swap_finalize_deflex"})

IsDeflexClosing(group, arg) ==
  /\ Len(group) = 2
  /\ Calls(group[1], LimitOrderApps, {arg})
  /\ Calls(group[2], {"deflexRegistry"}, {"close_escrow"})

IsDeflexLimitOrderFill(group)   == IsDeflexClosing(group, "fill_finalize")
IsDeflexLimitOrderCancel(group) == IsDeflexClosing(group, "cancel_order")

IsDeflexLimitOrderCreate(group) ==
  /\ Len(group) >= 4
  /\ Calls(Back(group, 1), LimitOrderApps, {"create_order"})
  /\ IsTransfer(Back(group, 2)) /\ IsSender(Back(group, 2))
  /\ IsFeeToDapp(Back(group, 3))

IsDeflex(group) ==
  YesNo(\/ IsDeflexRoutedSwap(group) \/ IsDeflexLimitOrderFill(group)
        \/ IsDeflexLimitOrderCreate(group) \/ IsDeflexLimitOrderCancel(group))

HandleDeflexRoutedSwap(group) ==
  LET paid == IsFeeToDapp(group[2])
  IN  ExportSwap(TransferAsset(group[1]), ReceivedNonZero(group[IF paid THEN 3 ELSE 2]),
                 FeeAmount(group) + If(paid, group[2].amount))

\* The order was taken from the escrow in a transaction that only the indexer has.
HandleDeflexLimitOrderFill(group) ==
  LET opening == SelectSeq(group[1].elsewhere, LAMBDA t : Calls(t, {group[1].app}, {"fill_init"}))
      sent    == InnerAsset(opening[1])
      got     == ReceivedNonZero(group[1])
  IN  IF opening = <<>> THEN UnknownResult
      ELSE IF Raised \in {sent, got} THEN Fail
      ELSE Then(ExportWithdrawCollateral(sent, 0), ExportSwap(sent, got, 0))

HandleDeflexLimitOrderCreate(group) ==
  ExportDepositCollateral(TransferAsset(Back(group, 2)), FeeAmount(group) + Back(group, 3).amount)

HandleDeflex(group) ==
  IF IsDeflexRoutedSwap(group) THEN HandleDeflexRoutedSwap(group)
  ELSE IF IsDeflexLimitOrderFill(group) THEN HandleDeflexLimitOrderFill(group)
  ELSE IF IsDeflexLimitOrderCreate(group) THEN HandleDeflexLimitOrderCreate(group)
  ELSE ExportWithdrawCollateral(ReceivedNonZero(group[1]), FeeAmount(group))

-----------------------------------------------------------------------------
\* AlgoDex: the note of the first transaction says what is done with an order.

IsOrderNote(tx) == tx.note = "order"

IsAlgodex(group) ==
  LET tx == group[1]
      ours == IsAppCall(tx) => tx.app \in {"algodexBuy", "algodexSell"}
  IN  YesNo(/\ Len(group) \in 1 .. 5 /\ ours
            /\ IF tx.note = "" THEN CallsWith(tx, {"execute"})
               ELSE IsOrderNote(tx) /\ tx.order.action \in {"open", "close", "partial", "full"})

\* The taker of an order: places of what it sent and received and of the fee,
\* the receipt maybe after an opt-in.
HandleTaker(group, out, in, optins, fee) ==
  LET later == optins > 0 /\ Len(group) > optins /\ Zero(TransferAsset(group[in]))
      got   == IF later THEN in + 1 ELSE in
      paid  == IF later THEN fee + 1 ELSE fee
      result(costs) == ExportSwap(TransferAsset(group[out]), TransferAsset(group[got]), costs)
  IN  IF Len(group) < in \/ TransferAsset(group[in]) \in {Raised} \cup (IF optins > 0 THEN {None} ELSE {}) THEN Fail
      ELSE IF fee = 0 THEN Takes(group, IF out > got THEN out ELSE got, {}, result(group[out].fee))
      ELSE Takes(group, paid, {paid}, result(FeesAndPayment(group, <<out, paid>>, paid)))

\* The owner of an order: what was sent follows from what was received and the price.
HandleOwner(group, in, asset, mul, div) ==
  LET got == TransferAsset(group[in])
  IN  IF Len(group) < in \/ got \in {None, Raised} \/ ~IsAppCall(group[1]) THEN Fail
      ELSE ExportSwap(Asset(asset, (got.amount * mul) \div div), got, 0)

OwnerBuys(group, in)  == HandleOwner(group, in, Algo, group[1].price.d, group[1].price.n)
OwnerSells(group, in) == HandleOwner(group, in, group[1].price.asset, group[1].price.n, group[1].price.d)

HandleAlgodex(group) ==
  LET order == group[1].order
      mine  == order.by = Wallet
      does(action, side) == order.action = action /\ order.side = side
  IN  IF group[1].note = ""
      THEN IF IsSender(Back(group, 1)) THEN HandleTaker(group, 2, 3, 4, 4) ELSE OwnerSells(group, 2)
      ELSE CASE does("partial", "buy")  -> IF mine THEN HandleTaker(group, 3, 2, 0, 4) ELSE OwnerBuys(group, 2)
             [] does("partial", "sell") -> IF mine THEN HandleTaker(group, 2, 3, 4, 4) ELSE OwnerSells(group, 2)
             [] does("full", "buy")     -> IF mine THEN HandleTaker(group, 3, 2, 0, 0) ELSE OwnerBuys(group, 3)
             [] does("full", "sell")    -> IF mine THEN HandleTaker(group, 2, 3, 3, 0) ELSE OwnerSells(group, 2)
             [] OTHER -> Nothing

=============================================================================
