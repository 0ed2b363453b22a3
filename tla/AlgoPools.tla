------------------------------- MODULE AlgoPools -------------------------------
(***************************************************************************)
(* The pools and farms among the dapps: Tinyman 2, Pact and Yieldly        *)
(* (algo/dapp).                                                            *)
(***************************************************************************)
EXTENDS AlgoDapps

\* A transfer of the wallet, maybe an opt-in.
Gives(tx) == IsTransfer(tx) /\ IsSender(tx)

\* The first of a group but an opt-in, as its place.
AfterOptin(group) == IF IsAssetOptin(group[1]) THEN 2 ELSE 1

-----------------------------------------------------------------------------
\* Tinyman 2.

CallsTinymanV2(tx, arg) == Calls(tx, {"tinyman2"}, {arg})

IsTinymanV2Swap(group) ==
  IF Len(group) \notin 2 .. 3 THEN "no"
  ELSE And(IsSwapGroup(group),
           LET paid == IsTransfer(Back(group, 1))
           IN  /\ paid => Back(group, 1).receiver = Pera
               /\ CallsTinymanV2(Back(group, IF paid THEN 2 ELSE 1), "swap"))

IsTinymanV2LpAdd(group) ==
  And(IsLpAddGroup(group), Calls(Back(group, 1), {"tinyman2"}, {"add_liquidity", "add_initial_liquidity"}))

IsTinymanV2LpAddSingle(group) ==
  /\ Len(group) \in 2 .. 3
  /\ LET s == AfterOptin(group)
     IN  /\ Gives(group[s]) /\ s < Len(group)
         /\ CallsTinymanV2(group[s + 1], "add_liquidity") /\ CallsTinymanV2(group[s + 1], "single")

IsFolksWrapped(group, arg) ==
  Calls(Back(group, 2), {"folksWrapper"}, {arg}) /\ Calls(Back(group, 1), {"folksWrapper"}, {"noop"})

IsTinymanV2LendingLpAdd(group) ==
  /\ Len(group) \in 4 .. 5
  /\ LET s == AfterOptin(group) IN Gives(group[s]) /\ Gives(group[s + 1])
  /\ IsFolksWrapped(group, "add_liquidity")

IsTinymanV2LpRemove(group) == And(IsLpRemoveGroup(group), CallsTinymanV2(Back(group, 1), "remove_liquidity"))

\* The first that is no opt-in gives the token of a pool: part of two recognisers.
GivesLpToken(group, rest) ==
  LET s == FirstPlain(group) IN
  IF ~Gives(group[s]) THEN "no"
  ELSE LET a == TransferAsset(group[s]) IN Judge(a, YesNo(IsLpToken(a) /\ rest))

IsTinymanV2LpRemoveSingle(group) ==
  IF Len(group) \notin 2 .. 4 \/ FirstPlain(group) > Len(group) THEN "no"
  ELSE GivesLpToken(group, /\ CallsTinymanV2(Back(group, 1), "remove_liquidity")
                           /\ Len(SelectSeq(Direct(Back(group, 1)), IsTransfer)) = 1)

\* A group of opt-ins only raises: its end is looked at.
IsTinymanV2LendingLpRemove(group) ==
  IF Len(group) \notin 3 .. 5 THEN "no"
  ELSE IF FirstPlain(group) > Len(group) THEN "raise"
  ELSE GivesLpToken(group, IsFolksWrapped(group, "remove_liquidity"))

IsTinymanV2Commit(group) == Len(group) = 1 /\ Calls(group[1], {"tinymanStaking"}, {"commit"})

IsTinymanV2CreateLock(group) ==
  /\ Len(group) \in 3 .. 4
  /\ Calls(Back(group, 1), {"tinymanVault"}, {"increase_budget"})
  /\ Calls(Back(group, 2), {"tinymanVault"}, {"create_lock"})
  /\ Back(group, 3).type = "axfer"

IsTinymanV2GovWithdraw(group) == Len(group) = 1 /\ Calls(group[1], {"tinymanVault"}, {"withdraw"})

IsTinymanV2GovClaim(group) ==
  /\ Len(group) \in 2 .. 3
  /\ Calls(Back(group, 1), {"tinymanRewards"}, {"claim_rewards"})
  /\ Calls(Back(group, 2), {"tinymanRewards"}, {"increase_budget"})

IsTinymanV2(group) ==
  Or(<<IsTinymanV2Swap(group), IsTinymanV2LpAdd(group), YesNo(IsTinymanV2LpAddSingle(group)),
       YesNo(IsTinymanV2LendingLpAdd(group)), IsTinymanV2LpRemove(group), IsTinymanV2LpRemoveSingle(group),
       IsTinymanV2LendingLpRemove(group),
       YesNo(\/ IsTinymanV2Commit(group) \/ IsTinymanV2CreateLock(group)
             \/ IsTinymanV2GovWithdraw(group) \/ IsTinymanV2GovClaim(group))>>)

HandleTinymanV2LpAddSingle(group) ==
  LET s == AfterOptin(group)
  IN  ExportLpDeposit(TransferAsset(group[s]), None, ReceivedAsset(group[s + 1]), FeeAmount(group))

HandleTinymanV2LpRemoveSingle(group) ==
  LET s == FirstPlain(group)
  IN  Takes(group, s + 1, {},
            ExportLpWithdraw(TransferAsset(group[s]), ReceivedAsset(group[s + 1]), None, FeeAmount(group)))

HandleLendingLpAdd(group, call) ==
  ExportLpDeposit(TransferAsset(Back(group, 4)), TransferAsset(Back(group, 3)), ReceivedAsset(Back(group, call)),
                  FeeAmount(group))

HandleLendingLpRemove(group, call) ==
  LET got == ReceivedAssets(Back(group, call))
  IN  IF TransferAsset(Back(group, 3)) = Raised \/ \E k \in DOMAIN got : got[k] = Raised THEN Fail
      ELSE IF Len(got) # 2 THEN UnknownResult
      ELSE ExportLpWithdraw(TransferAsset(Back(group, 3)), got[1], got[2], FeeAmount(group))

\* A payment of ALGO before the token that is locked is a fee.
HandleTinymanV2CreateLock(group) ==
  LET first == TransferAsset(group[1])
  IN  IF first \in {None, Raised} THEN Fail
      ELSE IF first.id = Algo THEN ExportStake(TransferAsset(group[2]), FeeAmount(group) + first.amount)
      ELSE ExportStake(first, FeeAmount(group))

HandleTinymanV2GovClaim(group) ==
  LET first == TransferAsset(group[1])
  IN  IF first = Raised THEN Fail
      ELSE ExportReward(InnerAsset(Back(group, 1)), FeeAmount(group) + If(first.id = Algo, first.amount))

HandleTinymanV2(group) ==
  IF IsTinymanV2Swap(group) = "yes" THEN HandleSwap(group)
  ELSE IF IsTinymanV2LpAdd(group) = "yes" THEN HandleLpAdd(group)
  ELSE IF IsTinymanV2LpAddSingle(group) THEN HandleTinymanV2LpAddSingle(group)
  ELSE IF IsTinymanV2LendingLpAdd(group) THEN HandleLendingLpAdd(group, 2)
  ELSE IF IsTinymanV2LpRemove(group) = "yes" THEN HandleLpRemove(group)
  ELSE IF IsTinymanV2LpRemoveSingle(group) = "yes" THEN HandleTinymanV2LpRemoveSingle(group)
  ELSE IF IsTinymanV2LendingLpRemove(group) = "yes" THEN HandleLendingLpRemove(group, 2)
  ELSE IF IsTinymanV2Commit(group) THEN Nothing
  ELSE IF IsTinymanV2CreateLock(group) THEN HandleTinymanV2CreateLock(group)
  ELSE IF IsTinymanV2GovWithdraw(group) THEN ExportUnstake(InnerAsset(group[1]), FeeAmount(group))
  ELSE HandleTinymanV2GovClaim(group)

-----------------------------------------------------------------------------
\* Pact.

CallsFarm(tx, arg) == Calls(tx, {"pactFarm"}, {arg})

IsPactRoutedSwap(group) ==
  /\ Len(group) >= 2
  /\ Sends(group[AfterOptin(group)])
  /\ Calls(Back(group, 1), {"pactRouter"}, {"routed_swap_1", "routed_swap_2"})

IsPactSwap(group)     == And(IsSwapGroup(group), CallsWith(Back(group, 1), {"SWAP"}))
IsPactLpAdd(group)    == And(IsLpAddGroup(group), CallsWith(Back(group, 1), {"ADDLIQ"}))
IsPactLpRemove(group) == And(IsLpRemoveGroup(group), CallsWith(Back(group, 1), {"REMLIQ"}))

CallsAdapter(group, before, last) ==
  Calls(Back(group, 1), {"folksAdapter"}, {last}) /\ Calls(Back(group, 2), {"folksAdapter"}, {before})

IsPactLendingLpAdd(group) ==
  /\ Len(group) \in 4 .. 5
  /\ CallsAdapter(group, "pre_add_liquidity", "add_liquidity_pact")
  /\ Gives(Back(group, 3)) /\ Gives(Back(group, 4))

IsPactLendingLpRemove(group) ==
  Len(group) \in 3 .. 5 /\ CallsAdapter(group, "remove_liquidity_pact", "post_remove_liquidity") /\ IsSender(Back(group, 3))

IsPactFarmEscrowCreate(group) ==
  Len(group) = 3 /\ IsAppOptin(group[3]) /\ CallsWith(group[2], {"create"}) /\ Gives(group[1])

IsPactFarmStake(group) == Len(group) \in 2 .. 3 /\ CallsFarm(Back(group, 1), "update_state") /\ Gives(group[1])

IsPactFarmUnstake(group) ==
  Len(group) \in 2 .. 3 /\ CallsWith(group[1], {"unstake"}) /\ CallsFarm(group[2], "update_state")

IsPactFarmClaim(group) ==
  Len(group) = 2 /\ CallsFarm(group[2], "claim_rewards_farm") /\ CallsFarm(group[1], "update_state")

IsPactFarmUnstakeAndClaim(group) ==
  /\ Len(group) = 4
  /\ CallsWith(group[1], {"increase_quota"}) /\ CallsWith(group[2], {"unstake"})
  /\ CallsFarm(group[3], "update_state") /\ CallsFarm(group[4], "claim_rewards_farm")

IsPact(group) ==
  Or(<<YesNo(IsPactRoutedSwap(group)), IsPactSwap(group), IsPactLpAdd(group), IsPactLpRemove(group),
       YesNo(\/ IsPactLendingLpAdd(group) \/ IsPactLendingLpRemove(group) \/ IsPactFarmEscrowCreate(group)
             \/ IsPactFarmStake(group) \/ IsPactFarmUnstake(group) \/ IsPactFarmClaim(group)
             \/ IsPactFarmUnstakeAndClaim(group))>>)

\* The sum of amounts, all of one asset or raising, None if there are none.
Sum(assets) ==
  LET sum[k \in 1 .. Len(assets)] == IF k = 1 THEN assets[1] ELSE Plus(sum[k - 1], assets[k])
  IN  IF assets = <<>> THEN None ELSE sum[Len(assets)]

\* Everything that is transferred is sent, everything that a swap gives is received.
HandlePactRoutedSwap(group) ==
  LET rest == SubSeq(group, FirstPlain(group), Len(group))
      IsSwap(tx) == CallsWith(tx, {"SWAP", "routed_swap_1", "routed_swap_2"}) /\ ReceivedAsset(tx) # None
      calls == SelectSeq(rest, IsSwap)
      out == Sum(Assets(SelectSeq(rest, IsTransfer)))
      in  == Sum([k \in DOMAIN calls |-> ReceivedAsset(calls[k])])
  IN  IF Raised \in {out, in} THEN Fail
      ELSE IF None \in {out, in} THEN UnknownResult ELSE ExportSwap(out, in, FeeAmount(group))

\* The token first, then the rewards, which share the fee: without rewards the
\* division raises, after the row of the token.
HandlePactFarmUnstake(group) ==
  LET first   == ReceivedAsset(group[1])
      lp      == IF first = None THEN ReceivedAsset(group[2]) ELSE first
      rewards == ReceivedAssets(Back(group, 1))
  IN  Then(ExportLpUnstake(lp, 0),
           IF rewards = <<>> \/ \E k \in DOMAIN rewards : rewards[k] = Raised THEN Fail
           ELSE InTurn([k \in DOMAIN rewards |-> ExportReward(rewards[k], FeeAmount(group) \div Len(rewards))]))

HandlePact(group) ==
  AfterRewards(group,
    IF IsPactRoutedSwap(group) THEN HandlePactRoutedSwap(group)
    ELSE IF IsPactSwap(group) = "yes" THEN HandleSwap(group)
    ELSE IF IsPactLpAdd(group) = "yes" THEN HandleLpAdd(group)
    ELSE IF IsPactLpRemove(group) = "yes" THEN HandleLpRemove(group)
    ELSE IF IsPactLendingLpAdd(group) THEN HandleLendingLpAdd(group, 1)
    ELSE IF IsPactLendingLpRemove(group) THEN HandleLendingLpRemove(group, 1)
    ELSE IF IsPactFarmEscrowCreate(group) THEN Nothing
    ELSE IF IsPactFarmStake(group) THEN ExportLpStake(TransferAsset(group[1]), FeeAmount(group))
    ELSE IF IsPactFarmUnstake(group) THEN HandlePactFarmUnstake(group)
    ELSE IF IsPactFarmClaim(group) THEN ExportReward(InnerAsset(group[2]), FeeAmount(group))
    ELSE HandlePactFarmUnstake(group))

-----------------------------------------------------------------------------
\* Yieldly: groups of a call, a second call or a transfer, and transfers at given places.

YieldlyApps == {"yieldly", "yieldlyNll", "yieldlyAlgo"}

IsYieldlyWithdrawAll(group) == Len(group) = 1 /\ Calls(group[1], YieldlyApps, {"withdraw_all"})

\* Mutant: any application is one of Yieldly.
IsYieldly_Any(group) == YesNo(Len(group) \in 2 .. 6 /\ IsAppCall(group[1]))

IsYieldly(group) ==
  YesNo(\/ IsYieldlyWithdrawAll(group)
        \/ /\ Len(group) \in 2 .. 6
           /\ IsAppCall(group[1])
           /\ (IF IsAppCall(group[2]) THEN group[2] ELSE group[1]).app \in YieldlyApps)

HandleYieldlyNll(group) ==
  Takes(group, 4, {4}, ExportReward(TransferAsset(group[3]), FeesAndPayment(group, <<1, 2, 4>>, 4)))

HandleYieldlyAlgoClaim(group) ==
  Takes(group, 6, {6},
        LET fee == FeesAndPayment(group, <<1, 2, 3, 6>>, 6) \div 2
        IN  IF Raised \in {TransferAsset(group[4]), TransferAsset(group[5])} THEN Fail
            ELSE Then(ExportReward(TransferAsset(group[4]), fee), ExportReward(TransferAsset(group[5]), fee)))

HandleYieldlyAsaClaim(group) == Takes(group, 3, {}, ExportReward(TransferAsset(group[3]), Fees(group, <<1, 2>>)))

\* Of the two transfers of a closeout, the reward only.
HandleYieldlyClose(group) == ExportReward(TransferAsset(Direct(group[1])[2]), Fees(group, <<1, 2>>))

HandleYieldlyT5Claim(group) ==
  LET inner == Direct(group[1])
  IN  InTurn([k \in DOMAIN inner |-> ExportReward(TransferAsset(inner[k]), SumFees(group) \div Len(inner))])

HandleYieldlyStake(group, place) == Takes(group, place, {}, ExportStake(TransferAsset(group[place]), SumFees(group)))

HandleYieldlyWithdraw(group) ==
  LET paid == Len(group) = 4
  IN  Takes(group, 3, IF paid THEN {4} ELSE {},
            ExportUnstake(TransferAsset(group[3]),
                          IF paid THEN FeesAndPayment(group, <<1, 2, 4>>, 4) ELSE Fees(group, <<1, 2>>)))

HandleYieldlyT5Withdraw(group) == ExportUnstake(InnerAsset(group[1]), SumFees(group))

\* The groups whose second transaction says what they are, "bail" by the first.
HandleYieldlyCall(group, other) ==
  LET Has(k, arg) == CallsWith(group[k], {arg})
  IN  IF Has(2, "CA")
      THEN IF group[2].app = "yieldlyNll" THEN HandleYieldlyNll(group)
           ELSE IF group[2].app = "yieldlyAlgo" THEN HandleYieldlyAlgoClaim(group) ELSE HandleYieldlyAsaClaim(group)
      ELSE IF Has(2, "CAW") THEN HandleYieldlyAsaClaim(group)
      ELSE IF Has(2, "bail")
      THEN IF group[1].completion = "closeout" /\ Len(Direct(group[1])) = 2 THEN HandleYieldlyClose(group)
           ELSE IF Has(1, "claim") THEN HandleYieldlyT5Claim(group)
           ELSE IF Has(1, "withdraw") THEN HandleYieldlyT5Withdraw(group) ELSE other
      ELSE IF Has(2, "S") \/ (Has(2, "D") /\ ~Has(2, "W")) THEN HandleYieldlyStake(group, 3)
      ELSE IF Has(2, "W") THEN HandleYieldlyWithdraw(group) ELSE other

HandleYieldly(group) ==
  LET other == IF CallsWith(group[1], {"stake"}) THEN HandleYieldlyStake(group, 2) ELSE UnknownResult
  IN  AfterRewards(group,
        IF IsYieldlyWithdrawAll(group) THEN HandleYieldlyT5Withdraw(group)
        ELSE IF IsAppCall(group[2]) THEN HandleYieldlyCall(group, other) ELSE other)

=============================================================================
