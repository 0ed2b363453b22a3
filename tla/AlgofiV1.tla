-------------------------------- MODULE AlgofiV1 --------------------------------
(***************************************************************************)
(* AlgoFi 1 (algo/dapp/algofiv1.py): an exchange, pools, loans, staking.   *)
(***************************************************************************)
EXTENDS AlgoLending

CONSTANTS
  Managers,  \* APPLICATION_ID_ALGOFI_MANAGERS, as the module has it at first
  Staking    \* ALGOFI_STAKING_CONTRACTS

Markets == {"algofiMarket", "algofiVault"}

\* The k-th from the end.
Asks(group, k, step) == Fits(Back(group, k), step)

IsAlgofiSwapExactFor(group) ==
  /\ Len(group) \in 2 .. 3
  /\ LET s == AfterOptin(group) IN IsTransfer(group[s]) /\ s < Len(group)
  /\ Asks(group, 1, DoesAny({"sef", "algofiAmm"}))

IsAlgofiSwapForExact(group) ==
  /\ Len(group) \in 3 .. 4
  /\ Follows(group, AfterOptin(group), <<Moves, DoesAny({"sfe", "algofiAmm"})>>) = "yes"
  /\ Asks(group, 1, DoesAny({"rsr"}))

IsAlgofiSwap(group) == IsAlgofiSwapExactFor(group) \/ IsAlgofiSwapForExact(group)

IsAlgofiLpAdd(group) ==
  Ends(group, 5 .. 6, <<DoesAny({"p"}), DoesAny({"rpa1r"}), DoesAny({"rpa2r"})>>)

IsAlgofiZap(group) ==
  /\ Len(group) \in 7 .. 9
  /\ LET s == AfterOptin(group) IN IsAlgofiSwap(UpTo(group, s + 1)) /\ IsAlgofiLpAdd(From(group, s + 2))

IsAlgofiLpRemove(group) ==
  Ends(group, {3}, <<DoesAny({"ba1o"}), DoesAny({"ba2o"})>>) /\ group[1].type = "axfer"

\* The groups of loans: a number of calls that prepare, then those that count.
IsAlgofiLoan(group, steps) == Ends(group, {InitTxns + Len(steps)}, steps)

IsAlgofiClaim(group)  == IsAlgofiLoan(group, <<Does({"algofiManager", "algofiStability"} \cup Staking, {"cr"})>>)
IsAlgofiBorrow(group) ==
  IsAlgofiLoan(group, <<Does({"algofiManager"}, {"b"}), DoesAny({"b", "algofiManager"})>>)
IsAlgofiRepay(group) ==
  IsAlgofiLoan(group, <<Does({"algofiManager"}, {"rb"}), DoesAny({"rb", "algofiManager"}), Anything>>)
IsAlgofiDeposit(group) ==
  Len(group) = InitTxns + 3 /\ Asks(group, 2, Does(Staking \cup Markets, {"mt"}))
IsAlgofiWithdraw(group) ==
  Len(group) = InitTxns + 2 /\ Asks(group, 1, Does(Staking \cup Markets, {"rcu"}))
IsAlgofiSyncVault(group) == Len(group) = InitTxns + 2 /\ Asks(group, 1, DoesAny({"sv", "algofiManager"}))

\* Of the groups of the other side, only two transactions concern the wallet.
IsAlgofiLiquidate(group) ==
  Len(group) \in {2, InitTxns + 4} /\ Asks(group, 1, DoesAny({"l", "algofiManager"}))

IsAlgofiFlashLoan(group) == Len(group) >= 3 /\ Fits(group[1], DoesAny({"fl", "algofiAmm"}))

\* The list of managers grows whenever an opt-in is looked for, for every report of the process.
LooksForOptin(group) == Len(group) = 2 /\ IsTransfer(group[1]) /\ ~IsAssetOptin(group[1])

IsAlgofiOptin(group) ==
  LooksForOptin(group) /\ IsAppOptin(group[2]) /\ group[2].app \in Managers \cup Staking

IsAlgofiOptout(group, managers) ==
  /\ Len(group) = 2
  /\ CallsWith(group[1], {"oo"}) /\ CallsWith(group[1], managers)
  /\ IsAppCall(group[2]) /\ group[2].app \in managers /\ group[2].completion = "clear"

IsAlgofiOther(group) ==
  \/ IsAlgofiZap(group) \/ IsAlgofiSwap(group) \/ IsAlgofiClaim(group) \/ IsAlgofiLpAdd(group)
  \/ IsAlgofiLpRemove(group) \/ IsAlgofiBorrow(group) \/ IsAlgofiRepay(group) \/ IsAlgofiDeposit(group)
  \/ IsAlgofiWithdraw(group) \/ IsAlgofiLiquidate(group) \/ IsAlgofiFlashLoan(group)
  \/ IsGovernanceReward(StorageV1, group) \/ IsAlgofiSyncVault(group)

IsAlgofiV1(group, managers) ==
  YesNo(IsAlgofiOther(group) \/ IsAlgofiOptin(group) \/ IsAlgofiOptout(group, managers))

\* The list after the group was looked at, and after it was handled: all recognisers again.
ManagersAfter(group, managers) ==
  IF ~IsAlgofiOther(group) /\ LooksForOptin(group) THEN managers \cup Staking ELSE managers

-----------------------------------------------------------------------------

HandleAlgofiSwap(group) ==
  LET s    == AfterOptin(group)
      back == IF CallsWith(Back(group, 1), {"rsr"}) THEN InnerAsset(Back(group, 1)) ELSE None
  IN  Takes(group, s + 1, {}, ExportSwap(Less(TransferAsset(group[s]), back), InnerAsset(group[s + 1]), FeeAmount(group)))

HandleAlgofiLpAdd(group) ==
  LET s == AfterOptin(group)
  IN  Takes(group, s + 4, {},
            ExportLpDeposit(Less(TransferAsset(group[s]), InnerAsset(group[s + 3])),
                            Less(TransferAsset(group[s + 1]), InnerAsset(group[s + 4])),
                            InnerAsset(group[s + 2]), FeeAmount(group)))

HandleAlgofiZap(group) ==
  LET s == AfterOptin(group) IN Then(HandleAlgofiSwap(UpTo(group, s + 1)), HandleAlgofiLpAdd(From(group, s + 2)))

HandleAlgofiLpRemove(group) ==
  ExportLpWithdraw(TransferAsset(group[1]), InnerAsset(group[2]), InnerAsset(group[3]), FeeAmount(group))

\* All that the last call moves is a reward: what is no transfer raises.
HandleAlgofiClaim(group) ==
  LET direct == Direct(Back(group, 1))
  IN  InTurn([k \in DOMAIN direct |-> ExportReward(TransferAsset(direct[k]), FeeAmount(group) \div Len(direct))])

\* The last transaction is the transfer, the call before it may give back some.
HandleAlgofiRepay(group) ==
  LET back == IF CallsWith(Back(group, 2), {"rb"}) THEN InnerAsset(Back(group, 2)) ELSE None
  IN  Takes(group, 2, {}, ExportRepay(Less(TransferAsset(Back(group, 1)), back), FeeAmount(group)))

\* The name of the asset that a bank token stands for.
Underlying(asset) ==
  LET ids == {id \in DOMAIN Banks : Banks[id] = asset.id}
  IN  IF asset \in {None, Raised} \/ ids = {} THEN asset ELSE Asset(CHOOSE id \in ids : TRUE, asset.amount)

HandleAlgofiLiquidate(group) ==
  LET seized == Underlying(InnerAsset(Back(group, 1)))
  IN  IF IsSender(Back(group, 1)) THEN ExportLiquidate(TransferAsset(Back(group, 2)), seized, FeeAmount(group))
      ELSE ExportRepay(seized, 0)

\* The call before the last of a group of one: it always raises, after the rows of the
\* borrowing and of the swap.
HandleAlgofiFlashLoan(group) ==
  LET n == Len(group)
  IN  Then(Borrow(group[1], FeeAmount(UpTo(group, 1))),
           Then(HandleAlgofiSwap(SubSeq(group, 2, n - 1)), HandleAlgofiRepay(From(group, n))))

HandleAlgofiDeposit(group) ==
  LET sent == TransferAsset(Back(group, 1))
      call == Back(group, 2)
      row  == ExportDepositCollateral(sent, FeeAmount(group))
  IN  IF call.app \in Staking THEN ExportLpStake(sent, FeeAmount(group))
      ELSE IF call.app = "algofiVault" \/ call.told = 0 THEN row
      ELSE Then(row, TrackDeposit(sent, AtRate(sent, call)))

HandleAlgofiWithdraw(group, tracker) ==
  LET call == Back(group, 1)
      got  == InnerAsset(call)
  IN  IF call.app \in Staking THEN ExportLpUnstake(got, FeeAmount(group))
      ELSE IF call.app = "algofiVault" \/ call.told = 0 THEN ExportWithdrawCollateral(got, FeeAmount(group))
      ELSE Withdraw(tracker, AtRate(got, call), got, FeeAmount(group))

HandleAlgofiV1(group, tracker) ==
  AfterRewards(group,
    IF IsAlgofiZap(group) THEN HandleAlgofiZap(group)
    ELSE IF IsAlgofiSwap(group) THEN HandleAlgofiSwap(group)
    ELSE IF IsAlgofiClaim(group) THEN HandleAlgofiClaim(group)
    ELSE IF IsAlgofiLpAdd(group) THEN HandleAlgofiLpAdd(group)
    ELSE IF IsAlgofiLpRemove(group) THEN HandleAlgofiLpRemove(group)
    ELSE IF IsAlgofiBorrow(group) THEN Borrow(Back(group, 1), FeeAmount(group))
    ELSE IF IsAlgofiRepay(group) THEN HandleAlgofiRepay(group)
    ELSE IF IsAlgofiDeposit(group) THEN HandleAlgofiDeposit(group)
    ELSE IF IsAlgofiWithdraw(group) THEN HandleAlgofiWithdraw(group, tracker)
    ELSE IF IsAlgofiLiquidate(group) THEN HandleAlgofiLiquidate(group)
    ELSE IF IsAlgofiFlashLoan(group) THEN HandleAlgofiFlashLoan(group)
    ELSE IF IsGovernanceReward(StorageV1, group) THEN HandleGovernanceReward(group)
    ELSE Nothing)

=============================================================================
