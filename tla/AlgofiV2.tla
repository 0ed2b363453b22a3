-------------------------------- MODULE AlgofiV2 --------------------------------
(***************************************************************************)
(* AlgoFi 2 (algo/dapp/algofiv2.py): loans, farms, the pools of its        *)
(* exchange and those for what is lent, governance.  A label of a call is  *)
(* an argument or another application that it refers to.                   *)
(***************************************************************************)
EXTENDS AlgoLending

Markets2 == {"algofi2Market", "algofi2Vault"}

Market2(arg)    == Does(Markets2, {arg})
Loan2(arg)      == Does(Markets2, {arg, "algofi2Manager"})
Manager2(arg)   == Does({"algofi2Manager"}, {arg})
Farm2(arg)      == Does({"algofi2Farm"}, {arg})
LendPool2(arg)  == Does({"algofi2LendPool"}, {arg})
Escrow2(arg)    == Does({"algofi2Escrow"}, {arg})
Pool2(arg)      == DoesAny({arg, "algofi2Manager"})
PoolOfPools2(arg) == DoesAny({arg, "algofi2PoolManager"})

\* The transactions after the opt-ins, in groups of some lengths.
AfterOne(group, lengths, steps) == Sized(group, lengths, Follows(group, AfterOptin(group), steps))
AfterTwo(group, lengths, steps) == Sized(group, lengths, Follows(group, AfterOptins(group), steps))

IsLendSwap(group) ==
  AfterTwo(group, 5 .. 7, <<Moves, LendPool2("swap1"), LendPool2("swap2"), LendPool2("swap4"), LendPool2("swap5")>>)
IsPoolSwap(group) == AfterTwo(group, 4 .. 6, <<Moves, Pool2("swap1"), PoolOfPools2("swap2"), Pool2("swap3")>>)

\* Claims one after another, each perhaps after an opt-in.
IsClaimStaking(group) ==
  LET from[k \in 1 .. Len(group) + 1] ==
        LET s == IF k <= Len(group) /\ IsAssetOptin(group[k]) THEN k + 1 ELSE k
        IN  IF k > Len(group) THEN "yes"
            ELSE Both(Follows(group, s, <<Farm2("fo"), Farm2("cr")>>), from[s + 2])
  IN  IF Len(group) < 2 THEN "no" ELSE from[1]

\* Every second transaction only is asked.
IsClaimLending(group) ==
  LET from[k \in 1 .. Len(group) + 2] ==
        LET s == IF k <= Len(group) /\ IsAssetOptin(group[k]) THEN k + 1 ELSE k
        IN  IF k > Len(group) THEN TRUE ELSE s <= Len(group) /\ Fits(group[s], Loan2("cr")) /\ from[s + 2]
  IN  from[1]

IsDepositCollateral(group) ==
  /\ Len(group) \in 2 .. 3
  /\ IsTransfer(group[AfterOptin(group)]) /\ Fits(Back(group, 1), Loan2("auc"))
IsWithdrawCollateral(group) == Is(group, {1}, <<Market2("ruc")>>)
IsBorrow(group) == Fits(Back(group, 1), Loan2("b"))
IsRepayBorrow(group) ==
  /\ Len(group) \in 2 .. 4
  /\ LET s == AfterOptins(group) IN s <= Len(group) /\ IsTransfer(group[s])
  /\ Fits(Back(group, 1), Loan2("rb"))

IsFarmStake(group)   == Is(group, {3}, <<Farm2("fo"), Moves, Farm2("s")>>)
IsFarmUnstake(group) == Is(group, {2}, <<Farm2("fo"), Farm2("u")>>)
IsLendStake(group)   == AfterOne(group, 5 .. 6, <<Moves, Market2("mba"), Farm2("fo"), Anything, Farm2("s")>>)
IsLendUnstake(group) == Is(group, {4}, <<Farm2("fo"), Farm2("u"), Moves, Market2("br")>>)

IsLendLpAdd(group) ==
  AfterOne(group, 6 .. 7, <<Moves, Moves, LendPool2("pool1"), LendPool2("pool5"), LendPool2("pool6"), LendPool2("pool7")>>)
IsPoolLpAdd(group) ==
  AfterOne(group, 5 .. 6, <<Moves, Moves, Pool2("pool1"), PoolOfPools2("pool2"), Pool2("pool3")>>)

\* The transfer of the token of a pool, and what follows it.
BurnsLpToken(group, lengths, steps) ==
  LET s     == AfterOptins(group)
      asset == TransferAsset(group[s])
  IN  IF Len(group) \notin lengths \/ ~IsTransfer(group[s]) THEN "no"
      ELSE IF asset = Raised \/ ~IsLpToken(asset) THEN Judge(asset, "no")
      ELSE Follows(group, s + 1, steps)

IsLendLpRemove(group) == BurnsLpToken(group, 4 .. 6, <<LendPool2("burn1"), LendPool2("burn3"), LendPool2("burn4")>>)
IsPoolLpRemove(group) == BurnsLpToken(group, 3 .. 5, <<PoolOfPools2("burn1"), Pool2("burn2")>>)

IsLendZap(group) ==
  Sized(group, 11 .. 14, LET s == AfterOptins(group) IN Both(IsLendSwap(UpTo(group, s + 4)), IsLendLpAdd(From(group, s + 5))))
IsPoolZap(group) ==
  Sized(group, 9 .. 12, LET s == AfterOptins(group) IN Both(IsPoolSwap(UpTo(group, s + 3)), IsPoolLpAdd(From(group, s + 4))))

IsSeize(group) == Is(group, {1}, <<Loan2("sc")>>)

IsUserOptin(group)      == Is(group, {2}, <<Moves, Manager2("uoi")>>)
IsMarketOptin(group)    == Is(group, {3}, <<Moves, Manager2("vm"), Manager2("umoi")>>)
IsMarketCloseout(group) == Is(group, {1}, <<Manager2("umco")>>)

GovOptin2 ==
  <<Pays, Does({"algofi2Admin"}, {"saoi"}), Does({"algofi2Admin"}, {"uoi"}), Escrow2("algofi2Rewards"),
    Does({"algofi2Rewards"}, {"uoi"})>>
IsGovOptin(group) == Is(group, {5}, GovOptin2)
IsAirdrop(group)  == Is(group, 7 .. 8, GovOptin2) /\ Fits(Back(group, 1), Escrow2("l"))
IsIncreaseLock(group) == Len(group) >= 2 /\ IsTransfer(group[1]) /\ Calls(group[2], {"algofi2Escrow"}, {"ila", "l"})

IsAlgofiV2(group) ==
  Or(<<IsLendSwap(group), IsPoolSwap(group), IsClaimStaking(group),
       YesNo(\/ IsClaimLending(group) \/ IsDepositCollateral(group) \/ IsWithdrawCollateral(group) \/ IsBorrow(group)
             \/ IsRepayBorrow(group) \/ IsFarmStake(group) \/ IsFarmUnstake(group)),
       IsLendStake(group), YesNo(IsLendUnstake(group)), IsLendLpAdd(group), IsPoolLpAdd(group),
       IsLendLpRemove(group), IsPoolLpRemove(group), IsLendZap(group), IsPoolZap(group),
       YesNo(\/ IsSeize(group) \/ IsGovernanceReward(StorageV2, group) \/ IsUserOptin(group) \/ IsMarketOptin(group)
             \/ IsMarketCloseout(group) \/ IsAirdrop(group) \/ IsGovOptin(group) \/ IsIncreaseLock(group))>>)

-----------------------------------------------------------------------------

\* The claims of a group, each perhaps after an opt-in, which its fee is counted with.
Claims(group, calls) ==
  LET n == Len(group)
      from[k \in 1 .. n + 3] ==
        LET s == IF k <= n /\ IsAssetOptin(group[k]) THEN k + 1 ELSE k
        IN  IF k > n THEN <<>> ELSE <<[first |-> k, call |-> s]>> \o from[s + calls]
  IN  from[1]

\* The reward of every claim, of two calls, with the fees of its transactions, whoever paid them.
HandleClaimStaking(group) ==
  LET claims == Claims(group, 2)
      RewardAt(claim) ==
        ExportReward(InnerAsset(group[claim.call + 1]), SumFees(SubSeq(group, claim.first, claim.call + 1)))
  IN  InTurn([k \in DOMAIN claims |-> RewardAt(claims[k])])

\* Every transaction is a claim here, perhaps after an opt-in: one that gives nothing raises.
\* The rewards in one asset are one row.
HandleClaimLending(group) ==
  LET n == Len(group)
      claims  == Claims(group, 1)
      rewards == [k \in DOMAIN claims |-> IF claims[k].call > n THEN None ELSE InnerAsset(group[claims[k].call])]
      fees    == [k \in DOMAIN claims |-> SumFees(SubSeq(group, claims[k].first, claims[k].call))]
      FeeOf(id) == Summed([k \in DOMAIN claims |-> If(rewards[k].id = id, fees[k])])
      RewardAt(k) ==
        LET id == rewards[k].id
        IN  IF \E j \in 1 .. k - 1 : rewards[j].id = id THEN Nothing
            ELSE ExportReward(Asset(id, Total(rewards, id)), FeeOf(id))
  IN  IF \E k \in DOMAIN claims : rewards[k] \in {None, Raised} THEN Fail
      ELSE InTurn([k \in DOMAIN claims |-> RewardAt(k)])

HandleLendSwap(group) ==
  LET s    == FirstPlain(group)
      sent == TransferAsset(group[s])
      got1 == ReceivedAsset(group[s + 3])
      got2 == ReceivedAsset(group[s + 4])
  IN  IF s + 4 > Len(group) \/ got1 = None THEN Fail
      ELSE IF got1.id = sent.id THEN ExportSwap(Minus(sent, got1), got2, FeeAmount(group))
      ELSE ExportSwap(Minus(sent, got2), got1, FeeAmount(group))

\* What a call gives that is not nothing.
Useful(tx) == SelectSeq(ReceivedAssets(tx), LAMBDA a : a = Raised \/ ~Zero(a))

HandlePoolSwap(group) ==
  LET s    == FirstPlain(group)
      sent == TransferAsset(group[s])
      got  == Useful(group[s + 3])
  IN  IF s + 3 > Len(group) \/ \E k \in DOMAIN got : got[k] = Raised THEN Fail
      ELSE IF Len(got) > 2 THEN UnknownResult
      ELSE ExportSwap(Returned(sent, got), LastOf(SelectSeq(got, LAMBDA a : a.id # sent.id)), FeeAmount(group))

HandleLendLpAdd(group) ==
  LET s == AfterOptin(group)
  IN  ExportLpDeposit(Less(TransferAsset(group[s]), ReceivedAsset(group[s + 4])),
                      Less(TransferAsset(group[s + 1]), ReceivedAsset(group[s + 5])),
                      InnerAsset(group[s + 3]), FeeAmount(group))

HandlePoolLpAdd(group) ==
  LET s      == AfterOptin(group)
      first  == TransferAsset(group[s])
      back   == Useful(group[s + 4])
      others == SelectSeq(back, LAMBDA a : a.id # first.id)
  IN  IF \E k \in DOMAIN back : back[k] = Raised THEN Fail
      ELSE IF Len(back) > 2 THEN UnknownResult
      ELSE ExportLpDeposit(Returned(first, back), Returned(TransferAsset(group[s + 1]), others),
                           ReceivedAsset(group[s + 3]), FeeAmount(group))

HandleLendLpRemove(group) ==
  LET s == FirstPlain(group)
  IN  Takes(group, s + 3, {},
            ExportLpWithdraw(TransferAsset(group[s]), ReceivedAsset(group[s + 2]), ReceivedAsset(group[s + 3]), FeeAmount(group)))

HandlePoolLpRemove(group) ==
  LET s   == FirstPlain(group)
      got == ReceivedAssets(group[s + 2])
  IN  IF s + 2 > Len(group) \/ \E k \in DOMAIN got : got[k] = Raised THEN Fail
      ELSE IF Len(got) # 2 THEN UnknownResult
      ELSE ExportLpWithdraw(TransferAsset(group[s]), got[1], got[2], FeeAmount(group))

HandleLendZap(group) ==
  LET s == FirstPlain(group) IN Then(HandleLendSwap(UpTo(group, s + 4)), HandleLendLpAdd(From(group, s + 5)))
HandlePoolZap(group) ==
  LET s == FirstPlain(group) IN Then(HandlePoolSwap(UpTo(group, s + 3)), HandlePoolLpAdd(From(group, s + 4)))

\* A deposit has the cost of the bank tokens at the rate, but for the vault.
HandleDepositCollateral(group) ==
  LET sent == TransferAsset(group[AfterOptin(group)])
      call == Back(group, 1)
      row  == ExportDepositCollateral(sent, FeeAmount(group))
  IN  IF call.app = "algofi2Vault" \/ call.told = 0 THEN row ELSE Deposit(sent, AtRate(sent, call), FeeAmount(group))

HandleWithdrawCollateral(group, tracker) ==
  LET call == Back(group, 1)
      got  == InnerAsset(call)
  IN  IF call.app = "algofi2Vault" \/ call.told = 0 THEN ExportWithdrawCollateral(got, FeeAmount(group))
      ELSE Withdraw(tracker, BankToken(got, call.told), got, FeeAmount(group))

HandleRepayBorrow(group) ==
  ExportRepay(Less(TransferAsset(Back(group, 2)), InnerAsset(Back(group, 1))), FeeAmount(group))

HandleLendStake(group) ==
  LET s    == AfterOptin(group)
      sent == TransferAsset(group[s])
  IN  Then(TrackDeposit(sent, InnerAsset(group[s + 1])), ExportStake(sent, FeeAmount(group)))

HandleLendUnstake(group, tracker) ==
  LET got == InnerAsset(group[4])
  IN  Then(ExportUnstake(got, 0), TrackWithdraw(tracker, TransferAsset(group[3]), got, FeeAmount(group)))

\* What is airdropped is locked at once, as the state of the last call says.
HandleAirdrop(group) ==
  LET got == TransferAsset(group[IF IsAssetOptin(group[6]) THEN 7 ELSE 6])
      locked == Back(group, 1).told
  IN  Then(ExportAirdrop(got, FeeAmount(group)),
           IF locked = 0 THEN Nothing ELSE ExportStake(Asset(LockedAsset, locked), 0))

\* The wallet's account at AlgoFi pays the debt.
HandleSeize(group) ==
  LET paid == Assets(SelectSeq(group[1].inner, LAMBDA t : IsTransfer(t) /\ t.sender = StorageV2))
  IN  IF paid = <<>> THEN UnknownResult ELSE ExportRepay(Sum(paid), 0)

HandleAlgofiV2(group, tracker) ==
  IF IsLendSwap(group) = "yes" THEN HandleLendSwap(group)
  ELSE IF IsPoolSwap(group) = "yes" THEN HandlePoolSwap(group)
  ELSE IF IsClaimStaking(group) = "yes" THEN HandleClaimStaking(group)
  ELSE IF IsClaimLending(group) THEN HandleClaimLending(group)
  ELSE IF IsDepositCollateral(group) THEN HandleDepositCollateral(group)
  ELSE IF IsWithdrawCollateral(group) THEN HandleWithdrawCollateral(group, tracker)
  ELSE IF IsBorrow(group) THEN Borrow(Back(group, 1), FeeAmount(group))
  ELSE IF IsRepayBorrow(group) THEN HandleRepayBorrow(group)
  ELSE IF IsFarmStake(group) THEN ExportStake(TransferAsset(group[2]), FeeAmount(group))
  ELSE IF IsFarmUnstake(group) THEN ExportUnstake(InnerAsset(group[2]), FeeAmount(group))
  ELSE IF IsLendStake(group) = "yes" THEN HandleLendStake(group)
  ELSE IF IsLendUnstake(group) THEN HandleLendUnstake(group, tracker)
  ELSE IF IsLendLpAdd(group) = "yes" THEN HandleLendLpAdd(group)
  ELSE IF IsPoolLpAdd(group) = "yes" THEN HandlePoolLpAdd(group)
  ELSE IF IsLendLpRemove(group) = "yes" THEN HandleLendLpRemove(group)
  ELSE IF IsPoolLpRemove(group) = "yes" THEN HandlePoolLpRemove(group)
  ELSE IF IsLendZap(group) = "yes" THEN HandleLendZap(group)
  ELSE IF IsPoolZap(group) = "yes" THEN HandlePoolZap(group)
  ELSE IF IsSeize(group) THEN HandleSeize(group)
  ELSE IF IsGovernanceReward(StorageV2, group) THEN HandleGovernanceReward(group)
  ELSE IF IsUserOptin(group) \/ IsMarketOptin(group) \/ IsMarketCloseout(group) THEN Nothing
  ELSE IF IsIncreaseLock(group) THEN ExportStake(TransferAsset(group[1]), FeeAmount(group))
  ELSE IF IsAirdrop(group) THEN HandleAirdrop(group)
  ELSE Nothing

=============================================================================
