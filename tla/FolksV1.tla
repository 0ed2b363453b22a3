-------------------------------- MODULE FolksV1 --------------------------------
(***************************************************************************)
(* Folks 1 (algo/dapp/folksv1.py): deposits, loans with an escrow of their *)
(* own, rewards, and governance by gALGO.                                  *)
(***************************************************************************)
EXTENDS AlgoLending

CONSTANT Governance  \* the accounts to which ALGO is given for gALGO

Pool1(arg)        == Does({"folksPool"}, {arg})
Oracle1           == Does({"folksOracle"}, {})
Aggregator1(arg)  == Does({"folksAggregator"}, {arg})
Distributor1(arg) == Does({"folksDistributor"}, {arg})
Gov3(arg)         == Does({"folksGov3"}, {arg})
OurPayment(tx)    == tx.type = "pay" /\ IsSender(tx)

IsGalgo3Optin(group) == Len(group) = 2 /\ IsAppOptin(group[2]) /\ group[2].app = "folksGov3"
IsGalgo3Mint(group)  == Is(group, {2}, <<Gov3("m")>>)
IsGalgo3Burn(group)  == Is(group, {3}, <<Gov3("b")>>)
IsGalgo3Claim(group) == Is(group, {2}, <<Gov3("cr"), Moves>>)

IsGalgoMint(group) == Ends(group, 2 .. 4, <<Pays, Distributor1("mint")>>) /\ Back(group, 2).receiver \in Governance
IsGalgoUnmintPremint(group) == Is(group, {1}, <<Distributor1("unmint_premint")>>)
IsGalgoBurn(group) == Len(group) = 2 /\ Calls(group[2], {"folksDistributor"}, {"unmint", "burn"})
IsGalgoBurnAndPremint(group) == Len(group) = 5 /\ IsGalgoBurn(UpTo(group, 2)) /\ IsGalgoMint(From(group, 3))
IsGalgoClaimPremint(group) == Is(group, {1}, <<Distributor1("claim_premint")>>)
IsGalgoEarlyClaim(group)   == Is(group, {1}, <<Distributor1("early_claim")>>)
IsGalgoClaim(group)        == Is(group, 1 .. 2, <<Distributor1("claim_rewards")>>)

IsDeposit1(group)  == Is(group, {2}, <<Pool1("d")>>)
IsWithdraw1(group) == Is(group, {2}, <<Pool1("r")>>)

IsAddEscrow(group) == Is(group, {2}, <<Pays, Does({"folksPair"}, {"ae"})>>) /\ OurPayment(group[1])
IsBorrow1(group)   == Is(group, {5}, <<Oracle1, Pool1("b"), Pool1("b")>>)
IsRepay1(group)    == Is(group, {4}, <<Pool1("rb"), Pool1("rb")>>)
IsIncreaseBorrow(group)    == Is(group, {4}, <<Oracle1, Pool1("ib")>>)
IsReduceCollateral1(group) == Is(group, {4}, <<Oracle1, Pool1("rc")>>)

\* A transfer to an escrow that an earlier group has added.
IsIncreaseCollateral1(group, escrows) ==
  /\ Len(group) = 1 /\ IsTransfer(group[1]) /\ ~IsAssetOptin(group[1])
  /\ group[1].asset \in FolksTokens /\ group[1].receiver \in escrows

IsImmediateExchange(group) == Is(group, {2}, <<Aggregator1("ie")>>)
IsStakedExchange(group)    == Is(group, {3}, <<Pays, Aggregator1("e")>>) /\ OurPayment(group[1])
IsRewardClaim1(group)      == Is(group, {1}, <<Aggregator1("c")>>)

IsFolksV1(group, escrows) ==
  YesNo(\/ IsGalgo3Optin(group) \/ IsGalgo3Mint(group) \/ IsGalgo3Burn(group) \/ IsGalgo3Claim(group)
        \/ IsGalgoMint(group) \/ IsGalgoUnmintPremint(group) \/ IsGalgoBurn(group) \/ IsGalgoBurnAndPremint(group)
        \/ IsGalgoClaimPremint(group) \/ IsGalgoClaim(group) \/ IsDeposit1(group) \/ IsWithdraw1(group)
        \/ IsAddEscrow(group) \/ IsBorrow1(group) \/ IsRepay1(group) \/ IsIncreaseBorrow(group)
        \/ IsIncreaseCollateral1(group, escrows) \/ IsReduceCollateral1(group) \/ IsImmediateExchange(group)
        \/ IsStakedExchange(group) \/ IsGalgoEarlyClaim(group) \/ IsRewardClaim1(group))

-----------------------------------------------------------------------------

\* The handlers take the fee of one transaction, whoever sent it.
HandleGalgo3Mint(group)  == ExportSwap(TransferAsset(group[2]), InnerAsset(group[1]), group[1].fee)
HandleGalgo3Burn(group)  == ExportSwap(TransferAsset(group[3]), TransferAsset(group[2]), group[1].fee)
HandleGalgo3Claim(group) == ExportReward(TransferAsset(group[2]), group[1].fee)

\* Before the period begins ALGO is only deposited.
HandleGalgoMint(group) ==
  LET sent == TransferAsset(Back(group, 2))
      got  == InnerAsset(Back(group, 1))
  IN  IF got = None THEN ExportDepositCollateral(sent, FeeAmount(group)) ELSE ExportSwap(sent, got, FeeAmount(group))

HandleGalgoBurn(group) == ExportSwap(TransferAsset(group[1]), InnerAsset(group[2]), group[2].fee)

HandleGalgoBurnAndPremint(group) == Then(HandleGalgoBurn(UpTo(group, 2)), HandleGalgoMint(From(group, 3)))

\* What was deposited before is swapped now.
HandleGalgoClaimPremint(group) ==
  LET got == InnerAsset(group[1])
      deposited == IF got = None THEN Raised ELSE Asset(Algo, got.amount)
      fee == FeeAmount(group)
  IN  IF Raised \in {got, deposited} THEN Fail
      ELSE Then(ExportWithdrawCollateral(deposited, fee), ExportSwap(deposited, got, fee))

\* The reward of a call.
RewardOf(tx) == ExportReward(InnerAsset(tx), tx.fee)

HandleDeposit1(group) == Deposit(TransferAsset(group[2]), InnerAsset(group[1]), FeeAmount(group))
HandleWithdraw1(group, tracker) ==
  Withdraw(tracker, TransferAsset(group[2]), InnerAsset(group[1]), FeeAmount(group))

\* No row, but the account is known from now on.
HandleAddEscrow(group) == [Nothing EXCEPT !.noted = {group[1].receiver}]

HandleBorrow1(group) == ExportBorrow(InnerAsset(group[3]), group[2].fee)
HandleRepay1(group)  == ExportRepay(TransferAsset(group[4]), group[1].fee)

HandleFolksV1(group, tracker, escrows) ==
  AfterRewards(group,
    IF IsGalgo3Optin(group) THEN Nothing
    ELSE IF IsGalgo3Mint(group) THEN HandleGalgo3Mint(group)
    ELSE IF IsGalgo3Burn(group) THEN HandleGalgo3Burn(group)
    ELSE IF IsGalgo3Claim(group) THEN HandleGalgo3Claim(group)
    ELSE IF IsGalgoMint(group) THEN HandleGalgoMint(group)
    ELSE IF IsGalgoUnmintPremint(group) THEN ExportWithdrawCollateral(InnerAsset(group[1]), FeeAmount(group))
    ELSE IF IsGalgoBurn(group) THEN HandleGalgoBurn(group)
    ELSE IF IsGalgoBurnAndPremint(group) THEN HandleGalgoBurnAndPremint(group)
    ELSE IF IsGalgoClaimPremint(group) THEN HandleGalgoClaimPremint(group)
    ELSE IF IsGalgoClaim(group) THEN InTurn([k \in DOMAIN group |-> RewardOf(group[k])])
    ELSE IF IsDeposit1(group) THEN HandleDeposit1(group)
    ELSE IF IsWithdraw1(group) THEN HandleWithdraw1(group, tracker)
    ELSE IF IsAddEscrow(group) THEN HandleAddEscrow(group)
    ELSE IF IsBorrow1(group) THEN HandleBorrow1(group)
    ELSE IF IsIncreaseBorrow(group) THEN HandleBorrow1(group)
    ELSE IF IsRepay1(group) THEN HandleRepay1(group)
    ELSE IF IsIncreaseCollateral1(group, escrows) \/ IsReduceCollateral1(group) THEN Nothing
    ELSE IF IsImmediateExchange(group) THEN RewardOf(group[1])
    ELSE IF IsStakedExchange(group) THEN Nothing
    ELSE RewardOf(group[1]))

=============================================================================
