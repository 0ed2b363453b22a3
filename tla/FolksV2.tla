-------------------------------- MODULE FolksV2 --------------------------------
(***************************************************************************)
(* Folks 2 (algo/dapp/folksv2.py): deposits, loans, and governance, also   *)
(* with borrowed ALGO.                                                     *)
(***************************************************************************)
EXTENDS AlgoLending

Pool2Call(arg)    == Does({"folks2Pool"}, {arg})
DepositApp(arg)   == Does({"folks2Deposit"}, {arg})
StakingApp(arg)   == Does({"folks2Staking"}, {arg})
Loans(arg)        == Does({"folks2Loans"}, {arg})
Oracle2           == Does({"folks2Oracle"}, {})
OpUp              == Does({"folks2OpUp"}, {})
Distributor2(arg) == Does({"folks2Distributor"}, {arg})

IsDeposit2(group)  == Ends(group, 2 .. 5, <<Ours, Pool2Call("deposit")>>)
IsWithdraw2(group) == Is(group, {1}, <<DepositApp("withdraw")>>) \/ Is(group, {2}, <<OpUp, DepositApp("withdraw")>>)

IsEscrowWithdraw(group) ==
  Is(group, {4}, <<Anything, DepositApp("withdraw"), Does({"folks2Oracle"}, {"refresh"}), Loans("sync")>>)

IsStakeDeposit(group)  == Ends(group, 4 .. 7, <<Ours, Pool2Call("deposit"), StakingApp("sync_stake")>>)
IsStakeWithdraw(group) == Ends(group, 1 .. 3, <<StakingApp("withdraw_stake")>>)
IsStakeClaim(group)    == Ends(group, {4}, <<StakingApp("claim_rewards")>>)

\* Two transfers with the notes of a loan.
IsCreateLoan(group) == Is(group, {2}, <<Ours, Ours>>) /\ group[1].note = "loan name" /\ group[2].note = "loan"

IsMoveToCollateral(group) ==
  Is(group, {6}, <<OpUp, Ours, Loans("add_collateral"), DepositApp("withdraw"), Anything, Loans("sync")>>)

IsBorrow2(group)      == Ends(group, 2 .. 4, <<Oracle2, Loans("borrow")>>)
IsRepayWithTxn(group) == Is(group, {2}, <<Ours, Loans("repay")>>)
IsSwapRepay(group) ==
  Is(group, {4}, <<Ours, Does({"deflexRouter"}, {"swap_finalize"})>>) /\ IsRepayWithTxn(From(group, 3))

IsSwapCollateral(group) ==
  /\ Is(group, 10 .. 12, <<OpUp, Loans("swap_begin"), Ours>>)
  /\ Ends(group, 10 .. 12, <<Ours, Pool2Call("deposit"), Anything, Anything, Anything, Loans("swap_end")>>)

IsIncreaseCollateral2(group) ==
  Ends(group, 5 .. 7, <<Oracle2, Loans("sync")>>) /\ IsDeposit2(UpTo(group, Len(group) - 2))
IsReduceCollateral2(group) == Ends(group, 2 .. 3, <<Oracle2, Loans("reduce")>>)
IsRemoveLoan(group)        == Ends(group, 2 .. 3, <<Loans("remove"), Moves>>)

IsCommit(group)         == Ends(group, 3 .. 5, <<Ours, Distributor2("mint"), Distributor2("governance")>>)
IsBurn(group)           == Is(group, {2}, <<Ours, Distributor2("burn")>>)
IsGalgoMint2(group)     == Ends(group, 2 .. 3, <<Ours, Distributor2("galgo_mint")>>)
IsUnmintPremint2(group) == Is(group, {2}, <<Distributor2("unmint_premint"), Distributor2("governance")>>)
IsClaimPremint2(group)  == Is(group, {1}, <<Distributor2("claim_premint")>>)
IsUnmint(group)         == Is(group, {2}, <<Ours, Distributor2("unmint")>>)
IsGovClaim2(group)      == Is(group, {1}, <<Distributor2("claim_rewards")>>)

\* The groups in which ALGO is borrowed for one group only.
Flash(group, n) ==
  Is(group, {n}, <<Pool2Call("flash_begin")>>) /\ Ends(group, {n}, <<Ours, Pool2Call("flash_end")>>)

IsLeveragedCommit(group) ==
  /\ Flash(group, 14)
  /\ IsCreateLoan(SubSeq(group, 2, 3)) /\ IsGalgoMint2(SubSeq(group, 4, 5))
  /\ IsDeposit2(SubSeq(group, 7, 8)) /\ IsBorrow2(SubSeq(group, 11, 12))

IsLeveragedUnroll(group) ==
  /\ Flash(group, 10)
  /\ IsRepayWithTxn(SubSeq(group, 3, 4)) /\ IsReduceCollateral2(SubSeq(group, 5, 6)) /\ IsBurn(SubSeq(group, 7, 8))

IsFolksV2(group) ==
  YesNo(\/ IsDeposit2(group) \/ IsWithdraw2(group) \/ IsStakeDeposit(group) \/ IsStakeWithdraw(group)
        \/ IsStakeClaim(group) \/ IsCreateLoan(group) \/ IsMoveToCollateral(group) \/ IsEscrowWithdraw(group)
        \/ IsBorrow2(group) \/ IsRepayWithTxn(group) \/ IsSwapRepay(group) \/ IsSwapCollateral(group)
        \/ IsIncreaseCollateral2(group) \/ IsReduceCollateral2(group) \/ IsRemoveLoan(group) \/ IsCommit(group)
        \/ IsBurn(group) \/ IsGalgoMint2(group) \/ IsUnmintPremint2(group) \/ IsClaimPremint2(group)
        \/ IsUnmint(group) \/ IsGovClaim2(group) \/ IsLeveragedCommit(group) \/ IsLeveragedUnroll(group))

-----------------------------------------------------------------------------

HandleDeposit2(group) ==
  Deposit(TransferAsset(Back(group, 2)), InnerAsset(Back(group, 1)), FeeAmount(group))

\* The first inner transfer is of the tokens, the third gives back those that were not used.
HandleWithdraw2(group, tracker) ==
  LET call   == Back(group, 1)
      inner  == Assets(InnerTransfers(call))
      tokens == IF Len(inner) = 3 THEN Less(inner[1], inner[3]) ELSE inner[1]
  IN  IF inner = <<>> \/ \E k \in DOMAIN inner : inner[k] = Raised THEN Fail
      ELSE IF tokens = Raised THEN Fail
      ELSE Withdraw(tracker, tokens, ReceivedAsset(call), FeeAmount(group))

HandleStakeDeposit(group) ==
  Deposit(TransferAsset(Back(group, 3)), InnerAsset(Back(group, 2)), FeeAmount(group))

\* The rewards of all the transactions, in ALGO: others raise.
HandleStakeClaim(group) ==
  LET rewards == SelectSeq([k \in DOMAIN group |-> InnerAsset(group[k])], LAMBDA a : a # None)
  IN  ExportReward(Sum(<<Asset(Algo, 0)>> \o rewards), FeeAmount(group))

HandleBorrow2(group) == ExportBorrow(ReceivedAsset(Back(group, 1)), FeeAmount(group))
HandleRepayWithTxn(group) ==
  ExportRepay(Less(TransferAsset(group[1]), ReceivedAsset(group[2])), FeeAmount(group))
HandleReduceCollateral2(group) == ExportWithdrawCollateral(ReceivedAsset(Back(group, 1)), FeeAmount(group))

HandleSwapRepay(group) ==
  Then(ExportSwap(TransferAsset(group[1]), ReceivedAsset(group[2]), FeeAmount(UpTo(group, 2))),
       HandleRepayWithTxn(From(group, 3)))

\* Collateral is withdrawn, swapped and deposited again.
HandleSwapCollateral(group) ==
  LET sent == TransferAsset(group[3])
      got  == TransferAsset(Back(group, 6))
  IN  Then(ExportWithdrawCollateral(sent, 0),
           Then(ExportSwap(sent, got, FeeAmount(group)), ExportDepositCollateral(got, 0)))

HandleCommit(group) == ExportSwap(TransferAsset(Back(group, 3)), InnerAsset(Back(group, 2)), FeeAmount(group))
HandleBurn(group)   == ExportSwap(TransferAsset(group[1]), InnerAsset(group[2]), FeeAmount(group))

\* ALGO for which no gALGO comes yet is in no row.
HandleGalgoMint2(group) ==
  LET got == InnerAsset(Back(group, 1))
  IN  IF TransferAsset(Back(group, 2)) = Raised THEN Fail
      ELSE IF got = None THEN Nothing ELSE ExportSwap(TransferAsset(Back(group, 2)), got, FeeAmount(group))

\* It was deposited before, and no row withdraws it.
HandleClaimPremint2(group) ==
  LET got == InnerAsset(group[1])
  IN  IF got \in {None, Raised} THEN Fail ELSE ExportSwap(Asset(Algo, got.amount), got, FeeAmount(group))

\* The loan for the group is paid back by its last transfer.
Flashing(group, results) ==
  Then(ExportBorrow(InnerAsset(group[1]), group[1].fee),
       Then(InTurn(results), ExportRepay(TransferAsset(Back(group, 2)), Back(group, 1).fee)))

HandleLeveragedCommit(group) ==
  Flashing(group, <<HandleGalgoMint2(SubSeq(group, 4, 5)), HandleDeposit2(SubSeq(group, 7, 8)),
                    HandleBorrow2(SubSeq(group, 11, 12))>>)

HandleLeveragedUnroll(group) ==
  Flashing(group, <<HandleRepayWithTxn(SubSeq(group, 3, 4)), HandleReduceCollateral2(SubSeq(group, 5, 6)),
                    HandleBurn(SubSeq(group, 7, 8))>>)

HandleFolksV2(group, tracker) ==
  IF IsDeposit2(group) THEN HandleDeposit2(group)
  ELSE IF IsWithdraw2(group) THEN HandleWithdraw2(group, tracker)
  ELSE IF IsStakeDeposit(group) THEN HandleStakeDeposit(group)
  ELSE IF IsStakeWithdraw(group) THEN HandleWithdraw2(group, tracker)
  ELSE IF IsStakeClaim(group) THEN HandleStakeClaim(group)
  ELSE IF IsCreateLoan(group) \/ IsMoveToCollateral(group) \/ IsEscrowWithdraw(group) THEN Nothing
  ELSE IF IsBorrow2(group) THEN HandleBorrow2(group)
  ELSE IF IsRepayWithTxn(group) THEN HandleRepayWithTxn(group)
  ELSE IF IsSwapRepay(group) THEN HandleSwapRepay(group)
  ELSE IF IsSwapCollateral(group) THEN HandleSwapCollateral(group)
  ELSE IF IsIncreaseCollateral2(group) THEN HandleDeposit2(UpTo(group, Len(group) - 2))
  ELSE IF IsReduceCollateral2(group) THEN HandleReduceCollateral2(group)
  ELSE IF IsRemoveLoan(group) THEN Nothing
  ELSE IF IsCommit(group) THEN HandleCommit(group)
  ELSE IF IsBurn(group) THEN HandleBurn(group)
  ELSE IF IsGalgoMint2(group) THEN HandleGalgoMint2(group)
  ELSE IF IsUnmintPremint2(group) THEN ExportWithdrawCollateral(InnerAsset(group[1]), FeeAmount(group))
  ELSE IF IsClaimPremint2(group) THEN HandleClaimPremint2(group)
  ELSE IF IsUnmint(group) THEN HandleBurn(group)
  ELSE IF IsGovClaim2(group) THEN ExportReward(InnerAsset(group[1]), FeeAmount(group))
  ELSE IF IsLeveragedCommit(group) THEN HandleLeveragedCommit(group)
  ELSE HandleLeveragedUnroll(group)

=============================================================================
