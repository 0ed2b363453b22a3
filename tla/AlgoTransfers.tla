----------------------------- MODULE AlgoTransfers -----------------------------
(***************************************************************************)
(* What every group of transactions can be: transfers (handle_transfer.py) *)
(* or the swaps and deposits of a market maker (handle_amm.py), some of    *)
(* them asked for by several dapps.  A recogniser says "yes", "no" or      *)
(* "raise".                                                                *)
(***************************************************************************)
EXTENDS AlgoRows

CONSTANTS
  Pera,        \* the account that collects the fees of Pera
  Rewarders    \* the accounts whose payments are rewards

YesNo(b) == IF b THEN "yes" ELSE "no"

\* `and` of two recognisers, and `or` of a sequence.
And(a, b) == IF a = "yes" THEN YesNo(b) ELSE a
Or(answers) ==
  LET told == SelectSeq(answers, LAMBDA a : a # "no") IN IF told = <<>> THEN "no" ELSE told[1]

\* The transactions with all that they caused, depth first.
Flat(txs) ==
  LET all[k \in 0 .. Len(txs)] == IF k = 0 THEN <<>> ELSE all[k - 1] \o <<txs[k]>> \o txs[k].inner IN all[Len(txs)]

-----------------------------------------------------------------------------

\* handle_sender_transaction.
HandleSender(tx) ==
  Then(IF tx.fee > 0 THEN ExportSpendFee(Asset(Algo, tx.fee)) ELSE Nothing,
       ExportParticipation(tx.senderRewards))

\* is_governance_reward_transaction and handle_governance_reward_transaction.
IsGovernanceReward(account, group) ==
  Len(group) = 1 /\ group[1].type = "pay" /\ group[1].receiver = account /\ group[1].sender \in Rewarders

HandleGovernanceReward(group) == ExportReward(Asset(Algo, group[1].amount + group[1].receiverRewards), 0)

\* The amount of a transfer that is not the wallet's own, and the fee if it is.
If(condition, n) == IF condition THEN n ELSE 0

Gained(tx) ==
  If(tx.receiver = Wallet, tx.amount) + If(tx.close = Wallet, tx.closeAmount) - If(IsSender(tx), tx.amount)

\* The first half of _handle_transfer: the wallet receives, maybe from itself.
HandleReceipt(tx) ==
  LET asset == Asset(tx.asset, Gained(tx))
      fee   == If(IsSender(tx), tx.fee)
      rewarded == tx.sender \in Rewarders \/ tx.note = "rewards"
  IN  IF asset = Raised THEN Fail
      ELSE IF Zero(asset)
      THEN IF fee > 0 THEN ExportSpendFee(Asset(Algo, fee)) ELSE Nothing
      ELSE IF rewarded THEN ExportReward(asset, fee) ELSE ExportReceive(asset, fee)

\* The second half: it sends, and may close its account to another.
HandleSending(tx) ==
  LET sent == Asset(tx.asset, tx.amount)
      all  == Asset(tx.asset, tx.amount + tx.closeAmount)
  IN  IF tx.close # "none" /\ tx.close # tx.receiver
      THEN Then(ExportSend(Asset(tx.asset, tx.closeAmount), 0), ExportSend(sent, tx.fee))
      ELSE IF all = Raised THEN Fail
      ELSE Then(IF tx.receiver = Pera /\ tx.note = "pera" THEN ExportSpendFee(Plus(all, Asset(all.id, tx.fee))) ELSE Nothing,
                ExportSend(all, tx.fee))

TransferRewards(tx) ==
  If(tx.receiver = Wallet, tx.receiverRewards) + If(tx.close = Wallet, tx.closeRewards)
    + If(IsSender(tx), tx.senderRewards)

\* _handle_transfer.
HandleTransfer(tx) ==
  Then(IF Wallet \in {tx.receiver, tx.close} THEN HandleReceipt(tx) ELSE HandleSending(tx),
       ExportParticipation(TransferRewards(tx)))

\* handle_transfer_transactions: a call that caused others has no row of its own.
HandleTransfers(txs) ==
  LET flat == Flat(txs)
      One(k) ==
        IF IsTransfer(flat[k]) /\ ~IsAssetOptin(flat[k]) /\ IsParticipant(flat[k]) THEN HandleTransfer(flat[k])
        ELSE IF IsAppCall(flat[k]) /\ HasInner(flat, k) THEN Nothing
        ELSE IF IsSender(flat[k]) THEN HandleSender(flat[k]) ELSE Nothing
  IN  InTurn([k \in DOMAIN flat |-> One(k)])

-----------------------------------------------------------------------------

\* A transfer of the wallet that is no opt-in.
Sends(tx) == IsTransfer(tx) /\ IsSender(tx) /\ ~IsAssetOptin(tx)

\* An asset that a recogniser looks at.
Judge(asset, answer) == IF asset = Raised THEN "raise" ELSE answer

\* is_swap_group: transfers, each after an opt-in or not, with the calls that answer them.
IsSwapGroup(group) ==
  LET n == Len(group)
      from[i \in 1 .. n + 1] ==
        LET s    == IF i <= n /\ IsAssetOptin(group[i]) THEN i + 1 ELSE i
            sent == TransferAsset(group[s])
            got  == ReceivedNonZero(group[s + 1])
        IN  IF i > n THEN "yes"
            ELSE IF s > n \/ ~Sends(group[s]) THEN "no"
            ELSE IF sent = Raised \/ IsLpToken(sent) THEN Judge(sent, "no")
            ELSE IF s = n THEN YesNo(group[s].receiver = Pera)
            ELSE IF got \in {None, Raised} \/ IsLpToken(got) THEN Judge(got, "no")
            ELSE from[s + 2]
  IN  IF n < 2 THEN "no" ELSE from[1]

\* is_lp_add_group.
IsLpAddGroup(group) ==
  LET n == Len(group)
      s == IF n > 0 /\ IsAssetOptin(group[1]) THEN 2 ELSE 1
  IN  IF n \notin {3, 4} THEN "no"
      ELSE IF ~(Sends(group[s]) /\ Sends(group[s + 1])) \/ s + 2 > n THEN "no"
      ELSE LET got == ReceivedAsset(group[s + 2]) IN Judge(got, YesNo(IsLpToken(got)))

\* The first that is no opt-in, or the end.
FirstPlain(group) ==
  LET from[i \in 1 .. Len(group) + 1] == IF i > Len(group) \/ ~IsAssetOptin(group[i]) THEN i ELSE from[i + 1]
  IN  from[1]

\* is_lp_remove_group.
IsLpRemoveGroup(group) ==
  LET n == Len(group)
      s == FirstPlain(group)
  IN  IF n \notin 2 .. 4 \/ s > n THEN "no"
      ELSE IF ~(IsTransfer(group[s]) /\ IsSender(group[s])) THEN "no"
      ELSE LET sent == TransferAsset(group[s]) IN
           IF sent = Raised \/ ~IsLpToken(sent) \/ s + 1 > n THEN Judge(sent, "no")
           ELSE LET direct == Direct(group[s + 1]) IN
                YesNo(IsAppCall(group[s + 1]) /\ Len(direct) = 2 /\ \A k \in DOMAIN direct : IsReceiver(direct[k]))

-----------------------------------------------------------------------------

Assets(txs) == [k \in DOMAIN txs |-> TransferAsset(txs[k])]

\* The sum of the amounts of asset a.
Total(assets, id) ==
  LET sum[k \in 0 .. Len(assets)] == IF k = 0 THEN 0 ELSE sum[k - 1] + If(assets[k].id = id, assets[k].amount)
  IN  sum[Len(assets)]

LastOf(seq) == IF seq = <<>> THEN None ELSE seq[Len(seq)]

\* Mutant: what comes back of the asset that was sent is not deducted.
Returned_Kept(sent, assets) == sent

\* What was sent without what came back of it.
Returned(sent, assets) == Minus(sent, Asset(sent.id, Total(assets, sent.id)))

\* One swap of handle_swap, at s: the asset sent, the asset received and the fee.
SwapAt(group, s, optin) ==
  LET got    == Assets(SelectSeq(Direct(group[s + 1]), IsReceiver))
      useful == SelectSeq(got, LAMBDA a : a = Raised \/ ~Zero(a))
      sent   == TransferAsset(group[s])
  IN  [out |-> IF \E k \in DOMAIN got : got[k] = Raised THEN Raised ELSE Returned(sent, useful),
       in  |-> LastOf(SelectSeq(useful, LAMBDA a : a.id # sent.id)),
       fee |-> group[s].fee + group[s + 1].fee + If(optin, group[s].fee)]

\* The last transfer of a swap group, as a row.
FeeOfPera(tx, optin) ==
  IF tx.receiver = Pera
  THEN <<Spent(Plus(TransferAsset(tx), Asset(tx.asset, tx.fee + If(optin, tx.fee))))>> ELSE <<>>

\* handle_swap: the rows of the swaps, or those of transfers if one has no receipt.
\* The row of the fee of Pera is exported before them.
HandleSwap(group) ==
  LET n == Len(group)
      End == [rows |-> <<>>, ok |-> TRUE, swaps |-> TRUE, spent |-> <<>>]
      from[i \in 1 .. n + 1] ==
        LET optin == i <= n /\ IsAssetOptin(group[i])
            s     == IF optin THEN i + 1 ELSE i
            swap  == SwapAt(group, s, optin)
        IN  IF i > n THEN End
            ELSE IF s = n THEN [End EXCEPT !.spent = FeeOfPera(group[n], optin)]
            ELSE IF swap.out = Raised THEN [End EXCEPT !.ok = FALSE]
            ELSE IF swap.in = None THEN [End EXCEPT !.swaps = FALSE]
            ELSE [from[s + 2] EXCEPT !.rows = ExportSwap(swap.out, swap.in, swap.fee).rows \o @]
      all == from[1]
  IN  IF ~all.ok THEN Fail
      ELSE IF all.swaps THEN Rows(all.spent \o all.rows) ELSE HandleTransfers(group)

\* handle_lp_add: anything that the call moves is deducted from what was sent, or is the token.
HandleLpAdd(group) ==
  LET s      == IF IsAssetOptin(group[1]) THEN 2 ELSE 1
      first  == TransferAsset(group[s])
      second == TransferAsset(group[s + 1])
      moved  == SelectSeq(Assets(Direct(group[s + 2])), LAMBDA a : a # None)
      Other(id) == SelectSeq(moved, LAMBDA a : a.id # id)
      lp     == LastOf(SelectSeq(Other(first.id), LAMBDA a : a.id # second.id))
      out1   == Returned(first, moved)
      out2   == Returned(second, Other(first.id))
  IN  IF Raised \in {first, second, out1, out2} \/ \E k \in DOMAIN moved : moved[k] = Raised THEN Fail
      ELSE IF lp = None THEN UnknownResult
      ELSE ExportLpDeposit(out1, out2, lp, SumFees(SubSeq(group, 1, s + 2)))

\* handle_lp_remove.
HandleLpRemove(group) ==
  LET s      == FirstPlain(group)
      direct == Direct(group[s + 1])
  IN  IF Len(direct) # 2 THEN UnknownResult
      ELSE ExportLpWithdraw(TransferAsset(group[s]), TransferAsset(direct[1]), TransferAsset(direct[2]),
                            SumFees(SubSeq(group, 1, s + 1)))

\* The end of handle_transaction_group, when no dapp has handled the group.
HandleGeneric(group) ==
  CASE IsSwapGroup(group) = "yes" -> HandleSwap(group)
    [] IsSwapGroup(group) = "no"  -> HandleTransfers(group)
    [] OTHER -> Fail

=============================================================================
