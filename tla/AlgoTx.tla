-------------------------------- MODULE AlgoTx --------------------------------
(***************************************************************************)
(* Algorand transactions as the report sees them, the questions it asks    *)
(* about one (algo/transaction.py) and amounts of assets (algo/asset.py).  *)
(*                                                                         *)
(* A transaction is a record; `inner` holds the transactions that it       *)
(* caused, depth first, each with its depth, so that what the code does by *)
(* recursion is a walk along a sequence here.  An argument of a call, a    *)
(* note and an application are labels.  What a call leaves in its state,   *)
(* or says in its second argument, is a number that it `told`.             *)
(***************************************************************************)
EXTENDS Integers, Sequences, Places

CONSTANTS
  Wallet,    \* the account reported on
  Dust,      \* bound: the amount of ALGO that counts as zero, 100 in the code
  LpTokens,  \* the tokens of a pool: [lp asset -> set of the two assets]
  Unknown,   \* assets that the indexer cannot describe
  Excluded   \* localconfig.exclude_asas

ASSUME AlgoTxAssumption == Dust \in Nat

Algo == "ALGO"

\* An amount of an asset; None for Python's None, Raised for an exception.
None   == [id |-> "none", amount |-> 0]
Raised == [id |-> "raise", amount |-> 0]

\* Asset(id, amount): unknown assets and negative amounts raise.
Asset(id, amount) == IF id \in Unknown \/ amount < 0 THEN Raised ELSE [id |-> id, amount |-> amount]

Plus(a, b)  == IF a.id # b.id THEN Raised ELSE Asset(a.id, a.amount + b.amount)
Minus(a, b) == IF a.id # b.id THEN Raised ELSE Asset(a.id, a.amount - b.amount)

Zero(a) == a.amount = 0 \/ (a.id = Algo /\ a.amount <= Dust)

IsLpToken(a) == a.id \in DOMAIN LpTokens

-----------------------------------------------------------------------------

IsTransfer(tx)     == tx.type \in {"pay", "axfer"}
IsAppCall(tx)      == tx.type = "appl"
IsAppOptin(tx)     == IsAppCall(tx) /\ tx.completion = "optin"
IsSender(tx)       == tx.sender = Wallet
IsReceiver(tx)     == IsTransfer(tx) /\ tx.receiver = Wallet
IsParticipant(tx)  == IsSender(tx) \/ (IsTransfer(tx) /\ Wallet \in {tx.receiver, tx.close})

\* is_app_call with an argument, and with the applications too.
CallsWith(tx, args) == IsAppCall(tx) /\ tx.args \cap args # {}
Calls(tx, apps, args) == CallsWith(tx, args) /\ tx.app \in apps

TransferAsset(tx) == IF IsTransfer(tx) THEN Asset(tx.asset, tx.amount) ELSE None

\* The payment that a dapp takes as a fee: a transaction of another type raises.
Payment(tx) == IF tx.type = "pay" THEN Asset(Algo, tx.amount) ELSE Raised

\* What an inner transaction itself caused comes right after it, deeper.
HasInner(txs, k) == k < Len(txs) /\ txs[k + 1].depth > txs[k].depth

IsOptinTransfer(tx) == tx.type = "axfer" /\ tx.sender = tx.receiver

\* An opt-in, or a call that did nothing but opt in.
IsAssetOptin(tx) ==
  \/ IsOptinTransfer(tx)
  \/ /\ tx.inner # <<>>
     /\ \A k \in DOMAIN tx.inner : IsOptinTransfer(tx.inner[k]) \/ HasInner(tx.inner, k)

\* The inner transactions of the first level.
Direct(tx) == AtPlaces(tx.inner, {k \in DOMAIN tx.inner : tx.inner[k].depth = 1})

InnerTransfers(tx) == AtPlaces(tx.inner, {k \in DOMAIN tx.inner : IsTransfer(tx.inner[k])})
InnerReceipts(tx)  == AtPlaces(tx.inner, {k \in DOMAIN tx.inner : IsReceiver(tx.inner[k])})

FirstAsset(txs) == IF txs = <<>> THEN None ELSE TransferAsset(txs[1])

\* get_inner_transfer_asset: without a filter, with is_transfer_receiver, and
\* with is_transfer_receiver_non_zero_asset, which asks for the asset of each.
InnerAsset(tx)    == FirstAsset(InnerTransfers(tx))
ReceivedAsset(tx) == FirstAsset(InnerReceipts(tx))
ReceivedNonZero(tx) ==
  FirstAsset(SelectSeq(InnerReceipts(tx), LAMBDA t : TransferAsset(t) = Raised \/ ~Zero(TransferAsset(t))))

\* generate_inner_transfer_assets of what the wallet receives.
ReceivedAssets(tx) == [k \in DOMAIN InnerReceipts(tx) |-> TransferAsset(InnerReceipts(tx)[k])]

Summed(numbers) ==
  LET sum[k \in 0 .. Len(numbers)] == IF k = 0 THEN 0 ELSE sum[k - 1] + numbers[k] IN sum[Len(numbers)]

SumFees(txs) == Summed([k \in DOMAIN txs |-> txs[k].fee])

\* get_fee_amount.
FeeAmount(txs) == SumFees(SelectSeq(txs, IsSender))

=============================================================================
