------------------------------ MODULE AlgoLending ------------------------------
(***************************************************************************)
(* What the lending dapps, AlgoFi and Folks, have in common: how they      *)
(* recognise a group by its transactions in a row, and what they export    *)
(* for one that uses one cost basis.                                       *)
(***************************************************************************)
EXTENDS AlgoPools, AlgoCostBasis

CONSTANTS
  InitTxns,      \* bound: the calls before those of AlgoFi 1, 12 in the code
  RateUnit,      \* bound: an exchange rate is a multiple of 1 / RateUnit, 10^9 in the code
  Banks,         \* the bank tokens of AlgoFi: [asset -> token]
  StorageV1,     \* the account that AlgoFi 1 keeps for the wallet
  StorageV2,     \* the account that AlgoFi 2 keeps for the wallet
  LockedAsset,   \* the token of AlgoFi's governance, BANK
  FolksTokens    \* the tokens that Folks gives for deposits

ASSUME AlgoLendingAssumption == InitTxns \in Nat /\ RateUnit \in Nat \ {0}

\* What a recogniser asks of one transaction: a call that has all of some labels, for
\* its arguments and the other applications it refers to.
Does(apps, labels) == [is |-> "call", apps |-> apps, labels |-> labels]
DoesAny(labels)    == [is |-> "any call", apps |-> {}, labels |-> labels]
Moves == [is |-> "transfer", apps |-> {}, labels |-> {}]
Pays  == [is |-> "payment", apps |-> {}, labels |-> {}]
Ours  == [is |-> "transfer of the wallet", apps |-> {}, labels |-> {}]
Anything == [is |-> "anything", apps |-> {}, labels |-> {}]

Fits(tx, step) ==
  CASE step.is = "call"     -> IsAppCall(tx) /\ step.labels \subseteq tx.args /\ tx.app \in step.apps
    [] step.is = "any call" -> IsAppCall(tx) /\ step.labels \subseteq tx.args
    [] step.is = "transfer" -> IsTransfer(tx)
    [] step.is = "payment"  -> tx.type = "pay"
    [] step.is = "transfer of the wallet" -> Gives(tx)
    [] OTHER                -> TRUE

\* The transactions from start, asked one after another: one that is not there raises.
Follows(group, start, steps) ==
  LET There(k) == start + k - 1 <= Len(group)
      wrong == {k \in DOMAIN steps : ~There(k) \/ ~Fits(group[start + k - 1], steps[k])}
      first == CHOOSE k \in wrong : \A j \in wrong : k <= j
  IN  IF wrong = {} THEN "yes" ELSE IF There(first) THEN "no" ELSE "raise"

\* The first ones, of a group of that length or those; the last ones, of a long enough one.
Is(group, lengths, steps)  == Len(group) \in lengths /\ Follows(group, 1, steps) = "yes"
Ends(group, lengths, steps) == Len(group) \in lengths /\ Follows(group, Len(group) - Len(steps) + 1, steps) = "yes"

\* A recogniser of groups of some lengths, and two of which the second is asked if the first agrees.
Sized(group, lengths, answer) == IF Len(group) \in lengths THEN answer ELSE "no"
Both(a, b) == IF a = "yes" THEN b ELSE a

\* Up to two opt-ins before.
AfterOptins(group) ==
  IF ~IsAssetOptin(group[1]) THEN 1 ELSE IF ~IsAssetOptin(group[2]) THEN 2 ELSE 3

From(group, k) == SubSeq(group, k, Len(group))
UpTo(group, k) == SubSeq(group, 1, k)

\* What was sent, less what came back of it: nothing, or an asset.
Less(sent, back) == IF back = None THEN sent ELSE IF back = Raised THEN Raised ELSE Minus(sent, back)

\* A bank token at the rate that the call left in its state, if it did.
BankToken(asset, amount) == IF asset.id \in DOMAIN Banks THEN Asset(Banks[asset.id], amount) ELSE Raised
AtRate(asset, tx) == BankToken(asset, (asset.amount * RateUnit) \div tx.told)

\* The rows of a deposit and of a withdrawal, and what the cost basis makes of them.
Deposit(asset, token, fee) == Then(ExportDepositCollateral(asset, fee), TrackDeposit(asset, token))

Withdraw(tracker, token, asset, fee) ==
  Then(ExportWithdrawCollateral(asset, fee), TrackWithdraw(tracker, token, asset, fee))

Borrow(tx, fee) == ExportBorrow(InnerAsset(tx), fee)

=============================================================================
