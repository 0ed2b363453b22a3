------------------------------- MODULE AlgoRows -------------------------------
(***************************************************************************)
(* The rows of an Algorand report (algo/export_tx.py).  A handler gives a  *)
(* result: the rows it added, the entries it pushed on its cost basis, the *)
(* accounts it noted, and whether it came to its end.  What it did before  *)
(* an exception stays.                                                     *)
(***************************************************************************)
EXTENDS AlgoTx, SequencesExt

Row(kind, out, in, fee) == [kind |-> kind, out |-> out, in |-> in, fee |-> fee]

Rows(rows) == [rows |-> rows, pushed |-> <<>>, noted |-> {}, ok |-> TRUE]
Nothing    == Rows(<<>>)
Fail       == [Nothing EXCEPT !.ok = FALSE]

\* r, and then s if r raised nothing.
Then(r, s) ==
  IF r.ok THEN [rows |-> r.rows \o s.rows, pushed |-> r.pushed \o s.pushed,
                noted |-> r.noted \cup s.noted, ok |-> s.ok]
  ELSE r

\* The results of a sequence of handlers, up to the first that raises.
InTurn(results) ==
  LET wrong == {k \in DOMAIN results : ~results[k].ok}
      last  == IF wrong = {} THEN Len(results) ELSE Min(wrong)
  IN  [rows   |-> FlattenSeq([k \in 1 .. last |-> results[k].rows]),
       pushed |-> FlattenSeq([k \in 1 .. last |-> results[k].pushed]),
       noted  |-> UNION {results[k].noted : k \in 1 .. last},
       ok     |-> wrong = {}]

UnknownResult  == Rows(<<Row("unknown", None, None, 0)>>)
ExcludedResult == Rows(<<Row("excluded", None, None, 0)>>)

\* exclude_tx around a function that uses all of the assets.
Export(assets, result) ==
  IF Raised \in assets THEN Fail
  ELSE IF \E a \in assets : a.id \in Excluded THEN ExcludedResult
  ELSE IF None \in assets THEN Fail ELSE result

\* exclude_lp_tx: the tokens of a pool are excluded with its own.
LpExcluded(a) == IsLpToken(a) /\ LpTokens[a.id] \cap Excluded # {}
ExportLp(a, result) == Export({a}, IF LpExcluded(a) THEN ExcludedResult ELSE result)

Spent(a) == Row("spend", a, None, 0)
Sent(kind, a, fee) == Rows(<<Row(kind, a, None, fee)>>)
Received(kind, a, fee) == Rows(<<Row(kind, None, a, fee)>>)
NonZero(a, result) == IF Zero(a) THEN Nothing ELSE result

ExportSpendFee(a) == IF a = Raised THEN Fail ELSE Rows(<<Spent(a)>>)

ExportSend(a, fee) ==
  Export({a}, IF ~Zero(a) THEN Sent("transfer", a, fee)
              ELSE IF fee > 0 THEN Rows(<<Spent(Asset(Algo, fee))>>) ELSE Nothing)

ExportReceive(a, fee) == ExportLp(a, NonZero(a, Received("transfer", a, fee)))

ExportReward(a, fee) == Export({a}, NonZero(a, Received("reward", a, fee)))

ExportParticipation(amount) == ExportReward(Asset(Algo, amount), 0)

ExportSwap(out, in, fee) == Export({out, in}, Rows(<<Row("swap", out, in, fee)>>))

ExportLpStake(a, fee)   == ExportLp(a, Sent("lp_stake", a, fee))
ExportLpUnstake(a, fee) == ExportLp(a, Received("lp_unstake", a, fee))

ExportStake(a, fee) ==
  Export({a}, IF IsLpToken(a) THEN ExportLpStake(a, fee) ELSE Sent("stake", a, fee))
ExportUnstake(a, fee) ==
  Export({a}, IF IsLpToken(a) THEN ExportLpUnstake(a, fee) ELSE Received("unstake", a, fee))

ExportDepositCollateral(a, fee)  == Export({a}, Sent("deposit_collateral", a, fee))
ExportWithdrawCollateral(a, fee) == Export({a}, Received("withdraw_collateral", a, fee))

ExportAirdrop(a, fee) == Export({a}, Received("airdrop", a, fee))
ExportBorrow(a, fee)  == Export({a}, Received("borrow", a, fee))
ExportRepay(a, fee)   == Export({a}, Sent("repay", a, fee))
ExportLiquidate(out, in, fee) == Export({out, in}, Rows(<<Row("liquidate", out, in, fee)>>))

\* Halves are exact in the code: the instances use even amounts and fees.
Half(a) == [a EXCEPT !.amount = a.amount \div 2]

\* Around the two functions for pools, which first need the tokens of the pool.
ExportPool(lp, assets, result) ==
  IF lp \in {None, Raised} \/ Raised \in assets THEN Fail
  ELSE IF ~IsLpToken(lp) THEN UnknownResult
  ELSE IF \E a \in assets \cup {lp} : a.id \in Excluded THEN ExcludedResult ELSE result

\* A deposit of one asset, or of two in two rows.
ExportLpDeposit(a, b, lp, fee) ==
  ExportPool(lp, {a, b},
             IF a = None THEN Fail
             ELSE IF b = None THEN Rows(<<Row("lp_deposit", a, lp, fee)>>)
             ELSE Rows(<<Row("lp_deposit", a, Half(lp), fee \div 2), Row("lp_deposit", b, Half(lp), fee \div 2)>>))

ExportLpWithdraw(lp, a, b, fee) ==
  ExportPool(lp, {a, b},
             IF a = None THEN Fail
             ELSE IF b = None THEN Rows(<<Row("lp_withdraw", lp, a, fee)>>)
             ELSE Rows(<<Row("lp_withdraw", Half(lp), a, fee \div 2), Row("lp_withdraw", Half(lp), b, fee \div 2)>>))

=============================================================================
