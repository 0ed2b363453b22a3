--------------------------------- MODULE SolTx ---------------------------------
(***************************************************************************)
(* A Solana transaction as the RPC node tells it, and what the report      *)
(* makes of it (sol/parser.py, sol/util_sol.py).                           *)
(*                                                                         *)
(* The unit of every amount is 5000 lamports, the price of one signature,  *)
(* so that the thresholds of the code are whole numbers.  `sol` has the    *)
(* change of every account of the transaction, `tokens` those of token     *)
(* accounts, `links` the accounts that the source side of an instruction   *)
(* names, and `inner` the transfers inside of it.                          *)
(***************************************************************************)
EXTENDS Integers, Sequences, FiniteSets, SequencesExt

CONSTANTS
  Wallet,        \* the account reported on
  StakeAccounts, \* accounts owned by the stake program
  TokenAccounts  \* the token accounts that are still open: [account -> [token account -> currency]]

Sol   == "SOL"
StSol == "stSOL"

\* One SOL or token; then FEE_THRESHOLD, SOL_DUST_AIRDROP_THRESHOLD and the like.
One           == 200000
FeeThreshold  == 6000
DustAirdrop   == 4
TinyLeg       == 20
SmallStakeFee == 2000
SmallRefund   == 20000
SaneFee       == 100000

\* Python's "" of a fee; an amount that is not there.
NoFee == -1
None  == [amount |-> 0, currency |-> "none"]

Leg(amount, currency) == [amount |-> amount, currency |-> currency]

Amounts(legs, currency) ==
  FoldLeft(LAMBDA sum, leg : IF leg.currency = currency THEN sum + leg.amount ELSE sum, 0, legs)

Currencies(legs) == {legs[k].currency : k \in DOMAIN legs}

-----------------------------------------------------------------------------
\* What of a transaction is the wallet's (w is the wallet or a stake account).

Open(w) == IF w \in DOMAIN TokenAccounts THEN TokenAccounts[w] ELSE <<>>

\* _instruction_accounts: in one pass, so what a later instruction links is not
\* there for the earlier ones.
WalletAccounts(tx, w) ==
  LET Connect(accounts, link) == IF accounts \cap link = {} THEN accounts ELSE accounts \cup link
  IN  FoldLeft(Connect, {w}, tx.links) \cup DOMAIN Open(w)

\* _balance_changes: what a token account has of a token replaces what it has of SOL.
BalanceChanges(tx) ==
  LET TokenOf(account) == SelectSeq(tx.tokens, LAMBDA c : c.account = account)
      sol   == SelectSeq(tx.sol, LAMBDA c : c.amount # 0)
      known == {sol[k].account : k \in DOMAIN sol}
  IN  [k \in DOMAIN sol |-> LET token == TokenOf(sol[k].account) IN IF token = <<>> THEN sol[k] ELSE token[1]]
        \o SelectSeq(tx.tokens, LAMBDA c : c.account \notin known)

WalletChanges(tx, w) ==
  LET own == WalletAccounts(tx, w)
  IN  SelectSeq(BalanceChanges(tx), LAMBDA c : c.account \in own)

TransfersIn(tx, w) == SelectSeq(WalletChanges(tx, w), LAMBDA c : c.amount > 0)

TransfersOut(tx, w) ==
  LET down == SelectSeq(WalletChanges(tx, w), LAMBDA c : c.amount < 0)
  IN  [k \in DOMAIN down |-> [down[k] EXCEPT !.amount = -@]]

-----------------------------------------------------------------------------
\* The currency that _mints knows an account for.

KnownCurrency(tx, w, account) ==
  LET token == SelectSeq(tx.tokens, LAMBDA c : c.account = account)
  IN  IF account = w THEN Sol
      ELSE IF token # <<>> THEN token[1].currency
      ELSE IF account \in DOMAIN Open(w) THEN Open(w)[account]
      ELSE "none"

\* _transfers_instruction: the transfers inside, by the accounts that they name.
InnerTransfers(tx, w) ==
  LET own == WalletAccounts(tx, w)
      Of(t) == IF t.lamports THEN Sol
               ELSE LET ids == SelectSeq(<<KnownCurrency(tx, w, t.source), KnownCurrency(tx, w, t.destination)>>,
                                         LAMBDA c : c \notin {"none", Sol})
                    IN  IF ids = <<>> THEN Sol ELSE ids[1]
      Counted(t) == t.type = "transfer" /\ t.source # t.destination /\ t.amount # 0
      IsOut(t) == {t.source, t.authority} \cap own # {}
      IsIn(t)  == ~IsOut(t) /\ t.destination \in own
      AsLeg(t) == [amount |-> t.amount, currency |-> Of(t), source |-> t.source, destination |-> t.destination]
      Legs(ts) == [k \in DOMAIN ts |-> AsLeg(ts[k])]
  IN  [in  |-> Legs(SelectSeq(tx.inner, LAMBDA t : Counted(t) /\ IsIn(t))),
       out |-> Legs(SelectSeq(tx.inner, LAMBDA t : Counted(t) /\ IsOut(t)))]

-----------------------------------------------------------------------------
\* Fees.

IsSmall(leg) == leg.currency = Sol /\ leg.amount < FeeThreshold
SmallOut(outs) == SelectSeq(outs, IsSmall)

\* detect_fees: every small SOL out is taken for the fee, and the last one stays.
WithoutFees(outs) == SelectSeq(outs, LAMBDA leg : ~IsSmall(leg))
DetectedFee(outs) == IF SmallOut(outs) = <<>> THEN NoFee ELSE Last(SmallOut(outs)).amount

\* _transfers_net nets the currencies, and then hands the lists as they were to
\* detect_fees: what is called net is not.
TransfersNet(ins, outs) == [in |-> ins, out |-> WithoutFees(outs), fee |-> DetectedFee(outs)]

\* parse_tx; lp_transfers_net is the same of the transfers inside.
Parsed(tx, w) ==
  LET ins   == TransfersIn(tx, w)
      outs  == TransfersOut(tx, w)
      net   == TransfersNet(ins, outs)
      inner == InnerTransfers(tx, w)
      lp    == TransfersNet(inner.in, inner.out)
  IN  [tx |-> tx, wallet |-> w, gas |-> tx.gas, fee |-> net.fee, rawIn |-> ins, rawOut |-> outs,
       in |-> net.in, out |-> net.out, lpIn |-> lp.in, lpRawOut |-> inner.out, lpOut |-> lp.out]

CalculateFee(t) ==
  LET small == Amounts(SmallOut(t.rawOut), Sol)
  IN  IF small > 0 THEN small ELSE t.gas

\* Mutant: the fee stays what detect_fees has taken for it.
ResetFee_Kept(t) == t

\* reset_fee_to_gas.
ResetFee(t) == [t EXCEPT !.fee = t.gas]

\* swap_legs_from_raw: what moved of a currency, the price of the transaction apart.
NetOf(t, currency) ==
  Amounts(t.rawIn, currency) - Amounts(t.rawOut, currency) + (IF currency = Sol THEN t.gas ELSE 0)

RawLegs(t) ==
  LET moved == Currencies(t.rawIn) \cup Currencies(t.rawOut)
  IN  [in  |-> {Leg(NetOf(t, c), c) : c \in {m \in moved : NetOf(t, m) > 0}},
       out |-> {Leg(-NetOf(t, c), c) : c \in {m \in moved : NetOf(t, m) < 0}}]

HasTwoLegs(t) == LET legs == RawLegs(t) IN Cardinality(legs.in) = 1 /\ Cardinality(legs.out) = 1

\* net_sol_movement_from_raw.
NetSol(t) == NetOf(t, Sol)

=============================================================================
