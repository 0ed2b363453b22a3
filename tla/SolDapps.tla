-------------------------------- MODULE SolDapps --------------------------------
(***************************************************************************)
(* The handlers of the programs that a Solana transaction calls            *)
(* (sol/handle_*.py), those of Jupiter's orders apart.  The lists of a     *)
(* balance change have no transfers of unknown direction, so what the code *)
(* does with transfers_unknown is never done.                              *)
(***************************************************************************)
EXTENDS SolRows

CONSTANT Overrides \* settings_csv.SOL_OVERRIDES: [txid -> "fiat_sale" or "fiat_buy"]

Says(t, log) == log \in t.tx.logs

HandleWormhole(t) ==
  IF Empty(t) THEN Simple(t, "noop")
  ELSE IF OnlyIn(t) THEN TransferIn(t, t.in[1])
  ELSE IF OnlyOut(t) THEN TransferOut(t, t.out[1])
  ELSE HandleUnknownDetectTransfers(t)

\* Of two legs the first that is tiny is left out.
WithoutTiny(legs) ==
  LET tiny == {k \in DOMAIN legs : legs[k].amount < TinyLeg}
  IN  IF Len(legs) # 2 \/ tiny = {} THEN legs ELSE RemoveAt(legs, CHOOSE k \in tiny : \A j \in tiny : k <= j)

HandleProgramSwapV2(t) ==
  IF Says(t, "Swap")
  THEN LET cleaned == [t EXCEPT !.in = WithoutTiny(@), !.out = WithoutTiny(@)]
       IN  SwapOr(cleaned, HandleUnknown(t))
  ELSE HandleUnknown(t)

\* One row per leg if there is no swap.
HandleSerumV3(t) ==
  SwapOr(t, IF Empty(t) THEN Simple(t, "serum_dex")
            ELSE FeeFirst(t, [k \in DOMAIN t.in |-> Row("serum_dex", None, t.in[k], t.fee)]
                               \o [k \in DOMAIN t.out |-> Row("serum_dex", t.out[k], None, t.fee)]))

\* Marinade and Metaplex, and the two unknown programs.
SwapOrTransfers(t) == IF OneForOne(t) THEN SwapOfNet(t) ELSE HandleUnknownDetectTransfers(t)
HandleAsSwap(t)    == IF Says(t, "Swap") /\ OneForOne(t) THEN SwapOfNet(t) ELSE HandleUnknown(t)

IsMarinadeNative(t) == t.tx.staker = "marinade"

\* Pump.fun, the routes of Raydium and OKX.
HandleRoute(t) == SwapOr(t, HandleUnknownDetectTransfers(t))

\* Orca: a second small receipt is left out.
HandleOrcaSwapV2(t) ==
  LET two == Len(t.in) = 2 /\ Len(t.out) = 1
  IN  IF two /\ IsSmall(t.in[1]) THEN Swap(t, t.out[1], t.in[2])
      ELSE IF two /\ t.in[2].currency = StSol /\ t.in[2].amount < TinyLeg THEN Swap(t, t.out[1], t.in[1])
      ELSE HandleRoute(t)

\* A bet or a win; one too small to be a transfer is rebuilt from the raw transfers.
HandleDegenCrash(t) ==
  LET reset == ResetFee(t)
  IN  IF OnlyIn(t) THEN Received(t, "income", t.in[1])
      ELSE IF OnlyOut(t) THEN Sent(t, "spend", t.out[1])
      ELSE IF NetSol(t) < 0 THEN Sent(reset, "spend", Leg(-NetSol(t), Sol))
      ELSE IF NetSol(t) > 0 THEN Received(reset, "income", Leg(NetSol(t), Sol))
      ELSE HandleUnknownDetectTransfers(reset)

\* Burnt tokens without a fee, then the rent that comes back.
HandleTokenClose(t) ==
  LET burnt == [k \in DOMAIN t.tx.burns |-> Row("spend", t.tx.burns[k], None, NoFee)]
  IN  IF OnlyIn(t) THEN Result(t, Append(burnt, Row("gift", None, t.in[1], t.fee)))
      ELSE IF burnt = <<>> THEN HandleUnknownDetectTransfers(t)
      ELSE Result(t, burnt)

-----------------------------------------------------------------------------
\* Raydium.

\* The tokens of the pool, half of them to each of two rows.
Halved(leg) == [leg EXCEPT !.amount = @ \div 2]

LpDeposit(t, out) ==
  IF t.tx.mintTo = <<>> THEN Fail(t)
  ELSE FeeFirst(t, [k \in DOMAIN out |-> Row("lp_deposit", out[k], Halved(t.tx.mintTo[1]), t.fee)])

LpWithdraw(t, in, out) == FeeFirst(t, [k \in DOMAIN in |-> Row("lp_withdraw", Halved(out[1]), in[k], t.fee)])

HandleRaydiumLp(t) ==
  LET in  == IF Empty(t) THEN t.lpIn ELSE t.in
      out == IF Empty(t) THEN t.lpOut ELSE t.out
      known == {"process_swap:", "process_swap_base_in:"} \cap t.tx.log # {}
  IN  IF Says(t, "MintTo") /\ Len(in) = 1 /\ Len(out) = 2 THEN LpDeposit(t, out)
      ELSE IF Says(t, "Burn") /\ Len(in) = 2 /\ Len(out) = 1 THEN LpWithdraw(t, in, out)
      ELSE IF Len(in) = 1 /\ Len(out) = 1 /\ (known \/ Sol \in Currencies(in \o out)) THEN Swap(t, out[1], in[1])
      ELSE HandleUnknown(t)

\* Staking: by the transfers inside, the first small SOL of which is left out.
HandleRaydiumStake(t) ==
  LET small == {k \in DOMAIN t.lpRawOut : t.lpRawOut[k].currency = Sol /\ t.lpRawOut[k].amount < SmallStakeFee}
      out == IF small = {} THEN t.lpRawOut ELSE RemoveAt(t.lpRawOut, CHOOSE k \in small : \A j \in small : k <= j)
      in  == t.lpIn
      zero == {"withdraw reward: 0", "process_deposit amount: 0"} \cap t.tx.log # {}
      IsReward(leg) == (leg.source = "rewards" /\ leg.destination = "user rewards") \/ leg.amount \in t.tx.rewards
      staked == IF Says(t, "Deposit") THEN [k \in DOMAIN out |-> Row("stake", out[k], None, t.fee)] ELSE <<>>
      taken  == IF "withdraw reward" \in t.tx.log \/ Says(t, "Withdraw")
                THEN [k \in DOMAIN in |-> Row(IF IsReward(in[k]) THEN "reward" ELSE "unstake", None, in[k], t.fee)]
                ELSE <<>>
  IN  IF t.tx.calls = 0 THEN Fail(t)
      ELSE IF in = <<>> /\ out = <<>> /\ (zero \/ (t.tx.logs = {} /\ t.tx.log = {})) THEN Simple(t, "reward_zero")
      ELSE IF staked \o taken = <<>> THEN HandleUnknown(t)
      ELSE Result(t, staked \o taken)

-----------------------------------------------------------------------------
\* Saber.

HandleSaber(t) == IF Says(t, "Swap") THEN HandleRoute(t) ELSE HandleUnknownDetectTransfers(t)

\* Of a deposit of two tokens the last row has the fee.
HandleSaberStableSwap(t) ==
  IF {"Deposit", "MintTo"} \subseteq t.tx.logs /\ OneForOne(t) THEN Exchange(t, "lp_deposit", t.out[1], t.in[1])
  ELSE IF {"Deposit", "MintTo"} \subseteq t.tx.logs /\ Len(t.out) = 2 /\ Len(t.in) = 1
  THEN Result(t, [k \in 1 .. 2 |-> Row("lp_deposit", t.out[k], None, NoFee)]
                   \o <<Row("lp_deposit", None, t.in[1], t.fee)>>)
  ELSE HandleUnknownDetectTransfers(t)

HandleSaberFarm(t) ==
  IF Empty(t) /\ t.tx.logs = {"InitializeAccount"} THEN Simple(t, "init_account")
  ELSE HandleUnknownDetectTransfers(t)

-----------------------------------------------------------------------------
\* Jupiter.

\* SOL that is sold or bought pays the fee of its own transaction.
WithGas(t) == IF t.fee = NoFee THEN ResetFee(t) ELSE t

HandleJupiterAggregator(t) ==
  IF OneForOne(t)
  THEN LET sent == t.out[1]  received == t.in[1]
       IN  IF sent.currency = Sol
           THEN Swap(WithGas(t), IF t.fee = NoFee THEN [sent EXCEPT !.amount = @ - t.gas] ELSE sent, received)
           ELSE IF received.currency = Sol THEN Swap(WithGas(t), sent, received)
           ELSE Swap(t, sent, received)
  ELSE IF OnlyIn(t) /\ t.fee = NoFee THEN Fail(t)   \* "" > float
  ELSE IF OnlyIn(t) /\ t.fee > t.gas
  THEN Result(t, <<Row("swap", Leg(t.fee, Sol), t.in[1], NoFee)>>)
  ELSE IF HasTwoLegs(t) THEN SwapOfRaw(t) ELSE HandleUnknownDetectTransfers(t)

HandleWenAirdrop(t) ==
  IF OnlyIn(t) /\ Says(t, "NewClaim") THEN Received(t, "airdrop", t.in[1]) ELSE HandleUnknownDetectTransfers(t)

\* Rows of the raw transfers: those in clear the fee of those out.
RawTransfers(t) ==
  LET left == IF t.rawIn = <<>> THEN t ELSE Cleared(t)
  IN  Result(left, [k \in DOMAIN t.rawIn |-> Row("transfer", None, t.rawIn[k], NoFee)]
                     \o [k \in DOMAIN t.rawOut |-> Row("transfer", t.rawOut[k], None, left.fee)])

InRange(t) == ~(t.rawIn = <<>> /\ t.rawOut = <<>>) /\ Len(t.rawIn) <= 2 /\ Len(t.rawOut) <= 2

\* The gain of a position is in dollars, and told beside the transfers.
GainRow(t) ==
  LET gain == Leg(t.tx.pnl[1], "USD")
  IN  IF gain.amount >= 0 THEN Row("pnl", None, gain, t.fee) ELSE Row("pnl", [gain EXCEPT !.amount = -@], None, t.fee)

HandleJupiterPerp(t) ==
  LET moves == RawTransfers(t)
      known == {"IncreasePosition", "DecreasePosition", "ClosePosition"} \cap t.tx.logs
  IN  IF known = {} THEN HandleUnknownDetectTransfers(t)
      ELSE IF ~InRange(t) THEN Fail(t)
      ELSE IF Says(t, "DecreasePosition") /\ ~Says(t, "IncreasePosition") /\ t.tx.pnl # <<>>
      THEN [moves EXCEPT !.rows = Append(@, GainRow(moves.t))]
      ELSE moves

-----------------------------------------------------------------------------
\* NFTs, staking accounts and plain transfers.

HandleNftExchange(t) ==
  IF OneForOne(t) /\ One \in {t.in[1].amount, t.out[1].amount} THEN SwapOfNet(t) ELSE HandleUnknownDetectTransfers(t)

IsNftMint(t) == Says(t, "MintTo") /\ (OnlyOut(t) \/ (OneForOne(t) /\ t.in[1].amount = One))

\* Only of a transaction of a staking account; whether it is one is asked last.
AsksIfStaking(t) == Len(t.in) = 1 /\ Says(t, "Claim")
HandleClaimStakingTip(t, isStaking) ==
  IF AsksIfStaking(t) /\ isStaking /\ t.in[1].currency = Sol THEN Received(t, "reward", t.in[1]) ELSE Fail(t)

\* What a vote account pays out is in its own instruction.
HandleVote(t) ==
  IF Len(t.tx.types) = 1 /\ t.tx.types[1][1] = "withdraw" /\ t.tx.paidTo \in WalletAccounts(t.tx, t.wallet)
  THEN TransferIn(t, Leg(t.tx.paid, Sol)) ELSE HandleUnknownDetectTransfers(t)

StakeTypes == {"deactivate", "withdraw", "split", "delegate", "initialize"}
IsSimpleTx(t) == \E k \in DOMAIN t.tx.types :
  t.tx.types[k] \in (StakeTypes \X {"stake"}) \cup {<<"createAccountWithSeed", "system">>}

IsInitAccountTx(t) ==
  \/ Len(t.tx.types) = 1 /\ t.tx.types[1][2] = "spl-associated-token-account"
  \/ /\ Empty(t) /\ t.tx.types # <<>>
     /\ \A k \in DOMAIN t.tx.types : t.tx.types[k][1] \in {"createAccount", "initialize", "initializeAccount"}

IsCloseAccountTx(t) == t.tx.types = <<<<"closeAccount", "spl-token">>>>

IsTransfer(t) ==
  LET types == ToSet(t.tx.types)
  IN  \/ \E type \in types : type[1] \in {"transferCheck", "transferChecked"}
      \/ /\ Says(t, "Transfer") \/ <<"transfer", "system">> \in types
         /\ t.tx.logs \subseteq {"Transfer", "InitializeAccount", "CloseAccount", "transfer", "system"}

\* A transfer out of SOL pays for itself; another side may be known from elsewhere.
HandleTransfer(t) ==
  LET override == IF t.tx.id \in DOMAIN Overrides THEN Overrides[t.tx.id] ELSE "none"
      euros    == Leg(One, "EUR")
      pays     == OnlyOut(t) /\ t.out[1].currency = Sol /\ t.fee = NoFee
      priced   == IF pays THEN ResetFee(t) ELSE t
      sent     == IF pays THEN [t.out[1] EXCEPT !.amount = @ - t.gas] ELSE t.out[1]
      received == t.in[1]
  IN  IF OnlyOut(t) THEN IF override = "fiat_sale" THEN Swap(priced, sent, euros) ELSE TransferOut(priced, sent)
      ELSE IF ~OnlyIn(t) THEN Fail(t)
      ELSE IF override = "fiat_buy" THEN Swap(t, euros, received)
      ELSE IF received.currency = Sol /\ received.amount < DustAirdrop THEN Received(t, "airdrop", received)
      ELSE TransferIn(t, received)

=============================================================================
