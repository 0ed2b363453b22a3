------------------------------- MODULE MCCosmos --------------------------------
(***************************************************************************)
(* Reports of up to two transactions of up to two messages, for every      *)
(* chain that has messages of its own and one that has not, and histories  *)
(* of up to six messages of Osmosis.                                       *)
(***************************************************************************)
EXTENDS CosmosProcessing

In(amt, cur)  == Flow("x", "w", amt, cur)
Out(amt, cur) == Flow("w", "x", amt, cur)
Itself        == Flow("w", "w", 1, "A")
Others        == Flow("x", "x", 1, "A")

Msg(type, flows, flags) ==
  [type |-> type, flows |-> flows, modern |-> TRUE, flags |-> flags, nonce |-> 0, subs |-> <<>>, event |-> NoEvent]
Legacy(m)   == [m EXCEPT !.modern = FALSE]
Wraps(subs) == [Msg("MsgExec", <<>>, {}) EXCEPT !.subs = subs]

Rewards   == <<In(1, "A"), In(2, "B"), Out(3, "A")>>
TwoCoins  == <<Out(1, "A"), Out(2, "B")>>
InAndBack == <<In(2, "A"), Out(2, "A")>>
Swap      == <<Out(2, "A"), In(1, "B")>>
Change    == <<Out(3, "A"), In(1, "A"), In(1, "B")>>

Tx(ms, f) == [failed |-> FALSE, fee |-> f, logs |-> TRUE, msgs |-> ms]

Pairs(S, T) == {<<a, b>> : a \in S, b \in T}

Delegations == {Msg("MsgDelegate", f, {}) : f \in {<<>>, <<Out(3, "A")>>, Rewards}}

Usual ==
  Delegations \cup
  {Msg("MsgVote", <<>>, {}), Msg("MsgDeposit", <<Out(1, "A")>>, {}), Msg("MsgDeposit", TwoCoins, {}),
   Msg("MsgDelegate", Rewards, {"broken"}), Msg("MsgGrant", <<>>, {}), Msg("MsgTimeout", <<>>, {}),
   Msg("MsgExec", Rewards, {"staking"}), Msg("MsgExec", <<>>, {"staking"}), Msg("MsgExec", <<>>, {}),
   Msg("MsgExec", <<>>, {"broken"}),
   Msg("MsgSend", <<Itself>>, {"self"}), Msg("MsgVote", <<>>, {"null"})}
  \cup {Msg("MsgSend", f, {}) : f \in {<<In(1, "A")>>, <<Out(1, "A")>>, TwoCoins}}
  \cup {Msg("MsgTransfer", f, {}) : f \in {<<Others>>, InAndBack, Change}}
  \cup {Msg("MsgMultiSend", f, {}) : f \in {<<Out(1, "A")>>, Change}}
  \cup {Legacy(Msg("MsgMultiSend", <<Out(1, "A")>>, {})), Legacy(Msg("MsgOther", Swap, {}))}
  \cup {Msg("MsgOther", f, {}) : f \in {<<>>, Swap, InAndBack, Change}}

Claim(nonce, flags) == [Msg("MsgDepositClaim", <<In(1, "A")>>, flags) EXCEPT !.nonce = nonce]

Own(c) ==
  CASE c = "strd"  -> {Msg("MsgLiquidStake", f, {}) :
                         f \in {Swap, <<Out(2, "A"), In(1, "B"), In(1, "STRD")>>, <<In(1, "A")>>, Change}}
                      \cup {Msg("MsgClaimFreeAmount", <<In(1, "STRD")>>, {})}
    [] c = "inj"   -> {Claim(1, {}), Claim(2, {}), Claim(1, {"foreign"}), Claim(1, {"broken"}),
                       Msg("MsgSendToEth", <<Out(1, "A")>>, {}), Msg("MsgSendToEth", <<Out(1, "A")>>, {"broken"})}
    [] c = "dym"   -> {Msg("MsgEthereumTx", f, {}) : f \in {<<In(1, "A")>>, <<Out(1, "A")>>, Swap, Change}}
    [] c = "stars" -> {Msg("MsgInitialClaim", f, {}) : f \in {<<In(1, "A")>>, <<>>}}
    [] c = "ntrn"  -> {Msg("MsgExecuteContract", f, {"astroport"}) : f \in {Swap, Change}}
                      \cup {Msg("MsgExecuteContract", <<>>, {e}) : e \in {"vote", "broken"}}
                      \cup {Msg("MsgExecuteContract", <<Out(1, "A")>>, {})}
    [] c = "dvpn"  -> {Msg("MsgStart", <<>>, {}), Msg("MsgSubscribeToNode", <<Out(1, "A")>>, {}),
                       Msg("MsgSubscribeToNode", <<>>, {})}
    [] OTHER       -> {Msg("MsgExecuteContract", f, {}) : f \in {Swap, <<>>}}

-----------------------------------------------------------------------------
\* Osmosis: locks are 1 and 2, orders 11 and up, positions 21 and up.

C(amt, cur) == [amt |-> amt, cur |-> cur]
Leg(does, id, recv, sent) == [does |-> does, id |-> id, recv |-> recv, sent |-> sent]

Event(type, flows, flags, id, from, liquidity, legs) ==
  [Msg(type, flows, flags) EXCEPT !.event = [id |-> id, from |-> from, liquidity |-> liquidity, legs |-> legs]]

RewardA   == <<Leg("reward", 0, C(1, "A"), NoCoin)>>
RewardB   == <<Leg("reward", 0, C(1, "B"), NoCoin)>>
Join      == TwoCoins \o <<In(2, "G")>>
Leave     == <<Out(2, "G"), In(1, "A"), In(2, "B")>>
Migration == <<In(2, "G"), Out(2, "G"), In(3, "A"), In(3, "B"), Out(1, "A"), Out(2, "B")>>

Lock(id, amt)   == Event("MsgLockTokens", <<Out(amt, "G")>>, {}, id, 0, 0, <<>>)
Super(id, amt)  == Event("MsgLockAndSuperfluidDelegate", <<Out(amt, "G")>>, {}, id, 0, 0, <<>>)
Begin(id)       == Event("MsgBeginUnlocking", <<>>, {}, id, 0, 0, <<>>)
Unlock(id, amt) == Event("MsgUnlockPeriodLock", <<In(amt, "G")>>, {}, id, 0, 0, <<>>)
Create(flows, id, l) == Event("MsgCreatePosition", flows, {}, id, 0, l, <<>>)
AddTo(flows, id, from, l, legs) == Event("MsgAddToPosition", flows, {}, id, from, l, legs)
Withdraw(flows, id, l) == Event("MsgWithdrawPosition", flows, {}, id, 0, l, <<>>)
Migrate(flows, legs) ==
  Event("MsgUnlockAndMigrateSharesToFullRangeConcentratedPosition", flows, {}, 22, 1, 6, legs)
Call(how, flows)         == Event("MsgExecuteContract", flows, {how}, 0, 0, 2, <<>>)
Order(how, flows, id)    == Event("MsgExecuteContract", flows, {how}, id, 0, 0, <<>>)
CallLegs(how, flows, ls) == Event("MsgExecuteContract", flows, {how}, 0, 0, 0, ls)

OsmoSingles ==
  {Event("MsgSwapExactAmountIn", f, {}, 0, 0, 0, legs) : f \in {Swap, Change, Swap \o <<In(1, "A")>>, <<Out(1, "A")>>}, legs \in {<<>>, RewardA}}
  \cup {Event("MsgJoinPool", f, {}, 0, 0, 0, legs) : f \in {Join, Join \o <<In(1, "A")>>, Swap}, legs \in {<<>>, RewardA}}
  \cup {Event("MsgExitPool", f, {}, 0, 0, 0, legs) : f \in {Leave, Leave \o <<In(1, "B")>>, Swap}, legs \in {<<>>, RewardB}}
  \cup {Msg("MsgJoinSwapExternAmountIn", f, {}) : f \in {<<Out(1, "A"), In(2, "G")>>, Join}}
  \cup {Lock(1, 2), Super(1, 2), Begin(1), Unlock(1, 2), Event("MsgLockTokens", Swap, {}, 1, 0, 0, <<>>)}
  \cup {Msg("MsgSuperfluidDelegate", <<>>, {}), Msg("MsgAddAuthenticator", <<>>, {})}
  \cup {Msg("MsgSuperfluidUndelegate", f, {}) : f \in {<<>>, <<In(1, "A")>>}}
  \cup {Create(f, 21, 6) : f \in {<<>>, <<Out(1, "A")>>, TwoCoins, TwoCoins \o <<In(1, "STRD")>>}}
  \cup {AddTo(TwoCoins, 22, 21, 6, <<>>), AddTo(TwoCoins \o <<In(1, "STRD")>>, 22, 21, 6, <<Leg("reward", 0, C(1, "STRD"), NoCoin)>>),
         AddTo(<<In(1, "A")>>, 22, 21, 6, <<>>)}
  \cup {Msg("MsgCollectIncentives", f, {}) : f \in {<<>>, <<In(1, "A"), In(1, "B")>>, Swap}}
  \cup {Withdraw(f, 21, 6) : f \in {<<>>, <<In(1, "A")>>, <<In(1, "A"), In(1, "B"), In(1, "STRD")>>, Swap}}
  \cup {Migrate(f, legs) : f \in {Migration, SubSeq(Migration, 3, 6), SubSeq(Migration, 1, 4), SubSeq(Migration, 5, 6)},
                           legs \in {<<>>, <<Leg("shares", 0, NoCoin, C(2, "G"))>>}}

OsmoCalls ==
  {Call(how, f) : how \in {"liquid", "icns", "quasar", "price_feeds", "deposit_perps", "claim_yield", "unstake_perps", "withdraw_perps",
                           "mars_rewards", "lend", "reclaim", "repay", "borrow", "create_credit", "repay_credit", "broken"},
                  f \in {<<>>, <<In(1, "A")>>, <<Out(1, "A")>>, Swap, <<In(1, "A"), In(1, "B")>>}}
  \cup {CallLegs("update_credit", <<Out(1, "A")>>, legs) :
          legs \in {<<Leg("told", 0, NoCoin, NoCoin), Leg("borrow", 0, C(1, "B"), NoCoin), Leg("repay", 0, NoCoin, C(1, "A"))>>,
                    <<Leg("swap", 0, C(1, "B"), C(1, "A")), Leg("other", 0, NoCoin, NoCoin)>>,
                    <<Leg("borrow", 0, C(1, "A"), NoCoin), Leg("borrow", 0, C(2, "B"), NoCoin), Leg("eventless", 0, NoCoin, NoCoin)>>}}
  \cup {Order(how, f, 11) : how \in {"submit_order", "execute_order", "cancel_order", "place_limit", "cancel_limit"},
                            f \in {<<Out(2, "A")>>, <<In(1, "B")>>}}
  \cup {CallLegs("claim_limit", f, <<Leg("foreign", 99, C(9, "B"), C(9, "A")), Leg("own", 11, C(1, "B"), C(2, "A"))>>) :
          f \in {<<In(1, "B")>>, <<Out(1, "A")>>}}

OsmoExecs == {Event("MsgExec", <<Out(2, "G")>>, {"lock"}, 1, 0, 0, <<>>), Msg("MsgExec", Swap, {"join"}), Msg("MsgExec", Join, {"join"}),
              Msg("MsgExec", Rewards, {"staking"}), Msg("MsgExec", Swap, {}), Msg("MsgExec", <<>>, {"broken"})}

Sent2(cur) == Msg("MsgSend", <<Out(2, cur)>>, {})

\* Locks of two kinds, which end in another order, and one that another message runs.
LockHistories ==
  {<<Lock(1, 2), second, Begin(2), Begin(1), Unlock(1, 2), Unlock(2, 4)>> :
     second \in {Lock(2, 4), Super(2, 4), Event("MsgExec", <<Out(4, "G")>>, {"lock"}, 2, 0, 0, <<>>)}}
  \cup {<<Lock(1, 2), Begin(1), Begin(1), Sent2("A"), Unlock(1, 2)>>}

\* Two orders at a time, which are executed, filled in parts, claimed with those of
\* others or cancelled.
OrderHistories ==
  {<<Order("submit_order", <<Out(2, "A")>>, 11), Order("submit_order", <<Out(4, "B")>>, 12), first, last>> :
     first \in {Order("cancel_order", <<In(2, "A")>>, 11), Order("execute_order", <<In(1, "B")>>, 11)},
     last \in {Order("cancel_order", <<In(4, "B")>>, 12), Order("execute_order", <<In(3, "A")>>, 12)}}
  \cup
  {<<Order("place_limit", <<Out(4, "A")>>, 13), Order("place_limit", <<Out(2, "B")>>, 14),
     CallLegs("claim_limit", <<In(3, "B")>>,
              <<Leg("own", 13, C(3, "B"), C(4, "A")), Leg("foreign", 99, C(5, "B"), C(5, "A"))>>)>>
     \o rest \o <<Order("cancel_limit", <<In(2, "B")>>, 14)>> :
     rest \in {<<>>, <<Sent2("A")>>}}
  \cup
  {<<Order("place_limit", <<Out(4, "A")>>, 13), CallLegs("claim_limit", <<In(1, "B")>>, <<Leg("own", 13, C(1, "B"), C(2, "A"))>>),
     Order("cancel_limit", <<In(2, "A")>>, 13)>>,
   <<Order("place_limit", <<Out(2, "A")>>, 13), Order("place_limit", <<Out(2, "A")>>, 14),
     CallLegs("claim_limit", <<In(3, "B")>>, <<Leg("own", 14, C(1, "B"), C(2, "A")), Leg("own", 13, C(2, "B"), C(2, "A"))>>)>>}

\* A position that is added to twice, is partly withdrawn between, and is closed;
\* two positions; one that was open before the report; and what is migrated.
PositionHistories ==
  {<<Create(TwoCoins, 21, 12), Withdraw(<<In(1, "A")>>, 21, 6), AddTo(TwoCoins, 22, 21, 12, <<>>), AddTo(<<Out(1, "A")>>, 23, 22, 24, <<>>)>>
     \o rest : rest \in {<<>>, <<Withdraw(<<In(2, "A"), In(1, "B")>>, 23, 24)>>, <<Withdraw(<<In(2, "A"), In(1, "B"), In(1, "STRD")>>, 23, 18)>>}}
  \cup
  {<<Create(TwoCoins, 21, 6), Create(<<Out(1, "B")>>, 24, 6), second, Withdraw(<<In(1, "B")>>, 24, 6)>> :
     second \in {Withdraw(<<In(1, "A")>>, 21, 6), AddTo(TwoCoins, 22, 21, 12, <<>>)}}
  \cup
  {<<first, AddTo(TwoCoins, 22, 21, 6, <<>>)>> : first \in {Withdraw(<<In(1, "A")>>, 21, 6), Create(TwoCoins, 21, 6)}}
  \cup {<<Lock(1, 2), Migrate(Migration, <<>>), Begin(1)>>, <<Create(TwoCoins, 21, 6), Create(TwoCoins, 21, 6)>>,
         <<Migrate(Migration, <<>>), Migrate(Migration, <<>>)>>}

\* All in transactions of their own, or the first two in one.
InTxs(ms)    == [k \in DOMAIN ms |-> Tx(<<ms[k]>>, TRUE)]
PairFirst(ms) == <<Tx(SubSeq(ms, 1, 2), TRUE)>> \o InTxs(SubSeq(ms, 3, Len(ms)))

OsmoInputs ==
  {[chain |-> "osmo", txs |-> <<Tx(<<m>>, f)>>] : m \in OsmoSingles \cup OsmoCalls \cup OsmoExecs, f \in BOOLEAN}
  \cup
  {[chain |-> "osmo", txs |-> <<Tx(ms, TRUE)>>] :
     ms \in LET usual == {Msg("MsgVote", <<>>, {}), Msg("MsgSend", <<In(1, "A")>>, {})}
                own   == OsmoSingles \cup OsmoCalls
            IN  Pairs(usual, own) \cup Pairs(own, usual)}
  \cup
  {[chain |-> "osmo", txs |-> split] :
     split \in UNION {{InTxs(ms), PairFirst(ms)} : ms \in LockHistories \cup OrderHistories \cup PositionHistories}}

-----------------------------------------------------------------------------
Chains == {"cosmos", "strd", "inj", "dym", "stars", "juno", "kuji", "ntrn", "dvpn"}

\* Two messages, of the chain's own in either place.
MsgSeqs(c) == {<<m>> : m \in Usual \cup Own(c)} \cup Pairs(Own(c), Usual \cup Own(c)) \cup Pairs(Usual, Own(c))

Authz ==
  {[failed |-> FALSE, fee |-> TRUE, logs |-> FALSE, msgs |-> ms] :
     ms \in {<<Wraps(<<d, e>>)>> : d, e \in Delegations \cup {Msg("MsgSend", f, {}) : f \in {<<In(1, "A")>>, <<Out(1, "A")>>}}}
            \cup {<<Wraps(<<d>>), Wraps(<<d, d>>)>> : d \in Delegations}
            \cup {<<Wraps(<<d>>), Msg("MsgVote", <<>>, {})>> : d \in Delegations}
            \cup {<<Msg("MsgVote", <<>>, {})>>}}

Failed == {[failed |-> TRUE, fee |-> f, logs |-> FALSE, msgs |-> <<>>] : f \in BOOLEAN}

Firsts(c) == {Tx(ms, f) : ms \in MsgSeqs(c), f \in BOOLEAN}
\* The memory of inj reaches over transactions.
Seconds(c) == Failed \cup IF c = "inj" THEN {Tx(<<m>>, TRUE) : m \in Own(c)} ELSE {}

MCInputs ==
  UNION {{[chain |-> c, txs |-> ts] : ts \in {<<t>> : t \in Firsts(c)} \cup Pairs(Firsts(c), IF c = "inj" THEN Seconds(c) ELSE {})} : c \in Chains \ {"cosmos"}}
  \cup {[chain |-> "cosmos", txs |-> <<Tx(ms, f)>>] : ms \in Pairs(Usual, Usual), f \in BOOLEAN}
  \cup {[chain |-> "cosmos", txs |-> <<t>>] : t \in Authz \cup Failed}
  \cup OsmoInputs

\* Two messages of Sentinel in one transaction.
SentinelPairs == {[chain |-> "dvpn", txs |-> <<Tx(ms, TRUE)>>] : ms \in Pairs(Own("dvpn"), Own("dvpn"))}
=============================================================================
