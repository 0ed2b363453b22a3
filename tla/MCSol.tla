--------------------------------- MODULE MCSol ---------------------------------
(***************************************************************************)
(* Transactions of every shape under every program, the recurring and the  *)
(* limit orders, and a wallet with two stake accounts.                     *)
(***************************************************************************)
EXTENDS SolReport

W == "w"
MCTokenAccounts == W :> ("ta" :> "A" @@ "tb" :> "B" @@ "tl" :> "LP" @@ "tw" :> Sol @@ "tz" :> StSol)
MCOwned == W :> {"ta", "tb", "tl", "tw", "tz", "old"}
MCOverrides == "sale" :> "fiat_sale" @@ "buy" :> "fiat_buy"

Blank ==
  [id |-> "tx", time |-> 5, final |-> TRUE, meta |-> "ok", gas |-> 1, programs |-> {}, types |-> <<>>, logs |-> {}, log |-> {},
   sol |-> <<>>, tokens |-> <<>>, links |-> <<>>, inner |-> <<>>, calls |-> 1, mintTo |-> <<>>, burns |-> <<>>,
   rewards |-> {}, pnl |-> <<>>, paid |-> 0, paidTo |-> "none", staker |-> "none", delegated |-> {},
   creates |-> <<>>, closes |-> <<>>, accounts1 |-> <<>>, accounts3 |-> <<>>, order |-> "none"]

At(a, c, n) == [account |-> a, currency |-> c, amount |-> n]
W0(amount) == At(W, Sol, amount)
A(amount)  == At("ta", "A", amount)
B(amount)  == At("tb", "B", amount)
LP(amount) == At("tl", "LP", amount)
Wrapped(amount) == At("tw", Sol, amount)
StS(amount) == At("tz", StSol, amount)

\* The account of a token is named too; its SOL does not change.
Shape(sol, tokens) ==
  [Blank EXCEPT !.sol = <<W0(sol)>> \o [k \in DOMAIN tokens |-> At(tokens[k].account, Sol, 0)], !.tokens = tokens]

Shapes ==
  {Shape(-1, <<>>), Shape(-40001, <<>>), Shape(-3001, <<>>), Shape(39999, <<>>), Shape(299, <<>>), Shape(2, <<>>),
   Shape(-40001, <<A(500)>>), Shape(-3001, <<A(500)>>), Shape(39999, <<A(-500)>>), Shape(-1, <<A(-500), B(700)>>),
   [Shape(-7000, <<A(-500), B(700)>>) EXCEPT !.gas = 7000], Shape(-1, <<A(-500)>>), Shape(0, <<A(500)>>), Shape(-1, <<A(500)>>),
   Shape(-1, <<A(-500), B(-600), LP(200)>>), Shape(-1, <<A(500), B(600), LP(-200)>>),
   Shape(-1, <<Wrapped(-2000), A(500)>>), Shape(-1, <<A(-500), B(-10), LP(200)>>), Shape(299, <<A(-500), B(700)>>),
   Shape(-1, <<A(-500), B(700), StS(10)>>), Shape(-40001, <<A(One)>>), Shape(39999, <<A(-One)>>), Shape(-1, <<A(-500), B(-600)>>),
   Shape(0, <<A(-500)>>), Shape(0, <<>>), Shape(-1, <<A(0)>>), Shape(-408, <<A(500)>>),
   [Shape(-1000, <<>>) EXCEPT !.gas = 1], Shape(-1, <<A(500), B(600)>>)}

Swaps   == {"wormhole", "swap_v2", "serum_v3", "marinade", "2kd", "pumpfun", "degen_crash", "token_burner", "raydium_lp", "orca",
            "saber", "saber_stable", "saber_farm", "jupiter_perp", "jupiter", "wen_airdrop", "metaplex_candy", "token",
            "nft_market", "claim_tip", "vote", "other"}
LogsOf(program) ==
  CASE program \in {"swap_v2", "2kd", "saber"} -> {{}, {"Swap"}}
    [] program = "raydium_lp"    -> {{}, {"MintTo"}, {"Burn"}}
    [] program = "saber_stable"  -> {{}, {"Deposit", "MintTo"}}
    [] program = "saber_farm"    -> {{}, {"InitializeAccount"}}
    [] program = "jupiter_perp"  -> {{}, {"IncreasePosition"}, {"DecreasePosition"}, {"ClosePosition"}}
    [] program = "wen_airdrop"   -> {{}, {"NewClaim"}}
    [] program = "claim_tip"     -> {{}, {"Claim"}}
    [] program = "other"         -> {{}, {"MintTo"}, {"Transfer"}, {"Transfer", "Other"}}
    [] OTHER                     -> {{}}
\* What Degen Crash moves is SOL.
ShapesOf(program) == IF program = "degen_crash" THEN {shape \in Shapes : shape.tokens = <<>>} ELSE Shapes
Singles == UNION {{[shape EXCEPT !.programs = {p}, !.logs = logs] : shape \in ShapesOf(p), logs \in LogsOf(p)} : p \in Swaps}


\* What no program says: instructions of the stake, system and token programs, what
\* was sent and received, and the transfers that were bought or sold for euros.
Typed(shape, types) == [shape EXCEPT !.types = types, !.programs = {"system"}]
Plains ==
  {Typed(shape, types) : shape \in Shapes,
     types \in {<<<<"delegate", "stake">>>>, <<<<"createAccountWithSeed", "system">>>>, <<<<"closeAccount", "spl-token">>>>,
                <<<<"create", "spl-associated-token-account">>>>, <<<<"initializeAccount", "spl-token">>>>,
                <<<<"transfer", "system">>>>, <<<<"transferChecked", "spl-token">>>>, <<<<"other", "other">>>>}}
    \cup {[Typed(shape, <<<<"transfer", "system">>>>) EXCEPT !.id = id] :
            shape \in {Shape(-40001, <<>>), Shape(-1, <<A(-500)>>), Shape(39999, <<>>)}, id \in {"sale", "buy"}}
    \cup {[shape EXCEPT !.staker = "marinade"] : shape \in {Shape(-40001, <<>>), Shape(-1, <<>>)}}

\* With another payer, with accounts that are not the wallet's any more, and what the
\* instructions of single programs say.
Moves(type, from, to, amount) ==
  [type |-> type, source |-> from, destination |-> to, authority |-> from, amount |-> amount, lamports |-> FALSE, currency |-> "A"]
Called(program, logs, shape) == [shape EXCEPT !.programs = {program}, !.logs = logs]
Pooled(logs, shape, inner) == [Called("raydium_lp", logs, shape) EXCEPT !.inner = inner, !.mintTo = <<Leg(200, "LP")>>]
Farmed(shape, logs, log, inner) == [Called("raydium_stake", logs, shape) EXCEPT !.log = log, !.inner = inner, !.rewards = {90}]
LpIn  == Moves("transfer", "pool", "tl", 200)
LpOut == Moves("transfer", "tl", "pool", 200)
AIn   == Moves("transfer", "rewards", "ta", 90)
AOut  == Moves("transfer", "ta", "pool", 500)
BOut  == Moves("transfer", "tb", "pool", 700)
Specials ==
  {Pooled({"MintTo"}, Shape(-1, <<A(-500), B(-700), LP(200)>>), <<>>),
   [Pooled({"MintTo"}, Shape(-1, <<A(-500), B(-700), LP(200)>>), <<>>) EXCEPT !.mintTo = <<>>],
   Pooled({"MintTo"}, Shape(0, <<>>), <<AOut, BOut, LpIn>>), Pooled({}, Shape(-1, <<>>), <<AOut, LpIn>>),
   [Pooled({}, Shape(-1, <<A(-500), LP(200)>>), <<>>) EXCEPT !.log = {"process_swap:"}],
   Farmed(Shape(-1, <<LP(-200)>>), {"Deposit"}, {}, <<LpOut>>),
   Farmed(Shape(-1, <<LP(-200), A(90)>>), {"Deposit"}, {"withdraw reward"}, <<LpOut, AIn>>),
   Farmed(Shape(-1, <<LP(200), A(90)>>), {"Withdraw"}, {}, <<LpIn, AIn>>),
   Farmed(Shape(-1, <<>>), {}, {}, <<>>), Farmed(Shape(-1, <<>>), {"Other"}, {}, <<>>),
   [Farmed(Shape(-1, <<>>), {}, {}, <<>>) EXCEPT !.calls = 0]}
    \cup {[Called("token_burner", {}, shape) EXCEPT !.burns = <<Leg(500, "A")>>] :
            shape \in {Shape(-1, <<A(-500)>>), Shape(407, <<At("old", "A", -500)>>)}}
    \cup {[Called("jupiter_perp", {"DecreasePosition"}, shape) EXCEPT !.pnl = <<gain>>] :
            shape \in {Shape(-1, <<A(500)>>), Shape(399, <<>>), Shape(0, <<A(500)>>)}, gain \in {7, -7}}
    \cup {[Called("vote", {}, Shape(sol, <<>>)) EXCEPT !.types = <<<<"withdraw", "vote">>>>, !.paid = sol, !.paidTo = W] : sol \in {0, 8000}}
    \cup {[Called(p, {}, Shape(sol, <<At("old", "A", -500), B(700)>>)) EXCEPT !.links = links] :
            p \in {"jupiter", "orca", "other"}, sol \in {0, -1}, links \in {<<>>, <<{"old", W}>>, <<{"old", "older"}, {"older", W}>>}}

OneTx(tx) == [txs |-> <<tx>>, staking |-> {}]

-----------------------------------------------------------------------------
\* Orders.  The keeper pays for what it executes.

Of(order, tx) == [tx EXCEPT !.order = order]
Closed(id) == [owner |-> id, account |-> id]
Made(id) == [account |-> id, currency |-> "A"]

Recurring(sold, program) ==
  LET opened == [Called("jupiter_dca", {"OpenDcaV2"}, Shape(-3001, <<A(-900)>>)) EXCEPT !.creates = <<"d1">>]
      route(logs, sol) ==
        [Called("jupiter_dca", logs, Shape(sol, <<B(400), At("dca", "A", -300), At("pool", "A", 300)>>)) EXCEPT
           !.inner = <<Moves("transfer", "dca", "pool", 300)>>]
      closed(tx) == [tx EXCEPT !.closes = <<Closed("d1")>>, !.logs = @ \cup {"CloseDca"}]
      back == Shape(2989, IF sold = 3 THEN <<>> ELSE <<A(900 - 300 * sold)>>)
      steps == [k \in 1 .. sold |-> route({program}, 0)]
  IN  <<opened>> \o steps \o <<closed([back EXCEPT !.programs = {"jupiter_dca"}])>>

RecurringAtOnce ==
  LET opened == [Called("jupiter_dca", {"OpenDca"}, Shape(-3001, <<A(-300)>>)) EXCEPT !.creates = <<"d1">>]
      last == [Called("jupiter_dca", {"SharedAccountsRoute", "EndAndClose"},
                      Shape(2990, <<B(400), At("dca", "A", -300), At("pool", "A", 300)>>)) EXCEPT
                 !.inner = <<Moves("transfer", "dca", "pool", 300)>>, !.closes = <<Closed("d1")>>]
  IN  <<opened, last>>

RecurringOfSol(total) ==
  LET opened == [Called("jupiter_dca", {"OpenDcaV2"}, Shape(-total - 3001, <<>>)) EXCEPT !.creates = <<"d1">>]
      route == [Called("jupiter_dca", {"SharedAccountsRoute"}, Shape(0, <<B(400), At("dca", Sol, -total), At("pool", Sol, total)>>)) EXCEPT
                  !.inner = <<Moves("transfer", "dca", "pool", total)>>]
      back == [Called("jupiter_dca", {"CloseDca"}, Shape(2989, <<>>)) EXCEPT !.closes = <<Closed("d1")>>]
  IN  <<opened, route, back>>

LimitOrder(version, parts, cancelled, refund) ==
  LET opened == [Called(version, {"InitializeOrder"}, Shape(-3001, <<A(-600)>>)) EXCEPT
                   !.accounts1 = <<"o1">>, !.accounts3 = <<Made("ata"), Made("o1")>>]
      sold(sol) == [Called(version, {"Route"}, Shape(sol, <<B(400), At("o1", "A", -300)>>)) EXCEPT
                      !.inner = <<Moves("transferChecked", "o1", "pool", 300)>>]
      steps == [k \in 1 .. parts |-> sold(IF k = 2 THEN refund ELSE 0)]
      back == [Called(version, {"CancelOrder"}, Shape(refund - 1, <<A(600 - 300 * parts)>>)) EXCEPT !.closes = <<Closed("o1")>>]
  IN  <<opened>> \o steps \o (IF cancelled THEN <<back>> ELSE <<>>)

Orders ==
  {Recurring(sold, program) : sold \in {0, 1, 3}, program \in {"SharedAccountsRoute", "Route"}}
    \cup {RecurringAtOnce, RecurringOfSol(40000), RecurringOfSol(150000)}
    \cup {LimitOrder(version, parts, parts < 2, 2990) : version \in {"jupiter_limit", "jupiter_limit_v2"}, parts \in 0 .. 2}
OrderOf(txs) == [txs |-> [k \in DOMAIN txs |-> Of("order", [txs[k] EXCEPT !.time = k])], staking |-> {}]

-----------------------------------------------------------------------------
\* Histories: transactions that only a token account is named in, two stake accounts,
\* one of them gone, tips that they claimed, and transactions that are left out.

Sends == Typed(Shape(-40001, <<>>), <<<<"transfer", "system">>>>)
Gets  == Typed(Shape(39999, <<A(0)>>), <<<<"transfer", "system">>>>)
OfToken == [Blank EXCEPT !.programs = {"token"}, !.sol = <<At("ta", Sol, 0)>>, !.tokens = <<A(500)>>]
Stakes(s) ==
  [Typed(Shape(-40001, <<>>), <<<<"delegate", "stake">>>>) EXCEPT
     !.sol = Append(@, At(s, Sol, 40000)), !.delegated = {s}]
Tips(s) == [Called("claim_tip", {"Claim"}, Blank) EXCEPT !.sol = <<At(s, Sol, 7000)>>]
Timed(txs) == [k \in DOMAIN txs |-> [txs[k] EXCEPT !.time = IF @ = 0 THEN 0 ELSE k]]
Histories ==
  {[txs |-> Timed(<<Stakes("s1"), OfToken, Sends, Tips("s1"), Gets, OfToken, Stakes("s2")>>), staking |-> {"s2"}],
   [txs |-> Timed(<<Gets, OfToken, Gets, OfToken, [Sends EXCEPT !.final = FALSE], Sends, [Sends EXCEPT !.time = 0]>>), staking |-> {}],
   [txs |-> Timed(<<Sends, [Sends EXCEPT !.meta = "err"], Gets, Tips("s1"), OfToken, Sends, Tips("s1"), Sends>>), staking |-> {"s1"}]}

Plain == [limit |-> 40, start |-> 0, end |-> 0, excludeFailed |-> FALSE, excludeAssociated |-> FALSE]
\* Of what is only one transaction the wallet is asked for alone.
Alone == [Plain EXCEPT !.excludeAssociated = TRUE]
Settings ==
  {Plain, Alone, [Plain EXCEPT !.limit = 3], [Plain EXCEPT !.start = 3], [Plain EXCEPT !.end = 4], [Plain EXCEPT !.excludeFailed = TRUE]}
Report(book, set) == [ledger |-> book, config |-> set]
MCReports ==
  {Report(OneTx(tx), Alone) : tx \in Singles \cup Plains \cup Specials}
    \cup {Report(OrderOf(txs), set) : txs \in Orders, set \in {Plain, [Plain EXCEPT !.limit = 3]}}
    \cup {Report(book, set) : book \in Histories, set \in Settings}

=============================================================================
