------------------------------ MODULE MCAlgoGroups ------------------------------
(***************************************************************************)
(* For every kind of group that a dapp knows one group, and others like    *)
(* it: a transaction is missing, an asset is unknown or excluded, there    *)
(* are rewards of participation.                                           *)
(***************************************************************************)
EXTENDS AlgoGroups, TLC

W == "w"
MCLpTokens == "LP" :> {"ALGO", "A"} @@ "LX" :> {"A", "X"}

Blank ==
  [type |-> "other", group |-> "none", size |-> 1, offset |-> 0, sender |-> W, receiver |-> "none", close |-> "none",
   asset |-> Algo, amount |-> 0, closeAmount |-> 0, fee |-> 6,
   senderRewards |-> 0, receiverRewards |-> 0, closeRewards |-> 0,
   app |-> "none", args |-> {}, completion |-> "noop", depth |-> 0, inner |-> <<>>, note |-> "",
   order |-> [by |-> "none", action |-> "none", side |-> "none"],
   price |-> [n |-> 1, d |-> 2, asset |-> "A"], elsewhere |-> <<>>, told |-> 0]

\* Others pay another fee, and what an application sends costs nothing.
Move(from, to, asset, amount) ==
  [Blank EXCEPT !.type = IF asset = Algo THEN "pay" ELSE "axfer", !.sender = from, !.receiver = to,
                !.asset = asset, !.amount = amount, !.fee = IF from = W THEN 6 ELSE 2]
Give(asset, amount) == Move(W, "pool", asset, amount)
Get(asset, amount)  == Move("pool", W, asset, amount)
Optin(asset)        == Move(W, W, asset, 0)
FeeToDapp           == Give(Algo, 24)
FeeOfPeraTx         == [Move(W, Pera, Algo, 24) EXCEPT !.note = "pera"]

Inner(tx, depth) == [tx EXCEPT !.fee = 0, !.depth = depth]
In(asset, amount) == Inner(Get(asset, amount), 1)
Call(app, args, inner) == [Blank EXCEPT !.type = "appl", !.app = app, !.args = args, !.inner = inner]
Plain(app, arg)        == Call(app, {arg}, <<>>)
ByOther(tx) == [tx EXCEPT !.sender = "other", !.fee = 2]
Closing(tx, to) == [tx EXCEPT !.close = to, !.closeAmount = 12]

-----------------------------------------------------------------------------
\* Groups without a dapp.

Transfers ==
  {<<t>> : t \in {Give(Algo, 60), Give("A", 60), Get(Algo, 60), Get("A", 60), Get(Algo, 2), Get("A", 2), Move(W, W, Algo, 60), Optin("A"),
                  Move("gov", W, Algo, 60), [Get("A", 60) EXCEPT !.note = "rewards"], FeeOfPeraTx, Blank,
                  Move(W, W, "A", 60), Give("LP", 60), Get("LP", 60), Get("LX", 60), Give("LX", 60),
                  Closing(Give(Algo, 60), "pool"), Closing(Give(Algo, 60), "other"), Closing(Give("A", 60), W),
                  Closing(Move("other", "pool", Algo, 60), W), Closing(Get("A", 60), W), Closing(Get("A", 60), "other"),
                  Closing(Move(W, W, Algo, 0), "other"),
                  Call("some", {}, <<>>), [Call("some", {}, <<>>) EXCEPT !.completion = "optin"],
                  Call("some", {}, <<In("A", 60), In("B", 60)>>),
                  Call("some", {}, <<Inner(Call("some", {}, <<>>), 1), Inner(Get("A", 60), 2), In("B", 60)>>),
                  ByOther(Call("some", {}, <<In("A", 60)>>)),
                  Call("some", {}, <<Inner(Optin("A"), 1)>>)}}

Swap(app, arg) == <<Give("A", 60), Call(app, {arg}, <<In("B", 120)>>)>>
Change(app, arg) == <<Give("A", 60), Call(app, {arg}, <<In("A", 12), In("B", 120)>>)>>
LpAdd(app, arg) == <<Give(Algo, 60), Give("A", 60), Call(app, {arg}, <<In("A", 12), In("LP", 120)>>)>>
LpRemove(app, arg) == <<Give("LP", 60), Call(app, {arg}, <<In(Algo, 60), In("A", 60)>>)>>
Amm(app, swap, add, remove) ==
  LET plain == {Swap(app, swap), Change(app, swap), LpAdd(app, add), LpRemove(app, remove)}
  IN  plain \cup {<<Optin("B")>> \o g : g \in plain}

Generics ==
  Amm("some", "some", "some", "some")
  \cup {Swap("some", "some") \o <<FeeOfPeraTx>>,
        Swap("some", "some") \o <<Give("B", 120), Call("some", {}, <<In(Algo, 60)>>)>>,
        Swap("some", "some") \o <<Give("B", 120), Call("some", {}, <<In("B", 60)>>)>>,
        <<Give("A", 60), Call("some", {}, <<In("B", 60), In(Algo, 2)>>)>>}

-----------------------------------------------------------------------------
\* Groups of the dapps.

Order(tx, by, action, side) ==
  [tx EXCEPT !.note = "order", !.order = [by |-> by, action |-> action, side |-> side]]
BuyApp(by, action)  == Order(ByOther(Plain("algodexBuy", "some")), by, action, "buy")
SellApp(by, action) == Order(ByOther(Plain("algodexSell", "some")), by, action, "sell")
Market == ByOther(Plain("algodexSell", "execute"))

Algodexes ==
  {<<BuyApp(W, "partial"), Get(Algo, 60), Give("A", 120), FeeToDapp>>,
   <<BuyApp(W, "full"), Get(Algo, 60), Give("A", 120)>>,
   <<BuyApp("other", "partial"), Get("A", 60), Move("mine", "other", Algo, 120)>>,
   <<BuyApp("other", "full"), Move("mine", "other", Algo, 120), Get("A", 60)>>,
   <<SellApp(W, "partial"), Give(Algo, 60), Get("A", 60), FeeToDapp>>,
   <<SellApp(W, "partial"), Give(Algo, 60), Optin("A"), Get("A", 60), FeeToDapp>>,
   <<SellApp(W, "full"), Give(Algo, 60), Get("A", 60)>>,
   <<SellApp(W, "full"), Give(Algo, 60), Optin("A"), Get("A", 60)>>,
   <<SellApp("other", "partial"), Get(Algo, 120), Move("mine", "other", "A", 60)>>,
   <<SellApp("other", "full"), Get(Algo, 120), Move("mine", "other", "A", 60)>>,
   <<Market, Give(Algo, 60), Get("A", 60), FeeToDapp>>,
   <<Market, Give(Algo, 60), Optin("A"), Get("A", 60), FeeToDapp>>,
   <<Market, Get(Algo, 120), Move("mine", "other", "A", 60)>>,
   <<BuyApp(W, "open"), Give(Algo, 60)>>}

Filled == [Call("limit", {"fill_finalize"}, <<In("B", 60)>>) EXCEPT
             !.elsewhere = <<Call("limit", {"fill_init"}, <<Inner(Move("escrow", "pool", "A", 60), 1)>>)>>]
CloseEscrow == Plain("deflexRegistry", "close_escrow")

Deflexes ==
  {<<Give("A", 60), Call("some", {"swap_finalize_deflex"}, <<In("A", 0), In("B", 60)>>)>>,
   <<Give("A", 60), FeeToDapp, Call("some", {"swap_finalize_deflex"}, <<In("B", 60)>>)>>,
   <<ByOther(Filled), ByOther(CloseEscrow)>>,
   <<ByOther([Filled EXCEPT !.elsewhere = <<>>]), ByOther(CloseEscrow)>>,
   <<Call("limit", {"cancel_order"}, <<In("A", 60)>>), CloseEscrow>>,
   <<Plain("deflexRegistry", "some"), FeeToDapp, Give("A", 60), Plain("limit", "create_order")>>}

Reach(args, inner) == [Call("any", args, inner) EXCEPT !.note = "reach"]

Humbleswaps ==
  {[g EXCEPT ![Len(g)].note = "reach"] : g \in Amm("any", "3", "0", "3")}
  \cup {<<Reach({"0"}, <<In("A", 60), In("LP", 60)>>)>>, <<Optin("A"), Reach({"4"}, <<In("A", 60)>>)>>,
        <<Give("LP", 60), Reach({"0"}, <<>>)>>, <<Give("A", 60), Reach({"3"}, <<>>)>>}

Lending(a, b, app, before, last, first, second) ==
  <<a, b, Call(app, {before}, first), Call(app, {last}, second)>>

Pacts ==
  Amm("any", "SWAP", "ADDLIQ", "REMLIQ")
  \cup {<<Give("A", 60), Give("A", 24), Call("any", {"SWAP"}, <<In("B", 60)>>),
          Call("pactRouter", {"routed_swap_1"}, <<In("B", 60)>>)>>,
        <<Optin("B"), Give("A", 60), Call("pactRouter", {"routed_swap_2"}, <<In("B", 60)>>)>>,
        Lending(Give(Algo, 60), Give("A", 60), "folksAdapter", "pre_add_liquidity", "add_liquidity_pact", <<>>, <<In("LP", 60)>>),
        <<Give("LP", 60), Plain("folksAdapter", "remove_liquidity_pact"),
          Call("folksAdapter", {"post_remove_liquidity"}, <<In(Algo, 60), In("A", 60)>>)>>,
        <<Give(Algo, 24), Plain("any", "create"), [Call("any", {}, <<>>) EXCEPT !.completion = "optin"]>>,
        <<Give("LP", 60), Plain("pactFarm", "update_state")>>,
        <<Call("any", {"unstake"}, <<In("LP", 60)>>), Call("pactFarm", {"update_state"}, <<In("A", 60), In("B", 60)>>)>>,
        <<Call("any", {"unstake"}, <<In("LP", 60)>>), Plain("pactFarm", "update_state")>>,
        <<Plain("pactFarm", "update_state"), Call("pactFarm", {"claim_rewards_farm"}, <<In("A", 60)>>)>>,
        <<Plain("any", "increase_quota"), Call("any", {"unstake"}, <<>>),
          Call("pactFarm", {"update_state"}, <<In("LP", 60)>>), Call("pactFarm", {"claim_rewards_farm"}, <<In("A", 60)>>)>>}

TinymanV1s ==
  {<<FeeToDapp, ByOther(Plain("tinyman1", "swap")), Give("A", 60), Get("B", 60)>>,
   <<FeeToDapp, ByOther(Plain("tinyman1", "redeem")), Get("B", 60)>>,
   <<FeeToDapp, ByOther(Plain("tinyman1", "mint")), Give("A", 60), Give(Algo, 60), Get("LP", 60)>>,
   <<FeeToDapp, ByOther(Plain("tinyman1", "burn")), Get("A", 60), Get(Algo, 60), Give("LP", 60)>>,
   <<Plain("tinymanStaking", "claim"), Get("A", 60)>>}

TinymanV2s ==
  Amm("tinyman2", "swap", "add_liquidity", "remove_liquidity")
  \cup {Swap("tinyman2", "swap") \o <<FeeOfPeraTx>>,
        <<Give("A", 60), Call("tinyman2", {"add_liquidity", "single"}, <<In("LP", 60)>>)>>,
        <<Give("LP", 60), Call("tinyman2", {"remove_liquidity", "single"}, <<In("A", 60)>>)>>,
        Lending(Give(Algo, 60), Give("A", 60), "folksWrapper", "add_liquidity", "noop", <<In("LP", 60)>>, <<>>),
        <<Give("LP", 60), Call("folksWrapper", {"remove_liquidity"}, <<In(Algo, 60), In("A", 60)>>), Plain("folksWrapper", "noop")>>,
        <<Plain("tinymanStaking", "commit")>>,
        <<Give("A", 60), Plain("tinymanVault", "create_lock"), Plain("tinymanVault", "increase_budget")>>,
        <<FeeToDapp, Give("A", 60), Plain("tinymanVault", "create_lock"), Plain("tinymanVault", "increase_budget")>>,
        <<Call("tinymanVault", {"withdraw"}, <<In("A", 60)>>)>>,
        <<FeeToDapp, Plain("tinymanRewards", "increase_budget"), Call("tinymanRewards", {"claim_rewards"}, <<In("A", 60)>>)>>,
        <<Plain("tinymanRewards", "increase_budget"), Call("tinymanRewards", {"claim_rewards"}, <<In("A", 60)>>)>>}

Vestiges ==
  {<<Give("A", 60), Call("vestige1", {"call"}, <<In("B", 60)>>)>>,
   <<Plain("vestige3", "swap_init"), Give("A", 60), Plain("vestige3", "swap_swap"),
     Call("vestige3", {"swap_finalize"}, <<In("B", 60)>>)>>}

Yieldlies ==
  {<<Call("any", {}, <<>>), Plain("yieldlyNll", "CA"), Get("A", 60), FeeToDapp>>,
   <<Call("any", {}, <<>>), Plain("yieldlyAlgo", "CA"), Plain("any", "CA"), Get("A", 60), Get(Algo, 60), FeeToDapp>>,
   <<Call("any", {}, <<>>), Plain("yieldly", "CA"), Get("A", 60)>>,
   <<Call("any", {}, <<>>), Plain("yieldly", "CAW"), Get("A", 60)>>,
   <<[Call("yieldly", {}, <<In("A", 60), In("B", 60)>>) EXCEPT !.completion = "closeout"], Plain("yieldly", "bail")>>,
   <<Call("yieldly", {"claim"}, <<In("A", 60), In("B", 60)>>), Plain("yieldly", "bail")>>,
   <<Call("yieldly", {"withdraw"}, <<In("A", 60)>>), Plain("yieldly", "bail")>>,
   <<Call("any", {}, <<>>), Plain("yieldly", "S"), Give("A", 60)>>,
   <<Call("any", {}, <<>>), Plain("yieldly", "W"), Get("LP", 60)>>,
   <<Call("any", {}, <<>>), Plain("yieldlyNll", "W"), Get(Algo, 60), FeeToDapp>>,
   <<Call("any", {}, <<>>), Plain("yieldlyNll", "D"), Give(Algo, 60)>>,
   <<Plain("yieldly", "stake"), Give("A", 60)>>,
   <<Call("yieldly", {"withdraw_all"}, <<In("LP", 60)>>)>>,
   <<Call("any", {}, <<>>), Plain("yieldly", "some")>>}

-----------------------------------------------------------------------------
\* Groups of the lending dapps.

MCBanks == "A" :> "bA" @@ Algo :> "bALGO"
Told(tx, n) == [tx EXCEPT !.told = n]
Named(tx, note) == [tx EXCEPT !.note = note]

\* The two calls that prepare.
Prepare == <<Plain("prep", "some"), Plain("prep", "some")>>

V1Deposit(amount, rate) == Prepare \o <<Plain("algofiManager", "mt"), Told(Plain("algofiMarket", "mt"), rate), Give("A", amount)>>
V1Withdraw(amount, rate) ==
  Prepare \o <<Plain("algofiManager", "rcu"), Told(Call("algofiMarket", {"rcu"}, <<In("A", amount)>>), rate)>>

V1Swap == <<Give("A", 60), Call("any", {"sef", "algofiAmm"}, <<In("B", 120)>>)>>
V1LpAdd ==
  <<Give(Algo, 60), Give("A", 60), Call("any", {"p"}, <<In("LP", 60)>>), Call("any", {"rpa1r"}, <<In(Algo, 12)>>),
    Call("any", {"rpa2r"}, <<In("A", 12)>>)>>
V1Optin(app) == <<Move(W, "storage1", Algo, 24), [Call(app, {}, <<>>) EXCEPT !.completion = "optin"]>>
V1Optout(app) == <<Call("any", {"oo", app}, <<>>), [Call(app, {}, <<>>) EXCEPT !.completion = "clear"]>>

AlgofiV1s ==
  {V1Swap, <<Optin("B")>> \o V1Swap, V1LpAdd, V1Swap \o V1LpAdd, V1Deposit(24, 2), V1Withdraw(24, 3),
   <<Give("A", 60), Call("any", {"sfe", "algofiAmm"}, <<In("B", 120)>>), Call("any", {"rsr"}, <<In("A", 12)>>)>>,
   <<Give("LP", 60), Call("any", {"ba1o"}, <<In(Algo, 60)>>), Call("any", {"ba2o"}, <<In("A", 60)>>)>>,
   Prepare \o <<Call("algofiStaking", {"cr"}, <<In("A", 60), In("B", 60)>>)>>,
   Prepare \o <<Plain("algofiManager", "b"), Call("algofiMarket", {"b", "algofiManager"}, <<In("A", 60)>>)>>,
   Prepare \o <<Plain("algofiManager", "rb"), Call("algofiMarket", {"rb", "algofiManager"}, <<In("A", 12)>>), Give("A", 60)>>,
   Prepare \o <<Plain("algofiManager", "mt"), Plain("algofiVault", "mt"), Give(Algo, 60)>>,
   Prepare \o <<Plain("algofiStaking", "mt"), Plain("algofiStaking", "mt"), Give("LP", 60)>>,
   Prepare \o <<Plain("algofiStaking", "rcu"), Call("algofiStaking", {"rcu"}, <<In("LP", 60)>>)>>,
   Prepare \o <<Plain("any", "sv"), Call("algofiVault", {"sv", "algofiManager"}, <<>>)>>,
   Prepare \o <<Plain("any", "l"), Plain("any", "l"), Give("A", 60), Call("algofiMarket", {"l", "algofiManager"}, <<In("bA", 60)>>)>>,
   <<ByOther(Plain("any", "l")), ByOther(Call("algofiMarket", {"l", "algofiManager"}, <<Inner(Move("storage1", "other", "bA", 60), 1)>>))>>,
   <<Call("any", {"fl", "algofiAmm"}, <<In("A", 60)>>), Give("A", 60), Call("any", {"sef"}, <<In("B", 60)>>), Give("B", 60)>>,
   <<Move("gov", "storage1", Algo, 60)>>, V1Optin("algofiManager"), V1Optout("algofiManager"), V1Optout("algofiStaking")}

LendSwap(step) == Call("algofi2LendPool", {step}, <<>>)
LendGives(step, inner) == Call("algofi2LendPool", {step}, inner)
V2Swap(change) ==
  <<Give("A", 60), LendSwap("swap1"), LendSwap("swap2"), LendGives("swap4", <<In(change, 60)>>),
    LendGives("swap5", <<In(IF change = "A" THEN "B" ELSE "A", 60)>>)>>
V2LpAdd ==
  <<Give(Algo, 60), Give("A", 60), LendSwap("pool1"), LendGives("pool5", <<In("LP", 60)>>),
    LendGives("pool6", <<In(Algo, 12)>>), LendGives("pool7", <<In("A", 12)>>)>>
PoolCall(step, inner) == Call("any", {step, "algofi2Manager"}, inner)
V2PoolSwap ==
  <<Give("A", 60), PoolCall("swap1", <<>>), Call("any", {"swap2", "algofi2PoolManager"}, <<>>),
    PoolCall("swap3", <<In("A", 12), In("B", 60)>>)>>
V2PoolLpAdd ==
  <<Give(Algo, 60), Give("A", 60), PoolCall("pool1", <<>>), Call("any", {"pool2", "algofi2PoolManager"}, <<In("LP", 60)>>),
    PoolCall("pool3", <<In("A", 12)>>)>>
Loan(arg, inner) == Call("algofi2Market", {arg, "algofi2Manager"}, inner)
Farm(arg, inner) == Call("algofi2Farm", {arg}, inner)
V2Deposit(amount, rate) == <<Give("A", amount), Told(Loan("auc", <<>>), rate)>>
V2Withdraw(amount, tokens) == <<Told(Call("algofi2Market", {"ruc"}, <<In("A", amount)>>), tokens)>>
V2Stake(amount, tokens) ==
  <<Give("A", amount), Call("algofi2Market", {"mba"}, <<In("bA", tokens)>>), Farm("fo", <<>>), Give("bA", tokens), Farm("s", <<>>)>>
V2Unstake(tokens, amount) ==
  <<Farm("fo", <<>>), Farm("u", <<In("bA", tokens)>>), Give("bA", tokens), Call("algofi2Market", {"br"}, <<In("A", amount)>>)>>
V2GovOptin ==
  <<Give(Algo, 24), Plain("algofi2Admin", "saoi"), Plain("algofi2Admin", "uoi"), Plain("algofi2Escrow", "algofi2Rewards"),
    Plain("algofi2Rewards", "uoi")>>

AlgofiV2s ==
  {V2Swap("A"), V2Swap("B"), <<Optin("B"), Optin("B")>> \o V2Swap("A"), V2LpAdd, V2Swap("B") \o V2LpAdd,
   V2PoolSwap, <<Optin("B")>> \o V2PoolSwap, V2PoolLpAdd, V2PoolSwap \o V2PoolLpAdd, V2Stake(24, 12), V2Unstake(12, 30),
   V2Deposit(24, 2), <<Optin("bA")>> \o V2Deposit(24, 4), V2Withdraw(30, 12), V2GovOptin,
   <<Give(Algo, 60), Call("algofi2Vault", {"auc", "algofi2Manager"}, <<>>)>>,
   <<Loan("b", <<In("A", 60)>>)>>, <<Give("A", 60), Loan("rb", <<In("A", 12)>>)>>,
   <<Farm("fo", <<>>), Give("LP", 60), Farm("s", <<>>)>>, <<Farm("fo", <<>>), Farm("u", <<In("LP", 60)>>)>>,
   <<Optin("A"), Farm("fo", <<>>), Farm("cr", <<In("A", 60)>>), Farm("fo", <<>>), Farm("cr", <<In("B", 60)>>)>>,
   <<Optin("A"), Loan("cr", <<In("A", 60)>>)>>, <<Loan("cr", <<In("A", 60)>>), Loan("cr", <<In("A", 12)>>), Loan("cr", <<In("B", 60)>>)>>,
   <<Loan("cr", <<In("A", 60)>>), Plain("any", "some")>>,
   <<Give("LP", 60), LendSwap("burn1"), LendGives("burn3", <<In(Algo, 60)>>), LendGives("burn4", <<In("A", 60)>>)>>,
   <<Give("LP", 60), Call("any", {"burn1", "algofi2PoolManager"}, <<>>), PoolCall("burn2", <<In(Algo, 60), In("A", 60)>>)>>,
   <<ByOther(Loan("sc", <<Inner(Move("storage2", "other", "A", 60), 1)>>))>>, <<Move("gov", "storage2", Algo, 60)>>,
   <<Move(W, "storage2", Algo, 24), Plain("algofi2Manager", "uoi")>>,
   <<Move(W, "storage2", Algo, 24), Plain("algofi2Manager", "vm"), Plain("algofi2Manager", "umoi")>>,
   <<Plain("algofi2Manager", "umco")>>, <<Give("A", 60), Plain("algofi2Escrow", "ila")>>,
   V2GovOptin \o <<Get("A", 60), Told(Plain("algofi2Escrow", "l"), 60)>>}

Pool1Call(arg, inner) == Call("folksPool", {arg}, inner)
Gov(arg, inner) == Call("folksDistributor", {arg}, inner)
Mint1 == <<Move(W, "folksGov", Algo, 60), Gov("mint", <<In("gA", 60)>>)>>
F1Deposit(amount, tokens) == <<Pool1Call("d", <<In("fA", tokens)>>), Give("A", amount)>>
F1Withdraw(tokens, amount) == <<Pool1Call("r", <<In("A", amount)>>), Give("fA", tokens)>>
AddEscrow == <<Move(W, "mine", Algo, 24), Plain("folksPair", "ae")>>
AddCollateral == <<Move(W, "mine", "fA", 12)>>

FolksV1s ==
  {Mint1, <<Move(W, "folksGov", Algo, 60), Gov("mint", <<>>)>>, F1Deposit(24, 12), F1Withdraw(12, 30), AddEscrow, AddCollateral,
   <<Give(Algo, 24), [Call("folksGov3", {}, <<>>) EXCEPT !.completion = "optin"]>>,
   <<Call("folksGov3", {"m"}, <<In("gA", 60)>>), Give(Algo, 60)>>,
   <<Plain("folksGov3", "b"), Get(Algo, 60), Give("gA", 60)>>, <<Plain("folksGov3", "cr"), Get(Algo, 60)>>,
   <<Gov("unmint_premint", <<In(Algo, 60)>>)>>, <<Give("gA", 60), Gov("burn", <<In(Algo, 60)>>)>>,
   <<Give("gA", 60), Gov("unmint", <<In(Algo, 60)>>), Plain("any", "some")>> \o Mint1,
   <<Gov("claim_premint", <<In("gA", 60)>>)>>, <<Gov("early_claim", <<In(Algo, 60)>>)>>,
   <<Gov("claim_rewards", <<In(Algo, 60)>>), Gov("claim_rewards", <<In(Algo, 60)>>)>>,
   <<Plain("folksOracle", "some"), Pool1Call("b", <<>>), Pool1Call("b", <<In("A", 60)>>), Plain("any", "some"), Plain("any", "some")>>,
   <<Plain("folksOracle", "some"), Pool1Call("ib", <<>>), Call("any", {}, <<In("A", 60)>>), Plain("any", "some")>>,
   <<Pool1Call("rb", <<>>), Pool1Call("rb", <<>>), Plain("any", "some"), Give("A", 60)>>,
   <<Plain("folksOracle", "some"), Pool1Call("rc", <<In("fA", 12)>>), Plain("any", "some"), Plain("any", "some")>>,
   <<Call("folksAggregator", {"ie"}, <<In("A", 60)>>), Plain("any", "some")>>,
   <<Move(W, W, Algo, 24), Plain("folksAggregator", "e"), Plain("any", "some")>>, <<Call("folksAggregator", {"c"}, <<In("A", 60)>>)>>}

Folks2(arg, inner) == Call("folks2Pool", {arg}, inner)
LoanCall(arg, inner) == Call("folks2Loans", {arg}, inner)
Gov2(arg, inner) == Call("folks2Distributor", {arg}, inner)
Oracle == Plain("folks2Oracle", "refresh")
OpUpCall == Plain("folks2OpUp", "some")
ToPool(asset, tokens) == Inner(Move("pool", "other", asset, tokens), 1)
F2Deposit(amount, tokens) == <<Give("A", amount), Folks2("deposit", <<ToPool("fA", tokens)>>)>>
F2Withdraw(tokens, amount) == <<Call("folks2Deposit", {"withdraw"}, <<ToPool("fA", tokens), In("A", amount)>>)>>
CreateLoan == <<Named(Move(W, W, Algo, 0), "loan name"), Named(Move(W, W, Algo, 0), "loan")>>
Repay2 == <<Give("A", 60), LoanCall("repay", <<In("A", 12)>>)>>
Mint2 == <<Give(Algo, 60), Gov2("galgo_mint", <<In("gA", 60)>>)>>
Burn2 == <<Give("gA", 60), Gov2("burn", <<In(Algo, 60)>>)>>

FolksV2s ==
  {F2Deposit(24, 12), <<Oracle>> \o F2Deposit(24, 12) \o <<Oracle, LoanCall("sync", <<>>)>>,
   <<Plain("any", "some")>> \o F2Deposit(24, 12) \o <<Plain("folks2Staking", "sync_stake")>>,
   F2Withdraw(12, 30), <<OpUpCall>> \o F2Withdraw(12, 30),
   <<Call("folks2Staking", {"withdraw_stake"}, <<ToPool("fA", 14), In("A", 30), ToPool("fA", 2)>>)>>,
   <<Oracle>> \o <<Plain("folks2Deposit", "withdraw"), Oracle, LoanCall("sync", <<>>)>>,
   <<Call("any", {}, <<In(Algo, 24)>>), Oracle, Call("any", {}, <<In(Algo, 24)>>), Call("folks2Staking", {"claim_rewards"}, <<In(Algo, 12)>>)>>,
   CreateLoan, <<OpUpCall, Named(Move(W, W, Algo, 0), "loan"), LoanCall("add_collateral", <<>>), Plain("folks2Deposit", "withdraw"), Oracle, LoanCall("sync", <<>>)>>,
   <<Oracle, LoanCall("borrow", <<In("A", 60)>>)>>, Repay2,
   <<Give("B", 60), Call("deflexRouter", {"swap_finalize"}, <<In("A", 60)>>)>> \o Repay2,
   <<OpUpCall, LoanCall("swap_begin", <<In("A", 60)>>), Give("A", 60), Call("any", {}, <<In("B", 60)>>), Give("B", 60), Folks2("deposit", <<>>),
     Oracle, Oracle, Oracle, LoanCall("swap_end", <<>>)>>,
   <<Oracle, LoanCall("reduce", <<In("A", 60)>>)>>, <<LoanCall("remove", <<>>), Move(W, W, Algo, 0)>>,
   <<Give(Algo, 60), Gov2("mint", <<In("gA", 60)>>), Gov2("governance", <<>>)>>, Burn2, Mint2, <<Give(Algo, 60), Gov2("galgo_mint", <<>>)>>,
   <<Gov2("unmint_premint", <<In(Algo, 60)>>), Gov2("governance", <<>>)>>, <<Gov2("claim_premint", <<In("gA", 60)>>)>>,
   <<Give("gA", 60), Gov2("unmint", <<In(Algo, 60)>>)>>, <<Gov2("claim_rewards", <<In(Algo, 60)>>)>>,
   <<Folks2("flash_begin", <<In(Algo, 60)>>)>> \o CreateLoan \o Mint2 \o <<Oracle, Give("gA", 60), Folks2("deposit", <<ToPool("fA", 60)>>), Oracle, Oracle,
     Oracle, LoanCall("borrow", <<In(Algo, 60)>>), Give(Algo, 60), Folks2("flash_end", <<>>)>>,
   <<Folks2("flash_begin", <<In(Algo, 60)>>), Oracle>> \o Repay2 \o <<Oracle, LoanCall("reduce", <<In("gA", 60)>>)>> \o Burn2
     \o <<Give(Algo, 60), Folks2("flash_end", <<>>)>>}

LendingGroups == AlgofiV1s \cup AlgofiV2s \cup FolksV1s \cup FolksV2s

\* Deposits and withdrawals of one token one after another, at different prices: all that
\* is there, less, more, and of two entries.
Accounts ==
  {<<a, b, c>> : a \in {V1Deposit(24, 2), V1Deposit(24, 4)}, b \in {V1Deposit(12, 4)}, c \in {V1Withdraw(24, 4), V1Withdraw(60, 8), V1Withdraw(96, 6)}}
  \cup {<<a, b, c>> : a \in {V2Deposit(24, 4), V2Stake(24, 12)}, b \in {V2Stake(18, 6), V2Withdraw(24, 8)}, c \in {V2Withdraw(30, 6), V2Unstake(15, 60)}}
  \cup {<<F1Deposit(24, 12), F1Deposit(14, 4), F1Withdraw(8, 30), F1Withdraw(6, 24)>>, <<F1Withdraw(12, 24), F1Deposit(24, 8), F1Withdraw(3, 15)>>,
        <<F2Deposit(24, 12), F2Withdraw(5, 20), F2Withdraw(7, 28)>>, <<F2Deposit(24, 12), F2Withdraw(15, 45), F2Withdraw(7, 28)>>}
\* What a dapp keeps from one group to the next.
Remembering ==
  {<<AddEscrow, AddCollateral>>, <<V1Optin("algofiStaking"), V1Optout("algofiStaking")>>, <<<<Give("A", 60), Plain("any", "some")>>, V1Optout("algofiStaking")>>}

Usual ==
  Transfers \cup Generics \cup Algodexes \cup Deflexes \cup Humbleswaps \cup Pacts \cup TinymanV1s \cup TinymanV2s
    \cup Vestiges \cup Yieldlies \cup LendingGroups

-----------------------------------------------------------------------------
\* Others like them.

Without(g, k) == [j \in 1 .. Len(g) - 1 |-> IF j < k THEN g[j] ELSE g[j + 1]]
Missing == UNION {{Without(g, k) : k \in DOMAIN g} : g \in {h \in Usual : Len(h) > 1}}

\* With another asset in the place of one.
Renamed(g, from, to) ==
  LET Ren(t) == [t EXCEPT !.asset = IF @ = from THEN to ELSE @, !.price.asset = IF @ = from THEN to ELSE @]
  IN  [k \in DOMAIN g |-> [Ren(g[k]) EXCEPT !.inner = [j \in DOMAIN g[k].inner |-> Ren(g[k].inner[j])]]]
Strange == {Renamed(g, a, b) : g \in Usual, a \in {"A", "B"}, b \in {"U", "X"}}

\* Rewards of the first transaction: those who receive ALGO have some too.
Rewarding(t) ==
  [t EXCEPT !.senderRewards = 6,
            !.receiverRewards = If(t.type = "pay" /\ t.receiver # t.sender, 12),
            !.closeRewards    = If(t.type = "pay" /\ t.close # "none", 24)]
Rewarded == {[g EXCEPT ![1] = Rewarding(@)] : g \in Transfers \cup Pacts \cup TinymanV1s \cup Yieldlies \cup AlgofiV1s \cup FolksV1s}

\* A list as a group of which the chain has `size` transactions.
Grouped(g, id, size) == [k \in DOMAIN g |-> [g[k] EXCEPT !.group = id, !.size = size, !.offset = k]]
Whole(g, id) == Grouped(g, id, Len(g))

\* Groups one after another.
InARow(groups) ==
  LET ids == <<"g", "h", "k", "l">>
      all[n \in 0 .. Len(groups)] == IF n = 0 THEN <<>> ELSE all[n - 1] \o Whole(groups[n], ids[n])
  IN  all[Len(groups)]
Reversed(g) == [k \in DOMAIN g |-> g[Len(g) + 1 - k]]

MCHistories ==
  {Whole(g, "g") : g \in Usual \cup Strange \cup Rewarded}
  \cup {Grouped(g, "g", Len(g) + 1) : g \in Missing}
  \cup Transfers
  \cup {Reversed(Whole(g, "g")) \o Whole(h, "h") : g \in Pacts, h \in Vestiges \cup {<<Give("A", 60)>>}}
  \cup {InARow(groups) : groups \in Accounts \cup Remembering}

Alphabetical ==
  <<"algodex", "algofiv1", "algofiv2", "deflex", "folksv1", "folksv2",
    "humbleswap", "pact", "tinymanv1", "tinymanv2", "vestige", "yieldly">>
MCOrders == {Alphabetical, Reversed(Alphabetical)}
=============================================================================
