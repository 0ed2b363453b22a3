------------------------------- MODULE SolReport -------------------------------
(***************************************************************************)
(* A Solana report (report_sol.py, sol/txids.py, sol/api_rpc.py,           *)
(* sol/processor.py): the signatures of the wallet and of its token        *)
(* accounts, page by page; the transactions, each handled by the first     *)
(* program that is known; and the same again for every stake account that  *)
(* the wallet has, or had by what its transactions say.                    *)
(***************************************************************************)
EXTENDS SolOrders

CONSTANTS
  Reports,    \* what may be reported on, and how: [ledger, config], where a ledger has its
              \* txs, oldest first, and staking, the stake accounts of today, and a config
              \* [limit, start, end (0 for none), excludeFailed, excludeAssociated]
  Owned,      \* the accounts that were ever theirs, closed ones too: [account -> set of accounts]
  PageSize,   \* LIMIT_PER_QUERY
  MaxQueries, \* ABSOLUTE_MAX_QUERIES
  MaxFaults   \* bound: answers without a result in one report

\* The wallet is no stake account: a precondition that the command line states ("Wallet
\* address (not staking address)", report_util.py) and wallet_exists would tell, but
\* neither api.csv nor api.csv_all looks.
ASSUME SolReportAssumption ==
  /\ PageSize \in Nat \ {0} /\ MaxQueries \in Nat \ {0} /\ MaxFaults \in Nat
  /\ Wallet \notin StakeAccounts
  /\ \A a \in DOMAIN TokenAccounts : IsFiniteSet(DOMAIN TokenAccounts[a])
  /\ \A report \in Reports :
       LET txs == report.ledger.txs
       IN  /\ Len(txs) \in Nat /\ DOMAIN txs = 1 .. Len(txs)
           /\ \A p \in DOMAIN txs : txs[p].time \in Nat /\ txs[p].delegated \subseteq StakeAccounts
           /\ report.ledger.staking \subseteq StakeAccounts
           /\ report.config.limit \in Nat /\ report.config.start \in Nat /\ report.config.end \in Nat

VARIABLES
  ledger,    \* the chain, which the report only reads
  config,    \* localconfig
  phase,     \* "accounts", "fetch", "staking", "process", "done" or "aborted"
  account,   \* the account whose transactions are fetched and handled
  staking,   \* stake accounts of the wallet, as far as they are known
  visited,   \* stake accounts that were reported on
  addresses, \* addresses of the account that are left to ask for
  query,     \* of the first of them: the queries, the last transaction they told (0 for
             \* none), and what is found
  txids,     \* signatures, newest first; then those to handle, oldest first
  books,     \* what the handlers keep of open orders and of stake accounts
  faults,    \* answers without a result
  handled    \* history: what was done with each transaction

fetchVars == <<addresses, query, txids>>
vars == <<ledger, config, phase, account, staking, visited, fetchVars, books, faults, handled>>

NoQuery == [before |-> 0, queries |-> 0, found |-> {}]

Init ==
  /\ \E report \in Reports : ledger = report.ledger /\ config = report.config
  /\ phase = "accounts" /\ account = Wallet
  /\ staking = {} /\ visited = {}
  /\ addresses = <<>> /\ query = NoQuery /\ txids = <<>>
  /\ books = NoBooks
  /\ faults = 0
  /\ handled = <<>>

-----------------------------------------------------------------------------
\* txids.py.

\* Transactions are places in the ledger, where a newer one has a higher place.
NewerThan(p, places) == {q \in places : q > p}
NewestFirst(places) == [k \in 1 .. Cardinality(places) |-> CHOOSE p \in places : Cardinality(NewerThan(p, places)) = k - 1]

\* getSignaturesForAddress: of the transactions that name the address the newest ones
\* before that of the query before.
Names(tx, address) == \E k \in DOMAIN tx.sol : tx.sol[k].account = address
Signatures(address) == {p \in DOMAIN ledger.txs : Names(ledger.txs[p], address)}
Page(address) ==
  LET rest == {p \in Signatures(address) : query.before = 0 \/ p < query.before}
  IN  {p \in rest : Cardinality(NewerThan(p, rest)) < PageSize}

\* get_txids, get_txids_for_accounts: the wallet, and its token accounts of today.
\* Without an answer on those there is no report.
FetchTokenAccounts ==
  /\ phase = "accounts"
  /\ \/ /\ addresses' = <<account>> \o (IF config.excludeAssociated THEN <<>> ELSE SetToSeq(DOMAIN Open(account)))
        /\ query' = NoQuery /\ txids' = <<>>
        /\ phase' = "fetch"
        /\ UNCHANGED faults
     \/ /\ ~config.excludeAssociated /\ faults < MaxFaults
        /\ faults' = faults + 1
        /\ phase' = "aborted"
        /\ UNCHANGED fetchVars
  /\ UNCHANGED <<ledger, config, account, staking, visited, books, handled>>

Limit(address) == IF address = account THEN config.limit ELSE config.limit \div 5

\* A transaction without a time counts as one of 2020.
TimeOf(tx) == IF tx.time = 0 THEN 1 ELSE tx.time
Kept(p) == ledger.txs[p].final /\ ~(config.excludeFailed /\ ledger.txs[p].meta = "err")
InDates(tx) == TimeOf(tx) >= config.start /\ (config.end = 0 \/ TimeOf(tx) <= config.end)

\* Mutant: a signature that an earlier address had is taken again.
NotSeen_Unasked(p, found) == TRUE

\* txids_seen.
NotSeen(p, found) == p \notin ToSet(txids) \cup found

\* The loop over one page, newest first: it returns behind the first transaction that is
\* too old or with which the limit is reached.
TakePage(page, found, limit) ==
  LET new  == {p \in page : InDates(ledger.txs[p]) /\ NotSeen(p, found)}
      ends == {p \in page : \/ TimeOf(ledger.txs[p]) < config.start
                            \/ Cardinality(found \cup (new \ 1 .. (p - 1))) >= limit}
  IN  [found |-> found \cup {p \in new : NewerThan(p, ends) = {}}, over |-> ends # {}]

\* The address is done: its signatures come after those of the others.
NextAddress(found) ==
  /\ txids' = txids \o NewestFirst(found)
  /\ addresses' = Tail(addresses)
  /\ query' = NoQuery

\* One query of _txids_one_account; no answer counts as the end of the history.
QueryPage ==
  /\ phase = "fetch" /\ addresses # <<>>
  /\ LET page  == Page(Head(addresses))
         taken == TakePage({p \in page : Kept(p)}, query.found, Limit(Head(addresses)))
     IN  \/ /\ IF taken.over \/ page = {} \/ query.queries + 1 = MaxQueries
               THEN NextAddress(taken.found)
               ELSE /\ query' = [before |-> Min(page), queries |-> query.queries + 1, found |-> taken.found]
                    /\ UNCHANGED <<addresses, txids>>
            /\ UNCHANGED faults
         \/ /\ faults < MaxFaults
            /\ faults' = faults + 1
            /\ NextAddress(query.found)
  /\ UNCHANGED <<ledger, config, phase, account, staking, visited, books, handled>>

\* Mutant: the newest first.
OldestFirst_Kept(found) == found

\* out.reverse()
OldestFirst(found) == Reverse(found)

FetchedAll ==
  /\ phase = "fetch" /\ addresses = <<>>
  /\ txids' = OldestFirst(txids)
  /\ phase' = IF account = Wallet THEN "staking" ELSE "process"
  /\ UNCHANGED <<ledger, config, account, staking, visited, addresses, query, books, faults, handled>>

\* fetch_staking_addresses: none without an answer.
FetchStaking ==
  /\ phase = "staking"
  /\ phase' = "process"
  /\ \/ staking' = staking \cup ledger.staking /\ UNCHANGED faults
     \/ faults < MaxFaults /\ faults' = faults + 1 /\ UNCHANGED staking
  /\ UNCHANGED <<ledger, config, account, visited, fetchVars, books, handled>>

-----------------------------------------------------------------------------
\* process_tx.

\* The handlers in the order in which they are tried, with what each asks for.
Routes(t) ==
  LET Calls(programs) == programs \cap t.tx.programs # {}
  IN << <<"wormhole",       Calls({"wormhole"})>>,
        <<"swap_v2",        Calls({"swap_v2"})>>,
        <<"serum_v3",       Calls({"serum_v3"})>>,
        <<"marinade",       Calls({"marinade"})>>,
        <<"marinade_native", IsMarinadeNative(t)>>,
        <<"unknown_swap",   Calls({"djv", "2kd"})>>,
        <<"route",          Calls({"pumpfun", "raydium_route"})>>,
        <<"degen_crash",    Calls({"degen_crash"})>>,
        <<"route",          Calls({"okx_dex"})>>,
        <<"token_close",    Calls({"token_burner"})>>,
        <<"raydium_lp",     Calls({"raydium_lp"})>>,
        <<"raydium_stake",  Calls({"raydium_stake"})>>,
        <<"orca",           Calls({"orca"})>>,
        <<"saber",          Calls({"saber"})>>,
        <<"saber_stable",   Calls({"saber_stable"})>>,
        <<"saber_farm",     Calls({"saber_farm"})>>,
        <<"limit",          Calls({"jupiter_limit"})>>,
        <<"limit2",         Calls({"jupiter_limit_v2"})>>,
        <<"dca",            Calls({"jupiter_dca"})>>,
        <<"perp",           Calls({"jupiter_perp"})>>,
        <<"jupiter",        Calls({"jupiter"})>>,
        <<"wen_airdrop",    Calls({"wen_airdrop"})>>,
        <<"metaplex",       Calls({"metaplex_candy"})>>,
        <<"transfers",      t.tx.programs \ {"compute_budget"} = {"token"} \/ Calls({"bubblegum"})>>,
        <<"nft",            Calls({"nft_market"})>>,
        <<"nft_mint",       IsNftMint(t)>>,
        <<"claim_tip",      Calls({"claim_tip"})>>,
        <<"vote",           Calls({"vote"})>>,
        <<"simple",         IsSimpleTx(t)>>,
        <<"init_account",   IsInitAccountTx(t)>>,
        <<"transfer",       IsTransfer(t)>>,
        <<"close_account",  IsCloseAccountTx(t)>>,
        <<"unknown",        TRUE>> >>

Chosen(t) == LET routes == Routes(t) IN SelectSeq(routes, LAMBDA r : r[2])[1][1]

\* is_staking_account, account_exists: what the node says of the account today (one that
\* was closed is none, and no answer says the same), asked once in a process.
IsStakingAccount(told) ==
  IF account \in DOMAIN books.stakes THEN books.stakes[account] ELSE told /\ account \in ledger.staking

ClaimTip(t, told) ==
  LET isStaking == IsStakingAccount(told)
      result    == HandleClaimStakingTip(t, isStaking)
  IN  IF AsksIfStaking(t) THEN Keep(result, "stakes", account, isStaking) ELSE result

\* told: whether the node answers, should the handler ask.
Handle(by, t, told) ==
  CASE by = "wormhole"        -> HandleWormhole(t)
    [] by = "swap_v2"         -> HandleProgramSwapV2(t)
    [] by = "serum_v3"        -> HandleSerumV3(t)
    [] by \in {"marinade", "metaplex", "nft_mint"} -> SwapOrTransfers(t)
    [] by = "unknown_swap"    -> HandleAsSwap(t)
    [] by = "route"           -> HandleRoute(t)
    [] by = "degen_crash"     -> HandleDegenCrash(t)
    [] by = "token_close"     -> HandleTokenClose(t)
    [] by = "raydium_lp"      -> HandleRaydiumLp(t)
    [] by = "raydium_stake"   -> HandleRaydiumStake(t)
    [] by = "orca"            -> HandleOrcaSwapV2(t)
    [] by = "saber"           -> HandleSaber(t)
    [] by = "saber_stable"    -> HandleSaberStableSwap(t)
    [] by = "saber_farm"      -> HandleSaberFarm(t)
    [] by = "limit"           -> HandleJupiterLimit(t, books.limit)
    [] by = "limit2"          -> HandleJupiterLimitV2(t, books.limit2)
    [] by = "dca"             -> HandleJupiterDca(t, books.dca)
    [] by = "perp"            -> HandleJupiterPerp(t)
    [] by = "jupiter"         -> HandleJupiterAggregator(t)
    [] by = "wen_airdrop"     -> HandleWenAirdrop(t)
    [] by = "nft"             -> HandleNftExchange(t)
    [] by = "claim_tip"       -> ClaimTip(t, told)
    [] by = "vote"            -> HandleVote(t)
    [] by = "transfer"        -> HandleTransfer(t)
    [] by \in {"simple", "marinade_native", "init_account", "close_account"} -> HandleGeneric(t)
    [] by \in {"transfers", "unknown"} -> HandleUnknownDetectTransfers(t)

\* After an exception the transfers are exported as unknown, behind what the handler
\* had exported.
Outcome(by, r) ==
  LET raised == IF r.ok THEN <<>> ELSE HandleUnknownDetectTransfers(r.t).rows
  IN  [by |-> by, rows |-> r.rows \o raised, kept |-> r.kept, errors |-> IF r.ok THEN 0 ELSE 1]
RoutedTo(by, t, told) == Outcome(by, Handle(by, t, told))
Processed(t, told) == RoutedTo(Chosen(t), t, told)

\* Without a time there is a row that says so, of a failed transaction none.
MissingTime == [by |-> "no_timestamp", rows |-> <<Row("missing", None, None, NoFee)>>, kept |-> {}, errors |-> 0]
Skipped     == [by |-> "failed", rows |-> <<>>, kept |-> {}, errors |-> 0]

\* Mutant: only stake accounts that are still there.
Delegated_Today(tx) == tx.delegated \cap ledger.staking

\* _get_staking_addresses.
Delegated(tx) == tx.delegated

HasRows(tx) == tx.time # 0 /\ tx.meta = "ok"

\* The handler asks the node whether the account is a stake account.
AsksNode(tx) ==
  /\ HasRows(tx) /\ account \notin DOMAIN books.stakes
  /\ LET t == Parsed(tx, account) IN Chosen(t) = "claim_tip" /\ AsksIfStaking(t)

ResultOf(tx, answered, told) ==
  IF ~answered \/ tx.time = 0 THEN MissingTime ELSE IF HasRows(tx) THEN Processed(Parsed(tx, account), told) ELSE Skipped

Export(p, result) ==
  /\ handled' = Append(handled, [account |-> account, p |-> p, by |-> result.by, rows |-> result.rows, errors |-> result.errors])
  /\ books' = Written(books, result.kept)

\* _fetch_and_process_txs: one transaction, for which the node may have no answer, or
\* none when the handler asks it (told).
ProcessTx ==
  /\ phase = "process" /\ txids # <<>>
  /\ \E answered, told \in BOOLEAN :
       LET tx == ledger.txs[Head(txids)]
       IN  /\ ~told => answered /\ AsksNode(tx)
           /\ (answered /\ told) \/ faults < MaxFaults
           /\ faults' = IF answered /\ told THEN faults ELSE faults + 1
           /\ Export(Head(txids), ResultOf(tx, answered, told))
           /\ staking' = IF answered /\ HasRows(tx) /\ account = Wallet THEN staking \cup Delegated(tx) ELSE staking
  /\ txids' = Tail(txids)
  /\ UNCHANGED <<ledger, config, phase, account, visited, addresses, query>>

\* parse_tx asks for the token accounts if nothing has before, outside of the try: without
\* an answer there is no report.
ParseFails ==
  /\ phase = "process" /\ txids # <<>> /\ config.excludeAssociated
  /\ HasRows(ledger.txs[Head(txids)])
  /\ \A k \in DOMAIN handled : handled[k].account = account => handled[k].by \in {"no_timestamp", "failed"}
  /\ faults < MaxFaults
  /\ faults' = faults + 1
  /\ phase' = "aborted"
  /\ UNCHANGED <<ledger, config, account, staking, visited, fetchVars, books, handled>>

\* The next stake account of the set, or the end.
NextAccount ==
  /\ phase = "process" /\ txids = <<>>
  /\ \/ \E next \in staking \ visited :
          /\ account' = next /\ visited' = visited \cup {next}
          /\ phase' = "accounts"
     \/ /\ staking \subseteq visited
        /\ phase' = "done"
        /\ UNCHANGED <<account, visited>>
  /\ UNCHANGED <<ledger, config, staking, fetchVars, books, faults, handled>>

Next == FetchTokenAccounts \/ QueryPage \/ FetchedAll \/ FetchStaking \/ ProcessTx \/ ParseFails \/ NextAccount

Ended == phase \in {"done", "aborted"}

\* WF_vars(Next), its ENABLED written out.
Fairness == []<>Ended \/ []<><<Next>>_vars

Spec == Init /\ [][Next]_vars /\ Fairness

-----------------------------------------------------------------------------

Told(rows, c) ==
  LET Of(r) == Amounts(<<r.received>>, c) - Amounts(<<r.sent>>, c) - (IF c = Sol /\ r.fee # NoFee THEN r.fee ELSE 0)
  IN  FoldLeft(LAMBDA sum, r : sum + Of(r), 0, rows)

Tx(h) == ledger.txs[h.p]

\* What the chain says of the accounts that are the account's, closed ones too.
Changed(h, c) ==
  LET own == {h.account} \cup (IF h.account \in DOMAIN Owned THEN Owned[h.account] ELSE {})
  IN  Amounts(SelectSeq(BalanceChanges(Tx(h)), LAMBDA change : change.account \in own), c)
SmallPaid(h) == Amounts(SmallOut(TransfersOut(Tx(h), h.account)), Sol)
Moved(h) == {Tx(h).tokens[k].currency : k \in DOMAIN Tx(h).tokens} \ {Sol}
Gave(h)  == {h.rows[k].sent.currency : k \in DOMAIN h.rows}
Got(h)   == {h.rows[k].received.currency : k \in DOMAIN h.rows}

\* No row says what moved: of the transaction as a whole it is not known, or only its
\* price is told, or the orders of Jupiter are told in all of their transactions.
PriceOnly(h) == h.by \in {"simple", "marinade_native", "init_account", "close_account", "no_timestamp", "failed"}
OfSeries(h)  == h.by \in {"dca", "limit", "limit2"}
Untold(h)    == \E k \in DOMAIN h.rows : h.rows[k].kind = "unknown" /\ h.rows[k].sent = None /\ h.rows[k].received = None

\* A closed account that no instruction links to the account is not seen, unless what
\* it held was burnt.
Unseen(h) ==
  /\ h.by # "token_close"
  /\ \E k \in DOMAIN Tx(h).tokens :
       LET at == Tx(h).tokens[k].account
       IN  h.account \in DOMAIN Owned /\ at \in Owned[h.account] \ WalletAccounts(Tx(h), h.account)

\* The third leg of a swap is left out by Orca and by program_swap_v2.
LegLeftOut(h) ==
  h.by \in {"orca", "swap_v2"} /\ Len(TransfersIn(Tx(h), h.account)) + Len(WithoutFees(TransfersOut(Tx(h), h.account))) = 3

\* What was paid is a leg of a row and its fee too, or the fee of several rows; or what
\* was received has the fee taken off already.
FeeTwice(h) ==
  \/ h.by = "perp" /\ Sol \in Gave(h) /\ Got(h) \subseteq {"none"}
  \/ h.by = "raydium_stake" /\ Len(h.rows) > 1
  \/ h.by = "jupiter" /\ Sol \in Got(h)

KnownGap(h) == Untold(h) \/ PriceOnly(h) \/ OfSeries(h) \/ Unseen(h) \/ LegLeftOut(h) \/ FeeTwice(h)

\* What the rows of a transaction tell of a token is what the accounts of the wallet
\* got or gave.  Of SOL no more is told to be spent than was, and what is not told are
\* small payments that were taken for fees: the code moves SOL between the legs and
\* the fee of a row, and would count it twice (detect_fees, reset_fee_to_gas).
AddsUp ==
  handled # <<>> /\ ~KnownGap(Last(handled)) =>
    LET h == Last(handled)
        missing == Told(h.rows, Sol) - Changed(h, Sol)
    IN  /\ \A c \in Moved(h) : Told(h.rows, c) = Changed(h, c)
        /\ missing \in 0 .. SmallPaid(h)

\* Every call was answered, no limit was in the way, and the date to start from, if any,
\* is not compared with that of a transaction without a time, where the history would end.
NothingCut ==
  /\ faults = 0
  /\ config.limit >= 5 * Len(ledger.txs)
  /\ MaxQueries * PageSize >= Len(ledger.txs)
  /\ \A p, q \in DOMAIN ledger.txs : p < q => TimeOf(ledger.txs[p]) <= TimeOf(ledger.txs[q]) \/ config.start = 0

SumOver(S, Of(_)) == FoldLeft(LAMBDA sum, k : sum + Of(k), 0, SetToSeq(S))

\* The transactions of an order, from the one that opens it to the one that closes it.
OrderNames == {ledger.txs[p].order : p \in DOMAIN ledger.txs} \ {"none"}
PartsOf(order) == {k \in DOMAIN handled : handled[k].account = Wallet /\ Tx(handled[k]).order = order}
WholeOrder(order) ==
  LET done == {handled[k].p : k \in PartsOf(order)}
  IN  /\ done = {p \in DOMAIN ledger.txs : ledger.txs[p].order = order}
      /\ \A k \in PartsOf(order) : OfSeries(handled[k]) /\ handled[k].errors = 0

\* Version 2 of the limit orders does not tell what comes back with the last part.  The
\* fee of a recurring order that sells SOL is what was sold too, and over SaneFee is not
\* told.
RefundUntold(order) ==
  \E k \in PartsOf(order) : handled[k].by = "limit2" /\ Got(handled[k]) \cap {"none", Sol} = {} /\ Changed(handled[k], Sol) > 0
SoldAsFee(order) ==
  \E k \in PartsOf(order) : handled[k].by = "dca" /\ Sol \in Gave(handled[k]) /\ Got(handled[k]) \cap {"none"} = {}

\* Over all of its transactions the rows of an order tell what the wallet gave and got
\* for it: what is kept when it is opened comes back, but for the fee, when it is
\* closed (DcaSeries, LimitOrder).  When the history of the wallet is cut off, what its
\* token accounts had of the rest is handled in another order, and the fee of an order
\* that is closed before it is opened is lost.
SeriesAddUp ==
  \A order \in OrderNames :
    NothingCut /\ WholeOrder(order) /\ ~RefundUntold(order) /\ ~SoldAsFee(order) =>
      \A c \in UNION {Moved(handled[k]) : k \in PartsOf(order)} \cup {Sol} :
        SumOver(PartsOf(order), LAMBDA k : Told(handled[k].rows, c)) = SumOver(PartsOf(order), LAMBDA k : Changed(handled[k], c))

\* The transactions that a report on an account should have.
Asked(a) == {a} \cup (IF config.excludeAssociated THEN {} ELSE DOMAIN Open(a))
Wanted(a) == {p \in DOMAIN ledger.txs :
                /\ Kept(p) /\ InDates(ledger.txs[p])
                /\ \E address \in Asked(a) : Names(ledger.txs[p], address)}
DoneFor(a) == {k \in DOMAIN handled : handled[k].account = a}

\* No transaction is handled twice for one account, although the wallet and its token
\* accounts are asked for separately and share transactions; and when no limit was
\* reached and every call was answered, none that the dates ask for is missing.
OnceEach ==
  /\ \A j, k \in DOMAIN handled :
       j # k /\ handled[j].account = handled[k].account => handled[j].p # handled[k].p
  /\ phase = "done" /\ NothingCut =>
       \A a \in {Wallet} \cup visited : {handled[k].p : k \in DoneFor(a)} = Wanted(a)

\* Of the transactions that name the account itself an older one is handled before a
\* newer one: the deposit of an order is known when the order is closed.  It does not
\* hold of those that only a token account has, which all come before, nor when the
\* history of the account was cut off and its token accounts have the rest.
OldestBefore ==
  \A j, k \in DOMAIN handled :
    LET a == handled[j].account
    IN  NothingCut /\ j < k /\ handled[k].account = a /\ Names(Tx(handled[j]), a) /\ Names(Tx(handled[k]), a)
          => handled[j].p < handled[k].p

\* Every stake account that the node knows, or that a transaction of the wallet has
\* delegated and that is empty today, is reported on in the end.
ToldOf(s) ==
  s \in staking \/ \E k \in DOMAIN handled :
    /\ handled[k].account = Wallet /\ handled[k].by \notin {"no_timestamp", "failed"}
    /\ s \in Tx(handled[k]).delegated
StakeAccountsToo == \A s \in StakeAccounts : ToldOf(s) ~> (s \in visited \/ phase = "aborted")

=============================================================================
