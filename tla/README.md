# Verification of staketaxcsv

staketaxcsv turns the history of a wallet on one of about forty chains into the CSV
files of some twenty-five tax programs. This directory holds TLA+ models of the parts
of it where an error is silent (a missing transaction, a fee counted twice, a reward
that was never earned), the TLC runs that check them on small instances and the
theorems that TLAPS proves about them for all instances.

Paths below are relative to `src/src/staketaxcsv/`. `PROJECT.json` lists the
components, runs, hazards and theorems, and names the lines of the source that every
definition translates.

    tlc -workers 2 -config exporter_files.cfg MCExporter.tla
    tlapm StakingRewardsDB_proofs.tla

## 1. The system

A report is one sequential call, from a command line (`report_<chain>.py`) or from a
program (`api.py`):

    api.csv / csv_all / run_report
      read_options          options into localconfig (fields of a class)
      txhistory
        get_txs             pages of the wallet's history, with retries
        process_txs         each transaction -> Rows, exceptions contained
      Exporter.export_*     rows -> one CSV file, or one per format

Nothing inside a report runs concurrently. What makes it hard all the same:

- the outside moves on between two of its calls: histories grow while they are paged,
  epochs end, servers time out, answer with errors or refuse a page as too large;
- state outlives the call that made it: class-level `localconfig`, caches and sets of
  modules, files and a DynamoDB table, while a process may end at any point;
- the handlers share fields they edit (`txinfo.fee`, the row list and its
  `is_reverse`), so what one shows depends on those before it;
- exceptions are caught at several levels, each replacing what was lost by something
  else, and some are not caught;
- the one parallel part, the job that fills the table of SOL staking rewards, writes
  with a pool of threads items it read before, next to the reports that read them.

### Inventory

| Component | State | Operations | Interacts with | Correct when |
|---|---|---|---|---|
| SOL staking rewards table (`sol/staking_rewards_db.py`, `sol/staking_rewards.py`) | items per address, marks of epochs, copies in memory, `EPOCHS_ALL` | `rewards_all_users_write_db`, `set_epoch_timestamp`, `get_rewards_for_address` | DynamoDB, RPC node, SOL reports | a marked epoch is complete, a report is exact, nothing recorded is lost |
| Transaction history fetch (`common/ibc/api_*.py`, `luna1/api_fcd.py`, `algo/api/indexer.py`, `common/query.py`) | page, offset or cursor, attempts, list so far | `get_txs_all`, one-by-one pages, retries, `remove_duplicates` | servers whose lists grow | none missed, each once, in order |
| Cosmos processing (`common/ibc/processor.py`, `handle*.py`, `make_tx.py`, `<chain>/processor.py`) | `txinfo.fee`, `Deposits.txs`, `_handled_fee_spend_tx_hashes` | `process_tx`, `handle_message`, one handler per message type | Exporter, LCD queries | money conserved, fee once, no transaction without a row |
| CSV export (`common/Exporter.py`, `exporter_waltio.py`, `ExporterTypes.py`) | `rows`, `is_reverse`, `lp_treatment` | `ingest_row`, `sort_rows`, 25 `export_*`, `ingest_csv` | processors, `api.py` | every file tells the same money, whatever was written before |
| Algorand reports over time (`report_algo.py`, `algo/config_algo.py`) | `min_round` in memory and in a file per wallet | `read_options`, `_read/_write_persistent_config`, `txhistory` | indexer, Exporter | no transaction skipped, none twice |
| Algorand groups and dapps (`algo/`) | index into the history, group being cut | `process_txs`, `handle_transaction_group`, 12 dapps | indexer, Exporter, cost basis | each transaction in one group, each fee once |
| Algorand cost basis (`algo/cost_basis.py`) | a FIFO queue per dapp and token | `deposit`, `withdraw`, `_buy`, `_sell` | lending dapps | what is sold came in first, interest is what exceeds its cost |
| Solana transactions (`sol/processor.py`, `parser.py`, `handle_*.py`) | `txinfo`, the open orders of `handle_jupiter_*.py` | `parse_tx`, 33 routes by program, `detect_fees` | RPC, Exporter | rows of a transaction, and of an order over all its transactions, tell what the accounts of the wallet got and gave |
| Solana ids and accounts (`sol/txids.py`, `report_sol.py`, `api_rpc.py`) | token accounts, `txids_seen`, stake accounts found | pages, limits, dates, one more report per stake account | RPC | each transaction once, oldest first, every stake account reported on |
| Terra Classic (`luna1/`) | - | `process_txs`, handlers by execute type | FCD, Exporter | fees in several currencies once |
| Osmosis (`osmo/`) | `LockedTokens`, `PositionLiquidity`, `LimitOrder.orders` | swaps, pools, superfluid, concentrated liquidity, eight kinds of contracts | LCD, Exporter | coins that are told later than they move, and the liquidity of positions, add up over a report |
| Cosmos Hub, Fetch.ai (`atom/`, `fet/`) | - | archives of earlier chains | several servers | chains meet without gap or overlap |
| Terra 2, Kujira contracts (`luna2/`, `kuji/`) | contract cache | handlers by contract | LCD | contained exceptions |
| Token names (`common/ibc/denoms.py`, `common/Cache.py`) | `IBCAddrs`, DynamoDB `Cache` | `_set_merge` | all Cosmos reports | no entry lost |
| Koinly null symbols (`common/exporter_koinly.py`) | `NullMap` file | `get_null_symbol`, `flush` | koinly export | a symbol keeps its number |
| Options, errors (`common/report_util.py`, `ErrorCounter.py`) | `localconfig`, counters | `read_common_options`, `parse_args` | all | one report does not leak into the next |
| Balance histories, IoTeX, genesis airdrops, decoding, progress | - | queries and tables | - | - |

## 2. Modules

| Module | Models | State and actions |
|---|---|---|
| `StakingRewardsDB` | the job and the reports of the rewards table | `item`, `marks` are the table; per job `pc`, batch `x`, `copy`, `unmarked`; per report `epochsAll`, `rmarks`, `out`. One action per access to the table, so that jobs and reports interleave between any two. `lost`, `unseen` and `excused` are a record of what faults and second jobs took away, which no guard and no other variable depends on |
| `RewardsService` | what the table promises: epochs published in order, a report answered at one instant | the abstract specification |
| `MCStakingRewardsDB` | refinement mapping `published <- marks`, `answer <- out`, ... | `ServiceSpec` is checked as a property |
| `TxFetch` | `get_txs_all` of seven clients | `hist` grows by `NewTx` between requests; `Answer`, `TooLarge`, `AnswerOne`, `Fail`, `AnswerError` are what a request may come to |
| `AlgoReports` | reports of wallets one after the other, in processes that end | `min_round`, `limit`, `options` are `localconfig`; `file` is the config file; one action per call of the report |
| `Places` | the elements of a sequence at some of its places: a loop that takes some elements of a list | operator |
| `ExportRows`, `ExportFormats` | rows, their order and treatment; the lines of every format | operators |
| `Exporter` | the object from the first row to the last file | `rows`, `isReverse`, `file`; `IngestTx`, `FinishHistory`, `StartExport`, `Export`, `LoadCsv` |
| `CosmosRows` | what each handler makes of a message | operators: rows ingested, fee left, raised or not |
| `OsmoRows` | the handlers of Osmosis and of the contracts it knows, and what they remember of locks, positions and orders | operators |
| `CosmosProcessing` | `process_tx` of the chains | `fee`, `rows`; `deposits`, `handled`, `holdings` are what the modules remember; one action per handler, for Osmosis `OsmoMessage` and `OsmoExec` with the choice in `HandleOsmo` (`HandleLp`, `HandlePosition`, `HandleOsmoContract`) |
| `AlgoTx`, `AlgoRows` | Algorand transactions and what the code asks of one, amounts of assets; the rows of `export_tx.py` | operators |
| `AlgoTransfers` | groups that need no dapp: transfers, swaps and deposits of any market maker | operators |
| `AlgoDapps`, `AlgoPools` | what eight dapps recognise as theirs, and the rows they make | operators |
| `AlgoCostBasis` | the FIFO queues of tokens that stand for deposits | operators over `tracker`, which `AlgoGroups` keeps per dapp |
| `AlgoLending`, `AlgofiV1`, `AlgofiV2`, `FolksV1`, `FolksV2` | the four lending dapps; `AlgoLending` is what they share | operators |
| `AlgoGroups` | `process_txs` and `handle_transaction_group` | `i`, `group`, `asked` dapps, `rows`, `errors` of the group; `NextGroup` cuts one, `AskDapp` asks one dapp, `Generic` is what is left |
| `SolTx`, `SolRows` | what `parse_tx` makes of a transaction: transfers, fees, links between accounts; the rows of `make_tx.py` | operators |
| `SolDapps`, `SolOrders` | the handlers of single programs; those of the recurring and limit orders, with the books they keep | operators |
| `SolReport` | `report_sol.txhistory` | `phase` is the place in the program, `account` the wallet or the stake account reported on; one action per call of the node, `ProcessTx` handles one transaction by the first route that takes it |
| `MC*` | instances for TLC | constants only |
| `StakingRewardsDB_proofs`, `TxFetch_proofs`, `AlgoReports_proofs`, `AlgoGroups_proofs`, `Exporter_proofs`, `CosmosProcessing_proofs`, `SolReport_proofs` | theorems about the module of the name and the operators it uses (the sort and the choice of rows in `Exporter_proofs`, the handlers in `CosmosProcessing_proofs`) | section 5 |
| `NatLemmas` | lemmas: naturals, counting and sequences | section 5 |

`AlgoReports` uses the answer of the indexer as `TxFetch` finds it: what an answer
lacks is the oldest part (`OnlyOldestCut`); what its `Process` does to that answer is
`AlgoGroups`. `CosmosProcessing` ends where `Exporter`
begins, with the rows of transactions; the rows of `MCExporter` are those that the
handlers make.

The abstractions that matter:

- a reward is a pair of an address and an epoch, and an item the set of epochs it has
  an amount for; a batch read or write of one address is one step;
- a transaction of a history is its number, a page a sequence of places of a list.
  Mintscan, FCD and the indexer give a cursor that stands for the last transaction;
  the LCD counts from the newest, RPC from the oldest;
- an amount is a small natural, 0 standing for both `""` and 0, which the exporters do
  not tell apart; labels, dates, urls and headers of files are left out;
- a message has a type that stands for the types that are handled alike, the flows of
  coins of its events, and flags for what decides a branch (`broken`: the handler
  raises; `null`: its `msg_index` is null; `self`, `foreign`, `staking`, `astroport`,
  `vote`; on Osmosis the contract and what is asked of it). The handlers for queries of
  contracts are what the flags say. What else a handler of Osmosis reads from the events
  is `event`: an id, a liquidity, and the rewards, filled orders or actions of Mars;
- an Algorand transaction has its inner transactions as one sequence, depth first, each
  with its depth, where the code recurses; applications, arguments and notes are
  labels, and an argument that two dapps encode alike has one label. A handler is an
  operator that gives rows and whether it came to its end;
- a `Decimal` price of the cost basis is a multiple of 1 / `PriceUnit`, a rate that a
  lending application reports one of 1 / `RateUnit`. The keys of AlgoFi's and Folks'
  state are labels;
- SOL is counted in units of 5000 lamports, the price of one signature, so that the
  thresholds of `detect_fees` are small numbers; programs, types of instructions and
  lines of the log are labels. What the chain says of a transaction is the change of
  each account (`sol`, `tokens`), from which the code's view and that of the
  properties are computed separately: the properties count all the accounts that ever
  were the wallet's (`Owned`), the code those it finds.

## 3. Runs

| Run | Question | Result |
|---|---|---|
| `rewards_db_safe` | one job that crashes and restarts anywhere beside a report, a sound environment | `MarkedEpochsComplete`, `ReportExact`, `MarksHaveNoGap`, `RecordedRewardsKept` and the refinement `ServiceSpec` hold |
| `rewards_db_faulty` | two jobs at once beside a report, and all the faults | a report shows nothing but what was earned and lacks only what was lost (`ReportLacksOnlyLost`), and a run completes or fails (`RunCompletes`) |
| `rewards_db_lost_write` | a write task that raises | **violated**: its epoch is marked all the same |
| `fetch_all` | every client, growing lists, retries, error answers, too large pages | `NoneMissed`, `EachOnceInOrder`, `OnlyOldestCut` hold |
| `exporter_files` | two transactions of thirteen kinds, all liquidity treatments, one file or all of them, default CSV loaded again | seven properties of the files hold |
| `exporter_migrate` | a message that leaves one pool and enters another, in a Waltio file | **violated**: the deposit is in no line |
| `algo_reports` | two wallets, with and without `track_block`, windows, limits, failures, processes that end | `ReportedOnce`, `NoneSkippedIfSmooth`, `FullReport` hold |
| `algo_reports_exit` | a process that ends between saving the round and the CSV | **violated** (`NoneSkipped`): the transactions are in no report |
| `cosmos_rows` | transactions of one or two messages of ten chains; whole reports of Osmosis in which locks, orders and positions are opened and closed | `MoneyConserved`, `FeeOnce`, `NoFeeAfterReceipt`, `NoneMissing`, `DepositsOnce`; `ReportAddsUp` and `LiquidityAddsUp` over reports hold |
| `cosmos_fee` | two messages of Sentinel in one transaction | **violated** (`FeeCountedOnce`): a session and a subscription both show the fee |
| `algo_groups` | groups of transfers, market makers and twelve dapps, also damaged or odd, alone and in pairs; deposits and withdrawals of lending dapps in a row | `Balanced`, `EachOnce`, `NoRivals`, `FirstInFirstOut` and `Processed` hold |
| `sol_rows` | transactions of 29 shapes under every program, orders from their opening to their end, histories of a wallet with stake accounts, calls that fail | `AddsUp`, `SeriesAddUp`, `OnceEach`, `OldestBefore` and `StakeAccountsToo` hold |

Every property of a passing run has a mutant: a change of a definition as a plausible
bug would make it (`Batch_InProgress`, `Offset_Gap`, `NextRound_Same`, ...), after
which TLC finds the property violated. The mutants stand before the definitions they
change and are used nowhere.

### Bounds

- Rewards: `MaxEpoch` 3 with batches of `NBlocks` 2 gives a full batch, a short one
  and a restart in the middle of either; two addresses tell an item that is written
  from one that is not yet. Two jobs need one address and two epochs to overwrite each
  other; in `rewards_db_faulty` a batch is one epoch, so that a run has two batches and
  the other job may write between them.
- Fetch: pages of `Limit` 2, `MaxTxs` 3 (two pages, the second longer than needed),
  `Retries` 2, and a history of up to 5 transactions, so that it may be longer than the
  limit and grow by up to five during the fetch, on two lists that may share
  transactions. `retries` is 3 or 4 in the code; only whether attempts are left matters.
- Exporter: `MaxTxs` 2 is the least for order, equal timestamps and groups; the kinds
  of rows are those that some format treats differently, with the fee in the currency of
  the amount and in another. Three liquidity treatments, all 25 formats.
- Algorand reports: `MaxRound` 3 allows a transaction before, during and after a
  report; two wallets share one `localconfig`. `DefaultLimit` 4 exceeds `MaxRound`,
  the option `limit` 1 does not.
- Cosmos: two messages are enough for one to change the fee or the memory that the
  other sees; a second transaction only for Injective, whose memory spans transactions.
  `ManyContracts` is 100 in Juno's code and 2 here; `MaxRows` 2. A `MsgExec` wraps
  delegations, claims and sends, one or several of them in a transaction.
- Osmosis: every message type and every call of a contract in the shapes that its
  handler expects and in others, alone and beside a vote or a transfer; and 22 histories of two to
  six messages, each in transactions of its own or with the first two in one: two locks
  (plain, superfluid, inside a `MsgExec`) that end in the other order, two orders of
  each market that are executed, filled in parts, claimed together or with those of
  others, or cancelled, positions that are added to twice with a withdrawal between.
  Amounts divide by the rows they are split between (2 and 3).
- Algorand groups: one group for each operation that a dapp recognises, as its handler
  expects it, plus each of these with any one transaction missing, with one asset
  unknown to the indexer or excluded, and with participation rewards; pairs of groups,
  the first newest first, for what an exception in one does to the next. Amounts are
  even and small, `Dust` is 2 for 100 microALGO; the wallet's own fees are 6 and others'
  are 2, so that a fee counted for the wrong party, twice or not at all shows. The
  dapps are asked in alphabetical and in reverse order. `PriceUnit` 120 divides by all
  the amounts of the run, so that no price is rounded before the code rounds its sum;
  `RateUnit` 2 gives rates above and below one; `InitTxns` 2 stands for the 12 calls
  that open a group of AlgoFi 1.
- Cost basis: two or three deposits and withdrawals of one token, of unequal prices,
  so that a withdrawal takes an entry in part, all of one and part of the next, or more
  than there is.
- Solana: the 29 shapes are what one transaction may do to the wallet (nothing, one leg,
  two or three, SOL on either side, amounts on both sides of each threshold), each
  under each program, as each type of instruction, and with another payer. Orders
  have up to three executions, ended by the last one, by cancelling or by closing.
  Histories have up to eight transactions, of which some only a token account has, with
  a stake account that was closed since and one that was not, which claim tips;
  `PageSize` 3 and `MaxQueries` 3 (1000 and 200 in the code) make them end in the
  middle of a page, at its end and at the bound. A setting `limit` 3 cuts them off,
  40 does not (a token account gets a fifth of it). One call without an answer (`MaxFaults`) at any place.

`CHECK_DEADLOCK FALSE` is set where a program is simply over when its one report or
fetch is (`exporter_*`, `fetch_all`, `algo_reports*`,
`algo_groups`, `sol_rows`). The Cosmos model stutters
explicitly once it is done, and in the rewards model a job can always be started
again, so deadlock is checked there.

### Fairness

Three properties need any. `Processed` of `AlgoGroups` and `StakeAccountsToo` of
`SolReport` have weak fairness of `Next`, with its `ENABLED` written out (`Fairness`):
a report is a loop of one thread, which makes its next step whenever it has one. For
`RunCompletes`, `FairSpec` adds
weak fairness of `RunStep(w)` for each
job. A job is a sequential program in a process of its own, so the operating system
runs its next step; no fairness is assumed for starting a job, for the end of an epoch,
for crashes or for reports. `RunCompletes` accepts a run that fails. Every temporal
property of the other runs is a safety property.

## 4. What the code does that its words do not say

Checked by a run, quoted in `PROJECT.json` "findings":

- `sol/staking_rewards_db.py`: `as_completed` is never asked for results, so a write
  that raised is followed by the mark of its epoch, which then counts as complete.
- `common/exporter_waltio.py:164`: rows are grouped by txid and label but remembered by
  txid, so a message that withdraws and deposits loses its deposit.
- `report_algo.py`: the round is saved before the CSV is written.
- `dvpn/processor.py:120`: the fee of a subscription is shown for every message.

Met while modelling, without a run of their own (the instances leave them out, as the
comments of the constants and properties say):

- rewards: `batch_get_item` may leave keys unprocessed; the missing item is then
  overwritten by one with the new epochs only (`staking_rewards_db.py:201`); two jobs
  overwrite each other's items (`:230`), so that `MarkedEpochsComplete`, `ReportExact`
  and `RecordedRewardsKept` fail with either, and what holds is `ReportLacksOnlyLost`: a report
  lacks a reward only if an RPC error kept it from looking for a mark, or the table had
  lost it to a missed block, a write that raised, a read that was cut short or the other
  job's write; `EPOCHS_ALL` of a first report omits the
  epochs that end before a second one (`staking_rewards_common.py:28`);
- fetch: any status but 200 of the Algorand indexer is taken for the end of the history
  (`algo/api/indexer.py:118`), a body without transactions for that of Mintscan;
  transactions of one timestamp stay newest first after the stable sort of a
  descending list;
- exporter: cointracking folds fees into the amounts of a line or gives them a line of
  their own, but leaves that of a transfer or repayment received in its column
  (`Exporter.py:518`), and not that of a loan, though both lines have the type Deposit:
  `FilesConserve` reads the amounts that way, and `FeesShownOnce` finds the fee in its
  column; comments that speak of a "multicurrency fee" (`:516`) or of a reward or a failed transaction
  in a Waltio row (`exporter_waltio.py:324`) are left out with the other comments;
  Waltio divides a fee by two in one place (`exporter_waltio.py:145`, `:191`)
  and repeats ids (`:340`); `GIFT_RECEIVED` is listed as exportable
  (`ExporterTypes.py:75`) and dropped by every other format (`:217`); a `REALIZED_PNL`
  row of 0 makes cointracker raise (`Exporter.py:633`);
- Algorand reports: `min_round` of one wallet is used for the next one without a file
  (`report_algo.py:51`); the file is emptied before it is written (`:61`);
- Cosmos: `common/make_tx.py:331` appends the list to itself, so a contract transaction
  without rows has no row for its fee; a transaction without logs has no messages and
  no rows (`ibc/processor.py:39`), unless it is an authz; wrapped messages without logs
  keep the fee and start their indexes anew in every `MsgExec`; a message handled by
  `common/ibc` that raises loses its transfers; the refund of a `MsgTimeout` is in no
  row; legacy multisends have no transfers; a second vote or send of a transaction
  repeats the fee (`ibc/make_tx.py:76`); a liquid stake on Stride that also claims shows
  the fee twice; the query for a contract on Kujira and Terra 2 and an assertion on
  Sentinel (`dvpn/processor.py:117`) are in no `try`; `Deposits.txs` outlives a report,
  so a second one in the process finds all deposits counted;
- Osmosis (`OsmoConserving`, `Settled`, `Liquid`, `OneFeeRow`, which leave these out):
  a lock that is topped up keeps its id and is remembered as it was first
  (`osmo/handle_lp.py:23`), so that the rest never comes back; what a superfluid unbond
  releases is in no row; `handle_claim` takes a reward out of the transfers but not out
  of their net, so that a swap or a pool of unexpected shape tells the reward twice
  (`handle_claim.py:15`, `handle_unknown.py:7`), and the row of the reward and the
  first of the others both show the fee ("only 1 row has fee", `handle_lp.py:53`); the
  `raise` of `handle_add_to_position` stands behind a `return`
  (`handle_concentrated_lp.py:131`), so other shapes have no row, as have claims of
  filled orders (`contracts/cosmwasmpool.py:148`); what comes in with a new position is
  in no row; a migration tells the old pool's token for the new position
  (`handle_concentrated_lp.py:303`), shows the fee twice, has no row for what leaves if
  three coins do, and if nothing is deposited leaves its rows beside those of the
  detected transfers; a position that was open before the report is added to as if it
  had been empty; two actions of one kind of Mars both have the amounts of the first
  (`contracts/mars_credit_manager.py:143`); a second message of ICNS loses its payment;
  a withdrawal from Mars clears the fee of one's own transaction
  (`contracts/mars_red_bank.py:40`); other messages than locks and joins inside a
  `MsgExec` have no row; and all three memories outlive a report, so that a second one in the
  process fails the assertion of `create_position`;
- Algorand groups (`KnownGap`, `LeftOut`, which say where rows and chain need not
  agree): the opening and closing of AlgoDex orders, the escrow of a Pact farm and the
  deposit that a Yieldly pool gives back when it is left are in no row, nor are the pool
  tokens of a HumbleSwap farm; a Pera fee outside a swap is a spend and a send
  (`handle_transfer.py:174`); a payment to oneself that closes the account to another
  loses the remainder (`:123`); the fee of a call with inner transactions is in no row
  unless a dapp handles it (`:104`). Rows of a dapp that raised stay beside those of the
  next attempt (`dapp/pact.py:403`). An opt-in in front of a Pact or Tinyman stake would
  be taken for the stake (`dapp/pact.py:384`, `dapp/tinymanv2.py:354`): no group of the
  run has one;
- lending (`LendingGap`, `LeftOut`): a liquidation on AlgoFi 2 names the asset lent for
  the one received; an airdrop that is locked at once has no row of its transfer;
  claims of gALGO have one side only; rewards of the sender are taken for the
  wallet's; the payment that opts in to governance is in no row; the tokens that Folks
  gives are in no row, by intention, as are the storage accounts' funds;
- Solana amounts (`KnownGap`): `_transfers_net` computes what its comment promises
  ("Combines like currencies", `sol/parser.py:460`) and returns its arguments;
  `detect_fees` (`sol/make_tx.py`) keeps the last of several small payments for the fee
  and drops the others; a perpetual without a receipt tells its SOL as transfer and as
  fee, and a loss as a gain (`has_profit` is ignored, `handle_jupiter_perp.py:92`,
  `:108`); the Jupiter aggregator takes the gas off SOL that was received and tells it
  as a fee too; every row of a Raydium stake has the fee; Orca and `program_swap_v2` omit a
  third leg; an unknown program drops all transfers, while the summary says that all
  transactions are captured (`sol/processor.py`, `print_unknown_tx_report`); rent that
  comes back and moves to one's own stake accounts are in no row; a token account that
  was closed since, and that no instruction links to the wallet, is not seen;
- Solana orders (`RefundUntold`, `SoldAsFee`): what a limit order of version 2 gives
  back with its last part is in no row; of a recurring order that sells SOL the fee
  includes what was sold, or is left out above 0.5 SOL; the deposit of a recurring
  order is looked for after the row of its opening is exported;
- Solana histories (`NothingCut`): oldest first (`sol/txids.py`) holds within one
  address only, as those of token accounts are joined to those of the wallet before
  the list is turned around; an answer without a result ends the history of its
  address without a word; a transaction without a time counts as one of 2020
  (`sol/txids.py`), so that a report with a later `start_date` ends the history of an
  address at it and leaves out all that is older; an order that is handled closed before opened loses its fee;
  `parse_tx` asks the node outside of the `try`, so without an answer there is no
  report; the transactions of a stake account tell the gas that the wallet's told;
  `_unknown_tx_details` is not reset after a report that raised.

## 5. Theorems

| Theorem | States | Assumes |
|---|---|---|
| `StakingRewardsDB_proofs!TypeCorrect` | `[]TypeOK` | the constants |
| `StakingRewardsDB_proofs!NothingFabricated` | a report shows no reward that was not earned (`[]NoFabricatedReward`) | the constants: any number of jobs, any faults |
| `StakingRewardsDB_proofs!OnlyLostIsMissing` | `[]ReportLacksOnlyLost` | the same |
| `StakingRewardsDB_proofs!MarkedMeansComplete` | `[]MarkedEpochsComplete` | one job, no faults (`GoodEnvironment`) |
| `StakingRewardsDB_proofs!ReportsAreExact` | `[]ReportExact` | the same |
| `StakingRewardsDB_proofs!RewardsAreKept` | `RecordedRewardsKept` | the same |
| `StakingRewardsDB_proofs!MarksAreGapless` | `[]MarksHaveNoGap` | one job, any faults (`OneJob`) |
| `StakingRewardsDB_proofs!ImplementsService` | the refinement of `RewardsService` | one job, no faults |
| `TxFetch_proofs!TypeCorrect` | `[]TypeOK` | the constants |
| `TxFetch_proofs!NothingMissed` | `[]NoneMissed` | the constants: any lists, limits, growth and faults |
| `TxFetch_proofs!OnceInOrder` | `[]EachOnceInOrder` | the same |
| `TxFetch_proofs!NoHole` | `[]OnlyOldestCut` | the same |
| `AlgoReports_proofs!TypeCorrect` | `[]TypeOK` | the constants |
| `AlgoReports_proofs!NeverTwice` | `[]ReportedOnce` | the constants: any wallets, options and faults |
| `AlgoReports_proofs!NoneIsSkipped` | `[]NoneSkippedIfSmooth` | the same |
| `AlgoReports_proofs!ReportsAreFull` | `[]FullReport` | the same |
| `AlgoGroups_proofs!PassedOnce` | `[]EachOnce` | the constants: any history, any order and any answers of the dapps |
| `AlgoGroups_proofs!CostBasisKept` | `[]QueuesKept`, the first part of `FirstInFirstOut` | the same, and any deposits and withdrawals |
| `Exporter_proofs!FilesAreOrdered` | `[]FilesInOrder` | the constants: any rows, names and treatment |
| `Exporter_proofs!ReloadKeeps` | `[]ReloadKeepsFile` | the same |
| `Exporter_proofs!DirectionsAreRight` | `[]DirectionsAgree` | rows of transfers have one side and those of rewards are received (`OneSided`) |
| `Exporter_proofs!OnlyNothingRaises` | an export raises only over a row in which nothing moves | the constants |
| `Exporter_proofs!EveryFormatIsWritten` | `[]EveryFormatWritten` | no such row (`SomethingMoves`) |
| `CosmosProcessing_proofs!Invariance` | `[]IInv`, the inductive invariant of the next three | the constants: any history of any of the chains |
| `CosmosProcessing_proofs!ReceiptsAreFree` | `[]NoFeeAfterReceipt` | the same |
| `CosmosProcessing_proofs!FeeShownOnce` | `[]FeeOnce` | the same |
| `CosmosProcessing_proofs!DepositsCountedOnce` | `[]DepositsOnce` | the same |
| `SolReport_proofs!HandledOnce` | `[]OnceEach` | the constants: any ledger, settings and handlers |
| `SolReport_proofs!HandledInOrder` | `[]OldestBefore` | the same |

The assumptions on constants are the `ASSUME`s of the modules, which TLC evaluates:
sizes are naturals; the transactions of an Algorand group have offsets of their own and
amounts are whole numbers, as they are on the chain (`AlgoGroupsAssumption`,
`AlgoLendingAssumption`); the names that the exporters compare are names, and an alloyed
symbol stands for one (`NamesAssumption`); what a processor ingests for one transaction
are rows of that transaction (`ExporterAssumption`); the transactions of a Cosmos history
are made of `Messages` (`CosmosProcessingAssumption`): a flow of coins names its currency,
a message has at most one of the flags, the deposit of a claim has a nonce from 1 on, and
a message that a `MsgExec` wraps wraps none itself; a Solana ledger is a sequence of
transactions and the wallet is no stake account (`SolReportAssumption`). The last is a
precondition: the command line states it ("Wallet address (not staking address)",
`report_util.py:46`) and `wallet_exists` would tell, but `api.csv` and `api.csv_all` report
on any address without asking it, and about the report of a stake account for its own
sake the theorems say nothing.

The hypotheses of single theorems are needed, too. `GoodEnvironment`:
`rewards_db_lost_write` and section 4 show each of its parts violated otherwise.
`OneSided`: rows of these types are made by `common/make_tx.py` (`:115`, `:128`, `:186`,
`:192`, `:247`, `:249`) and their counterparts of `luna1/`, all with one side; a row of
two sides would be a withdrawal for one tax program and a deposit for another. Rewards
and airdrops (`:37`, `:100`, `ibc/make_tx.py:57`, `:61`, and those that `osmo/`, `sol/` and
the genesis airdrops make themselves) have nothing sent; Waltio takes them for deposits
without looking.
`SomethingMoves`: `OnlyNothingRaises` says that nothing but a gain or a transfer of 0
makes an export raise, whatever the format, the rows before it and the exports before.

The arguments:

- **Rewards.** `MarkedEpochsComplete` is not inductive: a mark is put long after the
  block was read. `ServiceInv` says what a job knows at each of its steps: what it
  found in the blocks is what was earned; the copies read hold the item as it is, which
  only this job writes; from the first write on, an address no longer to be written has
  all its epochs of the batch; while marking, all of them have. A report that has read
  the marks knows that these epochs are complete and, items only growing, stay so until
  it reads the item. `NothingFabricated` needs the other half only: blocks, copies,
  items and reports hold nothing unearned, whoever wrote last. `OnlyLostIsMissing` is what is
  left of completeness when anything may fail and any number of jobs write. `LossInv`: of
  an epoch that is marked, or about to be, or seen among the marks by a job or a report,
  every reward is in the table or recorded as lost (`Accounted`). Between a job's read
  and its write nothing is lost without a record because an item holds no more than the
  copy and what the job did not see of it (`CopyKnown`), to which each write of another
  job and each cut-off read adds; a write records as lost what it did not see. That marks have no gap
  follows from how a run chooses its epochs: the first one without a mark and those
  behind it, which it marks in this order, so that what is unmarked of the batch is
  always its end. The refinement maps `published` to the marks: putting a mark is
  publishing, the answer of a report that of the instant at which it read the marks,
  and all other steps stutter.
- **Fetch.** `Standing` bounds the fields and ties the cursor to the last transaction
  received. `Covering` adds that the queries before this one, and the pages before this
  one of the current query, have brought every transaction that is due. A list that
  grows pushes transactions towards later pages of a descending list, so the offset
  falls short of what was received and never beyond: `PageCovers` shows that a page
  joins the covered part without a gap, `LastPageReached` that the last page of the
  program ends it or the limit. Order and uniqueness are about `Returned`: the stable sort
  is written with places (`SortedPlaces`, each the one with so many before it), and
  `Ranked` of `NatLemmas` shows that such a sequence has every place once and in order.
- **Algorand reports.** `FilePasses`: every transaction in a tracked CSV is before the
  saved round of its wallet's file. `ReportPasses`: while a tracked report runs, the same
  of `min_round`, as read from that file, and what it fetched is not before it. A file
  that is cut off is never read as a round. As long as everything goes smoothly the
  converse holds: every transaction before the saved round is in a CSV.
- **Algorand groups.** The groups that were handled cover the places before `i`, each
  once; that the one being handled ends where the next begins follows from the offsets
  being different within a group, as the code tells its end by an offset that repeats.
- **Algorand cost basis.** `QueuesKept` compares a queue with what its history of
  purchases and sales leaves (`UnitsLeft`, one element per token, without the splitting
  and joining of the code). What is inductive is `AllTracked`: each queue is of whole,
  positive quantities besides, and that is kept only because what a handler pushes is
  whole. So the proof has two halves. `Heaps` and the lemmas up to `PushAllKeeps` are
  about the code's queue: a sale takes the tokens of the entries at the front, splits one
  entry at most, and the rest unpacks to the tail of what the queue unpacked to before;
  a sale of more than there is empties both. From `SoundPlain` on it is shown for each
  handler of AlgoFi 1 and 2 and of Folks 1 and 2 that what it pushes is `Sound`, also
  what it had pushed before it raised; the amounts come from transactions, inner
  transactions or a ratio of the application's state, which is rounded down. That the
  group a dapp is asked about is not empty and made of the history's transactions is
  `WalkedOnce`, the invariant of `PassedOnce`.
- **Export.** `OrderInv`: `is_reverse` tells how `rows` is sorted whenever it says so,
  and what an export edits leaves the keys of the sort alone; the lines of every format
  follow the order of their rows, however it splits and groups them; a reloaded line has
  a `z_index` that keeps its place among those of its time. `OriginInv`: every row, also
  one that was written, loaded again, converted or had its fee emptied, is of a row that
  a processor ingested and moves the same on the same sides, which is all that
  directions and the variables an exporter leaves unset depend on. Sequences of lines are
  concatenated by `FlattenSeq`, a recursive function of the library; `FlattenExists`
  proves that it exists by a least counterexample instead of induction.
- **Cosmos rows.** The fee is a field that every handler reads and clears, so the rows of
  a transaction depend on the handlers before. What all of them have in common is `Tidy`:
  a row shows the fee only if it was still there and the message is the first or of a
  type that repeats it (`RepeatsFee`), no row shows it after a receipt, and a receipt
  leaves none for what follows. The lemmas from `SimpleTidy` to `OsmoExecTidy` show it for
  each handler, whatever the message moves; the claim of a deposit, which has the only
  rows that count one, is `Neat` (`DepositClaimIs`). `MessageStep` sums up in these words
  every action that handles a message. `IInv` is what they preserve. `Progress`: a
  transaction that is not begun has no rows, without which those of a message could come
  behind another's receipt. `Ordered`: if the transaction has a receipt, the fee is gone.
  `Paid`: a transaction whose first message pays shows the fee once. As later messages
  have another index than 0 (`InfosAre`) only sessions of Sentinel could repeat it, and
  the transaction of the first is remembered in `handled`. `Counted`: `Deposits.txs` is
  what the rows count, each by one row; `Claimed`: it has the deposit of every claim so
  far. Neither half alone keeps `DepositsOnce`: the row that an orchestrator's claim
  leaves out is one that another transaction has.
- **Solana histories.** `CoverInv`: of every address that is done, all that is due is
  found, and of the current one all that its queries have gone through (`Passed`).
  `PageCovers` is about where the loop over a page returns: at a transaction that is too
  old, so that all older ones are too, or at the limit, which then counts every
  transaction of the ledger. `QueryGoesOn` shows that no more pages are needed than the
  code allows. `Falling` becomes `Rising` when the list is turned around: what token
  accounts add behind the wallet's own cannot name the wallet, as that was found before.
  `HandledInv` and `ReportInv` carry both over what is handled and what is left.

`NatLemmas` proves without the induction theorems of the library that a non-empty set
of naturals has a least member, and about sequences that are given by how many elements
come before each (the sort of the fetch, of the export and of the Solana lists) that
they have each element once, in order.

Only model-checked: liveness (`RunCompletes`, `Processed`, `StakeAccountsToo`); what adds
up over rows or lines (`FileAsIfAlone`, `FilesConserve`, `FeesShownOnce` of `Exporter`,
`Balanced` of `AlgoGroups` and the equation of interest in its `FirstInFirstOut`, `AddsUp` and `SeriesAddUp` of
`SolReport`, `MoneyConserved`, `ReportAddsUp` and `LiquidityAddsUp` of `CosmosProcessing`), which are
folds over data of any length and would need induction over it; `NoneMissing` of
`CosmosProcessing`, whose messages are told apart by such sums (`Brought`); and
`NoRivals`, which is about what the instance's groups look like to the dapps.

## 6. Not modelled

Formatting, parsing, prices, names of tokens and everything whose only error would be
a wrong word; progress estimates and logging; servers beyond what the program asks of
them. Of Solana: tickers, the currency of fees that are not SOL, the printed report on
unknown transactions, the flag `marinade_native` and `handle_djv.py`, which nothing
imports. The components of section 1 without a module in section 2 are in the plan or
listed in `PROJECT.json` with the reason.

## 7. Plan

Order of the modules, the most important behaviour first:

1. the rewards table, the fetch, the export, the Algorand reports, the Cosmos
   processing, the Algorand groups with eight dapps (done);
2. the lending dapps of Algorand (AlgoFi, Folks) and the cost basis they share, against
   first in, first out (done);
3. a second family of chains: Solana, from its ids to the rows of single transactions
   and of orders (done);
4. Osmosis on top of `CosmosRows`, in the run `cosmos_rows` (done);
5. Terra Classic (fees in several currencies, handlers by execute type); `NullMap` and `Cache` as two small
   modules of lost updates, checked with the module they share a state with; the archives of Cosmos Hub and Fetch.ai; balance histories;
6. proofs: the theorems of section 5 (done); the type invariants of the modules that
   have none yet.
