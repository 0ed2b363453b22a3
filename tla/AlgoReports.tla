------------------------------ MODULE AlgoReports ------------------------------
(***************************************************************************)
(* Reports of Algorand wallets, one after the other, in processes that may *)
(* end at any point (report_algo.py, algo/config_algo.py, api.csv).        *)
(*                                                                         *)
(* localconfig is a class: its fields outlive a report and are lost with   *)
(* the process.  With track_block, the round after the newest transaction  *)
(* of a report is kept in a file of the wallet, and the next report starts *)
(* from it.  A transaction of a wallet stands for its round; the pages of  *)
(* the indexer are those of TxFetch: what an answer lacks is its oldest    *)
(* part.                                                                   *)
(***************************************************************************)
EXTENDS Integers, FiniteSets

CONSTANTS
  Wallets,
  OptionSets,   \* options of a report
  DefaultLimit, \* config.limit
  Library,      \* whether a process may make several reports, as callers of api.csv do
  Faults,       \* a subset of {"no_account", "cut", "raise", "export_raise", "exit"}
  MaxRound      \* bound: rounds of the chain

\* The options of a report: a date is a round, and 0 stands for an option that is not given.
Options == [track_block : BOOLEAN, limit : Nat, start : Nat, end : Nat]

ASSUME AlgoReportsAssumption ==
  /\ OptionSets \subseteq Options
  /\ DefaultLimit \in Nat \ {0}
  /\ Library \in BOOLEAN
  /\ MaxRound \in Nat

\* What a file may be instead of a round: missing, holding null, or cut off.
NoFile == -1
Null   == 0
Broken == -2

VARIABLES
  ledger,    \* rounds of the transactions of each wallet
  round,     \* newest round
  file,      \* config.ALGO.<wallet>.json of each wallet
  pc,        \* next step of the report, "idle" outside
  fresh,     \* whether the process has made no report
  min_round, \* localconfig.min_round, 0 for None
  limit,     \* localconfig.limit
  options,   \* the other fields of localconfig
  wallet,    \* the wallet of the report
  elems,     \* its transactions
  seen,      \* history: newest round when they were fetched
  tracked,   \* history: transactions of each wallet in a CSV written with track_block
  smooth     \* history: nothing has disturbed a report (see Disturbs)

chain == <<ledger, round>>
config == <<min_round, limit, options>>
vars == <<ledger, round, file, pc, fresh, min_round, limit, options, wallet, elems, seen, tracked, smooth>>

NoOptions == [track_block |-> FALSE, limit |-> 0, start |-> 0, end |-> 0]

Init ==
  /\ ledger = [w \in Wallets |-> {}]
  /\ round = 0
  /\ file = [w \in Wallets |-> NoFile]
  /\ pc = "idle" /\ fresh = TRUE
  /\ min_round = 0 /\ limit = DefaultLimit /\ options = NoOptions
  /\ wallet \in Wallets /\ elems = {} /\ seen = 0
  /\ tracked = [w \in Wallets |-> {}] /\ smooth = TRUE

-----------------------------------------------------------------------------

\* A round with transactions of some wallets.
NewRound ==
  /\ round < MaxRound
  /\ round' = round + 1
  /\ \E ws \in SUBSET Wallets \ {{}} :
       ledger' = [w \in Wallets |-> IF w \in ws THEN ledger[w] \cup {round + 1} ELSE ledger[w]]
  /\ UNCHANGED <<file, pc, fresh, config, wallet, elems, seen, tracked, smooth>>

\* The report ends, by an exception or not.
Return == pc' = "idle" /\ elems' = {}

\* What a report cannot be expected to come through unharmed: the process made
\* another before, its answer lacks transactions, it may not export or it ends.
Disturbs(event) == smooth' = (smooth /\ ~event)

\* read_options: every field is set but min_round, and limit only if it is given.
ReadOptions ==
  /\ pc = "idle"
  /\ Library \/ fresh
  /\ wallet' \in Wallets
  /\ options' \in OptionSets
  /\ limit' = IF options'.limit # 0 THEN options'.limit ELSE limit
  /\ pc' = "read" /\ fresh' = FALSE
  /\ Disturbs(~fresh)
  /\ UNCHANGED <<chain, file, min_round, elems, seen, tracked>>

\* Mutant: a missing file is not noticed.
SavedRound_Missing == file[wallet]

\* The saved round counts if there is a file; without one the field keeps its value.
SavedRound == IF file[wallet] # NoFile THEN file[wallet] ELSE min_round

\* _read_persistent_config: JSON that was cut off raises.
ReadPersistentConfig ==
  /\ pc = "read"
  /\ IF options.track_block /\ file[wallet] = Broken
     THEN Return /\ UNCHANGED min_round
     ELSE /\ pc' = "get"
          /\ min_round' = IF options.track_block THEN SavedRound ELSE min_round
          /\ UNCHANGED elems
  /\ UNCHANGED <<chain, file, fresh, limit, options, wallet, seen, tracked, smooth>>

\* Mutant: the last day of a window is left out.
InWindow_Open(r) == (options.start # 0 => r >= options.start) /\ (options.end # 0 => r < options.end)

\* The transactions that the indexer is asked for.
InWindow(r) == (options.start # 0 => r >= options.start) /\ (options.end # 0 => r <= options.end)

Asked == {r \in ledger[wallet] : (min_round # 0 => r >= min_round) /\ InWindow(r)}

\* The newest transactions of a set, n at most.
Newest(txs, n) == {r \in txs : Cardinality({s \in txs : s > r}) < n}

\* The account is not found, or its request fails: the report is empty.
NoAccount ==
  /\ pc = "get" /\ "no_account" \in Faults
  /\ pc' = "csv" /\ elems' = {} /\ seen' = 0
  /\ UNCHANGED <<chain, file, fresh, config, wallet, tracked, smooth>>

\* get_all_transactions.
GetTxs ==
  /\ pc = "get"
  /\ elems' \in {Newest(Asked, n) : n \in {limit} \cup (IF "cut" \in Faults THEN 0 .. limit ELSE {})}
  /\ seen' = round
  /\ Disturbs(elems' # Asked \/ (options.track_block /\ options.start # 0))
  /\ pc' = "mark"
  /\ UNCHANGED <<chain, file, fresh, config, wallet, tracked>>

\* Mutant: the last round is fetched again.
NextRound_Same(last) == last

\* Mutant: the next report starts after the newest round of the chain.
NextRound_OfChain(last) == round + 1

\* The round after the newest transaction of a report.
NextRound(last) == last + 1

\* The end of _get_txs, after get_extra_transactions of the dapps.
MarkRound ==
  /\ pc = "mark"
  /\ IF options.track_block /\ elems # {}
     THEN \E last \in elems :
            (\A r \in elems : r <= last) /\ min_round' = NextRound(last)
     ELSE UNCHANGED min_round
  /\ pc' = "process"
  /\ UNCHANGED <<chain, file, fresh, limit, options, wallet, elems, seen, tracked, smooth>>

\* process_txs; then _write_persistent_config opens the file, which empties it.
AfterProcessing == IF options.track_block THEN "dump" ELSE "csv"

Process ==
  /\ pc = "process"
  /\ pc' = AfterProcessing
  /\ file' = IF options.track_block THEN [file EXCEPT ![wallet] = Broken] ELSE file
  /\ UNCHANGED <<chain, fresh, config, wallet, elems, seen, tracked, smooth>>

\* json.dump and the end of _write_persistent_config.
DumpConfig ==
  /\ pc = "dump"
  /\ file' = [file EXCEPT ![wallet] = min_round]
  /\ pc' = "csv"
  /\ UNCHANGED <<chain, fresh, config, wallet, elems, seen, tracked, smooth>>

\* export_format.
WriteCsv ==
  /\ pc = "csv"
  /\ tracked' = IF options.track_block THEN [tracked EXCEPT ![wallet] = @ \cup elems] ELSE tracked
  /\ Return
  /\ UNCHANGED <<chain, file, fresh, config, wallet, seen, smooth>>

\* get_extra_transactions or process_txs raises, or the export does.
Raise ==
  /\ \/ "raise" \in Faults /\ pc \in {"mark", "process"}
     \/ "export_raise" \in Faults /\ pc = "csv"
  /\ Disturbs(pc = "csv")
  /\ Return
  /\ UNCHANGED <<chain, file, fresh, config, wallet, seen, tracked>>

\* The process ends, after a report or within one, and another is started.
Restart ==
  /\ IF pc = "idle" THEN ~fresh ELSE "exit" \in Faults
  /\ Disturbs(pc # "idle")
  /\ Return
  /\ fresh' = TRUE
  /\ min_round' = 0 /\ limit' = DefaultLimit /\ options' = NoOptions
  /\ UNCHANGED <<chain, file, wallet, seen, tracked>>

Next ==
  \/ NewRound
  \/ ReadOptions \/ ReadPersistentConfig \/ NoAccount \/ GetTxs \/ MarkRound \/ Process
  \/ DumpConfig \/ WriteCsv \/ Raise \/ Restart

Spec == Init /\ [][Next]_vars

-----------------------------------------------------------------------------
(* Properties *)

TypeOK ==
  /\ ledger \in [Wallets -> SUBSET Nat] /\ round \in Nat
  /\ file \in [Wallets -> Nat \cup {NoFile, Broken}]
  /\ pc \in {"idle", "read", "get", "mark", "process", "dump", "csv"}
  /\ fresh \in BOOLEAN
  /\ min_round \in Nat /\ limit \in Nat \ {0} /\ options \in OptionSets \cup {NoOptions}
  /\ wallet \in Wallets /\ elems \subseteq ledger[wallet] /\ seen \in Nat
  /\ tracked \in [Wallets -> SUBSET Nat] /\ smooth \in BOOLEAN

\* Outside of a report, every transaction that the saved round has passed is in a
\* CSV that was written with track_block: no later report would bring it.
NoneSkipped ==
  pc = "idle" =>
    \A w \in Wallets : \A r \in ledger[w] : r < file[w] => r \in tracked[w]

\* So it is as long as nothing disturbs a report, whichever transactions come in
\* while it is made and although processing raises and accounts are not found.
NoneSkippedIfSmooth == smooth => NoneSkipped

\* Tracked reports never bring a transaction twice, whatever fails in between.
ReportedOnce ==
  pc = "csv" /\ options.track_block => elems \cap tracked[wallet] = {}

\* A report without track_block that nothing disturbs has every transaction that
\* was there within its window, whatever the tracked reports before it have saved.
FullReport ==
  pc = "csv" /\ ~options.track_block /\ seen # 0 /\ smooth =>
    \A r \in ledger[wallet] :
      r <= seen /\ (options.start = 0 \/ r >= options.start) /\ (options.end = 0 \/ r <= options.end)
        => r \in elems

=============================================================================
