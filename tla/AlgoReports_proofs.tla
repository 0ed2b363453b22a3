--------------------------- MODULE AlgoReports_proofs ---------------------------
(***************************************************************************)
(* No transaction is in two tracked reports of a wallet, and none is       *)
(* skipped while nothing disturbs a report, for every set of wallets,      *)
(* options, faults and every order of reports and restarts.                *)
(***************************************************************************)
EXTENDS AlgoReports, TLAPS

Before(S, n) == \A r \in S : r < n

\* A report that keeps track of the wallet is past the reading of the file.
Tracking == options.track_block /\ pc \in {"get", "mark", "process", "dump", "csv"}

Types ==
  /\ ledger \in [Wallets -> SUBSET (Nat \ {0})] /\ round \in Nat
  /\ file \in [Wallets -> Nat \cup {NoFile, Broken}]
  /\ pc \in {"idle", "read", "get", "mark", "process", "dump", "csv"}
  /\ fresh \in BOOLEAN
  /\ min_round \in Nat /\ limit \in Nat \ {0} /\ options \in OptionSets \cup {NoOptions}
  /\ wallet \in Wallets /\ elems \subseteq ledger[wallet] /\ seen \in Nat
  /\ tracked \in [Wallets -> SUBSET Nat]
  /\ pc \in {"idle", "read", "get"} => elems = {}
  /\ pc = "dump" => options.track_block

\* The file of a wallet passes every transaction of its tracked reports.
FilePasses ==
  \A w \in Wallets :
    /\ file[w] = NoFile => tracked[w] = {}
    /\ file[w] \in Nat => Before(tracked[w], file[w])

\* So does min_round once the file has been read, and from "process" on it also
\* passes the transactions that the report has just fetched, which are new.
ReportPasses ==
  Tracking =>
    /\ Before(tracked[wallet], min_round)
    /\ pc = "mark" => \A r \in elems : r >= min_round
    /\ pc \in {"process", "dump"} => Before(elems, min_round)
    /\ pc = "csv" => elems = {} \/ (file[wallet] \in Nat /\ Before(elems, file[wallet]))
    /\ elems \cap tracked[wallet] = {}

SmoothType == smooth \in BOOLEAN

IInv == Types /\ SmoothType /\ FilePasses /\ ReportPasses
-----------------------------------------------------------------------------

\* The options that a report may have.
LEMMA SomeOptions == OptionSets \cup {NoOptions} \subseteq Options
  <1>1. NoOptions \in Options
    BY DEF NoOptions, Options
  <1>2. OptionSets \subseteq Options
    BY AlgoReportsAssumption
  <1>3. QED
    BY <1>1, <1>2

\* Initially no wallet has a file or a report.
LEMMA InitInv == Init => IInv
  <1> SUFFICES ASSUME Init PROVE IInv
    OBVIOUS
  <1>1. Types
    BY AlgoReportsAssumption DEF Init, Types, NoFile, Broken
  <1>2. FilePasses
    BY DEF Init, FilePasses, NoFile
  <1>3. ReportPasses
    BY DEF Init, ReportPasses, Tracking
  <1>4. SmoothType
    BY DEF Init, SmoothType
  <1>5. QED
    BY <1>1, <1>2, <1>3, <1>4 DEF IInv

\* Every step of a report, of the chain and of the process keeps the types.
LEMMA TypesStep == IInv /\ [Next]_vars => Types'
  <1> SUFFICES ASSUME IInv, [Next]_vars PROVE Types'
    OBVIOUS
  <1> USE SomeOptions, AlgoReportsAssumption
      DEF IInv, Types, Options, chain, config, Return,
          NoFile, Broken, Null
  <1>1. CASE NewRound
    BY <1>1 DEF NewRound
  <1>2. CASE ReadOptions
    BY <1>2 DEF ReadOptions
  <1>3. CASE ReadPersistentConfig
    BY <1>3 DEF ReadPersistentConfig, SavedRound
  <1>4. CASE NoAccount
    BY <1>4 DEF NoAccount
  <1>5. CASE GetTxs
    BY <1>5 DEF GetTxs, Newest, Asked
  <1>6. CASE MarkRound
    BY <1>6 DEF MarkRound, NextRound
  <1>7. CASE Process
    BY <1>7 DEF Process, AfterProcessing
  <1>8. CASE DumpConfig
    BY <1>8 DEF DumpConfig
  <1>9. CASE WriteCsv
    BY <1>9 DEF WriteCsv
  <1>10. CASE Raise
    BY <1>10 DEF Raise
  <1>11. CASE Restart
    BY <1>11 DEF Restart, NoOptions
  <1>12. CASE UNCHANGED vars
    BY <1>12 DEF vars
  <1> QED
    BY <1>1, <1>2, <1>3, <1>4, <1>5, <1>6, <1>7, <1>8, <1>9, <1>10, <1>11, <1>12 DEF Next

\* The history of disturbances stays a Boolean.
LEMMA SmoothStep == SmoothType /\ [Next]_vars => SmoothType'
  <1>1. [Next]_vars => smooth' = smooth \/ \E event : Disturbs(event)
    BY DEF Next, NewRound, ReadOptions, ReadPersistentConfig, NoAccount, GetTxs, MarkRound,
       Process, DumpConfig, WriteCsv, Raise, Restart, vars
  <1>2. ASSUME NEW event, Disturbs(event) PROVE SmoothType'
    BY <1>2 DEF Disturbs, SmoothType
  <1>3. QED
    BY <1>1, <1>2 DEF SmoothType

\* Only the end of a report and the dump of min_round change what the files pass.
LEMMA FilesStep == IInv /\ [Next]_vars => FilePasses'
  <1> SUFFICES ASSUME IInv, [Next]_vars PROVE FilePasses'
    OBVIOUS
  <1> USE SomeOptions, AlgoReportsAssumption
      DEF Options, IInv, Types, FilePasses, ReportPasses, Tracking, Before, chain, config, Return,
          NoFile, Broken, Null
  <1>1. CASE NewRound
    BY <1>1 DEF NewRound
  <1>2. CASE ReadOptions
    BY <1>2 DEF ReadOptions
  <1>3. CASE ReadPersistentConfig
    BY <1>3 DEF ReadPersistentConfig, SavedRound
  <1>4. CASE NoAccount
    BY <1>4 DEF NoAccount
  <1>5. CASE GetTxs
    BY <1>5 DEF GetTxs, Newest, Asked
  <1>6. CASE MarkRound
    BY <1>6 DEF MarkRound, NextRound
  <1>7. CASE Process
    BY <1>7 DEF Process, AfterProcessing
  <1>8. CASE DumpConfig
    BY <1>8 DEF DumpConfig
  <1>9. CASE WriteCsv
    <2>1. CASE ~options.track_block
      BY <1>9, <2>1 DEF WriteCsv
    <2>2. CASE options.track_block
      <3>1. tracked' = [tracked EXCEPT ![wallet] = tracked[wallet] \cup elems] /\ pc = "csv" /\ UNCHANGED file
        BY <1>9, <2>2 DEF WriteCsv
      <3>2. elems = {} \/ (file[wallet] \in Nat /\ Before(elems, file[wallet]))
        BY <2>2, <3>1
      <3>3. \A w \in Wallets \ {wallet} : tracked'[w] = tracked[w]
        BY <3>1
      <3>4. tracked'[wallet] = tracked[wallet] \cup elems
        BY <3>1
      <3>5. /\ file[wallet] = NoFile => tracked'[wallet] = {}
            /\ file[wallet] \in Nat => Before(tracked'[wallet], file[wallet])
        <4>1. /\ file[wallet] = NoFile => tracked[wallet] = {}
              /\ file[wallet] \in Nat => Before(tracked[wallet], file[wallet])
          OBVIOUS
        <4>2. file[wallet] = NoFile => elems = {}
          BY <3>2
        <4>3. file[wallet] \in Nat => Before(elems, file[wallet])
          BY <3>2
        <4>4. QED
          BY <3>4, <4>1, <4>2, <4>3
      <3>6. \A w \in Wallets : /\ file[w] = NoFile => tracked'[w] = {}
                               /\ file[w] \in Nat => Before(tracked'[w], file[w])
        BY <3>3, <3>5
      <3>7. QED
        BY <3>1, <3>6
    <2>3. QED
      BY <2>1, <2>2
  <1>10. CASE Raise
    BY <1>10 DEF Raise
  <1>11. CASE Restart
    BY <1>11 DEF Restart, NoOptions
  <1>12. CASE UNCHANGED vars
    BY <1>12 DEF vars
  <1> QED
    BY <1>1, <1>2, <1>3, <1>4, <1>5, <1>6, <1>7, <1>8, <1>9, <1>10, <1>11, <1>12 DEF Next

\* What the report has fetched stays new to the tracked reports of its wallet.
LEMMA ReportStep == IInv /\ [Next]_vars => ReportPasses'
  <1> SUFFICES ASSUME IInv, [Next]_vars PROVE ReportPasses'
    OBVIOUS
  <1> USE SomeOptions, AlgoReportsAssumption
      DEF Options, IInv, Types, FilePasses, ReportPasses, Tracking, Before, chain, config, Return,
          NoFile, Broken, Null
  <1>1. CASE NewRound
    BY <1>1 DEF NewRound
  <1>2. CASE ReadOptions
    BY <1>2 DEF ReadOptions
  <1>3. CASE ReadPersistentConfig
    <2>1. CASE options.track_block /\ file[wallet] = Broken
      BY <1>3, <2>1 DEF ReadPersistentConfig
    <2>2. CASE ~options.track_block
      BY <1>3, <2>2 DEF ReadPersistentConfig
    <2>3. CASE options.track_block /\ file[wallet] # Broken
      <3>1. min_round' = SavedRound /\ pc' = "get" /\ UNCHANGED <<options, wallet, tracked, file, elems>>
        BY <1>3, <2>3 DEF ReadPersistentConfig
      <3>2. Before(tracked[wallet], SavedRound)
        BY <2>3 DEF SavedRound
      <3>3. elems = {}
        BY <1>3 DEF ReadPersistentConfig
      <3>4. QED
        BY <3>1, <3>2, <3>3
    <2>4. QED
      BY <2>1, <2>2, <2>3
  <1>4. CASE NoAccount
    BY <1>4 DEF NoAccount
  <1>5. CASE GetTxs
    <2>1. elems' \subseteq Asked
      BY <1>5 DEF GetTxs, Newest
    <2>2. \A r \in elems' : r \in Nat /\ r >= min_round
      BY <2>1 DEF Asked
    <2>3. pc = "get" /\ pc' = "mark" /\ UNCHANGED <<options, wallet, tracked, min_round>>
      BY <1>5 DEF GetTxs
    <2>4. Tracking => \A r \in tracked[wallet] : r \in Nat /\ r < min_round
      OBVIOUS
    <2>5. Tracking => elems' \cap tracked[wallet] = {}
      BY <2>2, <2>4
    <2>6. QED
      BY <2>2, <2>3, <2>4, <2>5
  <1>6. CASE MarkRound
    BY <1>6 DEF MarkRound, NextRound
  <1>7. CASE Process
    BY <1>7 DEF Process, AfterProcessing
  <1>8. CASE DumpConfig
    BY <1>8 DEF DumpConfig
  <1>9. CASE WriteCsv
    BY <1>9 DEF WriteCsv
  <1>10. CASE Raise
    BY <1>10 DEF Raise
  <1>11. CASE Restart
    BY <1>11 DEF Restart, NoOptions
  <1>12. CASE UNCHANGED vars
    BY <1>12 DEF vars
  <1> QED
    BY <1>1, <1>2, <1>3, <1>4, <1>5, <1>6, <1>7, <1>8, <1>9, <1>10, <1>11, <1>12 DEF Next

\* The invariant holds in every state.
LEMMA Inductive == Spec => []IInv
  <1>1. IInv /\ [Next]_vars => IInv'
    BY TypesStep, SmoothStep, FilesStep, ReportStep DEF IInv
  <1>2. QED
    BY InitInv, <1>1, PTL DEF Spec

\* The files, the fields of localconfig and the transactions of a report keep
\* their types: a report never reads a round from a file that is cut off.
THEOREM TypeCorrect == Spec => []TypeOK
  <1>1. IInv => TypeOK
    BY DEF IInv, Types, SmoothType, TypeOK
  <1>2. QED
    BY Inductive, <1>1, PTL

\* Tracked reports of a wallet never bring a transaction twice, whatever fails,
\* wherever the process ends and however reports of other wallets come between.
THEOREM NeverTwice == Spec => []ReportedOnce
  <1>1. IInv => ReportedOnce
    BY DEF IInv, ReportPasses, Tracking, ReportedOnce
  <1>2. QED
    BY Inductive, <1>1, PTL

-----------------------------------------------------------------------------
(* While nothing disturbs a report, none is skipped *)

\* Nothing is newer than the newest round, not even what is saved of it.
Rounds ==
  /\ \A w \in Wallets : (\A r \in ledger[w] : r <= round) /\ file[w] <= round + 1
  /\ min_round <= round + 1
  /\ seen <= round

\* A process that has made no report has kept no round of one.
FreshProcess == fresh => pc = "idle" /\ min_round = 0

\* The transactions of wallet w before round n are all known.
Known(w, n, txs) == \A r \in ledger[w] : r < n => r \in txs

\* What the tracked reports of the wallet have brought, with the one being made.
Brought == tracked[wallet] \cup (IF options.track_block THEN elems ELSE {})

\* The file of a wallet passes only what its tracked reports have brought, or
\* what the CSV about to be written brings.
FilesSkipNone ==
  \A w \in Wallets :
    IF w = wallet /\ pc = "csv" THEN Known(w, file[w], Brought)
    ELSE Known(w, file[w], tracked[w])

\* So does min_round in a tracked report, and its transactions have no gap.
ReportSkipsNone ==
  options.track_block =>
    /\ pc \in {"get", "mark", "process", "dump"} => Known(wallet, min_round, Brought)
    /\ pc = "mark" => \A last \in elems : Known(wallet, last, Brought)

\* A report without track_block asks from the first round on.
WholeReport ==
  ~options.track_block =>
    /\ pc = "get" => min_round = 0
    /\ pc \in {"mark", "process", "csv"} /\ seen # 0 =>
         \A r \in ledger[wallet] : r <= seen /\ InWindow(r) => r \in elems

SmoothInv ==
  smooth =>
    /\ pc = "read" => min_round = 0
    /\ FilesSkipNone
    /\ ReportSkipsNone
    /\ WholeReport

SInv == Rounds /\ FreshProcess /\ SmoothInv

LEMMA InitSmooth == Init => SInv
  BY DEF Init, SInv, Rounds, FreshProcess, SmoothInv, FilesSkipNone, ReportSkipsNone,
     WholeReport, Known, Brought, NoFile

\* Time goes on, and what is saved stays behind it.
LEMMA RoundsStep == IInv /\ Rounds /\ [Next]_vars => Rounds'
  <1> SUFFICES ASSUME IInv, Rounds, [Next]_vars PROVE Rounds'
    OBVIOUS
  <1> USE DEF IInv, Types, Rounds, chain, config, Return, NoFile, Broken
  <1>1. CASE NewRound
    BY <1>1 DEF NewRound
  <1>2. CASE ReadOptions
    BY <1>2 DEF ReadOptions
  <1>3. CASE ReadPersistentConfig
    BY <1>3 DEF ReadPersistentConfig, SavedRound
  <1>4. CASE NoAccount
    BY <1>4 DEF NoAccount
  <1>5. CASE GetTxs
    BY <1>5 DEF GetTxs
  <1>6. CASE MarkRound
    <2>1. ASSUME NEW last \in elems
          PROVE  NextRound(last) <= round + 1
      <3>1. last \in Nat /\ last <= round
        BY <2>1
      <3>2. QED
        BY <3>1 DEF NextRound
    <2>2. QED
      BY <1>6, <2>1 DEF MarkRound
  <1>7. CASE Process
    BY <1>7 DEF Process, AfterProcessing
  <1>8. CASE DumpConfig
    BY <1>8 DEF DumpConfig
  <1>9. CASE WriteCsv
    BY <1>9 DEF WriteCsv
  <1>10. CASE Raise
    BY <1>10 DEF Raise
  <1>11. CASE Restart
    BY <1>11 DEF Restart
  <1>12. CASE UNCHANGED vars
    BY <1>12 DEF vars
  <1> QED
    BY <1>1, <1>2, <1>3, <1>4, <1>5, <1>6, <1>7, <1>8, <1>9, <1>10, <1>11, <1>12 DEF Next

LEMMA FreshStep == FreshProcess /\ [Next]_vars => FreshProcess'
  BY DEF FreshProcess, Next, NewRound, ReadOptions, ReadPersistentConfig, NoAccount, GetTxs,
     MarkRound, Process, DumpConfig, WriteCsv, Raise, Restart, vars, chain, config, Return

\* A new round is not before any round that is saved or reported.
LEMMA NewRoundKeeps ==
  ASSUME IInv, SInv, NewRound
  PROVE  SmoothInv'
  <1> USE DEF IInv, Types
  <1>1. ASSUME NEW w \in Wallets, NEW n \in Int, n <= round + 1, NEW txs, Known(w, n, txs)
        PROVE  \A r \in ledger'[w] : r < n => r \in txs
    BY <1>1 DEF NewRound, Known
  <1>2. UNCHANGED <<file, pc, fresh, config, wallet, elems, seen, tracked, smooth>>
    BY DEF NewRound
  <1>3. \A w \in Wallets : file[w] \in Int /\ file[w] <= round + 1
    BY DEF SInv, Rounds, NoFile, Broken
  <1>4. min_round \in Int /\ min_round <= round + 1
    BY DEF SInv, Rounds
  <1>5. \A last \in elems : last \in Int /\ last <= round + 1
    BY DEF SInv, Rounds
  <1>6. FilesSkipNone => FilesSkipNone'
    BY <1>1, <1>2, <1>3 DEF FilesSkipNone, Known, Brought, config
  <1>7. ReportSkipsNone => ReportSkipsNone'
    BY <1>1, <1>2, <1>4, <1>5 DEF ReportSkipsNone, Known, Brought, config
  <1>8. WholeReport => WholeReport'
    <2>1. \A r \in ledger'[wallet] : r <= seen => r \in ledger[wallet]
      BY DEF NewRound, SInv, Rounds
    <2>2. QED
      BY <1>2, <2>1 DEF WholeReport, InWindow, config
  <1>9. QED
    BY <1>2, <1>6, <1>7, <1>8 DEF SInv, SmoothInv, config

\* The saved round passes only what has been brought, and no file passes nothing.
LEMMA ReadKeeps ==
  ASSUME IInv, SInv, ReadPersistentConfig
  PROVE  SmoothInv'
  <1> USE DEF IInv, Types, SInv, SmoothInv, FilesSkipNone, ReportSkipsNone, WholeReport, Known,
          Brought, chain, config, ReadPersistentConfig
  <1> SUFFICES ASSUME smooth PROVE SmoothInv'
    OBVIOUS
  <1>1. CASE options.track_block /\ file[wallet] = Broken
    BY <1>1 DEF Return
  <1>2. CASE ~options.track_block
    BY <1>2
  <1>3. CASE options.track_block /\ file[wallet] # Broken
    <2>1. min_round' = SavedRound /\ pc' = "get" /\ UNCHANGED <<ledger, elems, tracked, wallet>>
      BY <1>3
    <2>2. \A r \in ledger[wallet] : r < SavedRound => r \in tracked[wallet]
      BY DEF SavedRound, NoFile
    <2>3. QED
      BY <1>3, <2>1, <2>2
  <1>4. QED
    BY <1>1, <1>2, <1>3

\* A smooth report has all that was asked for, which has no gap.
LEMMA GetKeeps ==
  ASSUME IInv, SInv, GetTxs
  PROVE  SmoothInv'
  <1> USE DEF IInv, Types, SInv, SmoothInv, FilesSkipNone, WholeReport, Known,
          Brought, chain, config, GetTxs, Rounds
  <1> SUFFICES ASSUME smooth' PROVE SmoothInv'
    OBVIOUS
  <1>1. smooth /\ elems' = Asked /\ (options.track_block => options.start = 0)
    BY DEF Disturbs, SmoothType
  <1>2. FilesSkipNone'
    BY <1>1
  <1>3. WholeReport'
    BY <1>1 DEF Asked, InWindow
  <1>4. ASSUME options.track_block PROVE ReportSkipsNone'
    <2>1. Known(wallet, min_round, tracked[wallet])
      <3>1. elems = {}
        OBVIOUS
      <3>2. QED
        BY <1>1, <1>4, <3>1 DEF ReportSkipsNone
    <2>2. ASSUME NEW last \in Asked, NEW r \in ledger[wallet], r < last, r \notin tracked[wallet]
          PROVE  r \in Asked
      <3>1. r \in Nat /\ last \in Nat /\ min_round \in Nat /\ r >= min_round
        BY <2>1, <2>2 DEF Asked
      <3>2. options.end # 0 => options.end \in Nat /\ r <= options.end
        BY <2>2, <3>1, SomeOptions DEF Asked, InWindow, Options
      <3>3. QED
        BY <1>1, <1>4, <3>1, <3>2 DEF Asked, InWindow
    <2>3. QED
      BY <1>1, <2>1, <2>2 DEF ReportSkipsNone
  <1>5. QED
    BY <1>1, <1>2, <1>3, <1>4 DEF ReportSkipsNone

\* The round after the newest transaction passes no other one.
LEMMA MarkKeeps ==
  ASSUME IInv, SInv, MarkRound
  PROVE  SmoothInv'
  <1> USE DEF IInv, Types, SInv, SmoothInv, FilesSkipNone, WholeReport, Known,
          Brought, chain, config
  <1> SUFFICES ASSUME smooth PROVE SmoothInv'
    BY DEF MarkRound
  <1>1. FilesSkipNone' /\ WholeReport'
    BY DEF MarkRound, InWindow
  <1>2. ReportSkipsNone'
    <2>1. CASE options.track_block /\ elems # {}
      <3>1. PICK last \in elems : min_round' = last + 1
        BY <2>1 DEF MarkRound, NextRound
      <3>2. Known(wallet, last, Brought)
        BY <2>1 DEF MarkRound, ReportSkipsNone
      <3>3. \A r \in ledger[wallet] : r < last + 1 => r \in tracked[wallet] \cup elems
        <4>1. last \in Nat /\ \A r \in ledger[wallet] : r \in Nat
          OBVIOUS
        <4>2. QED
          BY <2>1, <3>1, <3>2, <4>1
      <3>4. QED
        BY <2>1, <3>1, <3>3 DEF MarkRound, ReportSkipsNone
    <2>2. CASE ~ (options.track_block /\ elems # {})
      BY <2>2 DEF MarkRound, ReportSkipsNone
    <2>3. QED
      BY <2>1, <2>2
  <1>3. QED
    BY <1>1, <1>2 DEF MarkRound

\* A file that is cut off passes nothing; the one dumped passes what the CSV brings.
LEMMA DumpKeeps ==
  ASSUME IInv, SInv, Process \/ DumpConfig
  PROVE  SmoothInv'
  <1> USE DEF IInv, Types, SInv, SmoothInv, FilesSkipNone, ReportSkipsNone, WholeReport, Known,
          Brought, chain, config
  <1>1. CASE Process
    BY <1>1 DEF Process, AfterProcessing, Broken, InWindow
  <1>2. CASE DumpConfig
    BY <1>2 DEF DumpConfig
  <1>3. QED
    BY <1>1, <1>2

\* The CSV brings what its file passes.
LEMMA CsvKeeps ==
  ASSUME IInv, SInv, WriteCsv
  PROVE  SmoothInv'
  <1> USE DEF IInv, Types, SInv, SmoothInv, Known, Brought, chain, config, WriteCsv, Return
  <1> SUFFICES ASSUME smooth PROVE SmoothInv'
    OBVIOUS
  <1>1. tracked'[wallet] = Brought /\ \A w \in Wallets : w # wallet => tracked'[w] = tracked[w]
    OBVIOUS
  <1>2. FilesSkipNone'
    BY <1>1 DEF FilesSkipNone
  <1>3. QED
    BY <1>2 DEF ReportSkipsNone, WholeReport

LEMMA SmoothInvStep == IInv /\ SInv /\ [Next]_vars => SmoothInv'
  <1> SUFFICES ASSUME IInv, SInv, [Next]_vars PROVE SmoothInv'
    OBVIOUS
  <1>1. CASE ReadOptions
    BY <1>1 DEF ReadOptions, IInv, Types, SInv, FreshProcess, SmoothType, SmoothInv, FilesSkipNone,
       ReportSkipsNone, WholeReport, Known, Brought, chain, Disturbs
  <1>2. CASE NoAccount
    BY <1>2 DEF NoAccount, IInv, Types, SInv, SmoothInv, FilesSkipNone, ReportSkipsNone,
       WholeReport, Known, Brought, chain, config
  <1>3. CASE Raise \/ Restart
    BY <1>3 DEF Raise, Restart, Return, IInv, Types, SInv, SmoothType, SmoothInv, FilesSkipNone,
       ReportSkipsNone, WholeReport, Known, Brought, chain, config, Disturbs
  <1>4. CASE UNCHANGED vars
    BY <1>4 DEF vars, SInv, SmoothInv, FilesSkipNone, ReportSkipsNone, WholeReport, Known, Brought,
       InWindow
  <1> QED
    BY <1>1, <1>2, <1>3, <1>4, NewRoundKeeps, ReadKeeps, GetKeeps, MarkKeeps, DumpKeeps, CsvKeeps
       DEF Next

LEMMA SmoothInductive == Spec => [](IInv /\ SInv)
  <1>1. IInv /\ SInv /\ [Next]_vars => SInv'
    BY RoundsStep, FreshStep, SmoothInvStep DEF SInv
  <1>2. QED
    BY Inductive, InitSmooth, <1>1, PTL DEF Spec

\* Nothing is skipped as long as no report is disturbed: the saved round passes
\* only what a tracked CSV has, whichever transactions come in meanwhile and
\* although processing raises and accounts are not found.
THEOREM NoneIsSkipped == Spec => []NoneSkippedIfSmooth
  <1>1. SInv => NoneSkippedIfSmooth
    BY DEF SInv, SmoothInv, FilesSkipNone, Known, NoneSkippedIfSmooth, NoneSkipped
  <1>2. QED
    BY SmoothInductive, <1>1, PTL

\* A report without track_block that nothing disturbs is whole within its window,
\* whatever tracked reports of other processes have saved.
THEOREM ReportsAreFull == Spec => []FullReport
  <1>1. SInv => FullReport
    BY DEF SInv, SmoothInv, WholeReport, InWindow, FullReport
  <1>2. QED
    BY SmoothInductive, <1>1, PTL

=============================================================================
