------------------------------- MODULE Exporter -------------------------------
(***************************************************************************)
(* An Exporter object (common/Exporter.py) from the first row of a report  *)
(* to the last CSV file, as api.csv and api.csv_all drive it: processors   *)
(* ingest the rows of transactions, the report is sorted (and its alloyed  *)
(* symbols converted, report_osmo.py), then the files are written one      *)
(* after the other on the same rows, which the exporters sort again and    *)
(* one of them edits.  A default CSV may be loaded again (ingest_csv).     *)
(*                                                                         *)
(* file is the file written last; a file is never touched again.           *)
(***************************************************************************)
EXTENDS ExportFormats

CONSTANTS
  Txs,          \* what processors ingest for a transaction: sequences of rows
  MaxTxs,       \* bound: transactions of a report
  Times,        \* timestamps of transactions
  LpTreatments  \* values of localconfig.lp_treatment

ASSUME ExporterAssumption ==
  /\ MaxTxs \in Nat
  /\ Times \subseteq Nat
  /\ LpTreatments \subseteq LP_TREATMENT_CHOICES
  /\ \A tx \in Txs : /\ tx \in Seq(Rows) /\ tx # << >>
                     /\ \A i \in DOMAIN tx : tx[i].txid = tx[1].txid

VARIABLES
  pc,         \* "process", "report" (txhistory is done), "export", "done", "raised"
  rows,       \* Exporter.rows
  isReverse,  \* Exporter.is_reverse: "None", TRUE or FALSE as a string
  lp,         \* Exporter.lp_treatment
  todo,       \* the formats still to be written
  file,       \* the file written last: its format and its lines
  reloaded,   \* the rows come from a default CSV
  ingested    \* history: the rows of the report, in the order of ingestion

vars == <<pc, rows, isReverse, lp, todo, file, reloaded, ingested>>

NoFile == [format |-> "none", lines |-> << >>]

Init ==
  /\ pc = "process"
  /\ rows = << >>
  /\ isReverse = "None"
  /\ lp \in LpTreatments
  /\ todo = << >>
  /\ file = NoFile
  /\ reloaded = FALSE
  /\ ingested = << >>

-----------------------------------------------------------------------------

Direction(reverse) == IF reverse THEN "True" ELSE "False"

\* Mutant: rows that were sorted once are never sorted again.
SortRows_Once(reverse) == IF isReverse = "None" THEN Sorted(rows, reverse) ELSE rows

\* sort_rows leaves the rows alone when they were last sorted in this direction.
SortRows(reverse) ==
  IF isReverse # Direction(reverse) THEN Sorted(rows, reverse) ELSE rows

\* The processors of a chain handle a transaction.
IngestTx ==
  /\ pc = "process"
  /\ \E tx \in Txs, t \in Times :
       /\ Cardinality({rows[i].txid : i \in DOMAIN rows}) < MaxTxs
       /\ \A i \in DOMAIN rows : rows[i].txid # tx[1].txid   \* each is processed once
       /\ LET new == [i \in DOMAIN tx |-> [tx[i] EXCEPT !.ts = t]]
          IN  rows' = rows \o new /\ ingested' = ingested \o new
  /\ UNCHANGED <<pc, isReverse, lp, todo, file, reloaded>>

\* txhistory returns; report_osmo.py sorts and then converts the alloyed symbols.
FinishHistory ==
  /\ pc = "process"
  /\ rows # << >>
  /\ pc' = "report"
  /\ \/ UNCHANGED <<rows, isReverse, ingested>>
     \/ /\ rows' = ConvertAlloyed(SortRows(TRUE))
        /\ ingested' = ConvertAlloyed(ingested)
        /\ isReverse' = "True"
  /\ UNCHANGED <<lp, todo, file, reloaded>>

\* api.csv writes one format, api.csv_all all of them; both sort first.
StartExport ==
  /\ pc = "report"
  /\ pc' = "export"
  /\ todo' \in {<<f>> : f \in Formats} \cup {FORMATS}
  /\ rows' = SortRows(TRUE)
  /\ isReverse' = "True"
  /\ UNCHANGED <<lp, file, reloaded, ingested>>

\* Mutant: export_cointracking_csv edits the liquidity rows in place (no deepcopy).
AfterExport_NoCopy(f, row) ==
  IF f = "cointracking" /\ row.type = "LP_DEPOSIT" THEN InOnly(row)
  ELSE IF f = "cointracking" /\ row.type = "LP_WITHDRAW" THEN OutOnly(row) ELSE row

\* export_cryptobooks_csv empties the fees that have no currency.
AfterExport(f, row) ==
  IF f = "cryptobooks" /\ row.type \in AllowedTypes(f) /\ row.fc = NoCurrency
  THEN [row EXCEPT !.fee = 0] ELSE row

Export ==
  /\ pc = "export" /\ todo # << >>
  /\ LET f       == Head(todo)
         reverse == Delegate(f) \notin OldestFirst
         sorted  == SortRows(reverse)
     IN  /\ isReverse' = Direction(reverse)
         /\ rows' = [i \in DOMAIN sorted |-> AfterExport(f, sorted[i])]
         /\ IF ExportRaises(f, sorted, lp)
            THEN pc' = "raised" /\ UNCHANGED <<todo, file>>
            ELSE /\ file' = [format |-> f, lines |-> Lines(f, sorted, lp)]
                 /\ todo' = Tail(todo)
                 /\ UNCHANGED pc
  /\ UNCHANGED <<lp, reloaded, ingested>>

\* Mutant: the index itself, not its opposite, is the z_index.
RowOfLine_Rising(line, i) ==
  [ts |-> line.ts, z |-> i, type |-> line.kind, txid |-> line.id, rc |-> line.rc,
   ra |-> line.ra, sc |-> line.sc, sa |-> line.sa, fc |-> line.fc, fee |-> line.fee]

\* The row that ingest_csv makes of the i-th line of a default CSV: what the
\* line tells, and a z_index that keeps the order of the lines.
RowOfLine(line, i) ==
  [ts |-> line.ts, z |-> 1 - i, type |-> line.kind, txid |-> line.id, rc |-> line.rc,
   ra |-> line.ra, sc |-> line.sc, sa |-> line.sa, fc |-> line.fc, fee |-> line.fee]

\* A new Exporter loads the default CSV and writes all the formats.
LoadCsv ==
  /\ pc = "export" /\ todo = << >>
  /\ file.format = "default" /\ ~reloaded
  /\ reloaded' = TRUE
  /\ rows' = [i \in DOMAIN file.lines |-> RowOfLine(file.lines[i], i)]
  /\ isReverse' = "None"
  /\ todo' = FORMATS
  /\ UNCHANGED <<pc, lp, file, ingested>>

Finish ==
  /\ pc = "export" /\ todo = << >>
  /\ pc' = "done"
  /\ UNCHANGED <<rows, isReverse, lp, todo, file, reloaded, ingested>>

Next == IngestTx \/ FinishHistory \/ StartExport \/ Export \/ LoadCsv \/ Finish

Spec == Init /\ [][Next]_vars

-----------------------------------------------------------------------------
(* Properties *)

CopiesOf(seq) ==
  [x \in {seq[i] : i \in DOMAIN seq} |-> Cardinality({i \in DOMAIN seq : seq[i] = x})]

SumOf(seq, amount(_)) == FoldSeq(LAMBDA x, sum : sum + amount(x), 0, seq)

Amounts(lines) ==
  [i \in DOMAIN lines |-> <<lines[i].kind, lines[i].ts, lines[i].rc, lines[i].ra, lines[i].sc, lines[i].sa>>]

\* A file has the lines it would have if its format had been the only one
\* written, straight from the rows of the report: neither the exports before
\* it, nor a detour through a default CSV (ingest_csv), change its lines.  Order
\* is FilesInOrder's matter; ids and the line that shows the fee of a Waltio
\* group follow the order of rows of one timestamp, which report_osmo.py's
\* conversion after the sort leaves to the formats written before.
FileAsIfAlone ==
  file.format \notin {"none", "balances"} =>
    LET alone == Sorted(ingested, Delegate(file.format) \notin OldestFirst)
    IN  CopiesOf(Amounts(file.lines)) = CopiesOf(Amounts(Lines(file.format, alone, lp)))

\* What a row of the report does to the holdings of currency c.
Change(row, c) == (IF row.rc = c THEN row.ra ELSE 0) - (IF row.sc = c THEN row.sa ELSE 0)
                    - (IF row.fc = c THEN row.fee ELSE 0)

\* Whether a format is meant to tell of a row.
Tells(f, row) ==
  /\ Delegate(f) \in TakesAllRows \/ row.type \in AllowedTypes(Delegate(f))
  /\ row.type \in LpTypes => KeepsLp(Delegate(f)) \/ lp # "omit"
  /\ f = "bitcointax" => /\ row.type \notin TransferLike
                         /\ row.type \in LpTypes => lp = "trades"

\* The part of a row that it is meant to tell: lp_treatment "transfers" leaves
\* out the side of the pool token, and cointracking's amounts include all fees
\* but those of coins that were sent to the wallet, which are in the fee column only.
PartTold(f, row) ==
  IF row.type \in LpTypes /\ ~KeepsLp(Delegate(f)) /\ lp = "transfers"
  THEN IF row.type = "LP_DEPOSIT" THEN OutOnly(row) ELSE InOnly(row)
  ELSE IF f = "cointracking" /\ row.type \in {"TRANSFER", "REPAY"} /\ ~HasOut(row) THEN NoFee(row)
  ELSE row

\* What a line says of the holdings of c: cointracking's amounts speak for themselves.
LineChange(f, line, c) ==
  IF f = "cointracking" THEN Change([line EXCEPT !.fee = 0], c) ELSE Change(line, c)

\* Every file tells the same story about money: for each currency its lines add
\* up to what the rows it is meant to tell of add up to, fees included, however
\* its format splits, groups, merges or folds them.  (A transfer in a cryptocom
\* file has no direction, so the file cannot be added up.)
FilesConserve ==
  LET f == file.format
      told == SelectSeq(ingested, LAMBDA row : Tells(f, row))
  IN  /\ f \notin {"none", "cryptocom", "balances"} =>
           \A c \in Currencies \ {NoCurrency} :
             SumOf(file.lines, LAMBDA line : LineChange(f, line, c))
               = SumOf(told, LAMBDA row : Change(PartTold(f, row), c))
      /\ f = "balances" =>
           \A c \in Currencies \ {NoCurrency} :
             file.lines[1].held[c] = SumOf(ingested, LAMBDA row : Change(row, c))

\* Every fee of the rows a file tells of is in its fee column, once.  cryptocom
\* leaves out the fees of rewards ("Fee is not allowed for received types").
FeesShownOnce ==
  LET f == file.format
      told == SelectSeq(ingested, LAMBDA row :
                Tells(f, row) /\ (f = "cryptocom" => row.type \notin {"AIRDROP", "STAKING"}))
  IN  f \notin {"none", "balances"} =>
        \A c \in Currencies \ {NoCurrency} :
          SumOf(file.lines, LAMBDA line : IF line.fc = c THEN line.fee ELSE 0)
            = SumOf(told, LAMBDA row : IF row.fc = c THEN row.fee ELSE 0)

\* The lines of a file are in the order of time its format asks for, whichever
\* direction the rows were last sorted in.
FilesInOrder ==
  \A i, j \in DOMAIN file.lines :
    i < j => IF Delegate(file.format) \in OldestFirst \ {"balances"}
             THEN file.lines[i].ts <= file.lines[j].ts
             ELSE file.lines[i].ts >= file.lines[j].ts

\* A line that says "in" sends nothing and a line that says "out" receives
\* nothing: the exporters that look at sent_amount first agree with those that
\* look at received_amount first.
DirectionsAgree ==
  file.format # "balances" =>
    \A i \in DOMAIN file.lines : LET line == file.lines[i] IN
      /\ line.kind = "in" => line.sa = 0
      /\ line.kind = "out" => line.ra = 0

\* api.csv_all: "Writes CSV files, for this wallet address, in all CSV formats";
\* no export raises and leaves the others unwritten, but for a perpetual that
\* breaks even, which leaves the tag of its cointracker line unset.
EveryFormatWritten ==
  pc = "raised" =>
    \E i \in DOMAIN ingested :
      ingested[i].type = "REALIZED_PNL" /\ ingested[i].ra = 0 /\ ingested[i].sa = 0

\* exporter_waltio.py: "Output Withdrawal for each unique crypto sent", whatever
\* else the transaction of the liquidity row did.
WaltioOutputsEveryLeg ==
  file.format = "waltio" =>
    \A i \in DOMAIN ingested :
      ingested[i].type = "LP_DEPOSIT" /\ HasOut(ingested[i]) =>
        \E k \in DOMAIN file.lines :
          file.lines[k].sc = ingested[i].sc /\ file.lines[k].sa = ingested[i].sa

\* Loading a default CSV and writing it again gives the same lines in the same
\* order, rows of one timestamp included.
ReloadKeepsFile ==
  [][reloaded /\ todo = FORMATS => file' = file]_vars

=============================================================================
