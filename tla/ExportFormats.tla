----------------------------- MODULE ExportFormats -----------------------------
(***************************************************************************)
(* The lines that the exporters of common/Exporter.py and                  *)
(* common/exporter_waltio.py write for a sequence of rows, one operator    *)
(* per shape of line.                                                      *)
(*                                                                         *)
(* A line keeps what its format says about money: what came in, what went  *)
(* out, the fee, and "kind".  The kind is the direction ("in", "out",      *)
(* "both", "none") where the exporter works one out, else the row type     *)
(* that the label is looked up from; "trade" and the names of the lines    *)
(* that cointracking and Waltio add stand for themselves.  id is what the  *)
(* format takes for the identity of the line.                              *)
(***************************************************************************)
EXTENDS ExportRows, SequencesExt

Line(kind, id, row) ==
  [kind |-> kind, id |-> id, ts |-> row.ts, rc |-> row.rc, ra |-> row.ra,
   sc |-> row.sc, sa |-> row.sa, fc |-> row.fc, fee |-> row.fee]

HasIn(row)  == row.ra > 0
HasOut(row) == row.sa > 0

Side(row) == IF HasIn(row) THEN (IF HasOut(row) THEN "both" ELSE "in")
                           ELSE (IF HasOut(row) THEN "out" ELSE "none")

-----------------------------------------------------------------------------
(* Kinds *)

InUnlessOut(row) == IF Side(row) = "out" THEN "out" ELSE "in"
InFirst(row)     == IF HasIn(row) THEN "in" ELSE "out"

\* Mutant: received_amount is tested for sent_amount.
OutFirst_Swapped(row) == IF HasIn(row) THEN "out" ELSE "in"

OutFirst(row)    == IF HasOut(row) THEN "out" ELSE "in"
OutFirstOrNone(row) == IF Side(row) = "none" THEN "none" ELSE OutFirst(row)
Loan(row)        == IF row.type = "BORROW" THEN "in" ELSE "out"

\* Where transfers get their direction from, in the formats that look at nothing else.
PlainTransferKind(f, row) ==
  CASE f \in {"recap", "cryptotaxcalculator"} -> InFirst(row)
    [] f \in {"accointing", "cointelli"}      -> OutFirstOrNone(row)
    [] f \in {"divly", "bittytax"}            -> Side(row)
    [] OTHER                                  -> row.type

\* Where transfers, loans and repayments get their direction from.
TransferKind(f, row) ==
  CASE f \in {"cointracking", "tokentax", "zenledger"} -> InUnlessOut(row)
    [] f \in {"coinledger", "kryptos"}                 -> Side(row)
    [] f = "taxbit"                                    -> InFirst(row)
    [] f \in {"blockpit", "cryptio"}                   -> OutFirst(row)
    [] OTHER -> IF row.type = "TRANSFER" THEN PlainTransferKind(f, row)
                ELSE IF f \in {"divly", "recap", "accointing"} THEN Loan(row) ELSE row.type

PnlKind(f, row) ==
  IF f \in {"cointracking", "cointracker"} THEN InUnlessOut(row) ELSE row.type

\* Waltio takes rewards and airdrops for deposits, whatever they moved.  (What a
\* comment says goes before that; comments are left out.)
WaltioKind(row) == IF row.type \in {"STAKING", "AIRDROP"} THEN "in" ELSE Side(row)

Kind(f, row) ==
  IF f = "waltio" THEN WaltioKind(row)
  ELSE
  IF \/ f \in {"cryptobooks", "coinpanda"}
     \/ f = "bittytax" /\ row.type = "_UNKNOWN"
     \/ f = "cryptotaxcalculator" /\ row.type \notin TX_TYPES_CSVEXPORT
  THEN Side(row)
  ELSE CASE row.type \in TransferLike -> TransferKind(f, row)
         [] row.type = Pnl            -> PnlKind(f, row)
         [] OTHER                     -> row.type

-----------------------------------------------------------------------------
(* Exporters whose loop leaves a variable unset for some rows: it keeps    *)
(* the value of an earlier row, and without one the export raises.         *)

\* Mutant: export_cointracker_csv without the branch for losses.
Undetermined_NoLoss(f, row) == f = "cointracker" /\ row.type = Pnl /\ ~HasIn(row)

Undetermined(f, row) ==
  \/ f = "cointracker" /\ row.type = Pnl /\ Side(row) = "none"
  \/ f = "recap" /\ row.type = "TRANSFER" /\ Side(row) = "none"
  \/ f \in {"cryptocom", "cryptio"} /\ row.type \in TransferLike /\ Side(row) = "none"

\* cryptocom sets amt and cur for transfers only; cryptio raises at once.
Determines(f, row) ==
  /\ ~Undetermined(f, row)
  /\ f = "cryptocom" => row.type \in TransferLike
  /\ f # "cryptio"

Raises(f, rows) ==
  \E i \in DOMAIN rows :
    Undetermined(f, rows[i]) /\ ~\E j \in 1 .. (i - 1) : Determines(f, rows[j])

\* The row whose values line i gets.
ValuesFrom(f, rows, i) ==
  IF Undetermined(f, rows[i])
  THEN rows[Max({j \in 1 .. (i - 1) : Determines(f, rows[j])})]
  ELSE rows[i]

-----------------------------------------------------------------------------
(* cointracking: liquidity in two lines, fees folded into the amounts *)

\* Mutant: every line of what came in is taken for a Deposit, gains of perpetuals too.
IsDeposit_Gain(kind, row) == kind = "in" /\ row.type # "BORROW"

\* A transfer or repayment whose line has the type Deposit; its fee stays where it is.
IsDeposit(kind, row) == kind = "in" /\ row.type \in {"TRANSFER", "REPAY"}

CtLine(kind, row) ==
  LET id    == <<row.txid, row.rc, row.sc>>
      plain == Line(kind, id, row)
      other == [kind |-> "Other Fee", id |-> <<row.txid, "fee">>, ts |-> row.ts,
                rc |-> NoCurrency, ra |-> 0, sc |-> row.fc, sa |-> row.fee,
                fc |-> NoCurrency, fee |-> 0]
  IN  IF row.fee = 0 \/ IsDeposit(kind, row) THEN <<plain>>
      ELSE IF HasIn(row) /\ row.rc = row.fc  THEN <<[plain EXCEPT !.ra = @ - row.fee]>>
      ELSE IF HasOut(row) /\ row.sc = row.fc THEN <<[plain EXCEPT !.sa = @ + row.fee]>>
      ELSE IF row.fc \notin {row.rc, row.sc} THEN <<plain, other>> ELSE <<plain>>

InOnly(row)  == [row EXCEPT !.sa = 0, !.sc = NoCurrency]
OutOnly(row) == [row EXCEPT !.ra = 0, !.rc = NoCurrency]
NoFee(row)   == [row EXCEPT !.fee = 0]

CointrackingLines(row) ==
  CASE row.type = "LP_DEPOSIT"  -> CtLine("Provide Liquidity", NoFee(OutOnly(row)))
                                   \o CtLine("Receive LP Token", InOnly(row))
    [] row.type = "LP_WITHDRAW" -> CtLine("Remove Liquidity", NoFee(InOnly(row)))
                                   \o CtLine("Return LP Token", OutOnly(row))
    [] OTHER                    -> CtLine(Kind("cointracking", row), row)

-----------------------------------------------------------------------------
(* Waltio: the liquidity rows of a txid become one group *)

WaltioGroup(rows, i) ==
  AtPlaces(rows, {j \in DOMAIN rows : rows[j].txid = rows[i].txid /\ rows[j].type = rows[i].type})

\* Mutant: processed_lp_hashes is never filled.
LpProcessed_Never(rows, i) == FALSE

\* processed_lp_hashes holds txids, whatever the type of the row that put them there.
LpProcessed(rows, i) ==
  \E j \in 1 .. (i - 1) : rows[j].type \in LpTypes /\ rows[j].txid = rows[i].txid

\* _pick_fee_once: the first fee of the group that is not nothing.
FeeOnce(group) ==
  LET paid == {i \in DOMAIN group : group[i].fee > 0}
  IN  IF paid = {} THEN [fc |-> NoCurrency, fee |-> 0]
      ELSE [fc |-> group[Min(paid)].fc, fee |-> group[Min(paid)].fee]

LpTotal(group, amount(_)) == FoldSeq(LAMBDA row, sum : sum + amount(row), 0, group)

LastWith(group, has(_)) ==
  LET with == {i \in DOMAIN group : has(group[i])}
  IN  IF with = {} THEN group[1] ELSE group[Max(with)]

WaltioDeposit(group) ==
  LET fee   == FeeOnce(group)
      Leg(j) == [Line("Withdrawal", <<group[j].txid, j, "sent">>, NoFee(OutOnly(group[j])))
                   EXCEPT !.fee = IF j = 1 THEN fee.fee ELSE 0,
                          !.fc  = IF j = 1 THEN fee.fc ELSE NoCurrency]
      legs  == AtPlaces([j \in DOMAIN group |-> Leg(j)], {j \in DOMAIN group : HasOut(group[j])})
      total == LpTotal(group, LAMBDA row : row.ra)
      token == [kind |-> "Deposit", id |-> <<group[1].txid, "lp_received">>, ts |-> group[1].ts,
                rc |-> LastWith(group, HasIn).rc, ra |-> total, sc |-> NoCurrency, sa |-> 0,
                fc |-> NoCurrency, fee |-> 0]
  IN  IF total > 0 THEN Append(legs, token) ELSE legs

WaltioWithdraw(group) ==
  LET fee   == FeeOnce(group)
      Leg(j) == [Line("Deposit", <<group[j].txid, j, "received">>, NoFee(InOnly(group[j])))
                   EXCEPT !.fc = NoCurrency]
      legs  == AtPlaces([j \in DOMAIN group |-> Leg(j)], {j \in DOMAIN group : HasIn(group[j])})
      total == LpTotal(group, LAMBDA row : row.sa)
      token == [kind |-> "Withdrawal", id |-> <<group[1].txid, "lp_sent">>, ts |-> group[1].ts,
                rc |-> NoCurrency, ra |-> 0, sc |-> LastWith(group, HasOut).sc, sa |-> total,
                fc |-> fee.fc, fee |-> fee.fee]
  IN  IF total > 0 THEN Append(legs, token) ELSE legs

WaltioLines(rows, i) ==
  IF rows[i].type \notin LpTypes
  THEN <<Line(Kind("waltio", rows[i]), <<rows[i].txid>>, rows[i])>>
  ELSE IF LpProcessed(rows, i) THEN << >>
  ELSE IF rows[i].type = "LP_DEPOSIT" THEN WaltioDeposit(WaltioGroup(rows, i))
                                      ELSE WaltioWithdraw(WaltioGroup(rows, i))

-----------------------------------------------------------------------------
(* The formats of another shape *)

\* A transfer fills both sides with one amount; rewards lose their fee.
CryptocomLine(rows, i) ==
  LET row  == rows[i]
      from == ValuesFrom("cryptocom", rows, i)
      amt  == IF HasIn(from) THEN from.ra ELSE from.sa
      cur  == IF HasIn(from) THEN from.rc ELSE from.sc
      line == IF row.type \in TransferLike
              THEN Line("transfer", row.txid, [row EXCEPT !.ra = amt, !.rc = cur, !.sa = amt, !.sc = cur])
              ELSE Line(row.type, row.txid, row)
  IN  IF row.type \in {"AIRDROP", "STAKING"} THEN [line EXCEPT !.fee = 0, !.fc = NoCurrency] ELSE line

\* Transfers are left out, an income shows one side and so does an expense.
BitcointaxLines(row) ==
  CASE row.type \in TransferLike                     -> << >>
    [] row.type \in {"AIRDROP", "STAKING", "INCOME"} -> <<Line(row.type, row.txid, InOnly(row))>>
    [] row.type = "SPEND"                            -> <<Line(row.type, row.txid, OutOnly(row))>>
    [] OTHER                                         -> <<Line(row.type, row.txid, row)>>

\* cryptobooks: an incoming or an outgoing line shows one side.
CryptobooksLine(row) ==
  LET kind == Side(row)
  IN  Line(kind, row.txid, CASE kind \in {"in", "none"} -> InOnly(row)
                             [] kind = "out"            -> OutOnly(row)
                             [] OTHER                   -> row)

\* A line of the balances: what the wallet holds after the row.
Holdings(rows, n) ==
  [c \in Currencies \ {NoCurrency} |->
     FoldSeq(LAMBDA row, held : held + (IF row.rc = c THEN row.ra ELSE 0)
                                     - (IF row.sc = c THEN row.sa ELSE 0)
                                     - (IF row.fc = c THEN row.fee ELSE 0),
             0, SubSeq(rows, 1, n))]

\* export_balances_csv: computed oldest first, written newest first.
BalancesLines(rows) ==
  Reverse([n \in DOMAIN rows |-> [ts |-> rows[n].ts, id |-> rows[n].txid, held |-> Holdings(rows, n)]])

\* What the exporter of a format, which is not a delegate, writes for a row it sees.
LinesOf(g, seen, i) ==
  CASE g = "cointracking" -> CointrackingLines(seen[i])
    [] g = "waltio"       -> WaltioLines(seen, i)
    [] g = "bitcointax"   -> BitcointaxLines(seen[i])
    [] g = "cryptobooks"  -> <<CryptobooksLine(seen[i])>>
    [] g = "cryptocom"    -> <<CryptocomLine(seen, i)>>
    [] g \in {"recap", "cointracker"}
                          -> <<Line(Kind(g, ValuesFrom(g, seen, i)), seen[i].txid, seen[i])>>
    [] OTHER              -> <<Line(Kind(g, seen[i]), seen[i].txid, seen[i])>>

\* The lines of the file that export_format writes for sorted rows.
Lines(f, rows, lp) ==
  LET g    == Delegate(f)
      seen == RowsExport(g, rows, lp)
  IN  IF g = "balances" THEN BalancesLines(seen)
      ELSE FlattenSeq([i \in DOMAIN seen |-> LinesOf(g, seen, i)])

\* Whether the export of a format raises instead.
ExportRaises(f, rows, lp) ==
  LET g == Delegate(f)
  IN  g \notin TakesAllRows /\ Raises(g, RowsExport(g, rows, lp))

=============================================================================
