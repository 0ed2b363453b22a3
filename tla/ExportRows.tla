------------------------------ MODULE ExportRows ------------------------------
(***************************************************************************)
(* The rows of common/Exporter.py, before any CSV format: their types      *)
(* (ExporterTypes.py), their order, the symbols they change and the rows   *)
(* that the formats get to see.                                            *)
(*                                                                         *)
(* A row is a record.  Amounts are naturals, 0 standing for "" and for 0,  *)
(* which the exporters do not tell apart; a currency of "" goes with an    *)
(* amount that is not there.  url, exchange, wallet_address and comment    *)
(* are left out.                                                           *)
(***************************************************************************)
EXTENDS Integers, Sequences, FiniteSets, Places

CONSTANTS
  Names,      \* the types and currencies in use, in the order of strings
  Alloyed,    \* function: "all..." symbol in use -> symbol without "all"
  TxIds       \* the txids in use

NoCurrency == ""

TransferLike == {"TRANSFER", "BORROW", "REPAY"}
LpTypes      == {"LP_DEPOSIT", "LP_WITHDRAW"}
Pnl          == "REALIZED_PNL"

TX_TYPES_CSVEXPORT ==
  {"STAKING", "AIRDROP", "TRADE", "SPEND", "INCOME"} \cup TransferLike \cup LpTypes

\* The types that ExporterTypes.py lists as "Common exportable transactions".
CommonExportable ==
  TX_TYPES_CSVEXPORT \cup {"GIFT_RECEIVED", "MARGIN_TRADE_FEE", Pnl}

CommonHidden == {"_UNKNOWN", "_STAKING_DELEGATE"}

Currencies == {Names[i] : i \in DOMAIN Names} \ (CommonExportable \cup CommonHidden)

\* Every type has its place among the names, and so has "", the currency of an
\* amount that is not there; "all..." symbols stand for currencies in use.
ASSUME NamesAssumption ==
  /\ DOMAIN Names \subseteq Nat
  /\ CommonExportable \cup CommonHidden \subseteq {Names[i] : i \in DOMAIN Names}
  /\ NoCurrency \in Currencies
  /\ \A c \in DOMAIN Alloyed : Alloyed[c] \in Currencies

Rows ==
  [ts: Nat, z: Int, type: CommonExportable \cup CommonHidden, txid: TxIds,
   rc: Currencies, ra: Nat, sc: Currencies, sa: Nat, fc: Currencies, fee: Nat]

FORMATS ==
  <<"default", "accointing", "awakentax", "bitcointax", "bittytax", "blockpit",
    "coinledger", "coinpanda", "cointelli", "cointracking", "cointracker",
    "cryptio", "cryptobooks", "cryptocom", "cryptotaxcalculator", "cryptoworth",
    "divly", "koinly", "kryptos", "recap", "taxbit", "tokentax", "zenledger",
    "kryptos", "waltio", "balances">>

Formats == {FORMATS[i] : i \in DOMAIN FORMATS}

LP_TREATMENT_CHOICES == {"transfers", "omit", "trades"}

-----------------------------------------------------------------------------
(* Order *)

Index(name) == CHOOSE i \in DOMAIN Names : Names[i] = name

SortKey(row) == <<row.ts, row.z, Index(row.type), Index(row.sc), Index(row.rc)>>

LexLess(a, b) ==
  \E i \in DOMAIN a : a[i] < b[i] /\ \A j \in 1 .. (i - 1) : a[j] = b[j]

\* list.sort is stable, in both directions.
Sorted(rows, reverse) ==
  LET keys == [i \in DOMAIN rows |-> SortKey(rows[i])]
      Before(i, j) == \/ IF reverse THEN LexLess(keys[j], keys[i])
                                    ELSE LexLess(keys[i], keys[j])
                      \/ keys[i] = keys[j] /\ i < j
      place == [i \in DOMAIN rows |-> 1 + Cardinality({j \in DOMAIN rows : Before(j, i)})]
  IN  [k \in DOMAIN rows |-> rows[CHOOSE i \in DOMAIN rows : place[i] = k]]

-----------------------------------------------------------------------------
(* convert_alloyed_symbols: allBTC becomes BTC *)

Unalloyed(c) == IF c \in DOMAIN Alloyed THEN Alloyed[c] ELSE c

ConvertAlloyed(rows) ==
  [i \in DOMAIN rows |->
     [rows[i] EXCEPT !.rc = Unalloyed(@), !.sc = Unalloyed(@), !.fc = Unalloyed(@)]]

-----------------------------------------------------------------------------
(* _rows_export: what a format gets to see *)

PnlFormats == {"koinly", "cointracking", "cointracker", "kryptos"}

LpFormats == {"cointracking", "coinpanda", "cointelli", "divly", "cryptobooks",
              "koinly", "kryptos", "waltio"}

\* export_cryptoworth_csv and export_awakentax_csv call another exporter.
Delegate(f) == CASE f = "cryptoworth" -> "default"
                 [] f = "awakentax"   -> "cointracker"
                 [] OTHER             -> f

\* The exporters that sort the oldest row first.
OldestFirst == {"divly", "cryptobooks", "koinly", "bittytax", "balances"}

\* The exporters that take self.rows, or ask for all of them.
TakesAllRows == {"default", "bittytax", "balances", "cryptotaxcalculator"}

AllowedTypes(f) == TX_TYPES_CSVEXPORT \cup (IF f \in PnlFormats THEN {Pnl} ELSE {})

\* Formats that see LP_DEPOSIT and LP_WITHDRAW as they are.
KeepsLp(f) == f \in LpFormats \cup {"default", "bittytax", "balances"}

AsTransferOut(row) == [row EXCEPT !.type = "TRANSFER", !.ra = 0, !.rc = NoCurrency]
AsTransferIn(row)  == [row EXCEPT !.type = "TRANSFER", !.sa = 0, !.sc = NoCurrency]
AsTrade(row)       == [row EXCEPT !.type = "TRADE"]

TreatLp(row, lp) ==
  CASE lp = "trades"                                  -> AsTrade(row)
    [] lp = "transfers" /\ row.type = "LP_DEPOSIT"    -> AsTransferOut(row)
    [] lp = "transfers" /\ row.type = "LP_WITHDRAW"   -> AsTransferIn(row)

\* f is a format that is not a delegate of another; rows are sorted.
RowsExport(f, rows, lp) ==
  LET Taken(row) == /\ f \in TakesAllRows \/ row.type \in AllowedTypes(f)
                    /\ KeepsLp(f) \/ lp # "omit" \/ row.type \notin LpTypes
      kept       == AtPlaces(rows, {i \in DOMAIN rows : Taken(rows[i])})
  IN  [i \in DOMAIN kept |->
         IF ~KeepsLp(f) /\ kept[i].type \in LpTypes THEN TreatLp(kept[i], lp) ELSE kept[i]]

=============================================================================
