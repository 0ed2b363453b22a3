------------------------------- MODULE SolOrders -------------------------------
(***************************************************************************)
(* Orders at Jupiter that are opened in one transaction, executed in       *)
(* others by a keeper, and closed in a last one (sol/handle_jupiter_dca.py,*)
(* handle_jupiter_limit.py, handle_jupiter_limit_v2.py).  The SOL that was *)
(* deposited when one was opened is kept in a dictionary of a class, which *)
(* lives as long as the process: `books` has the three of them, and        *)
(* `stakes`, what is_staking_account (sol/util_sol.py) remembers.          *)
(***************************************************************************)
EXTENDS SolDapps

NoBooks == [dca |-> <<>>, limit |-> <<>>, limit2 |-> <<>>, stakes |-> <<>>]

Written(books, kept) ==
  LET Of(book) == [id \in {e.id : e \in {x \in kept : x.book = book}} |->
                     (CHOOSE e \in kept : e.book = book /\ e.id = id).deposit]
  IN  [book \in DOMAIN books |-> Of(book) @@ books[book]]

Keep(result, book, id, deposit) ==
  [result EXCEPT !.kept = {[book |-> book, id |-> id, deposit |-> deposit]}]

\* After r, s of the transaction as r left it; what r exported before s raises stays.
After(r, s) == IF ~r.ok THEN r ELSE [s EXCEPT !.rows = r.rows \o @, !.kept = r.kept \cup @]

\* _get_sol_transfer_amount.
SolOf(legs) == SelectSeq(legs, LAMBDA leg : leg.currency = Sol)
OtherOf(legs) == SelectSeq(legs, LAMBDA leg : leg.currency # Sol)

Inside(t, type) == SelectSeq(t.tx.inner, LAMBDA m : m.type = type)

\* account_to_mint, with the account that was made inside of the transaction.
CurrencyAt(t, account) ==
  LET made == t.tx.accounts3
  IN  IF made # <<>> /\ made[1].account = account THEN made[1].currency
      ELSE KnownCurrency(t.tx, t.wallet, account)

-----------------------------------------------------------------------------
\* Recurring orders.

\* The row is exported before the deposit is looked for.
OpenDca(t) ==
  LET row == Result(t, <<Row("dca_open", None, None, NoFee)>>)
      sol == SolOf(t.rawOut)
  IN  IF t.tx.creates = <<>> \/ sol = <<>> THEN [row EXCEPT !.ok = FALSE]
      ELSE Keep(row, "dca", t.tx.creates[1], sol[1].amount)

\* Mutant: the fee of the order is what was deposited for it.
SeriesFee_Deposit(deposit, refund) == deposit

\* fee = deposit - refund.
SeriesFee(deposit, refund) == deposit - refund

CloseDca(t, book) ==
  LET refund == SolOf(t.in)
      id  == t.tx.closes[1].owner
      fee == SeriesFee(book[id], refund[1].amount)
  IN  IF t.tx.closes = <<>> \/ refund = <<>> THEN Fail(t)
      ELSE IF id \in DOMAIN book /\ 0 < fee /\ fee < SaneFee THEN SpendFee(t, fee)
      ELSE Simple(t, "dca_close")

\* _handle_swap_route: the first transfer inside is what was sold; without one there
\* is no row and no exception.
RouteOfDca(t) ==
  LET moved == Inside(t, "transfer")
      sold  == CurrencyAt(t, moved[1].destination)
  IN  IF moved = <<>> THEN Result(t, <<>>)
      ELSE IF Len(t.in) # 1 \/ sold = "none" THEN Fail(t)
      ELSE Swap(t, Leg(moved[1].amount, sold), t.in[1])

\* _handle_swap_shared_accounts_route: a small SOL receipt is the refund; SOL that is
\* sold comes without a fee.
SharedRouteOfDca(t) ==
  LET moved   == Inside(t, "transfer")
      checked == Inside(t, "transferChecked")
      sold    == CurrencyAt(t, moved[1].destination)
      priced  == IF sold = Sol THEN Cleared(t) ELSE t
      large   == SelectSeq(t.in, LAMBDA leg : leg.currency # Sol \/ leg.amount >= SmallRefund)
      bought  == IF Len(t.in) = 0 THEN Leg(Last(checked).amount, Last(checked).currency)
                 ELSE IF Len(t.in) = 1 THEN t.in[1]
                 ELSE IF Len(t.in) = 2 /\ large # <<>> THEN Last(large)
                 ELSE None
  IN  IF moved = <<>> /\ checked = <<>> THEN Result(t, <<>>)
      ELSE IF moved = <<>> \/ sold = "none" THEN Fail(t)
      ELSE IF Len(t.in) = 0 /\ checked = <<>> THEN Fail(priced)
      ELSE Swap(priced, Leg(moved[1].amount, sold), bought)

HandleJupiterDca(t, book) ==
  LET closes == {"EndAndClose", "CloseDca"} \cap t.tx.logs # {}
      route  == IF Says(t, "SharedAccountsRoute") THEN SharedRouteOfDca(t) ELSE RouteOfDca(t)
  IN  IF {"OpenDca", "OpenDcaV2"} \cap t.tx.logs # {} THEN OpenDca(t)
      ELSE IF {"SharedAccountsRoute", "Route"} \cap t.tx.logs # {}
      THEN IF closes THEN After(route, CloseDca(route.t, book)) ELSE route
      ELSE IF closes THEN CloseDca(t, book)
      ELSE HandleUnknownDetectTransfers(t)

-----------------------------------------------------------------------------
\* Limit orders of both versions.

OpenLimit(t, version, ids) ==
  LET sol == SolOf(t.rawOut)
  IN  IF ids = <<>> \/ sol = <<>> \/ Len(t.out) # 1 THEN Fail(t)
      ELSE Keep(Result(t, <<Row("limit_open", None, None, NoFee)>>), version, ids[1], sol[1].amount)

\* _received_amounts: of two receipts the one of SOL is the refund.
TwoReceipts(in) == Len(in) = 2

\* Version 1 knows the order by the account that it was opened with, and takes the
\* fee of the order from its last execution.
RouteOfLimit(t, book) ==
  LET changed == SelectSeq(BalanceChanges(t.tx), LAMBDA c : c.account \in DOMAIN book)
      order   == changed[1]
      refund  == SolOf(t.in)[1].amount
      fee     == SeriesFee(book[order.account], refund)
      sold    == Leg(-order.amount, order.currency)
      swapped == Swap(t, sold, OtherOf(t.in)[1])
  IN  IF Len(changed) # 1 \/ order.amount >= 0 \/ Len(t.in) \notin 1 .. 2 THEN Fail(t)
      ELSE IF Len(t.in) = 1 THEN Swap(t, sold, t.in[1])
      ELSE IF SolOf(t.in) = <<>> \/ OtherOf(t.in) = <<>> \/ fee > SaneFee THEN Fail(t)
      ELSE IF fee = 0 THEN swapped
      ELSE [swapped EXCEPT !.rows[1].fee = fee]

CancelLimit(t, book) ==
  LET id  == t.tx.closes[1].account
      fee == SeriesFee(book[id], SolOf(t.in)[1].amount)
  IN  IF t.tx.closes = <<>> \/ ~TwoReceipts(t.in) THEN Fail(t)
      ELSE IF id \notin DOMAIN book \/ SolOf(t.in) = <<>> \/ OtherOf(t.in) = <<>> \/ fee > SaneFee THEN Fail(t)
      ELSE SpendFee(t, fee)

\* Version 2 takes what was sold from the transfers inside, and never asks for the
\* order; the refund of its last execution is in no row.
RouteOfLimit2(t) ==
  LET checked == Inside(t, "transferChecked")
      sold == Leg(checked[1].amount, checked[1].currency)
  IN  IF checked = <<>> \/ Len(t.in) \notin 1 .. 2 THEN Fail(t)
      ELSE IF Len(t.in) = 1 THEN Swap(t, sold, t.in[1])
      ELSE IF OtherOf(t.in) = <<>> THEN Fail(t)
      ELSE Swap(t, sold, Last(OtherOf(t.in)))

\* With one receipt, of SOL, the refund is all; without the deposit the fee is zero.
CancelLimit2(t, book) ==
  LET id     == t.tx.closes[1].account
      refund == SolOf(t.in)
      fee    == SeriesFee(book[id], Last(refund).amount)
      fits   == (Len(t.in) = 1 /\ refund # <<>>) \/ TwoReceipts(t.in)
  IN  IF t.tx.closes = <<>> \/ ~fits \/ (Len(t.in) = 2 /\ OtherOf(t.in) = <<>>) THEN Fail(t)
      ELSE IF id \notin DOMAIN book \/ refund = <<>> THEN SpendFee(t, 0)
      ELSE IF fee > SaneFee THEN Fail(t)
      ELSE SpendFee(t, fee)

IsRoute(t) == {"Route", "SharedAccountsRoute"} \cap t.tx.logs # {}

HandleJupiterLimit(t, book) ==
  IF IsRoute(t) THEN RouteOfLimit(t, book)
  ELSE IF Says(t, "InitializeOrder") THEN OpenLimit(t, "limit", t.tx.accounts1)
  ELSE IF Says(t, "CancelOrder") THEN CancelLimit(t, book)
  ELSE Fail(t)

HandleJupiterLimitV2(t, book) ==
  IF IsRoute(t) THEN RouteOfLimit2(t)
  ELSE IF Says(t, "InitializeOrder")
  THEN OpenLimit(t, "limit2", IF t.tx.accounts3 = <<>> THEN <<>> ELSE <<Last(t.tx.accounts3).account>>)
  ELSE IF Says(t, "CancelOrder") THEN CancelLimit2(t, book)
  ELSE Fail(t)

=============================================================================
