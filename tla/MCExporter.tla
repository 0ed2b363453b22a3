------------------------------ MODULE MCExporter ------------------------------
(***************************************************************************)
(* Reports for TLC: what the processors of several chains ingest for one   *)
(* transaction, with small amounts.                                        *)
(***************************************************************************)
EXTENDS Exporter, TLC

MCNames ==
  <<"", "AIRDROP", "ATOM", "BORROW", "BTC", "GAMM-1", "GIFT_RECEIVED", "INCOME",
    "LP_DEPOSIT", "LP_WITHDRAW", "MARGIN_TRADE_FEE", "OSMO", "REALIZED_PNL", "REPAY",
    "SPEND", "STAKING", "TRADE", "TRANSFER", "USD", "_STAKING_DELEGATE", "_UNKNOWN", "allBTC">>

MCAlloyed == [c \in {"allBTC"} |-> "BTC"]

Nothing == [ts |-> 0, z |-> 0, rc |-> "", ra |-> 0, sc |-> "", sa |-> 0, fc |-> "", fee |-> 0]
Row(type, txid) == Nothing @@ [type |-> type, txid |-> txid]
Got(row, n, c)  == [row EXCEPT !.ra = n, !.rc = c]
Gave(row, n, c) == [row EXCEPT !.sa = n, !.sc = c]
Paid(row, n, c) == [row EXCEPT !.fee = n, !.fc = c]

\* ibc/handle.py handle_staking: two rewards, the fee on the first.
Reward == <<Paid(Got(Row("STAKING", "reward"), 5, "OSMO"), 1, "OSMO"),
            Got(Row("STAKING", "reward"), 2, "ATOM")>>

\* osmo/handle_lp.py handle_lp_deposit: half of the pool token on each row.
Join == <<Paid(Gave(Got(Row("LP_DEPOSIT", "join"), 2, "GAMM-1"), 3, "OSMO"), 1, "OSMO"),
          Gave(Got(Row("LP_DEPOSIT", "join"), 2, "GAMM-1"), 4, "ATOM")>>

Exit == <<Paid(Got(Gave(Row("LP_WITHDRAW", "exit"), 1, "GAMM-1"), 3, "OSMO"), 1, "OSMO"),
          Got(Gave(Row("LP_WITHDRAW", "exit"), 1, "GAMM-1"), 2, "allBTC")>>

\* A swap with its fee in a third currency.
Swap == <<Paid(Gave(Got(Row("TRADE", "swap"), 6, "allBTC"), 3, "ATOM"), 1, "OSMO")>>

Send    == <<Paid(Gave(Row("TRANSFER", "send"), 3, "OSMO"), 1, "OSMO")>>
Receive == <<Got(Row("TRANSFER", "receive"), 3, "ATOM")>>
Borrow  == <<Paid(Got(Row("BORROW", "borrow"), 4, "OSMO"), 1, "OSMO")>>
Repay   == <<Paid(Gave(Row("REPAY", "repay"), 4, "ATOM"), 1, "OSMO")>>
FeeOnly == <<Gave(Row("SPEND", "vote"), 1, "OSMO")>>
Hidden  == <<Paid(Row("_STAKING_DELEGATE", "delegate"), 1, "OSMO")>>

\* sol/handle_jupiter_perp.py: the gain or the loss of a perpetual is told in dollars.
Loss == <<Paid(Gave(Row("REALIZED_PNL", "perp"), 2, "USD"), 1, "OSMO")>>
Gain == <<Paid(Got(Row("REALIZED_PNL", "gain"), 2, "USD"), 1, "OSMO")>>

\* luna1/col5/contracts/mars.py handle_mars_unbond: receipts that show the fee.
Unbond == <<Paid(Got(Row("TRANSFER", "unbond"), 4, "OSMO"), 1, "OSMO")>>

\* osmo/handle_concentrated_lp.py handle_migrate_to_concentrated: one message
\* exits a pool and enters another, all rows with the txid of the message.
Migrate == <<Paid(Got(Gave(Row("LP_WITHDRAW", "migrate"), 2, "GAMM-1"), 3, "OSMO"), 1, "OSMO"),
             Gave(Got(Row("LP_DEPOSIT", "migrate"), 2, "GAMM-1"), 3, "OSMO")>>

MCTxIds == {"reward", "join", "exit", "swap", "send", "receive", "borrow", "repay", "vote",
            "delegate", "perp", "gain", "unbond", "migrate"}

\* Kinds of rows that some file is known to misstate are left out: a perpetual that
\* breaks even, halves of a fee on two rows, GIFT_RECEIVED (see the README).
UsualTxs == {Reward, Join, Exit, Swap, Send, Receive, Borrow, Repay, FeeOnly, Hidden,
             Loss, Gain, Unbond}

MigrateTxs == {Migrate, Send}

=============================================================================
