-------------------------------- MODULE SolRows --------------------------------
(***************************************************************************)
(* The rows of a Solana report and the handlers that many others end in    *)
(* (sol/make_tx.py, common/make_tx.py, sol/handle_simple.py).  A handler   *)
(* gives the rows that it exported, whether it came to its end, the orders *)
(* that it wrote down, and the transaction as it left it: the code after   *)
(* an exception starts from the fee that the handler has set.              *)
(***************************************************************************)
EXTENDS SolTx

Row(kind, sent, received, fee) == [kind |-> kind, sent |-> sent, received |-> received, fee |-> fee]

Result(t, rows) == [t |-> t, rows |-> rows, kept |-> {}, ok |-> TRUE]
Fail(t)         == [Result(t, <<>>) EXCEPT !.ok = FALSE]

\* make_simple_tx, _make_tx_sent, _make_tx_received and _make_tx_exchange.
Exchange(t, kind, sent, received) == Result(t, <<Row(kind, sent, received, t.fee)>>)
Simple(t, kind)             == Exchange(t, kind, None, None)
Sent(t, kind, sent)         == Exchange(t, kind, sent, None)
Received(t, kind, received) == Exchange(t, kind, None, received)
Swap(t, sent, received)     == Exchange(t, "swap", sent, received)

\* make_transfer_in_tx clears the fee, also for what comes after.
Cleared(t) == [t EXCEPT !.fee = NoFee]
TransferIn(t, received) == Received(Cleared(t), "transfer", received)
TransferOut(t, sent)    == Sent(t, "transfer", sent)

\* make_spend_fee_tx.
SpendFee(t, amount) == Result(t, <<Row("spend", Leg(amount, Sol), None, NoFee)>>)

Empty(t)   == Len(t.in) = 0 /\ Len(t.out) = 0
OneForOne(t) == Len(t.in) = 1 /\ Len(t.out) = 1
OnlyIn(t)  == Len(t.in) = 1 /\ Len(t.out) = 0
OnlyOut(t) == Len(t.in) = 0 /\ Len(t.out) = 1

SwapOfNet(t) == Swap(t, t.out[1], t.in[1])

\* The rows of swap_legs_from_raw, with reset_fee_to_gas.
SwapOfRaw(t) ==
  LET legs == RawLegs(t)
  IN  Swap(ResetFee(t), CHOOSE l \in legs.out : TRUE, CHOOSE l \in legs.in : TRUE)

-----------------------------------------------------------------------------

HandleUnknown(t) ==
  LET priced == [t EXCEPT !.fee = CalculateFee(t)]
  IN  Simple(priced, "unknown")

HandleGeneric(t) == SpendFee(t, CalculateFee(t))

\* Only the first of the rows has the fee.
FeeFirst(t, rows) ==
  Result(t, [k \in DOMAIN rows |-> IF k = 1 THEN rows[k] ELSE [rows[k] EXCEPT !.fee = NoFee]])

HandleUnknownDetectTransfers(t) ==
  IF Empty(t) THEN HandleUnknown(t)
  ELSE IF OneForOne(t) THEN Exchange(t, "unknown", t.out[1], t.in[1])
  ELSE FeeFirst(t, [k \in DOMAIN t.out |-> Row("unknown", t.out[k], None, t.fee)]
                     \o [k \in DOMAIN t.in |-> Row("unknown", None, t.in[k], t.fee)])

\* A swap of what came in for what went out, or what the raw transfers say.
SwapOr(t, otherwise) ==
  IF OneForOne(t) THEN SwapOfNet(t) ELSE IF HasTwoLegs(t) THEN SwapOfRaw(t) ELSE otherwise

=============================================================================
