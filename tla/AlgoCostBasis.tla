----------------------------- MODULE AlgoCostBasis -----------------------------
(***************************************************************************)
(* What the tokens that a lending dapp gives for a deposit have cost       *)
(* (algo/cost_basis.py): a queue of entries for every token, the oldest    *)
(* sold first, so that a withdrawal earns what exceeds its cost.           *)
(***************************************************************************)
EXTENDS AlgoRows, FiniteSets

CONSTANT PriceUnit  \* bound: a price is a multiple of 1 / PriceUnit, a Decimal in the code

ASSUME PriceUnitAssumption == PriceUnit \in Nat \ {0}

Smaller(a, b) == IF a < b THEN a ELSE b
NotBelow0(n)  == IF n < 0 THEN 0 ELSE n
Size(entry)   == IF entry.quantity < 0 THEN -entry.quantity ELSE entry.quantity
CostOf(units) == -((-units) \div PriceUnit)  \* math.ceil

\* Entry: what was bought, or sold if negative, and its price.
Entry(quantity, collateral) ==
  [quantity |-> quantity,
   price    |-> (collateral * PriceUnit) \div (IF quantity < 0 THEN -quantity ELSE quantity)]

EmptyFifo == [balance |-> 0, inventory |-> <<>>, history |-> <<>>]

\* FIFO._buy.
Buy(fifo, entry) ==
  [balance   |-> fifo.balance + Size(entry),
   inventory |-> Append(fifo.inventory, entry),
   history   |-> Append(fifo.history, entry)]

\* How much is taken of each entry in the queue when size is sold.
Taken(inventory, size) ==
  LET upTo[k \in 0 .. Len(inventory)] == IF k = 0 THEN 0 ELSE upTo[k - 1] + inventory[k].quantity
  IN  [k \in DOMAIN inventory |-> Smaller(NotBelow0(size - upTo[k - 1]), inventory[k].quantity)]

\* Mutant: the entry that is sold in part is not put back.
Left_Dropped(inventory, size) ==
  SubSeq(inventory, Len(SelectSeq(Taken(inventory, size), LAMBDA t : t > 0)) + 1, Len(inventory))

\* The entries that stay: those used up leave at the front, the next may be split.
Left(inventory, size) ==
  LET taken == Taken(inventory, size)
      gone  == {k \in DOMAIN inventory : taken[k] = inventory[k].quantity}
      rest  == [k \in DOMAIN inventory |-> [inventory[k] EXCEPT !.quantity = @ - taken[k]]]
  IN  SubSeq(rest, Cardinality(gone) + 1, Len(inventory))

\* FIFO._sell: more than there is empties the queue.
Sell(fifo, entry) ==
  LET enough == fifo.balance >= Size(entry)
  IN  [balance   |-> IF enough THEN fifo.balance - Size(entry) ELSE 0,
       inventory |-> IF enough THEN Left(fifo.inventory, Size(entry)) ELSE <<>>,
       history   |-> Append(fifo.history, entry)]

\* What it has cost, or what was got for it if there was not enough.
SaleCost(fifo, entry) ==
  LET taken == Taken(fifo.inventory, Size(entry))
      sum[k \in 0 .. Len(taken)] == IF k = 0 THEN 0 ELSE sum[k - 1] + taken[k] * fifo.inventory[k].price
  IN  CostOf(IF fifo.balance >= Size(entry) THEN sum[Len(taken)] ELSE Size(entry) * entry.price)

FifoOf(tracker, id) == IF id \in DOMAIN tracker THEN tracker[id] ELSE EmptyFifo

\* FIFO.push, into the queue of the token.
Push(tracker, pushed) ==
  LET fifo == FifoOf(tracker, pushed.id)
      next == IF pushed.entry.quantity > 0 THEN Buy(fifo, pushed.entry) ELSE Sell(fifo, pushed.entry)
  IN  [id \in DOMAIN tracker \cup {pushed.id} |-> IF id = pushed.id THEN next ELSE tracker[id]]

\* A sequence of entries, each with its token.
PushAll(tracker, all) ==
  LET done[k \in 0 .. Len(all)] == IF k = 0 THEN tracker ELSE Push(done[k - 1], all[k]) IN done[Len(all)]

-----------------------------------------------------------------------------

\* A quantity of 0 divides by zero, a price of 0 is refused.
NoEntry(collateral, receipt) ==
  {collateral, receipt} \cap {None, Raised} # {} \/ collateral.amount = 0 \/ receipt.amount = 0

Pushing(receipt, quantity, collateral) ==
  [Nothing EXCEPT !.pushed = <<[id |-> receipt.id, entry |-> Entry(quantity, collateral.amount)]>>]

\* DepositCostBasisTracker.deposit.
TrackDeposit(collateral, receipt) ==
  IF NoEntry(collateral, receipt) THEN Fail ELSE Pushing(receipt, receipt.amount, collateral)

\* The row of the interest, beside that of all that was withdrawn.
ExportInterest(a, fee) == Export({a}, NonZero(a, Received("interest", a, fee)))

\* DepositCostBasisTracker.withdraw, and the row of what it returns.
TrackWithdraw(tracker, receipt, collateral, fee) ==
  IF NoEntry(collateral, receipt) THEN Fail
  ELSE LET entry == Entry(-receipt.amount, collateral.amount)
           cost  == SaleCost(FifoOf(tracker, receipt.id), entry)
       IN  Then(Pushing(receipt, -receipt.amount, collateral),
                ExportInterest(Asset(collateral.id, NotBelow0(collateral.amount - cost)), fee))

-----------------------------------------------------------------------------

\* The reference: the tokens lie one after another, each with its price, in the order
\* they came; a sale takes those in front, and leaves none if there are too few.
Units(entry) == [k \in 1 .. Size(entry) |-> entry.price]

Dropped(units, n) == SubSeq(units, n + 1, Len(units))

UnitsLeft(history) ==
  LET left[k \in 0 .. Len(history)] ==
        IF k = 0 THEN <<>>
        ELSE IF history[k].quantity > 0 THEN left[k - 1] \o Units(history[k])
        ELSE Dropped(left[k - 1], Smaller(Size(history[k]), Len(left[k - 1])))
  IN  left[Len(history)]

\* The queue as such a row of tokens.
Unpacked(inventory) ==
  LET all[k \in 0 .. Len(inventory)] == IF k = 0 THEN <<>> ELSE all[k - 1] \o Units(inventory[k])
  IN  all[Len(inventory)]

\* The queue holds what is left of what was bought, in the order it came.
QueueKept(fifo) ==
  LET left == UnitsLeft(fifo.history) IN Unpacked(fifo.inventory) = left /\ fifo.balance = Len(left)

Gain(history, k) ==
  LET units == UnitsLeft(SubSeq(history, 1, k - 1))
      size  == Size(history[k])
      paid[j \in 0 .. size] == IF j = 0 THEN 0 ELSE paid[j - 1] + units[j]
      got   == CostOf(size * history[k].price)
  IN  IF history[k].quantity > 0 \/ Len(units) < size THEN 0 ELSE NotBelow0(got - CostOf(paid[size]))

\* What the withdrawals of a history have earned.
Gains(history) ==
  LET sum[k \in 0 .. Len(history)] == IF k = 0 THEN 0 ELSE sum[k - 1] + Gain(history, k) IN sum[Len(history)]

=============================================================================
