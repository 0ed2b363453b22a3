------------------------------- MODULE AlgoGroups -------------------------------
(***************************************************************************)
(* The transactions of an Algorand account, cut into groups, each offered  *)
(* to the dapps in turn (algo/processor.py, algo/handle_group.py).         *)
(*                                                                         *)
(* What a dapp exported before it raised stays, and the next one gets the  *)
(* whole group.  A group that raises at the end is left at its first       *)
(* transaction: the rest of it is a group of its own.                      *)
(***************************************************************************)
EXTENDS AlgofiV1, AlgofiV2, FolksV1, FolksV2, FiniteSets, FiniteSetsExt

CONSTANTS
  Histories,  \* the lists of transactions that the indexer may give
  Escrows,    \* other accounts of the wallet, which hold its offers or its collateral
  Orders      \* orders of the dapps: os.listdir gives their modules in any

\* The modules of algo/dapp.
Plugins ==
  {"algodex", "algofiv1", "algofiv2", "deflex", "folksv1", "folksv2",
   "humbleswap", "pact", "tinymanv1", "tinymanv2", "vestige", "yieldly"}

\* Those with a cost basis.
Lenders == {"algofiv1", "algofiv2", "folksv1", "folksv2"}

\* The transactions of a group are of one round, where each has an offset of its own;
\* amounts are whole numbers.
ASSUME AlgoGroupsAssumption ==
  /\ \A h \in Histories :
       /\ h # <<>> /\ h \in Seq({h[k] : k \in DOMAIN h})
       /\ \A k \in DOMAIN h : /\ h[k].offset \in Nat /\ h[k].amount \in Nat /\ h[k].told \in Nat
                             /\ h[k].inner \in Seq({h[k].inner[j] : j \in DOMAIN h[k].inner})
                             /\ \A j \in DOMAIN h[k].inner : h[k].inner[j].amount \in Nat
       /\ \A j, k \in DOMAIN h :
            j < k /\ h[j].group # "none" /\ (\A between \in j .. k : h[between].group = h[j].group)
              => h[j].offset # h[k].offset
  /\ \A order \in Orders : order \in Seq(Plugins)

VARIABLES
  transactions, \* the history, oldest first
  dapps,        \* the order of the plugins
  memory,       \* what the plugins keep from one group to the next
  i,            \* place of the next transaction
  group,        \* the group that is handled
  asked,        \* how many of the dapps have been asked for it
  rows,         \* rows that were made of it
  errors,       \* exceptions that were logged for it
  handled       \* history: the groups that are over, with their rows

vars == <<transactions, dapps, memory, i, group, asked, rows, errors, handled>>

Init ==
  /\ transactions \in Histories
  /\ dapps \in Orders
  /\ memory = [trackers |-> [d \in Lenders |-> <<>>], escrows |-> {}, managers |-> Managers]
  /\ i = 1
  /\ group = <<>> /\ asked = 0 /\ rows = <<>> /\ errors = 0
  /\ handled = <<>>

-----------------------------------------------------------------------------

\* The last of the transactions from start that are of one group.
GroupEnd(start) ==
  LET id == transactions[start].group
      Member(k) == transactions[k].group = id
  IN  CHOOSE k \in start .. Len(transactions) :
        /\ \A j \in start .. k : Member(j)
        /\ k < Len(transactions) => ~Member(k + 1)

\* get_group_transactions: in the order of the round, whatever that of the list.
InRoundOrder(txs) ==
  LET Before(t) == {k \in DOMAIN txs : txs[k].offset < t.offset}
  IN  [p \in DOMAIN txs |-> CHOOSE t \in {txs[k] : k \in DOMAIN txs} : Cardinality(Before(t)) = p - 1]

GroupAt(start) ==
  IF transactions[start].group = "none" THEN <<transactions[start]>>
  ELSE InRoundOrder(SubSeq(transactions, start, GroupEnd(start)))

\* Mutant: the last transaction is left.
More_ButLast == i < Len(transactions)

\* while i < length.
More == i <= Len(transactions)

\* The next group, or transaction without one.
NextGroup ==
  /\ group = <<>> /\ More
  /\ group' = GroupAt(i)
  /\ UNCHANGED <<transactions, dapps, memory, i, asked, rows, errors, handled>>

\* is_dapp_transaction and handle_dapp_transaction.
IsDappTransaction(dapp, txs) ==
  CASE dapp = "algodex"    -> IsAlgodex(txs)
    [] dapp = "algofiv1"   -> IsAlgofiV1(txs, memory.managers)
    [] dapp = "algofiv2"   -> IsAlgofiV2(txs)
    [] dapp = "deflex"     -> IsDeflex(txs)
    [] dapp = "folksv1"    -> IsFolksV1(txs, memory.escrows)
    [] dapp = "folksv2"    -> IsFolksV2(txs)
    [] dapp = "humbleswap" -> IsHumbleswap(txs)
    [] dapp = "pact"       -> IsPact(txs)
    [] dapp = "tinymanv1"  -> IsTinymanV1(txs)
    [] dapp = "tinymanv2"  -> IsTinymanV2(txs)
    [] dapp = "vestige"    -> IsVestige(txs)
    [] dapp = "yieldly"    -> IsYieldly(txs)

HandleDappTransaction(dapp, txs) ==
  CASE dapp = "algodex"    -> HandleAlgodex(txs)
    [] dapp = "algofiv1"   -> HandleAlgofiV1(txs, memory.trackers[dapp])
    [] dapp = "algofiv2"   -> HandleAlgofiV2(txs, memory.trackers[dapp])
    [] dapp = "deflex"     -> HandleDeflex(txs)
    [] dapp = "folksv1"    -> HandleFolksV1(txs, memory.trackers[dapp], memory.escrows)
    [] dapp = "folksv2"    -> HandleFolksV2(txs, memory.trackers[dapp])
    [] dapp = "humbleswap" -> HandleHumbleswap(txs)
    [] dapp = "pact"       -> HandlePact(txs)
    [] dapp = "tinymanv1"  -> HandleTinymanV1(txs)
    [] dapp = "tinymanv2"  -> HandleTinymanV2(txs)
    [] dapp = "vestige"    -> HandleVestige(txs)
    [] dapp = "yieldly"    -> HandleYieldly(txs)

\* A dapp that has looked at the group, and what its handler has kept, even if it raised.
Remember(dapp, pushed, noted) ==
  memory' = [trackers |-> [d \in Lenders |-> IF d = dapp THEN PushAll(memory.trackers[d], pushed) ELSE memory.trackers[d]],
             escrows  |-> memory.escrows \cup noted,
             managers |-> IF dapp = "algofiv1" THEN ManagersAfter(group, memory.managers) ELSE memory.managers]

\* The group is over, handled by a dapp, in the general way, or raising.
Over(by, moreRows, moreErrors) ==
  /\ handled' = Append(handled, [first |-> i, group |-> group, by |-> by,
                                 rows |-> rows \o moreRows, errors |-> errors + moreErrors])
  /\ group' = <<>> /\ asked' = 0 /\ rows' = <<>> /\ errors' = 0

\* The next dapp is asked, after one that refused or raised.
AskNext(moreRows, moreErrors) ==
  /\ asked' = asked + 1
  /\ rows' = rows \o moreRows /\ errors' = errors + moreErrors
  /\ UNCHANGED <<i, group, handled>>

\* A dapp refuses the group, handles it, or raises in either.
AskDapp ==
  /\ group # <<>> /\ asked < Len(dapps)
  /\ LET dapp == dapps[asked + 1] IN
     \E answer \in {IsDappTransaction(dapp, group)} :
       \/ answer = "no" /\ AskNext(<<>>, 0) /\ Remember(dapp, <<>>, {})
       \/ answer = "raise" /\ AskNext(<<>>, 1) /\ Remember(dapp, <<>>, {})
       \/ /\ answer = "yes"
          /\ \E result \in {HandleDappTransaction(dapp, group)} :
               /\ \/ ~result.ok /\ AskNext(result.rows, 1)
                  \/ result.ok /\ Over(dapp, result.rows, 0) /\ i' = i + Len(group)
               /\ Remember(dapp, result.pushed, result.noted)
  /\ UNCHANGED <<transactions, dapps>>

\* Mutant: after an exception the whole group is left.
AfterException_Group == i + Len(group)

\* The place after a group that raised.
AfterException == i + 1

\* No dapp has handled the group.
Generic ==
  /\ group # <<>> /\ asked = Len(dapps)
  /\ \E result \in {HandleGeneric(group)} :
       \/ result.ok /\ Over("generic", result.rows, 0) /\ i' = i + Len(group)
       \/ ~result.ok /\ Over("raised", result.rows \o UnknownResult.rows, 1) /\ i' = AfterException
  /\ UNCHANGED <<transactions, dapps, memory>>

Next == NextGroup \/ AskDapp \/ Generic

\* WF_vars(Next) with its ENABLED written out, which TLC is slow to evaluate.
Running == group # <<>> \/ More
Fairness == []<>~Running \/ []<><<Next>>_vars

Spec == Init /\ [][Next]_vars /\ Fairness

-----------------------------------------------------------------------------

\* What the rows of a group say of an asset, and what its transactions did to the
\* accounts own.  Interest is part of what was withdrawn, and told once more.
Reported(theRows, id) ==
  Summed([k \in DOMAIN theRows |-> LET r == theRows[k] IN
            IF r.kind = "interest" THEN 0
            ELSE If(r.in.id = id, r.in.amount) - If(r.out.id = id, r.out.amount) - If(id = Algo, r.fee)])

Moved(tx, own, id) ==
  LET sender == tx.sender \in own
  IN  If(IsTransfer(tx) /\ tx.asset = id,
         If(tx.receiver \in own, tx.amount) + If(tx.close \in own, tx.closeAmount)
           - If(sender, tx.amount + tx.closeAmount))
      + If(id = Algo, If(sender, tx.senderRewards - tx.fee) + If(tx.receiver \in own, tx.receiverRewards)
                        + If(tx.close \in own, tx.closeRewards))

OnChain(txs, own, id) == LET flat == Flat(txs) IN Summed([k \in DOMAIN flat |-> Moved(flat[k], own, id)])

FeesOf(txs, own) == SumFees(SelectSeq(Flat(txs), LAMBDA t : t.sender \in own))

\* What goes to an account that a dapp keeps for the wallet is not gone.
OwnAccounts(h) ==
  {Wallet} \cup (CASE h.by \in {"algodex", "folksv1"} -> Escrows
                    [] h.by = "algofiv1" -> {StorageV1}
                    [] h.by = "algofiv2" -> {StorageV2}
                    [] OTHER             -> {})

\* The indexer gave all transactions of the group, and no row says that one is unknown or excluded.
Clean(h) ==
  /\ Len(h.group) = h.group[1].size /\ h.errors = 0
  /\ \A k \in DOMAIN h.rows : h.rows[k].kind \notin {"unknown", "excluded"}

\* What the code leaves out or counts twice: the opening and closing of orders, the
\* creation of the escrow of a farm, the deposit that a Yieldly pool gives back at its
\* end, a fee of Pera without its swap, and a wallet that closes its account in a
\* payment to itself.
KnownGap(h) ==
  \/ h.by = "algodex" /\ h.rows = <<>>
  \/ h.by = "pact" /\ IsPactFarmEscrowCreate(h.group)
  \/ h.by = "yieldly" /\ h.group[1].completion = "closeout"
  \/ h.by = "generic" /\ \E k \in DOMAIN h.group :
       LET tx == h.group[k]
       IN  \/ tx.note = "pera" /\ h.rows[Len(h.rows)].kind # "swap"
           \/ {tx.sender, tx.receiver} = {Wallet} /\ tx.close \notin {"none", Wallet}

\* Of the lending dapps: a liquidation has the name of the asset that is lent, the
\* airdrop is locked without a transfer, gALGO that is claimed or ordered early has the
\* rows of one side only, a sender's rewards are taken for the wallet's, what an opt-in
\* to governance pays is in no row.
LendingGap(h) ==
  \/ h.by = "algofiv1" /\ \E k \in DOMAIN h.rows : h.rows[k].kind \in {"liquidate", "repay"} /\ IsAlgofiLiquidate(h.group)
  \/ h.by = "algofiv2" /\ (IsAirdrop(h.group) \/ IsGovOptin(h.group))
  \/ h.by = "folksv1" /\ (IsGalgoClaimPremint(h.group) \/ IsGalgo3Optin(h.group))
  \/ h.by = "folksv2" /\ (IsClaimPremint2(h.group) \/ h.rows = <<>>)
  \/ h.by \in {"algofiv1", "folksv1"} /\ h.group[1].sender # Wallet /\ h.group[1].senderRewards > 0

\* The tokens of its farms are not in the rows of HumbleSwap, nor those that stand for
\* a deposit in the rows of Folks.
LeftOut(h, id) ==
  \/ h.by = "humbleswap" /\ id \in DOMAIN LpTokens /\ IsHumbleswapFarm(h.group)
  \/ h.by \in {"folksv1", "folksv2"} /\ id \in FolksTokens

\* The rows of a group add up to what it did on the chain: of every asset exactly, of
\* ALGO but for fees that are in no row and receipts that are dust.  Dapp handlers take
\* transactions by their places and deduct change, so nothing else says that no
\* leg is missed, doubled or given the wrong sign.
Balanced ==
  group = <<>> /\ handled # <<>> =>
    LET h == handled[Len(handled)]
        own == OwnAccounts(h)
        ids == {Flat(h.group)[k].asset : k \in DOMAIN Flat(h.group)}
    IN  Clean(h) /\ ~KnownGap(h) /\ ~LendingGap(h) =>
          /\ \A id \in ids \ {Algo} : LeftOut(h, id) \/ Reported(h.rows, id) = OnChain(h.group, own, id)
          /\ LET missing == Reported(h.rows, Algo) - OnChain(h.group, own, Algo)
             IN  missing \in -Dust .. FeesOf(h.group, own)

\* Every transaction that is passed is in exactly one group that was handled, or was
\* the first of one that raised, for which there is a row: an exception in the
\* midst of a group costs and repeats no transaction.
Places(h) == h.first .. h.first + (IF h.by = "raised" THEN 0 ELSE Len(h.group) - 1)

EachOnce ==
  \A p \in 1 .. i - 1 :
    LET over == {k \in DOMAIN handled : p \in Places(handled[k])}
    IN  /\ Cardinality(over) = 1
        /\ \A k \in over : \E j \in DOMAIN handled[k].group : handled[k].group[j] = transactions[p]

\* At most one dapp takes a group for its own: the plugins are asked in the order in
\* which the file system lists them, which must not decide what a report says.
NoRivals ==
  group # <<>> /\ asked = 0 => Cardinality({k \in DOMAIN dapps : IsDappTransaction(dapps[k], group) = "yes"}) <= 1

\* What is left of a token is what a row of tokens leaves from which every withdrawal
\* takes the oldest.
QueuesKept ==
  \A dapp \in DOMAIN memory.trackers :
    \A id \in DOMAIN memory.trackers[dapp] : QueueKept(memory.trackers[dapp][id])

\* The queues are kept, and the rows of interest tell what the withdrawals have earned
\* over what exactly those tokens had cost: entries are split, joined and dropped on the
\* way, over any number of deposits, and a token sold at the wrong cost only shows later.
InterestBy(dapp) ==
  LET by == SelectSeq(handled, LAMBDA h : h.by = dapp)
      Interest(theRows) == Summed([k \in DOMAIN theRows |-> If(theRows[k].kind = "interest", theRows[k].in.amount)])
  IN  Summed([k \in DOMAIN by |-> Interest(by[k].rows)])

Earned(tracker) == MapThenSumSet(LAMBDA id : Gains(tracker[id].history), DOMAIN tracker)

FirstInFirstOut ==
  group = <<>> =>
    LET Complete(h) == h.errors = 0 /\ \A k \in DOMAIN h.rows : h.rows[k].kind # "excluded"
    IN  /\ QueuesKept
        /\ (\A k \in DOMAIN handled : Complete(handled[k])) =>
             \A dapp \in DOMAIN memory.trackers : InterestBy(dapp) = Earned(memory.trackers[dapp])

\* The loop ends with every transaction passed, whatever raises.
Processed == <>(i > Len(transactions))

=============================================================================
