-------------------------------- MODULE TxFetch --------------------------------
(***************************************************************************)
(* How the history of a wallet is fetched, page by page, while the chain   *)
(* goes on (common/ibc/api_lcd_v1.py, api_lcd_v2.py, api_mintscan_v1.py,   *)
(* api_rpc.py with api_rpc_multinode.py, report_luna1.py with              *)
(* luna1/api_fcd.py, algo/api/indexer.py, common/query.py).                *)
(*                                                                         *)
(* A server keeps lists of transactions (one per type of event, node or    *)
(* account), oldest first, that only get longer; a transaction is its      *)
(* number in the order of the chain.  The LCD servers are asked for a page *)
(* by its distance from the newest transaction, the RPC servers by its     *)
(* distance from the oldest, and the others by a cursor, which stands for  *)
(* the last transaction they returned: here its place in the list.         *)
(***************************************************************************)
EXTENDS Integers, Sequences, FiniteSets

CONSTANTS
  Apis,        \* the APIs of the instance
  Queries,     \* function: API -> the lists it is asked for, in order
  Limit,       \* transactions of a page (TXS_LIMIT_PER_QUERY)
  MaxTxs,      \* localconfig.limit
  Retries,     \* attempts of get_with_retries
  Faults,      \* subset of {"error_answer", "too_large"}
  MaxHistory   \* bound: transactions of the chain

CursorApis == {"mintscan", "fcd", "algo"}
DistanceApis == {"lcd_v1", "lcd_v2"}

Lists == UNION {{Queries[a][i] : i \in DOMAIN Queries[a]} : a \in Apis}

ASSUME TxFetchAssumption ==
  /\ Apis \subseteq CursorApis \cup DistanceApis \cup {"rpc"}
  /\ DOMAIN Queries = Apis
  /\ \A a \in Apis : Queries[a] \in Seq(Lists) /\ Len(Queries[a]) > 0
  /\ \A a \in Apis \cap CursorApis : Len(Queries[a]) = 1   \* the list of the account
  /\ Limit \in Nat \ {0} /\ MaxTxs \in Nat \ {0} /\ Retries \in Nat \ {0}
  /\ MaxHistory \in Nat

VARIABLES
  hist,      \* the lists of the server
  count,     \* transactions of the chain so far
  pc,        \* "idle", "fetch", "done", "raised"
  api,       \* the API in use
  old,       \* history: the length of each list when the fetch started
  q,         \* index of the current query
  page,      \* pages of the current query that were received
  single,    \* _get_txs_one_by_one: transactions received of this page, -1 outside
  cursor,    \* place of the last transaction received, 0 for none
  attempts,  \* failed attempts of the current request
  out,       \* the transactions received
  result,    \* what get_txs_all returns
  cut        \* history: a server answered with an error

server == <<hist, count>>
vars == <<hist, count, pc, api, old, q, page, single, cursor, attempts, out, result, cut>>

MaxPages == (MaxTxs + Limit - 1) \div Limit

Init ==
  /\ hist = [l \in Lists |-> << >>]
  /\ count = 0
  /\ pc = "idle"
  /\ api \in Apis
  /\ old = [l \in Lists |-> 0]
  /\ q = 1 /\ page = 0 /\ single = -1 /\ cursor = 0 /\ attempts = 0
  /\ out = << >> /\ result = << >> /\ cut = FALSE

-----------------------------------------------------------------------------

\* A transaction of the wallet gets into a block.
NewTx ==
  /\ count < MaxHistory
  /\ count' = count + 1
  /\ \E in \in SUBSET Lists \ {{}} :
       hist' = [l \in Lists |-> IF l \in in THEN Append(hist[l], count + 1) ELSE hist[l]]
  /\ UNCHANGED <<pc, api, old, q, page, single, cursor, attempts, out, result, cut>>

\* get_txs_all is called.
Start ==
  /\ pc = "idle"
  /\ pc' = "fetch"
  /\ old' = [l \in Lists |-> Len(hist[l])]
  /\ UNCHANGED <<server, api, q, page, single, cursor, attempts, out, result, cut>>

List == Queries[api][q]
History == hist[List]

AtMost(n, bound) == IF n < bound THEN n ELSE bound

\* The places of a page of at most n transactions: from the newest of them down, or up.
Down(from, n)    == [k \in 1 .. AtMost(n, from) |-> from - k + 1]
Up(after, n, to) == [k \in 1 .. AtMost(n, to - after) |-> after + k]

\* The transactions at some places of the list.
At(places) == [k \in DOMAIN places |-> History[places[k]]]

\* Mutant: the offset moves on by one transaction more than a page.
Offset_Gap == page * (Limit + 1)

\* Transactions that the pages before this one stand for.
Offset == page * Limit

PagePlaces ==
  CASE api = "rpc"          -> Up(Offset, Limit, Len(History))
    [] api \in DistanceApis -> Down(Len(History) - Offset, Limit)
    [] OTHER                -> Down(IF cursor = 0 THEN Len(History) ELSE cursor - 1, Limit)

PageCount(total) == (total + Limit - 1) \div Limit

\* What the program takes for the last page.  A server that gives cursors gives
\* one after any page that is not empty, or stops at the oldest transaction.
LastPages(places) ==
  CASE api = "lcd_v1"             -> {Len(places) # Limit}
    [] api \in {"lcd_v2", "rpc"}  -> {page + 1 >= PageCount(Len(History))}
    [] OTHER                      -> IF places = << >> THEN {TRUE}
                                     ELSE {FALSE, places[Len(places)] = 1}

-----------------------------------------------------------------------------
(* remove_duplicates *)

\* Two transactions in a row share a block, and so a timestamp.
Timestamp(tx) == tx \div 2

\* Mutant: a transaction that was seen before is kept.
FirstPlaces_All(txs) == DOMAIN txs

FirstPlaces(txs) == {i \in DOMAIN txs : \A j \in 1 .. (i - 1) : txs[j] # txs[i]}

\* The places in the order of a stable sort by timestamp.
SortedPlaces(txs, places) ==
  LET Before(j) == {i \in places : \/ Timestamp(txs[i]) < Timestamp(txs[j])
                                   \/ Timestamp(txs[i]) = Timestamp(txs[j]) /\ i < j}
  IN  [k \in 1 .. Cardinality(places) |-> CHOOSE j \in places : Cardinality(Before(j)) = k - 1]

\* What get_txs_all returns, oldest first.  FCD never returns a transaction twice
\* and nobody looks; the list of the Algorand indexer is reversed.
Returned(txs) ==
  IF api = "algo" THEN [k \in DOMAIN txs |-> txs[Len(txs) + 1 - k]]
  ELSE LET sorted == SortedPlaces(txs, IF api = "fcd" THEN DOMAIN txs ELSE FirstPlaces(txs))
       IN  [k \in DOMAIN sorted |-> txs[sorted[k]]]

-----------------------------------------------------------------------------

\* Whether the loop over the pages of a query goes on.
MorePages(last) == ~last /\ page + 1 < MaxPages

\* A page was received: on to the next one, to the next query, or to the result.
EndPage(last, received) ==
  /\ out' = received
  /\ attempts' = 0
  /\ single' = -1
  /\ IF MorePages(last)
     THEN /\ page' = page + 1
          /\ UNCHANGED <<pc, q, result>>
     ELSE /\ page' = 0
          /\ q' = q + 1
          /\ IF q < Len(Queries[api])
             THEN UNCHANGED <<pc, result>>
             ELSE pc' = "done" /\ result' = Returned(received)

\* Mutant: the cursor also skips the transaction after the page.
NextCursor_Skip(places, last) ==
  IF api \in CursorApis /\ MorePages(last) THEN places[Len(places)] - 1 ELSE 0

NextCursor(places, last) ==
  IF api \in CursorApis /\ MorePages(last) THEN places[Len(places)] ELSE 0

\* The server answers the request for a page.
Answer ==
  /\ pc = "fetch" /\ single = -1
  /\ LET places == PagePlaces
     IN  \E last \in LastPages(places) :
           /\ EndPage(last, out \o At(places))
           /\ cursor' = NextCursor(places, last)
  /\ UNCHANGED <<server, api, old, cut>>

\* "grpc: received message larger than max": the page is asked for one by one.
TooLarge ==
  /\ pc = "fetch" /\ single = -1
  /\ "too_large" \in Faults /\ api = "lcd_v2" /\ PagePlaces # << >>
  /\ single' = 0 /\ attempts' = 0
  /\ UNCHANGED <<server, pc, api, old, q, page, cursor, out, result, cut>>

\* The next transaction of the page, counted from the newest one there is now.
SinglePlace == Down(Len(History) - (Offset + single), 1)

AnswerOne ==
  /\ pc = "fetch" /\ single >= 0
  /\ LET received == out \o At(SinglePlace)
         number   == Offset + single + 1
         total    == Len(History)
     IN  IF single + 1 = Limit \/ number = total
         THEN EndPage(number >= total, received)
         ELSE /\ single' = single + 1
              /\ out' = received
              /\ attempts' = 0
              /\ UNCHANGED <<pc, q, page, result>>
  /\ UNCHANGED <<server, api, old, cursor, cut>>

\* Mutant: one attempt too many.
MoreAttempts_OneMore == api # "fcd" /\ attempts < Retries

MoreAttempts == api # "fcd" /\ attempts + 1 < Retries

\* The request times out or its answer is not JSON: get_with_retries tries again.
\* The FCD client does not, and the Algorand client takes it for an error answer.
Fail ==
  /\ pc = "fetch" /\ api # "algo"
  /\ IF MoreAttempts
     THEN attempts' = attempts + 1 /\ UNCHANGED pc
     ELSE pc' = "raised" /\ attempts' = 0
  /\ UNCHANGED <<server, api, old, q, page, single, cursor, out, result, cut>>

\* The server answers with an error.  code 3 of an LCD server, a body without
\* transactions of Mintscan and any status but 200 of the indexer end the query;
\* with the others, a field is missing that the program reads.
AnswerError ==
  /\ pc = "fetch"
  /\ "error_answer" \in Faults
  /\ IF single = -1 /\ api \in DistanceApis \cup {"mintscan", "algo"}
     THEN EndPage(TRUE, out) /\ cursor' = 0
     ELSE pc' = "raised" /\ UNCHANGED <<q, page, single, cursor, attempts, out, result>>
  /\ cut' = TRUE
  /\ UNCHANGED <<server, api, old>>

Step == Start \/ Answer \/ TooLarge \/ AnswerOne \/ Fail \/ AnswerError

Next == NewTx \/ Step

Spec == Init /\ [][Next]_vars

-----------------------------------------------------------------------------
(* Properties *)

Received == {out[i] : i \in DOMAIN out}

TypeOK ==
  /\ hist \in [Lists -> Seq(Nat)]
  /\ count \in Nat
  /\ pc \in {"idle", "fetch", "done", "raised"}
  /\ api \in Apis
  /\ old \in [Lists -> Nat]
  /\ q \in 1 .. (Len(Queries[api]) + 1)
  /\ pc = "fetch" => q <= Len(Queries[api])
  /\ page \in 0 .. (MaxPages - 1)
  /\ single \in -1 .. (Limit - 1)
  /\ cursor \in Nat
  /\ attempts \in 0 .. (Retries - 1)
  /\ out \in Seq(Nat)
  /\ cut \in BOOLEAN

\* The transactions of a list that a fetch has to return: of those there were
\* when it started, the ones still among the newest MaxTxs, or the oldest MaxTxs
\* where the server counts from the oldest.
Due(l) ==
  IF api = "rpc"
  THEN 1 .. AtMost(old[l], MaxTxs)
  ELSE {p \in 1 .. old[l] : p > Len(hist[l]) - MaxTxs}

\* Unless a server answers with an error, get_txs_all misses no transaction that
\* was there when it was called, within the limit, however the lists grow between
\* its requests, shifting the pages that are counted from the newest transaction.
NoneMissed ==
  pc = "done" /\ ~cut =>
    \A i \in 1 .. Len(Queries[api]) :
      LET l == Queries[api][i] IN \A p \in Due(l) : hist[l][p] \in Received

\* Processors get every transaction once, and in the order of its timestamp: a
\* transaction that two pages or two queries return would be taxed twice.
EachOnceInOrder ==
  pc = "done" =>
    /\ {result[i] : i \in DOMAIN result} = Received
    /\ \A i, j \in DOMAIN result : i < j => /\ result[i] # result[j]
                                            /\ Timestamp(result[i]) <= Timestamp(result[j])

\* A fetch that an error answer cuts short lacks the oldest transactions only:
\* there is no hole in what it returns of an account's list.
OnlyOldestCut ==
  pc = "done" /\ api \in CursorApis =>
    LET h == hist[Queries[api][1]]
    IN  \A p, r \in 1 .. old[Queries[api][1]] : p < r /\ h[p] \in Received => h[r] \in Received

=============================================================================
