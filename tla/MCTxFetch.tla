------------------------------- MODULE MCTxFetch -------------------------------
(***************************************************************************)
(* Two lists of event types for the Cosmos servers, one list of an account *)
(* for the others.                                                         *)
(***************************************************************************)
EXTENDS TxFetch

AllApis == CursorApis \cup DistanceApis \cup {"rpc"}

QueriesOf(a) ==
  IF a \in CursorApis THEN <<"one">> ELSE <<"one", "two">>

AllQueries  == [a \in AllApis |-> QueriesOf(a)]
AlgoQueries == [a \in {"algo"} |-> QueriesOf(a)]
=============================================================================
