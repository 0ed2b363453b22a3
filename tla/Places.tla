-------------------------------- MODULE Places --------------------------------
(***************************************************************************)
(* The elements of a sequence at some of its places: how the modules of    *)
(* the export, of the Cosmos chains and of Algorand write a loop that      *)
(* takes some elements of a list and leaves the others.                    *)
(***************************************************************************)
EXTENDS Integers, Sequences, FiniteSets

\* The elements at the places, in their order.
AtPlaces(s, places) ==
  [k \in 1 .. Cardinality(places) |->
     s[CHOOSE i \in places : Cardinality({j \in places : j < i}) = k - 1]]
=============================================================================
