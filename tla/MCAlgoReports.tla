----------------------------- MODULE MCAlgoReports -----------------------------
(***************************************************************************)
(* Two wallets, with and without track_block, windows and limits.          *)
(***************************************************************************)
EXTENDS AlgoReports

Tracked(e) == [track_block |-> TRUE, limit |-> 0, start |-> 0, end |-> e]
Whole      == [track_block |-> FALSE, limit |-> 0, start |-> 0, end |-> 0]
Window     == [track_block |-> FALSE, limit |-> 0, start |-> 2, end |-> 3]
Limited    == [track_block |-> TRUE, limit |-> 1, start |-> 0, end |-> 0]
Since      == [track_block |-> TRUE, limit |-> 0, start |-> 2, end |-> 0]

UsualOptions == {Tracked(0), Tracked(2), Whole, Window}
AllOptions   == UsualOptions \cup {Limited, Since}
=============================================================================
