---------------------------- MODULE RewardsService ----------------------------
(***************************************************************************)
(* What the table of staking rewards promises to the reports: epochs are   *)
(* published one after the other, each after it has ended, and a report    *)
(* is answered at one instant with exactly what its address earned.  How   *)
(* the epochs are fetched, merged, written and marked, and which answers   *)
(* come from the table, does not show.                                     *)
(***************************************************************************)
EXTENDS Integers

CONSTANTS Addr, Readers, MaxEpoch

VARIABLES
  latest,     \* the epoch in progress
  earned,     \* epoch -> addresses it pays
  published,  \* the epochs published
  open,       \* reader -> it waits for its answer
  about,      \* reader -> the address it asks about
  asked,      \* reader -> the epochs it asks for
  answer      \* reader -> the epochs answered

vars == <<latest, earned, published, open, about, asked, answer>>

Epochs == 1 .. MaxEpoch

Init ==
  /\ latest = 1
  /\ earned = [e \in Epochs |-> {}]
  /\ published = {}
  /\ open = [r \in Readers |-> FALSE]
  /\ about \in [Readers -> Addr]
  /\ asked = [r \in Readers |-> {}]
  /\ answer = [r \in Readers |-> {}]

EpochEnds ==
  /\ latest \in Epochs
  /\ latest' = latest + 1
  /\ \E S \in SUBSET Addr : earned' = [earned EXCEPT ![latest] = S]
  /\ UNCHANGED <<published, open, about, asked, answer>>

Publish(e) ==
  /\ e < latest
  /\ published' = published \cup {e}
  /\ \A f \in Epochs : f < e => f \in published
  /\ UNCHANGED <<latest, earned, open, about, asked, answer>>

\* A report asks for epochs that have ended.
Ask(r, a) ==
  /\ ~ open[r]
  /\ open' = [open EXCEPT ![r] = TRUE]
  /\ about' = [about EXCEPT ![r] = a]
  /\ \E S \in SUBSET {e \in Epochs : e < latest} : asked' = [asked EXCEPT ![r] = S]
  /\ answer' = [answer EXCEPT ![r] = {}]
  /\ UNCHANGED <<latest, earned, published>>

Answer(r) ==
  /\ open[r]
  /\ open' = [open EXCEPT ![r] = FALSE]
  /\ answer' = [answer EXCEPT ![r] = {e \in asked[r] : about[r] \in earned[e]}]
  /\ UNCHANGED <<latest, earned, published, about, asked>>

Leave(r) ==
  /\ open' = [open EXCEPT ![r] = FALSE]
  /\ asked' = [asked EXCEPT ![r] = {}]
  /\ answer' = [answer EXCEPT ![r] = {}]
  /\ UNCHANGED <<latest, earned, published, about>>

Next ==
  \/ EpochEnds
  \/ \E e \in Epochs : Publish(e)
  \/ \E r \in Readers : (\E a \in Addr : Ask(r, a)) \/ Answer(r) \/ Leave(r)

Spec == Init /\ [][Next]_vars

=============================================================================
