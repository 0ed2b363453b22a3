--------------------------- MODULE StakingRewardsDB ---------------------------
(***************************************************************************)
(* The table of Solana staking rewards that every SOL report may read:     *)
(* the job that fills it (sol/staking_rewards_db.py), the reports that     *)
(* read it and fall back to the RPC node (sol/staking_rewards.py).         *)
(*                                                                         *)
(* A run of the job reads the marks (item "_epoch_timestamps"), then for   *)
(* each batch of N_BLOCKS epochs fetches the reward blocks, reads the item *)
(* of every rewarded address, adds the new epochs to the copies, writes    *)
(* the copies back with a pool of threads and marks the epochs one by one. *)
(*                                                                         *)
(* A reward is abstracted to the pair address/epoch: the item of an        *)
(* address is the set of epochs it holds an amount for.  START_EPOCH is 1. *)
(*                                                                         *)
(* lost, unseen and excused record what a fault or a second job took away; *)
(* they are history, which no action reads.                                *)
(***************************************************************************)
EXTENDS Integers

CONSTANTS
  Addr,       \* staking addresses
  Writers,    \* processes that run rewards_all_users_write_db
  Readers,    \* processes that make SOL reports
  MaxEpoch,   \* bound: number of epochs that may end
  NBlocks,    \* N_BLOCKS, epochs per batch
  Faults      \* what may go wrong around the code (see FaultKinds)

(***************************************************************************)
(* "write_error"      a task of _batch_write raises part of the way        *)
(* "unprocessed_keys" batch_get_item answers with some of the keys only    *)
(* "missed_block"     the slot found valid holds no rewards                *)
(* "rpc_error"        getInflationReward answers with an error             *)
(***************************************************************************)
FaultKinds == {"write_error", "unprocessed_keys", "missed_block", "rpc_error"}

ASSUME ConstantsAssumption ==
  /\ MaxEpoch \in Nat \ {0}
  /\ NBlocks \in Nat \ {0}
  /\ Faults \subseteq FaultKinds

Epochs == 1 .. MaxEpoch

VARIABLES
  latest,     \* the epoch in progress (getEpochInfo)
  earned,     \* epoch -> addresses its reward block pays, once it has ended
  item,       \* table: address -> epochs recorded for it
  marks,      \* table: epochs of the item _epoch_timestamps
  pc,         \* writer -> where its run stands
  endEpoch,   \* writer -> end_epoch of the run
  x,          \* writer -> first epoch of the batch
  blocks,     \* writer -> epoch of the batch -> addresses found in its block
  todo,       \* writer -> addresses still to read (or to write)
  copy,       \* writer -> rewards_db, the copies of the items
  unmarked,   \* writer -> epochs of the batch still to mark
  seen,       \* writer -> epoch_timestamps as last read by set_epoch_timestamp
  rpc,        \* reader -> where its report stands
  raddr,      \* reader -> the address it reports
  epochsAll,  \* reader -> EPOCHS_ALL, kept for the life of the process
  rmarks,     \* reader -> epochs_in_db
  out,        \* reader -> epochs it reported a reward for
  lost,       \* record: <<address, epoch>> of the rewards the table was to hold
              \* and lacks
  unseen,     \* record: writer -> address -> epochs that were recorded and that
              \* the read of the writer's copy did not show
  excused     \* record: reader -> epochs its report may lack

chainVars  == <<latest, earned>>
tableVars  == <<item, marks>>
writerVars == <<pc, endEpoch, x, blocks, todo, copy, unmarked, seen>>
readerVars == <<rpc, raddr, epochsAll, rmarks, out>>
recordVars == <<lost, unseen, excused>>
vars == <<latest, earned, item, marks, pc, endEpoch, x, blocks, todo, copy,
          unmarked, seen, rpc, raddr, epochsAll, rmarks, out, lost, unseen,
          excused>>

WriterSteps == {"idle", "plan", "fetch", "read", "write", "mark", "put", "failed"}
ReaderSteps == {"idle", "asked", "marked", "done"}

\* Mutant: the epoch in progress is taken for an ended one.
Batch_InProgress(w) ==
  {e \in Epochs : x[w] <= e /\ e < x[w] + NBlocks /\ e <= endEpoch[w]}

\* Mutant: the last epoch of a batch is left out.
Batch_Short(w) ==
  {e \in Epochs : x[w] <= e /\ e < x[w] + NBlocks - 1 /\ e < endEpoch[w]}

\* The epochs of the batch that starts at x[w] (cur_epochs).
Batch(w) == {e \in Epochs : x[w] <= e /\ e < x[w] + NBlocks /\ e < endEpoch[w]}

\* The addresses of set_multi_block_rewards.
Rewarded(w) == {a \in Addr : \E e \in Batch(w) : a \in blocks[w][e]}

\* The epochs of a batch that pay address a.
NewEpochs(w, a) == {e \in Batch(w) : a \in blocks[w][e]}

\* Mutant: the copy is built from the new epochs alone.
Merged_NoRead(w, a) == NewEpochs(w, a)

\* The item of address a that will be written back.
Merged(w, a) == copy[w][a] \cup NewEpochs(w, a)

\* Mutant: the batch is marked from its last epoch down.
NextToMark_Last(w) == CHOOSE e \in unmarked[w] : \A f \in unmarked[w] : f <= e

\* The epochs of a batch are marked in increasing order.
NextToMark(w) == CHOOSE e \in unmarked[w] : \A f \in unmarked[w] : e <= f

\* Mutant: without marks the run starts before START_EPOCH.
StartEpoch_Zero(S) == CHOOSE n \in 0 .. MaxEpoch + 1 :
                        /\ \A e \in S : e < n
                        /\ n = 0 \/ n - 1 \in S

\* max(epoch_timestamps) + 1, or START_EPOCH when nothing is marked.
StartEpoch(S) == CHOOSE n \in 1 .. MaxEpoch + 1 :
                   /\ \A e \in S : e < n
                   /\ n = 1 \/ n - 1 \in S

TypeOK ==
  /\ latest \in 1 .. MaxEpoch + 1
  /\ earned \in [Epochs -> SUBSET Addr]
  /\ item \in [Addr -> SUBSET Epochs]
  /\ marks \in SUBSET Epochs
  /\ pc \in [Writers -> WriterSteps]
  /\ endEpoch \in [Writers -> 1 .. MaxEpoch + 1]
  /\ x \in [Writers -> Nat \ {0}]
  /\ blocks \in [Writers -> [Epochs -> SUBSET Addr]]
  /\ todo \in [Writers -> SUBSET Addr]
  /\ copy \in [Writers -> [Addr -> SUBSET Epochs]]
  /\ unmarked \in [Writers -> SUBSET Epochs]
  /\ seen \in [Writers -> SUBSET Epochs]
  /\ rpc \in [Readers -> ReaderSteps]
  /\ raddr \in [Readers -> Addr]
  /\ epochsAll \in [Readers -> SUBSET Epochs]
  /\ rmarks \in [Readers -> SUBSET Epochs]
  /\ out \in [Readers -> SUBSET Epochs]
  /\ lost \subseteq Addr \X Epochs
  /\ unseen \in [Writers -> [Addr -> SUBSET Epochs]]
  /\ excused \in [Readers -> SUBSET Epochs]

Init ==
  /\ latest = 1
  /\ earned = [e \in Epochs |-> {}]
  /\ item = [a \in Addr |-> {}]
  /\ marks = {}
  /\ pc = [w \in Writers |-> "idle"]
  /\ endEpoch = [w \in Writers |-> 1]
  /\ x = [w \in Writers |-> 1]
  /\ blocks = [w \in Writers |-> [e \in Epochs |-> {}]]
  /\ todo = [w \in Writers |-> {}]
  /\ copy = [w \in Writers |-> [a \in Addr |-> {}]]
  /\ unmarked = [w \in Writers |-> {}]
  /\ seen = [w \in Writers |-> {}]
  /\ rpc = [r \in Readers |-> "idle"]
  /\ raddr \in [Readers -> Addr]
  /\ epochsAll = [r \in Readers |-> {}]
  /\ rmarks = [r \in Readers |-> {}]
  /\ out = [r \in Readers |-> {}]
  /\ lost = {}
  /\ unseen = [w \in Writers |-> [a \in Addr |-> {}]]
  /\ excused = [r \in Readers |-> {}]

-----------------------------------------------------------------------------
(* The chain *)

\* The epoch in progress ends and its reward block pays the addresses of S.
EpochEnds ==
  /\ latest <= MaxEpoch
  /\ latest' = latest + 1
  /\ \E S \in SUBSET Addr : earned' = [earned EXCEPT ![latest] = S]
  /\ UNCHANGED <<tableVars, writerVars, readerVars, recordVars>>

-----------------------------------------------------------------------------
(* rewards_all_users_write_db *)

StartRun(w) ==
  /\ pc[w] \in {"idle", "failed"}
  /\ pc' = [pc EXCEPT ![w] = "plan"]
  /\ endEpoch' = [endEpoch EXCEPT ![w] = latest]
  /\ UNCHANGED <<chainVars, tableVars, x, blocks, todo, copy, unmarked, seen,
                 readerVars, recordVars>>

\* What a batch kept in memory is gone when the batch or the process ends.
ForgetBatch(w) ==
  /\ blocks' = [blocks EXCEPT ![w] = [e \in Epochs |-> {}]]
  /\ todo' = [todo EXCEPT ![w] = {}]
  /\ copy' = [copy EXCEPT ![w] = [a \in Addr |-> {}]]
  /\ unmarked' = [unmarked EXCEPT ![w] = {}]
  /\ seen' = [seen EXCEPT ![w] = {}]
  /\ unseen' = [unseen EXCEPT ![w] = [a \in Addr |-> {}]]

\* The head of the for loop: the next batch, or the end of the run.
EnterBatch(w, first) ==
  /\ x' = [x EXCEPT ![w] = first]
  /\ pc' = [pc EXCEPT ![w] = IF first < endEpoch[w] THEN "fetch" ELSE "idle"]
  /\ ForgetBatch(w)

PlanRun(w) ==
  /\ pc[w] = "plan"
  /\ EnterBatch(w, StartEpoch(marks))
  /\ UNCHANGED <<chainVars, tableVars, endEpoch, readerVars, lost, excused>>

\* epoch_slot_and_time, get_block_rewards for each epoch of the batch.  When
\* the first slots of an epoch are empty the slot found may come after the
\* block that holds the rewards.
FetchBlocks(w) ==
  /\ pc[w] = "fetch"
  /\ \E missed \in SUBSET Batch(w) :
       /\ missed # {} => "missed_block" \in Faults
       /\ LET found == [e \in Epochs |-> IF e \in Batch(w) \ missed
                                         THEN earned[e] ELSE {}]
          IN  /\ blocks' = [blocks EXCEPT ![w] = found]
              /\ todo' = [todo EXCEPT ![w] =
                            {a \in Addr : \E e \in Batch(w) : a \in found[e]}]
              /\ lost' = lost \cup {p \in Addr \X missed :
                                      p[1] \in earned[p[2]] /\ p[2] \notin item[p[1]]}
  /\ pc' = [pc EXCEPT ![w] = "read"]
  /\ UNCHANGED <<chainVars, tableVars, endEpoch, x, copy, unmarked, seen,
                 readerVars, unseen, excused>>

\* _batch_get: an address missing in the response gets an empty item.
BatchGet(w, a) ==
  /\ pc[w] = "read"
  /\ a \in todo[w]
  /\ \E found \in {item[a], {}} :
       /\ found # item[a] => "unprocessed_keys" \in Faults
       /\ copy' = [copy EXCEPT ![w][a] = found]
       /\ unseen' = [unseen EXCEPT ![w][a] = item[a] \ found]
  /\ todo' = [todo EXCEPT ![w] = @ \ {a}]
  /\ UNCHANGED <<chainVars, tableVars, pc, endEpoch, x, blocks, unmarked, seen,
                 readerVars, lost, excused>>

\* All copies are read: add the new epochs to them, submit the write tasks.
UpdateRewards(w) ==
  /\ pc[w] = "read"
  /\ todo[w] = {}
  /\ copy' = [copy EXCEPT ![w] = [a \in Addr |-> Merged(w, a)]]
  /\ todo' = [todo EXCEPT ![w] = Rewarded(w)]
  /\ pc' = [pc EXCEPT ![w] = "write"]
  /\ UNCHANGED <<chainVars, tableVars, endEpoch, x, blocks, unmarked, seen,
                 readerVars, recordVars>>

\* A thread of the pool overwrites the item of one address.  What the read of
\* the copy did not show is gone; the other jobs' copies lack what is new.
BatchWrite(w, a) ==
  /\ pc[w] = "write"
  /\ a \in todo[w]
  /\ item' = [item EXCEPT ![a] = copy[w][a]]
  /\ todo' = [todo EXCEPT ![w] = @ \ {a}]
  /\ lost' = (lost \ ({a} \X copy[w][a])) \cup ({a} \X (unseen[w][a] \ copy[w][a]))
  /\ unseen' = [v \in Writers |->
                  IF v # w /\ pc[v] \in {"read", "write"}
                  THEN [unseen[v] EXCEPT ![a] = @ \cup copy[w][a]] ELSE unseen[v]]
  /\ UNCHANGED <<chainVars, marks, pc, endEpoch, x, blocks, copy, unmarked,
                 seen, readerVars, excused>>

\* A task raises: as_completed never asks the future for its result, so the
\* error is lost together with the puts the task still had to make.
TaskFails(w) ==
  /\ "write_error" \in Faults
  /\ pc[w] = "write"
  /\ \E tasks \in SUBSET todo[w] :
       /\ tasks # {}
       /\ todo' = [todo EXCEPT ![w] = @ \ tasks]
       /\ lost' = lost \cup {p \in tasks \X Epochs : p[2] \in NewEpochs(w, p[1]) \ item[p[1]]}
  /\ UNCHANGED <<chainVars, tableVars, pc, endEpoch, x, blocks, copy, unmarked,
                 seen, readerVars, unseen, excused>>

\* Mutant: the marks are not held back until the tasks have ended.
WritesDone_Early(w) ==
  /\ pc[w] = "write"
  /\ pc' = [pc EXCEPT ![w] = "mark"]
  /\ unmarked' = [unmarked EXCEPT ![w] = Batch(w)]
  /\ UNCHANGED <<chainVars, tableVars, endEpoch, x, blocks, todo, copy, seen,
                 readerVars, recordVars>>

\* All tasks have ended: go on to set_epoch_timestamp.  The copies are not used
\* again.
WritesDone(w) ==
  /\ pc[w] = "write"
  /\ todo[w] = {}
  /\ pc' = [pc EXCEPT ![w] = "mark"]
  /\ unmarked' = [unmarked EXCEPT ![w] = Batch(w)]
  /\ blocks' = [blocks EXCEPT ![w] = [e \in Epochs |-> {}]]
  /\ copy' = [copy EXCEPT ![w] = [a \in Addr |-> {}]]
  /\ unseen' = [unseen EXCEPT ![w] = [a \in Addr |-> {}]]
  /\ UNCHANGED <<chainVars, tableVars, endEpoch, x, todo, seen, readerVars, lost,
                 excused>>

GetMarks(w) ==
  /\ pc[w] = "mark"
  /\ unmarked[w] # {}
  /\ seen' = [seen EXCEPT ![w] = marks]
  /\ pc' = [pc EXCEPT ![w] = "put"]
  /\ UNCHANGED <<chainVars, tableVars, endEpoch, x, blocks, todo, copy,
                 unmarked, readerVars, recordVars>>

PutMarks(w) ==
  /\ pc[w] = "put"
  /\ marks' = seen[w] \cup {NextToMark(w)}
  /\ unmarked' = [unmarked EXCEPT ![w] = @ \ {NextToMark(w)}]
  /\ pc' = [pc EXCEPT ![w] = "mark"]
  /\ UNCHANGED <<chainVars, item, endEpoch, x, blocks, todo, copy, seen,
                 readerVars, recordVars>>

NextBatch(w) ==
  /\ pc[w] = "mark"
  /\ unmarked[w] = {}
  /\ EnterBatch(w, x[w] + NBlocks)
  /\ UNCHANGED <<chainVars, tableVars, endEpoch, readerVars, lost, excused>>

\* The process dies, or an exception ends the run: no valid slot, no rewards
\* in the answer of getBlock (len(None)), retries of a batch read exhausted.
Crash(w) ==
  /\ pc[w] \notin {"idle", "failed"}
  /\ pc' = [pc EXCEPT ![w] = "failed"]
  /\ ForgetBatch(w)
  /\ UNCHANGED <<chainVars, tableVars, endEpoch, x, readerVars, lost, excused>>

-----------------------------------------------------------------------------
(* _rewards_via_db *)

\* get_epochs_all: the list of the first report of the process is kept.
StartReport(r, a) ==
  /\ rpc[r] \in {"idle", "done"}
  /\ rpc' = [rpc EXCEPT ![r] = "asked"]
  /\ raddr' = [raddr EXCEPT ![r] = a]
  /\ epochsAll' = [epochsAll EXCEPT ![r] =
                     IF @ = {} THEN {e \in Epochs : e < latest} ELSE @]
  /\ out' = [out EXCEPT ![r] = {}]
  /\ excused' = [excused EXCEPT ![r] = {}]
  /\ UNCHANGED <<chainVars, tableVars, writerVars, rmarks, lost, unseen>>

\* get_rewards_for_address, first read.
ReadMarks(r) ==
  /\ rpc[r] = "asked"
  /\ rmarks' = [rmarks EXCEPT ![r] = marks]
  /\ rpc' = [rpc EXCEPT ![r] = "marked"]
  /\ UNCHANGED <<chainVars, tableVars, writerVars, raddr, epochsAll, out,
                 recordVars>>

\* Mutant: every epoch asked for is filled in with 0, marked or not.
EpochsInDb_All(r) == epochsAll[r]

\* epochs_in_db
EpochsInDb(r) == rmarks[r]

\* Mutant: an error ends the look-up, the later epochs are not asked for.
Answered_Stop(due, errors) == {e \in due : \A f \in errors : e < f}

\* What the RPC node tells of the rewards due: an error counts as no reward, and
\* the next epoch is asked for (_lookup_reward_via_rpc).
Answered(due, errors) == due \ errors

\* Second read; a marked epoch that the item lacks counts as reward 0, an
\* epoch that is not marked is asked of the RPC node.
ReadItem(r) ==
  /\ rpc[r] = "marked"
  /\ LET viaDb == epochsAll[r] \cap EpochsInDb(r) \cap item[raddr[r]]
         due   == {e \in epochsAll[r] \ EpochsInDb(r) : raddr[r] \in earned[e]}
     IN  \E errors \in SUBSET due :
           /\ errors # {} => "rpc_error" \in Faults
           /\ out' = [out EXCEPT ![r] = viaDb \cup Answered(due, errors)]
           /\ excused' = [excused EXCEPT ![r] =
                            errors \cup {e \in rmarks[r] : <<raddr[r], e>> \in lost}]
  /\ rpc' = [rpc EXCEPT ![r] = "done"]
  /\ rmarks' = [rmarks EXCEPT ![r] = {}]
  /\ UNCHANGED <<chainVars, tableVars, writerVars, raddr, epochsAll, lost, unseen>>

\* The process of the report ends; the next one starts without EPOCHS_ALL.
EndProcess(r) ==
  /\ epochsAll[r] # {}
  /\ rpc' = [rpc EXCEPT ![r] = "idle"]
  /\ epochsAll' = [epochsAll EXCEPT ![r] = {}]
  /\ rmarks' = [rmarks EXCEPT ![r] = {}]
  /\ out' = [out EXCEPT ![r] = {}]
  /\ excused' = [excused EXCEPT ![r] = {}]
  /\ UNCHANGED <<chainVars, tableVars, writerVars, raddr, lost, unseen>>

-----------------------------------------------------------------------------

\* The steps of a run that has been started.
RunStep(w) ==
  \/ PlanRun(w)
  \/ FetchBlocks(w)
  \/ \E a \in Addr : BatchGet(w, a)
  \/ UpdateRewards(w)
  \/ \E a \in Addr : BatchWrite(w, a)
  \/ TaskFails(w)
  \/ WritesDone(w)
  \/ GetMarks(w)
  \/ PutMarks(w)
  \/ NextBatch(w)

WriterNext(w) == StartRun(w) \/ RunStep(w) \/ Crash(w)

ReaderNext(r) ==
  \/ \E a \in Addr : StartReport(r, a)
  \/ ReadMarks(r)
  \/ ReadItem(r)
  \/ EndProcess(r)

Next ==
  \/ EpochEnds
  \/ \E w \in Writers : WriterNext(w)
  \/ \E r \in Readers : ReaderNext(r)

Spec == Init /\ [][Next]_vars

\* A run that has been started goes on until it ends or fails.
FairSpec == Spec /\ \A w \in Writers : WF_vars(RunStep(w))

-----------------------------------------------------------------------------
(* Properties *)

\* A marked epoch is complete: the table holds the reward of every address
\* that the epoch paid.  staking_rewards_db.py:131 promises it of
\* set_epoch_timestamp, and get_rewards_for_address takes a missing reward of
\* a marked epoch for zero because of it.
MarkedEpochsComplete ==
  \A e \in marks : \A a \in earned[e] : e \in item[a]

\* A report lists exactly the rewards its address earned in the epochs it
\* asked for, wherever each came from (table or RPC node) and whatever the
\* job was doing between the two reads of the report.
ReportExact ==
  \A r \in Readers : rpc[r] = "done" =>
    out[r] = {e \in epochsAll[r] : raddr[r] \in earned[e]}

\* Whatever fails and however many jobs run, a report shows no reward that was
\* not earned, and what it lacks can be accounted for: the RPC node gave an error
\* for that epoch, or the table lost that reward because its block was missed,
\* its write task raised, or a job overwrote the item with a copy whose read did
\* not show it (answered in part, or taken before another job's write).  A fault
\* never costs another address or another epoch its reward.
ReportLacksOnlyLost ==
  \A r \in Readers : rpc[r] = "done" =>
    LET due == {e \in epochsAll[r] : raddr[r] \in earned[e]}
    IN  out[r] \subseteq due /\ due \ out[r] \subseteq excused[r]

\* Whatever fails and however many jobs run, neither the table nor a report
\* shows a reward that was not earned.
NoFabricatedReward ==
  /\ \A a \in Addr : \A e \in item[a] : a \in earned[e]
  /\ \A r \in Readers : \A e \in out[r] : raddr[r] \in earned[e]

\* The marks have no gap: a gap would never be filled, because a run starts
\* after the last mark (_max_epoch_db).
MarksHaveNoGap == \A e \in marks : \A f \in 1 .. e : f \in marks

\* A reward once recorded stays recorded: overwriting an item with a copy
\* (_batch_write) loses nothing.
RecordedRewardsKept == [][\A a \in Addr : item[a] \subseteq item'[a]]_item

\* A run that is not interrupted marks every epoch that had ended when it
\* started (all users, "for all time").
RunCompletes ==
  \A w \in Writers :
    pc[w] = "plan" ~> (pc[w] = "failed" \/ \A e \in Epochs : e < endEpoch[w] => e \in marks)

-----------------------------------------------------------------------------
(* What the job and the reports implement together *)

\* An epoch is published once it is marked; a report that waits for its answer
\* has not read its item yet.
Service == INSTANCE RewardsService WITH
  published <- marks,
  open <- [r \in Readers |-> rpc[r] \in {"asked", "marked"}],
  about <- raddr,
  asked <- epochsAll,
  answer <- out

\* Epochs are published one after the other, each after it has ended, and every
\* report is answered at one instant with exactly what its address earned: how
\* the epochs are fetched, merged, written and marked does not show
\* (rewards_all_users_write_db, _rewards_via_db).
ServiceSpec == Service!Spec

=============================================================================
