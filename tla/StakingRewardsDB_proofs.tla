----------------------- MODULE StakingRewardsDB_proofs -----------------------
(***************************************************************************)
(* Proofs about the table of staking rewards.  Type correctness and the    *)
(* absence of fabricated rewards hold for every fault and any number of    *)
(* jobs, gapless marks for one job under every fault; completeness of the  *)
(* marked epochs, exactness of the reports, the durability of what is      *)
(* recorded and the refinement of the service hold for one job when        *)
(* nothing around the code fails (crashes of the job included).            *)
(***************************************************************************)
EXTENDS StakingRewardsDB, NatLemmas

-----------------------------------------------------------------------------
(* The choices of the job *)

\* The first epoch of a run exists, whatever is marked.
LEMMA StartEpochType ==
  ASSUME NEW S \in SUBSET Epochs
  PROVE  /\ StartEpoch(S) \in 1 .. MaxEpoch + 1
         /\ \A e \in S : e < StartEpoch(S)
         /\ StartEpoch(S) = 1 \/ StartEpoch(S) - 1 \in S
<1> USE ConstantsAssumption DEF Epochs
<1> DEFINE U == {n \in 1 .. MaxEpoch + 1 : \A e \in S : e < n}
<1>1. U \in SUBSET Nat /\ MaxEpoch + 1 \in U
  OBVIOUS
<1>2. PICK m \in U : \A n \in U : m <= n
  BY <1>1, LeastNat
<1>3. m = 1 \/ m - 1 \in S
  <2>. SUFFICES ASSUME m # 1, m - 1 \notin S
                PROVE  FALSE
    OBVIOUS
  <2>1. m - 1 \in 1 .. MaxEpoch + 1
    OBVIOUS
  <2>2. \A e \in S : e < m - 1
    OBVIOUS
  <2>3. m - 1 \in U
    BY <2>1, <2>2
  <2>. QED
    BY <1>2, <2>3
<1>4. \E n \in 1 .. MaxEpoch + 1 :
        (\A e \in S : e < n) /\ (n = 1 \/ n - 1 \in S)
  BY <1>3
<1>. QED
  BY <1>4 DEF StartEpoch

\* The next epoch to mark is one of those left, and the least of them.
LEMMA NextToMarkType ==
  ASSUME NEW w \in Writers, unmarked[w] \in SUBSET Epochs, unmarked[w] # {}
  PROVE  /\ NextToMark(w) \in unmarked[w]
         /\ \A f \in unmarked[w] : NextToMark(w) <= f
<1>1. unmarked[w] \in SUBSET Nat
  BY ConstantsAssumption DEF Epochs
<1>2. \E e \in unmarked[w] : \A f \in unmarked[w] : e <= f
  BY <1>1, LeastNat
<1>. QED
  BY <1>2 DEF NextToMark

-----------------------------------------------------------------------------
(* Type correctness *)

\* A writer that is about to put the marks has an epoch to add.
PutHasWork == \A w \in Writers : pc[w] = "put" => unmarked[w] # {}

TypeInv == TypeOK /\ PutHasWork

LEMMA TypeInit == Init => TypeInv
BY ConstantsAssumption DEF Init, TypeInv, TypeOK, PutHasWork, Epochs,
   WriterSteps, ReaderSteps

LEMMA TypeStep == TypeInv /\ [Next]_vars => TypeInv'
<1>. SUFFICES ASSUME TypeInv, [Next]_vars
              PROVE  TypeInv'
  OBVIOUS
<1>. USE ConstantsAssumption DEF TypeInv, TypeOK, PutHasWork, WriterSteps,
         ReaderSteps
<1>1. CASE EpochEnds
  BY <1>1 DEF EpochEnds, Epochs, tableVars, writerVars, readerVars, recordVars
<1>2. ASSUME NEW w \in Writers, WriterNext(w)
      PROVE  TypeInv'
  <2>. USE DEF chainVars, tableVars, writerVars, readerVars, recordVars
  <2>1. CASE StartRun(w)
    BY <2>1 DEF StartRun
  <2>2. CASE PlanRun(w)
    <3>1. StartEpoch(marks) \in Nat \ {0}
      BY StartEpochType
    <3>2. /\ x' \in [Writers -> Nat \ {0}] /\ pc' \in [Writers -> WriterSteps]
          /\ \A v \in Writers : pc'[v] = "put" => v # w /\ pc[v] = "put"
      BY <2>2, <3>1 DEF PlanRun, EnterBatch
    <3>3. /\ blocks' \in [Writers -> [Epochs -> SUBSET Addr]]
          /\ todo' \in [Writers -> SUBSET Addr]
          /\ copy' \in [Writers -> [Addr -> SUBSET Epochs]]
          /\ unmarked' \in [Writers -> SUBSET Epochs]
          /\ seen' \in [Writers -> SUBSET Epochs]
          /\ \A v \in Writers : v # w => unmarked'[v] = unmarked[v]
      BY <2>2 DEF PlanRun, EnterBatch, ForgetBatch
    <3>4. UNCHANGED <<chainVars, tableVars, endEpoch, readerVars, lost, excused>>
      BY <2>2 DEF PlanRun
    <3>5. unseen' \in [Writers -> [Addr -> SUBSET Epochs]]
      BY <2>2 DEF PlanRun, EnterBatch, ForgetBatch
    <3>. QED
      BY <3>2, <3>3, <3>4, <3>5
  <2>3. CASE FetchBlocks(w)
    <3>1. lost' \subseteq Addr \X Epochs
      BY <2>3 DEF FetchBlocks, Batch
    <3>2. /\ blocks' \in [Writers -> [Epochs -> SUBSET Addr]]
          /\ todo' \in [Writers -> SUBSET Addr]
          /\ pc' \in [Writers -> WriterSteps]
          /\ \A v \in Writers : pc'[v] = "put" => pc[v] = "put"
      BY <2>3 DEF FetchBlocks
    <3>3. UNCHANGED <<chainVars, tableVars, endEpoch, x, copy, unmarked, seen,
                      readerVars, unseen, excused>>
      BY <2>3 DEF FetchBlocks
    <3>. QED
      BY <3>1, <3>2, <3>3
  <2>4. ASSUME NEW a \in Addr, BatchGet(w, a)
        PROVE  TypeInv'
    BY <2>4 DEF BatchGet
  <2>5. CASE UpdateRewards(w)
    <3>1. \A a \in Addr : Merged(w, a) \in SUBSET Epochs
      BY DEF Merged, NewEpochs, Batch
    <3>2. Rewarded(w) \in SUBSET Addr
      BY DEF Rewarded
    <3>. QED
      BY <2>5, <3>1, <3>2 DEF UpdateRewards
  <2>6. ASSUME NEW a \in Addr, BatchWrite(w, a)
        PROVE  TypeInv'
    BY <2>6 DEF BatchWrite
  <2>7. CASE TaskFails(w)
    BY <2>7 DEF TaskFails
  <2>8. CASE WritesDone(w)
    BY <2>8 DEF WritesDone, Batch
  <2>9. CASE GetMarks(w)
    BY <2>9 DEF GetMarks
  <2>10. CASE PutMarks(w)
    <3>1. NextToMark(w) \in Epochs
      BY <2>10, NextToMarkType DEF PutMarks
    <3>. QED
      BY <2>10, <3>1 DEF PutMarks
  <2>11. CASE NextBatch(w)
    BY <2>11 DEF NextBatch, EnterBatch, ForgetBatch
  <2>12. CASE Crash(w)
    BY <2>12 DEF Crash, ForgetBatch
  <2>. QED
    BY <1>2, <2>1, <2>2, <2>3, <2>4, <2>5, <2>6, <2>7, <2>8, <2>9, <2>10,
       <2>11, <2>12 DEF WriterNext, RunStep
<1>3. ASSUME NEW r \in Readers, ReaderNext(r)
      PROVE  TypeInv'
  <2>. USE DEF chainVars, tableVars, writerVars, recordVars
  <2>1. ASSUME NEW a \in Addr, StartReport(r, a)
        PROVE  TypeInv'
    BY <2>1 DEF StartReport
  <2>2. CASE ReadMarks(r)
    BY <2>2 DEF ReadMarks
  <2>3. CASE ReadItem(r)
    BY <2>3 DEF ReadItem, EpochsInDb, Answered
  <2>4. CASE EndProcess(r)
    BY <2>4 DEF EndProcess
  <2>. QED
    BY <1>3, <2>1, <2>2, <2>3, <2>4 DEF ReaderNext
<1>4. CASE UNCHANGED vars
  BY <1>4 DEF vars
<1>. QED
  BY <1>1, <1>2, <1>3, <1>4 DEF Next

\* Every variable keeps its type, whatever fails and however many jobs run.
THEOREM TypeCorrect == Spec => []TypeOK
<1>1. Spec => []TypeInv
  BY TypeInit, TypeStep, PTL DEF Spec
<1>2. TypeInv => TypeOK
  BY DEF TypeInv
<1>. QED
  BY <1>1, <1>2, PTL

-----------------------------------------------------------------------------
(* No fabricated reward *)

\* Epochs pay only when they end; every copy of a reward, in the table, in the
\* memory of a job or in a report, is of a reward that was earned.
FutureUnpaid == \A e \in Epochs : e >= latest => earned[e] = {}
ItemsSound == \A a \in Addr : \A e \in item[a] : a \in earned[e]
JobsSound ==
  \A w \in Writers :
    /\ \A e \in Epochs : blocks[w][e] \subseteq earned[e]
    /\ \A a \in Addr : \A e \in copy[w][a] : a \in earned[e]
ReportsSound == \A r \in Readers : \A e \in out[r] : raddr[r] \in earned[e]

SoundInv == FutureUnpaid /\ ItemsSound /\ JobsSound /\ ReportsSound

LEMMA SoundInit == Init => SoundInv
BY DEF Init, SoundInv, FutureUnpaid, ItemsSound, JobsSound, ReportsSound, Epochs

LEMMA SoundStep == TypeInv /\ SoundInv /\ [Next]_vars => SoundInv'
<1>. SUFFICES ASSUME TypeInv, SoundInv, [Next]_vars
              PROVE  SoundInv'
  OBVIOUS
<1>. USE ConstantsAssumption
     DEF TypeInv, TypeOK, SoundInv, FutureUnpaid, ItemsSound, JobsSound, ReportsSound
<1>1. CASE EpochEnds
  <2>1. \A e \in Epochs : earned[e] \subseteq earned'[e]
    BY <1>1 DEF EpochEnds, Epochs
  <2>2. FutureUnpaid'
    BY <1>1 DEF EpochEnds, Epochs
  <2>. QED
    BY <1>1, <2>1, <2>2 DEF EpochEnds, tableVars, writerVars, readerVars
<1>2. ASSUME NEW w \in Writers, WriterNext(w)
      PROVE  SoundInv'
  <2>. USE DEF chainVars, tableVars, writerVars, readerVars, recordVars
  <2>1. CASE StartRun(w)
    BY <2>1 DEF StartRun
  <2>2. CASE PlanRun(w)
    BY <2>2 DEF PlanRun, EnterBatch, ForgetBatch
  <2>3. CASE FetchBlocks(w)
    BY <2>3 DEF FetchBlocks
  <2>4. ASSUME NEW a \in Addr, BatchGet(w, a)
        PROVE  SoundInv'
    BY <2>4 DEF BatchGet
  <2>5. CASE UpdateRewards(w)
    <3>1. \A a \in Addr : \A e \in Merged(w, a) : a \in earned[e]
      BY DEF Merged, NewEpochs, Batch
    <3>2. \A a \in Addr : copy'[w][a] = Merged(w, a)
      BY <2>5 DEF UpdateRewards
    <3>. QED
      BY <2>5, <3>1, <3>2 DEF UpdateRewards
  <2>6. ASSUME NEW a \in Addr, BatchWrite(w, a)
        PROVE  SoundInv'
    BY <2>6 DEF BatchWrite
  <2>7. CASE TaskFails(w)
    BY <2>7 DEF TaskFails
  <2>8. CASE WritesDone(w)
    BY <2>8 DEF WritesDone
  <2>9. CASE GetMarks(w)
    BY <2>9 DEF GetMarks
  <2>10. CASE PutMarks(w)
    BY <2>10 DEF PutMarks
  <2>11. CASE NextBatch(w)
    BY <2>11 DEF NextBatch, EnterBatch, ForgetBatch
  <2>12. CASE Crash(w)
    BY <2>12 DEF Crash, ForgetBatch
  <2>. QED
    BY <1>2, <2>1, <2>2, <2>3, <2>4, <2>5, <2>6, <2>7, <2>8, <2>9, <2>10,
       <2>11, <2>12 DEF WriterNext, RunStep
<1>3. ASSUME NEW r \in Readers, ReaderNext(r)
      PROVE  SoundInv'
  <2>. USE DEF chainVars, tableVars, writerVars, recordVars
  <2>1. ASSUME NEW a \in Addr, StartReport(r, a)
        PROVE  SoundInv'
    BY <2>1 DEF StartReport
  <2>2. CASE ReadMarks(r)
    BY <2>2 DEF ReadMarks
  <2>3. CASE ReadItem(r)
    BY <2>3 DEF ReadItem, EpochsInDb, Answered
  <2>4. CASE EndProcess(r)
    BY <2>4 DEF EndProcess
  <2>. QED
    BY <1>3, <2>1, <2>2, <2>3, <2>4 DEF ReaderNext
<1>4. CASE UNCHANGED vars
  BY <1>4 DEF vars
<1>. QED
  BY <1>1, <1>2, <1>3, <1>4 DEF Next

\* Neither the table nor a report shows a reward that was not earned, with any
\* number of jobs at once, crashes, failed writes and partial reads.
THEOREM NothingFabricated == Spec => []NoFabricatedReward
<1>1. Spec => [](TypeInv /\ SoundInv)
  BY TypeInit, TypeStep, SoundInit, SoundStep, PTL DEF Spec
<1>2. TypeInv /\ SoundInv => NoFabricatedReward
  BY DEF SoundInv, ItemsSound, ReportsSound, NoFabricatedReward
<1>. QED
  BY <1>1, <1>2, PTL

-----------------------------------------------------------------------------
(* Any number of jobs, whatever fails: what a report may lack *)

\* The epoch has ended and each reward it pays is in the table or recorded as
\* lost.
Accounted(e) ==
  e < latest /\ \A a \in earned[e] : e \in item[a] \/ <<a, e>> \in lost

\* What a job knows of its batch, of the copies it has read and of the marks it
\* is about to write back, whatever the other jobs do meanwhile.
BatchKnown(w) ==
  pc[w] \in {"read", "write"} =>
    \A e \in Batch(w) : \A a \in earned[e] :
      a \in blocks[w][e] \/ e \in item[a] \/ <<a, e>> \in lost
CopyKnown(w) ==
  /\ pc[w] \in {"read", "write"} => todo[w] \subseteq Rewarded(w)
  /\ pc[w] = "read" =>
       \A a \in Rewarded(w) \ todo[w] : item[a] \subseteq copy[w][a] \cup unseen[w][a]
  /\ pc[w] = "write" =>
       \A a \in todo[w] : /\ item[a] \subseteq copy[w][a] \cup unseen[w][a]
                          /\ NewEpochs(w, a) \subseteq copy[w][a]
WrittenKnown(w) ==
  pc[w] = "write" =>
    \A a \in Rewarded(w) \ todo[w] : \A e \in NewEpochs(w, a) :
      e \in item[a] \/ <<a, e>> \in lost
MarkingKnown(w) ==
  pc[w] \in {"mark", "put"} =>
    unmarked[w] \subseteq Batch(w) /\ \A e \in Batch(w) : Accounted(e)
SeenKnown(w) == pc[w] = "put" => \A e \in seen[w] : Accounted(e)

JobKnown(w) ==
  /\ endEpoch[w] <= latest
  /\ BatchKnown(w)
  /\ CopyKnown(w)
  /\ WrittenKnown(w)
  /\ MarkingKnown(w)
  /\ SeenKnown(w)

MarksAccounted == \A e \in marks : Accounted(e)
ReadersKnow ==
  \A r \in Readers :
    /\ \A e \in epochsAll[r] : e < latest
    /\ rpc[r] = "marked" => \A e \in rmarks[r] : Accounted(e)

LossInv ==
  /\ \A w \in Writers : JobKnown(w)
  /\ MarksAccounted
  /\ ReadersKnow
  /\ ReportLacksOnlyLost

LEMMA LossInit == Init => LossInv
BY ConstantsAssumption DEF Init, LossInv, JobKnown, BatchKnown, CopyKnown, WrittenKnown,
   MarkingKnown, SeenKnown, MarksAccounted, ReadersKnow, ReportLacksOnlyLost

\* A reward that is in the table or recorded as lost stays so: whoever writes an
\* item back has its old epochs in the copy or knows them unseen.
LEMMA RewardTraced ==
  ASSUME TypeInv, LossInv, [Next]_vars, NEW a \in Addr, NEW e \in Epochs,
         e \in item[a] \/ <<a, e>> \in lost
  PROVE  (e \in item[a] \/ <<a, e>> \in lost)'
<1>1. CASE UNCHANGED item /\ lost \subseteq lost'
  BY <1>1
<1>2. ASSUME NEW w \in Writers, NEW b \in Addr, BatchWrite(w, b)
      PROVE  (e \in item[a] \/ <<a, e>> \in lost)'
  <2>1. item[b] \subseteq copy[w][b] \cup unseen[w][b]
    BY <1>2 DEF BatchWrite, LossInv, JobKnown, CopyKnown
  <2>2. /\ item'[b] = copy[w][b]
        /\ \A c \in Addr \ {b} : item'[c] = item[c]
        /\ lost' = (lost \ ({b} \X copy[w][b])) \cup ({b} \X (unseen[w][b] \ copy[w][b]))
    BY <1>2 DEF BatchWrite, TypeInv, TypeOK
  <2>3. CASE a = b
    BY <2>1, <2>2, <2>3
  <2>4. CASE a # b
    BY <2>2, <2>4
  <2>. QED
    BY <2>3, <2>4
<1>3. \/ UNCHANGED item /\ lost \subseteq lost'
      \/ \E w \in Writers : \E b \in Addr : BatchWrite(w, b)
  <2>1. ASSUME NEW w \in Writers, WriterNext(w), ~ \E b \in Addr : BatchWrite(w, b)
        PROVE  UNCHANGED item /\ lost \subseteq lost'
    BY <2>1 DEF WriterNext, RunStep, StartRun, PlanRun, FetchBlocks, BatchGet,
       UpdateRewards, TaskFails, WritesDone, GetMarks, PutMarks, NextBatch, Crash,
       tableVars, recordVars
  <2>2. CASE EpochEnds \/ (\E r \in Readers : ReaderNext(r)) \/ UNCHANGED vars
    BY <2>2 DEF EpochEnds, ReaderNext, StartReport, ReadMarks, ReadItem, EndProcess,
       vars, tableVars, recordVars
  <2>. QED
    BY <2>1, <2>2 DEF Next
<1>. QED
  BY <1>1, <1>2, <1>3

\* An epoch that has ended pays what it pays.
LEMMA EndedStays ==
  ASSUME TypeInv, [Next]_vars
  PROVE  /\ latest \in Nat /\ latest' \in Nat /\ latest <= latest'
         /\ \A e \in Epochs : e < latest => earned'[e] = earned[e]
<1>1. CASE EpochEnds
  BY <1>1, ConstantsAssumption DEF EpochEnds, TypeInv, TypeOK, Epochs
<1>2. CASE UNCHANGED chainVars
  BY <1>2, ConstantsAssumption DEF chainVars, TypeInv, TypeOK
<1>3. EpochEnds \/ UNCHANGED chainVars
  BY DEF Next, WriterNext, RunStep, StartRun, PlanRun, FetchBlocks, BatchGet,
     UpdateRewards, BatchWrite, TaskFails, WritesDone, GetMarks, PutMarks, NextBatch,
     Crash, ReaderNext, StartReport, ReadMarks, ReadItem, EndProcess, vars, chainVars
<1>. QED
  BY <1>1, <1>2, <1>3

LEMMA AccountedKept ==
  ASSUME TypeInv, LossInv, [Next]_vars, NEW e \in Epochs, Accounted(e)
  PROVE  Accounted(e)'
<1>1. e < latest' /\ earned'[e] = earned[e] /\ earned[e] \subseteq Addr
  BY EndedStays, ConstantsAssumption DEF Accounted, TypeInv, TypeOK, Epochs
<1>2. \A a \in earned[e] : (e \in item[a] \/ <<a, e>> \in lost)'
  BY <1>1, RewardTraced DEF Accounted
<1>. QED
  BY <1>1, <1>2 DEF Accounted

\* What a job knows stays true while it rests: another job that writes an item
\* only adds what this one has not seen.
LEMMA RestingJobKnows ==
  ASSUME TypeInv, LossInv, [Next]_vars, NEW w \in Writers,
         pc'[w] = pc[w], endEpoch'[w] = endEpoch[w], x'[w] = x[w],
         blocks'[w] = blocks[w], todo'[w] = todo[w], copy'[w] = copy[w],
         unmarked'[w] = unmarked[w], seen'[w] = seen[w],
         pc[w] \in {"read", "write"} =>
           \A a \in Addr : /\ unseen[w][a] \subseteq unseen'[w][a]
                           /\ item'[a] \subseteq item[a] \cup copy[w][a] \cup unseen'[w][a]
  PROVE  JobKnown(w)'
<1>. USE DEF LossInv, JobKnown
<1>1. /\ Batch(w)' = Batch(w) /\ Rewarded(w)' = Rewarded(w)
      /\ \A a \in Addr : NewEpochs(w, a)' = NewEpochs(w, a)
  BY DEF Batch, Rewarded, NewEpochs
<1>2. /\ \A e \in Batch(w) : e \in Epochs /\ e < latest
      /\ Rewarded(w) \subseteq Addr /\ seen[w] \subseteq Epochs
      /\ \A a \in Addr : NewEpochs(w, a) \subseteq Epochs
  BY ConstantsAssumption DEF Batch, Rewarded, NewEpochs, TypeInv, TypeOK, Epochs
<1>3. endEpoch'[w] <= latest'
  BY EndedStays, ConstantsAssumption DEF TypeInv, TypeOK
<1>4. BatchKnown(w)'
  <2>1. ASSUME pc[w] \in {"read", "write"}, NEW e \in Batch(w), NEW a \in earned'[e]
        PROVE  (a \in blocks[w][e] \/ e \in item[a] \/ <<a, e>> \in lost)'
    <3>1. a \in earned[e] /\ a \in Addr
      BY <1>2, <2>1, EndedStays DEF TypeInv, TypeOK
    <3>2. a \in blocks[w][e] \/ e \in item[a] \/ <<a, e>> \in lost
      BY <2>1, <3>1 DEF BatchKnown
    <3>. QED
      BY <1>2, <2>1, <3>1, <3>2, RewardTraced
  <2>. QED
    BY <1>1, <2>1 DEF BatchKnown
<1>5. CopyKnown(w)'
  BY <1>1, <1>2 DEF CopyKnown
<1>6. WrittenKnown(w)'
  BY <1>1, <1>2, RewardTraced DEF WrittenKnown
<1>7. MarkingKnown(w)' /\ SeenKnown(w)'
  BY <1>1, <1>2, AccountedKept DEF MarkingKnown, SeenKnown
<1>. QED
  BY <1>3, <1>4, <1>5, <1>6, <1>7

\* A step of a job, seen by the job that makes it.
LEMMA WorkingJobKnows ==
  ASSUME TypeInv, TypeInv', LossInv, [Next]_vars, NEW w \in Writers, WriterNext(w)
  PROVE  JobKnown(w)'
<1>. USE DEF LossInv, JobKnown
<1>1. /\ \A e \in Batch(w) : e \in Epochs /\ e < latest
      /\ Rewarded(w) \subseteq Addr /\ seen[w] \subseteq Epochs
      /\ \A a \in Addr : NewEpochs(w, a) \subseteq Batch(w)
  BY ConstantsAssumption DEF Batch, Rewarded, NewEpochs, TypeInv, TypeOK, Epochs
<1>2. UNCHANGED latest /\ (UNCHANGED endEpoch \/ endEpoch' = [endEpoch EXCEPT ![w] = latest])
  BY DEF WriterNext, RunStep, StartRun, PlanRun, FetchBlocks, BatchGet, UpdateRewards,
     BatchWrite, TaskFails, WritesDone, GetMarks, PutMarks, NextBatch, Crash, chainVars
<1>3. endEpoch'[w] <= latest'
  BY <1>2, EndedStays DEF TypeInv, TypeOK
<1>. DEFINE Rest == BatchKnown(w) /\ CopyKnown(w) /\ WrittenKnown(w) /\ MarkingKnown(w)
                    /\ SeenKnown(w)
<1>4. Rest
  OBVIOUS
<1>5. Rest' => JobKnown(w)'
  BY <1>3
<1>6. ASSUME UNCHANGED <<x, endEpoch>>
      PROVE  Batch(w)' = Batch(w)
  BY <1>6 DEF Batch
<1>7. ASSUME UNCHANGED <<x, endEpoch, blocks>>
      PROVE  /\ Rewarded(w)' = Rewarded(w)
             /\ \A a \in Addr : NewEpochs(w, a)' = NewEpochs(w, a)
  BY <1>6, <1>7 DEF Rewarded, NewEpochs
<1>8. ASSUME pc'[w] \in {"idle", "plan", "fetch", "failed"}
      PROVE  Rest'
  BY <1>8 DEF BatchKnown, CopyKnown, WrittenKnown, MarkingKnown, SeenKnown
<1>9. CASE StartRun(w) \/ PlanRun(w) \/ NextBatch(w) \/ Crash(w)
  <2>1. pc'[w] \in {"idle", "plan", "fetch", "failed"}
    BY <1>9 DEF StartRun, PlanRun, NextBatch, EnterBatch, Crash, TypeInv, TypeOK
  <2>. QED
    BY <1>5, <1>8, <2>1
<1>10. CASE FetchBlocks(w)
  <2>1. PICK missed \in SUBSET Batch(w) :
          LET found == [e \in Epochs |-> IF e \in Batch(w) \ missed THEN earned[e] ELSE {}]
          IN  /\ blocks' = [blocks EXCEPT ![w] = found]
              /\ todo' = [todo EXCEPT ![w] =
                            {a \in Addr : \E e \in Batch(w) : a \in found[e]}]
              /\ lost' = lost \cup {p \in Addr \X missed :
                                      p[1] \in earned[p[2]] /\ p[2] \notin item[p[1]]}
    BY <1>10 DEF FetchBlocks
  <2>. DEFINE found == [e \in Epochs |-> IF e \in Batch(w) \ missed THEN earned[e] ELSE {}]
  <2>2. /\ pc'[w] = "read" /\ UNCHANGED <<x, endEpoch, earned, item>>
        /\ blocks'[w] = found
        /\ todo'[w] = {a \in Addr : \E e \in Batch(w) : a \in found[e]}
    BY <1>10, <2>1 DEF FetchBlocks, TypeInv, TypeOK, tableVars, chainVars
  <2>3. BatchKnown(w)'
    <3>1. ASSUME NEW e \in Batch(w), NEW a \in earned[e]
          PROVE  a \in blocks'[w][e] \/ e \in item[a] \/ <<a, e>> \in lost'
      <4>1. a \in Addr /\ e \in Epochs
        BY <1>1, <3>1 DEF TypeInv, TypeOK
      <4>2. CASE e \in missed
        BY <2>1, <3>1, <4>1, <4>2
      <4>3. CASE e \notin missed
        BY <2>2, <3>1, <4>1, <4>3
      <4>. QED
        BY <4>2, <4>3
    <3>. QED
      BY <1>6, <2>2, <3>1 DEF BatchKnown
  <2>4. todo'[w] = Rewarded(w)'
    BY <1>6, <2>2 DEF Rewarded
  <2>. QED
    BY <1>5, <2>2, <2>3, <2>4 DEF CopyKnown, WrittenKnown, MarkingKnown, SeenKnown
<1>11. ASSUME NEW a \in Addr, BatchGet(w, a)
       PROVE  JobKnown(w)'
  <2>1. /\ pc[w] = "read" /\ pc'[w] = "read" /\ a \in todo[w] /\ todo'[w] = todo[w] \ {a}
        /\ UNCHANGED <<x, endEpoch, blocks, earned, item, lost>>
        /\ item[a] \subseteq copy'[w][a] \cup unseen'[w][a]
        /\ \A b \in Addr \ {a} : copy'[w][b] = copy[w][b] /\ unseen'[w][b] = unseen[w][b]
    BY <1>11 DEF BatchGet, TypeInv, TypeOK, chainVars, tableVars
  <2>2. BatchKnown(w)'
    BY <1>4, <1>6, <2>1 DEF BatchKnown
  <2>3. CopyKnown(w)'
    BY <1>1, <1>4, <1>7, <2>1 DEF CopyKnown
  <2>. QED
    BY <1>5, <2>1, <2>2, <2>3 DEF WrittenKnown, MarkingKnown, SeenKnown
<1>12. CASE UpdateRewards(w)
  <2>1. /\ pc[w] = "read" /\ pc'[w] = "write" /\ todo[w] = {} /\ todo'[w] = Rewarded(w)
        /\ UNCHANGED <<x, endEpoch, blocks, earned, item, lost, unseen>>
        /\ \A a \in Addr : copy'[w][a] = copy[w][a] \cup NewEpochs(w, a)
    BY <1>12 DEF UpdateRewards, Merged, TypeInv, TypeOK, chainVars, tableVars, recordVars
  <2>2. BatchKnown(w)'
    BY <1>4, <1>6, <2>1 DEF BatchKnown
  <2>3. CopyKnown(w)'
    BY <1>1, <1>4, <1>7, <2>1 DEF CopyKnown
  <2>. QED
    BY <1>5, <1>7, <2>1, <2>2, <2>3 DEF WrittenKnown, MarkingKnown, SeenKnown
<1>13. ASSUME NEW a \in Addr, BatchWrite(w, a)
       PROVE  JobKnown(w)'
  <2>1. /\ pc[w] = "write" /\ pc'[w] = "write" /\ a \in todo[w] /\ todo'[w] = todo[w] \ {a}
        /\ UNCHANGED <<x, endEpoch, blocks, earned, copy>> /\ unseen'[w] = unseen[w]
        /\ item'[a] = copy[w][a] /\ \A b \in Addr \ {a} : item'[b] = item[b]
    BY <1>13 DEF BatchWrite, TypeInv, TypeOK, chainVars
  <2>2. BatchKnown(w)'
    <3>1. ASSUME NEW e \in Batch(w), NEW b \in earned[e]
          PROVE  b \in blocks[w][e] \/ (e \in item[b] \/ <<b, e>> \in lost)'
      BY <1>1, <1>4, <2>1, <3>1, RewardTraced DEF BatchKnown, TypeInv, TypeOK
    <3>. QED
      BY <1>6, <2>1, <3>1 DEF BatchKnown
  <2>3. CopyKnown(w)'
    BY <1>1, <1>4, <1>7, <2>1 DEF CopyKnown
  <2>4. WrittenKnown(w)'
    <3>1. ASSUME NEW b \in Rewarded(w) \ todo'[w], NEW e \in NewEpochs(w, b)
          PROVE  (e \in item[b] \/ <<b, e>> \in lost)'
      <4>1. CASE b = a
        BY <1>4, <2>1, <3>1, <4>1 DEF CopyKnown
      <4>2. CASE b # a
        BY <1>1, <1>4, <2>1, <3>1, <4>2, RewardTraced DEF WrittenKnown
      <4>. QED
        BY <4>1, <4>2
    <3>2. \A b \in Rewarded(w)' \ todo'[w] : \A e \in NewEpochs(w, b)' :
            (e \in item[b] \/ <<b, e>> \in lost)'
      <4>1. Rewarded(w)' = Rewarded(w) /\ \A b \in Rewarded(w) : NewEpochs(w, b)' = NewEpochs(w, b)
        BY <1>1, <1>7, <2>1
      <4>. HIDE DEF LossInv, JobKnown, Rest
      <4>. QED
        BY <3>1, <4>1
    <3>. QED
      BY <3>2 DEF WrittenKnown
  <2>. QED
    BY <1>5, <2>1, <2>2, <2>3, <2>4 DEF MarkingKnown, SeenKnown
<1>14. CASE TaskFails(w)
  <2>1. PICK tasks \in SUBSET todo[w] :
          /\ todo' = [todo EXCEPT ![w] = @ \ tasks]
          /\ lost' = lost \cup {p \in tasks \X Epochs :
                                  p[2] \in NewEpochs(w, p[1]) \ item[p[1]]}
    BY <1>14 DEF TaskFails
  <2>2. /\ pc[w] = "write" /\ pc'[w] = "write" /\ todo'[w] = todo[w] \ tasks
        /\ UNCHANGED <<x, endEpoch, blocks, earned, copy, item, unseen>>
    BY <1>14, <2>1 DEF TaskFails, TypeInv, TypeOK, chainVars, tableVars
  <2>3. BatchKnown(w)'
    BY <1>4, <1>6, <2>1, <2>2 DEF BatchKnown
  <2>4. CopyKnown(w)'
    BY <1>1, <1>4, <1>7, <2>2 DEF CopyKnown
  <2>5. WrittenKnown(w)'
    <3>1. ASSUME NEW b \in Rewarded(w) \ todo'[w], NEW e \in NewEpochs(w, b)
          PROVE  e \in item[b] \/ <<b, e>> \in lost'
      <4>1. b \in Addr /\ e \in Epochs
        BY <1>1, <3>1
      <4>2. CASE b \in tasks
        BY <2>1, <3>1, <4>1, <4>2
      <4>3. CASE b \notin tasks
        BY <1>4, <2>1, <2>2, <3>1, <4>3 DEF WrittenKnown
      <4>. QED
        BY <4>2, <4>3
    <3>. QED
      BY <1>1, <1>7, <2>2, <3>1 DEF WrittenKnown
  <2>. QED
    BY <1>5, <2>2, <2>3, <2>4, <2>5 DEF MarkingKnown, SeenKnown
<1>15. CASE WritesDone(w)
  <2>1. /\ pc[w] = "write" /\ pc'[w] = "mark" /\ todo[w] = {} /\ unmarked'[w] = Batch(w)
        /\ UNCHANGED <<x, endEpoch, earned, item, lost>>
    BY <1>15 DEF WritesDone, TypeInv, TypeOK, chainVars, tableVars
  <2>2. ASSUME NEW e \in Batch(w), NEW a \in earned[e]
        PROVE  e \in item[a] \/ <<a, e>> \in lost
    <3>1. a \in Addr
      BY <1>1, <2>2 DEF TypeInv, TypeOK
    <3>2. CASE a \in blocks[w][e]
      <4>1. a \in Rewarded(w) /\ e \in NewEpochs(w, a)
        BY <2>2, <3>1, <3>2 DEF Rewarded, NewEpochs
      <4>. QED
        BY <1>4, <2>1, <4>1 DEF WrittenKnown
    <3>3. CASE a \notin blocks[w][e]
      BY <1>4, <2>1, <2>2, <3>3 DEF BatchKnown
    <3>. QED
      BY <3>2, <3>3
  <2>3. MarkingKnown(w)'
    BY <1>1, <1>2, <1>6, <2>1, <2>2 DEF MarkingKnown, Accounted
  <2>. QED
    BY <1>5, <2>1, <2>3 DEF BatchKnown, CopyKnown, WrittenKnown, SeenKnown
<1>16. CASE GetMarks(w)
  <2>1. /\ pc[w] = "mark" /\ pc'[w] = "put" /\ seen'[w] = marks
        /\ UNCHANGED <<x, endEpoch, unmarked, marks>>
    BY <1>16 DEF GetMarks, TypeInv, TypeOK, tableVars
  <2>2. MarkingKnown(w)'
    BY <1>1, <1>4, <1>6, <2>1, AccountedKept DEF MarkingKnown
  <2>3. SeenKnown(w)'
    BY <2>1, AccountedKept DEF SeenKnown, MarksAccounted, TypeInv, TypeOK
  <2>. QED
    BY <1>5, <2>1, <2>2, <2>3 DEF BatchKnown, CopyKnown, WrittenKnown
<1>17. CASE PutMarks(w)
  <2>1. /\ pc[w] = "put" /\ pc'[w] = "mark" /\ unmarked'[w] \subseteq unmarked[w]
        /\ UNCHANGED <<x, endEpoch>>
    BY <1>17 DEF PutMarks, TypeInv, TypeOK
  <2>2. MarkingKnown(w)'
    BY <1>1, <1>4, <1>6, <2>1, AccountedKept DEF MarkingKnown
  <2>. QED
    BY <1>5, <2>1, <2>2 DEF BatchKnown, CopyKnown, WrittenKnown, SeenKnown
<1>. QED
  BY <1>9, <1>10, <1>11, <1>12, <1>13, <1>14, <1>15, <1>16, <1>17 DEF WriterNext, RunStep

LEMMA JobsKnow ==
  ASSUME TypeInv, TypeInv', LossInv, [Next]_vars, NEW v \in Writers
  PROVE  JobKnown(v)'
<1>1. CASE EpochEnds \/ (\E r \in Readers : ReaderNext(r)) \/ UNCHANGED vars
  <2>1. UNCHANGED <<tableVars, writerVars, unseen>>
    BY <1>1 DEF EpochEnds, ReaderNext, StartReport, ReadMarks, ReadItem, EndProcess, vars,
       tableVars, writerVars, recordVars
  <2>. QED
    BY <2>1, RestingJobKnows DEF tableVars, writerVars
<1>2. ASSUME NEW w \in Writers, w # v, WriterNext(w)
      PROVE  JobKnown(v)'
  <2>1. /\ pc'[v] = pc[v] /\ endEpoch'[v] = endEpoch[v] /\ x'[v] = x[v]
        /\ blocks'[v] = blocks[v] /\ todo'[v] = todo[v] /\ copy'[v] = copy[v]
        /\ unmarked'[v] = unmarked[v] /\ seen'[v] = seen[v]
    BY <1>2 DEF TypeInv, TypeOK, WriterNext, RunStep, StartRun, PlanRun, EnterBatch,
       ForgetBatch, FetchBlocks, BatchGet, UpdateRewards, BatchWrite, TaskFails,
       WritesDone, GetMarks, PutMarks, NextBatch, Crash
  <2>2. ASSUME NEW a \in Addr, BatchWrite(w, a), pc[v] \in {"read", "write"}, NEW b \in Addr
        PROVE  /\ unseen[v][b] \subseteq unseen'[v][b]
               /\ item'[b] \subseteq item[b] \cup copy[v][b] \cup unseen'[v][b]
    <3>1. /\ unseen'[v] = [unseen[v] EXCEPT ![a] = @ \cup copy[w][a]]
          /\ item' = [item EXCEPT ![a] = copy[w][a]]
      BY <1>2, <2>2 DEF BatchWrite
    <3>. QED
      BY <3>1 DEF TypeInv, TypeOK
  <2>3. ASSUME ~ \E a \in Addr : BatchWrite(w, a)
        PROVE  UNCHANGED item /\ unseen'[v] = unseen[v]
    BY <1>2, <2>3 DEF TypeInv, TypeOK, WriterNext, RunStep, StartRun, PlanRun, EnterBatch,
       ForgetBatch, FetchBlocks, BatchGet, UpdateRewards, TaskFails, WritesDone, GetMarks,
       PutMarks, NextBatch, Crash, tableVars, recordVars
  <2>. QED
    BY <2>1, <2>2, <2>3, RestingJobKnows
<1>. QED
  BY <1>1, <1>2, WorkingJobKnows DEF Next

LEMMA MarksStep ==
  ASSUME TypeInv, LossInv, [Next]_vars
  PROVE  MarksAccounted'
<1>1. CASE UNCHANGED marks
  BY <1>1, AccountedKept DEF LossInv, MarksAccounted, TypeInv, TypeOK
<1>2. ASSUME NEW w \in Writers, PutMarks(w)
      PROVE  MarksAccounted'
  <2>1. NextToMark(w) \in unmarked[w]
    BY <1>2, NextToMarkType DEF PutMarks, TypeInv, TypeOK, PutHasWork
  <2>2. \A e \in seen[w] \cup {NextToMark(w)} : e \in Epochs /\ Accounted(e)
    BY <1>2, <2>1 DEF PutMarks, LossInv, JobKnown, SeenKnown, MarkingKnown, TypeInv, TypeOK
  <2>. QED
    BY <1>2, <2>2, AccountedKept DEF PutMarks, MarksAccounted
<1>3. UNCHANGED marks \/ \E w \in Writers : PutMarks(w)
  BY DEF Next, EpochEnds, WriterNext, RunStep, StartRun, PlanRun, FetchBlocks, BatchGet,
     UpdateRewards, BatchWrite, TaskFails, WritesDone, GetMarks, NextBatch, Crash,
     ReaderNext, StartReport, ReadMarks, ReadItem, EndProcess, vars, tableVars
<1>. QED
  BY <1>1, <1>2, <1>3

LEMMA ReportsStep ==
  ASSUME TypeInv, SoundInv, LossInv, [Next]_vars
  PROVE  ReadersKnow' /\ ReportLacksOnlyLost'
<1>. USE DEF TypeInv, TypeOK, ReaderSteps
<1>1. CASE UNCHANGED <<readerVars, excused>>
  <2>1. ReadersKnow'
    <3>1. ASSUME NEW r \in Readers, NEW e \in epochsAll[r]
          PROVE  e < latest'
      BY <3>1, EndedStays, ConstantsAssumption DEF LossInv, ReadersKnow, Epochs
    <3>2. ASSUME NEW r \in Readers, rpc[r] = "marked", NEW e \in rmarks[r]
          PROVE  Accounted(e)'
      BY <3>2, AccountedKept DEF LossInv, ReadersKnow
    <3>. HIDE DEF TypeInv, TypeOK
    <3>. QED
      BY <1>1, <3>1, <3>2 DEF ReadersKnow, readerVars
  <2>2. ReportLacksOnlyLost'
    <3>1. ASSUME NEW r \in Readers
          PROVE  {e \in epochsAll[r] : raddr[r] \in earned'[e]}
                   = {e \in epochsAll[r] : raddr[r] \in earned[e]}
      BY EndedStays DEF LossInv, ReadersKnow
    <3>. QED
      BY <1>1, <3>1 DEF LossInv, ReportLacksOnlyLost, readerVars
  <2>. QED
    BY <2>1, <2>2
<1>2. ASSUME NEW r \in Readers, ReaderNext(r)
      PROVE  ReadersKnow' /\ ReportLacksOnlyLost'
  <2>1. UNCHANGED <<chainVars, item, marks, lost>>
    BY <1>2 DEF ReaderNext, StartReport, ReadMarks, ReadItem, EndProcess, tableVars, recordVars
  <2>2. \A e \in Epochs : Accounted(e)' = Accounted(e)
    BY <2>1 DEF Accounted, chainVars
  <2>. USE <2>1, <2>2 DEF chainVars, LossInv, ReadersKnow, ReportLacksOnlyLost, recordVars
  <2>3. ASSUME NEW a \in Addr, StartReport(r, a)
        PROVE  ReadersKnow' /\ ReportLacksOnlyLost'
    BY <2>3 DEF StartReport
  <2>4. CASE ReadMarks(r)
    <3>1. /\ rmarks' = [rmarks EXCEPT ![r] = marks] /\ rpc' = [rpc EXCEPT ![r] = "marked"]
          /\ UNCHANGED <<raddr, epochsAll, out, excused>>
      BY <2>4 DEF ReadMarks
    <3>2. \A e \in marks : Accounted(e)'
      BY DEF MarksAccounted
    <3>. QED
      BY <3>1, <3>2
  <2>5. CASE ReadItem(r)
    <3>. DEFINE asked == {e \in epochsAll[r] \ rmarks[r] : raddr[r] \in earned[e]}
                due == {e \in epochsAll[r] : raddr[r] \in earned[e]}
    <3>1. PICK errors \in SUBSET asked :
            /\ out'[r] = (epochsAll[r] \cap rmarks[r] \cap item[raddr[r]])
                           \cup (asked \ errors)
            /\ excused'[r] = errors \cup {e \in rmarks[r] : <<raddr[r], e>> \in lost}
      BY <2>5 DEF ReadItem, EpochsInDb, Answered
    <3>2. \A e \in item[raddr[r]] : raddr[r] \in earned[e]
      BY DEF SoundInv, ItemsSound
    <3>3. \A e \in rmarks[r] : raddr[r] \in earned[e] =>
            e \in item[raddr[r]] \/ <<raddr[r], e>> \in lost
      BY <2>5 DEF ReadItem, Accounted
    <3>4. out'[r] \subseteq due /\ due \ out'[r] \subseteq excused'[r]
      BY <3>1, <3>2, <3>3
    <3>5. /\ UNCHANGED <<raddr, epochsAll>> /\ rpc' = [rpc EXCEPT ![r] = "done"]
          /\ \A s \in Readers \ {r} : /\ out'[s] = out[s] /\ excused'[s] = excused[s]
                                      /\ rmarks'[s] = rmarks[s]
      BY <2>5 DEF ReadItem
    <3>. HIDE DEF asked
    <3>. QED
      BY <3>4, <3>5
  <2>6. CASE EndProcess(r)
    BY <2>6 DEF EndProcess
  <2>. QED
    BY <1>2, <2>3, <2>4, <2>5, <2>6 DEF ReaderNext
<1>3. UNCHANGED <<readerVars, excused>> \/ \E r \in Readers : ReaderNext(r)
  BY DEF Next, EpochEnds, WriterNext, RunStep, StartRun, PlanRun, FetchBlocks, BatchGet,
     UpdateRewards, BatchWrite, TaskFails, WritesDone, GetMarks, PutMarks, NextBatch, Crash,
     vars, readerVars, recordVars
<1>. QED
  BY <1>1, <1>2, <1>3

LEMMA LossStep == TypeInv /\ TypeInv' /\ SoundInv /\ LossInv /\ [Next]_vars => LossInv'
BY JobsKnow, MarksStep, ReportsStep DEF LossInv

\* With any number of jobs at once and whatever fails, a report shows nothing
\* unearned, and it lacks a reward only if the node did not answer for its epoch
\* or the table lost it to a fault or to another job's write.
THEOREM OnlyLostIsMissing == Spec => []ReportLacksOnlyLost
<1>1. LossInv => ReportLacksOnlyLost
  BY DEF LossInv
<1>. QED
  BY <1>1, TypeInit, TypeStep, SoundInit, SoundStep, LossInit, LossStep, PTL DEF Spec

-----------------------------------------------------------------------------
(* One job, nothing fails around it *)

\* The job runs in one process at a time.
OneJob == \A v, w \in Writers : v = w

\* Moreover its reads and writes and the RPC node answer in full.  The job
\* itself may still crash anywhere.
GoodEnvironment == OneJob /\ Faults = {}

\* What is known of a run where it stands.
BatchFetched(w) ==
  pc[w] \in {"read", "write"} =>
    \A e \in Batch(w) : blocks[w][e] = earned[e]
CopiesRead(w) ==
  pc[w] = "read" =>
    \A a \in Rewarded(w) \ todo[w] : copy[w][a] = item[a]
CopiesMerged(w) ==
  pc[w] = "write" =>
    \A a \in Rewarded(w) :
      /\ item[a] \cup NewEpochs(w, a) \subseteq copy[w][a]
      /\ a \notin todo[w] => item[a] = copy[w][a]
BatchWritten(w) ==
  pc[w] \in {"mark", "put"} =>
    /\ unmarked[w] \subseteq Batch(w)
    /\ \A e \in Batch(w) : \A a \in earned[e] : e \in item[a]
MarksSeen(w) == pc[w] = "put" => seen[w] = marks
TodoRewarded(w) == pc[w] \in {"read", "write"} => todo[w] \subseteq Rewarded(w)

RunInv ==
  \A w \in Writers :
    /\ endEpoch[w] <= latest
    /\ BatchFetched(w)
    /\ CopiesRead(w)
    /\ CopiesMerged(w)
    /\ BatchWritten(w)
    /\ MarksSeen(w)
    /\ TodoRewarded(w)

MarksEnded == \A e \in marks : e < latest

\* What is known of a report: it asks for ended epochs, the epochs it found
\* marked are still marked, and its answer is exact.
ReportInv ==
  \A r \in Readers :
    /\ \A e \in epochsAll[r] : e < latest
    /\ rpc[r] = "marked" => rmarks[r] \subseteq marks

ServiceInv == RunInv /\ MarksEnded /\ MarkedEpochsComplete /\ ReportInv /\ ReportExact

LEMMA ServiceInit == Init => ServiceInv
BY DEF Init, ServiceInv, RunInv, BatchFetched, CopiesRead, CopiesMerged,
   BatchWritten, MarksSeen, TodoRewarded, MarksEnded, MarkedEpochsComplete,
   ReportInv, ReportExact

\* A step of the chain leaves the rewards of ended epochs alone.
LEMMA ServiceEpochEnds ==
  ASSUME TypeInv, SoundInv, ServiceInv, EpochEnds
  PROVE  ServiceInv'
<1>. USE ConstantsAssumption DEF TypeInv, TypeOK, Epochs, EpochEnds, tableVars,
         writerVars, readerVars
<1>1. \A e \in Epochs : e < latest => earned'[e] = earned[e]
  OBVIOUS
<1>2. latest' = latest + 1
  OBVIOUS
<1>3. RunInv'
  <2>. SUFFICES ASSUME NEW w \in Writers
                PROVE  /\ (endEpoch[w] <= latest)'
                       /\ BatchFetched(w)' /\ CopiesRead(w)' /\ CopiesMerged(w)'
                       /\ BatchWritten(w)' /\ MarksSeen(w)' /\ TodoRewarded(w)'
    BY DEF RunInv
  <2>1. Batch(w)' = Batch(w) /\ \A e \in Batch(w) : e < latest /\ e \in Epochs
    BY DEF Batch, ServiceInv, RunInv
  <2>2. Rewarded(w)' = Rewarded(w) /\ \A a \in Addr : NewEpochs(w, a)' = NewEpochs(w, a)
    BY <2>1 DEF Rewarded, NewEpochs
  <2>3. BatchFetched(w)'
    BY <1>1, <2>1 DEF ServiceInv, RunInv, BatchFetched
  <2>4. (endEpoch[w] <= latest)'
    BY <1>2 DEF ServiceInv, RunInv
  <2>5. CopiesRead(w)' /\ TodoRewarded(w)'
    BY <2>2 DEF ServiceInv, RunInv, CopiesRead, TodoRewarded
  <2>6. CopiesMerged(w)'
    BY <2>2 DEF ServiceInv, RunInv, CopiesMerged, Rewarded
  <2>7. BatchWritten(w)' /\ MarksSeen(w)'
    BY <2>1, <2>2 DEF ServiceInv, RunInv, BatchWritten, MarksSeen
  <2>. QED
    BY <2>3, <2>4, <2>5, <2>6, <2>7
<1>4. MarksEnded' /\ MarkedEpochsComplete'
  BY <1>1, <1>2 DEF ServiceInv, MarksEnded, MarkedEpochsComplete
<1>5. ReportInv' /\ ReportExact'
  BY <1>1, <1>2 DEF ServiceInv, ReportInv, ReportExact
<1>. QED
  BY <1>3, <1>4, <1>5 DEF ServiceInv

\* A step of a report leaves the table and the job alone.
LEMMA ServiceReader ==
  ASSUME GoodEnvironment, TypeInv, SoundInv, ServiceInv,
         NEW r \in Readers, ReaderNext(r)
  PROVE  ServiceInv'
<1>. USE DEF TypeInv, TypeOK, ReaderSteps, chainVars, tableVars, writerVars
<1>1. UNCHANGED <<chainVars, tableVars, writerVars>>
  BY DEF ReaderNext, StartReport, ReadMarks, ReadItem, EndProcess
<1>2. RunInv' /\ MarksEnded' /\ MarkedEpochsComplete'
  BY <1>1 DEF ServiceInv, RunInv, BatchFetched, CopiesRead, CopiesMerged,
     BatchWritten, MarksSeen, TodoRewarded, MarksEnded, MarkedEpochsComplete,
     Batch, Rewarded, NewEpochs
<1>3. ReportInv' /\ ReportExact'
  <2>. USE DEF ServiceInv, ReportInv, ReportExact
  <2>1. ASSUME NEW a \in Addr, StartReport(r, a)
        PROVE  ReportInv' /\ ReportExact'
    BY <2>1 DEF StartReport
  <2>2. CASE ReadMarks(r)
    BY <2>2 DEF ReadMarks
  <2>3. CASE ReadItem(r)
    <3>1. \A e \in item[raddr[r]] : raddr[r] \in earned[e]
      BY DEF SoundInv, ItemsSound
    <3>2. \A e \in rmarks[r] : raddr[r] \in earned[e] => e \in item[raddr[r]]
      BY <2>3 DEF ReadItem, MarkedEpochsComplete
    <3>3. out'[r] = {e \in epochsAll[r] : raddr[r] \in earned[e]}
      BY <2>3, <3>1, <3>2 DEF ReadItem, EpochsInDb, Answered, GoodEnvironment
    <3>. QED
      BY <2>3, <3>3 DEF ReadItem
  <2>4. CASE EndProcess(r)
    BY <2>4 DEF EndProcess
  <2>. QED
    BY <2>1, <2>2, <2>3, <2>4 DEF ReaderNext
<1>. QED
  BY <1>2, <1>3 DEF ServiceInv

\* A step of the job that leaves the table and the marks alone only has to
\* keep what is known of the run.
LEMMA TableKept ==
  ASSUME ServiceInv, UNCHANGED <<chainVars, tableVars, readerVars>>, RunInv'
  PROVE  ServiceInv'
BY DEF ServiceInv, MarksEnded, MarkedEpochsComplete, ReportInv, ReportExact,
   chainVars, tableVars, readerVars

LEMMA ServiceWriter ==
  ASSUME GoodEnvironment, TypeInv, SoundInv, ServiceInv,
         NEW w \in Writers, WriterNext(w)
  PROVE  ServiceInv'
<1>. USE ConstantsAssumption DEF TypeInv, TypeOK, WriterSteps
<1>1. \A v \in Writers : v = w
  BY DEF GoodEnvironment, OneJob
<1>2. Faults = {}
  BY DEF GoodEnvironment, OneJob
<1>. DEFINE Known ==
       /\ endEpoch[w] <= latest
       /\ BatchFetched(w)
       /\ CopiesRead(w)
       /\ CopiesMerged(w)
       /\ BatchWritten(w)
       /\ MarksSeen(w)
       /\ TodoRewarded(w)
<1>3. Known
  BY DEF ServiceInv, RunInv
<1>4. Known' => RunInv'
  BY <1>1 DEF RunInv
<1>5. \A e \in Batch(w) : e \in Epochs /\ e < latest
  BY <1>3 DEF Batch, Epochs
<1>. USE DEF BatchFetched, CopiesRead, CopiesMerged, BatchWritten, MarksSeen,
         TodoRewarded
\* Steps after which nothing but endEpoch is known.
<1>6. ASSUME pc'[w] \in {"idle", "plan", "fetch", "failed"},
             (endEpoch[w] <= latest)',
             UNCHANGED <<chainVars, tableVars, readerVars>>
      PROVE  ServiceInv'
  <2>1. Known'
    BY <1>6
  <2>. QED
    BY <1>4, <1>6, <2>1, TableKept
<1>. USE DEF chainVars, tableVars, readerVars
<1>7. CASE StartRun(w)
  BY <1>6, <1>7 DEF StartRun
<1>8. CASE PlanRun(w) \/ NextBatch(w)
  BY <1>3, <1>6, <1>8 DEF PlanRun, NextBatch, EnterBatch
<1>9. CASE Crash(w)
  BY <1>3, <1>6, <1>9 DEF Crash
<1>10. CASE FetchBlocks(w)
  <2>1. \A e \in Batch(w) : blocks'[w][e] = earned[e]
    BY <1>2, <1>5, <1>10 DEF FetchBlocks
  <2>2. Batch(w)' = Batch(w)
    BY <1>10 DEF FetchBlocks, Batch
  <2>3. todo'[w] = Rewarded(w)'
    <3>1. PICK missed \in SUBSET Batch(w) :
            LET found == [e \in Epochs |-> IF e \in Batch(w) \ missed
                                           THEN earned[e] ELSE {}]
            IN  /\ blocks' = [blocks EXCEPT ![w] = found]
                /\ todo' = [todo EXCEPT ![w] =
                              {a \in Addr : \E e \in Batch(w) : a \in found[e]}]
      BY <1>10 DEF FetchBlocks
    <3>. DEFINE found == [e \in Epochs |-> IF e \in Batch(w) \ missed
                                           THEN earned[e] ELSE {}]
    <3>2. todo'[w] = {a \in Addr : \E e \in Batch(w) : a \in found[e]}
      BY <3>1
    <3>3. blocks'[w] = found
      BY <3>1
    <3>. QED
      BY <2>2, <3>2, <3>3 DEF Rewarded
  <2>4. Known'
    BY <1>3, <1>10, <2>1, <2>2, <2>3 DEF FetchBlocks
  <2>. QED
    BY <1>4, <1>10, <2>4, TableKept DEF FetchBlocks
\* In the other steps the batch and what it pays stay the same.
<1>11. ASSUME UNCHANGED <<x, endEpoch, blocks>>
       PROVE  /\ Batch(w)' = Batch(w)
              /\ Rewarded(w)' = Rewarded(w)
              /\ \A a \in Addr : NewEpochs(w, a)' = NewEpochs(w, a)
  BY <1>11 DEF Batch, Rewarded, NewEpochs
<1>12. ASSUME NEW a \in Addr, BatchGet(w, a)
       PROVE  ServiceInv'
  <2>. USE <1>12 DEF BatchGet
  <2>1. copy'[w][a] = item[a] /\ \A b \in Addr \ {a} : copy'[w][b] = copy[w][b]
    BY <1>2
  <2>2. Known'
    BY <1>3, <1>11, <2>1
  <2>. QED
    BY <1>4, <2>2, TableKept
<1>13. CASE UpdateRewards(w)
  <2>. USE <1>13 DEF UpdateRewards
  <2>1. \A a \in Addr : copy'[w][a] = Merged(w, a)
    OBVIOUS
  <2>2. \A a \in Rewarded(w) :
          a \in Addr /\ item[a] \cup NewEpochs(w, a) = copy'[w][a]
    BY <1>3, <2>1 DEF Merged, Rewarded
  <2>3. Known'
    BY <1>3, <1>11, <2>2
  <2>. QED
    BY <1>4, <2>3, TableKept
<1>14. ASSUME NEW a \in Addr, BatchWrite(w, a)
       PROVE  ServiceInv'
  <2>. USE <1>14 DEF BatchWrite
  <2>1. a \in Rewarded(w)
    BY <1>3
  <2>2. item'[a] = copy[w][a] /\ \A b \in Addr \ {a} : item'[b] = item[b]
    OBVIOUS
  <2>3. \A b \in Addr : item[b] \subseteq item'[b]
    BY <1>3, <2>1, <2>2
  <2>4. CopiesMerged(w)'
    BY <1>3, <1>11, <2>2, <2>1 DEF Rewarded
  <2>5. Known'
    BY <1>3, <1>11, <2>4
  <2>6. MarkedEpochsComplete'
    BY <2>3 DEF ServiceInv, MarkedEpochsComplete
  <2>. QED
    BY <1>4, <2>5, <2>6 DEF ServiceInv, MarksEnded, ReportInv, ReportExact
<1>15. CASE TaskFails(w)
  BY <1>2, <1>15 DEF TaskFails
<1>16. CASE WritesDone(w)
  <2>. USE <1>16 DEF WritesDone
  <2>1. \A e \in Batch(w) : \A a \in earned[e] : e \in item[a]
    BY <1>3, <1>5 DEF Rewarded, NewEpochs
  <2>2. Batch(w)' = Batch(w)
    BY DEF Batch
  <2>3. Known'
    BY <1>3, <2>1, <2>2
  <2>. QED
    BY <1>4, <2>3, TableKept
<1>17. CASE GetMarks(w)
  <2>. USE <1>17 DEF GetMarks
  <2>1. Known'
    BY <1>3, <1>11
  <2>. QED
    BY <1>4, <2>1, TableKept
<1>18. CASE PutMarks(w)
  <2>. USE <1>18 DEF PutMarks
  <2>. DEFINE n == NextToMark(w)
  <2>1. n \in unmarked[w]
    BY NextToMarkType DEF PutHasWork
  <2>2. n \in Batch(w) /\ marks' = marks \cup {n}
    BY <1>3, <2>1
  <2>3. \A a \in earned[n] : n \in item[a]
    BY <1>3, <2>2
  <2>. HIDE DEF n
  <2>4. MarksEnded' /\ MarkedEpochsComplete'
    BY <1>5, <2>2, <2>3 DEF ServiceInv, MarksEnded, MarkedEpochsComplete
  <2>5. ReportInv' /\ ReportExact'
    BY <2>2 DEF ServiceInv, ReportInv, ReportExact
  <2>6. Known'
    BY <1>3, <1>11
  <2>. QED
    BY <1>4, <2>4, <2>5, <2>6 DEF ServiceInv
<1>. QED
  BY <1>7, <1>8, <1>9, <1>10, <1>12, <1>13, <1>14, <1>15, <1>16, <1>17, <1>18
     DEF WriterNext, RunStep

LEMMA ServiceStep ==
  ASSUME GoodEnvironment
  PROVE  TypeInv /\ SoundInv /\ ServiceInv /\ [Next]_vars => ServiceInv'
<1>. SUFFICES ASSUME TypeInv, SoundInv, ServiceInv, [Next]_vars
              PROVE  ServiceInv'
  OBVIOUS
<1>1. CASE UNCHANGED vars
  BY <1>1 DEF vars, ServiceInv, RunInv, BatchFetched, CopiesRead, CopiesMerged,
     BatchWritten, MarksSeen, TodoRewarded, MarksEnded, MarkedEpochsComplete,
     ReportInv, ReportExact, Batch, Rewarded, NewEpochs
<1>. QED
  BY <1>1, ServiceEpochEnds, ServiceWriter, ServiceReader DEF Next

\* Everything that is known of a table filled by one job.
LEMMA ServiceInvariant ==
  ASSUME GoodEnvironment
  PROVE  Spec => [](TypeInv /\ SoundInv /\ ServiceInv)
BY TypeInit, TypeStep, SoundInit, SoundStep, ServiceInit, ServiceStep, PTL
   DEF Spec

\* A marked epoch is complete: the epochs are marked after the pool of threads
\* has written every reward they pay.
THEOREM MarkedMeansComplete ==
  ASSUME GoodEnvironment
  PROVE  Spec => []MarkedEpochsComplete
<1>1. ServiceInv => MarkedEpochsComplete
  BY DEF ServiceInv
<1>. QED
  BY <1>1, ServiceInvariant, PTL

\* A report that runs beside the job lists exactly what its address earned:
\* it reads the marks before the item, so an epoch it takes from the table was
\* complete when the item was read.
THEOREM ReportsAreExact ==
  ASSUME GoodEnvironment
  PROVE  Spec => []ReportExact
<1>1. ServiceInv => ReportExact
  BY DEF ServiceInv
<1>. QED
  BY <1>1, ServiceInvariant, PTL

\* No step takes a recorded reward away, although every write replaces a whole
\* item by a copy read earlier.
THEOREM RewardsAreKept ==
  ASSUME GoodEnvironment
  PROVE  Spec => RecordedRewardsKept
<1>1. TypeInv /\ ServiceInv /\ [Next]_vars
        => [\A a \in Addr : item[a] \subseteq item'[a]]_item
  <2>. SUFFICES ASSUME TypeInv, ServiceInv, [Next]_vars, NEW a \in Addr
                PROVE  item[a] \subseteq item'[a]
    OBVIOUS
  <2>1. ASSUME NEW w \in Writers, NEW b \in Addr, BatchWrite(w, b)
        PROVE  item[a] \subseteq item'[a]
    <3>1. b \in Rewarded(w) /\ item[b] \subseteq copy[w][b]
      BY <2>1 DEF ServiceInv, RunInv, TodoRewarded, CopiesMerged, BatchWrite
    <3>. QED
      BY <2>1, <3>1 DEF BatchWrite, TypeInv, TypeOK
  <2>2. CASE UNCHANGED item
    BY <2>2
  <2>3. UNCHANGED item \/ \E w \in Writers : \E b \in Addr : BatchWrite(w, b)
    BY DEF Next, EpochEnds, WriterNext, RunStep, ReaderNext, StartRun, PlanRun,
       EnterBatch, FetchBlocks, BatchGet, UpdateRewards, TaskFails, WritesDone,
       GetMarks, PutMarks, NextBatch, Crash, StartReport, ReadMarks, ReadItem,
       EndProcess, chainVars, tableVars, writerVars, readerVars, vars
  <2>. QED
    BY <2>1, <2>2, <2>3
<1>. QED
  BY <1>1, ServiceInvariant, PTL DEF Spec, RecordedRewardsKept

-----------------------------------------------------------------------------
(* One job, whatever fails around it: the marks have no gap *)

\* A batch begins where the marks end, and is marked from its first epoch on.
BatchFollows(w) ==
  pc[w] \in {"fetch", "read", "write", "mark", "put"} =>
    \A e \in Epochs : e < x[w] => e \in marks
MarkedInOrder(w) ==
  pc[w] \in {"mark", "put"} =>
    unmarked[w] \subseteq Batch(w) /\ Batch(w) \ unmarked[w] \subseteq marks

OrderInv ==
  /\ MarksHaveNoGap
  /\ \A w \in Writers : BatchFollows(w) /\ MarkedInOrder(w) /\ MarksSeen(w)

LEMMA OrderInit == Init => OrderInv
BY DEF Init, OrderInv, MarksHaveNoGap, BatchFollows, MarkedInOrder, MarksSeen

\* The next epoch to mark comes right after the marks, within the batch.
LEMMA NextIsFirstUnmarked ==
  ASSUME TypeInv, OrderInv, NEW w \in Writers, pc[w] = "put"
  PROVE  /\ NextToMark(w) \in Batch(w) \cap unmarked[w]
         /\ \A f \in Epochs : f < NextToMark(w) => f \in marks
<1>. USE ConstantsAssumption DEF TypeInv, TypeOK, PutHasWork
<1>1. /\ unmarked[w] \in SUBSET Epochs /\ unmarked[w] # {}
      /\ unmarked[w] \subseteq Batch(w) /\ Batch(w) \ unmarked[w] \subseteq marks
      /\ \A e \in Epochs : e < x[w] => e \in marks
  BY DEF OrderInv, BatchFollows, MarkedInOrder
<1>2. NextToMark(w) \in unmarked[w] /\ \A f \in unmarked[w] : NextToMark(w) <= f
  BY <1>1, NextToMarkType
<1>3. NextToMark(w) \in Batch(w)
  BY <1>1, <1>2
<1>4. ASSUME NEW f \in Epochs, f < NextToMark(w), ~ (f < x[w])
      PROVE  f \in Batch(w) \ unmarked[w]
  <2>1. f \in Batch(w)
    BY <1>3, <1>4 DEF Batch, Epochs
  <2>2. f \notin unmarked[w]
    BY <1>2, <1>3, <1>4 DEF Batch, Epochs
  <2>. QED
    BY <2>1, <2>2
<1>. QED
  BY <1>1, <1>2, <1>3, <1>4

LEMMA OrderWriter ==
  ASSUME OneJob, TypeInv, OrderInv, NEW w \in Writers, WriterNext(w)
  PROVE  OrderInv'
<1>. USE ConstantsAssumption DEF TypeInv, TypeOK, WriterSteps
<1>. DEFINE Known == BatchFollows(w) /\ MarkedInOrder(w) /\ MarksSeen(w)
<1>1. Known /\ MarksHaveNoGap
  BY DEF OrderInv
<1>2. Known' /\ MarksHaveNoGap' => OrderInv'
  BY DEF OrderInv, OneJob
<1>. USE DEF BatchFollows, MarkedInOrder, MarksSeen, chainVars, tableVars, readerVars
\* Steps that leave the marks alone and are not those of a batch.
<1>3. ASSUME pc'[w] \in {"idle", "plan", "failed"}, UNCHANGED marks
      PROVE  OrderInv'
  <2>1. Known' /\ MarksHaveNoGap'
    BY <1>1, <1>3 DEF MarksHaveNoGap
  <2>. QED
    BY <1>2, <2>1
<1>4. CASE StartRun(w)
  BY <1>3, <1>4 DEF StartRun
<1>5. CASE Crash(w)
  BY <1>3, <1>5 DEF Crash
<1>6. ASSUME NEW first \in Nat \ {0}, EnterBatch(w, first), UNCHANGED marks,
             first < endEpoch[w] => \A e \in Epochs : e < first => e \in marks
      PROVE  OrderInv'
  <2>1. Known' /\ MarksHaveNoGap'
    BY <1>1, <1>6 DEF MarksHaveNoGap, EnterBatch
  <2>. QED
    BY <1>2, <2>1
<1>7. CASE PlanRun(w)
  <2>1. /\ StartEpoch(marks) \in Nat \ {0}
        /\ StartEpoch(marks) = 1 \/ StartEpoch(marks) - 1 \in marks
    BY StartEpochType
  <2>2. \A e \in Epochs : e < StartEpoch(marks) => e \in marks
    BY <1>1, <2>1 DEF MarksHaveNoGap, Epochs
  <2>. HIDE DEF BatchFollows, MarkedInOrder, MarksSeen
  <2>. QED
    BY <1>6, <1>7, <2>1, <2>2 DEF PlanRun
<1>8. CASE NextBatch(w)
  <2>1. Batch(w) \subseteq marks /\ \A e \in Epochs : e < x[w] => e \in marks
    BY <1>1, <1>8 DEF NextBatch
  <2>2. x[w] + NBlocks < endEpoch[w] =>
          \A e \in Epochs : e < x[w] + NBlocks => e \in marks
    <3>1. x[w] \in Nat /\ endEpoch[w] \in Int /\ NBlocks \in Nat
      OBVIOUS
    <3>2. ASSUME x[w] + NBlocks < endEpoch[w], NEW e \in Epochs, e < x[w] + NBlocks
          PROVE  e \in marks
      <4>1. e \in Int
        BY DEF Epochs
      <4>2. e < x[w] \/ e \in Batch(w)
        BY <3>1, <3>2, <4>1 DEF Batch
      <4>. QED
        BY <2>1, <4>2
    <3>. QED
      BY <3>2
  <2>3. x[w] + NBlocks \in Nat \ {0}
    OBVIOUS
  <2>. HIDE DEF BatchFollows, MarkedInOrder, MarksSeen
  <2>. QED
    BY <1>6, <1>8, <2>2, <2>3 DEF NextBatch
\* Steps of a batch before its marks.
<1>9. ASSUME pc[w] \in {"fetch", "read", "write"}, pc'[w] \in {"read", "write"},
             UNCHANGED <<marks, x>>
      PROVE  OrderInv'
  <2>1. Known' /\ MarksHaveNoGap'
    BY <1>1, <1>9 DEF MarksHaveNoGap
  <2>. QED
    BY <1>2, <2>1
<1>10. CASE \/ FetchBlocks(w) \/ UpdateRewards(w) \/ TaskFails(w)
            \/ \E a \in Addr : BatchGet(w, a) \/ BatchWrite(w, a)
  BY <1>9, <1>10 DEF FetchBlocks, UpdateRewards, TaskFails, BatchGet, BatchWrite
<1>11. ASSUME UNCHANGED <<x, endEpoch>>
       PROVE  Batch(w)' = Batch(w)
  BY <1>11 DEF Batch
<1>12. CASE WritesDone(w)
  <2>1. Known' /\ MarksHaveNoGap'
    BY <1>1, <1>11, <1>12 DEF WritesDone, MarksHaveNoGap
  <2>. QED
    BY <1>2, <2>1
<1>13. CASE GetMarks(w)
  <2>1. Known' /\ MarksHaveNoGap'
    BY <1>1, <1>11, <1>13 DEF GetMarks, MarksHaveNoGap
  <2>. QED
    BY <1>2, <2>1
<1>14. CASE PutMarks(w)
  <2>. DEFINE n == NextToMark(w)
  <2>1. /\ n \in Batch(w) \cap unmarked[w] /\ n \in Epochs
        /\ \A f \in Epochs : f < n => f \in marks
    BY <1>14, NextIsFirstUnmarked DEF PutMarks
  <2>2. marks' = marks \cup {n} /\ unmarked'[w] = unmarked[w] \ {n}
    BY <1>1, <1>14 DEF PutMarks
  <2>. HIDE DEF n
  <2>3. MarksHaveNoGap'
    BY <1>1, <2>1, <2>2 DEF MarksHaveNoGap, Epochs
  <2>4. Known'
    BY <1>1, <1>11, <1>14, <2>2 DEF PutMarks
  <2>. QED
    BY <1>2, <2>3, <2>4
<1>. QED
  BY <1>4, <1>5, <1>7, <1>8, <1>10, <1>12, <1>13, <1>14 DEF WriterNext, RunStep

LEMMA OrderStep ==
  ASSUME OneJob
  PROVE  TypeInv /\ OrderInv /\ [Next]_vars => OrderInv'
<1>. SUFFICES ASSUME TypeInv, OrderInv, [Next]_vars
              PROVE  OrderInv'
  OBVIOUS
<1>1. ASSUME UNCHANGED <<tableVars, writerVars>>
      PROVE  OrderInv'
  BY <1>1 DEF OrderInv, MarksHaveNoGap, BatchFollows, MarkedInOrder, MarksSeen, Batch,
     tableVars, writerVars
<1>2. CASE EpochEnds \/ (\E r \in Readers : ReaderNext(r)) \/ UNCHANGED vars
  BY <1>1, <1>2 DEF EpochEnds, ReaderNext, StartReport, ReadMarks, ReadItem, EndProcess,
     vars, tableVars, writerVars
<1>. QED
  BY <1>2, OrderWriter DEF Next

\* The marks of one job never have a gap, which no later run would fill, wherever
\* the job dies and whichever writes are lost.
THEOREM MarksAreGapless ==
  ASSUME OneJob
  PROVE  Spec => []MarksHaveNoGap
<1>1. OrderInv => MarksHaveNoGap
  BY DEF OrderInv
<1>. QED
  BY <1>1, TypeInit, TypeStep, OrderInit, OrderStep, PTL DEF Spec

-----------------------------------------------------------------------------
(* The job and the reports implement the service *)

LEMMA ServiceInitMaps == Init => Service!Init
<1>. SUFFICES ASSUME Init
              PROVE  Service!Init
  OBVIOUS
<1>1. \A r \in Readers : (rpc[r] \in {"asked", "marked"}) = FALSE
  BY DEF Init
<1>2. [r \in Readers |-> rpc[r] \in {"asked", "marked"}] = [r \in Readers |-> FALSE]
  BY <1>1, Zenon
<1>. QED
  BY <1>2 DEF Init, Service!Init, Service!Epochs, Epochs

\* A step of the chain is one of the service.
LEMMA EpochEndsMaps ==
  ASSUME TypeInv, EpochEnds
  PROVE  Service!EpochEnds
<1>1. latest \in Service!Epochs
  BY ConstantsAssumption DEF TypeInv, TypeOK, EpochEnds, Service!Epochs
<1>. QED
  BY <1>1 DEF EpochEnds, Service!EpochEnds, tableVars, readerVars

\* A step of the job publishes the epoch that it marks, or does not show.
LEMMA WriterMaps ==
  ASSUME GoodEnvironment, TypeInv, ServiceInv, OrderInv, ServiceInv',
         NEW w \in Writers, WriterNext(w)
  PROVE  (\E e \in Service!Epochs : Service!Publish(e)) \/ UNCHANGED Service!vars
<1>1. UNCHANGED <<chainVars, readerVars>>
  BY DEF WriterNext, RunStep, StartRun, PlanRun, EnterBatch, FetchBlocks, BatchGet,
     UpdateRewards, BatchWrite, TaskFails, WritesDone, GetMarks, PutMarks, NextBatch, Crash
<1>2. CASE PutMarks(w)
  <2>. DEFINE n == NextToMark(w)
  <2>1. n \in Epochs /\ \A f \in Epochs : f < n => f \in marks
    BY <1>2, NextIsFirstUnmarked DEF PutMarks, Batch
  <2>2. marks' = marks \cup {n}
    BY <1>2 DEF PutMarks, OrderInv, MarksSeen
  <2>3. n < latest
    BY <1>1, <2>2 DEF ServiceInv, MarksEnded, chainVars
  <2>. HIDE DEF n
  <2>4. Service!Publish(n)
    BY <1>1, <2>1, <2>2, <2>3
       DEF Service!Publish, Service!Epochs, Epochs, chainVars, readerVars
  <2>. QED
    BY <2>1, <2>4 DEF Service!Epochs, Epochs
<1>3. CASE UNCHANGED marks
  BY <1>1, <1>3 DEF Service!vars, chainVars, readerVars
<1>4. UNCHANGED marks \/ PutMarks(w)
  BY DEF WriterNext, RunStep, StartRun, PlanRun, FetchBlocks, BatchGet, UpdateRewards,
     BatchWrite, TaskFails, WritesDone, GetMarks, NextBatch, Crash, tableVars
<1>. QED
  BY <1>2, <1>3, <1>4

\* Which readers wait, after a step of one of them.
LEMMA WaitsAfter ==
  ASSUME NEW S, NEW V, NEW before, NEW after, NEW r \in S, NEW b \in BOOLEAN,
         \A s \in S : s # r => after[s] = before[s],
         (after[r] \in V) = b
  PROVE  [s \in S |-> after[s] \in V] = [[s \in S |-> before[s] \in V] EXCEPT ![r] = b]
<1>. DEFINE f == [s \in S |-> before[s] \in V]
            g == [f EXCEPT ![r] = b]
<1>1. \A s \in S : (after[s] \in V) = g[s]
  <2>. SUFFICES ASSUME NEW s \in S
                PROVE  (after[s] \in V) = g[s]
    OBVIOUS
  <2>1. CASE s = r
    BY <2>1, Zenon
  <2>2. CASE s # r
    BY <2>2, Zenon
  <2>. QED
    BY <2>1, <2>2
<1>2. g = [s \in S |-> g[s]]
  BY Zenon
<1>3. [s \in S |-> after[s] \in V] = [s \in S |-> g[s]]
  BY <1>1, Zenon
<1>. QED
  BY <1>2, <1>3, Zenon

\* A report asks, reads the marks without showing it, and is answered when it
\* reads its item.
LEMMA ReaderMaps ==
  ASSUME TypeInv, ServiceInv, ServiceInv', NEW r \in Readers, ReaderNext(r)
  PROVE  \/ \E a \in Addr : Service!Ask(r, a)
         \/ Service!Answer(r)
         \/ Service!Leave(r)
         \/ UNCHANGED Service!vars
<1>. USE DEF TypeInv, TypeOK, ReaderSteps, chainVars, tableVars, writerVars
<1>. DEFINE waits == [s \in Readers |-> rpc[s] \in {"asked", "marked"}]
<1>1. ASSUME NEW a \in Addr, StartReport(r, a)
      PROVE  Service!Ask(r, a)
  <2>. USE <1>1 DEF StartReport
  <2>1. ~ waits[r] /\ waits' = [waits EXCEPT ![r] = TRUE]
    OBVIOUS
  <2>2. epochsAll'[r] \in SUBSET {e \in Service!Epochs : e < latest}
    BY DEF ServiceInv, ReportInv, Service!Epochs, Epochs
  <2>3. epochsAll' = [epochsAll EXCEPT ![r] = epochsAll'[r]]
    OBVIOUS
  <2>. QED
    BY <2>1, <2>2, <2>3 DEF Service!Ask
<1>2. CASE ReadMarks(r)
  <2>. USE <1>2 DEF ReadMarks
  <2>1. waits' = waits
    OBVIOUS
  <2>. QED
    BY <2>1 DEF Service!vars
<1>3. CASE ReadItem(r)
  <2>. USE <1>3 DEF ReadItem
  <2>1. waits[r] /\ waits' = [waits EXCEPT ![r] = FALSE]
    <3>1. rpc'[r] = "done" /\ \A s \in Readers : s # r => rpc'[s] = rpc[s]
      OBVIOUS
    <3>2. (rpc'[r] \in {"asked", "marked"}) = FALSE
      BY <3>1
    <3>3. waits' = [waits EXCEPT ![r] = FALSE]
      BY <3>1, <3>2, WaitsAfter, Zenon
    <3>. QED
      BY <3>3
  <2>2. out'[r] = {e \in epochsAll[r] : raddr[r] \in earned[e]}
    <3>1. rpc'[r] = "done" /\ UNCHANGED <<earned, raddr, epochsAll>>
      OBVIOUS
    <3>. HIDE DEF ReadItem, TypeInv
    <3>. QED
      BY <3>1 DEF ServiceInv, ReportExact
  <2>3. out' = [out EXCEPT ![r] = out'[r]]
    OBVIOUS
  <2>. QED
    BY <2>1, <2>2, <2>3 DEF Service!Answer
<1>4. CASE EndProcess(r)
  <2>. USE <1>4 DEF EndProcess
  <2>1. waits' = [waits EXCEPT ![r] = FALSE]
    <3>1. rpc'[r] = "idle" /\ \A s \in Readers : s # r => rpc'[s] = rpc[s]
      OBVIOUS
    <3>2. (rpc'[r] \in {"asked", "marked"}) = FALSE
      BY <3>1
    <3>. QED
      BY <3>1, <3>2, WaitsAfter, Zenon
  <2>. QED
    BY <2>1 DEF Service!Leave
<1>. QED
  BY <1>1, <1>2, <1>3, <1>4 DEF ReaderNext

LEMMA ServiceStepMaps ==
  ASSUME GoodEnvironment
  PROVE  TypeInv /\ ServiceInv /\ OrderInv /\ ServiceInv' /\ [Next]_vars
           => [Service!Next]_(Service!vars)
<1>. SUFFICES ASSUME TypeInv, ServiceInv, OrderInv, ServiceInv', [Next]_vars
              PROVE  [Service!Next]_(Service!vars)
  OBVIOUS
<1>1. CASE EpochEnds
  BY <1>1, EpochEndsMaps DEF Service!Next
<1>2. ASSUME NEW w \in Writers, WriterNext(w)
      PROVE  [Service!Next]_(Service!vars)
  BY <1>2, WriterMaps DEF Service!Next
<1>3. ASSUME NEW r \in Readers, ReaderNext(r)
      PROVE  [Service!Next]_(Service!vars)
  BY <1>3, ReaderMaps DEF Service!Next
<1>4. CASE UNCHANGED vars
  BY <1>4 DEF vars, Service!vars
<1>. QED
  BY <1>1, <1>2, <1>3, <1>4 DEF Next

\* One job and any number of reports beside it implement the service: batches,
\* copies, crashes and the two ways to answer do not show.
THEOREM ImplementsService ==
  ASSUME GoodEnvironment
  PROVE  Spec => ServiceSpec
<1>1. OneJob
  BY DEF GoodEnvironment
<1>2. Spec => [](TypeInv /\ SoundInv /\ ServiceInv /\ OrderInv)
  BY <1>1, ServiceInvariant, TypeInit, TypeStep, OrderInit, OrderStep, PTL DEF Spec
<1>. QED
  BY <1>2, ServiceInitMaps, ServiceStepMaps, PTL DEF Spec, ServiceSpec, Service!Spec

=============================================================================
