----------------------------- MODULE JobsProofs -----------------------------
(***************************************************************************)
(* Proofs about the periodic work, for every retention, every number of    *)
(* months made in advance and every dbt schedule: the partitions cover the *)
(* present month and the retained ones, and the metric of the last build   *)
(* is not set before a model has been built.  What must happen at last     *)
(* (the drift is reported, the builds come round) rests on fairness and is *)
(* left to TLC.                                                            *)
(***************************************************************************)
EXTENDS Jobs, WellFoundedInduction, TLAPS

(* The months the last successful maintenance has provided for.            *)
Provided ==
  lastGood >= 0 => lastGood <= month /\ lastGood .. lastGood + Ahead \subseteq partitions

(* Neither the results file nor the table tells of a success there was not. *)
Honest == (results = "some" \/ recorded \/ metric) => built

IInv == TypeOK /\ Provided /\ RetentionKept /\ Honest

-----------------------------------------------------------------------------
LEMMA InitHolds == Init => IInv
<1> SUFFICES ASSUME Init PROVE IInv
  OBVIOUS
<1>1. 0 .. Ahead \subseteq 0 .. MaxMonth + Ahead /\ 0 \in 0 .. MaxMonth /\ -1 \in -1 .. MaxMonth
  BY JobsAssumption
<1>2. <<"build", 0>> \in {"sleep", "build"} \X (0 .. Builds)
  BY JobsAssumption
<1>0. mayCreate \in BOOLEAN
  BY JobsAssumption DEF Init
<1>3. TypeOK
  BY <1>0, <1>1, <1>2 DEF Init, TypeOK, Job
<1>4. Provided /\ RetentionKept /\ Honest
  BY DEF Init, Provided, RetentionKept, Honest
<1> QED  BY <1>3, <1>4 DEF IInv

(* One transaction makes the months wanted and drops those too old.        *)
LEMMA MaintainKeeps ==
  ASSUME IInv, MaintainPartitions
  PROVE  IInv'
<1>1. /\ month \in Nat /\ month <= MaxMonth /\ Ahead \in Nat /\ Keep \in Nat /\ MaxMonth \in Nat
      /\ partitions \subseteq made /\ made \subseteq 0 .. MaxMonth + Ahead
  BY JobsAssumption DEF IInv, TypeOK
<1>2. /\ partitions' = (partitions \cup Wanted) \ Expired
      /\ made' = made \cup Wanted /\ lastGood' = month
      /\ wpc' = "drift" /\ due' \subseteq due
      /\ UNCHANGED <<gauge, metric, dbtVars, month, mayCreate, drift>>
  BY DEF MaintainPartitions, Stamp, Following
<1>3. Wanted \subseteq 0 .. MaxMonth + Ahead
  BY <1>1 DEF Wanted
<1>4. \A m \in Wanted : m >= month
  BY <1>1 DEF Wanted
<1>5. \A m \in Expired : m < month - Keep /\ m \in Int
  BY <1>1 DEF Expired
<1>6. TypeOK'
  <2>1. month \in -1 .. MaxMonth
    BY <1>1
  <2>2. partitions' \subseteq made' /\ made' \subseteq 0 .. MaxMonth + Ahead
    BY <1>1, <1>2, <1>3
  <2>3. due' \subseteq Job /\ wpc' \in Job \cup {"wait", "record"}
    BY <1>2 DEF IInv, TypeOK, Job
  <2> QED  BY <1>2, <2>1, <2>2, <2>3 DEF IInv, TypeOK, dbtVars
<1>7. Provided'
  <2>1. ASSUME NEW m \in month .. month + Ahead PROVE m \in partitions'
    <3>1. m \in Wanted /\ m \notin Expired
      BY <1>1, <1>5 DEF Wanted
    <3> QED  BY <1>2, <3>1
  <2> QED  BY <1>1, <1>2, <2>1 DEF Provided
<1>8. RetentionKept'
  <2>1. ASSUME NEW m \in made', m >= month - Keep PROVE m \in partitions'
    <3>1. m \notin Expired
      BY <1>1, <1>2, <1>3, <1>5, <2>1
    <3>2. m \in Wanted \/ m \in partitions
      BY <1>2, <2>1 DEF IInv, RetentionKept
    <3> QED  BY <1>2, <3>1, <3>2
  <2> QED  BY <1>2, <2>1 DEF RetentionKept
<1> QED  BY <1>2, <1>6, <1>7, <1>8 DEF IInv, Honest, dbtVars

(* The other steps of the worker and of the world leave the partitions.    *)
LEMMA WorkerKeeps ==
  ASSUME IInv,
         \/ Wake \/ (\E job \in Job : NotDue(job) \/ JobIsDue(job)) \/ SweepCarts
         \/ CheckLedgerDrift \/ RecordQuality \/ JobFails \/ Restart \/ Export \/ DriftChanges
  PROVE  IInv'
<1>1. /\ UNCHANGED <<month, partitions, made, lastGood, mayCreate>>
      /\ UNCHANGED <<dpc, dueBuild, results, recorded, built>>
  BY DEF Wake, NotDue, JobIsDue, SweepCarts, CheckLedgerDrift, RecordQuality, JobFails, Restart,
         Export, DriftChanges, monthVars, dbtVars
<1>2. /\ wpc' \in Job \cup {"wait", "record"} /\ due' \subseteq Job
      /\ drift' \in BOOLEAN /\ gauge' \in BOOLEAN
  BY DEF IInv, TypeOK, Wake, NotDue, JobIsDue, SweepCarts, CheckLedgerDrift, RecordQuality,
         JobFails, Restart, Export, DriftChanges, Stamp, Following, Job, workerVars
<1>3. metric' \in {metric, FALSE, recorded}
  BY DEF Wake, NotDue, JobIsDue, SweepCarts, CheckLedgerDrift, RecordQuality, JobFails, Restart,
         Export, DriftChanges, workerVars
<1>4. TypeOK'
  <2>1. metric' \in BOOLEAN
    BY <1>3 DEF IInv, TypeOK
  <2> QED  BY <1>1, <1>2, <2>1 DEF IInv, TypeOK
<1>5. Honest'
  BY <1>1, <1>3 DEF IInv, Honest
<1> QED  BY <1>1, <1>4, <1>5 DEF IInv, Provided, RetentionKept

(* A month begins; what is older leaves the retained range, nothing joins. *)
LEMMA MonthKeeps ==
  ASSUME IInv, NewMonth
  PROVE  IInv'
<1>1. /\ month \in Nat /\ month < MaxMonth /\ month' = month + 1 /\ MaxMonth \in Nat
      /\ Ahead \in Nat /\ Keep \in Nat /\ made \subseteq 0 .. MaxMonth + Ahead
      /\ lastGood \in -1 .. MaxMonth
      /\ UNCHANGED <<workerVars, dbtVars, partitions, made, lastGood, mayCreate, drift>>
  BY JobsAssumption DEF IInv, TypeOK, NewMonth
<1>2. month' \in 0 .. MaxMonth
  BY <1>1
<1>3. TypeOK'
  BY <1>1, <1>2 DEF IInv, TypeOK, workerVars, dbtVars
<1>4. Provided' /\ RetentionKept'
  BY <1>1 DEF IInv, Provided, RetentionKept
<1> QED  BY <1>1, <1>3, <1>4 DEF IInv, Honest, workerVars, dbtVars

(* Of entries that are due there is a first one.                           *)
LEMMA LeastEntry ==
  ASSUME NEW S \in SUBSET Nat, S # {}
  PROVE  \E i \in S : \A j \in S : i <= j
<1>1. PICK i \in S : \A j \in S : ~ (<<j, i>> \in OpToRel(<, Nat))
  BY NatLessThanWellFounded, WFMin
<1>2. ASSUME NEW j \in S PROVE i <= j
  <2>1. i \in Nat /\ j \in Nat
    OBVIOUS
  <2>2. ~ (j < i)
    BY <1>1, <2>1 DEF OpToRel
  <2> QED  BY <2>1, <2>2
<1> QED  BY <1>2

LEMMA DbtKeeps ==
  ASSUME IInv, Check \/ Build \/ \E i \in Entry : BuildIsDue(i)
  PROVE  IInv'
<1>1. UNCHANGED <<workerVars, monthVars, drift>>
  BY DEF Check, Build, BuildIsDue, Dbt
<1>2. /\ dpc \in {"sleep", "build"} \X (0 .. Builds) /\ dueBuild \subseteq Entry
      /\ Entry \subseteq 0 .. Builds
  BY JobsAssumption DEF IInv, TypeOK, Entry
<1>3. dpc' \in {"sleep", "build"} \X (0 .. Builds) /\ dueBuild' \subseteq Entry
  <2>1. CASE Check
    <3> DEFINE later == {i \in dueBuild : i > dpc[2]}
               first == CHOOSE i \in later : \A j \in later : i <= j
    <3>1. /\ dpc' = IF later = {} THEN <<"sleep", 0>> ELSE <<"build", first>>
          /\ dueBuild' = dueBuild
      BY <2>1 DEF Check
    <3>2. later # {} => first \in 0 .. Builds
      <4>1. later \subseteq Nat
        <5>1. dueBuild \subseteq Nat
          BY <1>2, JobsAssumption DEF Entry
        <5> QED  BY <5>1
      <4>2. later # {} => \E i \in later : \A j \in later : i <= j
        BY <4>1, LeastEntry
      <4> QED  BY <1>2, <4>2
    <3> HIDE DEF later, first
    <3>3. CASE later = {}
      BY <1>2, <3>1, <3>3, JobsAssumption
    <3>4. CASE later # {}
      BY <1>2, <3>1, <3>2, <3>4
    <3> QED  BY <3>3, <3>4
  <2>2. CASE Build
    <3>1. dpc[2] \in 0 .. Builds
      BY <1>2
    <3> QED  BY <1>2, <2>2, <3>1 DEF Build, Rest
  <2>3. CASE \E i \in Entry : BuildIsDue(i)
    BY <1>2, <2>3 DEF BuildIsDue
  <2> QED  BY <2>1, <2>2, <2>3
<1>4. /\ results' \in Rows \cup {"missing"}
      /\ recorded' \in BOOLEAN /\ built' \in BOOLEAN
      /\ (results' = "some" \/ recorded' \/ metric) => built'
  <2>1. CASE Check \/ \E i \in Entry : BuildIsDue(i)
    <3>1. UNCHANGED <<results, recorded, built, metric>>
      BY <2>1 DEF Check, BuildIsDue, Dbt, workerVars
    <3> QED  BY <3>1 DEF IInv, TypeOK, Honest
  <2>2. CASE Build
    <3>0. PICK run \in Rows : results' \in {run, results} /\ built' = (built \/ run = "some")
      BY <2>2 DEF Build
    <3>1. results' \in Rows \cup {"missing"} /\ built' \in BOOLEAN /\ (built => built')
      BY <3>0 DEF IInv, TypeOK
    <3>2. results' = "some" => built'
      BY <3>0, <3>1 DEF IInv, Honest
    <3>3. recorded' \in BOOLEAN /\ (recorded' => recorded \/ results' = "some")
      BY <2>2 DEF IInv, TypeOK, Build, Records
    <3>4. metric' = metric
      BY <2>2 DEF Build, Dbt, workerVars
    <3> QED  BY <3>1, <3>2, <3>3, <3>4 DEF IInv, Honest
  <2> QED  BY <2>1, <2>2
<1>5. TypeOK' /\ Honest'
  BY <1>1, <1>3, <1>4 DEF IInv, TypeOK, Honest, workerVars, monthVars
<1> QED  BY <1>1, <1>5 DEF IInv, Provided, RetentionKept, monthVars

-----------------------------------------------------------------------------
LEMMA NextKeeps == IInv /\ [Next]_vars => IInv'
<1> SUFFICES ASSUME IInv, [Next]_vars PROVE IInv'
  OBVIOUS
<1>1. CASE MaintainPartitions
  BY <1>1, MaintainKeeps
<1>2. CASE NewMonth
  BY <1>2, MonthKeeps
<1>3. CASE Check \/ Build \/ \E i \in Entry : BuildIsDue(i)
  BY <1>3, DbtKeeps
<1>4. CASE \/ Wake \/ (\E job \in Job : NotDue(job) \/ JobIsDue(job)) \/ SweepCarts
           \/ CheckLedgerDrift \/ RecordQuality \/ JobFails \/ Restart \/ Export \/ DriftChanges
  BY <1>4, WorkerKeeps
<1>5. CASE UNCHANGED vars
  BY <1>5 DEF IInv, TypeOK, Provided, RetentionKept, Honest, vars, workerVars, dbtVars, monthVars
<1> QED  BY <1>1, <1>2, <1>3, <1>4, <1>5 DEF Next, Scheduler

(* In every state of every behaviour, fair or not, the invariant holds.    *)
THEOREM Invariance == Spec => []IInv
<1> QED  BY InitHolds, NextKeeps, PTL DEF Spec

(* Every variable of the periodic work keeps its type, for every schedule. *)
THEOREM JobsTyped == Spec => []TypeOK
<1>1. IInv => TypeOK
  BY DEF IInv
<1> QED  BY <1>1, Invariance, PTL

(* drop_old_event_partitions drops no month that is to be kept, whatever   *)
(* months maintenance has missed; and a maintenance that succeeded         *)
(* provides for its month and the Ahead ones after it: if it recurs in     *)
(* that time, today has a partition.                                       *)
THEOREM PartitionsAreInPlace == Spec => []PartitionsInPlace
<1>1. IInv => MonthHasPartition
  <2> SUFFICES ASSUME IInv, lastGood >= 0, month <= lastGood + Ahead PROVE month \in partitions
    BY DEF MonthHasPartition
  <2>1. month \in Nat /\ lastGood \in Int /\ Ahead \in Nat
    BY JobsAssumption DEF IInv, TypeOK
  <2> QED  BY <2>1 DEF IInv, Provided
<1>2. IInv => PartitionsInPlace
  BY <1>1 DEF IInv, PartitionsInPlace
<1> QED  BY <1>2, Invariance, PTL

(* The worker's metric, read from a table that run_dbt.py fills from a     *)
(* results file, a row for each model, is never set before a model has     *)
(* been built: not by the file of a build in which every model failed, and *)
(* not by one that is recorded again.                                      *)
THEOREM MetricHasAModel == Spec => []MetricHasModel
<1>1. IInv => MetricHasModel
  BY DEF IInv, Honest, MetricHasModel
<1> QED  BY <1>1, Invariance, PTL
=============================================================================
