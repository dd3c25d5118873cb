-------------------------------- MODULE Jobs --------------------------------
(***************************************************************************)
(* The periodic work: the scheduler and the exporter of the worker         *)
(* (worker/main.py), the monthly partitions of raw.events it maintains     *)
(* (migration 007) and the dbt scheduler (scripts/run_dbt.py).             *)
(*                                                                         *)
(* A timer is a flag, due, that time sets at some moment after the job was *)
(* stamped.  Any statement may fail while PostgreSQL is away.              *)
(***************************************************************************)
EXTENDS Integers

CONSTANTS Ahead,      \* ensure_event_partitions(3): months made in advance
          Keep,       \* drop_old_event_partitions(25): months kept
          Builds,     \* entries of SCHEDULE in run_dbt.py, numbered from 1
          Grants,     \* whether role etl may create and drop tables in raw:
                      \* {FALSE} is what migration 001 grants it, a database
                      \* where it has been given more is TRUE
          MaxMonth    \* bound: months that pass

ASSUME JobsAssumption ==
  /\ Ahead \in Nat /\ Keep \in Nat /\ Builds \in Nat \ {0} /\ MaxMonth \in Nat
  /\ Grants \subseteq BOOLEAN

VARIABLES wpc,         \* where the scheduler thread is
          due,         \* jobs of the scheduler whose interval has passed
          drift,       \* the cached balances differ from the ledger
          gauge,       \* LEDGER_DRIFT, in the worker's memory
          month,       \* the month of now()
          partitions,  \* months raw.events has a partition for
          made,        \* history: months that ever had one
          lastGood,    \* history: month of the last maintenance, -1 for none
          mayCreate,   \* one of Grants
          dpc,         \* the dbt scheduler: <<"sleep", 0>>, or an entry it runs
          dueBuild,    \* entries whose interval has passed
          results,     \* target/run_results.json: "missing", or its rows, below
          recorded,    \* meta.dbt_runs has a row with status 'success'
          built,       \* history: some model has been built
          metric       \* MART_BUILT_AT # 0, in the worker's memory

workerVars == <<wpc, due, gauge, metric>>
dbtVars == <<dpc, dueBuild, results, recorded, built>>
monthVars == <<month, partitions, made, lastGood, mayCreate>>
vars == <<workerVars, dbtVars, monthVars, drift>>

Job == {"cart", "partitions", "drift"}
Entry == 1 .. Builds

(* The rows of a results file, one for each model: some of them tell of a  *)
(* success, whatever became of the others, or none of them does.           *)
Rows == {"some", "none"}

TypeOK ==
  /\ wpc \in Job \cup {"wait", "record"} /\ due \subseteq Job
  /\ drift \in BOOLEAN /\ gauge \in BOOLEAN /\ metric \in BOOLEAN
  /\ built \in BOOLEAN /\ recorded \in BOOLEAN
  /\ month \in 0 .. MaxMonth /\ lastGood \in -1 .. MaxMonth
  /\ partitions \subseteq made /\ made \subseteq 0 .. MaxMonth + Ahead
  /\ mayCreate \in BOOLEAN
  /\ dpc \in {"sleep", "build"} \X (0 .. Builds) /\ dueBuild \subseteq Entry
  /\ results \in Rows \cup {"missing"}

Init ==
  /\ wpc = "wait" /\ due = Job /\ gauge = FALSE /\ metric = FALSE
  /\ drift = FALSE
  /\ month = 0 /\ partitions = 0 .. Ahead /\ made = 0 .. Ahead /\ lastGood = -1
  /\ mayCreate \in Grants
  /\ dpc = <<"build", 0>> /\ dueBuild = {} /\ results = "missing"
  /\ recorded = FALSE /\ built = FALSE

-----------------------------------------------------------------------------
(* scheduler(): one pass looks at the three timers in this order.          *)
Following(job) == CASE job = "cart" -> "partitions" [] job = "partitions" -> "drift"
                    [] job = "drift" -> "wait"

Wake ==                    \* stopping.wait(30) returns
  /\ wpc = "wait" /\ wpc' = "cart"
  /\ UNCHANGED <<due, gauge, metric, dbtVars, monthVars, drift>>

NotDue(job) ==
  /\ wpc = job /\ job \notin due /\ wpc' = Following(job)
  /\ UNCHANGED <<due, gauge, metric, dbtVars, monthVars, drift>>

BugStamp(job) == due' = due \ {job} /\ wpc' = "wait"
Stamp(job) == due' = due \ {job} /\ wpc' = Following(job)

SweepCarts ==              \* sweep_abandoned_carts, modelled in Checkout
  /\ wpc = "cart" /\ "cart" \in due /\ Stamp("cart")
  /\ UNCHANGED <<gauge, metric, dbtVars, monthVars, drift>>

(* maintain_partitions: both functions in one transaction.                 *)
BugWanted == month .. month + Ahead - 1
Wanted == month .. month + Ahead
Expired == {m \in partitions : m < month - Keep}

MaintainPartitions ==
  /\ wpc = "partitions" /\ "partitions" \in due /\ Stamp("partitions")
  /\ mayCreate \/ (Wanted \subseteq partitions /\ Expired = {})
  /\ partitions' = (partitions \cup Wanted) \ Expired
  /\ made' = made \cup Wanted
  /\ lastGood' = month
  /\ UNCHANGED <<gauge, metric, dbtVars, month, mayCreate, drift>>

CheckLedgerDrift ==
  /\ wpc = "drift" /\ "drift" \in due
  /\ wpc' = "record" /\ gauge' = drift
  /\ UNCHANGED <<due, metric, dbtVars, monthVars, drift>>

RecordQuality ==           \* another transaction; only then is the job stamped
  /\ wpc = "record" /\ Stamp("drift")
  /\ UNCHANGED <<gauge, metric, dbtVars, monthVars, drift>>

(* One try block holds all three jobs: what fails ends the pass.           *)
JobFails ==
  /\ wpc \in due \cup {"record"} /\ wpc' = "wait"
  /\ UNCHANGED <<due, gauge, metric, dbtVars, monthVars, drift>>

(* The worker is killed and started again: its timers and gauges are gone. *)
Restart ==
  /\ wpc' = "wait" /\ due' = Job /\ gauge' = FALSE /\ metric' = FALSE
  /\ UNCHANGED <<dbtVars, monthVars, drift>>

(* exporter(): max(run_at) over the successful rows of meta.dbt_runs.      *)
Export ==
  /\ metric' = recorded
  /\ UNCHANGED <<wpc, due, gauge, dbtVars, monthVars, drift>>

-----------------------------------------------------------------------------
(* schedule() of run_dbt.py.  Entry 0 is the full refresh at the start.    *)
Dbt == UNCHANGED <<workerVars, monthVars, drift>>

Check ==                   \* time.sleep(5), then the entries in their order
  /\ dpc[1] = "sleep"
  /\ LET later == {i \in dueBuild : i > dpc[2]} IN
       dpc' = IF later = {} THEN <<"sleep", 0>>
              ELSE <<"build", CHOOSE i \in later : \A j \in later : i <= j>>
  /\ UNCHANGED <<dueBuild, results, recorded, built>> /\ Dbt

(* The stamp after the run, whatever became of it: _guarded swallows what  *)
(* a missing dbt or an absent PostgreSQL raises.                           *)
BugRest(i) == dpc' = <<"sleep", 0>> /\ dueBuild' = dueBuild \ {i}
Rest(i) == dpc' = <<"sleep", i>> /\ dueBuild' = dueBuild \ {i}

(* record() folds whatever file it finds into meta.dbt_runs, a row for each *)
(* model in it; the exporter reads those with status 'success'.            *)
BugRecords(file) == file # "missing"
Records(file) == file = "some"

(* subprocess.run: dbt builds its models, some of which may fail, and      *)
(* writes its results, or dies before it has written any; then they are    *)
(* recorded in one transaction, or the transaction fails.                  *)
Build ==
  /\ dpc[1] = "build" /\ Rest(dpc[2])
  /\ \E run \in Rows :
       /\ results' \in {run, results}
       /\ built' = (built \/ run = "some")
  /\ recorded' \in {recorded, recorded \/ Records(results')}
  /\ Dbt

-----------------------------------------------------------------------------
(* Time and the world outside.                                             *)
JobIsDue(job) ==
  /\ due' = due \cup {job}
  /\ UNCHANGED <<wpc, gauge, metric, dbtVars, monthVars, drift>>

BuildIsDue(i) ==
  /\ dueBuild' = dueBuild \cup {i}
  /\ UNCHANGED <<dpc, results, recorded, built>> /\ Dbt

NewMonth ==
  /\ month < MaxMonth /\ month' = month + 1
  /\ UNCHANGED <<workerVars, dbtVars, partitions, made, lastGood, mayCreate, drift>>

DriftChanges ==            \* a balance is edited outside the ledger, or repaired
  /\ drift' = ~drift
  /\ UNCHANGED <<workerVars, dbtVars, monthVars>>

Scheduler == Wake \/ (\E job \in Job : NotDue(job)) \/ SweepCarts \/ MaintainPartitions
             \/ CheckLedgerDrift \/ RecordQuality
Next ==
  \/ Scheduler \/ JobFails \/ Restart \/ Export
  \/ Check \/ Build
  \/ \E job \in Job : JobIsDue(job)
  \/ \E i \in Entry : BuildIsDue(i)
  \/ NewMonth \/ DriftChanges

Spec == Init /\ [][Next]_vars

(* Threads run and time passes.  A job that is tried again and again, and  *)
(* that the grants allow, succeeds at last: PostgreSQL is not away for     *)
(* ever.  One they do not allow fails.                                     *)
FairSpec ==
  /\ Spec
  /\ WF_vars(Wake) /\ \A job \in Job : WF_vars(NotDue(job)) /\ WF_vars(JobIsDue(job))
  /\ SF_vars(SweepCarts) /\ SF_vars(MaintainPartitions) /\ SF_vars(CheckLedgerDrift)
  /\ WF_vars(RecordQuality) /\ WF_vars(JobFails)
  /\ WF_vars(Check) /\ WF_vars(Build)
  /\ \A i \in Entry : WF_vars(BuildIsDue(i))

-----------------------------------------------------------------------------
(* While maintenance succeeds at least every Ahead months, the month of    *)
(* now() has a partition, so the loader can store today's events.          *)
MonthHasPartition == lastGood >= 0 /\ month <= lastGood + Ahead => month \in partitions

(* raw.events keeps every month it ever had for Keep months.               *)
RetentionKept == \A m \in made : m >= month - Keep => m \in partitions

(* Partition maintenance, whatever months it misses, neither leaves the    *)
(* loader without a partition nor drops events that are to be kept.        *)
PartitionsInPlace == MonthHasPartition /\ RetentionKept

(* fo_mart_last_build_timestamp is never set before a model has been       *)
(* built, whatever results file a failed run has left behind and however   *)
(* often that file is recorded again.  That is all it tells: the file of a *)
(* failed build may hold models that were built.                           *)
MetricHasModel == metric => built

(* The transaction of maintain_partitions has something to do that role    *)
(* etl may not do.                                                         *)
Stalled == ~mayCreate /\ ~(Wanted \subseteq partitions /\ Expired = {})

(* A ledger drift that lasts is on the gauge at last, through failing jobs *)
(* and restarts, unless maintenance, which comes before the drift check in *)
(* the same try block, has come to fail for ever.                          *)
DriftIsReported == drift ~> (gauge \/ ~drift \/ Stalled)

(* "The worker checks hourly and it pages" (docs/ARCHITECTURE.md:78): so   *)
(* with no exception, at least by a worker that stays up.  With the grants *)
(* of migration 001 it does not: from the first change of the month on,    *)
(* maintenance fails in every pass.                                        *)
StaysUp == <>[][~Restart]_vars
DriftPages == StaysUp => (drift ~> (gauge \/ ~drift))

(* Every entry of the dbt schedule runs again and again: a failed build    *)
(* stops neither the scheduler nor the entries after it (_guarded).        *)
BuildsComeRound == \A i \in Entry : []<>(dpc = <<"build", i>>)
=============================================================================
