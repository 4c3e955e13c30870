---------------------------- MODULE ProbeExecutor ----------------------------
(***************************************************************************)
(* PlannedExperiment.run (execution/probes.py): the executor of a frozen   *)
(* plan, together with the safety monitor thread and the plan's wall-clock *)
(* budget that may stop it at any moment.                                  *)
(*                                                                         *)
(* The main thread scans the tasks in plan order, accounts for the tasks   *)
(* that may not run, gathers a wave of compatible tasks, submits it to a   *)
(* thread pool and waits for the whole wave before it scans again.         *)
(* Every read of stop() is a step of its own: the monitor and the clock    *)
(* can change its answer between two reads of one pass.                    *)
(***************************************************************************)
EXTENDS Naturals, FiniteSets

CONSTANTS
  N,            \* number of tasks; a task is its position in plan.tasks
  Plans,        \* the frozen plans under study
  Services      \* HTTP claims, "http:<service>"

Task == 1..N

Capabilities ==
  {"http_service", "cpu_load", "resource_sample", "dns_observation", "pod_recovery"}

Exclusive == "exclusive-product"

\* EvaluationPlan, as far as the executor reads it.
PlanType ==
  [depends_on : [Task -> SUBSET Task],
   when       : [Task -> {"completed", "passed", "failed"}],
   capability : [Task -> Capabilities],
   service    : [Task -> Services],       \* read for http_service only
   max_parallel_tasks : 1..4]

\* The dependency relation has a rank function, that is, no cycle.
Acyclic(deps) ==
  \E rank \in [Task -> Task] : \A t \in Task : \A d \in deps[t] : rank[d] < rank[t]

\* EvaluationPlan.valid_graph: conditional tasks have dependencies, no cycle.
ValidPlan(p) ==
  /\ p \in PlanType
  /\ \A t \in Task : p.when[t] # "completed" => p.depends_on[t] # {}
  /\ Acyclic(p.depends_on)

ASSUME NAssumption == N \in Nat \ {0}
ASSUME ServicesAssumption == Services \cap {Exclusive, "cpu-load"} = {}
ASSUME PlansAssumption == \A p \in Plans : ValidPlan(p)

VARIABLES
  plan,          \* the frozen plan: never assigned after Init
  metrics_error, \* configure_runtime: Metrics API was not usable
  monitor,       \* SafetyMonitor: infrastructure_error, triggered, reason
  expired,       \* budget.max_elapsed_seconds have passed
  cancelled,     \* the Event shared by the workers of this run
  pc, cursor,    \* main thread: where it is, which task it looks at
  ready,         \* the wave being gathered, then awaited
  draft,         \* locals of the skip path: infrastructure_error, cancelled=
  executed,      \* keys of the executions dictionary
  worker,        \* run_task of each task
  result         \* check status and assessment, TaskExecution.state

environment == <<monitor, expired>>
main == <<pc, cursor, ready, draft, executed>>
vars == <<plan, metrics_error, environment, cancelled, main, worker, result>>

ExecutionStatus == {"completed", "infrastructure_failure", "cancelled"}
Assessment == {"pass", "fail", "unsettled", "not_tested"}
TaskState == ExecutionStatus \cup {"skipped"}
NoResult == [status |-> "none", assessment |-> "none", state |-> "none"]
Result == [status : ExecutionStatus, assessment : Assessment, state : TaskState]

\* run_task: the execution's state is its check's status.
Ran(status, assessment) ==
  [status |-> status, assessment |-> assessment, state |-> status]

\* "unsettled" is warning, inconclusive or not_applicable.
Verdicts(t) ==
  CASE plan.capability[t] \in {"http_service", "cpu_load"} -> {"pass", "fail"}
    [] plan.capability[t] = "dns_observation" -> {"pass", "unsettled"}
    [] OTHER -> {"pass", "fail", "unsettled"}

RequiresMetrics(t) == plan.capability[t] \in {"cpu_load", "resource_sample"}

\* observe_dns is the one probe that never asks whether it is cancelled.
PollsCancel(t) == plan.capability[t] # "dns_observation"

Claims(t) ==
  CASE plan.capability[t] = "pod_recovery" -> {Exclusive}
    [] plan.capability[t] = "cpu_load" -> {"cpu-load"}
    [] plan.capability[t] = "http_service" -> {plan.service[t]}
    [] OTHER -> {}

\* SafetyMonitor sets infrastructure_error before triggered: "failing" is between.
Triggered == monitor \in {"violation", "failed"}
InfrastructureError == monitor \in {"failing", "failed"}

Stop == cancelled \/ Triggered \/ expired

\* Slips: a skipped dependency counts as completed; anything but FAIL passes.
SlipSkippedCounts(t) ==
  LET deps == plan.depends_on[t]
  IN  /\ \A d \in deps : result[d].status = "completed"
      /\ plan.when[t] = "passed" => \A d \in deps : result[d].assessment = "pass"
      /\ plan.when[t] = "failed" => \E d \in deps : result[d].assessment = "fail"

SlipUnsettledPasses(t) ==
  LET deps == plan.depends_on[t]
  IN  /\ \A d \in deps : /\ result[d].status = "completed"
                         /\ result[d].assessment # "not_tested"
      /\ plan.when[t] = "passed" => \A d \in deps : result[d].assessment # "fail"
      /\ plan.when[t] = "failed" => \E d \in deps : result[d].assessment = "fail"

Eligible(t) ==
  LET deps == plan.depends_on[t]
  IN  /\ \A d \in deps : /\ result[d].status = "completed"
                         /\ result[d].assessment # "not_tested"
      /\ plan.when[t] = "passed" => \A d \in deps : result[d].assessment = "pass"
      /\ plan.when[t] = "failed" => \E d \in deps : result[d].assessment = "fail"

\* The scan looks at t: not accounted for yet, every dependency is.
Pending(t) == t \notin executed /\ plan.depends_on[t] \subseteq executed

\* Slip: a recovery probe already in the wave does not keep others out.
SlipJoinsRecovery(t, wave) ==
  wave # {} /\ (Exclusive \in Claims(t) \/ Claims(t) \cap UNION {Claims(u) : u \in wave} # {})

\* t may not join the wave.
Conflicts(t, wave) ==
  LET claims == UNION {Claims(u) : u \in wave}
  IN  /\ wave # {}
      /\ Exclusive \in claims \cup Claims(t) \/ Claims(t) \cap claims # {}

Init ==
  /\ plan \in Plans
  /\ metrics_error \in BOOLEAN
  /\ monitor = "watching"
  /\ expired = FALSE
  /\ cancelled = FALSE
  /\ pc = "scan" /\ cursor = 1
  /\ ready = {}
  /\ draft = [infrastructure |-> FALSE, cancelled |-> FALSE]
  /\ executed = {}
  /\ worker = [t \in Task |-> "idle"]
  /\ result = [t \in Task |-> NoResult]

-----------------------------------------------------------------------------
(* The environment: SafetyMonitor._watch and the clock.                      *)

Running == pc \notin {"done", "raised"}

\* A Pod matches a rule nobody approved.
MonitorMatches ==
  /\ Running /\ monitor = "watching"
  /\ monitor' = "violation"
  /\ UNCHANGED <<plan, metrics_error, expired, cancelled, main, worker, result>>

\* The poll raises: first the flag, then the event.
MonitorFails ==
  /\ Running
  /\ \/ monitor = "watching" /\ monitor' = "failing"
     \/ monitor = "failing" /\ monitor' = "failed"
  /\ UNCHANGED <<plan, metrics_error, expired, cancelled, main, worker, result>>

Expire ==
  /\ Running /\ ~expired
  /\ expired' = TRUE
  /\ UNCHANGED <<plan, metrics_error, monitor, cancelled, main, worker, result>>

-----------------------------------------------------------------------------
(* The main thread.                                                          *)

Scanning == pc = "scan" /\ cursor \in Task

ScanPast ==
  /\ Scanning /\ ~Pending(cursor)
  /\ cursor' = cursor + 1
  /\ UNCHANGED <<pc, ready, draft, executed, worker, result>>

\* First read of stop(): a reason not to run the task.
ScanRefuse ==
  /\ Scanning /\ Pending(cursor)
  /\ Stop \/ ~Eligible(cursor)
  /\ pc' = "classify"
  /\ UNCHANGED <<cursor, ready, draft, executed, worker, result>>

ScanDefer ==
  /\ Scanning /\ Pending(cursor)
  /\ ~Stop /\ Eligible(cursor) /\ Conflicts(cursor, ready)
  /\ cursor' = cursor + 1
  /\ UNCHANGED <<pc, ready, draft, executed, worker, result>>

\* The task joins the wave; a full wave ends the scan.
ScanTake ==
  /\ Scanning /\ Pending(cursor)
  /\ ~Stop /\ Eligible(cursor) /\ ~Conflicts(cursor, ready)
  /\ ready' = ready \cup {cursor}
  /\ cursor' = IF Cardinality(ready') >= plan.max_parallel_tasks THEN N + 1 ELSE cursor + 1
  /\ UNCHANGED <<pc, draft, executed, worker, result>>

\* Slip: the monitor's flag is read without asking whether the run stopped.
SlipClassifyByFlag ==
  /\ pc = "classify"
  /\ draft' = [draft EXCEPT !.infrastructure = InfrastructureError]
  /\ pc' = "check"
  /\ UNCHANGED <<cursor, ready, executed, worker, result>>

\* Second read: is the reason the monitor's own failure?
ClassifyRefusal ==
  /\ pc = "classify"
  /\ draft' = [draft EXCEPT !.infrastructure = Stop /\ InfrastructureError]
  /\ pc' = "check"
  /\ UNCHANGED <<cursor, ready, executed, worker, result>>

\* Third read: the status of the check.
WriteRefusedCheck ==
  /\ pc = "check"
  /\ draft' = [draft EXCEPT !.cancelled = Stop /\ ~draft.infrastructure]
  /\ pc' = "state"
  /\ UNCHANGED <<cursor, ready, executed, worker, result>>

\* Slip: the key is not written.
SlipRecordWithoutKey ==
  /\ pc = "state"
  /\ pc' = "scan" /\ cursor' = cursor + 1
  /\ UNCHANGED <<ready, draft, executed, worker, result>>

\* Fourth read: the state of the execution.
RefusedResult ==
  [status |-> IF draft.infrastructure THEN "infrastructure_failure"
              ELSE IF draft.cancelled THEN "cancelled" ELSE "completed",
   assessment |-> "not_tested",
   state |-> IF draft.infrastructure THEN "infrastructure_failure"
             ELSE IF Stop THEN "cancelled" ELSE "skipped"]

RecordRefusal ==
  /\ pc = "state"
  /\ result' = [result EXCEPT ![cursor] = RefusedResult]
  /\ executed' = executed \cup {cursor}
  /\ pc' = "scan" /\ cursor' = cursor + 1
  /\ UNCHANGED <<ready, draft, worker>>

Submit ==
  /\ pc = "scan" /\ cursor = N + 1
  /\ worker' = [t \in Task |-> IF t \in ready THEN "queued" ELSE worker[t]]
  /\ pc' = "await"
  /\ UNCHANGED <<cursor, ready, draft, executed, result>>

\* Slip: the first future that completes releases the wave.
SlipCollectFirst ==
  /\ pc = "await" /\ \E t \in ready : worker[t] = "finished"
  /\ executed' = executed \cup ready
  /\ ready' = {}
  /\ cursor' = 1
  /\ pc' = IF executed' = Task THEN "done" ELSE "scan"
  /\ UNCHANGED <<draft, worker, result>>

\* Every future of the wave has a result: record them, test the loop condition.
Collect ==
  /\ pc = "await" /\ \A t \in ready : worker[t] = "finished"
  /\ executed' = executed \cup ready
  /\ ready' = {}
  /\ cursor' = 1
  /\ pc' = IF executed' = Task THEN "done" ELSE "scan"
  /\ UNCHANGED <<draft, worker, result>>

\* A future holds an exception: it leaves run() once the pool has drained.
CollectException ==
  /\ pc = "await" /\ \A t \in ready : worker[t] \in {"finished", "raised"}
  /\ \E t \in ready : worker[t] = "raised"
  /\ pc' = "raised"
  /\ UNCHANGED <<cursor, ready, draft, executed, worker, result>>

Main ==
  /\ \/ ScanPast \/ ScanRefuse \/ ScanDefer \/ ScanTake
     \/ ClassifyRefusal \/ WriteRefusedCheck \/ RecordRefusal
     \/ Submit \/ Collect \/ CollectException
  /\ UNCHANGED <<plan, metrics_error, environment, cancelled>>

-----------------------------------------------------------------------------
(* run_task, in a thread of the pool.                                        *)

Finish(t, status, assessment) ==
  /\ worker' = [worker EXCEPT ![t] = "finished"]
  /\ result' = [result EXCEPT ![t] = Ran(status, assessment)]
  /\ UNCHANGED cancelled

Move(t, to) ==
  /\ worker' = [worker EXCEPT ![t] = to]
  /\ UNCHANGED <<cancelled, result>>

\* except UnsafeWorkloadError: cancelled.set() comes first.
Cancel(t) ==
  /\ cancelled' = TRUE
  /\ worker' = [worker EXCEPT ![t] = "unsafe"]
  /\ UNCHANGED result

\* Slip: a queued task does not ask stop() when its thread picks it up.
SlipBeginUnasked(t) == worker[t] = "queued" /\ Move(t, "asked")

\* A thread picks t up and asks stop().
Begin(t) ==
  /\ worker[t] = "queued"
  /\ \/ Stop /\ Cancel(t)
     \/ ~Stop /\ Move(t, "asked")

\* It starts the probe on that answer, however old it is by then.
Start(t) ==
  /\ worker[t] = "asked"
  /\ IF RequiresMetrics(t) /\ metrics_error
     THEN Finish(t, "infrastructure_failure", "not_tested")
     ELSE Move(t, "performing")

\* _perform returns evidence, or KubernetesError, OSError or ValueError is
\* caught, or an exception of another type escapes run_task.
PerformEnds(t) ==
  /\ worker[t] = "performing"
  /\ \/ \E v \in Verdicts(t) : Finish(t, "completed", v)
     \/ Finish(t, "infrastructure_failure", "not_tested")
     \/ Move(t, "raised")

PerformCancelled(t) ==
  /\ worker[t] = "performing"
  /\ PollsCancel(t) /\ Stop
  /\ Cancel(t)

\* The rest of the handler: whose fault was it?
ReportUnsafe(t) ==
  /\ worker[t] = "unsafe"
  /\ Finish(t, IF InfrastructureError THEN "infrastructure_failure" ELSE "cancelled",
            "not_tested")

Worker(t) ==
  /\ Begin(t) \/ Start(t) \/ PerformEnds(t) \/ PerformCancelled(t) \/ ReportUnsafe(t)
  /\ UNCHANGED <<plan, metrics_error, environment, main>>

-----------------------------------------------------------------------------
Terminated == ~Running /\ UNCHANGED vars

Next ==
  \/ MonitorMatches \/ MonitorFails \/ Expire
  \/ Main
  \/ \E t \in Task : Worker(t)
  \/ Terminated

\* Threads run, and each probe is bounded by its own deadlines.
Fairness == WF_vars(Main) /\ \A t \in Task : WF_vars(Worker(t))

Spec == Init /\ [][Next]_vars /\ Fairness

-----------------------------------------------------------------------------
(* Properties.                                                               *)

TypeOK ==
  /\ plan \in Plans
  /\ metrics_error \in BOOLEAN
  /\ monitor \in {"watching", "violation", "failing", "failed"}
  /\ expired \in BOOLEAN
  /\ cancelled \in BOOLEAN
  /\ pc \in {"scan", "classify", "check", "state", "await", "done", "raised"}
  /\ cursor \in 1..N + 1
  /\ ready \subseteq Task
  /\ draft \in [infrastructure : BOOLEAN, cancelled : BOOLEAN]
  /\ executed \subseteq Task
  /\ worker \in [Task -> {"idle", "queued", "asked", "performing", "unsafe",
                       "finished", "raised"}]
  /\ result \in [Task -> Result \cup {NoResult}]

\* A thread of the pool is inside run_task for t.
Active(t) == worker[t] \in {"queued", "asked", "performing", "unsafe"}

\* Probes that run together never hold a claim in common, a recovery probe
\* runs alone, and there are never more than the plan allows (_claims and the
\* wave built by run()).
NoConflictingProbes ==
  LET wave == {t \in Task : Active(t)}
  IN  /\ Cardinality(wave) <= plan.max_parallel_tasks
      /\ \A t, u \in wave :
           t # u => Exclusive \notin Claims(t) /\ Claims(t) \cap Claims(u) = {}

\* A worker has touched t only if every dependency of t was recorded and left
\* the evidence t's condition asks for (the eligibility test of run()).
RunsOnlyWhenEligible ==
  \A t \in Task : worker[t] # "idle" => plan.depends_on[t] \subseteq executed /\ Eligible(t)

\* A check other than not_tested was produced by a probe that ran to its end
\* on dependencies that all were: no verdict comes out of a skip, a
\* cancellation or an infrastructure failure.
VerdictsAreMeasured ==
  \A t \in Task : result[t].assessment \notin {"none", "not_tested"} =>
    /\ worker[t] = "finished"
    /\ result[t].status = "completed" /\ result[t].state = "completed"
    /\ \A d \in plan.depends_on[t] : result[d].assessment \notin {"none", "not_tested"}

\* What is written about a task that did not run has its cause: "skipped"
\* means that its condition does not hold, "cancelled" that the run was
\* stopped, an infrastructure failure that the monitor failed - although the
\* four reads of stop() on that path may disagree.
RefusalsHaveACause ==
  \A t \in executed : worker[t] = "idle" =>
    /\ result[t].state = "skipped" => ~Eligible(t) /\ result[t].status # "infrastructure_failure"
    /\ result[t].state = "cancelled" => Stop
    /\ result[t].state = "infrastructure_failure" => InfrastructureError /\ Stop
    /\ result[t].state # "completed" /\ result[t].assessment = "not_tested"

\* When run() returns, every task of the plan has one execution and one check,
\* and no thread is still working on the cluster.
EveryTaskAccounted ==
  pc = "done" => \A t \in Task : ~Active(t) /\ t \in executed /\ result[t] # NoResult

\* Probes that have passed the stop() test at the head of run_task.
Underway == {t \in Task : worker[t] \in {"asked", "performing"}}

\* Once one task is reported cancelled, no thread passes the stop() test any
\* more, not even for a task that already waits in the pool.  What still starts
\* after that report had asked before it: the probes under way only get fewer.
NoneAdmittedAfterCancellation ==
  [][(\E t \in Task : result[t].state = "cancelled") => Underway' \subseteq Underway]_vars

\* What is recorded of a task is final: later waves and late threads do not
\* write it again.
RecordedOnce == [][\A t \in executed : result'[t] = result[t] /\ worker'[t] = worker[t]]_vars

\* The run ends: every scan accounts for a task or submits one.
Terminates == <>(pc \in {"done", "raised"})

\* What a reader of the evidence sees of the run.
Seen(t) == IF result[t] = NoResult THEN "pending" ELSE result[t].assessment
Held(t) == Active(t) \/ worker[t] = "raised"

AbstractPlan ==
  [depends_on |-> plan.depends_on, when |-> plan.when,
   claims |-> [t \in Task |-> Claims(t)], max_parallel |-> plan.max_parallel_tasks]

PR == INSTANCE PlanRun WITH
        plan <- AbstractPlan,
        verdict <- [t \in Task |-> Seen(t)],
        running <- {t \in Task : Held(t)}

\* The executor keeps the promises of a plan's run (PlanRun).
ImplementsPlanRun == PR!Spec

-----------------------------------------------------------------------------
(* The inductive invariant behind the theorems of ProbeExecutorProofs.       *)

MainAlone == pc \in {"scan", "classify", "check", "state"}

\* What is recorded, and by whom, agrees with where each task is.
BookkeepingInv ==
  \A t \in Task :
    /\ worker[t] = "idle" => (result[t] # NoResult <=> t \in executed)
    /\ worker[t] = "finished" => result[t] # NoResult /\ t \in executed \cup ready
    /\ worker[t] \in {"queued", "asked", "performing", "unsafe", "raised"} =>
         result[t] = NoResult /\ t \in ready /\ pc \in {"await", "raised"}
    /\ t \in executed => worker[t] \in {"idle", "finished"}
    /\ t \in executed => plan.depends_on[t] \subseteq executed
    /\ result[t].status # "completed" => result[t].assessment \in {"none", "not_tested"}

\* The wave, while the main thread gathers it and while the pool runs it.
WaveInv ==
  /\ \A t \in ready :
       /\ t \notin executed /\ plan.depends_on[t] \subseteq executed
       /\ Eligible(t)
       /\ MainAlone => worker[t] = "idle" /\ t < cursor
       /\ pc \in {"await", "raised"} => worker[t] # "idle"
  /\ \A t, u \in ready :
       t # u => Exclusive \notin Claims(t) /\ Claims(t) \cap Claims(u) = {}
  /\ Cardinality(ready) <= plan.max_parallel_tasks
  /\ MainAlone /\ cursor \in Task => Cardinality(ready) < plan.max_parallel_tasks
  /\ pc = "done" => ready = {} /\ executed = Task

\* What the reads of stop() so far imply; a stopped run stays stopped.
RefusalInv ==
  /\ pc \in {"classify", "check", "state"} =>
       cursor \in Task /\ Pending(cursor) /\ (Stop \/ ~Eligible(cursor))
  /\ pc \in {"check", "state"} /\ draft.infrastructure => Stop /\ InfrastructureError
  /\ pc = "state" /\ draft.cancelled => Stop
  /\ \A t \in Task : worker[t] = "unsafe" => cancelled
  /\ \A t \in Task : result[t].state = "cancelled" => Stop

IInv ==
  /\ TypeOK /\ BookkeepingInv /\ WaveInv /\ RefusalInv
  /\ RunsOnlyWhenEligible /\ VerdictsAreMeasured /\ RefusalsHaveACause

-----------------------------------------------------------------------------
(* Statements of the repository's tests and README that the code does not    *)
(* keep in every interleaving.                                               *)

\* A task's check is CANCELLED exactly when its execution is "cancelled"
\* (tests/execution/test_plans.py, test_cancellation_accounts_for_every_task).
CheckAgreesWithState ==
  \A t \in Task : result[t].status = "cancelled" <=> result[t].state = "cancelled"
=============================================================================
