# kubeproof in TLA+

kubeproof renders a Helm chart, decides whether it may run on the local
machine, installs it in a disposable kind cluster, probes it along a frozen
plan, and keeps the evidence in an immutable bundle and a local history that a
small web server shows. The modules here model the parts of `src/src/kubeproof`
where order, concurrency and failure decide whether that evidence can be
believed. `PROJECT.json` names, for each definition, the lines it stands for.

Contents: [inventory](#inventory), [modules](#modules), [runs](#runs),
[fairness](#fairness), [theorems](#theorems),
[where code and documents disagree](#where-code-and-documents-disagree),
[what is not modelled](#what-is-not-modelled), [plan](#plan).

## Inventory

Paths are relative to `src/src/kubeproof`.

| Component | State it keeps | Operations | Hard behaviour | What makes it correct |
|---|---|---|---|---|
| **Plan executor** `execution/probes.py`, `core/plans.py` | the `executions`, the wave, the `cancelled` event | `PlannedExperiment.run`, `run_task`, `not_run` | a pool of workers beside a monitor thread and a clock that change the answer of `stop()` between two reads; futures that raise | compatible waves; verdicts only from probes that ran on evidence; one account per task; no worker that asks after a cancellation starts its probe; it ends |
| **Runtime lifecycle** `execution/runtime.py` | evidence checks, errors, the cluster | `run_runtime` and its handlers, `_cleanup_runtime` | every call can raise, three classes of exception, a `finally` block | every check reported, measurements survive handlers, a run that returns has disposed of its cluster or says it could not |
| **Safety monitor** `execution/runtime_monitor.py` | an event, a failure flag, a thread | `start`, `_watch`, `stop` | flag and event are two writes, read in the other order; a join that times out | a failed monitor is never blamed on the product; the product is watched from the install until the `finally` block |
| **Metrics collector** `execution/runtime_monitor.py` | snapshots, known instrument Pods, an error, a thread | `start`, `_collect`, `stop` | two reads that disagree, a metrics server that lags, a limit of 120, a join that times out | no verdict from a collector that failed; instruments never count as the product |
| **Runtime checks** `execution/runtime_checks.py` | none | resources, DNS, recovery | readings that arrive late or of other Pods | not tested is not a pass |
| **HTTP service experiment** `execution/http_service.py`, `service_probe.py` | a Job and its Pod in the product's namespace | `prepare`, `run`, `run_service_probe` | cancellation while the Job runs; a creation carried out after it timed out; a deletion whose failure is suppressed | an unsafe or failed probe measures nothing; no Job is left |
| **CPU trial** `execution/cpu_worker.py`, `cpu_live.py`, `benchmarks/cpu_http/load.py` | sampler thread, load pool, port-forward | `execute`, `run_load`, the pilot's retries | a sampler that fails or hangs beside the load; a Pod that goes; cancellation with requests in flight | requests add up; a goal is met by fresh samples of one Pod; nothing outlives the port-forward; it ends |
| **Bundle history** `evidence/history.py` | bundle directory, SQLite index | `put`, `discover`, `upsert`, `mark_missing_except`, `import_bundle`, `sync` | several processes, no lock, crashes | immutable store, an index that can be rebuilt |
| **Bundle writer** `evidence/bundle.py` | output directory, a temporary one | `write_bundle`, `verify_bundle` | two writers of one output, failures and kills half way | one whole bundle or none |
| **Evaluation and admission** `application/service.py`, `core/safety.py` | one evaluation | `inspect_chart`, `decide_local_admission` | one archive read four times over minutes | only what was admitted, or approved as reviewed, is installed |
| **Job managers and server** `interfaces/chart_jobs.py`, `live_jobs.py`, `web.py` | jobs and directories, two one-thread pools, one run lock | `prepare`, `approve`, `_run`, `close` | HTTP threads, two workers and the closing main thread | one run at a time, of what was reviewed, in a directory that is there; accepted jobs are served |
| **Adaptive workflow** `intelligence/workflow.py`, `control.py` | plan, records, two counters | plan, coordinate and execute nodes | parallel workers, retries, revisions, any proposal of a model | budgets hold, history is kept, the outcome is what the records say, it ends |
| **Helm and Kubernetes clients** | none | subprocess and API calls | time-outs | their callers account for every outcome |
| **Static analysis, comparison, report, model access, command line, front end** | none | pure functions, I/O | — | — |

How they meet: the web server's managers call `inspect_chart`; it calls
`run_runtime`, which starts the monitor and hands its event to the experiment
(a `PlannedExperiment` for a frozen plan); `inspect_chart` writes the bundle;
the manager imports it in the history, which a sync of another thread or
process rebuilds from the store. The monitor and the executor share the event
and the flag; the collector watches the namespace in which the HTTP probe's Job
runs; the CPU trial's sampler reads beside its load; the managers share the run
lock; importers and syncers share the directory and the database; evaluations share chart path and output directory.

The hazards this leads to are listed, each at its line, in `PROJECT.json`.

## Modules

### PlanRun, ProbeExecutor

`ProbeExecutor` is `PlannedExperiment.run` with its environment. `pc` is where
the main thread is: it scans the tasks at `cursor`, gathers a wave (`ready`),
submits it and awaits all of it. `worker[t]` is `run_task` in a pool thread and
`result[t]` is what it or the refusal path leaves: the check's status and
assessment and the state of the task's execution. Every call of `stop()` is a
step of its own. The four on the refusal path (`ScanRefuse`, `ClassifyRefusal`,
`WriteRefusedCheck`, `RecordRefusal`) may therefore get four answers. A worker
asks once (`Begin`) and enters its probe later (`Start`): a probe whose worker asked
before another task was cancelled still starts, and `NoneAdmittedAfterCancellation`
is only about the workers that have not asked. The
monitor can see a violation, or fail in two writes, and the budget can expire,
between any two steps. A capability is the verdicts it can return, whether it
needs metrics, whether it asks for cancellation, and what it claims.

`PlanRun` is what a frozen plan promises to a reader of the evidence: tasks
launch when their condition holds, in compatible sets, settle once, or are
skipped. `ImplementsPlanRun` maps a finished result to its verdict, and threads
in the pool (or that raised) to running tasks. `Submit` becomes `Launch`, the
end of a worker `Settle`, `RecordRefusal` a `Skip`; all else stutters.

### RuntimeLifecycle

`run_runtime` from `create` to `returned` or `raised`. One action stands for each
statement that can raise or that a handler can tell apart; `raised` is the
class of exception in flight (`unsafe`, `infrastructure`, and `other` for those
nobody catches). `checks`, `trial` and `execution` are the evidence; `teardown`
is what the cleanup will say. The monitor's thread, which may also outlive its
join, and Pods that vanish some time after their controllers run beside it. A
collector whose join timed out is `stuck` until its call returns (`CollectorEnds`).
The `finally` block is one action for each call that can raise there: `StopMonitor`
and `StopCollector` (the join of a thread that could not be started raises),
`Uninstall` (an `OSError` of helm's temporary directory), `AwaitPods` (a transport
error) and `DeleteCluster`, which the removal of the kubeconfig's directory is part
of; `Escape` leaves the block. Pods that are left at the deadline are `leftovers` and no
cleanup error. The readings of samples, logs and Pods are a choice of result.

### ServiceProbe, ResourceCheck

`ServiceProbe` is `run` of the HTTP experiment and `run_service_probe`, call by
call. `job` and `pod` are what the cluster has of the probe, `creating` a
creation whose caller gave up. A call on the Job can fail without effect, fail
after it took effect, or (the creation) take effect later than the deletion in the
`finally` block. The manifest's deadline and time to live are the cluster's own
actions (`JobDeadline`, `JobExpires`).

`ResourceCheck` puts the metrics collector beside it, in the namespace they
share, and goes on to `measure_resources`. The collector lists Pods in one step
and reads metrics in the next; `served` is what the metrics server would answer,
with readings of Pods that are gone and none of new ones; the product's Pod may be
replaced under its name. `Samples` are the readings `measure_resources` observes,
those of a listed Pod that come first of their identity; `Assessment` judges
them. What is left out of a snapshot are the instruments seen so far (`known`).

`ResourceCheck` details one stretch of `RuntimeLifecycle`, from a product that is
ready to the verdict, and implements it (`ImplementsRuntimeLifecycle`): the
probe's calls are the inside of `RunService`, the stop and the join of the
collector of `HoldSteadyState`, a thread that ends after its join timed out is
`CollectorEnds`, and a violation leads to the handler that cancels the rest. This
collector runs beside a service experiment that is given to `run_runtime` as its
`experiment` parameter; the served path passes a plan, whose resource tasks have a
collector of their own (`probes.py:408`) that is stopped and read in the same order. The mapping starts where
`RuntimeLifecycle` has already come to, so it is stated of steps and not of initial
states.

### CpuTrial

The main thread (`pc`) runs the pilot of `cpu_live.py`, `execute` and `run_load`;
`sampler` is the thread beside it. Requests are counted by where they are:
`flying` in the pool, `landed` in done futures that the loop has not collected,
`results`. The Pod may go, the metrics server may read it before or after the load
began (`fresh`), and the monitor may ask for cancellation, between any two
steps. `late` counts requests sent after that. Figures of latency and throughput
are one choice. A `KubernetesError` of the way into a trial is retried; a transport
error of the client is none and leaves the pilot without a record (`raised`). The
pilot, `_run_pilot`, is called by tests only: the served path calls `execute` once for
each CPU task of a plan and judges the result itself (`probes.py:303`), so what is said
here of one attempt holds there, and what is said of retries does not arise.

### History

Importers and syncers step through `import_bundle` and `sync` one file or row
at a time. `store` is the directory of complete bundles, `temp` and `orphan` the
hidden temporary directories, `index` the table. A process can die between any
two steps; a stored bundle with a `Deletable` id may be removed or spoiled by an
operator (`Damaged`), and a sync that meets a spoiled bundle is refused; hidden
temporary directories are skipped. A bundle is an id and a content.

### LiveRuns

Both managers under one server. `status` and `directory` are a job's, `queue`
and `worker` each one-thread pool's, `runLock` is shared. `prepare` is two steps
(the preview renders outside the lock), `approve` one (it holds the lock), and a
run is as many as it has reads or writes others can see. `main` is the `finally`
block of `serve_history`, which closes the managers one after the other while
handlers still run.

### AdaptiveWorkflow

The plan, coordinate and execute nodes, with the rules of `control.py` as
operators. The model's reply is any member of `Proposals`, or none that parses;
workers of a superstep write `reply`, which merges when all have returned and is
lost when one raises. This is the repository's adaptive CPU prototype; the
served path executes frozen plans. `validate_records` raising, and an execute
node without a plan, are not branches here: `RecordsAreValid` and the inductive
invariant prove them out of reach.

### Inspection

`inspect_chart` for several invocations of one chart path and one output. The
chart is read in four places, as in the code: rendered, digested, installed,
and asked for its version; it may be rebuilt in between. `Plan` and `Admit` are
the gates on reviewed manifest, reviewed plan, matched rules and the approved
scope. `OpenTemporary` to `CleanUp` are `write_bundle`; three files stand for the
bundle's. Legacy experiments without a plan are left out. Testing for an empty
output and removing it are one step, since what differs when the directory
vanishes in between is only that the writer fails, which `WriteFails` covers.

### MC modules, proof modules

`MCX` instantiates `X` for TLC: plans, charts, budgets and options by name,
and the symmetry sets. `XProofs` holds the theorems about `X`. Operators named
`Slip...` are plausible mistakes in one definition. No specification uses them:
each has been put in place of the correct definition to see that the property
it concerns fails.

## Runs

All state counts are of complete searches.

| Run | Instance | Distinct states | What it shows |
|---|---|---|---|
| `ProbeExecutor` | eight plans of three tasks | 39 446 | `NoConflictingProbes`, `VerdictsAreMeasured`, `RefusalsHaveACause`, `EveryTaskAccounted`, `NoneAdmittedAfterCancellation`, the refinement of `PlanRun`, `Terminates` |
| `ProbeExecutorState` | two tasks | violated | finding 1 |
| `RuntimeLifecycle` | no, service and planned experiment | 237 580 | `EveryCheckReported`, `CancellationMeansViolation`, `ProductIsWatched`, `MeasuredOnBaseline`, `CleanupTruthful`, `OnlyAStuckThreadOutlivesTheCluster`, `MeasurementsSurvive`, `Disposed` |
| `RuntimeLifecycleTeardown` | the same | violated | finding 2 |
| `History` | two ids, two contents, two importers, one syncer; one id can be removed or spoiled | 876 662 | `RowsMatchStore`, `StoreIsImmutable`, `SyncSurvivesImports`, `Rebuilds` |
| `HistoryRace` | one importer, one syncer | violated | finding 3 |
| `LiveRuns` | two chart jobs, a live job, three charts | 171 500 | `OneRunAtATime`, `ReviewedRuns`, `DirectoryLifetime`, `Served` |
| `AdaptiveWorkflow` | ten proposals, three budgets | 3 833 | `WithinBudget`, `RecordsAreValid`, `ReplansWhenSettled`, `OutcomeIsJustified`, `HistoryIsKept`, `Ends` |
| `Inspection` | two runs, four charts, two plans, five options, one rebuild | 735 612 | `OutputIsWhole`, `RunsAreAdmitted` |
| `InspectionApproval` | one run | violated | finding 4 |
| `CpuTrial` | three requests, two in flight, two attempts, two CPU levels | 361 215 | `RequestsAddUp`, `GoalMetIsEarned`, `NothingOutlivesTheForward`, `OneRequestIsLate`, `PilotEnds` |
| `ResourceCheck` | two snapshots, two changes of Pods or readings, three kinds of reading | 859 188 | `CollectorErrorsAreNoVerdict`, `VerdictIsTheProducts`, `KnownInstrumentsStayOut`, `NothingIsLeft` |

Type invariants are not in the runs: each is a theorem (`TypeCorrect`), as are
`OneActive` and `Final` (at most one active job; what is settled stays) and
`CleanEnd` (no temporary directory is left), which the runs need not repeat.

Why the bounds are enough:

- **Plans** (`N = 3`). The plans cover each condition, a chain, a join, a
  dependency that points forward in plan order, both exclusive claims, equal and
  different Services, and more compatible tasks than workers. The loop never
  relates more than a task, its dependencies and the wave; a third task gives
  each chain a middle and each wave a rival. The safety part is proved for every
  `N` and every set of valid plans.
- **RuntimeLifecycle** has no bound of its own: titles and experiments are those
  of the code.
- **History**. A race over one id needs two importers; two contents let them
  differ; a second id tells a stale row from a missing one, and it is the one an
  operator may touch, so that the other shows what happens without. One syncer
  meets both importers; the safety properties are proved for any number of
  syncers, `Rebuilds` is checked for one that repeats.
- **LiveRuns**. Two jobs of one manager compete for its worker, one of the other
  manager for the run lock. The charts are one that is admitted, one an operator
  may accept and one nobody may.
- **AdaptiveWorkflow**. `MAX_EXECUTION_ATTEMPTS` is the real 3. `MAX_VALID_TRIALS`
  is 2 instead of 5, so that plans of four tasks reach it. Each budget binds in
  one of the three. Some proposals are inadmissible, each for its own reason.
- **Inspection** (`MaxRebuilds = 1`). One rebuild tells any two of the four reads
  apart. Two runs race for the output. `rehosted` renders the manifest of `host`
  from another archive, so that digest and manifest are told apart.

- **CpuTrial**. With three requests and two in flight one can be dropped while
  another is done and not collected; one failure is allowed, so that one more
  decides; two attempts show what one leaves to the next.
- **ResourceCheck** (`Limit = 2` for 120, `MaxChanges = 2`). Two snapshots can
  disagree, repeat a reading, or exceed the limit with a third. New Pods of the
  product and readings number at most two together, and a Pod goes only before the
  second: a replaced Pod read once, one Pod read twice, or product and probe each
  read once.

The bounds on state beyond the constants are `MaxRebuilds` (`Inspection`) and
`MaxChanges` (`ResourceCheck`); every other counter is bounded by the program
itself. Deadlock is checked in every run: where a
system really ends, the module has a `Terminated` step that says so (importers and
syncers of the history never end: each may start again).

## Fairness

- `ProbeExecutor`: weak fairness of the main thread and of each task's worker.
  A thread pool runs what is submitted and every probe has its own deadline. The
  monitor and the clock are not fair: nothing needs them to answer.
- `RuntimeLifecycle`: weak fairness of the main thread, whose every blocking call
  takes a timeout. None for the monitor's thread, which may be stuck, nor for
  Pods, which may never go.
- `LiveRuns`: weak fairness of each manager's worker. Nothing is assumed of
  handlers or of the close.
- `AdaptiveWorkflow`: weak fairness of the next step; a worker that never returns
  is bounded by the trial's timeouts.
- `CpuTrial`: weak fairness of the main thread, whose every call has a time-out
  (port-forward, health check, join), and of the requests in the pool, which have
  theirs. None for the sampler, the Pod, the metrics server or the monitor.
- `ServiceProbe`, `ResourceCheck`: weak fairness of `Cleanup` alone: a creation that
  the API server accepted is carried out, a Job's deadline and time to live expire, the
  Pod of a Job that is gone is collected. Nothing is assumed of the program, and
  `NothingIsLeft` still holds once the probe has ended.
- `History` and `Inspection`: none. `Rebuilds` states what it needs as its own
  premises: importers have stopped, the store is left alone, and syncs complete
  again and again. The premises are not empty: with an upsert that
  keeps the old status of a row, the run finds a behaviour that meets them all and
  never becomes consistent.

## Theorems

Eight modules hold proofs, checked to the last leaf. All are for any values of the
constants that meet the assumptions the specification names.

| Module | Inductive invariant | Theorems |
|---|---|---|
| `ProbeExecutorProofs` | `TypeOK`, `BookkeepingInv`, `WaveInv`, `RefusalInv`, `RunsOnlyWhenEligible`, `VerdictsAreMeasured`, `RefusalsHaveACause` | `Invariance`, `TypeCorrect`, `NoConflicts`, `Eligibility`, `Measured`, `Causes`, `Accounted`, `Final`, `NoneAdmitted`, `Refinement`, `AgreementNeedsOneAnswer`, `EveryPassAccounts`, `StepsAdvance` |
| `HistoryProofs` | `TypeOK`, `RowsMatchStore`, `WritersAreCurrent` | `Invariance`, `TypeCorrect`, `AvailableLoads`, `Immutable`, `SyncsSurvive`, `SyncsRepair`, `ImportsStayExposed` |
| `LiveRunsProofs` | `TypeOK`, `WorkerInv`, `QueueInv`, `ReviewInv` and the safety properties | `Invariance`, `TypeCorrect`, `Exclusive`, `OneActive`, `Reviewed`, `Directories`, `Final`, `NoJobIsLost` |
| `AdaptiveWorkflowProofs` | `TypeOK`, the safety properties, where each node may find which plan, batch and replies | `Invariance`, `TypeCorrect`, `BudgetsHold`, `ValidHistory`, `Compatible`, `NoEarlyReplan`, `Justified`, `Kept`, `EveryStepSpends` |
| `InspectionProofs` | `TypeOK`, `DecisionInv`, `TemporaryInv`, `OutputIsWhole` | `Invariance`, `TypeCorrect`, `WholeOutput`, `AdmittedRuns`, `CleanEnd`, `ApprovalBindsAnUntouchedChart` |
| `RuntimeLifecycleProofs` | types, `Reported`, `Watched`, `Blamed`, `Fresh`, `Baseline`, `Kept`, `Observed`, `CleanupTruthful` | `Invariance`, `TypeCorrect`, `ResultIsComplete`, `ViolationsCancel`, `ProductsAreWatched`, `ObserversEnd`, `BaselineFirst`, `CleanupIsTrue`, `NothingMeasuredIsLost`, `SkippedTeardownsHaveACause`, `ReturnedRunsWereTornDown`, `MainAdvances` |
| `CpuTrialProofs` | `TypeOK`, `PlaceCounts`, `PlaceSampler`, `Ends` and the safety properties | `Invariance`, `TypeCorrect`, `EveryRequestCounted`, `GoalsAreEarned`, `QuietWhenClosed`, `CancellationIsPrompt`, `MainAdvances` |
| `ResourceCheckProofs` | types, `Joined`, `StampsTell`, `HighIsKnown`, `InstrumentsOut`, `Aligned` | `Invariance`, `TypeCorrect`, `VerdictsNeedTheCollector`, `InstrumentsStayOut`, `VerdictsAreTheProducts`, `RefinesRuntimeLifecycle` |

Why the invariants are what they are:

- **ProbeExecutor.** `NoConflictingProbes` speaks of threads and is not inductive:
  a wave is decided while no thread of it exists. `WaveInv` carries the greedy
  test through the scan (members before the cursor, pairwise compatible, never
  more than the plan allows, strictly fewer while the scan goes on) and
  `BookkeepingInv` ties threads to the wave. `RefusalInv` is what the reads of
  `stop()` so far imply. It rests on `stop()` never going back to false, which is
  why four reads may disagree and still each have a cause. The refinement follows
  from the same invariant, one mapped step per action.
- **History.** `RowsMatchStore` breaks at the write of a row; `WritersAreCurrent`
  says that what an importer or syncer is about to write is still so. That holds
  because a stored bundle never changes, and that in turn holds because `rename` onto
  a directory with files in it fails. The check in `put` alone would not do.
- **LiveRuns.** `WorkerInv` ties each step of a worker to the run lock, its job's
  status and its directory; `QueueInv` says that what is queued still has its
  directory, and that close has not removed it; `ReviewInv` that a review and an
  approval never move after a job was prepared.
- **AdaptiveWorkflow.** The work is in `NoEarlyReplan`. That every task of an
  admitted plan has settled when `ready_tasks` is empty needs the lemma
  `NothingStranded`: among tasks neither completed nor blocked, one of least rank
  has all its dependencies completed, hence is ready.
- **Inspection.** `DecisionInv` says what each gate has established by the time
  the chart is installed; `TemporaryInv` that a run's temporary directory belongs
  to it alone and holds exactly what its step says.
- **RuntimeLifecycle.** `EveryCheckReported` speaks of the end only. `Reported` says
  which checks each place of `run_runtime` has behind it, so that whatever a handler
  fills in, none is missing; `Fresh` is its converse, which is what lets a
  handler write a check without losing a measurement. `Blamed` rests on a violation
  being final, `Watched` on the order of the starts and stops around the product.
  `Observed` says what the collector's thread is up to and at the resource check: one
  that outlived its join has set the error that keeps the check from being measured.
- **CpuTrial.** `PlaceCounts` says what the counters are at each place of the loop
  (every request considered after it, none in flight after the drain);
  `PlaceSampler` that the port-forward is open and the sampler started beside a
  load, and neither before. `Ends` says that a late request implies that the trigger
  has come: no more than one submission lies between two questions at the head of
  the loop, which nobody skips, and the trigger is final.
- **ResourceCheck.** `Joined` is why no failed collector gives a verdict: past the
  join the thread has ended or its being there is an error. `InstrumentsStayOut`
  follows from the types and one step: what is known is left out, and is never
  forgotten. What a verdict says of the product (`VerdictsAreTheProducts`) rests on
  three facts about the snapshots: a time stamp tells a reading, so one that is
  repeated is the same (`StampsTell`); a reading above the threshold outlives the Pod
  but not the memory of it (`HighIsKnown`); and no snapshot lists an instrument
  (`InstrumentsOut`), which makes any reading of one incomplete. `Aligned` relates
  the probe, the violation and `run_runtime`; it is what `RefinesRuntimeLifecycle` needs
  to find, for each step, the step of `RuntimeLifecycle` that it is.

What is proved towards termination. A leads-to needs fairness and stays with TLC,
but that nothing turns for ever does not:

- `EveryPassAccounts` and `StepsAdvance` (for `Terminates`): whenever a pass of the
  loop of `run()` ends, a task is accounted for that was not when the pass before
  it ended, because dependencies are acyclic and a task all of whose dependencies
  are accounted for is either refused or fits an empty wave. The history variable
  `start`, declared in `ProbeExecutorProofs`, holds what was accounted for then;
  `Marked` says how it moves and constrains nothing else.
- `MainAdvances` (for `Disposed`): no exception leads `run_runtime` back; twenty
  steps are the most. `MainAdvances` of `CpuTrialProofs` (for `PilotEnds`): each step
  begins another attempt, takes up another request, or goes on within it.
- `EveryStepSpends` (for `Ends`): no proposal of the supervisor and no failure of a
  worker turns the graph without spending a call, since a superstep dispatches at
  least one task; `BudgetsHold` bounds the calls.
- `NoJobIsLost` (for `Served`): an approved job is in the queue or with the worker as
  long as the server serves, and the run lock is held by a worker past it.
- `SyncsRepair` (for `Rebuilds`): from any quiet moment on, a sync that completes
  leaves the index in line with an undisturbed store, and later steps keep it so,
  for any number of overlapping syncs that fail and die, where the run has one.

What is proved about the four disagreements below. Each run finds one behaviour that
violates what a document says; the theorem says what is enough for it not to, or what
must have come before. A hypothesis is about what happens beside the code concerned,
and behaviours of the program meet it as well as break it:

- `AgreementNeedsOneAnswer`: check and execution agree if `stop()` answers the two
  reads of one refused task alike (`StopHolds`).
- `SkippedTeardownsHaveACause`: a run that ended without asking for the deletion of
  its cluster raised, and either the thread of an observer could not be started or
  something had been installed, so that the uninstall or the poll let an exception
  through. It has no hypothesis, and `ReturnedRunsWereTornDown` follows from it: what
  skips the deletion never returns a result.
- `ImportsStayExposed`: an import that returned stays available if no sync overlaps
  an import (`Apart`) and nobody removes bundles.
- `ApprovalBindsAnUntouchedChart`: what is installed is what was approved if the
  archive is left alone from the comparison to `helm install` (`ChartHolds`).

Assumptions are about the constants only: at least one task, services that are
not one of the two reserved claims, valid plans (`ProbeExecutor`); ids are
ordered, importers are not syncers (`History`); jobs of one manager are not the
other's, rules are given for each manifest (`LiveRuns`); finitely many ids, budgets of
at least one, typed proposals (`AdaptiveWorkflow`); manifests are a function of
charts, typed options (`Inspection`); experiments are among the three kinds
(`RuntimeLifecycle`); positive bounds, CPU levels that are numbers (`CpuTrial`);
a positive limit (`ResourceCheck`). Every passing run evaluates them.

Every invariant and action property of the passing runs is also a theorem. Only
model-checked: liveness (`Terminates`, `Disposed`, `Rebuilds`, `Served`, `Ends`,
`PilotEnds`, `NothingIsLeft`), which depends on fairness and is beyond the prover. Six
of the seven have the safety halves above; `NothingIsLeft` is about the cluster's
fairness alone. `ImplementsRuntimeLifecycle` is the other way round: it is proved, and
TLC has confirmed it on the instance of `ResourceCheck`, but evaluating the mapping
nearly doubles the time of that run, which does not repeat it.

## Where code and documents disagree

1. **A refused task's check and execution disagree** (`ProbeExecutorState`,
   `execution/probes.py:635`). The two are written from two reads of `stop()`. If
   the answer changes in between, the check says not tested and the execution
   cancelled. A test asserts the two agree for every task of a cancelled run.
2. **The cluster may be left behind** (`RuntimeLifecycleTeardown`,
   `execution/runtime.py:303`). Three things leave the `finally` block before the
   deletion: a transport error of the client while the cleanup polls Pods (it catches
   only `KubernetesError`), an `OSError` of the uninstall's temporary directory
   (`helm.py:113`; only `HelmRenderError` is caught), and the join of an observer whose
   thread could not be started, which is the shortest trace of the run. The docstring
   says teardown is always attempted.
3. **An imported bundle may be marked missing** (`HistoryRace`,
   `evidence/history.py:302`). A sync that listed the store before an import
   marks its row missing afterwards. The next sync repairs it (`Rebuilds`).
4. **An approval does not bind what is installed** (`InspectionApproval`,
   `application/service.py:227`). The archive is digested once and read again by
   helm minutes later. The README says the scope binds the chart package and a
   mismatch stops before kind starts.

Seen while modelling, against which no document speaks:

- A violation during the last probe cancels nothing when that probe does not ask
  itself, as the DNS probe does not (`probes.py:457`): nobody asks after the last
  future (`probes.py:651`).
- A CPU trial whose Pod dies after the sampler's last poll counts as completed, with
  its failed requests against the product (`cpu_worker.py:155`); a cancellation asked
  for while the last requests drain is not noticed by the trial (`load.py`).
- Metrics of a Pod that was replaced under its name are attributed to the new Pod
  until the metrics server catches up, and metrics of an instrument Pod that was never
  listed make the resource check inconclusive (`runtime_checks.py`). The first is
  why `VerdictIsTheProducts` asks for some product Pod above the threshold and not
  for the one that is named.
- One stored bundle that does not verify makes every sync fail, and with it the
  start of the server (`history.py:126`).
- A monitor that fails between two reads of `stop()` can make a check cancelled
  (the same cause as 1).
- Two imports of one and the same bundle may race, and one of them is refused
  although importing is idempotent otherwise (`history.py:111`).
- A job approved after the shutdown of its pool, or cancelled in its queue, stays
  `queued`, with its directory (`chart_jobs.py:237`, `:103`).
- A job is reported failed although its bundle is stored, when only the index row
  fails (`chart_jobs.py:266`).
- An archive that is gone when its version is read discards the evidence of the
  run (`service.py:74`).
- Orphaned temporary directories are never removed (`history.py:107`).
- The tolerance of a duration is relative to the first one only, so a comparison
  need not be symmetric (`reproducibility.py:110`).
- In the adaptive workflow the explanation "before a valid plan" is also given
  after one, and a goal met in the last superstep is reported blocked when the time
  is up.

## What is not modelled

- **CPU trial**: the admission of a live CPU run, the fixture with its manifest, and
  the figures of a load (throughput, percentiles) are left out.
- **HTTP service experiment**: `prepare`, which builds an image before the product is
  there, and the requests inside the probe's container.
- **Runtime checks**: the readings of DNS logs and of the recovery after a Pod is
  deleted are a choice of result in `RuntimeLifecycle`. That DNS queries are attributed
  through Pod addresses read after the logs is listed as a hazard without a
  property.
- **Static analysis, profiles, comparison, report**: pure functions of one
  manifest or of finished evaluations. The tolerances are in the plan.
- **Helm and Kubernetes clients**: processes and HTTP. What matters to callers
  (success, failure, time-out, cancellation) is a choice in their models.
- **Model access**: one external call whose reply is any reply.
- **Command line, metrics, front end, scripts, deployment**: no state of their own
  that others rely on.
- Inside modelled parts: wording of evidence and reports, parsing of Kubernetes
  objects, the numbers behind verdicts, request parsing, the queries of the history.

## Plan

In order of importance; the first ten are done.

1. `ProbeExecutor` with `PlanRun`, and proofs: the run of a frozen plan is what
   the evidence rests on.
2. `RuntimeLifecycle`: what surrounds it in the cluster.
3. `History`, and proofs: what keeps the evidence.
4. `LiveRuns`, and proofs: who may start a run.
5. `AdaptiveWorkflow`, and proofs: the planning loop.
6. `Inspection` with the bundle writer, and proofs: admission and publication.
7. `RuntimeLifecycleProofs`: `EveryCheckReported`, `CancellationMeansViolation`,
   `ProductIsWatched`, `MeasuredOnBaseline`, `CleanupTruthful`,
   `MeasurementsSurvive`, for any set of experiments.
8. `CpuTrial`, and proofs: the load, its sampler and the retried pilot.
9. `ServiceProbe` and `ResourceCheck`, and proofs: the probe's Job beside the
   collector, and the verdict on resources.
10. `ResourceCheck` as a refinement of `RuntimeLifecycle`, the safety halves of the
   liveness properties, and the conditions under which the four disagreements
   cannot happen, proved.
11. Pure algorithms over bounded inputs: the depth-first search of plan
    validation against `Acyclic`, the fixpoint of blocked tasks against
    reachability, the tolerances of the comparison, the classification of
    resource, recovery and DNS readings.
12. An abstract specification of the history (a set of immutable bundles and the
    index that follows it), which `History` implements once syncs complete.
