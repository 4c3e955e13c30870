-------------------------- MODULE RuntimeLifecycle --------------------------
(***************************************************************************)
(* run_runtime (execution/runtime.py): one disposable evaluation of an     *)
(* admitted chart, from kind.create to the deletion of the cluster, with   *)
(* the SafetyMonitor thread (execution/runtime_monitor.py) beside it.      *)
(*                                                                         *)
(* A call into the cluster can succeed, raise an error the caller          *)
(* translates ("infrastructure": KubernetesError, EnvironmentError,        *)
(* OSError) or raise one nobody does ("other": the client's transport      *)
(* errors are not OSErrors).  What escapes the finally block skips the     *)
(* rest of it.                                                             *)
(***************************************************************************)
EXTENDS Naturals

CONSTANT Experiments   \* the experiments under study

ASSUME ExperimentsAssumption == Experiments \subseteq {"none", "service", "planned"}

VARIABLES
  experiment,   \* none, HttpServiceExperiment or PlannedExperiment
  selected,     \* runtime checks that the planned experiment's tasks own
  pc,           \* the main thread
  raised,       \* the exception in flight
  cluster,      \* the kind cluster
  release,      \* the Helm release
  pods,         \* product Pods exist
  monitor,      \* SafetyMonitor: its flags
  watching,     \* its thread is alive
  collector,    \* MetricsCollector and its thread; "stuck" outlived a join
  errors,       \* metrics_error and dns_error are set
  installed,    \* install_attempted, install_error is None, ready
  checks,       \* evidence.checks
  trial,        \* evidence.experiment_checks, of the service experiment
  execution,    \* the planned experiment has its PlanExecution
  teardown      \* cleanup_error, leftovers, and what kind.delete did

input == <<experiment, selected>>
thread == <<monitor, watching>>
environment == <<cluster, release, pods>>
findings == <<checks, trial, execution>>
vars == <<input, pc, raised, environment, thread, collector, errors,
          installed, findings, teardown>>

Title == {"installation", "resources", "network", "recovery"}
Probed == Title \ {"installation"}
Verdict == {"measured", "not_tested", "cancelled", "infrastructure_failure"}

\* monitor.triggered and monitor.infrastructure_error; the flag is set first.
Triggered == monitor \in {"violation", "failed"}
InfrastructureError == monitor \in {"failing", "failed"}

Owns == experiment = "planned"   \* owns_runtime_checks, hasattr not_run
Ended == pc \in {"returned", "raised"}
Stopping == pc \in {"stop", "stop_collector", "uninstall", "poll", "delete"} \/ Ended

Init ==
  /\ experiment \in Experiments
  /\ selected \in IF Owns THEN SUBSET Probed ELSE {{}}
  /\ pc = "create" /\ raised = "none"
  /\ cluster = "absent" /\ release = FALSE /\ pods = FALSE
  /\ monitor = "none" /\ watching = FALSE
  /\ collector = "none"
  /\ errors = [metrics |-> FALSE, dns |-> FALSE]
  /\ installed = [attempted |-> FALSE, helm |-> FALSE, ready |-> FALSE]
  /\ checks = [c \in Title |-> "none"]
  /\ trial = "none" /\ execution = FALSE
  /\ teardown = [error |-> FALSE, leftovers |-> FALSE, deletion |-> "none"]

-----------------------------------------------------------------------------
(* The observers' threads and the cluster.                                   *)

Others == <<input, pc, raised, collector, errors, installed, findings, teardown>>

\* The call that held the collector's thread returns: it sees _stop, or fails.
CollectorEnds ==
  /\ collector = "stuck"
  /\ collector' = "stopped"
  /\ UNCHANGED <<input, pc, raised, environment, thread, errors, installed, findings, teardown>>

\* A product Pod matches a rule nobody approved: set the event and end.
WatchMatches ==
  /\ watching /\ monitor = "quiet" /\ pods
  /\ monitor' = "violation" /\ watching' = FALSE
  /\ UNCHANGED <<Others, environment>>

\* The poll raises: the flag, then the event.
WatchFails ==
  /\ watching
  /\ \/ monitor = "quiet" /\ monitor' = "failing" /\ UNCHANGED watching
     \/ monitor = "failing" /\ monitor' = "failed" /\ watching' = FALSE
  /\ UNCHANGED <<Others, environment>>

\* The thread sees _stop between two polls.
WatchEnds ==
  /\ watching /\ monitor \in {"quiet", "failed"} /\ Stopping
  /\ watching' = FALSE
  /\ UNCHANGED <<monitor, Others, environment>>

\* The controllers are gone, and so are their Pods after a while.
PodsTerminate ==
  /\ pods /\ ~release
  /\ pods' = FALSE
  /\ UNCHANGED <<Others, thread, cluster, release>>

-----------------------------------------------------------------------------
(* The main thread, up to the experiment.                                    *)

\* Leave the try block with an exception.
Raise(exc) ==
  /\ raised' = exc
  /\ pc' = CASE exc = "unsafe" -> "unsafe"
             [] exc = "infrastructure" -> "infrastructure"
             [] OTHER -> "stop"

Go(to) == pc' = to /\ UNCHANGED raised

\* An exception leaves the finally block.
Escape == pc' = "raised" /\ raised' = "other"

CreateCluster ==
  /\ pc = "create"
  /\ \/ cluster' = "present" /\ Go("prepare")
     \/ cluster' \in {"absent", "present"} /\ Raise("infrastructure")
  /\ UNCHANGED <<input, release, pods, thread, collector, errors, installed, findings, teardown>>

\* Slip: the monitor is built and never started.
SlipPrepareCluster ==
  /\ pc = "prepare"
  /\ \/ Go("metrics") /\ monitor' = "quiet" /\ UNCHANGED watching
     \/ \E exc \in {"infrastructure", "other"} : Raise(exc) /\ UNCHANGED thread
  /\ UNCHANGED <<input, environment, collector, errors, installed, findings, teardown>>

\* The reader, healthy(), experiment.prepare and the monitor's start, which
\* raises when the process gets no further thread.
PrepareCluster ==
  /\ pc = "prepare"
  /\ \/ Go("metrics") /\ monitor' = "quiet" /\ watching' = TRUE
     \/ \E exc \in {"infrastructure", "other"} : Raise(exc) /\ UNCHANGED thread
     \/ Raise("other") /\ monitor' = "unstarted" /\ UNCHANGED watching
  /\ UNCHANGED <<input, environment, collector, errors, installed, findings, teardown>>

InstallMetricsServer ==
  /\ pc = "metrics"
  /\ \/ \E failed \in BOOLEAN : errors' = [errors EXCEPT !.metrics = failed] /\ Go("dns")
     \/ Raise("other") /\ UNCHANGED errors
  /\ UNCHANGED <<input, environment, thread, collector, installed, findings, teardown>>

\* CoreDNS logs, then the collector of the checks run_runtime owns itself.
EnableDnsLogs ==
  /\ pc = "dns"
  /\ \/ /\ \E failed \in BOOLEAN : errors' = [errors EXCEPT !.dns = failed]
        /\ \/ /\ collector' = IF errors.metrics \/ Owns THEN "none" ELSE "running"
              /\ Go("install")
           \/ ~errors.metrics /\ ~Owns /\ collector' = "unstarted" /\ Raise("other")
     \/ Raise("other") /\ UNCHANGED <<errors, collector>>
  /\ UNCHANGED <<input, environment, thread, installed, findings, teardown>>

\* helm.install begins: product Pods exist from here on.
BeginInstall ==
  /\ pc = "install"
  /\ installed' = [installed EXCEPT !.attempted = TRUE]
  /\ release' = TRUE /\ pods' = TRUE
  /\ Go("installing")
  /\ UNCHANGED <<input, cluster, thread, collector, errors, findings, teardown>>

\* An OSError of helm's temporary directory is no HelmRenderError.
EndInstall ==
  /\ pc = "installing"
  /\ \/ /\ \E succeeded \in BOOLEAN : installed' = [installed EXCEPT !.helm = succeeded]
        /\ Go("triggered")
     \/ Raise("infrastructure") /\ UNCHANGED installed
  /\ UNCHANGED <<input, environment, thread, collector, errors, findings, teardown>>

\* Slip: whatever set the event, the chart is to blame.
SlipCheckInstallation ==
  /\ pc = "triggered"
  /\ IF Triggered THEN Raise("unsafe") ELSE Go("readiness")
  /\ UNCHANGED <<input, environment, thread, collector, errors, installed, findings, teardown>>

\* _install_product reads the event once, when helm.install has returned.
CheckInstallation ==
  /\ pc = "triggered"
  /\ IF Triggered THEN Raise(IF InfrastructureError THEN "infrastructure" ELSE "unsafe")
                  ELSE Go("readiness")
  /\ UNCHANGED <<input, environment, thread, collector, errors, installed, findings, teardown>>

\* Workloads, then the check: "measured" is pass, fail or inconclusive.
AwaitReadiness ==
  /\ pc = "readiness"
  /\ \/ \E ready \in BOOLEAN, outcome \in {"measured", "infrastructure_failure"} :
          /\ installed.helm => outcome = "measured"
          /\ installed' = [installed EXCEPT !.ready = installed.helm /\ ready]
          /\ checks' = [checks EXCEPT !["installation"] = outcome]
          /\ Go("experiment")
     \/ \E exc \in {"infrastructure", "other"} : Raise(exc) /\ UNCHANGED <<installed, checks>>
  /\ UNCHANGED <<input, environment, thread, collector, errors, trial, execution, teardown>>

-----------------------------------------------------------------------------
(* The experiment and the checks run_runtime measures itself.                *)

\* add_experiment: the experiment's checks replace the runtime checks it owns.
AddChecks(outcomes) ==
  checks' = [c \in Title |-> IF c \in DOMAIN outcomes THEN outcomes[c] ELSE checks[c]]

\* PlannedExperiment.not_run: one outcome for every task, and an execution.
NotRun(outcome) ==
  /\ AddChecks([c \in selected |-> outcome])
  /\ execution' = TRUE
  /\ UNCHANGED trial

\* Slip: the installation's own check is taken to be there already.
SlipFill(outcome) ==
  [c \in Title |-> IF checks[c] = "none" /\ c \in Probed THEN outcome ELSE checks[c]]

\* _remaining_checks: what nobody wrote yet.
Fill(outcome) == [c \in Title |-> IF checks[c] = "none" THEN outcome ELSE checks[c]]

ExperimentNotReady ==
  /\ pc = "experiment" /\ experiment # "none" /\ ~installed.ready
  /\ IF Owns THEN NotRun("not_tested")
             ELSE trial' = "not_tested" /\ UNCHANGED <<checks, execution>>
  /\ Go("remaining")
  /\ UNCHANGED <<input, environment, thread, collector, errors, installed, teardown>>

\* PlannedExperiment.run: see ProbeExecutor.
RunPlan ==
  /\ pc = "experiment" /\ Owns /\ installed.ready
  /\ \/ /\ \E outcomes \in [selected -> Verdict] : AddChecks(outcomes)
        /\ execution' = TRUE /\ Go("remaining") /\ UNCHANGED trial
     \/ /\ trial' = "infrastructure_failure"       \* runtime.plan
        /\ Go("remaining") /\ UNCHANGED <<checks, execution>>
     \/ Raise("other") /\ UNCHANGED findings
  /\ UNCHANGED <<input, environment, thread, collector, errors, installed, teardown>>

\* HttpServiceExperiment.run asks monitor.triggered while it probes.
RunService ==
  /\ pc = "experiment" /\ experiment = "service" /\ installed.ready
  /\ \/ \E outcome \in {"measured", "infrastructure_failure"} :
          trial' = outcome /\ Go("remaining")
     \/ /\ Triggered
        /\ Raise(IF InfrastructureError THEN "infrastructure" ELSE "unsafe") /\ UNCHANGED trial
     \/ Raise("other") /\ UNCHANGED trial
  /\ UNCHANGED <<input, environment, thread, collector, errors, installed, checks, execution, teardown>>

SkipExperiment ==
  /\ pc = "experiment" /\ experiment = "none"
  /\ Go("remaining")
  /\ UNCHANGED <<input, environment, thread, collector, errors, installed, findings, teardown>>

\* collector.stop: the join ends with the thread or times out.
Joined == IF collector \in {"running", "stuck"} THEN {"stopped", "stuck"} ELSE {collector}

\* Checks the plan did not select, or an installation without a baseline.
FillRemaining ==
  /\ pc = "remaining" /\ (Owns \/ ~installed.ready)
  /\ checks' = Fill(IF ~Owns /\ checks["installation"] = "infrastructure_failure"
                    THEN "infrastructure_failure" ELSE "not_tested")
  /\ IF Owns THEN UNCHANGED collector ELSE collector' \in Joined
  /\ Go("artifacts")
  /\ UNCHANGED <<input, environment, thread, errors, installed, trial, execution, teardown>>

\* Slip: the run does not ask for a ready installation.
SlipHoldSteadyState ==
  /\ pc = "remaining" /\ ~Owns
  /\ collector' = IF collector = "running" THEN "stopped" ELSE collector
  /\ Go("resources")
  /\ UNCHANGED <<input, environment, thread, errors, installed, findings, teardown>>

\* monitor.triggered.wait(steady_state_seconds), when there is a collector; one
\* that outlives its join has an error.
HoldSteadyState ==
  /\ pc = "remaining" /\ ~Owns /\ installed.ready
  /\ \/ collector = "none" /\ Go("resources") /\ UNCHANGED <<collector, errors>>
     \/ /\ collector = "running" /\ Triggered
        /\ Raise(IF InfrastructureError THEN "infrastructure" ELSE "unsafe")
        /\ UNCHANGED <<collector, errors>>
     \/ /\ collector = "running" /\ ~Triggered
        /\ collector' \in Joined
        /\ \E failed \in BOOLEAN : /\ collector' = "stuck" => failed
                                  /\ errors' = [errors EXCEPT !.metrics = failed]
        /\ Go("resources")
  /\ UNCHANGED <<input, environment, thread, installed, findings, teardown>>

MeasureResources ==
  /\ pc = "resources"
  /\ \E outcome \in {"measured", "infrastructure_failure"} :
       /\ errors.metrics \/ collector = "none" => outcome = "infrastructure_failure"
       /\ checks' = [checks EXCEPT !["resources"] = outcome]
  /\ Go("network")
  /\ UNCHANGED <<input, environment, thread, collector, errors, installed, trial, execution, teardown>>

ObserveDns ==
  /\ pc = "network"
  /\ \/ \E outcome \in {"measured", "infrastructure_failure"} :
          /\ errors.dns => outcome = "infrastructure_failure"
          /\ checks' = [checks EXCEPT !["network"] = outcome]
          /\ Go("recovery")
     \/ ~errors.dns /\ Raise("other") /\ UNCHANGED checks
  /\ UNCHANGED <<input, environment, thread, collector, errors, installed, trial, execution, teardown>>

\* measure_recovery asks the monitor once per deployment and while it waits;
\* without an eligible deployment it never does.
MeasureRecovery ==
  /\ pc = "recovery"
  /\ \/ \E outcome \in {"measured", "infrastructure_failure"} :
          checks' = [checks EXCEPT !["recovery"] = outcome] /\ Go("artifacts")
     \/ Triggered /\ ~InfrastructureError /\ Raise("unsafe") /\ UNCHANGED checks
     \/ Raise("other") /\ UNCHANGED checks
  /\ UNCHANGED <<input, environment, thread, collector, errors, installed, trial, execution, teardown>>

CollectArtifacts ==
  /\ pc = "artifacts"
  /\ Go("stop") \/ Raise("other")
  /\ UNCHANGED <<input, environment, thread, collector, errors, installed, findings, teardown>>

-----------------------------------------------------------------------------
(* The handlers and the finally block.                                       *)

\* Slip: the execution of a plan that ran is no reason to leave it alone.
SlipHandle ==
  /\ pc \in {"unsafe", "infrastructure"}
  /\ LET outcome == IF pc = "unsafe" THEN "cancelled" ELSE "infrastructure_failure"
     IN  /\ checks' = [c \in Title |-> outcome]
         /\ trial' = IF trial = "none" /\ (experiment = "service" \/ (Owns /\ execution))
                     THEN outcome ELSE trial
         /\ execution' = (execution \/ Owns)
  /\ Go("stop")
  /\ UNCHANGED <<input, environment, thread, collector, errors, installed, teardown>>

\* except UnsafeWorkloadError, except (EnvironmentError, KubernetesError, OSError).
Handle ==
  /\ pc \in {"unsafe", "infrastructure"}
  /\ LET outcome == IF pc = "unsafe" THEN "cancelled" ELSE "infrastructure_failure"
     IN  /\ checks' = [c \in Title |-> IF Owns /\ ~execution /\ c \in selected
                                       THEN outcome ELSE Fill(outcome)[c]]
         /\ trial' = IF trial = "none" /\ (experiment = "service" \/ (Owns /\ execution))
                     THEN outcome ELSE trial
         /\ execution' = (execution \/ Owns)
  /\ Go("stop")
  /\ UNCHANGED <<input, environment, thread, collector, errors, installed, teardown>>

\* Slip: the event is set and nobody joins the thread.
SlipStopMonitor ==
  /\ pc = "stop"
  /\ Go("stop_collector")
  /\ UNCHANGED <<input, environment, thread, collector, errors, installed, findings, teardown>>

\* monitor.stop: the join ends with the thread or times out; a thread that was
\* never started cannot be joined.
StopMonitor ==
  /\ pc = "stop"
  /\ IF monitor = "unstarted"
     THEN Escape /\ UNCHANGED monitor
     ELSE Go("stop_collector") /\ monitor' = IF watching THEN "failed" ELSE monitor
  /\ UNCHANGED <<input, environment, watching, collector, errors, installed, findings, teardown>>

StopCollector ==
  /\ pc = "stop_collector"
  /\ IF collector = "unstarted"
     THEN Escape /\ UNCHANGED collector
     ELSE Go(IF installed.attempted THEN "uninstall" ELSE "delete") /\ collector' \in Joined
  /\ UNCHANGED <<input, environment, thread, errors, installed, findings, teardown>>

\* A HelmRenderError is noted, an OSError of the temporary directory escapes.
Uninstall ==
  /\ pc = "uninstall"
  /\ \/ release' = FALSE /\ UNCHANGED teardown /\ Go("poll")
     \/ release' \in BOOLEAN /\ teardown' = [teardown EXCEPT !.error = TRUE] /\ Go("poll")
     \/ release' \in BOOLEAN /\ UNCHANGED teardown /\ Escape
  /\ UNCHANGED <<input, cluster, pods, thread, collector, errors, installed, findings>>

\* Slip: the loop has no deadline.
SlipAwaitPods ==
  /\ pc = "poll"
  /\ \/ ~pods /\ Go("delete") /\ UNCHANGED teardown
     \/ pods /\ UNCHANGED <<pc, raised, teardown>>
  /\ UNCHANGED <<input, environment, thread, collector, errors, installed, findings>>

\* The Pods are gone, the deadline has passed, or the API does not answer.
AwaitPods ==
  /\ pc = "poll"
  /\ \/ teardown' = [teardown EXCEPT !.leftovers = pods] /\ Go("delete")
     \/ teardown' = [teardown EXCEPT !.error = TRUE] /\ Go("delete")
     \/ Escape /\ UNCHANGED teardown
  /\ UNCHANGED <<input, environment, thread, collector, errors, installed, findings>>

\* Slip: a deletion that fails is not an error of the cleanup.
SlipDeleteCluster ==
  /\ pc = "delete"
  /\ \/ /\ cluster' = "absent" /\ release' = FALSE /\ pods' = FALSE
        /\ teardown' = [teardown EXCEPT !.deletion = "done"]
     \/ /\ teardown' = [teardown EXCEPT !.deletion = "failed"]
        /\ UNCHANGED environment
  /\ Go(IF raised = "other" THEN "raised" ELSE "returned")
  /\ UNCHANGED <<input, thread, collector, errors, installed, findings>>

\* kind.delete, then the removal of the kubeconfig's directory.
DeleteCluster ==
  /\ pc = "delete"
  /\ \/ /\ cluster' = "absent" /\ release' = FALSE /\ pods' = FALSE
        /\ teardown' = [teardown EXCEPT !.deletion = "done"]
     \/ /\ teardown' = [teardown EXCEPT !.deletion = "failed", !.error = TRUE]
        /\ UNCHANGED environment
  /\ Go(IF raised = "other" THEN "raised" ELSE "returned") \/ Escape
  /\ UNCHANGED <<input, thread, collector, errors, installed, findings>>

Main ==
  \/ CreateCluster \/ PrepareCluster \/ InstallMetricsServer \/ EnableDnsLogs
  \/ BeginInstall \/ EndInstall \/ CheckInstallation \/ AwaitReadiness
  \/ ExperimentNotReady \/ RunPlan \/ RunService \/ SkipExperiment
  \/ FillRemaining \/ HoldSteadyState \/ MeasureResources \/ ObserveDns
  \/ MeasureRecovery \/ CollectArtifacts \/ Handle
  \/ StopMonitor \/ StopCollector \/ Uninstall \/ AwaitPods \/ DeleteCluster

Terminated == Ended /\ UNCHANGED vars

Next ==
  \/ Main
  \/ WatchMatches \/ WatchFails \/ WatchEnds \/ CollectorEnds \/ PodsTerminate
  \/ Terminated

\* Every blocking call of the main thread has a timeout.
Fairness == WF_vars(Main)

Spec == Init /\ [][Next]_vars /\ Fairness

-----------------------------------------------------------------------------
(* Properties.                                                               *)

TypeOK ==
  /\ experiment \in Experiments /\ selected \subseteq Probed
  /\ pc \in {"create", "prepare", "metrics", "dns", "install", "installing", "triggered",
             "readiness", "experiment", "remaining", "resources", "network", "recovery",
             "artifacts", "unsafe", "infrastructure", "stop", "stop_collector", "uninstall",
             "poll", "delete", "returned", "raised"}
  /\ raised \in {"none", "unsafe", "infrastructure", "other"}
  /\ cluster \in {"absent", "present"} /\ release \in BOOLEAN /\ pods \in BOOLEAN
  /\ monitor \in {"none", "unstarted", "quiet", "violation", "failing", "failed"}
  /\ watching \in BOOLEAN
  /\ collector \in {"none", "unstarted", "running", "stuck", "stopped"}
  /\ errors \in [metrics : BOOLEAN, dns : BOOLEAN]
  /\ installed \in [attempted : BOOLEAN, helm : BOOLEAN, ready : BOOLEAN]
  /\ checks \in [Title -> Verdict \cup {"none"}]
  /\ trial \in Verdict \cup {"none"} /\ execution \in BOOLEAN
  /\ teardown \in [error : BOOLEAN, leftovers : BOOLEAN, deletion : {"none", "done", "failed"}]

\* When run_runtime builds its result, every runtime check has been written
\* (the lookup of each title cannot fail) and an experiment has left a check
\* of its own or an execution, whichever exception ended the run.
EveryCheckReported ==
  pc = "returned" =>
    /\ \A c \in Title : checks[c] # "none"
    /\ experiment = "service" => trial # "none"
    /\ Owns => execution \/ trial # "none"

\* Checks that run_runtime writes itself are cancelled only by a violation that
\* a Pod really showed; a monitor that failed is reported as infrastructure,
\* at each of the places that read the event and then the flag.
CancellationMeansViolation ==
  /\ \A c \in Title : checks[c] = "cancelled" /\ (c = "installation" \/ ~Owns) =>
        monitor = "violation"
  /\ trial = "cancelled" => monitor = "violation"

\* From the first product Pod until the finally block, either the monitor's
\* thread is alive or it ended by setting the event.
ProductIsWatched == pods /\ ~Stopping => watching \/ Triggered

\* A measurement beyond the installation check rests on an installation that
\* Helm finished and whose workloads became ready.
MeasuredOnBaseline ==
  trial = "measured" \/ (\E c \in Probed : checks[c] = "measured") =>
    installed.helm /\ installed.ready /\ checks["installation"] = "measured"

\* cleanup_succeeded is true of the world: no cluster, release or Pod is left.
CleanupTruthful ==
  pc = "returned" /\ ~teardown.error => cluster = "absent" /\ ~release /\ ~pods

\* An observer that outlives the cluster it reads is one whose join timed out:
\* a monitor then says that it failed, and of a collector that may still append
\* snapshots no resource check was measured.
OnlyAStuckThreadOutlivesTheCluster ==
  teardown.deletion # "none" =>
    /\ watching => monitor = "failed"
    /\ collector \in {"none", "stuck", "stopped"}
    /\ collector = "stuck" => checks["resources"] # "measured"

\* A measured check stays measured: no handler replaces the checks of an
\* experiment that ran (the execution and experiment_checks tests there).
MeasurementsSurvive == [][\A c \in Title : checks[c] = "measured" => checks'[c] = "measured"]_vars

\* A cluster that exists is deleted, or its deletion is reported to have
\* failed, or run_runtime raises.
Disposed ==
  cluster = "present" ~> (cluster = "absent" \/ (pc = "returned" /\ teardown.error) \/ pc = "raised")

\* run_runtime's own promise: "always attempt cluster teardown after create".
TeardownAttempted == Ended => teardown.deletion # "none"
=============================================================================
