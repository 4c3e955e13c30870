----------------------- MODULE RuntimeLifecycleProofs -----------------------
(***************************************************************************)
(* The safety properties of RuntimeLifecycle for every set of experiments.  *)
(* Each is proved with what the places of the main thread say of the state  *)
(* it reads: Reported, Watched, Blamed, Fresh, Baseline and Kept.           *)
(***************************************************************************)
EXTENDS RuntimeLifecycle, TLAPS

TypePlaces ==
  /\ experiment \in Experiments /\ selected \subseteq Probed
  /\ pc \in {"create", "prepare", "metrics", "dns", "install", "installing", "triggered",
             "readiness", "experiment", "remaining", "resources", "network", "recovery",
             "artifacts", "unsafe", "infrastructure", "stop", "stop_collector", "uninstall",
             "poll", "delete", "returned", "raised"}
  /\ raised \in {"none", "unsafe", "infrastructure", "other"}
  /\ cluster \in {"absent", "present"}
  /\ monitor \in {"none", "unstarted", "quiet", "violation", "failing", "failed"}
  /\ collector \in {"none", "unstarted", "running", "stuck", "stopped"}
  /\ trial \in Verdict \cup {"none"}

TypeFlags == release \in BOOLEAN /\ pods \in BOOLEAN /\ watching \in BOOLEAN /\ execution \in BOOLEAN

TypeRecords ==
  /\ errors \in [metrics : BOOLEAN, dns : BOOLEAN]
  /\ installed \in [attempted : BOOLEAN, helm : BOOLEAN, ready : BOOLEAN]
  /\ teardown \in [error : BOOLEAN, leftovers : BOOLEAN, deletion : {"none", "done", "failed"}]

TypeChecks == selected \subseteq Probed /\ checks \in [Title -> Verdict \cup {"none"}]

\* What run_runtime needs of the experiment, and for its result.
Experimented == /\ experiment = "service" => trial # "none"
                /\ Owns => execution \/ trial # "none"

Complete == (\A c \in Title : checks[c] # "none") /\ Experimented

\* Each place knows the checks that were written before it.
Reported ==
  /\ pc \in {"experiment", "remaining", "resources", "network", "recovery", "artifacts"} =>
        checks["installation"] # "none"
  /\ pc \in {"network", "recovery", "artifacts"} => checks["resources"] # "none"
  /\ pc \in {"recovery", "artifacts"} => checks["network"] # "none"
  /\ pc = "artifacts" => checks["recovery"] # "none"
  /\ pc \in {"remaining", "resources", "network", "recovery", "artifacts"} => Experimented
  /\ pc \in {"stop", "stop_collector", "uninstall", "poll", "delete"} /\ raised # "other" => Complete
  /\ pc = "returned" => Complete

\* The first two parts of OnlyAStuckThreadOutlivesTheCluster; Observed has the third.
ThreadsJoined ==
  teardown.deletion # "none" =>
    (watching => monitor = "failed") /\ collector \in {"none", "stuck", "stopped"}

\* The monitor is started before the product, and stopped before the cluster goes.
Watched ==
  /\ pc \in {"metrics", "dns", "install", "installing", "triggered", "readiness", "experiment",
             "remaining", "resources", "network", "recovery", "artifacts"} => watching \/ Triggered
  /\ pc \in {"stop_collector", "uninstall", "poll", "delete", "returned"} =>
        (watching => monitor = "failed")
  /\ pc \in {"uninstall", "poll", "delete", "returned"} =>
        collector \in {"none", "stuck", "stopped"}
  /\ ~Ended => teardown.deletion = "none"
  /\ ProductIsWatched /\ ThreadsJoined

\* Resources are measured only once the collector was joined, without an error.
Observed ==
  /\ Owns => collector = "none"
  /\ pc \in {"create", "prepare", "metrics", "dns"} =>
        collector = "none" /\ checks["resources"] # "measured"
  /\ pc = "resources" => collector \in {"none", "stuck", "stopped"}
  /\ pc = "resources" /\ collector = "stuck" => errors.metrics
  /\ checks["resources"] = "measured" => collector \in {"none", "stopped"}

\* UnsafeWorkloadError is in flight only after a violation, which is final.
Blamed ==
  /\ pc = "unsafe" => monitor = "violation"
  /\ monitor = "violation" => ~watching
  /\ pc \in {"create", "prepare"} => monitor = "none"
  /\ CancellationMeansViolation

\* Checks that are not written before their place.
Fresh ==
  /\ pc \in {"create", "prepare", "metrics", "dns", "install", "installing", "triggered", "readiness"} =>
        trial = "none" /\ ~installed.ready /\ \A c \in Title : checks[c] = "none"
  /\ pc = "experiment" => trial = "none" /\ \A c \in Probed : checks[c] = "none"
  /\ pc = "remaining" /\ ~Owns => \A c \in Probed : checks[c] = "none"
  /\ pc = "resources" => \A c \in Probed : checks[c] = "none"
  /\ pc = "network" => checks["network"] = "none" /\ checks["recovery"] = "none"
  /\ pc = "recovery" => checks["recovery"] = "none"

Baseline ==
  /\ installed.ready => installed.helm /\ checks["installation"] = "measured"
  /\ pc \in {"resources", "network", "recovery"} => installed.ready
  /\ MeasuredOnBaseline

\* The checks of a plan are measured only together with its execution.
Kept ==
  /\ pc \in {"resources", "network", "recovery"} => ~Owns
  /\ Owns /\ ~execution => \A c \in selected : checks[c] # "measured"

IInv ==
  /\ TypePlaces /\ TypeFlags /\ TypeRecords /\ TypeChecks
  /\ Reported /\ Watched /\ Observed /\ Blamed /\ Fresh /\ Baseline /\ Kept /\ CleanupTruthful

-----------------------------------------------------------------------------
LEMMA InitHolds == Init => IInv
<1>0. SUFFICES ASSUME Init PROVE IInv
  OBVIOUS
<1>1. TypePlaces /\ TypeFlags
  BY <1>0 DEF Init, TypePlaces, TypeFlags, Owns, Probed, Title
<1>2. TypeRecords /\ TypeChecks
  BY <1>0 DEF Init, TypeRecords, TypeChecks, Owns, Probed, Title, Verdict
<1>3. Reported /\ Fresh
  BY <1>0 DEF Init, Reported, Fresh, Experimented, Title, Probed
<1>4. Watched
  BY <1>0 DEF Init, Watched, ProductIsWatched, ThreadsJoined
<1>7. Observed
  BY <1>0 DEF Init, Observed, Title
<1>5. Blamed /\ CleanupTruthful
  BY <1>0 DEF Init, Blamed, CancellationMeansViolation, Title, CleanupTruthful
<1>6. Baseline /\ Kept
  BY <1>0 DEF Init, Baseline, MeasuredOnBaseline, Kept, Owns, Probed, Title
<1> QED
  BY <1>1, <1>2, <1>3, <1>4, <1>5, <1>6, <1>7 DEF IInv

LEMMA PlacesStep ==
  ASSUME TypePlaces, [Next]_vars
  PROVE  TypePlaces'
<1>1. CASE CreateCluster
  BY <1>1 DEF CreateCluster, Go, Raise, TypePlaces, Verdict, vars, input, thread, environment,
    findings
<1>2. CASE PrepareCluster
  BY <1>2 DEF PrepareCluster, Go, Raise, TypePlaces, Verdict, vars, input, thread, environment,
    findings
<1>3. CASE InstallMetricsServer
  BY <1>3 DEF InstallMetricsServer, Go, Raise, TypePlaces, Verdict, vars, input, thread,
    environment, findings
<1>4. CASE EnableDnsLogs
  BY <1>4 DEF EnableDnsLogs, Go, Raise, Owns, TypePlaces, Verdict, vars, input, thread,
    environment, findings
<1>5. CASE BeginInstall
  BY <1>5 DEF BeginInstall, Go, TypePlaces, Verdict, vars, input, thread, environment, findings
<1>6. CASE EndInstall
  BY <1>6 DEF EndInstall, Go, Raise, TypePlaces, Verdict, vars, input, thread, environment, findings
<1>7. CASE CheckInstallation
  BY <1>7 DEF CheckInstallation, Go, Raise, Triggered, InfrastructureError, TypePlaces, Verdict,
    vars, input, thread, environment, findings
<1>8. CASE AwaitReadiness
  BY <1>8 DEF AwaitReadiness, Go, Raise, TypePlaces, Verdict, vars, input, thread, environment,
    findings
<1>9. CASE ExperimentNotReady
  BY <1>9 DEF ExperimentNotReady, Go, AddChecks, NotRun, Owns, TypePlaces, Verdict, vars, input,
    thread, environment, findings
<1>10. CASE RunPlan
  BY <1>10 DEF RunPlan, Go, Raise, AddChecks, NotRun, Owns, TypePlaces, Verdict, vars, input,
    thread, environment, findings
<1>11. CASE RunService
  BY <1>11 DEF RunService, Go, Raise, Triggered, InfrastructureError, TypePlaces, Verdict, vars,
    input, thread, environment, findings
<1>12. CASE SkipExperiment
  BY <1>12 DEF SkipExperiment, Go, TypePlaces, Verdict, vars, input, thread, environment,
    findings
<1>13. CASE FillRemaining
  BY <1>13 DEF FillRemaining, Joined, Go, Fill, Owns, TypePlaces, Verdict, vars, input, thread,
    environment, findings
<1>14. CASE HoldSteadyState
  BY <1>14 DEF HoldSteadyState, Joined, Go, Raise, Triggered, InfrastructureError, Owns, TypePlaces,
    Verdict, vars, input, thread, environment, findings
<1>15. CASE MeasureResources
  BY <1>15 DEF MeasureResources, Go, TypePlaces, Verdict, vars, input, thread, environment,
    findings
<1>16. CASE ObserveDns
  BY <1>16 DEF ObserveDns, Go, Raise, TypePlaces, Verdict, vars, input, thread, environment,
    findings
<1>17. CASE MeasureRecovery
  BY <1>17 DEF MeasureRecovery, Go, Raise, Triggered, InfrastructureError, TypePlaces, Verdict,
    vars, input, thread, environment, findings
<1>18. CASE CollectArtifacts
  BY <1>18 DEF CollectArtifacts, Go, Raise, TypePlaces, Verdict, vars, input, thread,
    environment, findings
<1>19. CASE Handle
  BY <1>19 DEF Handle, Go, Fill, Owns, TypePlaces, Verdict, vars, input, thread, environment,
    findings
<1>20. CASE StopMonitor
  BY <1>20 DEF StopMonitor, Escape, Go, TypePlaces, Verdict, vars, input, thread, environment,
    findings
<1>40. CASE StopCollector
  BY <1>40 DEF StopCollector, Joined, Escape, Go, TypePlaces, Verdict, vars, input, thread,
    environment, findings
<1>21. CASE Uninstall
  BY <1>21 DEF Uninstall, Escape, Go, TypePlaces, Verdict, vars, input, thread, environment,
    findings
<1>22. CASE AwaitPods
  BY <1>22 DEF AwaitPods, Escape, Go, TypePlaces, Verdict, vars, input, thread, environment,
    findings
<1>23. CASE DeleteCluster
  BY <1>23 DEF DeleteCluster, Escape, Go, TypePlaces, Verdict, vars, input, thread, environment,
    findings
<1>24. CASE WatchMatches
  BY <1>24 DEF WatchMatches, Others, TypePlaces, Verdict, vars, input, thread, environment,
    findings
<1>25. CASE WatchFails
  <2>1. UNCHANGED <<experiment, selected, pc, raised, cluster, collector, trial>>
    BY <1>25 DEF WatchFails, Others, input, environment, findings
  <2>2. monitor' \in {"failing", "failed"}
    BY <1>25 DEF WatchFails
  <2> QED
    BY <2>1, <2>2 DEF TypePlaces
<1>26. CASE WatchEnds \/ PodsTerminate \/ UNCHANGED vars
  <2>1. UNCHANGED <<experiment, selected, pc, raised, cluster, monitor, collector, trial>>
    BY <1>26 DEF WatchEnds, Others, Stopping, Ended, PodsTerminate, vars, input, thread,
      environment, findings
  <2> QED
    BY <2>1 DEF TypePlaces, Verdict
<1>41. CASE CollectorEnds
  <2>1. /\ UNCHANGED <<experiment, selected, pc, raised, cluster, monitor, trial>>
        /\ collector = "stuck" /\ collector' = "stopped"
    BY <1>41 DEF CollectorEnds, input, thread, environment, findings
  <2> QED
    BY <2>1 DEF TypePlaces, Verdict
<1> QED
  BY <1>40, <1>41, <1>1, <1>2, <1>3, <1>4, <1>5, <1>6, <1>7, <1>8, <1>9, <1>10, <1>11, <1>12,
    <1>13, <1>14,
    <1>15, <1>16, <1>17, <1>18, <1>19, <1>20, <1>21, <1>22, <1>23, <1>24, <1>25, <1>26
  DEF Next, Main, Terminated

LEMMA FlagsStep ==
  ASSUME TypeFlags, [Next]_vars
  PROVE  TypeFlags'
<1>1. CASE PrepareCluster
  BY <1>1 DEF PrepareCluster, Go, Raise, TypeFlags, vars, input, thread, environment, findings
<1>2. CASE BeginInstall
  BY <1>2 DEF BeginInstall, Go, TypeFlags, vars, input, thread, environment, findings
<1>3. CASE ExperimentNotReady
  BY <1>3 DEF ExperimentNotReady, Go, AddChecks, NotRun, Owns, TypeFlags, vars, input, thread,
    environment, findings
<1>4. CASE RunPlan
  BY <1>4 DEF RunPlan, Go, Raise, AddChecks, NotRun, Owns, TypeFlags, vars, input, thread,
    environment, findings
<1>5. CASE Handle
  BY <1>5 DEF Handle, Go, Fill, Owns, TypeFlags, vars, input, thread, environment, findings
<1>6. CASE Uninstall
  BY <1>6 DEF Uninstall, Escape, Go, TypeFlags, vars, input, thread, environment, findings
<1>7. CASE DeleteCluster
  BY <1>7 DEF DeleteCluster, Escape, Go, TypeFlags, vars, input, thread, environment, findings
<1>8. CASE WatchMatches
  BY <1>8 DEF WatchMatches, Others, TypeFlags, vars, input, thread, environment, findings
<1>9. CASE WatchFails
  BY <1>9 DEF WatchFails, Others, TypeFlags, vars, input, thread, environment, findings
<1>10. CASE WatchEnds
  BY <1>10 DEF WatchEnds, Others, Stopping, Ended, TypeFlags, vars, input, thread, environment,
    findings
<1>11. CASE PodsTerminate
  BY <1>11 DEF PodsTerminate, Others, TypeFlags, vars, input, thread, environment, findings
<1>12. CASE CreateCluster \/ InstallMetricsServer \/ EnableDnsLogs
  <2>1. UNCHANGED <<release, pods, watching, execution>>
    BY <1>12 DEF CreateCluster, Go, Raise, InstallMetricsServer, EnableDnsLogs, Owns, vars,
      input, thread, environment, findings
  <2> QED
    BY <2>1 DEF TypeFlags
<1>13. CASE EndInstall \/ CheckInstallation \/ AwaitReadiness
  <2>1. UNCHANGED <<release, pods, watching, execution>>
    BY <1>13 DEF EndInstall, Go, CheckInstallation, Raise, Triggered, InfrastructureError,
      AwaitReadiness, vars, input, thread, environment, findings
  <2> QED
    BY <2>1 DEF TypeFlags
<1>14. CASE RunService \/ SkipExperiment \/ FillRemaining
  <2>1. UNCHANGED <<release, pods, watching, execution>>
    BY <1>14 DEF RunService, Go, Raise, Triggered, InfrastructureError, SkipExperiment,
      FillRemaining, Joined, Fill, Owns, vars, input, thread, environment, findings
  <2> QED
    BY <2>1 DEF TypeFlags
<1>15. CASE HoldSteadyState \/ MeasureResources \/ ObserveDns
  <2>1. UNCHANGED <<release, pods, watching, execution>>
    BY <1>15 DEF HoldSteadyState, Joined, Go, Raise, Triggered, InfrastructureError, Owns,
      MeasureResources, ObserveDns, vars, input, thread, environment, findings
  <2> QED
    BY <2>1 DEF TypeFlags
<1>16. CASE MeasureRecovery \/ CollectArtifacts \/ StopMonitor \/ StopCollector
  <2>1. UNCHANGED <<release, pods, watching, execution>>
    BY <1>16 DEF MeasureRecovery, Go, Raise, Triggered, InfrastructureError, CollectArtifacts,
      StopMonitor, StopCollector, Joined, Escape, vars, input, thread, environment, findings
  <2> QED
    BY <2>1 DEF TypeFlags
<1>17. CASE AwaitPods \/ UNCHANGED vars
  <2>1. UNCHANGED <<release, pods, watching, execution>>
    BY <1>17 DEF AwaitPods, Escape, Go, vars, input, thread, environment, findings
  <2> QED
    BY <2>1 DEF TypeFlags
<1>41. CASE CollectorEnds
  <2>1. UNCHANGED <<release, pods, watching, execution>>
    BY <1>41 DEF CollectorEnds, input, thread, environment, findings
  <2> QED
    BY <2>1 DEF TypeFlags
<1> QED
  BY <1>41, <1>1, <1>2, <1>3, <1>4, <1>5, <1>6, <1>7, <1>8, <1>9, <1>10, <1>11, <1>12, <1>13, <1>14,
    <1>15, <1>16, <1>17
  DEF Next, Main, Terminated

LEMMA RecordsStep ==
  ASSUME TypePlaces /\ TypeFlags /\ TypeRecords, [Next]_vars
  PROVE  TypeRecords'
<1>1. CASE InstallMetricsServer
  BY <1>1 DEF InstallMetricsServer, Go, Raise, TypePlaces, TypeFlags, TypeRecords, vars, input,
    thread, environment, findings
<1>2. CASE EnableDnsLogs
  BY <1>2 DEF EnableDnsLogs, Go, Raise, Owns, TypePlaces, TypeFlags, TypeRecords, vars, input,
    thread, environment, findings
<1>3. CASE BeginInstall
  BY <1>3 DEF BeginInstall, Go, TypePlaces, TypeFlags, TypeRecords, vars, input, thread,
    environment, findings
<1>4. CASE EndInstall
  BY <1>4 DEF EndInstall, Go, Raise, TypePlaces, TypeFlags, TypeRecords, vars, input, thread,
    environment, findings
<1>5. CASE AwaitReadiness
  BY <1>5 DEF AwaitReadiness, Go, Raise, TypePlaces, TypeFlags, TypeRecords, vars, input,
    thread, environment, findings
<1>6. CASE HoldSteadyState
  BY <1>6 DEF HoldSteadyState, Joined, Go, Raise, Triggered, InfrastructureError, Owns, TypePlaces,
    TypeFlags, TypeRecords, vars, input, thread, environment, findings
<1>7. CASE Uninstall
  BY <1>7 DEF Uninstall, Escape, Go, TypePlaces, TypeFlags, TypeRecords, vars, input, thread,
    environment, findings
<1>8. CASE AwaitPods
  BY <1>8 DEF AwaitPods, Escape, Go, TypePlaces, TypeFlags, TypeRecords, vars, input, thread,
    environment, findings
<1>9. CASE DeleteCluster
  BY <1>9 DEF DeleteCluster, Escape, Go, TypePlaces, TypeFlags, TypeRecords, vars, input, thread,
    environment, findings
<1>10. CASE PodsTerminate
  BY <1>10 DEF PodsTerminate, Others, TypePlaces, TypeFlags, TypeRecords, vars, input, thread,
    environment, findings
<1>11. CASE CreateCluster \/ PrepareCluster \/ CheckInstallation
  <2>1. UNCHANGED <<errors, installed, teardown, pods>>
    BY <1>11 DEF CreateCluster, Go, Raise, PrepareCluster, CheckInstallation, Triggered,
      InfrastructureError, vars, input, thread, environment, findings
  <2> QED
    BY <2>1 DEF TypePlaces, TypeFlags, TypeRecords
<1>12. CASE ExperimentNotReady \/ RunPlan \/ RunService
  <2>1. UNCHANGED <<errors, installed, teardown, pods>>
    BY <1>12 DEF ExperimentNotReady, Go, AddChecks, NotRun, Owns, RunPlan, Raise, RunService,
      Triggered, InfrastructureError, vars, input, thread, environment, findings
  <2> QED
    BY <2>1 DEF TypePlaces, TypeFlags, TypeRecords
<1>13. CASE SkipExperiment \/ FillRemaining \/ MeasureResources
  <2>1. UNCHANGED <<errors, installed, teardown, pods>>
    BY <1>13 DEF SkipExperiment, Go, FillRemaining, Joined, Fill, Owns, MeasureResources, vars,
      input, thread, environment, findings
  <2> QED
    BY <2>1 DEF TypePlaces, TypeFlags, TypeRecords
<1>14. CASE ObserveDns \/ MeasureRecovery \/ CollectArtifacts
  <2>1. UNCHANGED <<errors, installed, teardown, pods>>
    BY <1>14 DEF ObserveDns, Go, Raise, MeasureRecovery, Triggered, InfrastructureError,
      CollectArtifacts, vars, input, thread, environment, findings
  <2> QED
    BY <2>1 DEF TypePlaces, TypeFlags, TypeRecords
<1>15. CASE Handle \/ StopMonitor \/ StopCollector \/ WatchMatches
  <2>1. UNCHANGED <<errors, installed, teardown, pods>>
    BY <1>15 DEF Handle, Go, Fill, Owns, StopMonitor, StopCollector, Joined, Escape,
      WatchMatches, Others, vars, input, thread, environment, findings
  <2> QED
    BY <2>1 DEF TypePlaces, TypeFlags, TypeRecords
<1>16. CASE WatchFails \/ WatchEnds \/ UNCHANGED vars
  <2>1. UNCHANGED <<errors, installed, teardown, pods>>
    BY <1>16 DEF WatchFails, Others, WatchEnds, Stopping, Ended, vars, input, thread,
      environment, findings
  <2> QED
    BY <2>1 DEF TypePlaces, TypeFlags, TypeRecords
<1>41. CASE CollectorEnds
  <2>1. UNCHANGED <<errors, installed, teardown, pods>>
    BY <1>41 DEF CollectorEnds, input, thread, environment, findings
  <2> QED
    BY <2>1 DEF TypePlaces, TypeFlags, TypeRecords
<1> QED
  BY <1>41, <1>1, <1>2, <1>3, <1>4, <1>5, <1>6, <1>7, <1>8, <1>9, <1>10, <1>11, <1>12, <1>13, <1>14,
    <1>15, <1>16
  DEF Next, Main, Terminated

LEMMA ChecksStep ==
  ASSUME TypePlaces /\ TypeChecks, [Next]_vars
  PROVE  TypeChecks'
<1>1. CASE AwaitReadiness
  BY <1>1 DEF AwaitReadiness, Go, Raise, TypePlaces, TypeChecks, Title, Probed, Verdict, vars,
    input, thread, environment, findings
<1>2. CASE ExperimentNotReady
  BY <1>2 DEF ExperimentNotReady, Go, AddChecks, NotRun, Owns, TypePlaces, TypeChecks, Title,
    Probed, Verdict, vars, input, thread, environment, findings
<1>3. CASE RunPlan
  BY <1>3 DEF RunPlan, Go, Raise, AddChecks, NotRun, Owns, TypePlaces, TypeChecks, Title,
    Probed, Verdict, vars, input, thread, environment, findings
<1>4. CASE FillRemaining
  BY <1>4 DEF FillRemaining, Joined, Go, Fill, Owns, TypePlaces, TypeChecks, Title, Probed, Verdict,
    vars, input, thread, environment, findings
<1>5. CASE MeasureResources
  BY <1>5 DEF MeasureResources, Go, TypePlaces, TypeChecks, Title, Probed, Verdict, vars, input,
    thread, environment, findings
<1>6. CASE ObserveDns
  BY <1>6 DEF ObserveDns, Go, Raise, TypePlaces, TypeChecks, Title, Probed, Verdict, vars,
    input, thread, environment, findings
<1>7. CASE MeasureRecovery
  BY <1>7 DEF MeasureRecovery, Go, Raise, Triggered, InfrastructureError, TypePlaces,
    TypeChecks, Title, Probed, Verdict, vars, input, thread, environment, findings
<1>8. CASE Handle
  BY <1>8 DEF Handle, Go, Fill, Owns, TypePlaces, TypeChecks, Title, Probed, Verdict, vars,
    input, thread, environment, findings
<1>9. CASE CreateCluster \/ PrepareCluster \/ InstallMetricsServer
  <2>1. UNCHANGED <<checks, selected>>
    BY <1>9 DEF CreateCluster, Go, Raise, PrepareCluster, InstallMetricsServer, vars, input,
      thread, environment, findings
  <2> QED
    BY <2>1 DEF TypePlaces, TypeChecks, Title, Probed, Verdict
<1>10. CASE EnableDnsLogs \/ BeginInstall \/ EndInstall
  <2>1. UNCHANGED <<checks, selected>>
    BY <1>10 DEF EnableDnsLogs, Go, Raise, Owns, BeginInstall, EndInstall, vars, input, thread,
      environment, findings
  <2> QED
    BY <2>1 DEF TypePlaces, TypeChecks, Title, Probed, Verdict
<1>11. CASE CheckInstallation \/ RunService \/ SkipExperiment
  <2>1. UNCHANGED <<checks, selected>>
    BY <1>11 DEF CheckInstallation, Go, Raise, Triggered, InfrastructureError, RunService,
      SkipExperiment, vars, input, thread, environment, findings
  <2> QED
    BY <2>1 DEF TypePlaces, TypeChecks, Title, Probed, Verdict
<1>12. CASE HoldSteadyState \/ CollectArtifacts \/ StopMonitor \/ StopCollector
  <2>1. UNCHANGED <<checks, selected>>
    BY <1>12 DEF HoldSteadyState, Go, Raise, Triggered, InfrastructureError, Owns,
      CollectArtifacts, StopMonitor, StopCollector, Joined, Escape, vars, input, thread,
      environment, findings
  <2> QED
    BY <2>1 DEF TypePlaces, TypeChecks, Title, Probed, Verdict
<1>13. CASE Uninstall \/ AwaitPods \/ DeleteCluster
  <2>1. UNCHANGED <<checks, selected>>
    BY <1>13 DEF Uninstall, Escape, Go, AwaitPods, DeleteCluster, vars, input, thread, environment,
      findings
  <2> QED
    BY <2>1 DEF TypePlaces, TypeChecks, Title, Probed, Verdict
<1>14. CASE WatchMatches \/ WatchFails \/ WatchEnds
  <2>1. UNCHANGED <<checks, selected>>
    BY <1>14 DEF WatchMatches, Others, WatchFails, WatchEnds, Stopping, Ended, vars, input,
      thread, environment, findings
  <2> QED
    BY <2>1 DEF TypePlaces, TypeChecks, Title, Probed, Verdict
<1>15. CASE PodsTerminate \/ UNCHANGED vars
  <2>1. UNCHANGED <<checks, selected>>
    BY <1>15 DEF PodsTerminate, Others, vars, input, thread, environment, findings
  <2> QED
    BY <2>1 DEF TypePlaces, TypeChecks, Title, Probed, Verdict
<1>41. CASE CollectorEnds
  <2>1. UNCHANGED <<checks, selected>>
    BY <1>41 DEF CollectorEnds, input, thread, environment, findings
  <2> QED
    BY <2>1 DEF TypePlaces, TypeChecks, Title, Probed, Verdict
<1> QED
  BY <1>41, <1>1, <1>2, <1>3, <1>4, <1>5, <1>6, <1>7, <1>8, <1>9, <1>10, <1>11, <1>12, <1>13, <1>14,
    <1>15
  DEF Next, Main, Terminated

LEMMA ReportedStep ==
  ASSUME TypePlaces /\ TypeChecks /\ Reported, [Next]_vars
  PROVE  Reported'
<1>1. CASE CreateCluster
  BY <1>1 DEF CreateCluster, Go, Raise, TypePlaces, TypeChecks, Reported, Complete,
    Experimented, Owns, Title, Probed, Verdict, vars, input, thread, environment, findings
<1>2. CASE PrepareCluster
  BY <1>2 DEF PrepareCluster, Go, Raise, TypePlaces, TypeChecks, Reported, Complete,
    Experimented, Owns, Title, Probed, Verdict, vars, input, thread, environment, findings
<1>3. CASE InstallMetricsServer
  BY <1>3 DEF InstallMetricsServer, Go, Raise, TypePlaces, TypeChecks, Reported, Complete,
    Experimented, Owns, Title, Probed, Verdict, vars, input, thread, environment, findings
<1>4. CASE EnableDnsLogs
  BY <1>4 DEF EnableDnsLogs, Go, Raise, Owns, TypePlaces, TypeChecks, Reported, Complete,
    Experimented, Title, Probed, Verdict, vars, input, thread, environment, findings
<1>5. CASE BeginInstall
  BY <1>5 DEF BeginInstall, Go, TypePlaces, TypeChecks, Reported, Complete, Experimented, Owns,
    Title, Probed, Verdict, vars, input, thread, environment, findings
<1>6. CASE EndInstall
  BY <1>6 DEF EndInstall, Go, Raise, TypePlaces, TypeChecks, Reported, Complete, Experimented, Owns,
    Title, Probed, Verdict, vars, input, thread, environment, findings
<1>7. CASE CheckInstallation
  BY <1>7 DEF CheckInstallation, Go, Raise, Triggered, InfrastructureError, TypePlaces,
    TypeChecks, Reported, Complete, Experimented, Owns, Title, Probed, Verdict, vars, input,
    thread, environment, findings
<1>8. CASE AwaitReadiness
  BY <1>8 DEF AwaitReadiness, Go, Raise, TypePlaces, TypeChecks, Reported, Complete,
    Experimented, Owns, Title, Probed, Verdict, vars, input, thread, environment, findings
<1>9. CASE ExperimentNotReady
  BY <1>9 DEF ExperimentNotReady, Go, AddChecks, NotRun, Owns, TypePlaces, TypeChecks, Reported,
    Complete, Experimented, Title, Probed, Verdict, vars, input, thread, environment, findings
<1>10. CASE RunPlan
  BY <1>10 DEF RunPlan, Go, Raise, AddChecks, NotRun, Owns, TypePlaces, TypeChecks, Reported,
    Complete, Experimented, Title, Probed, Verdict, vars, input, thread, environment, findings
<1>11. CASE RunService
  BY <1>11 DEF RunService, Go, Raise, Triggered, InfrastructureError, TypePlaces, TypeChecks,
    Reported, Complete, Experimented, Owns, Title, Probed, Verdict, vars, input, thread,
    environment, findings
<1>12. CASE SkipExperiment
  BY <1>12 DEF SkipExperiment, Go, TypePlaces, TypeChecks, Reported, Complete, Experimented,
    Owns, Title, Probed, Verdict, vars, input, thread, environment, findings
<1>13. CASE FillRemaining
  BY <1>13 DEF FillRemaining, Joined, Go, Fill, Owns, TypePlaces, TypeChecks, Reported, Complete,
    Experimented, Title, Probed, Verdict, vars, input, thread, environment, findings
<1>14. CASE HoldSteadyState
  BY <1>14 DEF HoldSteadyState, Joined, Go, Raise, Triggered, InfrastructureError, Owns, TypePlaces,
    TypeChecks, Reported, Complete, Experimented, Title, Probed, Verdict, vars, input, thread,
    environment, findings
<1>15. CASE MeasureResources
  BY <1>15 DEF MeasureResources, Go, TypePlaces, TypeChecks, Reported, Complete, Experimented,
    Owns, Title, Probed, Verdict, vars, input, thread, environment, findings
<1>16. CASE ObserveDns
  BY <1>16 DEF ObserveDns, Go, Raise, TypePlaces, TypeChecks, Reported, Complete, Experimented,
    Owns, Title, Probed, Verdict, vars, input, thread, environment, findings
<1>17. CASE MeasureRecovery
  BY <1>17 DEF MeasureRecovery, Go, Raise, Triggered, InfrastructureError, TypePlaces,
    TypeChecks, Reported, Complete, Experimented, Owns, Title, Probed, Verdict, vars, input,
    thread, environment, findings
<1>18. CASE CollectArtifacts
  BY <1>18 DEF CollectArtifacts, Go, Raise, TypePlaces, TypeChecks, Reported, Complete,
    Experimented, Owns, Title, Probed, Verdict, vars, input, thread, environment, findings
<1>19. CASE Handle
  BY <1>19 DEF Handle, Go, Fill, Owns, TypePlaces, TypeChecks, Reported, Complete, Experimented,
    Title, Probed, Verdict, vars, input, thread, environment, findings
<1>20. CASE StopMonitor
  BY <1>20 DEF StopMonitor, Escape, Go, TypePlaces, TypeChecks, Reported, Complete, Experimented,
    Owns, Title, Probed, Verdict, vars, input, thread, environment, findings
<1>40. CASE StopCollector
  BY <1>40 DEF StopCollector, Joined, Escape, Go, TypePlaces, TypeChecks, Reported, Complete,
    Experimented, Owns, Title, Probed, Verdict, vars, input, thread, environment, findings
<1>21. CASE Uninstall
  BY <1>21 DEF Uninstall, Escape, Go, TypePlaces, TypeChecks, Reported, Complete, Experimented,
    Owns, Title, Probed, Verdict, vars, input, thread, environment, findings
<1>22. CASE AwaitPods
  BY <1>22 DEF AwaitPods, Escape, Go, TypePlaces, TypeChecks, Reported, Complete, Experimented,
    Owns, Title, Probed, Verdict, vars, input, thread, environment, findings
<1>23. CASE DeleteCluster
  BY <1>23 DEF DeleteCluster, Escape, Go, TypePlaces, TypeChecks, Reported, Complete, Experimented,
    Owns, Title, Probed, Verdict, vars, input, thread, environment, findings
<1>24. CASE WatchMatches \/ WatchFails \/ WatchEnds
  <2>1. UNCHANGED <<pc, raised, checks, trial, execution, experiment>>
    BY <1>24 DEF WatchMatches, Others, WatchFails, WatchEnds, Stopping, Ended, vars, input,
      thread, environment, findings
  <2> QED
    BY <2>1 DEF TypePlaces, TypeChecks, Reported, Complete, Experimented, Owns, Title, Probed,
      Verdict
<1>25. CASE PodsTerminate \/ UNCHANGED vars
  <2>1. UNCHANGED <<pc, raised, checks, trial, execution, experiment>>
    BY <1>25 DEF PodsTerminate, Others, vars, input, thread, environment, findings
  <2> QED
    BY <2>1 DEF TypePlaces, TypeChecks, Reported, Complete, Experimented, Owns, Title, Probed,
      Verdict
<1>41. CASE CollectorEnds
  <2>1. UNCHANGED <<pc, raised, checks, trial, execution, experiment>>
    BY <1>41 DEF CollectorEnds, input, thread, environment, findings
  <2> QED
    BY <2>1 DEF TypePlaces, TypeChecks, Reported, Complete, Experimented, Owns, Title, Probed,
      Verdict
<1> QED
  BY <1>40, <1>41, <1>1, <1>2, <1>3, <1>4, <1>5, <1>6, <1>7, <1>8, <1>9, <1>10, <1>11, <1>12,
    <1>13, <1>14,
    <1>15, <1>16, <1>17, <1>18, <1>19, <1>20, <1>21, <1>22, <1>23, <1>24, <1>25
  DEF Next, Main, Terminated

LEMMA WatchedStep ==
  ASSUME TypePlaces /\ TypeRecords /\ Watched, [Next]_vars
  PROVE  Watched'
<1>1. CASE CreateCluster
  BY <1>1 DEF CreateCluster, Go, Raise, TypePlaces, TypeRecords, Watched, Triggered, Stopping,
    Ended, ProductIsWatched, ThreadsJoined, vars, input, thread,
    environment, findings
<1>2. CASE PrepareCluster
  <2>1. pc = "prepare" /\ pc' \in {"metrics", "infrastructure", "stop"} /\ UNCHANGED <<pods, teardown>>
    BY <1>2 DEF PrepareCluster, Go, Raise, environment
  <2>2. CASE Go("metrics") /\ monitor' = "quiet" /\ watching' = TRUE
    BY <2>1, <2>2 DEF TypePlaces, Go, Watched, ProductIsWatched, Stopping, Ended,
      ThreadsJoined
  <2>3. CASE \E exc \in {"infrastructure", "other"} : Raise(exc) /\ UNCHANGED thread
    <3>1. pc' \in {"infrastructure", "stop"} /\ UNCHANGED <<monitor, watching>>
      BY <2>3 DEF Raise, thread
    <3> QED
      BY <1>2, <2>1, <3>1 DEF PrepareCluster, TypePlaces, Watched, Triggered, ProductIsWatched,
        Stopping, Ended, ThreadsJoined
  <2>4. CASE Raise("other") /\ monitor' = "unstarted" /\ UNCHANGED watching
    <3>1. pc' = "stop" /\ UNCHANGED <<watching, collector>>
      BY <1>2, <2>4 DEF PrepareCluster, Raise
    <3> QED
      BY <2>1, <3>1 DEF TypePlaces, Watched, ProductIsWatched, Stopping, Ended, ThreadsJoined
  <2> QED
    BY <1>2, <2>2, <2>3, <2>4 DEF PrepareCluster
<1>3. CASE InstallMetricsServer
  BY <1>3 DEF InstallMetricsServer, Go, Raise, TypePlaces, TypeRecords, Watched, Triggered,
    Stopping, Ended, ProductIsWatched, ThreadsJoined, vars, input, thread,
    environment, findings
<1>4. CASE EnableDnsLogs
  <2>1. pc' \in {"install", "stop"} /\ pc = "dns"
    BY <1>4 DEF EnableDnsLogs, Go, Raise
  <2>2. UNCHANGED <<pods, monitor, watching, teardown>>
    BY <1>4 DEF EnableDnsLogs, thread, environment
  <2>3. collector' \in {"none", "unstarted", "running", collector}
    BY <1>4 DEF EnableDnsLogs
  <2> QED
    BY <2>1, <2>2, <2>3 DEF TypePlaces, Watched, Triggered, ProductIsWatched, Stopping, Ended,
      ThreadsJoined
<1>5. CASE BeginInstall
  BY <1>5 DEF BeginInstall, Go, TypePlaces, TypeRecords, Watched, Triggered, Stopping, Ended,
    ProductIsWatched, ThreadsJoined, vars, input, thread, environment,
    findings
<1>6. CASE EndInstall
  BY <1>6 DEF EndInstall, Go, Raise, TypePlaces, TypeRecords, Watched, Triggered, Stopping, Ended,
    ProductIsWatched, ThreadsJoined, vars, input, thread, environment,
    findings
<1>7. CASE CheckInstallation
  BY <1>7 DEF CheckInstallation, Go, Raise, Triggered, InfrastructureError, TypePlaces,
    TypeRecords, Watched, Stopping, Ended, ProductIsWatched, ThreadsJoined,
    vars, input, thread, environment, findings
<1>8. CASE AwaitReadiness
  BY <1>8 DEF AwaitReadiness, Go, Raise, TypePlaces, TypeRecords, Watched, Triggered, Stopping,
    Ended, ProductIsWatched, ThreadsJoined, vars, input, thread,
    environment, findings
<1>9. CASE ExperimentNotReady
  BY <1>9 DEF ExperimentNotReady, Go, AddChecks, NotRun, Owns, TypePlaces, TypeRecords, Watched,
    Triggered, Stopping, Ended, ProductIsWatched, ThreadsJoined, vars,
    input, thread, environment, findings
<1>10. CASE RunPlan
  BY <1>10 DEF RunPlan, Go, Raise, AddChecks, NotRun, Owns, TypePlaces, TypeRecords, Watched,
    Triggered, Stopping, Ended, ProductIsWatched, ThreadsJoined, vars,
    input, thread, environment, findings
<1>11. CASE RunService
  BY <1>11 DEF RunService, Go, Raise, Triggered, InfrastructureError, TypePlaces, TypeRecords,
    Watched, Stopping, Ended, ProductIsWatched, ThreadsJoined, vars, input,
    thread, environment, findings
<1>12. CASE SkipExperiment
  BY <1>12 DEF SkipExperiment, Go, TypePlaces, TypeRecords, Watched, Triggered, Stopping, Ended,
    ProductIsWatched, ThreadsJoined, vars, input, thread, environment,
    findings
<1>13. CASE FillRemaining
  BY <1>13 DEF FillRemaining, Go, Fill, Owns, TypePlaces, TypeRecords, Watched, Triggered,
    Stopping, Ended, ProductIsWatched, ThreadsJoined, vars, input, thread,
    environment, findings
<1>14. CASE HoldSteadyState
  BY <1>14 DEF HoldSteadyState, Go, Raise, Triggered, InfrastructureError, Owns, TypePlaces,
    TypeRecords, Watched, Stopping, Ended, ProductIsWatched, ThreadsJoined,
    vars, input, thread, environment, findings
<1>15. CASE MeasureResources
  BY <1>15 DEF MeasureResources, Go, TypePlaces, TypeRecords, Watched, Triggered, Stopping,
    Ended, ProductIsWatched, ThreadsJoined, vars, input, thread,
    environment, findings
<1>16. CASE ObserveDns
  BY <1>16 DEF ObserveDns, Go, Raise, TypePlaces, TypeRecords, Watched, Triggered, Stopping,
    Ended, ProductIsWatched, ThreadsJoined, vars, input, thread,
    environment, findings
<1>17. CASE MeasureRecovery
  BY <1>17 DEF MeasureRecovery, Go, Raise, Triggered, InfrastructureError, TypePlaces,
    TypeRecords, Watched, Stopping, Ended, ProductIsWatched, ThreadsJoined,
    vars, input, thread, environment, findings
<1>18. CASE CollectArtifacts
  BY <1>18 DEF CollectArtifacts, Go, Raise, TypePlaces, TypeRecords, Watched, Triggered,
    Stopping, Ended, ProductIsWatched, ThreadsJoined, vars, input, thread,
    environment, findings
<1>19. CASE Handle
  BY <1>19 DEF Handle, Go, Fill, Owns, TypePlaces, TypeRecords, Watched, Triggered, Stopping,
    Ended, ProductIsWatched, ThreadsJoined, vars, input, thread,
    environment, findings
<1>20. CASE StopMonitor
  BY <1>20 DEF StopMonitor, Escape, Go, TypePlaces, TypeRecords, Watched, Triggered, Stopping,
    Ended, ProductIsWatched, ThreadsJoined, vars, input, thread, environment, findings
<1>40. CASE StopCollector
  BY <1>40 DEF StopCollector, Joined, Escape, Go, TypePlaces, TypeRecords, Watched, Triggered,
    Stopping, Ended, ProductIsWatched, ThreadsJoined, vars, input, thread, environment, findings
<1>21. CASE Uninstall
  BY <1>21 DEF Uninstall, Escape, Go, TypePlaces, TypeRecords, Watched, Triggered, Stopping, Ended,
    ProductIsWatched, ThreadsJoined, vars, input, thread, environment,
    findings
<1>22. CASE AwaitPods
  BY <1>22 DEF AwaitPods, Escape, Go, TypePlaces, TypeRecords, Watched, Triggered, Stopping, Ended,
    ProductIsWatched, ThreadsJoined, vars, input, thread, environment,
    findings
<1>23. CASE DeleteCluster
  BY <1>23 DEF DeleteCluster, Escape, Go, TypePlaces, TypeRecords, Watched, Triggered, Stopping,
    Ended, ProductIsWatched, ThreadsJoined, vars, input, thread, environment, findings
<1>24. CASE WatchMatches
  BY <1>24 DEF WatchMatches, Others, TypePlaces, TypeRecords, Watched, Triggered, Stopping,
    Ended, ProductIsWatched, ThreadsJoined, vars, input, thread,
    environment, findings
<1>25. CASE WatchFails
  BY <1>25 DEF WatchFails, Others, TypePlaces, TypeRecords, Watched, Triggered, Stopping, Ended,
    ProductIsWatched, ThreadsJoined, vars, input, thread, environment,
    findings
<1>26. CASE WatchEnds
  BY <1>26 DEF WatchEnds, Others, Stopping, Ended, TypePlaces, TypeRecords, Watched, Triggered,
    ProductIsWatched, ThreadsJoined, vars, input, thread, environment,
    findings
<1>27. CASE PodsTerminate
  BY <1>27 DEF PodsTerminate, Others, TypePlaces, TypeRecords, Watched, Triggered, Stopping,
    Ended, ProductIsWatched, ThreadsJoined, vars, input, thread,
    environment, findings
<1>28. CASE UNCHANGED vars
  <2>1. UNCHANGED <<pc, pods, monitor, watching, collector, teardown, raised>>
    BY <1>28 DEF vars, input, thread, environment, findings
  <2> QED
    BY <2>1 DEF TypePlaces, TypeRecords, Watched, Triggered, Stopping, Ended, ProductIsWatched,
      ThreadsJoined
<1>41. CASE CollectorEnds
  <2>1. /\ UNCHANGED <<pc, pods, monitor, watching, teardown, raised>>
        /\ collector = "stuck" /\ collector' = "stopped"
    BY <1>41 DEF CollectorEnds, input, thread, environment, findings
  <2> QED
    BY <2>1 DEF TypePlaces, TypeRecords, Watched, Triggered, Stopping, Ended, ProductIsWatched,
      ThreadsJoined
<1> QED
  BY <1>40, <1>41, <1>1, <1>2, <1>3, <1>4, <1>5, <1>6, <1>7, <1>8, <1>9, <1>10, <1>11, <1>12,
    <1>13, <1>14,
    <1>15, <1>16, <1>17, <1>18, <1>19, <1>20, <1>21, <1>22, <1>23, <1>24, <1>25, <1>26, <1>27,
    <1>28
  DEF Next, Main, Terminated

LEMMA ObservedStep ==
  ASSUME TypePlaces /\ TypeRecords /\ TypeChecks /\ Fresh /\ Observed, [Next]_vars
  PROVE  Observed'
<1> USE DEF Title, Probed
<1>0. experiment' = experiment /\ (Owns' <=> Owns)
  <2>1. UNCHANGED input
    BY DEF Next, Main, CreateCluster, PrepareCluster, InstallMetricsServer, EnableDnsLogs,
      BeginInstall, EndInstall, CheckInstallation, AwaitReadiness, ExperimentNotReady, RunPlan,
      RunService, SkipExperiment, FillRemaining, HoldSteadyState, MeasureResources, ObserveDns,
      MeasureRecovery, CollectArtifacts, Handle, StopMonitor, StopCollector, Uninstall, AwaitPods,
      DeleteCluster, WatchMatches, WatchFails, WatchEnds, CollectorEnds, PodsTerminate, Terminated,
      Others, vars
  <2> QED
    BY <2>1 DEF input, Owns
<1>1. CASE CreateCluster \/ PrepareCluster \/ InstallMetricsServer
  <2>1. pc \in {"create", "prepare", "metrics"} /\ pc' # "resources" /\ UNCHANGED <<collector, checks>>
    BY <1>1 DEF CreateCluster, PrepareCluster, InstallMetricsServer, Go, Raise, findings
  <2> QED
    BY <1>0, <2>1 DEF Observed
<1>2. CASE EnableDnsLogs
  <2>1. pc = "dns" /\ pc' \in {"install", "stop"} /\ UNCHANGED checks
    BY <1>2 DEF EnableDnsLogs, Go, Raise, findings
  <2>2. Owns => collector' = "none"
    BY <1>2 DEF EnableDnsLogs, Observed
  <2> QED
    BY <1>0, <2>1, <2>2 DEF Observed
<1>3. CASE BeginInstall \/ EndInstall \/ CheckInstallation \/ SkipExperiment
  <2>1. pc' \notin {"create", "prepare", "metrics", "dns", "resources"} /\ UNCHANGED <<collector, checks>>
    BY <1>3 DEF BeginInstall, EndInstall, CheckInstallation, SkipExperiment, Go, Raise, Triggered,
      InfrastructureError, findings
  <2> QED
    BY <1>0, <2>1 DEF Observed
<1>4. CASE RunService \/ CollectArtifacts \/ ObserveDns \/ MeasureRecovery
  <2>1. /\ pc' \notin {"create", "prepare", "metrics", "dns", "resources"} /\ UNCHANGED collector
        /\ checks'["resources"] = checks["resources"]
    BY <1>4 DEF RunService, CollectArtifacts, ObserveDns, MeasureRecovery, Go, Raise, Triggered,
      InfrastructureError, findings, TypeChecks
  <2> QED
    BY <1>0, <2>1 DEF Observed
<1>5. CASE AwaitReadiness
  <2>1. /\ pc' \notin {"create", "prepare", "metrics", "dns", "resources"} /\ UNCHANGED collector
        /\ checks'["resources"] = checks["resources"]
    BY <1>5 DEF AwaitReadiness, Go, Raise, findings, TypeChecks
  <2> QED
    BY <1>0, <2>1 DEF Observed
<1>6. CASE ExperimentNotReady \/ RunPlan
  <2>1. /\ pc' \notin {"create", "prepare", "metrics", "dns", "resources"} /\ UNCHANGED collector
        /\ Owns \/ UNCHANGED checks
    BY <1>6 DEF ExperimentNotReady, RunPlan, Go, Raise, findings
  <2> QED
    BY <1>0, <2>1 DEF Observed
<1>7. CASE FillRemaining
  <2>1. /\ pc' = "artifacts"
        /\ checks'["resources"] = "measured" => checks["resources"] = "measured"
        /\ Owns => UNCHANGED collector
        /\ collector \in {"none", "stopped"} => UNCHANGED collector
    BY <1>7 DEF FillRemaining, Fill, Go, Joined
  <2> QED
    BY <1>0, <2>1 DEF Observed
<1>8. CASE HoldSteadyState
  <2>1. CASE pc' = "resources"
    <3>1. ~Owns /\ UNCHANGED checks /\ checks["resources"] # "measured"
      BY <1>8 DEF HoldSteadyState, Fresh, findings
    <3>2. collector' \in {"none", "stopped", "stuck"}
      BY <1>8, <2>1 DEF HoldSteadyState, Joined, Raise, Triggered, InfrastructureError
    <3>3. collector' = "stuck" => errors.metrics'
      BY <1>8, <2>1 DEF HoldSteadyState, Joined, Raise, Triggered, InfrastructureError, TypeRecords
    <3> QED
      BY <1>0, <2>1, <3>1, <3>2, <3>3 DEF Observed
  <2>2. CASE pc' # "resources"
    <3>1. /\ pc' \in {"unsafe", "infrastructure", "stop"}
          /\ UNCHANGED <<collector, checks>>
      BY <1>8, <2>2 DEF HoldSteadyState, Go, Raise, Triggered, InfrastructureError, findings
    <3> QED
      BY <1>0, <3>1 DEF Observed
  <2> QED
    BY <2>1, <2>2
<1>9. CASE MeasureResources
  <2>1. pc = "resources" /\ pc' = "network" /\ UNCHANGED collector
    BY <1>9 DEF MeasureResources, Go
  <2>2. checks'["resources"] = "measured" => ~errors.metrics
    BY <1>9 DEF MeasureResources, TypeChecks
  <2> QED
    BY <1>0, <2>1, <2>2 DEF Observed
<1>10. CASE Handle
  <2>1. /\ pc' = "stop" /\ UNCHANGED collector
        /\ checks'["resources"] = "measured" => checks["resources"] = "measured"
    BY <1>10 DEF Handle, Fill, Go
  <2> QED
    BY <1>0, <2>1 DEF Observed
<1>11. CASE StopMonitor \/ Uninstall \/ AwaitPods \/ DeleteCluster
  <2>1. pc' \notin {"create", "prepare", "metrics", "dns", "resources"} /\ UNCHANGED <<collector, checks>>
    BY <1>11 DEF StopMonitor, Uninstall, AwaitPods, DeleteCluster, Go, Escape, findings
  <2> QED
    BY <1>0, <2>1 DEF Observed
<1>12. CASE StopCollector
  <2>1. /\ pc' \notin {"create", "prepare", "metrics", "dns", "resources"} /\ UNCHANGED checks
        /\ collector \in {"none", "stopped"} => UNCHANGED collector
    BY <1>12 DEF StopCollector, Joined, Go, Escape, findings
  <2> QED
    BY <1>0, <2>1 DEF Observed
<1>13. CASE CollectorEnds
  <2>1. UNCHANGED <<pc, checks>> /\ collector = "stuck" /\ collector' = "stopped"
    BY <1>13 DEF CollectorEnds, findings
  <2> QED
    BY <1>0, <2>1 DEF Observed
<1>14. CASE WatchMatches \/ WatchFails \/ WatchEnds \/ PodsTerminate \/ UNCHANGED vars
  <2>1. UNCHANGED <<pc, checks, collector, errors>>
    BY <1>14 DEF WatchMatches, WatchFails, WatchEnds, PodsTerminate, Others, vars, findings
  <2> QED
    BY <1>0, <2>1 DEF Observed
<1> QED
  BY <1>1, <1>2, <1>3, <1>4, <1>5, <1>6, <1>7, <1>8, <1>9, <1>10, <1>11, <1>12, <1>13, <1>14
  DEF Next, Main, Terminated

LEMMA BlamedStep ==
  ASSUME TypePlaces /\ TypeChecks /\ Fresh /\ Blamed, [Next]_vars
  PROVE  Blamed'
<1>1. CASE CreateCluster
  BY <1>1 DEF CreateCluster, Go, Raise, TypePlaces, TypeChecks, Fresh, Blamed,
    CancellationMeansViolation, Owns, Title, Probed, Verdict, vars, input, thread, environment,
    findings
<1>2. CASE PrepareCluster
  BY <1>2 DEF PrepareCluster, Go, Raise, TypePlaces, TypeChecks, Fresh, Blamed,
    CancellationMeansViolation, Owns, Title, Probed, Verdict, vars, input, thread, environment,
    findings
<1>3. CASE InstallMetricsServer
  BY <1>3 DEF InstallMetricsServer, Go, Raise, TypePlaces, TypeChecks, Fresh, Blamed,
    CancellationMeansViolation, Owns, Title, Probed, Verdict, vars, input, thread, environment,
    findings
<1>4. CASE EnableDnsLogs
  BY <1>4 DEF EnableDnsLogs, Go, Raise, Owns, TypePlaces, TypeChecks, Fresh, Blamed,
    CancellationMeansViolation, Title, Probed, Verdict, vars, input, thread, environment,
    findings
<1>5. CASE BeginInstall
  BY <1>5 DEF BeginInstall, Go, TypePlaces, TypeChecks, Fresh, Blamed,
    CancellationMeansViolation, Owns, Title, Probed, Verdict, vars, input, thread, environment,
    findings
<1>6. CASE EndInstall
  BY <1>6 DEF EndInstall, Go, Raise, TypePlaces, TypeChecks, Fresh, Blamed,
    CancellationMeansViolation, Owns, Title, Probed, Verdict, vars, input, thread, environment,
    findings
<1>7. CASE CheckInstallation
  BY <1>7 DEF CheckInstallation, Go, Raise, Triggered, InfrastructureError, TypePlaces,
    TypeChecks, Fresh, Blamed, CancellationMeansViolation, Owns, Title, Probed, Verdict, vars,
    input, thread, environment, findings
<1>8. CASE AwaitReadiness
  BY <1>8 DEF AwaitReadiness, Go, Raise, TypePlaces, TypeChecks, Fresh, Blamed,
    CancellationMeansViolation, Owns, Title, Probed, Verdict, vars, input, thread, environment,
    findings
<1>9. CASE ExperimentNotReady
  BY <1>9 DEF ExperimentNotReady, Go, AddChecks, NotRun, Owns, TypePlaces, TypeChecks, Fresh,
    Blamed, CancellationMeansViolation, Title, Probed, Verdict, vars, input, thread,
    environment, findings
<1>10. CASE RunPlan
  BY <1>10 DEF RunPlan, Go, Raise, AddChecks, NotRun, Owns, TypePlaces, TypeChecks, Fresh,
    Blamed, CancellationMeansViolation, Title, Probed, Verdict, vars, input, thread,
    environment, findings
<1>11. CASE RunService
  BY <1>11 DEF RunService, Go, Raise, Triggered, InfrastructureError, TypePlaces, TypeChecks,
    Fresh, Blamed, CancellationMeansViolation, Owns, Title, Probed, Verdict, vars, input,
    thread, environment, findings
<1>12. CASE SkipExperiment
  BY <1>12 DEF SkipExperiment, Go, TypePlaces, TypeChecks, Fresh, Blamed,
    CancellationMeansViolation, Owns, Title, Probed, Verdict, vars, input, thread, environment,
    findings
<1>13. CASE FillRemaining
  BY <1>13 DEF FillRemaining, Joined, Go, Fill, Owns, TypePlaces, TypeChecks, Fresh, Blamed,
    CancellationMeansViolation, Title, Probed, Verdict, vars, input, thread, environment,
    findings
<1>14. CASE HoldSteadyState
  BY <1>14 DEF HoldSteadyState, Joined, Go, Raise, Triggered, InfrastructureError, Owns, TypePlaces,
    TypeChecks, Fresh, Blamed, CancellationMeansViolation, Title, Probed, Verdict, vars, input,
    thread, environment, findings
<1>15. CASE MeasureResources
  BY <1>15 DEF MeasureResources, Go, TypePlaces, TypeChecks, Fresh, Blamed,
    CancellationMeansViolation, Owns, Title, Probed, Verdict, vars, input, thread, environment,
    findings
<1>16. CASE ObserveDns
  BY <1>16 DEF ObserveDns, Go, Raise, TypePlaces, TypeChecks, Fresh, Blamed,
    CancellationMeansViolation, Owns, Title, Probed, Verdict, vars, input, thread, environment,
    findings
<1>17. CASE MeasureRecovery
  BY <1>17 DEF MeasureRecovery, Go, Raise, Triggered, InfrastructureError, TypePlaces,
    TypeChecks, Fresh, Blamed, CancellationMeansViolation, Owns, Title, Probed, Verdict, vars,
    input, thread, environment, findings
<1>18. CASE CollectArtifacts
  BY <1>18 DEF CollectArtifacts, Go, Raise, TypePlaces, TypeChecks, Fresh, Blamed,
    CancellationMeansViolation, Owns, Title, Probed, Verdict, vars, input, thread, environment,
    findings
<1>19. CASE Handle
  BY <1>19 DEF Handle, Go, Fill, Owns, TypePlaces, TypeChecks, Fresh, Blamed,
    CancellationMeansViolation, Title, Probed, Verdict, vars, input, thread, environment,
    findings
<1>20. CASE StopMonitor
  BY <1>20 DEF StopMonitor, Escape, Go, TypePlaces, TypeChecks, Fresh, Blamed,
    CancellationMeansViolation, Owns, Title, Probed, Verdict, vars, input, thread, environment,
    findings
<1>40. CASE StopCollector
  BY <1>40 DEF StopCollector, Joined, Escape, Go, TypePlaces, TypeChecks, Fresh, Blamed,
    CancellationMeansViolation, Owns, Title, Probed, Verdict, vars, input, thread, environment,
    findings
<1>21. CASE Uninstall
  BY <1>21 DEF Uninstall, Escape, Go, TypePlaces, TypeChecks, Fresh, Blamed,
    CancellationMeansViolation, Owns, Title, Probed, Verdict, vars, input, thread, environment,
    findings
<1>22. CASE AwaitPods
  BY <1>22 DEF AwaitPods, Escape, Go, TypePlaces, TypeChecks, Fresh, Blamed,
    CancellationMeansViolation, Owns, Title, Probed, Verdict, vars, input, thread, environment,
    findings
<1>23. CASE DeleteCluster
  BY <1>23 DEF DeleteCluster, Escape, Go, TypePlaces, TypeChecks, Fresh, Blamed,
    CancellationMeansViolation, Owns, Title, Probed, Verdict, vars, input, thread, environment,
    findings
<1>24. CASE WatchMatches
  BY <1>24 DEF WatchMatches, Others, TypePlaces, TypeChecks, Fresh, Blamed,
    CancellationMeansViolation, Owns, Title, Probed, Verdict, vars, input, thread, environment,
    findings
<1>25. CASE WatchFails
  BY <1>25 DEF WatchFails, Others, TypePlaces, TypeChecks, Fresh, Blamed,
    CancellationMeansViolation, Owns, Title, Probed, Verdict, vars, input, thread, environment,
    findings
<1>26. CASE WatchEnds
  BY <1>26 DEF WatchEnds, Others, Stopping, Ended, TypePlaces, TypeChecks, Fresh, Blamed,
    CancellationMeansViolation, Owns, Title, Probed, Verdict, vars, input, thread, environment,
    findings
<1>27. CASE PodsTerminate \/ UNCHANGED vars
  <2>1. UNCHANGED <<pc, monitor, watching, checks, trial, experiment>>
    BY <1>27 DEF PodsTerminate, Others, vars, input, thread, environment, findings
  <2> QED
    BY <2>1 DEF TypePlaces, TypeChecks, Fresh, Blamed, CancellationMeansViolation, Owns, Title,
      Probed, Verdict
<1>41. CASE CollectorEnds
  <2>1. UNCHANGED <<pc, monitor, watching, checks, trial, experiment>>
    BY <1>41 DEF CollectorEnds, input, thread, environment, findings
  <2> QED
    BY <2>1 DEF TypePlaces, TypeChecks, Fresh, Blamed, CancellationMeansViolation, Owns, Title,
      Probed, Verdict
<1> QED
  BY <1>40, <1>41, <1>1, <1>2, <1>3, <1>4, <1>5, <1>6, <1>7, <1>8, <1>9, <1>10, <1>11, <1>12,
    <1>13, <1>14,
    <1>15, <1>16, <1>17, <1>18, <1>19, <1>20, <1>21, <1>22, <1>23, <1>24, <1>25, <1>26, <1>27
  DEF Next, Main, Terminated

LEMMA FreshStep ==
  ASSUME TypePlaces /\ TypeRecords /\ TypeChecks /\ Fresh, [Next]_vars
  PROVE  Fresh'
<1>1. CASE CreateCluster
  BY <1>1 DEF CreateCluster, Go, Raise, TypePlaces, TypeRecords, TypeChecks, Fresh, Owns, Title,
    Probed, Verdict, vars, input, thread, environment, findings
<1>2. CASE PrepareCluster
  BY <1>2 DEF PrepareCluster, Go, Raise, TypePlaces, TypeRecords, TypeChecks, Fresh, Owns,
    Title, Probed, Verdict, vars, input, thread, environment, findings
<1>3. CASE InstallMetricsServer
  BY <1>3 DEF InstallMetricsServer, Go, Raise, TypePlaces, TypeRecords, TypeChecks, Fresh, Owns,
    Title, Probed, Verdict, vars, input, thread, environment, findings
<1>4. CASE EnableDnsLogs
  BY <1>4 DEF EnableDnsLogs, Go, Raise, Owns, TypePlaces, TypeRecords, TypeChecks, Fresh, Title,
    Probed, Verdict, vars, input, thread, environment, findings
<1>5. CASE BeginInstall
  BY <1>5 DEF BeginInstall, Go, TypePlaces, TypeRecords, TypeChecks, Fresh, Owns, Title, Probed,
    Verdict, vars, input, thread, environment, findings
<1>6. CASE EndInstall
  BY <1>6 DEF EndInstall, Go, Raise, TypePlaces, TypeRecords, TypeChecks, Fresh, Owns, Title,
    Probed, Verdict, vars, input, thread, environment, findings
<1>7. CASE CheckInstallation
  BY <1>7 DEF CheckInstallation, Go, Raise, Triggered, InfrastructureError, TypePlaces,
    TypeRecords, TypeChecks, Fresh, Owns, Title, Probed, Verdict, vars, input, thread,
    environment, findings
<1>8. CASE AwaitReadiness
  BY <1>8 DEF AwaitReadiness, Go, Raise, TypePlaces, TypeRecords, TypeChecks, Fresh, Owns,
    Title, Probed, Verdict, vars, input, thread, environment, findings
<1>9. CASE ExperimentNotReady
  BY <1>9 DEF ExperimentNotReady, Go, AddChecks, NotRun, Owns, TypePlaces, TypeRecords,
    TypeChecks, Fresh, Title, Probed, Verdict, vars, input, thread, environment, findings
<1>10. CASE RunPlan
  BY <1>10 DEF RunPlan, Go, Raise, AddChecks, NotRun, Owns, TypePlaces, TypeRecords, TypeChecks,
    Fresh, Title, Probed, Verdict, vars, input, thread, environment, findings
<1>11. CASE RunService
  BY <1>11 DEF RunService, Go, Raise, Triggered, InfrastructureError, TypePlaces, TypeRecords,
    TypeChecks, Fresh, Owns, Title, Probed, Verdict, vars, input, thread, environment, findings
<1>12. CASE SkipExperiment
  BY <1>12 DEF SkipExperiment, Go, TypePlaces, TypeRecords, TypeChecks, Fresh, Owns, Title,
    Probed, Verdict, vars, input, thread, environment, findings
<1>13. CASE FillRemaining
  BY <1>13 DEF FillRemaining, Joined, Go, Fill, Owns, TypePlaces, TypeRecords, TypeChecks,
    Fresh, Title, Probed, Verdict, vars, input, thread, environment, findings
<1>14. CASE HoldSteadyState
  BY <1>14 DEF HoldSteadyState, Joined, Go, Raise, Triggered, InfrastructureError, Owns, TypePlaces,
    TypeRecords, TypeChecks, Fresh, Title, Probed, Verdict, vars, input, thread, environment,
    findings
<1>15. CASE MeasureResources
  BY <1>15 DEF MeasureResources, Go, TypePlaces, TypeRecords, TypeChecks, Fresh, Owns, Title,
    Probed, Verdict, vars, input, thread, environment, findings
<1>16. CASE ObserveDns
  BY <1>16 DEF ObserveDns, Go, Raise, TypePlaces, TypeRecords, TypeChecks, Fresh, Owns, Title,
    Probed, Verdict, vars, input, thread, environment, findings
<1>17. CASE MeasureRecovery
  BY <1>17 DEF MeasureRecovery, Go, Raise, Triggered, InfrastructureError, TypePlaces,
    TypeRecords, TypeChecks, Fresh, Owns, Title, Probed, Verdict, vars, input, thread,
    environment, findings
<1>18. CASE CollectArtifacts
  BY <1>18 DEF CollectArtifacts, Go, Raise, TypePlaces, TypeRecords, TypeChecks, Fresh, Owns,
    Title, Probed, Verdict, vars, input, thread, environment, findings
<1>19. CASE Handle
  BY <1>19 DEF Handle, Go, Fill, Owns, TypePlaces, TypeRecords, TypeChecks, Fresh, Title,
    Probed, Verdict, vars, input, thread, environment, findings
<1>20. CASE StopMonitor
  BY <1>20 DEF StopMonitor, Escape, Go, TypePlaces, TypeRecords, TypeChecks, Fresh, Owns, Title,
    Probed, Verdict, vars, input, thread, environment, findings
<1>40. CASE StopCollector
  BY <1>40 DEF StopCollector, Joined, Escape, Go, TypePlaces, TypeRecords, TypeChecks, Fresh,
    Owns, Title, Probed, Verdict, vars, input, thread, environment, findings
<1>21. CASE Uninstall
  BY <1>21 DEF Uninstall, Escape, Go, TypePlaces, TypeRecords, TypeChecks, Fresh, Owns, Title,
    Probed, Verdict, vars, input, thread, environment, findings
<1>22. CASE AwaitPods
  BY <1>22 DEF AwaitPods, Escape, Go, TypePlaces, TypeRecords, TypeChecks, Fresh, Owns, Title,
    Probed, Verdict, vars, input, thread, environment, findings
<1>23. CASE DeleteCluster
  BY <1>23 DEF DeleteCluster, Escape, Go, TypePlaces, TypeRecords, TypeChecks, Fresh, Owns, Title,
    Probed, Verdict, vars, input, thread, environment, findings
<1>24. CASE WatchMatches \/ WatchFails \/ WatchEnds
  <2>1. UNCHANGED <<pc, checks, trial, installed, experiment>>
    BY <1>24 DEF WatchMatches, Others, WatchFails, WatchEnds, Stopping, Ended, vars, input,
      thread, environment, findings
  <2> QED
    BY <2>1 DEF TypePlaces, TypeRecords, TypeChecks, Fresh, Owns, Title, Probed, Verdict
<1>25. CASE PodsTerminate \/ UNCHANGED vars
  <2>1. UNCHANGED <<pc, checks, trial, installed, experiment>>
    BY <1>25 DEF PodsTerminate, Others, vars, input, thread, environment, findings
  <2> QED
    BY <2>1 DEF TypePlaces, TypeRecords, TypeChecks, Fresh, Owns, Title, Probed, Verdict
<1>41. CASE CollectorEnds
  <2>1. UNCHANGED <<pc, checks, trial, installed, experiment>>
    BY <1>41 DEF CollectorEnds, input, thread, environment, findings
  <2> QED
    BY <2>1 DEF TypePlaces, TypeRecords, TypeChecks, Fresh, Owns, Title, Probed, Verdict
<1> QED
  BY <1>40, <1>41, <1>1, <1>2, <1>3, <1>4, <1>5, <1>6, <1>7, <1>8, <1>9, <1>10, <1>11, <1>12,
    <1>13, <1>14,
    <1>15, <1>16, <1>17, <1>18, <1>19, <1>20, <1>21, <1>22, <1>23, <1>24, <1>25
  DEF Next, Main, Terminated

LEMMA BaselineStep ==
  ASSUME TypePlaces /\ TypeRecords /\ TypeChecks /\ Fresh /\ Baseline, [Next]_vars
  PROVE  Baseline'
<1>1. CASE CreateCluster
  BY <1>1 DEF CreateCluster, Go, Raise, TypePlaces, TypeRecords, TypeChecks, Fresh, Baseline,
    MeasuredOnBaseline, Owns, Title, Probed, Verdict, vars, input, thread, environment, findings
<1>2. CASE PrepareCluster
  BY <1>2 DEF PrepareCluster, Go, Raise, TypePlaces, TypeRecords, TypeChecks, Fresh, Baseline,
    MeasuredOnBaseline, Owns, Title, Probed, Verdict, vars, input, thread, environment, findings
<1>3. CASE InstallMetricsServer
  BY <1>3 DEF InstallMetricsServer, Go, Raise, TypePlaces, TypeRecords, TypeChecks, Fresh,
    Baseline, MeasuredOnBaseline, Owns, Title, Probed, Verdict, vars, input, thread,
    environment, findings
<1>4. CASE EnableDnsLogs
  BY <1>4 DEF EnableDnsLogs, Go, Raise, Owns, TypePlaces, TypeRecords, TypeChecks, Fresh,
    Baseline, MeasuredOnBaseline, Title, Probed, Verdict, vars, input, thread, environment,
    findings
<1>5. CASE BeginInstall
  BY <1>5 DEF BeginInstall, Go, TypePlaces, TypeRecords, TypeChecks, Fresh, Baseline,
    MeasuredOnBaseline, Owns, Title, Probed, Verdict, vars, input, thread, environment, findings
<1>6. CASE EndInstall
  BY <1>6 DEF EndInstall, Go, Raise, TypePlaces, TypeRecords, TypeChecks, Fresh, Baseline,
    MeasuredOnBaseline, Owns, Title, Probed, Verdict, vars, input, thread, environment, findings
<1>7. CASE CheckInstallation
  BY <1>7 DEF CheckInstallation, Go, Raise, Triggered, InfrastructureError, TypePlaces,
    TypeRecords, TypeChecks, Fresh, Baseline, MeasuredOnBaseline, Owns, Title, Probed, Verdict,
    vars, input, thread, environment, findings
<1>8. CASE AwaitReadiness
  BY <1>8 DEF AwaitReadiness, Go, Raise, TypePlaces, TypeRecords, TypeChecks, Fresh, Baseline,
    MeasuredOnBaseline, Owns, Title, Probed, Verdict, vars, input, thread, environment, findings
<1>9. CASE ExperimentNotReady
  BY <1>9 DEF ExperimentNotReady, Go, AddChecks, NotRun, Owns, TypePlaces, TypeRecords,
    TypeChecks, Fresh, Baseline, MeasuredOnBaseline, Title, Probed, Verdict, vars, input,
    thread, environment, findings
<1>10. CASE RunPlan
  BY <1>10 DEF RunPlan, Go, Raise, AddChecks, NotRun, Owns, TypePlaces, TypeRecords, TypeChecks,
    Fresh, Baseline, MeasuredOnBaseline, Title, Probed, Verdict, vars, input, thread,
    environment, findings
<1>11. CASE RunService
  BY <1>11 DEF RunService, Go, Raise, Triggered, InfrastructureError, TypePlaces, TypeRecords,
    TypeChecks, Fresh, Baseline, MeasuredOnBaseline, Owns, Title, Probed, Verdict, vars, input,
    thread, environment, findings
<1>12. CASE SkipExperiment
  BY <1>12 DEF SkipExperiment, Go, TypePlaces, TypeRecords, TypeChecks, Fresh, Baseline,
    MeasuredOnBaseline, Owns, Title, Probed, Verdict, vars, input, thread, environment, findings
<1>13. CASE FillRemaining
  BY <1>13 DEF FillRemaining, Joined, Go, Fill, Owns, TypePlaces, TypeRecords, TypeChecks, Fresh,
    Baseline, MeasuredOnBaseline, Title, Probed, Verdict, vars, input, thread, environment,
    findings
<1>14. CASE HoldSteadyState
  BY <1>14 DEF HoldSteadyState, Joined, Go, Raise, Triggered, InfrastructureError, Owns, TypePlaces,
    TypeRecords, TypeChecks, Fresh, Baseline, MeasuredOnBaseline, Title, Probed, Verdict, vars,
    input, thread, environment, findings
<1>15. CASE MeasureResources
  BY <1>15 DEF MeasureResources, Go, TypePlaces, TypeRecords, TypeChecks, Fresh, Baseline,
    MeasuredOnBaseline, Owns, Title, Probed, Verdict, vars, input, thread, environment, findings
<1>16. CASE ObserveDns
  BY <1>16 DEF ObserveDns, Go, Raise, TypePlaces, TypeRecords, TypeChecks, Fresh, Baseline,
    MeasuredOnBaseline, Owns, Title, Probed, Verdict, vars, input, thread, environment, findings
<1>17. CASE MeasureRecovery
  BY <1>17 DEF MeasureRecovery, Go, Raise, Triggered, InfrastructureError, TypePlaces,
    TypeRecords, TypeChecks, Fresh, Baseline, MeasuredOnBaseline, Owns, Title, Probed, Verdict,
    vars, input, thread, environment, findings
<1>18. CASE CollectArtifacts
  BY <1>18 DEF CollectArtifacts, Go, Raise, TypePlaces, TypeRecords, TypeChecks, Fresh,
    Baseline, MeasuredOnBaseline, Owns, Title, Probed, Verdict, vars, input, thread,
    environment, findings
<1>19. CASE Handle
  BY <1>19 DEF Handle, Go, Fill, Owns, TypePlaces, TypeRecords, TypeChecks, Fresh, Baseline,
    MeasuredOnBaseline, Title, Probed, Verdict, vars, input, thread, environment, findings
<1>20. CASE StopMonitor
  BY <1>20 DEF StopMonitor, Escape, Go, TypePlaces, TypeRecords, TypeChecks, Fresh, Baseline,
    MeasuredOnBaseline, Owns, Title, Probed, Verdict, vars, input, thread, environment, findings
<1>40. CASE StopCollector
  BY <1>40 DEF StopCollector, Joined, Escape, Go, TypePlaces, TypeRecords, TypeChecks, Fresh,
    Baseline, MeasuredOnBaseline, Owns, Title, Probed, Verdict, vars, input, thread,
    environment, findings
<1>21. CASE Uninstall
  BY <1>21 DEF Uninstall, Escape, Go, TypePlaces, TypeRecords, TypeChecks, Fresh, Baseline,
    MeasuredOnBaseline, Owns, Title, Probed, Verdict, vars, input, thread, environment, findings
<1>22. CASE AwaitPods
  BY <1>22 DEF AwaitPods, Escape, Go, TypePlaces, TypeRecords, TypeChecks, Fresh, Baseline,
    MeasuredOnBaseline, Owns, Title, Probed, Verdict, vars, input, thread, environment, findings
<1>23. CASE DeleteCluster
  BY <1>23 DEF DeleteCluster, Escape, Go, TypePlaces, TypeRecords, TypeChecks, Fresh, Baseline,
    MeasuredOnBaseline, Owns, Title, Probed, Verdict, vars, input, thread, environment, findings
<1>24. CASE WatchMatches \/ WatchFails \/ WatchEnds
  <2>1. UNCHANGED <<pc, installed, checks, trial, experiment, selected>>
    BY <1>24 DEF WatchMatches, Others, WatchFails, WatchEnds, Stopping, Ended, vars, input,
      thread, environment, findings
  <2> QED
    BY <2>1 DEF TypePlaces, TypeRecords, TypeChecks, Fresh, Baseline, MeasuredOnBaseline, Owns,
      Title, Probed, Verdict
<1>25. CASE PodsTerminate \/ UNCHANGED vars
  <2>1. UNCHANGED <<pc, installed, checks, trial, experiment, selected>>
    BY <1>25 DEF PodsTerminate, Others, vars, input, thread, environment, findings
  <2> QED
    BY <2>1 DEF TypePlaces, TypeRecords, TypeChecks, Fresh, Baseline, MeasuredOnBaseline, Owns,
      Title, Probed, Verdict
<1>41. CASE CollectorEnds
  <2>1. UNCHANGED <<pc, installed, checks, trial, experiment, selected>>
    BY <1>41 DEF CollectorEnds, input, thread, environment, findings
  <2> QED
    BY <2>1 DEF TypePlaces, TypeRecords, TypeChecks, Fresh, Baseline, MeasuredOnBaseline, Owns,
      Title, Probed, Verdict
<1> QED
  BY <1>40, <1>41, <1>1, <1>2, <1>3, <1>4, <1>5, <1>6, <1>7, <1>8, <1>9, <1>10, <1>11, <1>12,
    <1>13, <1>14,
    <1>15, <1>16, <1>17, <1>18, <1>19, <1>20, <1>21, <1>22, <1>23, <1>24, <1>25
  DEF Next, Main, Terminated

LEMMA KeptStep ==
  ASSUME TypePlaces /\ TypeChecks /\ Fresh /\ Kept, [Next]_vars
  PROVE  Kept'
<1>1. CASE CreateCluster
  BY <1>1 DEF CreateCluster, Go, Raise, TypePlaces, TypeChecks, Fresh, Kept, Owns, Title,
    Probed, Verdict, vars, input, thread, environment, findings
<1>2. CASE PrepareCluster
  BY <1>2 DEF PrepareCluster, Go, Raise, TypePlaces, TypeChecks, Fresh, Kept, Owns, Title,
    Probed, Verdict, vars, input, thread, environment, findings
<1>3. CASE InstallMetricsServer
  BY <1>3 DEF InstallMetricsServer, Go, Raise, TypePlaces, TypeChecks, Fresh, Kept, Owns, Title,
    Probed, Verdict, vars, input, thread, environment, findings
<1>4. CASE EnableDnsLogs
  BY <1>4 DEF EnableDnsLogs, Go, Raise, Owns, TypePlaces, TypeChecks, Fresh, Kept, Title,
    Probed, Verdict, vars, input, thread, environment, findings
<1>5. CASE BeginInstall
  BY <1>5 DEF BeginInstall, Go, TypePlaces, TypeChecks, Fresh, Kept, Owns, Title, Probed,
    Verdict, vars, input, thread, environment, findings
<1>6. CASE EndInstall
  BY <1>6 DEF EndInstall, Go, Raise, TypePlaces, TypeChecks, Fresh, Kept, Owns, Title, Probed,
    Verdict, vars, input, thread, environment, findings
<1>7. CASE CheckInstallation
  BY <1>7 DEF CheckInstallation, Go, Raise, Triggered, InfrastructureError, TypePlaces,
    TypeChecks, Fresh, Kept, Owns, Title, Probed, Verdict, vars, input, thread, environment,
    findings
<1>8. CASE AwaitReadiness
  BY <1>8 DEF AwaitReadiness, Go, Raise, TypePlaces, TypeChecks, Fresh, Kept, Owns, Title,
    Probed, Verdict, vars, input, thread, environment, findings
<1>9. CASE ExperimentNotReady
  BY <1>9 DEF ExperimentNotReady, Go, AddChecks, NotRun, Owns, TypePlaces, TypeChecks, Fresh,
    Kept, Title, Probed, Verdict, vars, input, thread, environment, findings
<1>10. CASE RunPlan
  BY <1>10 DEF RunPlan, Go, Raise, AddChecks, NotRun, Owns, TypePlaces, TypeChecks, Fresh, Kept,
    Title, Probed, Verdict, vars, input, thread, environment, findings
<1>11. CASE RunService
  BY <1>11 DEF RunService, Go, Raise, Triggered, InfrastructureError, TypePlaces, TypeChecks,
    Fresh, Kept, Owns, Title, Probed, Verdict, vars, input, thread, environment, findings
<1>12. CASE SkipExperiment
  BY <1>12 DEF SkipExperiment, Go, TypePlaces, TypeChecks, Fresh, Kept, Owns, Title, Probed,
    Verdict, vars, input, thread, environment, findings
<1>13. CASE FillRemaining
  BY <1>13 DEF FillRemaining, Joined, Go, Fill, Owns, TypePlaces, TypeChecks, Fresh, Kept, Title,
    Probed, Verdict, vars, input, thread, environment, findings
<1>14. CASE HoldSteadyState
  BY <1>14 DEF HoldSteadyState, Joined, Go, Raise, Triggered, InfrastructureError, Owns, TypePlaces,
    TypeChecks, Fresh, Kept, Title, Probed, Verdict, vars, input, thread, environment, findings
<1>15. CASE MeasureResources
  BY <1>15 DEF MeasureResources, Go, TypePlaces, TypeChecks, Fresh, Kept, Owns, Title, Probed,
    Verdict, vars, input, thread, environment, findings
<1>16. CASE ObserveDns
  BY <1>16 DEF ObserveDns, Go, Raise, TypePlaces, TypeChecks, Fresh, Kept, Owns, Title, Probed,
    Verdict, vars, input, thread, environment, findings
<1>17. CASE MeasureRecovery
  BY <1>17 DEF MeasureRecovery, Go, Raise, Triggered, InfrastructureError, TypePlaces,
    TypeChecks, Fresh, Kept, Owns, Title, Probed, Verdict, vars, input, thread, environment,
    findings
<1>18. CASE CollectArtifacts
  BY <1>18 DEF CollectArtifacts, Go, Raise, TypePlaces, TypeChecks, Fresh, Kept, Owns, Title,
    Probed, Verdict, vars, input, thread, environment, findings
<1>19. CASE Handle
  BY <1>19 DEF Handle, Go, Fill, Owns, TypePlaces, TypeChecks, Fresh, Kept, Title, Probed,
    Verdict, vars, input, thread, environment, findings
<1>20. CASE StopMonitor
  BY <1>20 DEF StopMonitor, Escape, Go, TypePlaces, TypeChecks, Fresh, Kept, Owns, Title, Probed,
    Verdict, vars, input, thread, environment, findings
<1>40. CASE StopCollector
  BY <1>40 DEF StopCollector, Joined, Escape, Go, TypePlaces, TypeChecks, Fresh, Kept, Owns,
    Title, Probed, Verdict, vars, input, thread, environment, findings
<1>21. CASE Uninstall
  BY <1>21 DEF Uninstall, Escape, Go, TypePlaces, TypeChecks, Fresh, Kept, Owns, Title, Probed,
    Verdict, vars, input, thread, environment, findings
<1>22. CASE AwaitPods
  BY <1>22 DEF AwaitPods, Escape, Go, TypePlaces, TypeChecks, Fresh, Kept, Owns, Title, Probed,
    Verdict, vars, input, thread, environment, findings
<1>23. CASE DeleteCluster
  BY <1>23 DEF DeleteCluster, Escape, Go, TypePlaces, TypeChecks, Fresh, Kept, Owns, Title, Probed,
    Verdict, vars, input, thread, environment, findings
<1>24. CASE WatchMatches \/ WatchFails \/ WatchEnds
  <2>1. UNCHANGED <<experiment, execution, selected, checks, pc>>
    BY <1>24 DEF WatchMatches, Others, WatchFails, WatchEnds, Stopping, Ended, vars, input,
      thread, environment, findings
  <2> QED
    BY <2>1 DEF TypePlaces, TypeChecks, Fresh, Kept, Owns, Title, Probed, Verdict
<1>25. CASE PodsTerminate \/ UNCHANGED vars
  <2>1. UNCHANGED <<experiment, execution, selected, checks, pc>>
    BY <1>25 DEF PodsTerminate, Others, vars, input, thread, environment, findings
  <2> QED
    BY <2>1 DEF TypePlaces, TypeChecks, Fresh, Kept, Owns, Title, Probed, Verdict
<1>41. CASE CollectorEnds
  <2>1. UNCHANGED <<experiment, execution, selected, checks, pc>>
    BY <1>41 DEF CollectorEnds, input, thread, environment, findings
  <2> QED
    BY <2>1 DEF TypePlaces, TypeChecks, Fresh, Kept, Owns, Title, Probed, Verdict
<1> QED
  BY <1>40, <1>41, <1>1, <1>2, <1>3, <1>4, <1>5, <1>6, <1>7, <1>8, <1>9, <1>10, <1>11, <1>12,
    <1>13, <1>14,
    <1>15, <1>16, <1>17, <1>18, <1>19, <1>20, <1>21, <1>22, <1>23, <1>24, <1>25
  DEF Next, Main, Terminated

LEMMA CleanupStep ==
  ASSUME TypePlaces /\ TypeRecords /\ CleanupTruthful, [Next]_vars
  PROVE  CleanupTruthful'
<1>1. CASE CreateCluster
  BY <1>1 DEF CreateCluster, Go, Raise, TypePlaces, TypeRecords, CleanupTruthful, vars, input,
    thread, environment, findings
<1>2. CASE PrepareCluster
  BY <1>2 DEF PrepareCluster, Go, Raise, TypePlaces, TypeRecords, CleanupTruthful, vars, input,
    thread, environment, findings
<1>3. CASE InstallMetricsServer
  BY <1>3 DEF InstallMetricsServer, Go, Raise, TypePlaces, TypeRecords, CleanupTruthful, vars,
    input, thread, environment, findings
<1>4. CASE EnableDnsLogs
  BY <1>4 DEF EnableDnsLogs, Go, Raise, Owns, TypePlaces, TypeRecords, CleanupTruthful, vars,
    input, thread, environment, findings
<1>5. CASE BeginInstall
  BY <1>5 DEF BeginInstall, Go, TypePlaces, TypeRecords, CleanupTruthful, vars, input, thread,
    environment, findings
<1>6. CASE EndInstall
  BY <1>6 DEF EndInstall, Go, Raise, TypePlaces, TypeRecords, CleanupTruthful, vars, input, thread,
    environment, findings
<1>7. CASE CheckInstallation
  BY <1>7 DEF CheckInstallation, Go, Raise, Triggered, InfrastructureError, TypePlaces,
    TypeRecords, CleanupTruthful, vars, input, thread, environment, findings
<1>8. CASE AwaitReadiness
  BY <1>8 DEF AwaitReadiness, Go, Raise, TypePlaces, TypeRecords, CleanupTruthful, vars, input,
    thread, environment, findings
<1>9. CASE ExperimentNotReady
  BY <1>9 DEF ExperimentNotReady, Go, AddChecks, NotRun, Owns, TypePlaces, TypeRecords,
    CleanupTruthful, vars, input, thread, environment, findings
<1>10. CASE RunPlan
  BY <1>10 DEF RunPlan, Go, Raise, AddChecks, NotRun, Owns, TypePlaces, TypeRecords,
    CleanupTruthful, vars, input, thread, environment, findings
<1>11. CASE RunService
  BY <1>11 DEF RunService, Go, Raise, Triggered, InfrastructureError, TypePlaces, TypeRecords,
    CleanupTruthful, vars, input, thread, environment, findings
<1>12. CASE SkipExperiment
  BY <1>12 DEF SkipExperiment, Go, TypePlaces, TypeRecords, CleanupTruthful, vars, input,
    thread, environment, findings
<1>13. CASE FillRemaining
  BY <1>13 DEF FillRemaining, Joined, Go, Fill, Owns, TypePlaces, TypeRecords, CleanupTruthful,
    vars, input, thread, environment, findings
<1>14. CASE HoldSteadyState
  BY <1>14 DEF HoldSteadyState, Joined, Go, Raise, Triggered, InfrastructureError, Owns, TypePlaces,
    TypeRecords, CleanupTruthful, vars, input, thread, environment, findings
<1>15. CASE MeasureResources
  BY <1>15 DEF MeasureResources, Go, TypePlaces, TypeRecords, CleanupTruthful, vars, input,
    thread, environment, findings
<1>16. CASE ObserveDns
  BY <1>16 DEF ObserveDns, Go, Raise, TypePlaces, TypeRecords, CleanupTruthful, vars, input,
    thread, environment, findings
<1>17. CASE MeasureRecovery
  BY <1>17 DEF MeasureRecovery, Go, Raise, Triggered, InfrastructureError, TypePlaces,
    TypeRecords, CleanupTruthful, vars, input, thread, environment, findings
<1>18. CASE CollectArtifacts
  BY <1>18 DEF CollectArtifacts, Go, Raise, TypePlaces, TypeRecords, CleanupTruthful, vars,
    input, thread, environment, findings
<1>19. CASE Handle
  BY <1>19 DEF Handle, Go, Fill, Owns, TypePlaces, TypeRecords, CleanupTruthful, vars, input,
    thread, environment, findings
<1>20. CASE StopMonitor
  BY <1>20 DEF StopMonitor, Escape, Go, TypePlaces, TypeRecords, CleanupTruthful, vars, input,
    thread, environment, findings
<1>40. CASE StopCollector
  BY <1>40 DEF StopCollector, Joined, Escape, Go, TypePlaces, TypeRecords, CleanupTruthful,
    vars, input, thread, environment, findings
<1>21. CASE Uninstall
  BY <1>21 DEF Uninstall, Escape, Go, TypePlaces, TypeRecords, CleanupTruthful, vars, input, thread,
    environment, findings
<1>22. CASE AwaitPods
  BY <1>22 DEF AwaitPods, Escape, Go, TypePlaces, TypeRecords, CleanupTruthful, vars, input, thread,
    environment, findings
<1>23. CASE DeleteCluster
  BY <1>23 DEF DeleteCluster, Escape, Go, TypePlaces, TypeRecords, CleanupTruthful, vars, input,
    thread, environment, findings
<1>24. CASE PodsTerminate
  BY <1>24 DEF PodsTerminate, Others, TypePlaces, TypeRecords, CleanupTruthful, vars, input,
    thread, environment, findings
<1>25. CASE WatchMatches \/ WatchFails \/ WatchEnds \/ UNCHANGED vars
  <2>1. UNCHANGED <<pc, teardown, cluster, release, pods>>
    BY <1>25 DEF WatchMatches, Others, WatchFails, WatchEnds, Stopping, Ended, vars, input,
      thread, environment, findings
  <2> QED
    BY <2>1 DEF TypePlaces, TypeRecords, CleanupTruthful
<1>41. CASE CollectorEnds
  <2>1. UNCHANGED <<pc, teardown, cluster, release, pods>>
    BY <1>41 DEF CollectorEnds, input, thread, environment, findings
  <2> QED
    BY <2>1 DEF TypePlaces, TypeRecords, CleanupTruthful
<1> QED
  BY <1>40, <1>41, <1>1, <1>2, <1>3, <1>4, <1>5, <1>6, <1>7, <1>8, <1>9, <1>10, <1>11, <1>12,
    <1>13, <1>14,
    <1>15, <1>16, <1>17, <1>18, <1>19, <1>20, <1>21, <1>22, <1>23, <1>24, <1>25
  DEF Next, Main, Terminated

LEMMA StepHolds == IInv /\ [Next]_vars => IInv'
BY PlacesStep, FlagsStep, RecordsStep, ChecksStep, ReportedStep, WatchedStep, ObservedStep,
   BlamedStep, FreshStep, BaselineStep, KeptStep, CleanupStep
DEF IInv

\* The invariant holds in every reachable state.
THEOREM Invariance == Spec => []IInv
BY InitHolds, StepHolds, PTL DEF Spec
\* Every variable of a run keeps its type.
THEOREM TypeCorrect == Spec => []TypeOK
<1>1. IInv => TypeOK
  BY DEF IInv, TypePlaces, TypeFlags, TypeRecords, TypeChecks, TypeOK
<1> QED
  BY <1>1, Invariance, PTL

\* run_runtime never builds its result with a check that nobody wrote.
THEOREM ResultIsComplete == Spec => []EveryCheckReported
<1>1. IInv => EveryCheckReported
  BY DEF IInv, Reported, Complete, Experimented, EveryCheckReported
<1> QED
  BY <1>1, Invariance, PTL

\* What a run writes as cancelled was cancelled by a violation.
THEOREM ViolationsCancel == Spec => []CancellationMeansViolation
<1>1. IInv => CancellationMeansViolation
  BY DEF IInv, Blamed
<1> QED
  BY <1>1, Invariance, PTL

\* From its first Pod until the finally block the product runs under a live
\* monitor, or under one that ended by setting its event.
THEOREM ProductsAreWatched == Spec => []ProductIsWatched
<1>1. IInv => ProductIsWatched
  BY DEF IInv, Watched
<1> QED
  BY <1>1, Invariance, PTL

\* An observer that outlives the cluster is one whose join timed out; it leaves
\* a failed monitor, or no measured resource check.
THEOREM ObserversEnd == Spec => []OnlyAStuckThreadOutlivesTheCluster
<1>1. IInv => OnlyAStuckThreadOutlivesTheCluster
  BY DEF IInv, Watched, Observed, ThreadsJoined, OnlyAStuckThreadOutlivesTheCluster
<1> QED
  BY <1>1, Invariance, PTL

\* Measurements rest on an installation that became ready.
THEOREM BaselineFirst == Spec => []MeasuredOnBaseline
<1>1. IInv => MeasuredOnBaseline
  BY DEF IInv, Baseline
<1> QED
  BY <1>1, Invariance, PTL

\* A cleanup that is reported to have succeeded did.
THEOREM CleanupIsTrue == Spec => []CleanupTruthful
<1>1. IInv => CleanupTruthful
  BY DEF IInv
<1> QED
  BY <1>1, Invariance, PTL

LEMMA SurviveStep ==
  ASSUME IInv, [Next]_vars, NEW c \in Title, checks[c] = "measured"
  PROVE  checks'[c] = "measured"
<1> USE DEF Title, Probed
<1>0. TypePlaces /\ TypeChecks /\ Fresh /\ Kept
  BY DEF IInv
<1>1. CASE AwaitReadiness
  BY <1>0, <1>1 DEF AwaitReadiness, TypeChecks, Fresh
<1>2. CASE ExperimentNotReady
  BY <1>0, <1>2 DEF ExperimentNotReady, NotRun, AddChecks, TypeChecks, Fresh
<1>3. CASE RunPlan
  <2>1. c \notin Probed
    BY <1>0, <1>3 DEF RunPlan, TypeChecks, Fresh
  <2>2. c \notin selected
    BY <1>0, <2>1 DEF TypeChecks
  <2>3. checks'[c] = checks[c]
    BY <1>3, <2>2 DEF RunPlan, AddChecks, findings
  <2> QED
    BY <2>3
<1>4. CASE FillRemaining
  BY <1>0, <1>4 DEF FillRemaining, Fill
<1>5. CASE MeasureResources
  BY <1>0, <1>5 DEF MeasureResources, TypeChecks, Fresh
<1>6. CASE ObserveDns
  BY <1>0, <1>6 DEF ObserveDns, TypeChecks, Fresh
<1>7. CASE MeasureRecovery
  BY <1>0, <1>7 DEF MeasureRecovery, TypeChecks, Fresh
<1>8. CASE Handle
  BY <1>0, <1>8 DEF Handle, Fill, Kept
<1>9. CASE CreateCluster \/ PrepareCluster \/ InstallMetricsServer \/ EnableDnsLogs
  <2>1. UNCHANGED checks
    BY <1>9 DEF CreateCluster, PrepareCluster, InstallMetricsServer, EnableDnsLogs, Others,
      findings, vars
  <2> QED
    BY <2>1
<1>10. CASE BeginInstall \/ EndInstall \/ CheckInstallation \/ RunService
  <2>1. UNCHANGED checks
    BY <1>10 DEF BeginInstall, EndInstall, CheckInstallation, RunService, Others, findings, vars
  <2> QED
    BY <2>1
<1>11. CASE SkipExperiment \/ HoldSteadyState \/ CollectArtifacts \/ StopMonitor \/ StopCollector
  <2>1. UNCHANGED checks
    BY <1>11 DEF SkipExperiment, HoldSteadyState, CollectArtifacts, StopMonitor, StopCollector,
      findings
  <2> QED
    BY <2>1
<1>12. CASE Uninstall \/ AwaitPods \/ DeleteCluster \/ WatchMatches
  <2>1. UNCHANGED checks
    BY <1>12 DEF Uninstall, AwaitPods, DeleteCluster, WatchMatches, Others, findings, vars
  <2> QED
    BY <2>1
<1>13. CASE WatchFails \/ WatchEnds \/ CollectorEnds \/ PodsTerminate \/ Terminated
  <2>1. UNCHANGED checks
    BY <1>13 DEF WatchFails, WatchEnds, CollectorEnds, PodsTerminate, Terminated, Others,
      findings, vars
  <2> QED
    BY <2>1
<1>14. CASE UNCHANGED vars
  BY <1>14 DEF vars, findings
<1> QED
  BY <1>1, <1>2, <1>3, <1>4, <1>5, <1>6, <1>7, <1>8, <1>9, <1>10, <1>11, <1>12, <1>13, <1>14
  DEF Next, Main

\* Whatever ends a run, the checks it measured are in its result.
THEOREM NothingMeasuredIsLost == Spec => MeasurementsSurvive
<1>1. IInv /\ [Next]_vars => [\A c \in Title : checks[c] = "measured" => checks'[c] = "measured"]_vars
  BY SurviveStep
<1> QED
  BY <1>1, Invariance, PTL DEF Spec, MeasurementsSurvive
-----------------------------------------------------------------------------
\* What a run that never reached kind.delete had met before it raised.
Skipped ==
  Ended /\ teardown.deletion = "none" =>
    pc = "raised" /\ (monitor = "unstarted" \/ collector = "unstarted" \/ installed.attempted)

Uninstalling == pc \in {"uninstall", "poll"} => installed.attempted

LEMMA SkippedStep ==
  ASSUME IInv, Skipped, Uninstalling, [Next]_vars
  PROVE  Skipped' /\ Uninstalling'
<1>0. TypePlaces /\ TypeRecords
  BY DEF IInv
<1>1. CASE DeleteCluster
  <2>1. teardown'.deletion \in {"done", "failed"} /\ pc' \in {"returned", "raised"}
    BY <1>0, <1>1 DEF DeleteCluster, TypeRecords, Go, Escape
  <2> QED
    BY <2>1 DEF Skipped, Uninstalling
<1>2. CASE StopMonitor
  BY <1>2 DEF StopMonitor, Go, Escape, Skipped, Uninstalling, Ended
<1>3. CASE StopCollector
  <2>1. CASE collector = "unstarted"
    BY <1>3, <2>1 DEF StopCollector, Escape, Skipped, Uninstalling
  <2>2. CASE collector # "unstarted"
    <3>1. UNCHANGED installed /\ pc' = IF installed.attempted THEN "uninstall" ELSE "delete"
      BY <1>3, <2>2 DEF StopCollector, Go
    <3> QED
      BY <3>1 DEF Skipped, Uninstalling, Ended
  <2> QED
    BY <2>1, <2>2
<1>4. CASE Uninstall \/ AwaitPods
  <2>1. pc \in {"uninstall", "poll"} /\ pc' \in {"poll", "delete", "raised"} /\ UNCHANGED installed
    BY <1>4 DEF Uninstall, AwaitPods, Go, Escape
  <2> QED
    BY <2>1 DEF Skipped, Uninstalling, Ended
<1>5. ASSUME ~Ended', pc' \notin {"uninstall", "poll"} PROVE Skipped' /\ Uninstalling'
  BY <1>5 DEF Skipped, Uninstalling
<1>6. CASE CreateCluster \/ PrepareCluster \/ InstallMetricsServer \/ EnableDnsLogs \/ BeginInstall
           \/ EndInstall \/ CheckInstallation \/ AwaitReadiness
  BY <1>5, <1>6
  DEF CreateCluster, PrepareCluster, InstallMetricsServer, EnableDnsLogs, BeginInstall, EndInstall,
      CheckInstallation, AwaitReadiness, Go, Raise, Ended
<1>7. CASE ExperimentNotReady \/ RunPlan \/ RunService \/ SkipExperiment \/ FillRemaining
           \/ HoldSteadyState \/ MeasureResources \/ ObserveDns
  BY <1>5, <1>7
  DEF ExperimentNotReady, RunPlan, RunService, SkipExperiment, FillRemaining, HoldSteadyState,
      MeasureResources, ObserveDns, Go, Raise, Ended
<1>8. CASE MeasureRecovery \/ CollectArtifacts \/ Handle
  BY <1>5, <1>8 DEF MeasureRecovery, CollectArtifacts, Handle, Go, Raise, Ended
<1>9. CASE WatchMatches \/ WatchFails \/ WatchEnds \/ CollectorEnds
  <2>1. /\ UNCHANGED <<pc, teardown, installed>>
        /\ monitor = "unstarted" => monitor' = "unstarted"
        /\ collector = "unstarted" => collector' = "unstarted"
    BY <1>9 DEF WatchMatches, WatchFails, WatchEnds, CollectorEnds, Others, thread
  <2> QED
    BY <2>1 DEF Skipped, Uninstalling, Ended
<1>10. CASE PodsTerminate \/ UNCHANGED vars
  <2>1. UNCHANGED <<pc, teardown, installed, monitor, collector>>
    BY <1>10 DEF PodsTerminate, Others, thread, vars
  <2> QED
    BY <2>1 DEF Skipped, Uninstalling, Ended
<1> QED
  BY <1>1, <1>2, <1>3, <1>4, <1>6, <1>7, <1>8, <1>9, <1>10 DEF Next, Main, Terminated

\* "always attempt cluster teardown after create" fails in one kind of run only:
\* one that raises, after an observer's thread could not be started (its stop()
\* then raises) or after helm.install was attempted (helm.uninstall or the wait
\* for the product's Pods then lets an exception through).
THEOREM SkippedTeardownsHaveACause == Spec => []Skipped
<1>1. Init => Skipped /\ Uninstalling
  BY DEF Init, Skipped, Uninstalling, Ended
<1>2. IInv /\ Skipped /\ Uninstalling /\ [Next]_vars => Skipped' /\ Uninstalling'
  BY SkippedStep
<1> QED
  BY <1>1, <1>2, Invariance, PTL DEF Spec

\* A run that returns its result has attempted the teardown, whatever it met.
THEOREM ReturnedRunsWereTornDown == Spec => [](pc = "returned" => teardown.deletion # "none")
<1>1. Skipped => (pc = "returned" => teardown.deletion # "none")
  BY DEF Skipped, Ended
<1> QED
  BY <1>1, SkippedTeardownsHaveACause, PTL

\* The places of run_runtime in the order of its statements; both handlers and
\* both ends are as far as each other.
Position ==
  [create |-> 0, prepare |-> 1, metrics |-> 2, dns |-> 3, install |-> 4, installing |-> 5,
   triggered |-> 6, readiness |-> 7, experiment |-> 8, remaining |-> 9, resources |-> 10,
   network |-> 11, recovery |-> 12, artifacts |-> 13, unsafe |-> 14, infrastructure |-> 14,
   stop |-> 15, stop_collector |-> 16, uninstall |-> 17, poll |-> 18, delete |-> 19,
   returned |-> 20, raised |-> 20]

\* The safety half of Disposed: whatever a call returns or raises, run_runtime
\* only goes on, so that its main thread takes at most 20 steps; what it finds
\* when it ends is CleanupTruthful.
THEOREM MainAdvances == Spec => [][Main => Position[pc] < Position[pc']]_vars
<1>1. Main => Position[pc] < Position[pc']
  <2> USE DEF Position, Go, Raise
  <2>1. CASE CreateCluster \/ PrepareCluster \/ InstallMetricsServer \/ EnableDnsLogs \/ BeginInstall
    BY <2>1 DEF CreateCluster, PrepareCluster, InstallMetricsServer, EnableDnsLogs, BeginInstall
  <2>2. CASE EndInstall \/ CheckInstallation \/ AwaitReadiness \/ ExperimentNotReady \/ RunPlan
    BY <2>2 DEF EndInstall, CheckInstallation, AwaitReadiness, ExperimentNotReady, RunPlan
  <2>3. CASE RunService \/ SkipExperiment \/ FillRemaining \/ HoldSteadyState \/ MeasureResources
    BY <2>3 DEF RunService, SkipExperiment, FillRemaining, HoldSteadyState, MeasureResources
  <2>4. CASE ObserveDns \/ MeasureRecovery \/ CollectArtifacts \/ Handle \/ StopMonitor
    BY <2>4 DEF ObserveDns, MeasureRecovery, CollectArtifacts, Handle, StopMonitor, Escape
  <2>5. CASE StopCollector \/ Uninstall \/ AwaitPods \/ DeleteCluster
    BY <2>5 DEF StopCollector, Uninstall, AwaitPods, DeleteCluster, Escape
  <2> QED
    BY <2>1, <2>2, <2>3, <2>4, <2>5 DEF Main
<1> QED
  BY <1>1, PTL DEF Spec
=============================================================================
