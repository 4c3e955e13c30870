---------------------------- MODULE ResourceCheck ----------------------------
(***************************************************************************)
(* runtime.resources beside the HTTP probe: the MetricsCollector thread     *)
(* (execution/runtime_monitor.py), what run_runtime does with it            *)
(* (execution/runtime.py) and measure_resources (execution/runtime_checks.py), *)
(* composed with ServiceProbe, whose Pod runs in the same namespace.        *)
(*                                                                         *)
(* The product has one Pod name, as a StatefulSet's, whose Pod may be       *)
(* replaced.  The Pods and the metrics are read one after the other, and    *)
(* the metrics server lags: it keeps what it read of a Pod that is gone and *)
(* knows nothing of a new one.  A reading is below the profile's threshold  *)
(* ("low"), above it ("high") or lacks a container ("partial").             *)
(***************************************************************************)
EXTENDS ServiceProbe, SequencesExt

CONSTANTS
  Limit,        \* the 120 snapshots of the collector
  Kinds,        \* kinds of readings of the product
  MaxChanges    \* bound of the model: new Pods and readings, after which no Pod goes

ASSUME ReadingAssumption == Limit \in Nat \ {0} /\ Kinds \subseteq {"low", "high", "partial"}
ASSUME BoundAssumption == MaxChanges \in Nat

VARIABLES
  main,        \* run_runtime
  check,       \* the assessment or status of runtime.resources
  live,        \* uid of the product's Pod, or 0
  born,        \* Pods the product has had
  served,      \* what the metrics server would return, by name
  scrapes,     \* its clock
  overloaded,  \* uids of product Pods that were read above the threshold
  collector,   \* the collector's thread
  stopping,    \* its stop event
  error,       \* its error is set
  listed,      \* the Pods it just listed: uid by name
  known,       \* _instrument_pods
  snapshots    \* its snapshots

mainVars == <<main, check>>
podVars == <<live, born, served, scrapes, overloaded>>
collectorVars == <<collector, stopping, error, listed, known, snapshots>>
vars == <<serviceVars, mainVars, podVars, collectorVars>>

Names == {"product", "probe"}
Reading == [stamp : Nat, kind : {"low", "high", "partial"}]
Nothing == [stamp |-> 0, kind |-> "low"]
NoPods == [n \in Names |-> 0]
Verdict == {"pass", "fail", "inconclusive"}

Init ==
  /\ ProbeInit
  /\ main = "experiment" /\ check = "none"
  /\ live = 1 /\ born = 1 /\ scrapes = 0 /\ overloaded = {}
  /\ served = [n \in Names |-> Nothing]
  /\ collector = "check" /\ stopping = FALSE /\ error = FALSE
  /\ listed = NoPods /\ known = {} /\ snapshots = <<>>

-----------------------------------------------------------------------------
(* The collector's thread.                                                   *)

CollectorStops ==
  /\ collector = "check" /\ stopping
  /\ collector' = "ended"
  /\ UNCHANGED <<serviceVars, mainVars, podVars, stopping, error, listed, known, snapshots>>

\* The Pods of the namespace; the probe's uid does not matter.
ListPods ==
  /\ collector = "check" /\ ~stopping
  /\ listed' = [product |-> live, probe |-> IF pod = "none" THEN 0 ELSE 1]
  /\ collector' = "metrics"
  /\ UNCHANGED <<serviceVars, mainVars, podVars, stopping, error, known, snapshots>>

\* An exception of either call; what was listed is lost with it.
CollectorFails ==
  /\ collector = "metrics"
  /\ collector' = "ended" /\ error' = TRUE /\ listed' = NoPods
  /\ UNCHANGED <<serviceVars, mainVars, podVars, stopping, known, snapshots>>

\* A snapshot without the names in out.
Snapshot(out) ==
  [pods    |-> [n \in Names |-> IF n \in out THEN 0 ELSE listed[n]],
   metrics |-> [n \in Names |-> IF n \in out THEN Nothing ELSE served[n]]]

Listed == {n \in {"probe"} : listed[n] # 0}

Keep(snapshot) ==
  IF Len(snapshots) >= Limit
  THEN error' = TRUE /\ collector' = "ended" /\ UNCHANGED snapshots
  ELSE snapshots' = Append(snapshots, snapshot) /\ collector' = "check" /\ UNCHANGED error

\* Slip: the instruments are noted after the filters.
SlipOrderOfReadMetrics ==
  /\ collector = "metrics"
  /\ known' = known \cup Listed
  /\ Keep(Snapshot(known))
  /\ listed' = NoPods
  /\ UNCHANGED <<serviceVars, mainVars, podVars, stopping>>

\* Slip: only the instruments of this list are left out.
SlipReadMetrics ==
  /\ collector = "metrics"
  /\ known' = Listed
  /\ Keep(Snapshot(known'))
  /\ listed' = NoPods
  /\ UNCHANGED <<serviceVars, mainVars, podVars, stopping>>

\* The metrics; the instruments seen so far are left out of both.
ReadMetrics ==
  /\ collector = "metrics"
  /\ known' = known \cup Listed
  /\ Keep(Snapshot(known'))
  /\ listed' = NoPods
  /\ UNCHANGED <<serviceVars, mainVars, podVars, stopping>>

Running == main \notin {"unsafe", "ended"}

\* What the thread does once its data are not read any more is of no consequence.
Collector == Running /\ (CollectorStops \/ CollectorFails \/ ListPods \/ ReadMetrics)

-----------------------------------------------------------------------------
(* run_runtime, from the experiment on: the product is installed and ready.  *)

\* run_runtime is done with the check: the collector's data are no longer read.
Forget == listed' = NoPods /\ known' = {} /\ snapshots' = <<>>
Settle(outcome) == check' = outcome /\ main' = "ended" /\ Forget
Cancel == main' = "unsafe" /\ UNCHANGED check /\ Forget

Proceed(to) == main' = to /\ UNCHANGED <<check, listed, known, snapshots>>

\* The experiment has returned, or raised UnsafeWorkloadError.
LeaveExperiment ==
  /\ main = "experiment" /\ ProbeEnded
  /\ IF result = "unsafe" THEN Cancel ELSE Proceed("steady")
  /\ UNCHANGED <<serviceVars, podVars, collector, stopping, error>>

\* monitor.triggered.wait(steady_state_seconds).
SteadyState ==
  /\ main = "steady"
  /\ IF triggered THEN Cancel ELSE Proceed("stop")
  /\ UNCHANGED <<serviceVars, podVars, collector, stopping, error>>

\* except UnsafeWorkloadError: a check that is not there yet is cancelled.
CancelChecks ==
  /\ main = "unsafe"
  /\ Settle("cancelled")
  /\ UNCHANGED <<serviceVars, podVars, collector, stopping, error>>

StopCollector ==
  /\ main = "stop"
  /\ stopping' = TRUE /\ main' = "join"
  /\ UNCHANGED <<serviceVars, check, podVars, collector, error, listed, known, snapshots>>

\* Slip: a thread that is still alive after 30 seconds goes unnoticed.
SlipJoinCollector ==
  /\ main = "join"
  /\ main' = "measure"
  /\ UNCHANGED <<serviceVars, check, podVars, collectorVars>>

\* The thread has ended, or 30 seconds have passed.
JoinCollector ==
  /\ main = "join"
  /\ \/ collector = "ended" /\ UNCHANGED error
     \/ collector # "ended" /\ error' = TRUE
  /\ main' = "measure"
  /\ UNCHANGED <<serviceVars, check, podVars, collector, stopping, listed, known, snapshots>>

\* The readings of all snapshots, each with the uid that is listed for its name.
Readings ==
  UNION {{[at |-> i, uid |-> snapshots[i].pods[n], stamp |-> snapshots[i].metrics[n].stamp,
           kind |-> snapshots[i].metrics[n].kind] :
             n \in {m \in Names : snapshots[i].metrics[m] # Nothing}} : i \in DOMAIN snapshots}

SameIdentity(r, q) == r.uid = q.uid /\ r.stamp = q.stamp

\* The observations of measure_resources: readings of a listed Pod, each the
\* first of its identity.
Samples == {r \in Readings : r.uid # 0 /\ \A q \in Readings : SameIdentity(r, q) => r.at <= q.at}

Sampled(kind) == \E r \in Samples : r.kind = kind

Incomplete == (\E r \in Readings : r.uid = 0) \/ Sampled("partial")

Assessment ==
  IF Sampled("high") THEN "fail"
  ELSE IF Incomplete \/ Samples = {} THEN "inconclusive" ELSE "pass"

\* metrics_error, or the assessment of the samples; a sample whose usage is no
\* quantity (InvalidQuantity) spoils the measurement.
MeasureResources ==
  /\ main = "measure"
  /\ \/ Settle(IF error THEN "infrastructure_failure" ELSE Assessment)
     \/ ~error /\ Samples # {} /\ Settle("infrastructure_failure")
  /\ UNCHANGED <<serviceVars, podVars, collector, stopping, error>>

Main == LeaveExperiment \/ SteadyState \/ CancelChecks \/ StopCollector \/ JoinCollector \/ MeasureResources

-----------------------------------------------------------------------------
(* The product's Pod and the metrics server.                                 *)

ChangesLeft == born + scrapes <= MaxChanges

StartProduct ==
  /\ Running /\ live = 0 /\ ChangesLeft
  /\ born' = born + 1 /\ live' = born'
  /\ UNCHANGED <<serviceVars, mainVars, collectorVars, served, scrapes, overloaded>>

ProductGoes ==
  /\ Running /\ live # 0 /\ ChangesLeft
  /\ live' = 0
  /\ UNCHANGED <<serviceVars, mainVars, collectorVars, born, served, scrapes, overloaded>>

\* The metrics server reads the Pods that are there and drops others, or not
\* yet.  What it reads of the probe is the worst case.
Scrape(name) ==
  /\ Running /\ ChangesLeft
  /\ \/ name = "product" /\ live # 0
     \/ name = "probe" /\ pod = "running"
  /\ scrapes' = scrapes + 1
  /\ \E kind \in IF name = "product" THEN Kinds ELSE {"high"} :
       /\ served' = [served EXCEPT ![name] = [stamp |-> scrapes', kind |-> kind]]
       /\ overloaded' = IF name = "product" /\ kind = "high" THEN overloaded \cup {live} ELSE overloaded
  /\ UNCHANGED <<serviceVars, mainVars, collectorVars, live, born>>

DropReading(name) ==
  /\ Running /\ served[name] # Nothing
  /\ IF name = "product" THEN live = 0 ELSE pod # "running"
  /\ served' = [served EXCEPT ![name] = Nothing]
  /\ UNCHANGED <<serviceVars, mainVars, collectorVars, live, born, scrapes, overloaded>>

MetricsServer == \E name \in Names : Scrape(name) \/ DropReading(name)

\* The probe's steps happen while run_runtime is in the experiment; the
\* cluster's do not wait for it.
ProbeStep == main = "experiment" /\ Probe

Cancelling == main \in {"experiment", "steady"} /\ Trigger

Service ==
  /\ ProbeStep \/ JobController \/ Cancelling
  /\ UNCHANGED <<mainVars, podVars, collectorVars>>

Terminated == main = "ended" /\ UNCHANGED vars

Next == Main \/ Collector \/ Service \/ StartProduct \/ ProductGoes \/ MetricsServer \/ Terminated

Spec == Init /\ [][Next]_vars /\ ProbeFairness

-----------------------------------------------------------------------------
(* Properties.                                                               *)

TypeOK ==
  /\ ServiceTypeOK
  /\ main \in {"experiment", "steady", "unsafe", "stop", "join", "measure", "ended"}
  /\ check \in Verdict \cup {"none", "cancelled", "infrastructure_failure"}
  /\ live \in 0 .. born /\ born \in Nat /\ scrapes \in Nat /\ overloaded \subseteq 1 .. born
  /\ served \in [Names -> Reading]
  /\ collector \in {"check", "metrics", "ended"}
  /\ stopping \in BOOLEAN /\ error \in BOOLEAN
  /\ listed \in [Names -> Nat] /\ known \subseteq {"probe"}
  /\ snapshots \in Seq([pods : [Names -> Nat], metrics : [Names -> Reading]])
  /\ Len(snapshots) <= Limit

\* A failure of the resource check is a product Pod's doing, never the probe's
\* own Pod's; a pass has a complete sample and no reading that is missing a
\* Pod, a container or the threshold; and a reading that the metrics server
\* repeats counts once (the filters of _collect, measure_resources).
VerdictIsTheProducts ==
  [][check' # check =>
       /\ check' = "fail" => overloaded # {}
       /\ check' = "pass" =>
            /\ Samples # {}
            /\ \A i \in DOMAIN snapshots : /\ snapshots[i].metrics["product"].kind = "low"
                                         /\ snapshots[i].metrics["probe"] = Nothing
       /\ \A r, q \in Samples : SameIdentity(r, q) => r = q]_vars

\* Snapshots are assessed only when their thread has ended without an error:
\* the limit of snapshots, a failed call or a thread that would not stop never
\* pass for a measurement (stop, metrics_error).
CollectorErrorsAreNoVerdict ==
  check \in Verdict => collector = "ended" /\ ~error

\* Once an instrument's Pod was listed, what the metrics server still returns
\* for it never enters a snapshot again, though the Pod is gone (_instrument_pods).
KnownInstrumentsStayOut ==
  [][known # {} /\ Len(snapshots') > Len(snapshots) => Last(snapshots').metrics["probe"] = Nothing]_vars

-----------------------------------------------------------------------------
(* The part of run_runtime that this module details, as RuntimeLifecycle has *)
(* it: a service experiment on a product that became ready, under a monitor  *)
(* that only sees violations.                                                *)

Cancelled == check = "cancelled"
Measuring == main \in {"measure", "ended"} /\ ~Cancelled

LifecyclePc ==
  CASE main = "experiment" -> IF ~ProbeEnded THEN "experiment"
                              ELSE IF result = "unsafe" THEN "unsafe" ELSE "remaining"
    [] main \in {"steady", "stop", "join"} -> "remaining"
    [] main = "unsafe" -> "unsafe"
    [] main = "measure" -> "resources"
    [] main = "ended" -> IF Cancelled THEN "stop" ELSE "network"

LifecycleTrial ==
  IF ~ProbeEnded THEN "none"
  ELSE IF result # "unsafe" THEN result ELSE IF Cancelled THEN "cancelled" ELSE "none"

LifecycleCheck(c) ==
  CASE c = "installation" -> "measured"
    [] c # "installation" /\ Cancelled -> "cancelled"
    [] c = "resources" /\ ~Cancelled -> IF check \in Verdict THEN "measured" ELSE check
    [] OTHER -> "none"

\* Until it is joined the thread is as good as running, whatever it did.
LifecycleCollector ==
  IF ~Measuring THEN "running" ELSE IF collector = "ended" THEN "stopped" ELSE "stuck"

RL == INSTANCE RuntimeLifecycle WITH
        Experiments <- {"service"}, experiment <- "service", selected <- {},
        pc <- LifecyclePc,
        raised <- IF LifecyclePc = "unsafe" \/ Cancelled THEN "unsafe" ELSE "none",
        cluster <- "present", release <- TRUE, pods <- TRUE,
        monitor <- IF triggered THEN "violation" ELSE "quiet", watching <- ~triggered,
        collector <- LifecycleCollector,
        errors <- [metrics |-> Measuring /\ error, dns |-> FALSE],
        installed <- [attempted |-> TRUE, helm |-> TRUE, ready |-> TRUE],
        checks <- [c \in {"installation", "resources", "network", "recovery"} |-> LifecycleCheck(c)],
        trial <- LifecycleTrial, execution <- FALSE,
        teardown <- [error |-> FALSE, leftovers |-> FALSE, deletion |-> "none"]

\* The probe, the collector and the resource check take the steps that
\* RuntimeLifecycle allows run_runtime there, in its order, and no other: a
\* collector that failed or hangs is its metrics error, a violation found
\* anywhere its cancellation (run_runtime from the experiment on).
ImplementsRuntimeLifecycle == [][RL!Next]_(RL!vars)
=============================================================================
