------------------------- MODULE ResourceCheckProofs -------------------------
(***************************************************************************)
(* Types, what keeps the collector's failures and the instruments out of   *)
(* the resource check, what its verdicts rest on, and that it implements    *)
(* RuntimeLifecycle, for any limit, kinds and bounds.                       *)
(***************************************************************************)
EXTENDS ResourceCheck, SequenceTheorems, WellFoundedInduction, TLAPS

TypeMain ==
  /\ main \in {"experiment", "steady", "unsafe", "stop", "join", "measure", "ended"}
  /\ check \in Verdict \cup {"none", "cancelled", "infrastructure_failure"}

TypePods ==
  /\ live \in 0 .. born /\ born \in Nat /\ scrapes \in Nat /\ overloaded \subseteq 1 .. born

TypeServed == scrapes \in Nat /\ served \in [Names -> Reading]

TypeThread ==
  /\ collector \in {"check", "metrics", "ended"}
  /\ stopping \in BOOLEAN /\ error \in BOOLEAN

TypeListed == listed \in [Names -> Nat] /\ known \subseteq {"probe"}

Snapshots == Seq([pods : [Names -> Nat], metrics : [Names -> Reading]])

TypeSnapshots == snapshots \in Snapshots /\ Len(snapshots) <= Limit

\* Past the join, a thread that is still there is an error.
Joined ==
  /\ main = "measure" => collector = "ended" \/ error
  /\ CollectorErrorsAreNoVerdict

\* The readings that are still about: the server's and the snapshots'.
Seen(r) ==
  \E n \in Names : r = served[n] \/ \E i \in DOMAIN snapshots : r = snapshots[i].metrics[n]

\* A stamp tells a reading: what the metrics server repeats is the same.
StampsTell ==
  /\ \A r : Seen(r) => r.stamp <= scrapes
  /\ \A r, q : (Seen(r) \/ r = Nothing) /\ (Seen(q) \/ q = Nothing) /\ r.stamp = q.stamp => r = q

\* No reading above the threshold but of a product Pod that was overloaded.
HighIsKnown ==
  /\ served["product"].kind = "high" => overloaded # {}
  /\ \A i \in DOMAIN snapshots : snapshots[i].metrics["product"].kind = "high" => overloaded # {}

\* No snapshot lists an instrument: its readings have no Pod.
InstrumentsOut == \A i \in DOMAIN snapshots : snapshots[i].pods["probe"] = 0

\* What run_runtime knows of the probe where it stands.
Aligned ==
  /\ result = "none" <=> probe \notin {"delete", "ended"}
  /\ result = "unsafe" => triggered
  /\ main # "experiment" => ProbeEnded
  /\ main \notin {"experiment", "unsafe", "ended"} => result # "unsafe"
  /\ main = "ended" /\ check # "cancelled" => result # "unsafe"
  /\ main = "unsafe" => triggered
  /\ main \in {"stop", "join"} => ~triggered
  /\ check # "none" <=> main = "ended"

IInv ==
  /\ ServiceTypeOK /\ TypeMain /\ TypePods /\ TypeServed
  /\ TypeThread /\ TypeListed /\ TypeSnapshots /\ Joined
  /\ StampsTell /\ HighIsKnown /\ InstrumentsOut /\ Aligned

-----------------------------------------------------------------------------
LEMMA InitHolds == Init => IInv
<1>0. SUFFICES ASSUME Init PROVE IInv
  OBVIOUS
<1>1. ServiceTypeOK
  BY <1>0 DEF Init, ProbeInit, ServiceTypeOK
<1>2. TypeMain /\ TypeThread /\ Joined
  BY <1>0 DEF Init, TypeMain, TypeThread, Joined, CollectorErrorsAreNoVerdict, Verdict
<1>3. TypePods /\ TypeServed
  BY <1>0 DEF Init, TypePods, TypeServed, Reading, Nothing
<1>4. TypeListed
  BY <1>0 DEF Init, TypeListed, NoPods
<1>5. TypeSnapshots
  BY <1>0, ReadingAssumption DEF Init, TypeSnapshots, Snapshots
<1>6. DOMAIN snapshots = {} /\ \A n \in Names : served[n] = Nothing
  BY <1>0 DEF Init
<1>7. StampsTell
  <2>1. \A r : Seen(r) => r = Nothing
    BY <1>6 DEF Seen
  <2>2. Nothing.stamp = 0 /\ scrapes = 0
    BY <1>0 DEF Init, Nothing
  <2> QED
    BY <2>1, <2>2 DEF StampsTell
<1>8. HighIsKnown /\ InstrumentsOut
  BY <1>6 DEF HighIsKnown, InstrumentsOut, Nothing, Names
<1>9. Aligned
  BY <1>0 DEF Init, ProbeInit, ProbeEnded, Aligned
<1> QED
  BY <1>1, <1>2, <1>3, <1>4, <1>5, <1>7, <1>8, <1>9 DEF IInv

LEMMA ServiceStep ==
  ASSUME ServiceTypeOK, [Next]_vars
  PROVE  ServiceTypeOK'
<1>1. CASE Service
  <2>1. CASE ProbeStep
    BY <1>1, <2>1 DEF ProbeStep, Probe, AskExperiment, AskProbe, CreateJob, Poll, CollectLog, AcceptResult,
      DeleteJob, EndWith, DeleteWith, ServiceTypeOK, jobVars
  <2>2. CASE JobController
    BY <1>1, <2>2 DEF JobController, Cleanup, CreateLands, StartPod, FinishPod, JobDeadline, JobExpires,
      CollectPod, ServiceTypeOK, probeVars
  <2>3. CASE Cancelling
    BY <1>1, <2>3 DEF Cancelling, Trigger, ServiceTypeOK, probeVars, jobVars
  <2> QED
    BY <1>1, <2>1, <2>2, <2>3 DEF Service
<1>2. CASE LeaveExperiment \/ SteadyState \/ CancelChecks
  <2>1. UNCHANGED <<probe, result, creating, job, pod, triggered>>
    BY <1>2 DEF LeaveExperiment, Cancel, Forget, Proceed, SteadyState, CancelChecks, Settle,
      vars, serviceVars, probeVars, jobVars, mainVars, podVars, collectorVars
  <2> QED
    BY <2>1 DEF ServiceTypeOK
<1>3. CASE StopCollector \/ JoinCollector \/ MeasureResources
  <2>1. UNCHANGED <<probe, result, creating, job, pod, triggered>>
    BY <1>3 DEF StopCollector, JoinCollector, MeasureResources, Settle, Forget, vars,
      serviceVars, probeVars, jobVars, mainVars, podVars, collectorVars
  <2> QED
    BY <2>1 DEF ServiceTypeOK
<1>4. CASE CollectorStops \/ CollectorFails \/ ListPods
  <2>1. UNCHANGED <<probe, result, creating, job, pod, triggered>>
    BY <1>4 DEF CollectorStops, CollectorFails, ListPods, vars, serviceVars, probeVars, jobVars,
      mainVars, podVars, collectorVars
  <2> QED
    BY <2>1 DEF ServiceTypeOK
<1>5. CASE ReadMetrics \/ StartProduct \/ ProductGoes
  <2>1. UNCHANGED <<probe, result, creating, job, pod, triggered>>
    BY <1>5 DEF ReadMetrics, Keep, StartProduct, ProductGoes, vars, serviceVars, probeVars,
      jobVars, mainVars, podVars, collectorVars
  <2> QED
    BY <2>1 DEF ServiceTypeOK
<1>6. CASE MetricsServer \/ UNCHANGED vars
  <2>1. UNCHANGED <<probe, result, creating, job, pod, triggered>>
    BY <1>6 DEF MetricsServer, Scrape, DropReading, vars, serviceVars, probeVars, jobVars,
      mainVars, podVars, collectorVars
  <2> QED
    BY <2>1 DEF ServiceTypeOK
<1> QED
  BY <1>1, <1>2, <1>3, <1>4, <1>5, <1>6
  DEF Next, Main, Collector, Terminated

LEMMA MainStep ==
  ASSUME TypeMain, [Next]_vars
  PROVE  TypeMain'
<1>1. CASE LeaveExperiment
  BY <1>1 DEF LeaveExperiment, Cancel, Forget, Proceed, TypeMain, Verdict, vars, serviceVars,
    probeVars, jobVars, mainVars, podVars, collectorVars
<1>2. CASE SteadyState
  BY <1>2 DEF SteadyState, Cancel, Forget, Proceed, TypeMain, Verdict, vars, serviceVars,
    probeVars, jobVars, mainVars, podVars, collectorVars
<1>3. CASE CancelChecks
  BY <1>3 DEF CancelChecks, Settle, Forget, TypeMain, Verdict, vars, serviceVars, probeVars,
    jobVars, mainVars, podVars, collectorVars
<1>4. CASE StopCollector
  BY <1>4 DEF StopCollector, TypeMain, Verdict, vars, serviceVars, probeVars, jobVars, mainVars,
    podVars, collectorVars
<1>5. CASE JoinCollector
  BY <1>5 DEF JoinCollector, TypeMain, Verdict, vars, serviceVars, probeVars, jobVars, mainVars,
    podVars, collectorVars
<1>6. CASE MeasureResources
  BY <1>6 DEF MeasureResources, Settle, Forget, Assessment, TypeMain, Verdict
<1>7. CASE CollectorStops \/ CollectorFails \/ ListPods
  <2>1. UNCHANGED <<main, check>>
    BY <1>7 DEF CollectorStops, CollectorFails, ListPods, vars, serviceVars, probeVars, jobVars,
      mainVars, podVars, collectorVars
  <2> QED
    BY <2>1 DEF TypeMain, Verdict
<1>8. CASE ReadMetrics \/ StartProduct \/ ProductGoes
  <2>1. UNCHANGED <<main, check>>
    BY <1>8 DEF ReadMetrics, Keep, StartProduct, ProductGoes, vars, serviceVars, probeVars,
      jobVars, mainVars, podVars, collectorVars
  <2> QED
    BY <2>1 DEF TypeMain, Verdict
<1>9. CASE MetricsServer \/ Service \/ UNCHANGED vars
  <2>1. UNCHANGED <<main, check>>
    BY <1>9 DEF MetricsServer, Scrape, DropReading, Service, vars, serviceVars, probeVars,
      jobVars, mainVars, podVars, collectorVars
  <2> QED
    BY <2>1 DEF TypeMain, Verdict
<1> QED
  BY <1>1, <1>2, <1>3, <1>4, <1>5, <1>6, <1>7, <1>8, <1>9
  DEF Next, Main, Collector, Terminated

LEMMA PodsStep ==
  ASSUME TypePods, [Next]_vars
  PROVE  TypePods'
<1>1. CASE StartProduct
  BY <1>1 DEF StartProduct, TypePods, vars, serviceVars, probeVars, jobVars, mainVars, podVars,
    collectorVars
<1>2. CASE ProductGoes
  BY <1>2 DEF ProductGoes, TypePods, vars, serviceVars, probeVars, jobVars, mainVars, podVars,
    collectorVars
<1>3. CASE MetricsServer
  <2>1. PICK name \in Names : Scrape(name) \/ DropReading(name)
    BY <1>3 DEF MetricsServer
  <2>2. UNCHANGED <<live, born>>
    BY <2>1 DEF Scrape, DropReading
  <2>3. scrapes' \in Nat
    BY <2>1 DEF Scrape, DropReading, TypePods
  <2>4. overloaded' \subseteq overloaded \cup (IF live # 0 THEN {live} ELSE {})
    BY <2>1 DEF Scrape, DropReading, Names
  <2> QED
    BY <2>2, <2>3, <2>4 DEF TypePods
<1>4. CASE LeaveExperiment \/ SteadyState \/ CancelChecks
  <2>1. UNCHANGED <<live, born, scrapes, overloaded>>
    BY <1>4 DEF LeaveExperiment, Cancel, Forget, Proceed, SteadyState, CancelChecks, Settle,
      vars, serviceVars, probeVars, jobVars, mainVars, podVars, collectorVars
  <2> QED
    BY <2>1 DEF TypePods
<1>5. CASE StopCollector \/ JoinCollector \/ MeasureResources
  <2>1. UNCHANGED <<live, born, scrapes, overloaded>>
    BY <1>5 DEF StopCollector, JoinCollector, MeasureResources, Settle, Forget, vars,
      serviceVars, probeVars, jobVars, mainVars, podVars, collectorVars
  <2> QED
    BY <2>1 DEF TypePods
<1>6. CASE CollectorStops \/ CollectorFails \/ ListPods
  <2>1. UNCHANGED <<live, born, scrapes, overloaded>>
    BY <1>6 DEF CollectorStops, CollectorFails, ListPods, vars, serviceVars, probeVars, jobVars,
      mainVars, podVars, collectorVars
  <2> QED
    BY <2>1 DEF TypePods
<1>7. CASE ReadMetrics \/ Service \/ UNCHANGED vars
  <2>1. UNCHANGED <<live, born, scrapes, overloaded>>
    BY <1>7 DEF ReadMetrics, Keep, Service, vars, serviceVars, probeVars, jobVars, mainVars,
      podVars, collectorVars
  <2> QED
    BY <2>1 DEF TypePods
<1> QED
  BY <1>1, <1>2, <1>3, <1>4, <1>5, <1>6, <1>7
  DEF Next, Main, Collector, Terminated

LEMMA ServedStep ==
  ASSUME TypeServed, [Next]_vars
  PROVE  TypeServed'
<1>1. CASE MetricsServer
  <2>1. PICK name \in Names : Scrape(name) \/ DropReading(name)
    BY <1>1 DEF MetricsServer
  <2>2. CASE DropReading(name)
    BY <2>2 DEF DropReading, TypeServed, Reading, Nothing
  <2>3. CASE Scrape(name)
    <3>1. scrapes' \in Nat
      BY <2>3 DEF Scrape, TypeServed
    <3>2. PICK kind \in {"low", "high", "partial"} :
            served' = [served EXCEPT ![name] = [stamp |-> scrapes', kind |-> kind]]
      BY <2>3, ReadingAssumption DEF Scrape
    <3> QED
      BY <3>1, <3>2 DEF TypeServed, Reading
  <2> QED
    BY <2>1, <2>2, <2>3
<1>2. CASE LeaveExperiment \/ SteadyState \/ CancelChecks
  <2>1. UNCHANGED <<served, scrapes>>
    BY <1>2 DEF LeaveExperiment, Cancel, Forget, Proceed, SteadyState, CancelChecks, Settle,
      vars, serviceVars, probeVars, jobVars, mainVars, podVars, collectorVars
  <2> QED
    BY <2>1 DEF TypeServed, Reading, Nothing
<1>3. CASE StopCollector \/ JoinCollector \/ MeasureResources
  <2>1. UNCHANGED <<served, scrapes>>
    BY <1>3 DEF StopCollector, JoinCollector, MeasureResources, Settle, Forget, vars,
      serviceVars, probeVars, jobVars, mainVars, podVars, collectorVars
  <2> QED
    BY <2>1 DEF TypeServed, Reading, Nothing
<1>4. CASE CollectorStops \/ CollectorFails \/ ListPods
  <2>1. UNCHANGED <<served, scrapes>>
    BY <1>4 DEF CollectorStops, CollectorFails, ListPods, vars, serviceVars, probeVars, jobVars,
      mainVars, podVars, collectorVars
  <2> QED
    BY <2>1 DEF TypeServed, Reading, Nothing
<1>5. CASE ReadMetrics \/ StartProduct \/ ProductGoes
  <2>1. UNCHANGED <<served, scrapes>>
    BY <1>5 DEF ReadMetrics, Keep, StartProduct, ProductGoes, vars, serviceVars, probeVars,
      jobVars, mainVars, podVars, collectorVars
  <2> QED
    BY <2>1 DEF TypeServed, Reading, Nothing
<1>6. CASE Service \/ UNCHANGED vars
  <2>1. UNCHANGED <<served, scrapes>>
    BY <1>6 DEF Service, vars, serviceVars, probeVars, jobVars, mainVars, podVars, collectorVars
  <2> QED
    BY <2>1 DEF TypeServed, Reading, Nothing
<1> QED
  BY <1>1, <1>2, <1>3, <1>4, <1>5, <1>6
  DEF Next, Main, Collector, Terminated

LEMMA ThreadStep ==
  ASSUME TypeThread, [Next]_vars
  PROVE  TypeThread'
<1>1. CASE StopCollector
  BY <1>1 DEF StopCollector, TypeThread, vars, serviceVars, probeVars, jobVars, mainVars,
    podVars, collectorVars
<1>2. CASE JoinCollector
  BY <1>2 DEF JoinCollector, TypeThread, vars, serviceVars, probeVars, jobVars, mainVars,
    podVars, collectorVars
<1>3. CASE CollectorStops
  BY <1>3 DEF CollectorStops, TypeThread, vars, serviceVars, probeVars, jobVars, mainVars,
    podVars, collectorVars
<1>4. CASE CollectorFails
  BY <1>4 DEF CollectorFails, TypeThread, vars, serviceVars, probeVars, jobVars, mainVars,
    podVars, collectorVars
<1>5. CASE ListPods
  BY <1>5 DEF ListPods, TypeThread, vars, serviceVars, probeVars, jobVars, mainVars, podVars,
    collectorVars
<1>6. CASE ReadMetrics
  BY <1>6 DEF ReadMetrics, Keep, TypeThread, vars, serviceVars, probeVars, jobVars, mainVars,
    podVars, collectorVars
<1>7. CASE LeaveExperiment \/ SteadyState \/ CancelChecks
  <2>1. UNCHANGED <<collector, stopping, error>>
    BY <1>7 DEF LeaveExperiment, Cancel, Forget, Proceed, SteadyState, CancelChecks, Settle,
      vars, serviceVars, probeVars, jobVars, mainVars, podVars, collectorVars
  <2> QED
    BY <2>1 DEF TypeThread
<1>8. CASE MeasureResources \/ StartProduct \/ ProductGoes
  <2>1. UNCHANGED <<collector, stopping, error>>
    BY <1>8 DEF MeasureResources, Settle, Forget, StartProduct, ProductGoes, vars, serviceVars,
      probeVars, jobVars, mainVars, podVars, collectorVars
  <2> QED
    BY <2>1 DEF TypeThread
<1>9. CASE MetricsServer \/ Service \/ UNCHANGED vars
  <2>1. UNCHANGED <<collector, stopping, error>>
    BY <1>9 DEF MetricsServer, Scrape, DropReading, Service, vars, serviceVars, probeVars,
      jobVars, mainVars, podVars, collectorVars
  <2> QED
    BY <2>1 DEF TypeThread
<1> QED
  BY <1>1, <1>2, <1>3, <1>4, <1>5, <1>6, <1>7, <1>8, <1>9
  DEF Next, Main, Collector, Terminated

LEMMA ListedStep ==
  ASSUME TypePods /\ TypeListed, [Next]_vars
  PROVE  TypeListed'
<1>1. CASE LeaveExperiment
  <2>1. CASE listed' = NoPods /\ known' = {}
    <3>1. NoPods \in [Names -> Nat]
      BY DEF NoPods
    <3> QED
      BY <2>1, <3>1 DEF TypeListed
  <2>2. CASE listed' = listed /\ known' = known
    BY <2>2 DEF TypeListed
  <2> QED
    BY <1>1, <2>1, <2>2 DEF LeaveExperiment, Settle, Cancel, Forget, Proceed
<1>2. CASE SteadyState
  <2>1. CASE listed' = NoPods /\ known' = {}
    <3>1. NoPods \in [Names -> Nat]
      BY DEF NoPods
    <3> QED
      BY <2>1, <3>1 DEF TypeListed
  <2>2. CASE listed' = listed /\ known' = known
    BY <2>2 DEF TypeListed
  <2> QED
    BY <1>2, <2>1, <2>2 DEF SteadyState, Settle, Cancel, Forget, Proceed
<1>3. CASE CancelChecks
  <2>1. CASE listed' = NoPods /\ known' = {}
    <3>1. NoPods \in [Names -> Nat]
      BY DEF NoPods
    <3> QED
      BY <2>1, <3>1 DEF TypeListed
  <2>2. CASE listed' = listed /\ known' = known
    BY <2>2 DEF TypeListed
  <2> QED
    BY <1>3, <2>1, <2>2 DEF CancelChecks, Settle, Cancel, Forget, Proceed
<1>4. CASE MeasureResources
  <2>1. CASE listed' = NoPods /\ known' = {}
    <3>1. NoPods \in [Names -> Nat]
      BY DEF NoPods
    <3> QED
      BY <2>1, <3>1 DEF TypeListed
  <2>2. CASE listed' = listed /\ known' = known
    BY <2>2 DEF TypeListed
  <2> QED
    BY <1>4, <2>1, <2>2 DEF MeasureResources, Settle, Cancel, Forget, Proceed
<1>5. CASE CollectorFails
  BY <1>5 DEF CollectorFails, TypeListed, NoPods, Names, Listed, vars, serviceVars, probeVars,
    jobVars, mainVars, podVars, collectorVars
<1>6. CASE ListPods
  BY <1>6 DEF ListPods, TypePods, TypeListed, Names, mainVars
<1>7. CASE ReadMetrics
  BY <1>7 DEF ReadMetrics, Keep, TypeListed, NoPods, Names, Listed, vars, serviceVars,
    probeVars, jobVars, mainVars, podVars, collectorVars
<1>8. CASE StopCollector \/ JoinCollector \/ CollectorStops
  <2>1. UNCHANGED <<listed, known>>
    BY <1>8 DEF StopCollector, JoinCollector, CollectorStops, vars, serviceVars, probeVars,
      jobVars, mainVars, podVars, collectorVars
  <2> QED
    BY <2>1 DEF TypeListed, NoPods, Names, Listed
<1>9. CASE StartProduct \/ ProductGoes \/ MetricsServer
  <2>1. UNCHANGED <<listed, known>>
    BY <1>9 DEF StartProduct, ProductGoes, MetricsServer, Scrape, DropReading, vars,
      serviceVars, probeVars, jobVars, mainVars, podVars, collectorVars
  <2> QED
    BY <2>1 DEF TypeListed, NoPods, Names, Listed
<1>10. CASE Service \/ UNCHANGED vars
  <2>1. UNCHANGED <<listed, known>>
    BY <1>10 DEF Service, vars, serviceVars, probeVars, jobVars, mainVars, podVars,
      collectorVars
  <2> QED
    BY <2>1 DEF TypeListed, NoPods, Names, Listed
<1> QED
  BY <1>1, <1>2, <1>3, <1>4, <1>5, <1>6, <1>7, <1>8, <1>9, <1>10
  DEF Next, Main, Collector, Terminated

LEMMA SnapshotsStep ==
  ASSUME TypeServed /\ TypeListed /\ TypeSnapshots, [Next]_vars
  PROVE  TypeSnapshots'
<1>1. CASE LeaveExperiment
  <2>1. CASE snapshots' = <<>>
    <3>1. Len(snapshots') = 0 /\ snapshots' \in Snapshots
      BY <2>1, EmptySeq DEF Snapshots
    <3> QED
      BY <3>1, ReadingAssumption DEF TypeSnapshots
  <2>2. CASE snapshots' = snapshots
    BY <2>2 DEF TypeSnapshots
  <2> QED
    BY <1>1, <2>1, <2>2 DEF LeaveExperiment, Settle, Cancel, Forget, Proceed
<1>2. CASE SteadyState
  <2>1. CASE snapshots' = <<>>
    <3>1. Len(snapshots') = 0 /\ snapshots' \in Snapshots
      BY <2>1, EmptySeq DEF Snapshots
    <3> QED
      BY <3>1, ReadingAssumption DEF TypeSnapshots
  <2>2. CASE snapshots' = snapshots
    BY <2>2 DEF TypeSnapshots
  <2> QED
    BY <1>2, <2>1, <2>2 DEF SteadyState, Settle, Cancel, Forget, Proceed
<1>3. CASE CancelChecks
  <2>1. CASE snapshots' = <<>>
    <3>1. Len(snapshots') = 0 /\ snapshots' \in Snapshots
      BY <2>1, EmptySeq DEF Snapshots
    <3> QED
      BY <3>1, ReadingAssumption DEF TypeSnapshots
  <2>2. CASE snapshots' = snapshots
    BY <2>2 DEF TypeSnapshots
  <2> QED
    BY <1>3, <2>1, <2>2 DEF CancelChecks, Settle, Cancel, Forget, Proceed
<1>4. CASE MeasureResources
  <2>1. CASE snapshots' = <<>>
    <3>1. Len(snapshots') = 0 /\ snapshots' \in Snapshots
      BY <2>1, EmptySeq DEF Snapshots
    <3> QED
      BY <3>1, ReadingAssumption DEF TypeSnapshots
  <2>2. CASE snapshots' = snapshots
    BY <2>2 DEF TypeSnapshots
  <2> QED
    BY <1>4, <2>1, <2>2 DEF MeasureResources, Settle, Cancel, Forget, Proceed
<1>5. CASE ReadMetrics
  <2>1. Snapshot(known') \in [pods : [Names -> Nat], metrics : [Names -> Reading]]
    BY DEF Snapshot, TypeListed, TypeServed, Reading, Nothing
  <2>2. CASE Len(snapshots) >= Limit
    BY <1>5, <2>2 DEF ReadMetrics, Keep, TypeSnapshots
  <2>3. CASE ~(Len(snapshots) >= Limit)
    <3>1. snapshots' = Append(snapshots, Snapshot(known'))
      BY <1>5, <2>3 DEF ReadMetrics, Keep
    <3>2. snapshots' \in Snapshots /\ Len(snapshots') = Len(snapshots) + 1
      BY <2>1, <3>1, AppendProperties DEF TypeSnapshots, Snapshots
    <3>3. Len(snapshots) \in Nat
      BY LenProperties DEF TypeSnapshots, Snapshots
    <3> QED
      BY <2>3, <3>2, <3>3, ReadingAssumption DEF TypeSnapshots
  <2> QED
    BY <2>2, <2>3
<1>6. CASE StopCollector \/ JoinCollector \/ CollectorStops
  <2>1. UNCHANGED <<snapshots>>
    BY <1>6 DEF StopCollector, JoinCollector, CollectorStops, vars, serviceVars, probeVars,
      jobVars, mainVars, podVars, collectorVars
  <2> QED
    BY <2>1 DEF TypeSnapshots, Snapshots
<1>7. CASE CollectorFails \/ ListPods \/ StartProduct
  <2>1. UNCHANGED <<snapshots>>
    BY <1>7 DEF CollectorFails, ListPods, StartProduct, vars, serviceVars, probeVars, jobVars,
      mainVars, podVars, collectorVars
  <2> QED
    BY <2>1 DEF TypeSnapshots, Snapshots
<1>8. CASE ProductGoes \/ MetricsServer \/ Service \/ UNCHANGED vars
  <2>1. UNCHANGED <<snapshots>>
    BY <1>8 DEF ProductGoes, MetricsServer, Scrape, DropReading, Service, vars, serviceVars,
      probeVars, jobVars, mainVars, podVars, collectorVars
  <2> QED
    BY <2>1 DEF TypeSnapshots, Snapshots
<1> QED
  BY <1>1, <1>2, <1>3, <1>4, <1>5, <1>6, <1>7, <1>8
  DEF Next, Main, Collector, Terminated

LEMMA JoinedStep ==
  ASSUME TypeMain /\ TypeThread /\ Joined, [Next]_vars
  PROVE  Joined'
<1>1. CASE LeaveExperiment
  BY <1>1 DEF LeaveExperiment, Cancel, Forget, Proceed, TypeMain, TypeThread, Joined,
    CollectorErrorsAreNoVerdict, Verdict, vars, serviceVars, probeVars, jobVars, mainVars,
    podVars, collectorVars
<1>2. CASE SteadyState
  BY <1>2 DEF SteadyState, Cancel, Forget, Proceed, TypeMain, TypeThread, Joined,
    CollectorErrorsAreNoVerdict, Verdict, vars, serviceVars, probeVars, jobVars, mainVars,
    podVars, collectorVars
<1>3. CASE CancelChecks
  BY <1>3 DEF CancelChecks, Settle, Forget, TypeMain, TypeThread, Joined,
    CollectorErrorsAreNoVerdict, Verdict, vars, serviceVars, probeVars, jobVars, mainVars,
    podVars, collectorVars
<1>4. CASE StopCollector
  BY <1>4 DEF StopCollector, TypeMain, TypeThread, Joined, CollectorErrorsAreNoVerdict, Verdict,
    vars, serviceVars, probeVars, jobVars, mainVars, podVars, collectorVars
<1>5. CASE JoinCollector
  BY <1>5 DEF JoinCollector, TypeMain, TypeThread, Joined, CollectorErrorsAreNoVerdict, Verdict,
    vars, serviceVars, probeVars, jobVars, mainVars, podVars, collectorVars
<1>6. CASE MeasureResources
  BY <1>6 DEF MeasureResources, Settle, Forget, TypeMain, TypeThread, Joined,
    CollectorErrorsAreNoVerdict, Verdict, vars, serviceVars, probeVars, jobVars, mainVars,
    podVars, collectorVars
<1>7. CASE CollectorStops
  BY <1>7 DEF CollectorStops, TypeMain, TypeThread, Joined, CollectorErrorsAreNoVerdict,
    Verdict, vars, serviceVars, probeVars, jobVars, mainVars, podVars, collectorVars
<1>8. CASE CollectorFails
  BY <1>8 DEF CollectorFails, TypeMain, TypeThread, Joined, CollectorErrorsAreNoVerdict,
    Verdict, vars, serviceVars, probeVars, jobVars, mainVars, podVars, collectorVars
<1>9. CASE ListPods
  BY <1>9 DEF ListPods, TypeMain, TypeThread, Joined, CollectorErrorsAreNoVerdict, Verdict,
    vars, serviceVars, probeVars, jobVars, mainVars, podVars, collectorVars
<1>10. CASE ReadMetrics
  BY <1>10 DEF ReadMetrics, Keep, TypeMain, TypeThread, Joined, CollectorErrorsAreNoVerdict,
    Verdict, vars, serviceVars, probeVars, jobVars, mainVars, podVars, collectorVars
<1>11. CASE StartProduct \/ ProductGoes \/ MetricsServer
  <2>1. UNCHANGED <<main, check, collector, error>>
    BY <1>11 DEF StartProduct, ProductGoes, MetricsServer, Scrape, DropReading, vars,
      serviceVars, probeVars, jobVars, mainVars, podVars, collectorVars
  <2> QED
    BY <2>1 DEF TypeMain, TypeThread, Joined, CollectorErrorsAreNoVerdict, Verdict
<1>12. CASE Service \/ UNCHANGED vars
  <2>1. UNCHANGED <<main, check, collector, error>>
    BY <1>12 DEF Service, vars, serviceVars, probeVars, jobVars, mainVars, podVars,
      collectorVars
  <2> QED
    BY <2>1 DEF TypeMain, TypeThread, Joined, CollectorErrorsAreNoVerdict, Verdict
<1> QED
  BY <1>1, <1>2, <1>3, <1>4, <1>5, <1>6, <1>7, <1>8, <1>9, <1>10, <1>11, <1>12
  DEF Next, Main, Collector, Terminated

LEMMA AlignedStep ==
  ASSUME ServiceTypeOK /\ TypeMain /\ Aligned, [Next]_vars
  PROVE  Aligned'
<1>1. CASE LeaveExperiment
  BY <1>1 DEF LeaveExperiment, Cancel, Forget, Proceed, ServiceTypeOK, TypeMain, Aligned,
    ProbeEnded, vars, serviceVars, probeVars, jobVars, mainVars, podVars, collectorVars
<1>2. CASE SteadyState
  BY <1>2 DEF SteadyState, Cancel, Forget, Proceed, ServiceTypeOK, TypeMain, Aligned,
    ProbeEnded, vars, serviceVars, probeVars, jobVars, mainVars, podVars, collectorVars
<1>3. CASE CancelChecks
  BY <1>3 DEF CancelChecks, Settle, Forget, ServiceTypeOK, TypeMain, Aligned, ProbeEnded, vars,
    serviceVars, probeVars, jobVars, mainVars, podVars, collectorVars
<1>4. CASE StopCollector
  BY <1>4 DEF StopCollector, ServiceTypeOK, TypeMain, Aligned, ProbeEnded, vars, serviceVars,
    probeVars, jobVars, mainVars, podVars, collectorVars
<1>5. CASE JoinCollector
  BY <1>5 DEF JoinCollector, ServiceTypeOK, TypeMain, Aligned, ProbeEnded, vars, serviceVars,
    probeVars, jobVars, mainVars, podVars, collectorVars
<1>6. CASE MeasureResources
  <2>1. Assessment \in Verdict
    BY DEF Assessment, Verdict
  <2> QED
    BY <1>6, <2>1 DEF MeasureResources, Settle, Verdict, TypeMain, Aligned, ProbeEnded, serviceVars, probeVars
<1>7. CASE Service
  <2>1. CASE ProbeStep
    BY <1>7, <2>1 DEF Service, ProbeStep, Probe, AskExperiment, AskProbe, CreateJob, Poll, CollectLog, AcceptResult,
      DeleteJob, EndWith, DeleteWith, ServiceTypeOK, jobVars, mainVars, Aligned, ProbeEnded, TypeMain
  <2>2. CASE JobController
    BY <1>7, <2>2 DEF Service, JobController, Cleanup, CreateLands, StartPod, FinishPod, JobDeadline, JobExpires,
      CollectPod, probeVars, mainVars, Aligned, ProbeEnded
  <2>3. CASE Cancelling
    BY <1>7, <2>3 DEF Service, Cancelling, Trigger, probeVars, jobVars, mainVars, Aligned, ProbeEnded
  <2> QED
    BY <1>7, <2>1, <2>2, <2>3 DEF Service
<1>8. CASE CollectorStops \/ CollectorFails \/ ListPods
  <2>1. UNCHANGED <<main, check, probe, result, triggered>>
    BY <1>8 DEF CollectorStops, CollectorFails, ListPods, vars, serviceVars, probeVars, jobVars,
      mainVars, podVars, collectorVars
  <2> QED
    BY <2>1 DEF ServiceTypeOK, TypeMain, Aligned, ProbeEnded
<1>9. CASE ReadMetrics \/ StartProduct \/ ProductGoes
  <2>1. UNCHANGED <<main, check, probe, result, triggered>>
    BY <1>9 DEF ReadMetrics, Keep, StartProduct, ProductGoes, vars, serviceVars, probeVars,
      jobVars, mainVars, podVars, collectorVars
  <2> QED
    BY <2>1 DEF ServiceTypeOK, TypeMain, Aligned, ProbeEnded
<1>10. CASE MetricsServer \/ UNCHANGED vars
  <2>1. UNCHANGED <<main, check, probe, result, triggered>>
    BY <1>10 DEF MetricsServer, Scrape, DropReading, vars, serviceVars, probeVars, jobVars,
      mainVars, podVars, collectorVars
  <2> QED
    BY <2>1 DEF ServiceTypeOK, TypeMain, Aligned, ProbeEnded
<1> QED
  BY <1>1, <1>2, <1>3, <1>4, <1>5, <1>6, <1>7, <1>8, <1>9, <1>10
  DEF Next, Main, Collector, Terminated

-----------------------------------------------------------------------------
(* Readings and snapshots that are there were there before, or are new.      *)

Types == TypePods /\ TypeServed /\ TypeListed /\ TypeSnapshots

LEMMA SnapshotsGrow ==
  ASSUME Types, [Next]_vars, NEW i \in DOMAIN snapshots'
  PROVE  \/ i \in DOMAIN snapshots /\ snapshots'[i] = snapshots[i]
         \/ ReadMetrics /\ snapshots'[i] = Snapshot(known')
<1>1. CASE ReadMetrics
  <2>1. snapshots \in Snapshots
    BY DEF Types, TypeSnapshots
  <2>2. CASE snapshots' = snapshots
    BY <2>2
  <2>3. CASE snapshots' = Append(snapshots, Snapshot(known'))
    BY <1>1, <2>1, <2>3, AppendProperties DEF Snapshots
  <2> QED
    BY <1>1, <2>2, <2>3 DEF ReadMetrics, Keep
<1>2. CASE snapshots' = <<>>
  BY <1>2
<1>3. CASE ~ReadMetrics /\ snapshots' # <<>>
  <2>1. UNCHANGED snapshots
    <3>1. CASE LeaveExperiment \/ SteadyState \/ CancelChecks \/ MeasureResources
      BY <1>3, <3>1 DEF LeaveExperiment, SteadyState, CancelChecks, MeasureResources, Settle, Cancel,
        Forget, Proceed
    <3>2. CASE StopCollector \/ JoinCollector \/ CollectorStops \/ CollectorFails \/ ListPods
      BY <3>2 DEF StopCollector, JoinCollector, CollectorStops, CollectorFails, ListPods
    <3>3. CASE StartProduct \/ ProductGoes
      BY <3>3 DEF StartProduct, ProductGoes, collectorVars
    <3>4. CASE MetricsServer \/ Service \/ UNCHANGED vars
      BY <3>4 DEF MetricsServer, Scrape, DropReading, Service, collectorVars, vars
    <3> QED
      BY <1>3, <3>1, <3>2, <3>3, <3>4 DEF Next, Main, Collector, Terminated
  <2> QED
    BY <2>1
<1> QED
  BY <1>1, <1>2, <1>3

\* A scrape is the only source of readings; overloaded Pods stay known.
LEMMA ServedGrows ==
  ASSUME Types, [Next]_vars
  PROVE  /\ overloaded \subseteq overloaded'
         /\ \/ UNCHANGED <<served, scrapes>>
            \/ \E n \in Names :
                 /\ UNCHANGED scrapes
                 /\ served' = [served EXCEPT ![n] = Nothing]
            \/ \E n \in Names, kind \in {"low", "high", "partial"} :
                 /\ scrapes' = scrapes + 1
                 /\ served' = [served EXCEPT ![n] = [stamp |-> scrapes', kind |-> kind]]
                 /\ n = "product" /\ kind = "high" => overloaded' # {}
<1>1. CASE MetricsServer
  <2>1. PICK n \in Names : Scrape(n) \/ DropReading(n)
    BY <1>1 DEF MetricsServer
  <2>2. CASE DropReading(n)
    BY <2>2 DEF DropReading
  <2>3. CASE Scrape(n)
    <3>1. PICK kind \in IF n = "product" THEN Kinds ELSE {"high"} :
            /\ served' = [served EXCEPT ![n] = [stamp |-> scrapes', kind |-> kind]]
            /\ overloaded' = IF n = "product" /\ kind = "high" THEN overloaded \cup {live} ELSE overloaded
      BY <2>3 DEF Scrape
    <3>2. kind \in {"low", "high", "partial"}
      BY ReadingAssumption
    <3> QED
      BY <2>3, <3>1, <3>2 DEF Scrape
  <2> QED
    BY <2>1, <2>2, <2>3
<1>2. CASE ~MetricsServer
  <2>1. CASE LeaveExperiment \/ SteadyState \/ CancelChecks \/ MeasureResources \/ JoinCollector
    BY <2>1 DEF LeaveExperiment, SteadyState, CancelChecks, MeasureResources, JoinCollector, podVars
  <2>2. CASE StopCollector \/ CollectorStops \/ CollectorFails \/ ListPods \/ ReadMetrics
    BY <2>2 DEF StopCollector, CollectorStops, CollectorFails, ListPods, ReadMetrics, podVars
  <2>3. CASE StartProduct \/ ProductGoes \/ Service \/ UNCHANGED vars
    BY <2>3 DEF StartProduct, ProductGoes, Service, podVars, vars
  <2> QED
    BY <1>2, <2>1, <2>2, <2>3 DEF Next, Main, Collector, Terminated
<1> QED
  BY <1>1, <1>2

LEMMA SnapshotsTyped ==
  ASSUME TypeSnapshots, NEW i \in DOMAIN snapshots
  PROVE  i \in Nat /\ snapshots[i].metrics \in [Names -> Reading]
<1>1. snapshots \in Snapshots
  BY DEF TypeSnapshots
<1>2. i \in 1 .. Len(snapshots) /\ Len(snapshots) \in Nat
  BY <1>1, LenProperties DEF Snapshots
<1>3. snapshots[i] \in [pods : [Names -> Nat], metrics : [Names -> Reading]]
  BY <1>1, <1>2, ElementOfSeq DEF Snapshots
<1> QED
  BY <1>2, <1>3

LEMMA SeenType ==
  ASSUME Types, NEW r, Seen(r)
  PROVE  r \in Reading
<1>1. CASE \E n \in Names : r = served[n]
  BY <1>1 DEF Types, TypeServed
<1>2. CASE \E n \in Names, i \in DOMAIN snapshots : r = snapshots[i].metrics[n]
  <2>1. PICK n \in Names, i \in DOMAIN snapshots : r = snapshots[i].metrics[n]
    BY <1>2
  <2>2. snapshots[i].metrics \in [Names -> Reading]
    BY <2>1, SnapshotsTyped DEF Types
  <2> QED
    BY <2>1, <2>2
<1> QED
  BY <1>1, <1>2 DEF Seen

LEMMA SeenGrows ==
  ASSUME Types, [Next]_vars, NEW r, Seen(r)'
  PROVE  \/ Seen(r) \/ r = Nothing
         \/ \E n \in Names : r = served'[n] /\ scrapes' = scrapes + 1 /\ r.stamp = scrapes'
<1>1. PICK n \in Names : r = served'[n] \/ \E i \in DOMAIN snapshots' : r = snapshots'[i].metrics[n]
  BY DEF Seen
<1>2. CASE r = served'[n]
  <2>1. served \in [Names -> Reading]
    BY DEF Types, TypeServed
  <2> QED
    BY <1>2, <2>1, ServedGrows DEF Seen
<1>3. CASE \E i \in DOMAIN snapshots' : r = snapshots'[i].metrics[n]
  <2>1. PICK i \in DOMAIN snapshots' : r = snapshots'[i].metrics[n]
    BY <1>3
  <2>2. CASE i \in DOMAIN snapshots /\ snapshots'[i] = snapshots[i]
    BY <2>1, <2>2 DEF Seen
  <2>3. CASE snapshots'[i] = Snapshot(known')
    BY <2>1, <2>3 DEF Snapshot, Seen
  <2> QED
    BY <2>2, <2>3, SnapshotsGrow
<1> QED
  BY <1>1, <1>2, <1>3

LEMMA StampsStep ==
  ASSUME Types, StampsTell, [Next]_vars
  PROVE  StampsTell'
<1>1. /\ scrapes \in Nat /\ Nothing.stamp = 0
      /\ scrapes' = scrapes \/ scrapes' = scrapes + 1
  BY ServedGrows DEF Types, TypeServed, Nothing
<1>2. \A n, k \in Names : scrapes' = scrapes + 1 /\ served'[n].stamp = scrapes' /\ served'[k].stamp = scrapes'
                          => n = k
  <2>1. served \in [Names -> Reading] /\ \A n \in Names : served[n].stamp <= scrapes
    BY DEF Types, TypeServed, StampsTell, Seen
  <2> QED
    BY <1>1, <2>1, ServedGrows DEF Names
<1>3. ASSUME NEW r, Seen(r)'
      PROVE  r.stamp <= scrapes'
  <2>1. CASE Seen(r)
    <3>1. r.stamp \in Nat /\ r.stamp <= scrapes
      BY <2>1, SeenType DEF StampsTell, Reading
    <3> QED
      BY <1>1, <3>1
  <2>3. CASE r = Nothing
    BY <1>1, <2>3
  <2>2. CASE r.stamp = scrapes'
    BY <1>1, <2>2
  <2> QED
    BY <1>3, <2>1, <2>2, <2>3, SeenGrows
<1>4. ASSUME NEW r, NEW q, Seen(r)' \/ r = Nothing, Seen(q)' \/ q = Nothing, r.stamp = q.stamp
      PROVE  r = q
  <2> DEFINE Old(x) == Seen(x) \/ x = Nothing
             New(x) == \E n \in Names : x = served'[n] /\ scrapes' = scrapes + 1 /\ x.stamp = scrapes'
  <2>1. (Old(r) \/ New(r)) /\ (Old(q) \/ New(q))
    BY <1>4, SeenGrows
  <2>2. CASE Old(r) /\ Old(q)
    BY <1>4, <2>2 DEF StampsTell
  <2>3. CASE New(r) /\ New(q)
    BY <1>2, <2>3
  <2>4. \A x : Old(x) => x.stamp <= scrapes
    BY <1>1 DEF StampsTell
  <2> QED
    BY <1>1, <1>4, <2>1, <2>2, <2>3, <2>4
<1> QED
  BY <1>3, <1>4 DEF StampsTell

LEMMA HighStep ==
  ASSUME Types, HighIsKnown, [Next]_vars
  PROVE  HighIsKnown'
<1>1. served \in [Names -> Reading] /\ "product" \in Names /\ Nothing.kind = "low"
  BY DEF Types, TypeServed, Names, Nothing
<1>2. overloaded \subseteq overloaded'
  BY ServedGrows
<1>3. served'["product"].kind = "high" => overloaded' # {}
  BY <1>1, <1>2, ServedGrows DEF HighIsKnown
<1>4. ASSUME NEW i \in DOMAIN snapshots', snapshots'[i].metrics["product"].kind = "high"
      PROVE  overloaded' # {}
  <2>1. CASE i \in DOMAIN snapshots /\ snapshots'[i] = snapshots[i]
    BY <1>2, <1>4, <2>1 DEF HighIsKnown
  <2>2. CASE snapshots'[i] = Snapshot(known')
    BY <1>1, <1>2, <1>4, <2>2 DEF HighIsKnown, Snapshot
  <2> QED
    BY <2>1, <2>2, SnapshotsGrow
<1> QED
  BY <1>3, <1>4 DEF HighIsKnown

LEMMA OutStep ==
  ASSUME Types, InstrumentsOut, [Next]_vars
  PROVE  InstrumentsOut'
<1>1. ASSUME ReadMetrics
      PROVE  Snapshot(known').pods["probe"] = 0
  BY <1>1 DEF ReadMetrics, Snapshot, Listed, Names
<1> QED
  BY <1>1, SnapshotsGrow DEF InstrumentsOut

LEMMA StepHolds == IInv /\ [Next]_vars => IInv'
BY ServiceStep, MainStep, PodsStep, ServedStep, ThreadStep, ListedStep, SnapshotsStep, JoinedStep,
  StampsStep, HighStep, OutStep, AlignedStep
DEF IInv, Types

\* The invariant holds in every reachable state.
THEOREM Invariance == Spec => []IInv
BY InitHolds, StepHolds, PTL DEF Spec

\* Every variable keeps its type, and the snapshots their limit.
THEOREM TypeCorrect == Spec => []TypeOK
<1>1. IInv => TypeOK
  BY DEF IInv, TypeMain, TypePods, TypeServed, TypeThread, TypeListed, TypeSnapshots, Snapshots, TypeOK
<1> QED
  BY <1>1, Invariance, PTL

\* A collector that failed, or hangs, never leads to a verdict.
THEOREM VerdictsNeedTheCollector == Spec => []CollectorErrorsAreNoVerdict
<1>1. IInv => CollectorErrorsAreNoVerdict
  BY DEF IInv, Joined
<1> QED
  BY <1>1, Invariance, PTL

LEMMA KnownStep ==
  ASSUME IInv, [Next]_vars, known # {}, Len(snapshots') > Len(snapshots)
  PROVE  Last(snapshots').metrics["probe"] = Nothing
<1>0. /\ TypeListed /\ snapshots \in Snapshots /\ Len(snapshots) \in Nat
      /\ "probe" \in Names
  BY LenProperties DEF IInv, TypeSnapshots, Snapshots, Names
<1>1. CASE ReadMetrics
  <2>1. snapshots' = Append(snapshots, Snapshot(known'))
    BY <1>0, <1>1 DEF ReadMetrics, Keep
  <2>2. Last(snapshots') = Snapshot(known')
    BY <1>0, <2>1, AppendProperties DEF Last, Snapshots
  <2>3. "probe" \in known'
    BY <1>0, <1>1 DEF ReadMetrics, TypeListed
  <2> QED
    BY <1>0, <2>2, <2>3 DEF Snapshot
<1>2. CASE LeaveExperiment \/ SteadyState \/ CancelChecks \/ MeasureResources
  <2>1. snapshots' = snapshots \/ snapshots' = <<>>
    BY <1>2 DEF LeaveExperiment, SteadyState, CancelChecks, MeasureResources, Settle, Cancel,
      Forget, Proceed
  <2> QED
    BY <1>0, <2>1
<1>3. CASE StopCollector \/ JoinCollector \/ CollectorStops \/ CollectorFails \/ ListPods
  BY <1>0, <1>3 DEF StopCollector, JoinCollector, CollectorStops, CollectorFails, ListPods
<1>4. CASE StartProduct \/ ProductGoes
  BY <1>0, <1>4 DEF StartProduct, ProductGoes, collectorVars
<1>5. CASE MetricsServer \/ Service \/ UNCHANGED vars
  BY <1>0, <1>5 DEF MetricsServer, Scrape, DropReading, Service, collectorVars, vars
<1> QED
  BY <1>1, <1>2, <1>3, <1>4, <1>5 DEF Next, Main, Collector, Terminated

\* What is known as an instrument stays out of every later snapshot.
THEOREM InstrumentsStayOut == Spec => KnownInstrumentsStayOut
<1>1. IInv /\ [Next]_vars =>
        [known # {} /\ Len(snapshots') > Len(snapshots) => Last(snapshots').metrics["probe"] = Nothing]_vars
  BY KnownStep
<1> QED
  BY <1>1, Invariance, PTL DEF Spec, KnownInstrumentsStayOut

-----------------------------------------------------------------------------
(* The assessment.                                                           *)

LEMMA Smallest ==
  ASSUME NEW T, T \subseteq Nat, T # {}
  PROVE  \E x \in T : \A y \in T : x <= y
<1>1. PICK x \in T : \A y \in T : <<y, x>> \notin OpToRel(<, Nat)
  BY NatLessThanWellFounded, WFMin, Zenon
<1>2. \A y \in T : ~(y < x)
  BY <1>1 DEF OpToRel
<1> QED
  BY <1>2

\* A reading is an entry of a snapshot that the metrics server returned.
LEMMA ReadingsAre ==
  ASSUME IInv, NEW r
  PROVE  r \in Readings <=>
           \E i \in DOMAIN snapshots, n \in Names :
             /\ snapshots[i].metrics[n] # Nothing
             /\ r = [at |-> i, uid |-> snapshots[i].pods[n], stamp |-> snapshots[i].metrics[n].stamp,
                     kind |-> snapshots[i].metrics[n].kind]
BY DEF Readings

LEMMA ReadingsAreTyped ==
  ASSUME IInv, NEW r \in Readings
  PROVE  /\ r.at \in Nat /\ r.at \in DOMAIN snapshots
         /\ Seen([stamp |-> r.stamp, kind |-> r.kind])
<1>1. PICK i \in DOMAIN snapshots, n \in Names :
        r = [at |-> i, uid |-> snapshots[i].pods[n], stamp |-> snapshots[i].metrics[n].stamp,
             kind |-> snapshots[i].metrics[n].kind]
  BY ReadingsAre
<1>2. i \in Nat /\ snapshots[i].metrics[n] \in Reading
  BY <1>1, SnapshotsTyped DEF IInv
<1>3. [stamp |-> r.stamp, kind |-> r.kind] = snapshots[i].metrics[n]
  BY <1>1, <1>2 DEF Reading
<1> QED
  BY <1>1, <1>2, <1>3 DEF Seen

\* Every reading of a listed Pod is in the sample, by its first snapshot.
LEMMA EveryReadingCounts ==
  ASSUME IInv, NEW r \in Readings, r.uid # 0
  PROVE  \E q \in Samples : SameIdentity(r, q) /\ q.kind = r.kind
<1> DEFINE Same == {q \in Readings : SameIdentity(r, q)}
           Times == {q.at : q \in Same}
<1>1. Times \subseteq Nat /\ Times # {}
  BY ReadingsAreTyped DEF SameIdentity
<1>2. PICK first \in Times : \A t \in Times : first <= t
  BY <1>1, Smallest
<1>3. PICK q \in Same : q.at = first
  BY <1>2
<1>4. q \in Samples
  BY <1>2, <1>3 DEF Samples, SameIdentity
<1>5. StampsTell
  BY DEF IInv
<1>6. [stamp |-> r.stamp, kind |-> r.kind] = [stamp |-> q.stamp, kind |-> q.kind]
  BY <1>3, <1>5, ReadingsAreTyped DEF SameIdentity, StampsTell
<1> QED
  BY <1>3, <1>4, <1>6

LEMMA NoSampleOfInstruments ==
  ASSUME IInv, NEW r \in Samples
  PROVE  \E i \in DOMAIN snapshots :
           r = [at |-> i, uid |-> snapshots[i].pods["product"],
                stamp |-> snapshots[i].metrics["product"].stamp,
                kind |-> snapshots[i].metrics["product"].kind]
BY ReadingsAre DEF IInv, InstrumentsOut, Samples, Names

LEMMA SamplesDiffer ==
  ASSUME IInv, NEW r \in Samples, NEW q \in Samples, SameIdentity(r, q)
  PROVE  r = q
<1>1. r \in Readings /\ q \in Readings /\ r.at <= q.at /\ q.at <= r.at
  BY DEF Samples, SameIdentity
<1>2. r.at = q.at
  <2>1. r.at \in Nat /\ q.at \in Nat
    BY <1>1, ReadingsAreTyped
  <2> QED
    BY <1>1, <2>1
<1>3. PICK i \in DOMAIN snapshots :
        r = [at |-> i, uid |-> snapshots[i].pods["product"],
             stamp |-> snapshots[i].metrics["product"].stamp,
             kind |-> snapshots[i].metrics["product"].kind]
  BY NoSampleOfInstruments
<1>4. PICK j \in DOMAIN snapshots :
        q = [at |-> j, uid |-> snapshots[j].pods["product"],
             stamp |-> snapshots[j].metrics["product"].stamp,
             kind |-> snapshots[j].metrics["product"].kind]
  BY NoSampleOfInstruments
<1> QED
  BY <1>2, <1>3, <1>4

LEMMA FailuresAreTheProducts ==
  ASSUME IInv, Assessment = "fail"
  PROVE  overloaded # {}
<1>1. PICK r \in Samples : r.kind = "high"
  BY DEF Assessment, Sampled
<1> QED
  BY <1>1, NoSampleOfInstruments DEF IInv, HighIsKnown

LEMMA PassesAreComplete ==
  ASSUME IInv, Assessment = "pass", NEW i \in DOMAIN snapshots
  PROVE  /\ snapshots[i].metrics["product"].kind = "low"
         /\ snapshots[i].metrics["probe"] = Nothing
<1>1. ~Sampled("high") /\ ~Sampled("partial") /\ \A r \in Readings : r.uid # 0
  BY DEF Assessment, Incomplete
<1>2. \A r \in Readings : r.kind \notin {"high", "partial"}
  BY <1>1, EveryReadingCounts DEF Sampled
<1>3. ASSUME NEW n \in Names, snapshots[i].metrics[n] # Nothing
      PROVE  snapshots[i].pods[n] # 0 /\ snapshots[i].metrics[n].kind \notin {"high", "partial"}
  <2> DEFINE r == [at |-> i, uid |-> snapshots[i].pods[n], stamp |-> snapshots[i].metrics[n].stamp,
                   kind |-> snapshots[i].metrics[n].kind]
  <2>1. r \in Readings
    BY <1>3, ReadingsAre
  <2> QED
    BY <1>1, <1>2, <2>1
<1>4. "probe" \in Names /\ "product" \in Names /\ snapshots[i].pods["probe"] = 0
  BY DEF IInv, InstrumentsOut, Names
<1>5. snapshots[i].metrics["product"] \in Reading
  BY <1>4, SnapshotsTyped DEF IInv
<1> QED
  BY <1>3, <1>4, <1>5 DEF Nothing, Reading

\* The resource check is decided by the assessment, or not at all.
LEMMA CheckChanges ==
  ASSUME IInv, [Next]_vars, check' # check
  PROVE  check' \in {"cancelled", "infrastructure_failure"} \/ check' = Assessment
<1>1. CASE CancelChecks \/ MeasureResources
  BY <1>1 DEF CancelChecks, MeasureResources, Settle
<1>2. CASE LeaveExperiment \/ SteadyState
  BY <1>2 DEF LeaveExperiment, SteadyState, Cancel, Proceed
<1>3. CASE StopCollector \/ JoinCollector
  BY <1>3 DEF StopCollector, JoinCollector
<1>4. CASE CollectorStops \/ CollectorFails \/ ListPods \/ ReadMetrics
  BY <1>4 DEF CollectorStops, CollectorFails, ListPods, ReadMetrics, mainVars
<1>5. CASE StartProduct \/ ProductGoes \/ MetricsServer
  BY <1>5 DEF StartProduct, ProductGoes, MetricsServer, Scrape, DropReading, mainVars
<1>6. CASE Service \/ UNCHANGED vars
  BY <1>6 DEF Service, mainVars, vars
<1> QED
  BY <1>1, <1>2, <1>3, <1>4, <1>5, <1>6 DEF Next, Main, Collector, Terminated

\* A failure is a product Pod's doing and a pass a complete sample; what the
\* metrics server repeats counts once.
THEOREM VerdictsAreTheProducts == Spec => VerdictIsTheProducts
<1>1. ASSUME IInv, [Next]_vars, check' # check
      PROVE  /\ check' = "fail" => overloaded # {}
             /\ check' = "pass" =>
                  /\ Samples # {}
                  /\ \A i \in DOMAIN snapshots : /\ snapshots[i].metrics["product"].kind = "low"
                                               /\ snapshots[i].metrics["probe"] = Nothing
             /\ \A r, q \in Samples : SameIdentity(r, q) => r = q
  <2>1. check' = "fail" => overloaded # {}
    BY <1>1, CheckChanges, FailuresAreTheProducts
  <2>2. check' = "pass" => Assessment = "pass"
    BY <1>1, CheckChanges
  <2>3. Assessment = "pass" => Samples # {}
    BY DEF Assessment
  <2> QED
    BY <1>1, <2>1, <2>2, <2>3, PassesAreComplete, SamplesDiffer
<1> QED
  BY <1>1, Invariance, PTL DEF Spec, VerdictIsTheProducts

-----------------------------------------------------------------------------
(* The steps of run_runtime that this module details.                        *)

Unseen ==
  /\ UNCHANGED <<main, check, triggered>>
  /\ ProbeEnded' <=> ProbeEnded
  /\ ProbeEnded => UNCHANGED result
  /\ main \in {"measure", "ended"} => UNCHANGED error /\ (collector' = "ended" <=> collector = "ended")

LEMMA UnseenStutters ==
  ASSUME Unseen, error \in BOOLEAN, error' \in BOOLEAN
  PROVE  UNCHANGED RL!vars
<1>1. UNCHANGED <<LifecyclePc, LifecycleTrial>>
  BY DEF Unseen, LifecyclePc, LifecycleTrial, Cancelled
<1>2. /\ (Cancelled' <=> Cancelled) /\ (Measuring' <=> Measuring) /\ (Measuring => error' = error)
      /\ UNCHANGED LifecycleCollector
  BY DEF Unseen, LifecycleCollector, Measuring, Cancelled
<1>3. (Measuring /\ error)' = (Measuring /\ error)
  BY <1>2
<1>4. \A c \in RL!Title : LifecycleCheck(c)' = LifecycleCheck(c)
  BY DEF Unseen, LifecycleCheck, Cancelled
<1>5. UNCHANGED RL!input /\ UNCHANGED RL!environment
  BY DEF RL!input, RL!environment
<1>6. UNCHANGED RL!thread
  BY DEF RL!thread, Unseen
<1>7. UNCHANGED RL!findings
  BY <1>1, <1>4 DEF RL!findings, RL!Title
<1> QED
  BY <1>1, <1>2, <1>3, <1>5, <1>6, <1>7 DEF RL!vars

\* The probe ends: run_runtime's experiment has returned or raised.
LEMMA ProbeEndImplements ==
  ASSUME IInv, IInv', Service, ~ProbeEnded, ProbeEnded'
  PROVE  RL!RunService
<1>1. /\ main = "experiment" /\ check = "none" /\ UNCHANGED <<main, check, error>>
      /\ result' \in {"measured", "infrastructure_failure", "unsafe"}
      /\ result' = "unsafe" => triggered'
  BY DEF IInv, Aligned, ServiceTypeOK, ProbeEnded, Service, mainVars, collectorVars
<1>2. UNCHANGED triggered
  BY DEF Service, ProbeStep, Probe, AskExperiment, AskProbe, CreateJob, Poll, CollectLog, AcceptResult,
    DeleteJob, JobController, Cleanup, CreateLands, StartPod, FinishPod, JobDeadline, JobExpires,
    CollectPod, Cancelling, Trigger, probeVars, ProbeEnded
<1>3. /\ ~Cancelled /\ ~Cancelled' /\ ~Measuring /\ ~Measuring'
      /\ UNCHANGED LifecycleCollector
  BY <1>1 DEF Cancelled, Measuring, LifecycleCollector
<1>4. /\ LifecyclePc = "experiment" /\ LifecycleTrial = "none"
      /\ LifecyclePc' = IF result' = "unsafe" THEN "unsafe" ELSE "remaining"
      /\ LifecycleTrial' = IF result' = "unsafe" THEN "none" ELSE result'
  BY <1>1, <1>3 DEF LifecyclePc, LifecycleTrial
<1>5. \A c \in RL!Title : LifecycleCheck(c)' = LifecycleCheck(c)
  BY <1>1, <1>3 DEF LifecycleCheck
<1>6. CASE result' = "unsafe"
  BY <1>1, <1>2, <1>3, <1>4, <1>5, <1>6
  DEF RL!RunService, RL!Raise, RL!Triggered, RL!InfrastructureError, RL!Title, RL!input, RL!environment, RL!thread
<1>7. CASE result' # "unsafe"
  BY <1>1, <1>2, <1>3, <1>4, <1>5, <1>7
  DEF RL!RunService, RL!Go, RL!Title, RL!input, RL!environment, RL!thread
<1> QED
  BY <1>6, <1>7

LEMMA TriggerImplements ==
  ASSUME IInv, Trigger, UNCHANGED <<mainVars, collectorVars>>
  PROVE  RL!WatchMatches
<1>1. /\ ~triggered /\ triggered' /\ UNCHANGED <<main, check, probe, result, collector, error>>
  BY DEF Trigger, mainVars, collectorVars, probeVars
<1>2. UNCHANGED <<LifecyclePc, LifecycleTrial>> /\ (Cancelled' <=> Cancelled) /\ (Measuring' <=> Measuring)
  BY <1>1 DEF LifecyclePc, LifecycleTrial, Cancelled, Measuring, ProbeEnded
<1>3. \A c \in RL!Title : LifecycleCheck(c)' = LifecycleCheck(c)
  BY <1>1, <1>2 DEF LifecycleCheck
<1>4. (Measuring /\ error)' = (Measuring /\ error) /\ UNCHANGED LifecycleCollector
  BY <1>1, <1>2 DEF LifecycleCollector
<1> QED
  BY <1>1, <1>2, <1>3, <1>4
  DEF RL!WatchMatches, RL!Others, RL!Title, RL!input, RL!environment, RL!findings

\* The wait for the steady state sees the violation.
LEMMA SteadyStateImplements ==
  ASSUME IInv, SteadyState, triggered
  PROVE  RL!HoldSteadyState
<1>1. /\ main = "steady" /\ main' = "unsafe" /\ check = "none" /\ ProbeEnded /\ result # "unsafe"
      /\ UNCHANGED <<check, probe, result, triggered, error>>
  BY DEF IInv, Aligned, SteadyState, Cancel, serviceVars, probeVars
<1>2. /\ ~Cancelled /\ ~Cancelled' /\ ~Measuring /\ ~Measuring' /\ ProbeEnded'
      /\ LifecycleCollector = "running" /\ LifecycleCollector' = "running"
  BY <1>1 DEF Cancelled, Measuring, ProbeEnded, LifecycleCollector
<1>3. LifecyclePc = "remaining" /\ LifecyclePc' = "unsafe" /\ LifecycleTrial' = LifecycleTrial
  BY <1>1, <1>2 DEF LifecyclePc, LifecycleTrial
<1>4. \A c \in RL!Title : LifecycleCheck(c)' = LifecycleCheck(c)
  BY <1>1, <1>2 DEF LifecycleCheck
<1> QED
  BY <1>1, <1>2, <1>3, <1>4
  DEF RL!HoldSteadyState, RL!Raise, RL!Triggered, RL!InfrastructureError, RL!Owns, RL!Title, RL!input,
    RL!environment, RL!thread, RL!findings

\* except UnsafeWorkloadError.
LEMMA CancelImplements ==
  ASSUME IInv, CancelChecks
  PROVE  RL!Handle
<1>1. /\ main = "unsafe" /\ main' = "ended" /\ check = "none" /\ check' = "cancelled" /\ ProbeEnded
      /\ triggered /\ result # "none" /\ UNCHANGED <<probe, result, triggered>>
  BY DEF IInv, Aligned, CancelChecks, Settle, serviceVars, probeVars, ProbeEnded
<1>2. /\ ~Cancelled /\ Cancelled' /\ ~Measuring /\ ~Measuring' /\ ProbeEnded'
      /\ UNCHANGED LifecycleCollector
  BY <1>1 DEF Cancelled, Measuring, ProbeEnded, LifecycleCollector
<1>3. /\ LifecyclePc = "unsafe" /\ LifecyclePc' = "stop"
      /\ LifecycleTrial = IF result = "unsafe" THEN "none" ELSE result
      /\ LifecycleTrial' = IF result = "unsafe" THEN "cancelled" ELSE result
  BY <1>1, <1>2 DEF LifecyclePc, LifecycleTrial
<1>4. /\ \A c \in RL!Title : LifecycleCheck(c) = IF c = "installation" THEN "measured" ELSE "none"
      /\ \A c \in RL!Title : LifecycleCheck(c)' = IF c = "installation" THEN "measured" ELSE "cancelled"
  BY <1>1, <1>2 DEF LifecycleCheck, Verdict
<1>5. UNCHANGED [metrics |-> Measuring /\ error, dns |-> FALSE]
  BY <1>2
<1> QED
  BY <1>1, <1>2, <1>3, <1>4, <1>5
  DEF RL!Handle, RL!Fill, RL!Go, RL!Owns, RL!Title, RL!input, RL!environment, RL!thread

LEMMA OneError ==
  ASSUME NEW b, NEW d, NEW e
  PROVE  [[metrics |-> b, dns |-> d] EXCEPT !.metrics = e] = [metrics |-> e, dns |-> d]
<1> DEFINE Errors(x) == [field \in {"metrics", "dns"} |-> IF field = "metrics" THEN x ELSE d]
<1>1. \A x : [metrics |-> x, dns |-> d] = Errors(x)
  OBVIOUS
<1>2. [Errors(b) EXCEPT !.metrics = e] = Errors(e)
  OBVIOUS
<1> QED
  BY <1>1, <1>2

\* The collector is stopped and joined: it failed, it hangs, or its data are good.
LEMMA JoinImplements ==
  ASSUME IInv, IInv', JoinCollector
  PROVE  RL!HoldSteadyState
<1>1. /\ main = "join" /\ main' = "measure" /\ check = "none" /\ ProbeEnded /\ result # "unsafe"
      /\ ~triggered /\ UNCHANGED <<check, probe, result, triggered>> /\ error' \in BOOLEAN
      /\ collector' # "ended" => error'
  BY DEF IInv, Aligned, TypeThread, JoinCollector, serviceVars, probeVars
<1>2. /\ ~Cancelled /\ ~Cancelled' /\ ~Measuring /\ Measuring' /\ ProbeEnded'
      /\ LifecycleCollector = "running" /\ LifecycleCollector' \in {"stopped", "stuck"}
      /\ LifecycleCollector' = "stuck" => error'
  BY <1>1 DEF Cancelled, Measuring, ProbeEnded, LifecycleCollector
<1>3. LifecyclePc = "remaining" /\ LifecyclePc' = "resources" /\ LifecycleTrial' = LifecycleTrial
  BY <1>1, <1>2 DEF LifecyclePc, LifecycleTrial
<1>4. \A c \in RL!Title : LifecycleCheck(c)' = LifecycleCheck(c)
  BY <1>1, <1>2 DEF LifecycleCheck
<1>5. \E failed \in BOOLEAN :
        /\ LifecycleCollector' = "stuck" => failed
        /\ [metrics |-> Measuring /\ error, dns |-> FALSE]' =
             [[metrics |-> Measuring /\ error, dns |-> FALSE] EXCEPT !.metrics = failed]
  <2>1. (Measuring /\ error)' = error' /\ error' \in BOOLEAN
    BY <1>1, <1>2
  <2>2. [metrics |-> Measuring /\ error, dns |-> FALSE]' = [metrics |-> error', dns |-> FALSE]
    BY <2>1
  <2>3. \A b, e : [[metrics |-> b, dns |-> FALSE] EXCEPT !.metrics = e] = [metrics |-> e, dns |-> FALSE]
    BY OneError, Zenon
  <2>4. [[metrics |-> Measuring /\ error, dns |-> FALSE] EXCEPT !.metrics = error']
          = [metrics |-> error', dns |-> FALSE]
    BY <2>3, Zenon
  <2> QED
    BY <1>2, <2>1, <2>2, <2>4, Zenon
<1> QED
  BY <1>1, <1>2, <1>3, <1>4, <1>5
  DEF RL!HoldSteadyState, RL!Joined, RL!Go, RL!Triggered, RL!Owns, RL!Title, RL!input, RL!environment, RL!thread,
    RL!findings

LEMMA MeasureImplements ==
  ASSUME IInv, MeasureResources
  PROVE  RL!MeasureResources
<1>1. /\ main = "measure" /\ main' = "ended" /\ check = "none" /\ ProbeEnded /\ result # "unsafe"
      /\ check' \in Verdict \cup {"infrastructure_failure"}
      /\ error => check' = "infrastructure_failure"
      /\ UNCHANGED <<probe, result, triggered, collector, error>>
  BY DEF IInv, Aligned, MeasureResources, Settle, Assessment, Verdict, serviceVars, probeVars
<1>2. /\ ~Cancelled /\ ~Cancelled' /\ Measuring /\ Measuring' /\ ProbeEnded'
      /\ UNCHANGED LifecycleCollector /\ LifecycleCollector # "none"
  BY <1>1 DEF Cancelled, Measuring, ProbeEnded, Verdict, LifecycleCollector
<1>3. LifecyclePc = "resources" /\ LifecyclePc' = "network" /\ LifecycleTrial' = LifecycleTrial
  BY <1>1, <1>2 DEF LifecyclePc, LifecycleTrial
<1> DEFINE outcome == IF check' \in Verdict THEN "measured" ELSE check'
<1>4. outcome \in {"measured", "infrastructure_failure"} /\ (error => outcome = "infrastructure_failure")
  BY <1>1 DEF Verdict
<1>5. /\ \A c \in RL!Title : LifecycleCheck(c) = IF c = "installation" THEN "measured" ELSE "none"
      /\ \A c \in RL!Title : LifecycleCheck(c)' =
           IF c = "resources" THEN outcome ELSE IF c = "installation" THEN "measured" ELSE "none"
  BY <1>1, <1>2 DEF LifecycleCheck, Verdict
<1> HIDE DEF outcome
<1>6. [c \in RL!Title |-> LifecycleCheck(c)]' =
        [[c \in RL!Title |-> LifecycleCheck(c)] EXCEPT !["resources"] = outcome]
  BY <1>5 DEF RL!Title
<1>7. \E o \in {"measured", "infrastructure_failure"} :
        /\ (Measuring /\ error) \/ LifecycleCollector = "none" => o = "infrastructure_failure"
        /\ [c \in RL!Title |-> LifecycleCheck(c)]' =
             [[c \in RL!Title |-> LifecycleCheck(c)] EXCEPT !["resources"] = o]
  BY <1>2, <1>4, <1>6
<1> QED
  BY <1>1, <1>2, <1>3, <1>7
  DEF RL!MeasureResources, RL!Go, RL!Title, RL!input, RL!environment, RL!thread

\* A collector that outlived its join ends while its snapshots are assessed.
LEMMA StuckThreadImplements ==
  ASSUME IInv, UNCHANGED <<serviceVars, mainVars>>, UNCHANGED error,
         main = "measure", collector # "ended", collector' = "ended"
  PROVE  RL!CollectorEnds
<1>1. UNCHANGED <<main, check, probe, result, triggered, error>>
  BY DEF serviceVars, probeVars, mainVars
<1>2. /\ UNCHANGED <<LifecyclePc, LifecycleTrial, Cancelled, Measuring>>
      /\ Measuring /\ LifecycleCollector = "stuck" /\ LifecycleCollector' = "stopped"
  BY <1>1 DEF IInv, Aligned, LifecyclePc, LifecycleTrial, LifecycleCollector, Cancelled, Measuring, ProbeEnded
<1>3. \A c \in RL!Title : LifecycleCheck(c)' = LifecycleCheck(c)
  BY <1>1, <1>2 DEF LifecycleCheck
<1>4. (Measuring /\ error)' = (Measuring /\ error)
  BY <1>1, <1>2
<1> QED
  BY <1>1, <1>2, <1>3, <1>4
  DEF RL!CollectorEnds, RL!Title, RL!input, RL!environment, RL!thread, RL!findings

\* Every step is a step of run_runtime as RuntimeLifecycle has it, or none.
LEMMA StepImplements ==
  ASSUME IInv, IInv', [Next]_vars
  PROVE  [RL!Next]_(RL!vars)
<1>0. error \in BOOLEAN /\ error' \in BOOLEAN
  BY DEF IInv, TypeThread
<1>1. CASE LeaveExperiment
  <2>1. /\ main = "experiment" /\ main' = (IF result = "unsafe" THEN "unsafe" ELSE "steady")
        /\ ProbeEnded /\ check = "none" /\ UNCHANGED <<check, probe, result, triggered, error>>
    BY <1>1 DEF IInv, Aligned, LeaveExperiment, Cancel, Proceed, serviceVars, probeVars
  <2>2. /\ ~Cancelled /\ ~Cancelled' /\ ~Measuring /\ ~Measuring' /\ ProbeEnded'
        /\ UNCHANGED LifecycleCollector
    BY <2>1 DEF Cancelled, Measuring, ProbeEnded, LifecycleCollector
  <2>3. UNCHANGED <<LifecyclePc, LifecycleTrial>>
    BY <2>1, <2>2 DEF LifecyclePc, LifecycleTrial
  <2>4. \A c \in RL!Title : LifecycleCheck(c)' = LifecycleCheck(c)
    BY <2>1, <2>2 DEF LifecycleCheck
  <2> QED
    BY <2>1, <2>2, <2>3, <2>4
    DEF RL!vars, RL!Title, RL!input, RL!environment, RL!thread, RL!findings
<1>2. CASE SteadyState /\ triggered
  BY <1>2, SteadyStateImplements DEF RL!Next, RL!Main
<1>3. CASE (SteadyState /\ ~triggered) \/ StopCollector
  <2>1. /\ main \in {"steady", "stop"} /\ main' \in {"stop", "join"} /\ ProbeEnded /\ check = "none"
        /\ UNCHANGED <<check, probe, result, triggered, error>>
    BY <1>3 DEF IInv, Aligned, SteadyState, StopCollector, Proceed, serviceVars, probeVars
  <2>2. /\ ~Cancelled /\ ~Cancelled' /\ ~Measuring /\ ~Measuring' /\ ProbeEnded'
        /\ UNCHANGED LifecycleCollector
    BY <2>1 DEF Cancelled, Measuring, ProbeEnded, LifecycleCollector
  <2>3. UNCHANGED <<LifecyclePc, LifecycleTrial>>
    BY <2>1, <2>2 DEF LifecyclePc, LifecycleTrial
  <2>4. \A c \in RL!Title : LifecycleCheck(c)' = LifecycleCheck(c)
    BY <2>1, <2>2 DEF LifecycleCheck
  <2> QED
    BY <2>1, <2>2, <2>3, <2>4
    DEF RL!vars, RL!Title, RL!input, RL!environment, RL!thread, RL!findings
<1>4. CASE CancelChecks
  BY <1>4, CancelImplements DEF RL!Next, RL!Main
<1>5. CASE JoinCollector
  BY <1>5, JoinImplements DEF RL!Next, RL!Main
<1>6. CASE MeasureResources
  BY <1>6, MeasureImplements DEF RL!Next, RL!Main
<1>7. CASE Collector
  <2>1. UNCHANGED <<serviceVars, mainVars>> /\ main \notin {"unsafe", "ended"}
    BY <1>7 DEF Collector, Running, CollectorStops, CollectorFails, ListPods, ReadMetrics
  <2>2. main = "measure" => error' = error
    BY <1>0, <1>7 DEF IInv, Joined, Collector, CollectorStops, CollectorFails, ListPods, ReadMetrics, Keep
  <2>3. CASE main = "measure" => (collector' = "ended" <=> collector = "ended")
    <3>1. Unseen
      BY <2>1, <2>2, <2>3 DEF Unseen, serviceVars, probeVars, mainVars, ProbeEnded
    <3> QED
      BY <1>0, <3>1, UnseenStutters
  <2>4. CASE main = "measure" /\ collector' = "ended" /\ collector # "ended"
    BY <2>1, <2>2, <2>4, StuckThreadImplements DEF RL!Next
  <2>5. collector = "ended" => FALSE
    BY <1>7 DEF Collector, CollectorStops, CollectorFails, ListPods, ReadMetrics
  <2> QED
    BY <2>3, <2>4, <2>5
<1>8. CASE Service
  <2>1. CASE ~ProbeEnded /\ ProbeEnded'
    BY <1>8, <2>1, ProbeEndImplements DEF RL!Next, RL!Main
  <2>2. CASE Trigger
    BY <1>8, <2>2, TriggerImplements DEF Service, RL!Next
  <2>3. CASE (ProbeEnded \/ ~ProbeEnded') /\ ~Trigger
    <3>1. UNCHANGED <<main, check, collector, error, triggered>> /\ (ProbeEnded' <=> ProbeEnded)
          /\ (ProbeEnded => UNCHANGED result)
      BY <1>8, <2>3 DEF Service, ProbeStep, Probe, AskExperiment, AskProbe, CreateJob, Poll, CollectLog,
        AcceptResult, DeleteJob, EndWith, DeleteWith, JobController, Cleanup, CreateLands, StartPod, FinishPod,
        JobDeadline, JobExpires, CollectPod, Cancelling, mainVars, collectorVars, probeVars, ProbeEnded
    <3> QED
      BY <1>0, <3>1, UnseenStutters DEF Unseen
  <2> QED
    BY <2>1, <2>2, <2>3
<1>9. CASE StartProduct \/ ProductGoes \/ MetricsServer \/ UNCHANGED vars
  <2>1. UNCHANGED <<serviceVars, mainVars, collectorVars>>
    BY <1>9 DEF StartProduct, ProductGoes, MetricsServer, Scrape, DropReading, vars
  <2>2. Unseen
    BY <2>1 DEF Unseen, serviceVars, probeVars, mainVars, collectorVars, ProbeEnded
  <2> QED
    BY <1>0, <2>2, UnseenStutters
<1> QED
  BY <1>1, <1>2, <1>3, <1>4, <1>5, <1>6, <1>7, <1>8, <1>9 DEF Next, Main, Terminated

\* The experiment, the resource check and its collector refine run_runtime:
\* each of their steps is one that RuntimeLifecycle allows there, or a stutter.
THEOREM RefinesRuntimeLifecycle == Spec => ImplementsRuntimeLifecycle
BY StepImplements, Invariance, PTL DEF Spec, ImplementsRuntimeLifecycle
=============================================================================
