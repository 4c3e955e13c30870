--------------------------- MODULE CpuTrialProofs ---------------------------
(***************************************************************************)
(* What CpuTrial promises for every number of requests, pool size, number  *)
(* of attempts and set of levels.  The inductive invariant is the type      *)
(* invariant, what each place of the main thread knows (Place), and the     *)
(* properties themselves.                                                   *)
(***************************************************************************)
EXTENDS CpuTrial, TLAPS

\* The places between a started load and the closed port-forward.
Beside == {"start", "next", "wait", "collect", "decide", "drain", "leave", "join", "joincancelled"}

\* What the place of the main thread says of the counters.
PlaceCounts ==
  /\ pc \in {"wait", "collect", "decide"} => index < Requests
  /\ pc \in {"drain", "join", "judge"} => index = Requests
  /\ pc \in {"join", "judge"} => flying = 0 /\ landed = NoResults
  /\ pc = "joincancelled" => flying = 0

\* What it says of the port-forward and of the sampler.
PlaceSampler ==
  /\ pc \in Beside \cup {"health"} => forward
  /\ pc \in Beside \cup {"judge"} => sampler # "none"
  /\ pc \in {"pick", "forward", "health"} => sampler = "none" /\ flying = 0
  /\ pc = "judge" => ~forward

\* A request sent late was sent after the trigger; a goal that is met ends the pilot.
Ends ==
  /\ late = 1 => triggered
  /\ outcome = "goal_met" => pc = "ended" /\ ~forward

IInv ==
  /\ TypeOK /\ PlaceCounts /\ PlaceSampler /\ Ends
  /\ RequestsAddUp /\ GoalMetIsEarned /\ NothingOutlivesTheForward /\ OneRequestIsLate

-----------------------------------------------------------------------------
LEMMA Assumptions ==
  /\ Requests \in Nat \ {0} /\ MaxInFlight \in Nat \ {0} /\ MaxFailed \in Nat
  /\ Levels \subseteq Nat /\ MaxLevel \in Nat
  /\ Attempts \in Nat \ {0}
BY LoadAssumption, LevelsAssumption, AttemptsAssumption

LEMMA InitHolds == Init => IInv
<1>0. SUFFICES ASSUME Init PROVE IInv
  OBVIOUS
<1>1. TypePlaces
  BY <1>0 DEF Init, TypePlaces
<1>2. TypeCounts
  BY <1>0, Assumptions DEF Init, TypeCounts, NoResults, Tally
<1>3. TypeReadings
  BY <1>0 DEF Init, TypeReadings, NoScrape, NoMeasurement
<1>4. PlaceCounts /\ PlaceSampler /\ Ends
  BY <1>0 DEF Init, PlaceCounts, PlaceSampler, Ends, Beside
<1>5. RequestsAddUp
  BY <1>0, Assumptions DEF Init, RequestsAddUp, InFlight, NoResults
<1>6. GoalMetIsEarned /\ NothingOutlivesTheForward /\ OneRequestIsLate
  BY <1>0 DEF Init, GoalMetIsEarned, NothingOutlivesTheForward, OneRequestIsLate
<1> QED
  BY <1>1, <1>2, <1>3, <1>4, <1>5, <1>6 DEF IInv, TypeOK

LEMMA PlacesStep ==
  ASSUME TypePlaces, [Next]_vars
  PROVE  TypePlaces'
<1>1. CASE BeginAttempt
  BY <1>1 DEF BeginAttempt, Goto, TypePlaces, vars, pilot, cluster, trial, sampling
<1>2. CASE PickPod
  <2>1. pc' \in {"forward", "failed", "ended"}
    BY <1>2 DEF PickPod, Goto
  <2>2. target' \in BOOLEAN
    BY <1>2 DEF PickPod, Goto, TypePlaces
  <2>3. outcome' \in {outcome, "raised"} /\ UNCHANGED <<sampler, triggered, forward, loading, stopping, error>>
    BY <1>2 DEF PickPod, Goto, trial, sampling
  <2> QED
    BY <2>1, <2>2, <2>3 DEF TypePlaces
<1>3. CASE OpenForward
  <2>1. pc' \in {"health", "failed"} /\ forward' \in BOOLEAN
    BY <1>3 DEF OpenForward, Goto, TypePlaces
  <2>2. UNCHANGED <<sampler, outcome, target, triggered, loading, stopping, error>>
    BY <1>3 DEF OpenForward, pilot, cluster, sampling
  <2> QED
    BY <2>1, <2>2 DEF TypePlaces
<1>4. CASE CheckHealth
  BY <1>4 DEF CheckHealth, Goto, TypePlaces, vars, pilot, cluster, trial, sampling
<1>5. CASE StartLoad
  BY <1>5 DEF StartLoad, Goto, TypePlaces, vars, pilot, cluster, trial, sampling
<1>6. CASE NextRequest
  BY <1>6 DEF NextRequest, Goto, TypePlaces, vars, pilot, cluster, trial, sampling
<1>7. CASE Sleep
  BY <1>7 DEF Sleep, Goto, TypePlaces, vars, pilot, cluster, trial, sampling
<1>8. CASE Overdue
  BY <1>8 DEF Overdue, Goto, TypePlaces, vars, pilot, cluster, trial, sampling
<1>9. CASE CollectDone
  BY <1>9 DEF CollectDone, Goto, TypePlaces, vars, pilot, cluster, trial, sampling
<1>10. CASE Drop
  BY <1>10 DEF Drop, Goto, TypePlaces, vars, pilot, cluster, trial, sampling
<1>11. CASE Submit
  BY <1>11 DEF Submit, Goto, TypePlaces, vars, pilot, cluster, trial, sampling
<1>12. CASE Drain
  BY <1>12 DEF Drain, Goto, TypePlaces, vars, pilot, cluster, trial, sampling
<1>13. CASE LeavePool
  BY <1>13 DEF LeavePool, Goto, TypePlaces, vars, pilot, cluster, trial, sampling
<1>14. CASE SetStop
  BY <1>14 DEF SetStop, Joining, Goto, TypePlaces, vars, pilot, cluster, trial, sampling
<1>15. CASE Join
  BY <1>15 DEF Join, Joining, Goto, TypePlaces, vars, pilot, cluster, trial, sampling
<1>16. CASE Judge
  BY <1>16 DEF Judge, Conclude, Dropped, Fresh, Goto, TypePlaces, vars, pilot, cluster, trial,
    sampling
<1>17. CASE RecordFailure
  BY <1>17 DEF RecordFailure, Goto, TypePlaces, vars, pilot, cluster, trial, sampling
<1>18. CASE Cancelled
  BY <1>18 DEF Cancelled, Goto, TypePlaces, vars, pilot, cluster, trial, sampling
<1>19. CASE SamplerLoop
  BY <1>19 DEF SamplerLoop, Goto, TypePlaces, vars, pilot, cluster, trial, sampling
<1>20. CASE PollPods
  <2>1. sampler' \in {"check", "metrics", "ended"}
    BY <1>20 DEF PollPods
  <2>2. error' \in BOOLEAN
    BY <1>20 DEF PollPods, TypePlaces
  <2>3. UNCHANGED <<pc, outcome, target, triggered, forward, loading, stopping>>
    BY <1>20 DEF PollPods, pilot, cluster, trial
  <2> QED
    BY <2>1, <2>2, <2>3 DEF TypePlaces
<1>21. CASE PollMetrics
  <2>1. sampler' \in {"check", "ended"}
    BY <1>21 DEF PollMetrics
  <2>2. error' \in BOOLEAN
    BY <1>21 DEF PollMetrics, TypePlaces
  <2>3. UNCHANGED <<pc, outcome, target, triggered, forward, loading, stopping>>
    BY <1>21 DEF PollMetrics, pilot, cluster, trial
  <2> QED
    BY <2>1, <2>2, <2>3 DEF TypePlaces
<1>22. CASE Trigger
  BY <1>22 DEF Trigger, Running, Goto, TypePlaces, vars, pilot, cluster, trial, sampling
<1>23. CASE PodGoes
  <2>1. target' \in BOOLEAN
    BY <1>23 DEF PodGoes
  <2>2. UNCHANGED <<pc, sampler, outcome, triggered, forward, loading, stopping, error>>
    BY <1>23 DEF PodGoes, pilot, trial, sampling
  <2> QED
    BY <2>1, <2>2 DEF TypePlaces
<1>24. CASE Land \/ ScrapePod \/ UNCHANGED vars
  <2>1. UNCHANGED <<pc, sampler, outcome, target, triggered, forward, loading, stopping, error>>
    BY <1>24 DEF Land, ScrapePod, Running, vars, pilot, cluster, trial, sampling
  <2> QED
    BY <2>1 DEF TypePlaces
<1> QED
  BY <1>1, <1>2, <1>3, <1>4, <1>5, <1>6, <1>7, <1>8, <1>9, <1>10, <1>11, <1>12, <1>13, <1>14,
    <1>15, <1>16, <1>17, <1>18, <1>19, <1>20, <1>21, <1>22, <1>23, <1>24
  DEF Next, Main, Load, Sampler, Environment, Terminated

LEMMA CountsStep ==
  ASSUME TypeCounts /\ PlaceCounts, [Next]_vars
  PROVE  TypeCounts'
<1>1. CASE BeginAttempt
  BY <1>1, Assumptions DEF BeginAttempt, Goto, TypeCounts, PlaceCounts, Tally, NoResults, vars,
    pilot, cluster, trial, sampling
<1>2. CASE CollectDone
  BY <1>2, Assumptions DEF CollectDone, Goto, TypeCounts, PlaceCounts, Tally, NoResults, vars,
    pilot, cluster, trial, sampling
<1>3. CASE Drop
  BY <1>3, Assumptions DEF Drop, Goto, TypeCounts, PlaceCounts, Tally, NoResults, vars, pilot,
    cluster, trial, sampling
<1>4. CASE Submit
  BY <1>4, Assumptions DEF Submit, Goto, TypeCounts, PlaceCounts, Tally, NoResults, vars, pilot,
    cluster, trial, sampling
<1>5. CASE Drain
  BY <1>5, Assumptions DEF Drain, Goto, TypeCounts, PlaceCounts, Tally, NoResults, vars, pilot,
    cluster, trial, sampling
<1>6. CASE Land
  BY <1>6, Assumptions DEF Land, Goto, TypeCounts, PlaceCounts, Tally, NoResults, vars, pilot,
    cluster, trial, sampling
<1>7. CASE PickPod \/ OpenForward \/ CheckHealth
  <2>1. UNCHANGED <<attempt, index, sent, flying, late, landed, results>>
    BY <1>7 DEF PickPod, OpenForward, CheckHealth, vars, pilot, cluster, trial, sampling
  <2> QED
    BY <2>1 DEF TypeCounts, PlaceCounts, Tally, NoResults
<1>8. CASE StartLoad \/ NextRequest \/ Sleep
  <2>1. UNCHANGED <<attempt, index, sent, flying, late, landed, results>>
    BY <1>8 DEF StartLoad, NextRequest, Sleep, vars, pilot, cluster, trial, sampling
  <2> QED
    BY <2>1 DEF TypeCounts, PlaceCounts, Tally, NoResults
<1>9. CASE Overdue \/ LeavePool \/ SetStop
  <2>1. UNCHANGED <<attempt, index, sent, flying, late, landed, results>>
    BY <1>9 DEF Overdue, LeavePool, SetStop, Joining, vars, pilot, cluster, trial, sampling
  <2> QED
    BY <2>1 DEF TypeCounts, PlaceCounts, Tally, NoResults
<1>10. CASE Join \/ Judge \/ RecordFailure
  <2>1. UNCHANGED <<attempt, index, sent, flying, late, landed, results>>
    BY <1>10 DEF Join, Joining, Judge, Conclude, Dropped, Fresh, RecordFailure, vars, pilot,
      cluster, trial, sampling
  <2> QED
    BY <2>1 DEF TypeCounts, PlaceCounts, Tally, NoResults
<1>11. CASE Cancelled \/ SamplerLoop \/ PollPods
  <2>1. UNCHANGED <<attempt, index, sent, flying, late, landed, results>>
    BY <1>11 DEF Cancelled, SamplerLoop, PollPods, vars, pilot, cluster, trial, sampling
  <2> QED
    BY <2>1 DEF TypeCounts, PlaceCounts, Tally, NoResults
<1>12. CASE PollMetrics \/ Trigger \/ ScrapePod
  <2>1. UNCHANGED <<attempt, index, sent, flying, late, landed, results>>
    BY <1>12 DEF PollMetrics, Trigger, Running, ScrapePod, vars, pilot, cluster, trial, sampling
  <2> QED
    BY <2>1 DEF TypeCounts, PlaceCounts, Tally, NoResults
<1>13. CASE PodGoes \/ UNCHANGED vars
  <2>1. UNCHANGED <<attempt, index, sent, flying, late, landed, results>>
    BY <1>13 DEF PodGoes, Running, vars, pilot, cluster, trial, sampling
  <2> QED
    BY <2>1 DEF TypeCounts, PlaceCounts, Tally, NoResults
<1> QED
  BY <1>1, <1>2, <1>3, <1>4, <1>5, <1>6, <1>7, <1>8, <1>9, <1>10, <1>11, <1>12, <1>13
  DEF Next, Main, Load, Sampler, Environment, Terminated

LEMMA ReadingsStep ==
  ASSUME TypeReadings /\ TypePlaces /\ TypeCounts /\ PlaceCounts /\ RequestsAddUp, [Next]_vars
  PROVE  TypeReadings'
<1>1. CASE BeginAttempt
  BY <1>1, Assumptions DEF BeginAttempt, Goto, TypeReadings, vars, pilot, cluster, trial,
    sampling
<1>2. CASE PickPod
  <2>1. scraped' \in Scrape \cup {NoScrape}
    BY <1>2 DEF PickPod, Scrape, NoScrape, TypeReadings
  <2>2. UNCHANGED <<samples, records, measured>>
    BY <1>2 DEF PickPod, pilot, sampling
  <2> QED
    BY <2>1, <2>2 DEF TypeReadings
<1>3. CASE Judge
  <2>1. CASE error \/ Fresh = {}
    BY <1>3, <2>1 DEF Judge, TypeReadings, cluster, sampling
  <2>2. CASE ~(error \/ Fresh = {})
    <3>1. PICK s \in Fresh, fast \in BOOLEAN :
            LET failed == results.failed + Dropped
                met == fast /\ failed <= MaxFailed /\ s.level <= MaxLevel
            IN  measured' = [failed |-> failed, peak |-> s.level, met |-> met]
      BY <1>3, <2>2 DEF Judge, Conclude
    <3>2. s.level \in Levels
      BY DEF Fresh, TypeReadings, Scrape
    <3>3. results.failed \in Nat /\ Dropped \in Nat
      BY Assumptions DEF TypeCounts, Tally, RequestsAddUp, Dropped
    <3>4. results.failed + Dropped \in Nat
      BY <3>3
    <3>5. measured' \in [failed : Nat, peak : Levels \cup {0}, met : BOOLEAN]
      <4>1. (fast /\ results.failed + Dropped <= MaxFailed /\ s.level <= MaxLevel) \in BOOLEAN
        OBVIOUS
      <4> QED
        BY <3>1, <3>2, <3>4, <4>1
    <3>6. records' = Append(records, "completed") /\ UNCHANGED <<scraped, samples>>
      BY <1>3, <2>2 DEF Judge, Conclude, cluster, sampling
    <3>7. records' \in Seq({"infrastructure_failure", "completed"})
      BY <3>6 DEF TypeReadings
    <3> QED
      BY <3>5, <3>6, <3>7 DEF TypeReadings
  <2> QED
    BY <2>1, <2>2
<1>4. CASE RecordFailure
  BY <1>4, Assumptions DEF RecordFailure, Goto, TypeReadings, vars, pilot, cluster, trial,
    sampling
<1>5. CASE PollMetrics
  BY <1>5, Assumptions DEF PollMetrics, Goto, TypeReadings, vars, pilot, cluster, trial,
    sampling
<1>6. CASE ScrapePod
  <2>1. scraped' \in Scrape
    BY <1>6 DEF ScrapePod, Scrape, TypePlaces
  <2>2. UNCHANGED <<samples, records, measured>>
    BY <1>6 DEF ScrapePod, pilot, sampling
  <2> QED
    BY <2>1, <2>2 DEF TypeReadings
<1>7. CASE OpenForward \/ CheckHealth \/ StartLoad
  <2>1. UNCHANGED <<scraped, samples, records, measured>>
    BY <1>7 DEF OpenForward, CheckHealth, StartLoad, vars, pilot, cluster, trial, sampling
  <2> QED
    BY <2>1 DEF TypeReadings
<1>8. CASE NextRequest \/ Sleep \/ Overdue
  <2>1. UNCHANGED <<scraped, samples, records, measured>>
    BY <1>8 DEF NextRequest, Sleep, Overdue, vars, pilot, cluster, trial, sampling
  <2> QED
    BY <2>1 DEF TypeReadings
<1>9. CASE CollectDone \/ Drop \/ Submit
  <2>1. UNCHANGED <<scraped, samples, records, measured>>
    BY <1>9 DEF CollectDone, Drop, Submit, vars, pilot, cluster, trial, sampling
  <2> QED
    BY <2>1 DEF TypeReadings
<1>10. CASE Drain \/ LeavePool \/ SetStop
  <2>1. UNCHANGED <<scraped, samples, records, measured>>
    BY <1>10 DEF Drain, LeavePool, SetStop, Joining, vars, pilot, cluster, trial, sampling
  <2> QED
    BY <2>1 DEF TypeReadings
<1>11. CASE Join \/ Cancelled \/ Land
  <2>1. UNCHANGED <<scraped, samples, records, measured>>
    BY <1>11 DEF Join, Joining, Cancelled, Land, vars, pilot, cluster, trial, sampling
  <2> QED
    BY <2>1 DEF TypeReadings
<1>12. CASE SamplerLoop \/ PollPods \/ Trigger
  <2>1. UNCHANGED <<scraped, samples, records, measured>>
    BY <1>12 DEF SamplerLoop, PollPods, Trigger, Running, vars, pilot, cluster, trial, sampling
  <2> QED
    BY <2>1 DEF TypeReadings
<1>13. CASE PodGoes \/ UNCHANGED vars
  <2>1. UNCHANGED <<scraped, samples, records, measured>>
    BY <1>13 DEF PodGoes, Running, vars, pilot, cluster, trial, sampling
  <2> QED
    BY <2>1 DEF TypeReadings
<1> QED
  BY <1>1, <1>2, <1>3, <1>4, <1>5, <1>6, <1>7, <1>8, <1>9, <1>10, <1>11, <1>12, <1>13
  DEF Next, Main, Load, Sampler, Environment, Terminated

LEMMA PlaceCountsStep ==
  ASSUME TypeCounts /\ PlaceCounts /\ RequestsAddUp /\ PlaceSampler /\ NothingOutlivesTheForward, [Next]_vars
  PROVE  PlaceCounts'
<1>1. CASE BeginAttempt
  BY <1>1, Assumptions DEF BeginAttempt, Goto, TypeCounts, PlaceCounts, PlaceSampler, Beside,
    NothingOutlivesTheForward, vars, pilot, cluster, trial, sampling
<1>2. CASE PickPod
  BY <1>2, Assumptions DEF PickPod, Goto, TypeCounts, PlaceCounts, PlaceSampler, Beside,
    NothingOutlivesTheForward, vars, pilot, cluster, trial, sampling
<1>3. CASE OpenForward
  BY <1>3, Assumptions DEF OpenForward, Goto, TypeCounts, PlaceCounts, PlaceSampler, Beside,
    NothingOutlivesTheForward, vars, pilot, cluster, trial, sampling
<1>4. CASE CheckHealth
  BY <1>4, Assumptions DEF CheckHealth, Goto, TypeCounts, PlaceCounts, PlaceSampler, Beside,
    NothingOutlivesTheForward, vars, pilot, cluster, trial, sampling
<1>5. CASE StartLoad
  BY <1>5, Assumptions DEF StartLoad, Goto, TypeCounts, PlaceCounts, PlaceSampler, Beside,
    NothingOutlivesTheForward, vars, pilot, cluster, trial, sampling
<1>6. CASE NextRequest
  BY <1>6, Assumptions DEF NextRequest, Goto, TypeCounts, PlaceCounts, PlaceSampler, Beside,
    NothingOutlivesTheForward, vars, pilot, cluster, trial, sampling
<1>7. CASE Sleep
  BY <1>7, Assumptions DEF Sleep, Goto, TypeCounts, PlaceCounts, PlaceSampler, Beside,
    NothingOutlivesTheForward, vars, pilot, cluster, trial, sampling
<1>8. CASE Overdue
  BY <1>8, Assumptions DEF Overdue, Goto, TypeCounts, PlaceCounts, PlaceSampler, Beside,
    NothingOutlivesTheForward, vars, pilot, cluster, trial, sampling
<1>9. CASE CollectDone
  BY <1>9, Assumptions DEF CollectDone, Goto, TypeCounts, PlaceCounts, PlaceSampler, Beside,
    NothingOutlivesTheForward, vars, pilot, cluster, trial, sampling
<1>10. CASE Drop
  BY <1>10, Assumptions DEF Drop, Goto, TypeCounts, PlaceCounts, PlaceSampler, Beside,
    NothingOutlivesTheForward, vars, pilot, cluster, trial, sampling
<1>11. CASE Submit
  BY <1>11, Assumptions DEF Submit, Goto, TypeCounts, PlaceCounts, PlaceSampler, Beside,
    NothingOutlivesTheForward, vars, pilot, cluster, trial, sampling
<1>12. CASE Drain
  BY <1>12, Assumptions DEF Drain, Goto, TypeCounts, PlaceCounts, PlaceSampler, Beside,
    NothingOutlivesTheForward, vars, pilot, cluster, trial, sampling
<1>13. CASE LeavePool
  BY <1>13, Assumptions DEF LeavePool, Goto, TypeCounts, PlaceCounts, PlaceSampler, Beside,
    NothingOutlivesTheForward, vars, pilot, cluster, trial, sampling
<1>14. CASE Join
  BY <1>14, Assumptions DEF Join, Joining, Goto, TypeCounts, PlaceCounts, PlaceSampler, Beside,
    NothingOutlivesTheForward, vars, pilot, cluster, trial, sampling
<1>15. CASE Judge
  BY <1>15, Assumptions DEF Judge, Conclude, Dropped, Fresh, Goto, TypeCounts, PlaceCounts,
    PlaceSampler, Beside, NothingOutlivesTheForward, vars, pilot, cluster, trial, sampling
<1>16. CASE RecordFailure
  BY <1>16, Assumptions DEF RecordFailure, Goto, TypeCounts, PlaceCounts, PlaceSampler, Beside,
    NothingOutlivesTheForward, vars, pilot, cluster, trial, sampling
<1>17. CASE Cancelled
  BY <1>17, Assumptions DEF Cancelled, Goto, TypeCounts, PlaceCounts, PlaceSampler, Beside,
    NothingOutlivesTheForward, vars, pilot, cluster, trial, sampling
<1>18. CASE Land
  BY <1>18, Assumptions DEF Land, Goto, TypeCounts, PlaceCounts, PlaceSampler, Beside,
    NothingOutlivesTheForward, vars, pilot, cluster, trial, sampling
<1>19. CASE SetStop \/ SamplerLoop \/ PollPods
  <2>1. UNCHANGED <<pc, index, flying, landed>>
    BY <1>19 DEF SetStop, Joining, SamplerLoop, PollPods, vars, pilot, cluster, trial, sampling
  <2> QED
    BY <2>1 DEF TypeCounts, PlaceCounts, PlaceSampler, Beside, NothingOutlivesTheForward
<1>20. CASE PollMetrics \/ Trigger \/ ScrapePod
  <2>1. UNCHANGED <<pc, index, flying, landed>>
    BY <1>20 DEF PollMetrics, Trigger, Running, ScrapePod, vars, pilot, cluster, trial, sampling
  <2> QED
    BY <2>1 DEF TypeCounts, PlaceCounts, PlaceSampler, Beside, NothingOutlivesTheForward
<1>21. CASE PodGoes \/ UNCHANGED vars
  <2>1. UNCHANGED <<pc, index, flying, landed>>
    BY <1>21 DEF PodGoes, Running, vars, pilot, cluster, trial, sampling
  <2> QED
    BY <2>1 DEF TypeCounts, PlaceCounts, PlaceSampler, Beside, NothingOutlivesTheForward
<1> QED
  BY <1>1, <1>2, <1>3, <1>4, <1>5, <1>6, <1>7, <1>8, <1>9, <1>10, <1>11, <1>12, <1>13, <1>14,
    <1>15, <1>16, <1>17, <1>18, <1>19, <1>20, <1>21
  DEF Next, Main, Load, Sampler, Environment, Terminated

LEMMA PlaceSamplerStep ==
  ASSUME PlaceSampler /\ NothingOutlivesTheForward, [Next]_vars
  PROVE  PlaceSampler'
<1>1. CASE BeginAttempt
  BY <1>1 DEF BeginAttempt, Goto, PlaceSampler, Beside, NothingOutlivesTheForward, vars, pilot,
    cluster, trial, sampling
<1>2. CASE PickPod
  BY <1>2 DEF PickPod, Goto, PlaceSampler, Beside, NothingOutlivesTheForward, vars, pilot,
    cluster, trial, sampling
<1>3. CASE OpenForward
  BY <1>3 DEF OpenForward, Goto, PlaceSampler, Beside, NothingOutlivesTheForward, vars, pilot,
    cluster, trial, sampling
<1>4. CASE CheckHealth
  BY <1>4 DEF CheckHealth, Goto, PlaceSampler, Beside, NothingOutlivesTheForward, vars, pilot,
    cluster, trial, sampling
<1>5. CASE StartLoad
  BY <1>5 DEF StartLoad, Goto, PlaceSampler, Beside, NothingOutlivesTheForward, vars, pilot,
    cluster, trial, sampling
<1>6. CASE NextRequest
  BY <1>6 DEF NextRequest, Goto, PlaceSampler, Beside, NothingOutlivesTheForward, vars, pilot,
    cluster, trial, sampling
<1>7. CASE Sleep
  BY <1>7 DEF Sleep, Goto, PlaceSampler, Beside, NothingOutlivesTheForward, vars, pilot,
    cluster, trial, sampling
<1>8. CASE Overdue
  BY <1>8 DEF Overdue, Goto, PlaceSampler, Beside, NothingOutlivesTheForward, vars, pilot,
    cluster, trial, sampling
<1>9. CASE CollectDone
  BY <1>9 DEF CollectDone, Goto, PlaceSampler, Beside, NothingOutlivesTheForward, vars, pilot,
    cluster, trial, sampling
<1>10. CASE Drop
  BY <1>10 DEF Drop, Goto, PlaceSampler, Beside, NothingOutlivesTheForward, vars, pilot,
    cluster, trial, sampling
<1>11. CASE Submit
  BY <1>11 DEF Submit, Goto, PlaceSampler, Beside, NothingOutlivesTheForward, vars, pilot,
    cluster, trial, sampling
<1>12. CASE Drain
  BY <1>12 DEF Drain, Goto, PlaceSampler, Beside, NothingOutlivesTheForward, vars, pilot,
    cluster, trial, sampling
<1>13. CASE LeavePool
  BY <1>13 DEF LeavePool, Goto, PlaceSampler, Beside, NothingOutlivesTheForward, vars, pilot,
    cluster, trial, sampling
<1>14. CASE Join
  BY <1>14 DEF Join, Joining, Goto, PlaceSampler, Beside, NothingOutlivesTheForward, vars,
    pilot, cluster, trial, sampling
<1>15. CASE Judge
  BY <1>15 DEF Judge, Conclude, Dropped, Fresh, Goto, PlaceSampler, Beside,
    NothingOutlivesTheForward, vars, pilot, cluster, trial, sampling
<1>16. CASE RecordFailure
  BY <1>16 DEF RecordFailure, Goto, PlaceSampler, Beside, NothingOutlivesTheForward, vars,
    pilot, cluster, trial, sampling
<1>17. CASE Cancelled
  BY <1>17 DEF Cancelled, Goto, PlaceSampler, Beside, NothingOutlivesTheForward, vars, pilot,
    cluster, trial, sampling
<1>18. CASE Land
  BY <1>18 DEF Land, Goto, PlaceSampler, Beside, NothingOutlivesTheForward, vars, pilot,
    cluster, trial, sampling
<1>19. CASE SamplerLoop
  BY <1>19 DEF SamplerLoop, Goto, PlaceSampler, Beside, NothingOutlivesTheForward, vars, pilot,
    cluster, trial, sampling
<1>20. CASE PollPods
  BY <1>20 DEF PollPods, Goto, PlaceSampler, Beside, NothingOutlivesTheForward, vars, pilot,
    cluster, trial, sampling
<1>21. CASE PollMetrics
  BY <1>21 DEF PollMetrics, Goto, PlaceSampler, Beside, NothingOutlivesTheForward, vars, pilot,
    cluster, trial, sampling
<1>22. CASE SetStop \/ Trigger \/ ScrapePod
  <2>1. UNCHANGED <<pc, forward, sampler, flying>>
    BY <1>22 DEF SetStop, Joining, Trigger, Running, ScrapePod, vars, pilot, cluster, trial,
      sampling
  <2> QED
    BY <2>1 DEF PlaceSampler, Beside, NothingOutlivesTheForward
<1>23. CASE PodGoes \/ UNCHANGED vars
  <2>1. UNCHANGED <<pc, forward, sampler, flying>>
    BY <1>23 DEF PodGoes, Running, vars, pilot, cluster, trial, sampling
  <2> QED
    BY <2>1 DEF PlaceSampler, Beside, NothingOutlivesTheForward
<1> QED
  BY <1>1, <1>2, <1>3, <1>4, <1>5, <1>6, <1>7, <1>8, <1>9, <1>10, <1>11, <1>12, <1>13, <1>14,
    <1>15, <1>16, <1>17, <1>18, <1>19, <1>20, <1>21, <1>22, <1>23
  DEF Next, Main, Load, Sampler, Environment, Terminated

LEMMA EndsStep ==
  ASSUME TypeCounts /\ Ends /\ PlaceSampler, [Next]_vars
  PROVE  Ends'
<1>1. CASE BeginAttempt
  BY <1>1 DEF BeginAttempt, Goto, TypeCounts, Ends, PlaceSampler, Beside, vars, pilot, cluster,
    trial, sampling
<1>2. CASE PickPod
  BY <1>2 DEF PickPod, Goto, TypeCounts, Ends, PlaceSampler, Beside, vars, pilot, cluster,
    trial, sampling
<1>3. CASE OpenForward
  BY <1>3 DEF OpenForward, Goto, TypeCounts, Ends, PlaceSampler, Beside, vars, pilot, cluster,
    trial, sampling
<1>4. CASE CheckHealth
  BY <1>4 DEF CheckHealth, Goto, TypeCounts, Ends, PlaceSampler, Beside, vars, pilot, cluster,
    trial, sampling
<1>5. CASE StartLoad
  BY <1>5 DEF StartLoad, Goto, TypeCounts, Ends, PlaceSampler, Beside, vars, pilot, cluster,
    trial, sampling
<1>6. CASE NextRequest
  BY <1>6 DEF NextRequest, Goto, TypeCounts, Ends, PlaceSampler, Beside, vars, pilot, cluster,
    trial, sampling
<1>7. CASE Sleep
  BY <1>7 DEF Sleep, Goto, TypeCounts, Ends, PlaceSampler, Beside, vars, pilot, cluster, trial,
    sampling
<1>8. CASE Overdue
  BY <1>8 DEF Overdue, Goto, TypeCounts, Ends, PlaceSampler, Beside, vars, pilot, cluster,
    trial, sampling
<1>9. CASE CollectDone
  BY <1>9 DEF CollectDone, Goto, TypeCounts, Ends, PlaceSampler, Beside, vars, pilot, cluster,
    trial, sampling
<1>10. CASE Drop
  BY <1>10 DEF Drop, Goto, TypeCounts, Ends, PlaceSampler, Beside, vars, pilot, cluster, trial,
    sampling
<1>11. CASE Submit
  BY <1>11 DEF Submit, Goto, TypeCounts, Ends, PlaceSampler, Beside, vars, pilot, cluster,
    trial, sampling
<1>12. CASE Drain
  BY <1>12 DEF Drain, Goto, TypeCounts, Ends, PlaceSampler, Beside, vars, pilot, cluster, trial,
    sampling
<1>13. CASE LeavePool
  BY <1>13 DEF LeavePool, Goto, TypeCounts, Ends, PlaceSampler, Beside, vars, pilot, cluster,
    trial, sampling
<1>14. CASE Join
  BY <1>14 DEF Join, Joining, Goto, TypeCounts, Ends, PlaceSampler, Beside, vars, pilot,
    cluster, trial, sampling
<1>15. CASE Judge
  BY <1>15 DEF Judge, Conclude, Dropped, Fresh, Goto, TypeCounts, Ends, PlaceSampler, Beside,
    vars, pilot, cluster, trial, sampling
<1>16. CASE RecordFailure
  BY <1>16 DEF RecordFailure, Goto, TypeCounts, Ends, PlaceSampler, Beside, vars, pilot,
    cluster, trial, sampling
<1>17. CASE Cancelled
  BY <1>17 DEF Cancelled, Goto, TypeCounts, Ends, PlaceSampler, Beside, vars, pilot, cluster,
    trial, sampling
<1>18. CASE Trigger
  BY <1>18 DEF Trigger, Running, Goto, TypeCounts, Ends, PlaceSampler, Beside, vars, pilot,
    cluster, trial, sampling
<1>19. CASE SetStop \/ Land \/ SamplerLoop
  <2>1. UNCHANGED <<late, triggered, outcome, pc, forward>>
    BY <1>19 DEF SetStop, Joining, Land, SamplerLoop, vars, pilot, cluster, trial, sampling
  <2> QED
    BY <2>1 DEF TypeCounts, Ends, PlaceSampler, Beside
<1>20. CASE PollPods \/ PollMetrics \/ ScrapePod
  <2>1. UNCHANGED <<late, triggered, outcome, pc, forward>>
    BY <1>20 DEF PollPods, PollMetrics, ScrapePod, Running, vars, pilot, cluster, trial, sampling
  <2> QED
    BY <2>1 DEF TypeCounts, Ends, PlaceSampler, Beside
<1>21. CASE PodGoes \/ UNCHANGED vars
  <2>1. UNCHANGED <<late, triggered, outcome, pc, forward>>
    BY <1>21 DEF PodGoes, Running, vars, pilot, cluster, trial, sampling
  <2> QED
    BY <2>1 DEF TypeCounts, Ends, PlaceSampler, Beside
<1> QED
  BY <1>1, <1>2, <1>3, <1>4, <1>5, <1>6, <1>7, <1>8, <1>9, <1>10, <1>11, <1>12, <1>13, <1>14,
    <1>15, <1>16, <1>17, <1>18, <1>19, <1>20, <1>21
  DEF Next, Main, Load, Sampler, Environment, Terminated

LEMMA SumsStep ==
  ASSUME TypeCounts /\ PlaceCounts /\ RequestsAddUp, [Next]_vars
  PROVE  RequestsAddUp'
<1>1. CASE BeginAttempt
  <2>1. CASE UNCHANGED <<pc, trial>> \/ (pc' = "ended" /\ UNCHANGED trial)
    BY <1>1, <2>1 DEF RequestsAddUp, InFlight, Dropped, trial
  <2>2. CASE /\ pc' \in {"ended", "pick"}
             /\ index' = 0 /\ sent' = 0 /\ flying' = 0
             /\ landed' = NoResults /\ results' = NoResults
    BY <2>2, Assumptions DEF RequestsAddUp, InFlight, NoResults
  <2> QED
    BY <1>1, <2>1, <2>2 DEF BeginAttempt, Goto
<1>2. CASE PickPod
  BY <1>2, Assumptions DEF PickPod, Goto, TypeCounts, PlaceCounts, RequestsAddUp, InFlight,
    Dropped, Tally, vars, pilot, cluster, trial, sampling
<1>3. CASE OpenForward
  BY <1>3, Assumptions DEF OpenForward, Goto, TypeCounts, PlaceCounts, RequestsAddUp, InFlight,
    Dropped, Tally, vars, pilot, cluster, trial, sampling
<1>4. CASE CheckHealth
  BY <1>4, Assumptions DEF CheckHealth, Goto, TypeCounts, PlaceCounts, RequestsAddUp, InFlight,
    Dropped, Tally, vars, pilot, cluster, trial, sampling
<1>5. CASE StartLoad
  BY <1>5, Assumptions DEF StartLoad, Goto, TypeCounts, PlaceCounts, RequestsAddUp, InFlight,
    Dropped, Tally, vars, pilot, cluster, trial, sampling
<1>6. CASE NextRequest
  BY <1>6, Assumptions DEF NextRequest, Goto, TypeCounts, PlaceCounts, RequestsAddUp, InFlight,
    Dropped, Tally, vars, pilot, cluster, trial, sampling
<1>7. CASE Sleep
  BY <1>7, Assumptions DEF Sleep, Goto, TypeCounts, PlaceCounts, RequestsAddUp, InFlight,
    Dropped, Tally, vars, pilot, cluster, trial, sampling
<1>8. CASE Overdue
  BY <1>8, Assumptions DEF Overdue, Goto, TypeCounts, PlaceCounts, RequestsAddUp, InFlight,
    Dropped, Tally, vars, pilot, cluster, trial, sampling
<1>9. CASE CollectDone
  <2>1. /\ results'.ok = results.ok + landed.ok /\ results'.failed = results.failed + landed.failed
        /\ landed'.ok = 0 /\ landed'.failed = 0
        /\ UNCHANGED <<index, sent, flying>>
    BY <1>9 DEF CollectDone, NoResults
  <2>2. /\ landed.ok \in Nat /\ landed.failed \in Nat /\ results.ok \in Nat /\ results.failed \in Nat
        /\ flying \in Nat /\ sent \in Nat /\ index \in Nat
    BY DEF TypeCounts, Tally
  <2>3. pc' = "decide"
    BY <1>9 DEF CollectDone, Goto
  <2> QED
    BY <2>1, <2>2, <2>3, Assumptions DEF RequestsAddUp, InFlight, Dropped
<1>10. CASE Drop
  BY <1>10, Assumptions DEF Drop, Goto, TypeCounts, PlaceCounts, RequestsAddUp, InFlight,
    Dropped, Tally, vars, pilot, cluster, trial, sampling
<1>11. CASE Submit
  BY <1>11, Assumptions DEF Submit, Goto, TypeCounts, PlaceCounts, RequestsAddUp, InFlight,
    Dropped, Tally, vars, pilot, cluster, trial, sampling
<1>12. CASE Drain
  <2>1. /\ results'.ok = results.ok + landed.ok /\ results'.failed = results.failed + landed.failed
        /\ landed'.ok = 0 /\ landed'.failed = 0
        /\ UNCHANGED <<index, sent, flying>>
    BY <1>12 DEF Drain, NoResults
  <2>2. /\ landed.ok \in Nat /\ landed.failed \in Nat /\ results.ok \in Nat /\ results.failed \in Nat
        /\ flying \in Nat /\ sent \in Nat /\ index \in Nat
    BY DEF TypeCounts, Tally
  <2>3. pc' = "join" /\ flying = 0 /\ index = Requests
    BY <1>12 DEF Drain, Goto, PlaceCounts
  <2> QED
    BY <2>1, <2>2, <2>3, Assumptions DEF RequestsAddUp, InFlight, Dropped
<1>13. CASE LeavePool
  BY <1>13, Assumptions DEF LeavePool, Goto, TypeCounts, PlaceCounts, RequestsAddUp, InFlight,
    Dropped, Tally, vars, pilot, cluster, trial, sampling
<1>14. CASE Join
  BY <1>14, Assumptions DEF Join, Joining, Goto, TypeCounts, PlaceCounts, RequestsAddUp,
    InFlight, Dropped, Tally, vars, pilot, cluster, trial, sampling
<1>15. CASE Judge
  BY <1>15, Assumptions DEF Judge, Conclude, Dropped, Fresh, Goto, TypeCounts, PlaceCounts,
    RequestsAddUp, InFlight, Dropped, Tally, vars, pilot, cluster, trial, sampling
<1>16. CASE RecordFailure
  BY <1>16, Assumptions DEF RecordFailure, Goto, TypeCounts, PlaceCounts, RequestsAddUp,
    InFlight, Dropped, Tally, vars, pilot, cluster, trial, sampling
<1>17. CASE Cancelled
  BY <1>17, Assumptions DEF Cancelled, Goto, TypeCounts, PlaceCounts, RequestsAddUp, InFlight,
    Dropped, Tally, vars, pilot, cluster, trial, sampling
<1>18. CASE Land
  BY <1>18, Assumptions DEF Land, Goto, TypeCounts, PlaceCounts, RequestsAddUp, InFlight,
    Dropped, Tally, vars, pilot, cluster, trial, sampling
<1>19. CASE SetStop \/ SamplerLoop \/ PollPods
  <2>1. UNCHANGED <<pc, sent, index, landed, flying, results>>
    BY <1>19 DEF SetStop, Joining, SamplerLoop, PollPods, vars, pilot, cluster, trial, sampling
  <2> QED
    BY <2>1 DEF TypeCounts, PlaceCounts, RequestsAddUp, InFlight, Dropped, Tally
<1>20. CASE PollMetrics \/ Trigger \/ ScrapePod
  <2>1. UNCHANGED <<pc, sent, index, landed, flying, results>>
    BY <1>20 DEF PollMetrics, Trigger, Running, ScrapePod, vars, pilot, cluster, trial, sampling
  <2> QED
    BY <2>1 DEF TypeCounts, PlaceCounts, RequestsAddUp, InFlight, Dropped, Tally
<1>21. CASE PodGoes \/ UNCHANGED vars
  <2>1. UNCHANGED <<pc, sent, index, landed, flying, results>>
    BY <1>21 DEF PodGoes, Running, vars, pilot, cluster, trial, sampling
  <2> QED
    BY <2>1 DEF TypeCounts, PlaceCounts, RequestsAddUp, InFlight, Dropped, Tally
<1> QED
  BY <1>1, <1>2, <1>3, <1>4, <1>5, <1>6, <1>7, <1>8, <1>9, <1>10, <1>11, <1>12, <1>13, <1>14,
    <1>15, <1>16, <1>17, <1>18, <1>19, <1>20, <1>21
  DEF Next, Main, Load, Sampler, Environment, Terminated

LEMMA EarnedStep ==
  ASSUME IInv, [Next]_vars
  PROVE  GoalMetIsEarned'
<1>1. CASE BeginAttempt
  BY <1>1, Assumptions DEF BeginAttempt, Goto, IInv, Ends, GoalMetIsEarned, Fresh, vars, pilot,
    cluster, trial, sampling
<1>2. CASE CheckHealth
  BY <1>2, Assumptions DEF CheckHealth, Goto, IInv, Ends, GoalMetIsEarned, Fresh, vars, pilot,
    cluster, trial, sampling
<1>3. CASE CollectDone
  BY <1>3, Assumptions DEF CollectDone, Goto, IInv, Ends, GoalMetIsEarned, Fresh, vars, pilot,
    cluster, trial, sampling
<1>4. CASE Drain
  BY <1>4, Assumptions DEF Drain, Goto, IInv, Ends, GoalMetIsEarned, Fresh, vars, pilot,
    cluster, trial, sampling
<1>5. CASE Join
  BY <1>5, Assumptions DEF Join, Joining, Goto, IInv, Ends, GoalMetIsEarned, Fresh, vars, pilot,
    cluster, trial, sampling
<1>6. CASE Judge
  <2>1. CASE error \/ Fresh = {}
    BY <1>6, <2>1 DEF Judge, IInv, Ends, GoalMetIsEarned, Fresh, trial, sampling
  <2>2. CASE ~(error \/ Fresh = {})
    <3> SUFFICES ASSUME outcome' = "goal_met" PROVE GoalMetIsEarned'
      BY DEF GoalMetIsEarned
    <3>1. PICK s \in Fresh : /\ \A t \in Fresh : t.level <= s.level
                             /\ results.failed + Dropped <= MaxFailed /\ s.level <= MaxLevel
      BY <1>6, <2>2 DEF Judge, Conclude
    <3>2. \A t \in Fresh : t.level \in Nat
      BY Assumptions DEF Fresh, IInv, TypeOK, TypeReadings, Scrape
    <3>3. \A t \in Fresh : t.level <= MaxLevel
      BY <3>1, <3>2, Assumptions
    <3>4. results.ok + MaxFailed >= Requests
      <4>1. results.ok + results.failed + Dropped = Requests
        BY <1>6 DEF Judge, IInv, RequestsAddUp
      <4>2. results.ok \in Nat /\ results.failed \in Nat /\ Dropped \in Nat
        BY Assumptions DEF IInv, TypeOK, TypeCounts, Tally, Dropped, RequestsAddUp
      <4> QED
        BY <3>1, <4>1, <4>2, Assumptions
    <3>5. sampler = "ended"
      BY <1>6, <2>2 DEF Judge, IInv, PlaceSampler, NothingOutlivesTheForward
    <3>6. UNCHANGED <<results, sampler, error, samples>>
      BY <1>6 DEF Judge, trial, sampling
    <3> QED
      BY <2>2, <3>3, <3>4, <3>5, <3>6 DEF GoalMetIsEarned, Fresh
  <2> QED
    BY <2>1, <2>2
<1>7. CASE Cancelled
  BY <1>7, Assumptions DEF Cancelled, Goto, IInv, Ends, GoalMetIsEarned, Fresh, vars, pilot,
    cluster, trial, sampling
<1>8. CASE SamplerLoop
  BY <1>8, Assumptions DEF SamplerLoop, Goto, IInv, Ends, GoalMetIsEarned, Fresh, vars, pilot,
    cluster, trial, sampling
<1>9. CASE PollPods
  BY <1>9, Assumptions DEF PollPods, Goto, IInv, Ends, GoalMetIsEarned, Fresh, vars, pilot,
    cluster, trial, sampling
<1>10. CASE PollMetrics
  BY <1>10, Assumptions DEF PollMetrics, Goto, IInv, Ends, GoalMetIsEarned, Fresh, vars, pilot,
    cluster, trial, sampling
<1>11. CASE PickPod \/ OpenForward \/ StartLoad
  <2>1. outcome' \in {outcome, "raised"} /\ UNCHANGED <<results, sampler, error, samples>>
    BY <1>11 DEF PickPod, OpenForward, StartLoad, vars, pilot, cluster, trial, sampling
  <2> QED
    BY <2>1 DEF IInv, Ends, GoalMetIsEarned, Fresh
<1>12. CASE NextRequest \/ Sleep \/ Overdue
  <2>1. UNCHANGED <<outcome, results, sampler, error, samples>>
    BY <1>12 DEF NextRequest, Sleep, Overdue, vars, pilot, cluster, trial, sampling
  <2> QED
    BY <2>1 DEF IInv, Ends, GoalMetIsEarned, Fresh
<1>13. CASE Drop \/ Submit \/ LeavePool
  <2>1. UNCHANGED <<outcome, results, sampler, error, samples>>
    BY <1>13 DEF Drop, Submit, LeavePool, vars, pilot, cluster, trial, sampling
  <2> QED
    BY <2>1 DEF IInv, Ends, GoalMetIsEarned, Fresh
<1>14. CASE SetStop \/ RecordFailure \/ Land
  <2>1. UNCHANGED <<outcome, results, sampler, error, samples>>
    BY <1>14 DEF SetStop, Joining, RecordFailure, Land, vars, pilot, cluster, trial, sampling
  <2> QED
    BY <2>1 DEF IInv, Ends, GoalMetIsEarned, Fresh
<1>15. CASE Trigger \/ ScrapePod \/ PodGoes \/ UNCHANGED vars
  <2>1. UNCHANGED <<outcome, results, sampler, error, samples>>
    BY <1>15 DEF Trigger, Running, ScrapePod, PodGoes, vars, pilot, cluster, trial, sampling
  <2> QED
    BY <2>1 DEF IInv, Ends, GoalMetIsEarned, Fresh
<1> QED
  BY <1>1, <1>2, <1>3, <1>4, <1>5, <1>6, <1>7, <1>8, <1>9, <1>10, <1>11, <1>12, <1>13, <1>14,
    <1>15
  DEF Next, Main, Load, Sampler, Environment, Terminated

LEMMA ForwardStep ==
  ASSUME TypeCounts /\ PlaceCounts /\ PlaceSampler /\ NothingOutlivesTheForward, [Next]_vars
  PROVE  NothingOutlivesTheForward'
<1>1. CASE BeginAttempt
  BY <1>1 DEF BeginAttempt, Goto, TypeCounts, PlaceCounts, PlaceSampler, Beside,
    NothingOutlivesTheForward, vars, pilot, cluster, trial, sampling
<1>2. CASE OpenForward
  BY <1>2 DEF OpenForward, Goto, TypeCounts, PlaceCounts, PlaceSampler, Beside,
    NothingOutlivesTheForward, vars, pilot, cluster, trial, sampling
<1>3. CASE CheckHealth
  BY <1>3 DEF CheckHealth, Goto, TypeCounts, PlaceCounts, PlaceSampler, Beside,
    NothingOutlivesTheForward, vars, pilot, cluster, trial, sampling
<1>4. CASE Submit
  BY <1>4 DEF Submit, Goto, TypeCounts, PlaceCounts, PlaceSampler, Beside,
    NothingOutlivesTheForward, vars, pilot, cluster, trial, sampling
<1>5. CASE Join
  BY <1>5 DEF Join, Joining, Goto, TypeCounts, PlaceCounts, PlaceSampler, Beside,
    NothingOutlivesTheForward, vars, pilot, cluster, trial, sampling
<1>6. CASE Land
  BY <1>6 DEF Land, Goto, TypeCounts, PlaceCounts, PlaceSampler, Beside,
    NothingOutlivesTheForward, vars, pilot, cluster, trial, sampling
<1>7. CASE SamplerLoop
  BY <1>7 DEF SamplerLoop, Goto, TypeCounts, PlaceCounts, PlaceSampler, Beside,
    NothingOutlivesTheForward, vars, pilot, cluster, trial, sampling
<1>8. CASE PollPods
  BY <1>8 DEF PollPods, Goto, TypeCounts, PlaceCounts, PlaceSampler, Beside,
    NothingOutlivesTheForward, vars, pilot, cluster, trial, sampling
<1>9. CASE PollMetrics
  BY <1>9 DEF PollMetrics, Goto, TypeCounts, PlaceCounts, PlaceSampler, Beside,
    NothingOutlivesTheForward, vars, pilot, cluster, trial, sampling
<1>10. CASE PickPod \/ StartLoad \/ NextRequest
  <2>1. UNCHANGED <<forward, flying, sampler, error>>
    BY <1>10 DEF PickPod, StartLoad, NextRequest, vars, pilot, cluster, trial, sampling
  <2> QED
    BY <2>1 DEF TypeCounts, PlaceCounts, PlaceSampler, Beside, NothingOutlivesTheForward
<1>11. CASE Sleep \/ Overdue \/ CollectDone
  <2>1. UNCHANGED <<forward, flying, sampler, error>>
    BY <1>11 DEF Sleep, Overdue, CollectDone, vars, pilot, cluster, trial, sampling
  <2> QED
    BY <2>1 DEF TypeCounts, PlaceCounts, PlaceSampler, Beside, NothingOutlivesTheForward
<1>12. CASE Drop \/ Drain \/ LeavePool
  <2>1. UNCHANGED <<forward, flying, sampler, error>>
    BY <1>12 DEF Drop, Drain, LeavePool, vars, pilot, cluster, trial, sampling
  <2> QED
    BY <2>1 DEF TypeCounts, PlaceCounts, PlaceSampler, Beside, NothingOutlivesTheForward
<1>13. CASE SetStop \/ Judge \/ RecordFailure
  <2>1. UNCHANGED <<forward, flying, sampler, error>>
    BY <1>13 DEF SetStop, Joining, Judge, Conclude, Dropped, Fresh, RecordFailure, vars, pilot,
      cluster, trial, sampling
  <2> QED
    BY <2>1 DEF TypeCounts, PlaceCounts, PlaceSampler, Beside, NothingOutlivesTheForward
<1>14. CASE Cancelled \/ Trigger \/ ScrapePod
  <2>1. UNCHANGED <<forward, flying, sampler, error>>
    BY <1>14 DEF Cancelled, Trigger, Running, ScrapePod, vars, pilot, cluster, trial, sampling
  <2> QED
    BY <2>1 DEF TypeCounts, PlaceCounts, PlaceSampler, Beside, NothingOutlivesTheForward
<1>15. CASE PodGoes \/ UNCHANGED vars
  <2>1. UNCHANGED <<forward, flying, sampler, error>>
    BY <1>15 DEF PodGoes, Running, vars, pilot, cluster, trial, sampling
  <2> QED
    BY <2>1 DEF TypeCounts, PlaceCounts, PlaceSampler, Beside, NothingOutlivesTheForward
<1> QED
  BY <1>1, <1>2, <1>3, <1>4, <1>5, <1>6, <1>7, <1>8, <1>9, <1>10, <1>11, <1>12, <1>13, <1>14,
    <1>15
  DEF Next, Main, Load, Sampler, Environment, Terminated

LEMMA LateStep ==
  ASSUME TypeCounts /\ Ends /\ OneRequestIsLate, [Next]_vars
  PROVE  OneRequestIsLate'
<1>1. CASE BeginAttempt
  BY <1>1 DEF BeginAttempt, Goto, TypeCounts, Ends, OneRequestIsLate, vars, pilot, cluster,
    trial, sampling
<1>2. CASE PickPod
  BY <1>2 DEF PickPod, Goto, TypeCounts, Ends, OneRequestIsLate, vars, pilot, cluster, trial,
    sampling
<1>3. CASE OpenForward
  BY <1>3 DEF OpenForward, Goto, TypeCounts, Ends, OneRequestIsLate, vars, pilot, cluster,
    trial, sampling
<1>4. CASE CheckHealth
  BY <1>4 DEF CheckHealth, Goto, TypeCounts, Ends, OneRequestIsLate, vars, pilot, cluster,
    trial, sampling
<1>5. CASE StartLoad
  BY <1>5 DEF StartLoad, Goto, TypeCounts, Ends, OneRequestIsLate, vars, pilot, cluster, trial,
    sampling
<1>6. CASE NextRequest
  BY <1>6 DEF NextRequest, Goto, TypeCounts, Ends, OneRequestIsLate, vars, pilot, cluster,
    trial, sampling
<1>7. CASE Sleep
  BY <1>7 DEF Sleep, Goto, TypeCounts, Ends, OneRequestIsLate, vars, pilot, cluster, trial,
    sampling
<1>8. CASE Overdue
  BY <1>8 DEF Overdue, Goto, TypeCounts, Ends, OneRequestIsLate, vars, pilot, cluster, trial,
    sampling
<1>9. CASE CollectDone
  BY <1>9 DEF CollectDone, Goto, TypeCounts, Ends, OneRequestIsLate, vars, pilot, cluster,
    trial, sampling
<1>10. CASE Drop
  BY <1>10 DEF Drop, Goto, TypeCounts, Ends, OneRequestIsLate, vars, pilot, cluster, trial,
    sampling
<1>11. CASE Submit
  BY <1>11 DEF Submit, Goto, TypeCounts, Ends, OneRequestIsLate, vars, pilot, cluster, trial,
    sampling
<1>12. CASE Drain
  BY <1>12 DEF Drain, Goto, TypeCounts, Ends, OneRequestIsLate, vars, pilot, cluster, trial,
    sampling
<1>13. CASE LeavePool
  BY <1>13 DEF LeavePool, Goto, TypeCounts, Ends, OneRequestIsLate, vars, pilot, cluster, trial,
    sampling
<1>14. CASE Join
  BY <1>14 DEF Join, Joining, Goto, TypeCounts, Ends, OneRequestIsLate, vars, pilot, cluster,
    trial, sampling
<1>15. CASE Judge
  BY <1>15 DEF Judge, Conclude, Dropped, Fresh, Goto, TypeCounts, Ends, OneRequestIsLate, vars,
    pilot, cluster, trial, sampling
<1>16. CASE RecordFailure
  BY <1>16 DEF RecordFailure, Goto, TypeCounts, Ends, OneRequestIsLate, vars, pilot, cluster,
    trial, sampling
<1>17. CASE Cancelled
  BY <1>17 DEF Cancelled, Goto, TypeCounts, Ends, OneRequestIsLate, vars, pilot, cluster, trial,
    sampling
<1>18. CASE SetStop \/ Land \/ SamplerLoop
  <2>1. UNCHANGED <<late, pc>>
    BY <1>18 DEF SetStop, Joining, Land, SamplerLoop, vars, pilot, cluster, trial, sampling
  <2> QED
    BY <2>1 DEF TypeCounts, Ends, OneRequestIsLate
<1>19. CASE PollPods \/ PollMetrics \/ Trigger
  <2>1. UNCHANGED <<late, pc>>
    BY <1>19 DEF PollPods, PollMetrics, Trigger, Running, vars, pilot, cluster, trial, sampling
  <2> QED
    BY <2>1 DEF TypeCounts, Ends, OneRequestIsLate
<1>20. CASE ScrapePod \/ PodGoes \/ UNCHANGED vars
  <2>1. UNCHANGED <<late, pc>>
    BY <1>20 DEF ScrapePod, Running, PodGoes, vars, pilot, cluster, trial, sampling
  <2> QED
    BY <2>1 DEF TypeCounts, Ends, OneRequestIsLate
<1> QED
  BY <1>1, <1>2, <1>3, <1>4, <1>5, <1>6, <1>7, <1>8, <1>9, <1>10, <1>11, <1>12, <1>13, <1>14,
    <1>15, <1>16, <1>17, <1>18, <1>19, <1>20
  DEF Next, Main, Load, Sampler, Environment, Terminated

LEMMA StepHolds == IInv /\ [Next]_vars => IInv'
BY PlacesStep, CountsStep, ReadingsStep, PlaceCountsStep, PlaceSamplerStep, EndsStep, SumsStep,
   EarnedStep, ForwardStep, LateStep
DEF IInv, TypeOK

\* The invariant holds in every reachable state.
THEOREM Invariance == Spec => []IInv
BY InitHolds, StepHolds, PTL DEF Spec

\* CpuTrial's state is well typed at any size.
THEOREM TypeCorrect == Spec => []TypeOK
<1>1. IInv => TypeOK
  BY DEF IInv
<1> QED
  BY <1>1, Invariance, PTL

\* run_load loses and invents no request, whatever the pool threads do.
THEOREM EveryRequestCounted == Spec => []RequestsAddUp
<1>1. IInv => RequestsAddUp
  BY DEF IInv
<1> QED
  BY <1>1, Invariance, PTL

\* A goal that is met was met by the requests and readings of one trial.
THEOREM GoalsAreEarned == Spec => []GoalMetIsEarned
<1>1. IInv => GoalMetIsEarned
  BY DEF IInv
<1> QED
  BY <1>1, Invariance, PTL

\* A closed port-forward leaves no request and no unnoticed thread behind.
THEOREM QuietWhenClosed == Spec => []NothingOutlivesTheForward
<1>1. IInv => NothingOutlivesTheForward
  BY DEF IInv
<1> QED
  BY <1>1, Invariance, PTL

\* Cancellation lets at most one more request through.
THEOREM CancellationIsPrompt == Spec => []OneRequestIsLate
<1>1. IInv => OneRequestIsLate
  BY DEF IInv
<1> QED
  BY <1>1, Invariance, PTL

-----------------------------------------------------------------------------
(* The safety half of PilotEnds.                                             *)

\* The places of the main thread in the order of one attempt; what follows a
\* request is the next one, with another index.
Position ==
  [pick |-> 0, forward |-> 1, health |-> 2, start |-> 3, next |-> 4, wait |-> 5, collect |-> 6,
   decide |-> 7, drain |-> 8, leave |-> 8, join |-> 9, joincancelled |-> 9, judge |-> 11,
   cancelled |-> 11, failed |-> 12, begin |-> 13, ended |-> 14]

Within == Position[pc] + IF Joining /\ stopping THEN 1 ELSE 0

\* Each step of the main thread begins another attempt, or takes up another
\* request, or goes on within this one - the sleeping, the drain and the join
\* have no step that leads back.  Attempts and requests are bounded (TypeOK),
\* and so is the number of steps.
THEOREM MainAdvances ==
  Spec => [][Main => \/ attempt < attempt'
                     \/ UNCHANGED attempt /\ index < index'
                     \/ UNCHANGED <<attempt, index>> /\ Within < Within']_vars
<1> DEFINE Advances == \/ attempt < attempt'
                       \/ UNCHANGED attempt /\ index < index'
                       \/ UNCHANGED <<attempt, index>> /\ Within < Within'
<1>1. IInv /\ Main => Advances
  <2> SUFFICES ASSUME IInv, Main PROVE Advances
    OBVIOUS
  <2>0. attempt \in Nat /\ index \in Nat
    BY Assumptions DEF IInv, TypeOK, TypeCounts
  <2> USE DEF Goto, Position, Within, Joining
  <2>1. CASE BeginAttempt
    <3>1. CASE attempt' = attempt + 1
      BY <2>0, <3>1
    <3>2. CASE attempt' # attempt + 1
      BY <2>1, <3>2 DEF BeginAttempt, trial
    <3> QED
      BY <3>1, <3>2
  <2>2. CASE PickPod \/ OpenForward \/ CheckHealth \/ StartLoad
    <3>1. CASE PickPod
      <4>1. pc = "pick" /\ pc' \in {"forward", "failed", "ended"} /\ UNCHANGED <<attempt, index>>
        BY <3>1 DEF PickPod, pilot, trial
      <4> QED
        BY <4>1
    <3>2. CASE OpenForward
      BY <3>2 DEF OpenForward, pilot
    <3>3. CASE CheckHealth
      BY <3>3 DEF CheckHealth, pilot
    <3>4. CASE StartLoad
      BY <3>4 DEF StartLoad, pilot
    <3> QED
      BY <2>2, <3>1, <3>2, <3>3, <3>4
  <2>3. CASE NextRequest \/ Sleep \/ Overdue \/ CollectDone
    BY <2>3 DEF NextRequest, Sleep, Overdue, CollectDone, pilot, trial
  <2>4. CASE Drop \/ Submit
    BY <2>0, <2>4 DEF Drop, Submit, pilot
  <2>5. CASE Drain \/ LeavePool
    BY <2>5 DEF Drain, LeavePool, pilot, trial
  <2>6. CASE SetStop
    BY <2>6 DEF SetStop, pilot, trial
  <2>7. CASE Join
    BY <2>7 DEF Join, pilot
  <2>8. CASE Judge \/ RecordFailure \/ Cancelled
    BY <2>8 DEF Judge, Conclude, RecordFailure, Cancelled, trial
  <2> QED
    BY <2>1, <2>2, <2>3, <2>4, <2>5, <2>6, <2>7, <2>8 DEF Main, Load
<1>2. IInv /\ [Next]_vars => [Main => Advances]_vars
  BY <1>1
<1> QED
  BY <1>2, Invariance, PTL DEF Spec
=============================================================================
