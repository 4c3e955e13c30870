------------------------------ MODULE CpuTrial ------------------------------
(***************************************************************************)
(* The CPU trial: execution/cpu_worker.py (CpuLoadWorker.execute and its   *)
(* sampler thread), benchmarks/cpu_http/load.py (run_load and its pool) and *)
(* the retried pilot of execution/cpu_live.py.  The main thread schedules   *)
(* requests through a port-forward, a sampler thread polls Pods and metrics *)
(* beside it, pool threads carry the requests, the Pod may go and the       *)
(* safety monitor may ask for cancellation at any time.                     *)
(*                                                                         *)
(* Requests are counted, not named.  A CPU reading is a level and whether   *)
(* the metrics server took it since the load of this trial started, which   *)
(* is what comparing its timestamp with started_at tells apart.  Throughput *)
(* and latency together are one choice, whether they meet the goal.         *)
(***************************************************************************)
EXTENDS Naturals, Sequences

CONSTANTS
  Requests,      \* requests of one trial
  MaxInFlight,   \* max_in_flight of run_load
  MaxFailed,     \* failed requests that the goal allows
  MaxLevel,      \* CPU level that the goal allows
  Levels,        \* CPU levels a scrape can show
  Attempts       \* min(MAX_EXECUTION_ATTEMPTS, max_tool_calls)

ASSUME LoadAssumption == Requests \in Nat \ {0} /\ MaxInFlight \in Nat \ {0} /\ MaxFailed \in Nat
ASSUME LevelsAssumption == Levels \subseteq Nat /\ MaxLevel \in Nat
ASSUME AttemptsAssumption == Attempts \in Nat \ {0}

VARIABLES
  pc,          \* the main thread
  attempt,     \* trials begun
  records,     \* statuses of the trials that left a record
  outcome,     \* of the pilot
  target,      \* the Pod of the trial is still there, under its uid
  scraped,     \* what the metrics server last read of it
  triggered,   \* cancel_if()
  forward,     \* the port-forward runs
  loading,     \* started_at has passed
  index,       \* requests considered by run_load
  sent,        \* sent
  flying,      \* submitted requests that have no result
  landed,      \* results of done futures that run_load has not collected
  results,     \* results
  late,        \* requests sent after the cancellation was asked for
  sampler,     \* where the sampler thread is
  stopping,    \* its stop event
  error,       \* its error
  samples,     \* its samples
  measured     \* the measurement of the last completed trial

trial == <<forward, loading, index, sent, flying, landed, results, late>>
sampling == <<sampler, stopping, error, samples>>
cluster == <<target, scraped, triggered>>
pilot == <<attempt, records, outcome, measured>>
vars == <<pc, pilot, cluster, trial, sampling>>

Tally == [ok : Nat, failed : Nat]
NoResults == [ok |-> 0, failed |-> 0]
Scrape == [fresh : BOOLEAN, level : Levels]
NoScrape == [fresh |-> FALSE, level |-> 0]
NoMeasurement == [failed |-> 0, peak |-> 0, met |-> FALSE]

\* completed futures that run_load still counts, and the others
InFlight == flying + landed.ok + landed.failed
Dropped == Requests - sent

Goto(to) == pc' = to

Init ==
  /\ pc = "begin" /\ attempt = 0 /\ records = <<>> /\ outcome = "none"
  /\ target = FALSE /\ scraped = NoScrape /\ triggered = FALSE
  /\ forward = FALSE /\ loading = FALSE
  /\ index = 0 /\ sent = 0 /\ flying = 0 /\ landed = NoResults /\ results = NoResults /\ late = 0
  /\ sampler = "none" /\ stopping = FALSE /\ error = FALSE /\ samples = {}
  /\ measured = NoMeasurement

-----------------------------------------------------------------------------
(* The pilot and the way into a trial.                                       *)

\* The elapsed-time budget is asked before each attempt; execute then asks
\* for cancellation.  A sampler that was left behind keeps its own lists.
BeginAttempt ==
  /\ pc = "begin"
  /\ IF attempt = Attempts
     THEN Goto("ended") /\ outcome' = "blocked" /\ UNCHANGED <<attempt, trial, sampling>>
     ELSE \/ attempt > 0 /\ Goto("ended") /\ outcome' = "blocked"
             /\ UNCHANGED <<attempt, trial, sampling>>
          \/ /\ attempt' = attempt + 1
             /\ IF triggered THEN Goto("ended") /\ outcome' = "unsafe"
                             ELSE Goto("pick") /\ UNCHANGED outcome
             /\ loading' = FALSE /\ index' = 0 /\ sent' = 0 /\ flying' = 0
             /\ landed' = NoResults /\ results' = NoResults
             /\ sampler' = "none" /\ stopping' = FALSE /\ error' = FALSE /\ samples' = {}
             /\ UNCHANGED <<forward, late>>
  /\ UNCHANGED <<records, measured, cluster>>

\* A ready Pod, of which the metrics server knows something or nothing yet, or
\* a KubernetesError: none is there or ready.  A transport error of the client
\* is no KubernetesError: it leaves the pilot, without a record.
PickPod ==
  /\ pc = "pick"
  /\ \/ /\ target' = TRUE
        /\ scraped' \in {NoScrape} \cup [fresh : {FALSE}, level : Levels]
        /\ Goto("forward") /\ UNCHANGED outcome
     \/ Goto("failed") /\ UNCHANGED <<outcome, target, scraped>>
     \/ Goto("ended") /\ outcome' = "raised" /\ UNCHANGED <<target, scraped>>
  /\ UNCHANGED <<attempt, records, measured, triggered, trial, sampling>>

\* kubectl prints its port, or exits, or says nothing for 30 seconds.
OpenForward ==
  /\ pc = "forward"
  /\ \/ forward' = TRUE /\ Goto("health")
     \/ UNCHANGED forward /\ Goto("failed")
  /\ UNCHANGED <<pilot, cluster, sampling, loading, index, sent, flying, landed, results, late>>

\* GET /healthz; on success the sampler thread is started.
CheckHealth ==
  /\ pc = "health"
  /\ \/ target /\ sampler' = "check" /\ Goto("start") /\ UNCHANGED forward
     \/ forward' = FALSE /\ Goto("failed") /\ UNCHANGED sampler
  /\ UNCHANGED <<pilot, cluster, stopping, error, samples, loading, index, sent, flying, landed, results, late>>

-----------------------------------------------------------------------------
(* run_load.                                                                 *)

StartLoad ==
  /\ pc = "start"
  /\ loading' = TRUE
  /\ Goto("next")
  /\ UNCHANGED <<pilot, cluster, sampling, forward, index, sent, flying, landed, results, late>>

\* Slip: only a request that has to wait asks for cancellation.
SlipNextRequest ==
  /\ pc = "next"
  /\ IF index = Requests THEN Goto("drain") ELSE Goto("wait")
  /\ UNCHANGED <<pilot, cluster, trial, sampling>>

\* for index in range(requests): cancellation is asked for first.
NextRequest ==
  /\ pc = "next"
  /\ Goto(IF index = Requests THEN "drain" ELSE IF triggered THEN "leave" ELSE "wait")
  /\ UNCHANGED <<pilot, cluster, trial, sampling>>

\* A request that is not yet due sleeps in slices and asks after each.
Sleep ==
  /\ pc = "wait"
  /\ Goto(IF triggered THEN "leave" ELSE "collect")
  /\ UNCHANGED <<pilot, cluster, trial, sampling>>

\* One that is due or overdue does not.
Overdue ==
  /\ pc = "wait"
  /\ Goto("collect")
  /\ UNCHANGED <<pilot, cluster, trial, sampling>>

\* Slip: done futures are forgotten with their results.
SlipCollectDone ==
  /\ pc = "collect"
  /\ landed' = NoResults
  /\ Goto("decide")
  /\ UNCHANGED <<pilot, cluster, sampling, forward, loading, index, sent, flying, results, late>>

\* Results of done futures move from in_flight to results.
CollectDone ==
  /\ pc = "collect"
  /\ results' = [ok |-> results.ok + landed.ok, failed |-> results.failed + landed.failed]
  /\ landed' = NoResults
  /\ Goto("decide")
  /\ UNCHANGED <<pilot, cluster, sampling, forward, loading, index, sent, flying, late>>

\* Full: the request is not sent.  Futures done since the collection count.
Drop ==
  /\ pc = "decide" /\ InFlight >= MaxInFlight
  /\ index' = index + 1
  /\ Goto("next")
  /\ UNCHANGED <<pilot, cluster, sampling, forward, loading, sent, flying, landed, results, late>>

Submit ==
  /\ pc = "decide" /\ InFlight < MaxInFlight
  /\ index' = index + 1 /\ sent' = sent + 1 /\ flying' = flying + 1
  /\ late' = IF triggered THEN late + 1 ELSE late
  /\ Goto("next")
  /\ UNCHANGED <<pilot, cluster, sampling, forward, loading, landed, results>>

\* as_completed: every future that is left.
Drain ==
  /\ pc = "drain" /\ flying = 0
  /\ results' = [ok |-> results.ok + landed.ok, failed |-> results.failed + landed.failed]
  /\ landed' = NoResults
  /\ Goto("join")
  /\ UNCHANGED <<pilot, cluster, sampling, forward, loading, index, sent, flying, late>>

\* Slip: LoadCancelled leaves the pool without waiting for its threads.
SlipLeavePool ==
  /\ pc = "leave"
  /\ Goto("joincancelled")
  /\ UNCHANGED <<pilot, cluster, trial, sampling>>

\* LoadCancelled: leaving the pool waits for its threads.
LeavePool ==
  /\ pc = "leave" /\ flying = 0
  /\ Goto("joincancelled")
  /\ UNCHANGED <<pilot, cluster, trial, sampling>>

\* A pool thread ends a request, which succeeds only at a Pod that is there.
Land ==
  /\ flying > 0
  /\ flying' = flying - 1
  /\ \/ target /\ forward /\ landed' = [landed EXCEPT !.ok = @ + 1]
     \/ landed' = [landed EXCEPT !.failed = @ + 1]
  /\ UNCHANGED <<pc, pilot, cluster, sampling, forward, loading, index, sent, results, late>>

-----------------------------------------------------------------------------
(* The way out: sampler.stop(), the port-forward, and the judgement.         *)

Joining == pc \in {"join", "joincancelled"}

SetStop ==
  /\ Joining /\ ~stopping
  /\ stopping' = TRUE
  /\ UNCHANGED <<pc, pilot, cluster, trial, sampler, error, samples>>

\* Slip: the thread is joined without a time-out.
SlipJoinForever ==
  /\ Joining /\ stopping /\ sampler = "ended"
  /\ forward' = FALSE
  /\ Goto(IF pc = "join" THEN "judge" ELSE "cancelled")
  /\ UNCHANGED <<pilot, cluster, sampling, loading, index, sent, flying, landed, results, late>>

\* The thread has ended, or 20 seconds have passed; the forward is then closed.
Join ==
  /\ Joining /\ stopping
  /\ \/ sampler = "ended" /\ UNCHANGED error
     \/ sampler # "ended" /\ error' = TRUE
  /\ forward' = FALSE
  /\ Goto(IF pc = "join" THEN "judge" ELSE "cancelled")
  /\ UNCHANGED <<pilot, cluster, sampler, stopping, samples, loading, index, sent, flying, landed, results, late>>

Fresh == {s \in samples : s.fresh}

\* The measurement of a trial is compared with the goal and the pilot ends.
Conclude(readings) ==
  \E peak \in {s.level : s \in readings}, fast \in BOOLEAN :
    LET failed == results.failed + Dropped
        met == fast /\ failed <= MaxFailed /\ peak <= MaxLevel
    IN  /\ \A s \in readings : s.level <= peak
        /\ measured' = [failed |-> failed, peak |-> peak, met |-> met]
        /\ records' = Append(records, "completed")
        /\ outcome' = IF met THEN "goal_met" ELSE "inconclusive"
        /\ Goto("ended")

\* Slip: the samples from the start of the load to its end count, or all if
\* there are none.
SlipJudge ==
  /\ pc = "judge"
  /\ IF error \/ samples = {}
     THEN Goto("failed") /\ UNCHANGED <<records, outcome, measured>>
     ELSE Conclude(IF Fresh = {} THEN samples ELSE Fresh)
  /\ UNCHANGED <<attempt, cluster, trial, sampling>>

\* A trial with a sampler error or no fresh sample is none.
Judge ==
  /\ pc = "judge"
  /\ IF error \/ Fresh = {}
     THEN Goto("failed") /\ UNCHANGED <<records, outcome, measured>>
     ELSE Conclude(Fresh)
  /\ UNCHANGED <<attempt, cluster, trial, sampling>>

\* TrialInfrastructureError: recorded, and tried again.
RecordFailure ==
  /\ pc = "failed"
  /\ records' = Append(records, "infrastructure_failure")
  /\ Goto("begin")
  /\ UNCHANGED <<attempt, outcome, measured, cluster, trial, sampling>>

\* UnsafeWorkloadError: it leaves the pilot without a record.
Cancelled ==
  /\ pc = "cancelled"
  /\ outcome' = "unsafe"
  /\ Goto("ended")
  /\ UNCHANGED <<attempt, records, measured, cluster, trial, sampling>>

-----------------------------------------------------------------------------
(* The sampler thread.                                                       *)

SamplerLoop ==
  /\ sampler = "check"
  /\ sampler' = IF stopping THEN "ended" ELSE "pods"
  /\ UNCHANGED <<pc, pilot, cluster, trial, stopping, error, samples>>

\* The Pods are listed and the uid compared; a call that fails is an error, too.
PollPods ==
  /\ sampler = "pods"
  /\ \/ target /\ sampler' = "metrics" /\ UNCHANGED error
     \/ sampler' = "ended" /\ error' = TRUE
  /\ UNCHANGED <<pc, pilot, cluster, trial, stopping, samples>>

\* The metrics name no such Pod or no usage, or they give a sample, maybe one
\* that was read before.
PollMetrics ==
  /\ sampler = "metrics"
  /\ \/ sampler' = "check" /\ UNCHANGED <<error, samples>>
     \/ /\ scraped # NoScrape
        /\ samples' = samples \cup {scraped}
        /\ sampler' = "check" /\ UNCHANGED error
     \/ sampler' = "ended" /\ error' = TRUE /\ UNCHANGED samples
  /\ UNCHANGED <<pc, pilot, cluster, trial, stopping>>

-----------------------------------------------------------------------------
(* The cluster and the safety monitor.                                       *)

Running == pc # "ended"

\* The metrics server reads the Pod again.
ScrapePod ==
  /\ Running /\ target
  /\ \E level \in Levels : scraped' = [fresh |-> loading, level |-> level]
  /\ scraped' # scraped
  /\ UNCHANGED <<pc, pilot, trial, sampling, target, triggered>>

\* The Pod goes; another one has another uid.
PodGoes ==
  /\ Running /\ target
  /\ target' = FALSE
  /\ UNCHANGED <<pc, pilot, trial, sampling, scraped, triggered>>

Trigger ==
  /\ Running /\ ~triggered
  /\ triggered' = TRUE
  /\ UNCHANGED <<pc, pilot, trial, sampling, target, scraped>>

Load ==
  StartLoad \/ NextRequest \/ Sleep \/ Overdue \/ CollectDone \/ Drop \/ Submit \/ Drain \/ LeavePool

Main ==
  \/ BeginAttempt \/ PickPod \/ OpenForward \/ CheckHealth
  \/ Load
  \/ SetStop \/ Join \/ Judge \/ RecordFailure \/ Cancelled

Sampler == SamplerLoop \/ PollPods \/ PollMetrics

Environment == Trigger \/ ScrapePod \/ PodGoes

Terminated == pc = "ended" /\ UNCHANGED vars

Next == Main \/ Land \/ Sampler \/ Environment \/ Terminated

\* Every call of the main thread and every request has a time-out.  Nothing
\* makes the sampler thread, the Pods or the monitor move.
Spec == Init /\ [][Next]_vars /\ WF_vars(Main) /\ WF_vars(Land)
-----------------------------------------------------------------------------
(* Properties.                                                               *)

TypePlaces ==
  /\ pc \in {"begin", "pick", "forward", "health", "start", "next", "wait", "collect", "decide",
            "drain", "leave", "join", "joincancelled", "judge", "failed", "cancelled", "ended"}
  /\ sampler \in {"none", "check", "pods", "metrics", "ended"}
  /\ outcome \in {"none", "goal_met", "inconclusive", "blocked", "unsafe", "raised"}
  /\ target \in BOOLEAN /\ triggered \in BOOLEAN /\ forward \in BOOLEAN
  /\ loading \in BOOLEAN /\ stopping \in BOOLEAN /\ error \in BOOLEAN

TypeCounts ==
  /\ attempt \in 0 .. Attempts
  /\ index \in 0 .. Requests /\ sent \in Nat /\ flying \in Nat /\ late \in Nat
  /\ landed \in Tally /\ results \in Tally

TypeReadings ==
  /\ scraped \in Scrape \cup {NoScrape}
  /\ samples \subseteq Scrape
  /\ records \in Seq({"infrastructure_failure", "completed"})
  /\ measured \in [failed : Nat, peak : Levels \cup {0}, met : BOOLEAN]

TypeOK == TypePlaces /\ TypeCounts /\ TypeReadings

\* Every request considered is accounted for once, whenever its thread ends:
\* in flight, done and not collected, a result, or not sent because
\* max_in_flight were; never are more in flight, and what a judged load
\* reports adds up to its requests (run_load and LoadSummary).
RequestsAddUp ==
  /\ sent = InFlight + results.ok + results.failed
  /\ sent <= index
  /\ InFlight <= MaxInFlight
  /\ pc \in {"join", "judge"} => index = Requests /\ results.ok + results.failed + Dropped = Requests

\* A goal is met only by a load of which all but the allowed failures (dropped
\* requests are failures) succeeded at one Pod, beside a sampler that ended
\* without an error and read that Pod during this load, not an earlier one,
\* never above the allowed level (execute, meets_goal).
GoalMetIsEarned ==
  outcome = "goal_met" =>
    /\ results.ok + MaxFailed >= Requests
    /\ sampler = "ended" /\ ~error
    /\ Fresh # {}
    /\ \A s \in Fresh : s.level <= MaxLevel

\* No request of a trial is left once its port-forward is closed, so none of
\* them runs into the next attempt, and a sampler thread that is left is an
\* error of the trial (the with and finally blocks of execute and run_load).
NothingOutlivesTheForward ==
  ~forward => /\ flying = 0
              /\ sampler \in {"none", "ended"} \/ error

\* However overdue the schedule is, at most one request is still sent after
\* the safety monitor asks for cancellation, over all attempts, and none
\* begins a trial (cancel_if in run_load and execute).
OneRequestIsLate ==
  /\ late <= 1
  /\ late = 1 => pc \notin {"pick", "forward", "health", "start", "wait", "collect", "decide"}

\* The pilot ends, though the sampler thread may hang and the Pod be gone: the
\* requests time out, join gives up, the attempts are bounded.
PilotEnds == <>(pc = "ended")
=============================================================================
