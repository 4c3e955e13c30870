---------------------------- MODULE ServiceProbe ----------------------------
(***************************************************************************)
(* The HTTP service probe: HttpServiceExperiment.run                        *)
(* (execution/http_service.py) and run_service_probe                        *)
(* (execution/service_probe.py), which runs one Job in the product's        *)
(* namespace and reads its Pod's log.  A call that creates or deletes the   *)
(* Job can fail without having been carried out, be carried out and then    *)
(* fail, or (the creation) be carried out after the caller gave up.         *)
(***************************************************************************)
EXTENDS Naturals

VARIABLES
  probe,      \* where run and run_service_probe are
  result,     \* what run ended with
  creating,   \* a creation that timed out may still be carried out
  job,        \* the Job of this probe
  pod,        \* its Pod
  triggered   \* cancel_if()

probeVars == <<probe, result>>
jobVars == <<creating, job, pod>>
serviceVars == <<probeVars, jobVars, triggered>>

ProbeEnded == probe = "ended"

ProbeInit ==
  /\ probe = "ask" /\ result = "none"
  /\ creating = FALSE /\ job = "absent" /\ pod = "none"
  /\ triggered = FALSE

\* Leave run without and run_service_probe with a Job that may exist.
EndWith(outcome) == probe' = "ended" /\ result' = outcome
DeleteWith(outcome) == probe' = "delete" /\ result' = outcome

\* run: cancellation is asked for, and the live Service has to be readable,
\* valid and select what the reviewed one selected.
AskExperiment ==
  /\ probe = "ask"
  /\ IF triggered THEN EndWith("unsafe")
     ELSE \/ probe' = "askagain" /\ UNCHANGED result
          \/ EndWith("infrastructure_failure")
  /\ UNCHANGED <<jobVars, triggered>>

\* run_service_probe: cancellation again, the Service again.
AskProbe ==
  /\ probe = "askagain"
  /\ IF triggered THEN EndWith("unsafe")
     ELSE \/ probe' = "create" /\ UNCHANGED result
          \/ EndWith("infrastructure_failure")
  /\ UNCHANGED <<jobVars, triggered>>

\* creation_attempted is set before the call.
CreateJob ==
  /\ probe = "create"
  /\ \/ job' = "running" /\ probe' = "poll" /\ UNCHANGED <<creating, result>>
     \/ /\ DeleteWith("infrastructure_failure")
        /\ \/ job' \in {"absent", "running"} /\ UNCHANGED creating
           \/ creating' = TRUE /\ UNCHANGED job
  /\ UNCHANGED <<pod, triggered>>

\* Every two seconds for 180: cancellation, then the status of the Job.
Poll ==
  /\ probe = "poll"
  /\ IF triggered THEN DeleteWith("unsafe")
     ELSE \/ job = "succeeded" /\ probe' = "collect" /\ UNCHANGED result
          \/ DeleteWith("infrastructure_failure")
  /\ UNCHANGED <<jobVars, triggered>>

\* The log of the Job's Pod: no Pod, no log or no JSON, or a result.
CollectLog ==
  /\ probe = "collect"
  /\ \/ /\ pod = "done"
        /\ probe' = "accept" /\ UNCHANGED result
     \/ DeleteWith("infrastructure_failure")
  /\ UNCHANGED <<jobVars, triggered>>

\* Cancellation once more; validate_result and the schema; the confirmed limits.
AcceptResult ==
  /\ probe = "accept"
  /\ IF triggered THEN DeleteWith("unsafe")
     ELSE DeleteWith("measured") \/ DeleteWith("infrastructure_failure")
  /\ UNCHANGED <<jobVars, triggered>>

\* The finally block: background deletion, whose failure is suppressed.
DeleteJob ==
  /\ probe = "delete"
  /\ job' \in {job, "absent"}
  /\ probe' = "ended"
  /\ UNCHANGED <<result, creating, pod, triggered>>

Probe ==
  AskExperiment \/ AskProbe \/ CreateJob \/ Poll \/ CollectLog \/ AcceptResult \/ DeleteJob

-----------------------------------------------------------------------------
(* The cluster's part: the Job controller, garbage collection, the manifest's *)
(* deadline and time to live.                                                 *)

CreateLands ==
  /\ creating
  /\ creating' = FALSE
  /\ job' \in {job, "running"}
  /\ UNCHANGED <<probeVars, pod, triggered>>

StartPod ==
  /\ job = "running" /\ pod = "none"
  /\ pod' = "running"
  /\ UNCHANGED <<probeVars, creating, job, triggered>>

FinishPod ==
  /\ job = "running" /\ pod = "running"
  /\ pod' = "done" /\ job' \in {"succeeded", "failed"}
  /\ UNCHANGED <<probeVars, creating, triggered>>

\* activeDeadlineSeconds: the Job fails and its Pod is removed.
JobDeadline ==
  /\ job = "running"
  /\ job' = "failed" /\ pod' = "none"
  /\ UNCHANGED <<probeVars, creating, triggered>>

\* Slip: a manifest without ttlSecondsAfterFinished.
SlipJobExpires == FALSE /\ UNCHANGED serviceVars

\* ttlSecondsAfterFinished.
JobExpires ==
  /\ job \in {"succeeded", "failed"}
  /\ job' = "absent"
  /\ UNCHANGED <<probeVars, creating, pod, triggered>>

\* The Pod of a Job that is gone.
CollectPod ==
  /\ job = "absent" /\ pod # "none"
  /\ pod' = "none"
  /\ UNCHANGED <<probeVars, creating, job, triggered>>

\* What the API server, the Job controller and the collector do in the end.
Cleanup == CreateLands \/ JobDeadline \/ JobExpires \/ CollectPod

JobController == StartPod \/ FinishPod \/ Cleanup

Trigger ==
  /\ ~triggered
  /\ triggered' = TRUE
  /\ UNCHANGED <<probeVars, jobVars>>

\* The cluster carries out what the manifest says, some day.
ProbeFairness == WF_serviceVars(Cleanup)

-----------------------------------------------------------------------------
ServiceTypeOK ==
  /\ probe \in {"ask", "askagain", "create", "poll", "collect", "accept", "delete", "ended"}
  /\ result \in {"none", "measured", "unsafe", "infrastructure_failure"}
  /\ creating \in BOOLEAN /\ triggered \in BOOLEAN
  /\ job \in {"absent", "running", "succeeded", "failed"}
  /\ pod \in {"none", "running", "done"}

\* The probe leaves no Job and no Pod in the product's namespace, even
\* when its creation is carried out after the deletion, or the deletion fails
\* unnoticed (the finally block of run_service_probe and the manifest's limits).
NothingIsLeft == ProbeEnded ~> (job = "absent" /\ pod = "none" /\ ~creating)
=============================================================================
