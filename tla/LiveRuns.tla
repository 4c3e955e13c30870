------------------------------ MODULE LiveRuns ------------------------------
(***************************************************************************)
(* interfaces/chart_jobs.py and interfaces/live_jobs.py under one          *)
(* serve_history (interfaces/web.py): two job managers, each with a        *)
(* one-thread executor, that share the history and one run lock.  HTTP     *)
(* handler threads prepare and approve jobs; the main thread closes the    *)
(* managers while handlers and workers go on.                              *)
(*                                                                         *)
(* A manifest stands for what the digests of a review cover: the rendered  *)
(* manifest, the chart and the plan.                                       *)
(***************************************************************************)
EXTENDS Naturals

CONSTANTS
  ChartJobs, LiveJobs,   \* the jobs of each manager
  Manifests,             \* manifests a chart can render to
  Matched,               \* the hard-stop rules each of them matches
  Overridable,           \* OVERRIDABLE_HOST_RULES
  None

ASSUME JobsAssumption == ChartJobs \cap LiveJobs = {}
ASSUME RulesAssumption == DOMAIN Matched = Manifests

VARIABLES
  status,      \* of a job; "absent" and "preparing" are not in _jobs yet
  directory,   \* its temporary directory
  review,      \* the manifest of its preview, and the live job's load_error
  approval,    \* operator_approval.scope_sha256
  queue,       \* submitted work of each executor
  worker,      \* where each executor's thread is
  job,         \* what it works on
  runLock,     \* holder of the shared run lock
  ran,         \* the manifest a job handed to run_runtime
  imported,    \* its final bundle in the history
  main         \* serve_history's finally block

reviews == <<review, approval>>
workers == <<worker, job, runLock>>
results == <<ran, imported>>
vars == <<status, directory, reviews, queue, workers, results, main>>

Jobs == ChartJobs \cup LiveJobs
Managers == {"chart", "live"}
ASSUME NoneAssumption == None \notin ChartJobs \cup LiveJobs \cup Manifests \cup Managers

ManagerOf(j) == IF j \in ChartJobs THEN "chart" ELSE "live"
JobsOf(m) == IF m = "chart" THEN ChartJobs ELSE LiveJobs

Active == {"queued", "running"}
Settled == {"completed", "error"}
InCluster == {"run", "import"}
Closing == main # "serving"

-----------------------------------------------------------------------------
(* core/safety.py                                                            *)

\* decide_local_admission
Admitted(m) == Matched[m] = {}

\* approval_scope_sha256, where one is offered.
Scope(m) == IF Matched[m] # {} /\ Matched[m] \subseteq Overridable THEN m ELSE None

Init ==
  /\ status = [j \in Jobs |-> "absent"]
  /\ directory = [j \in Jobs |-> "none"]
  /\ review = [j \in Jobs |-> [manifest |-> None, loadError |-> FALSE]]
  /\ approval = [j \in Jobs |-> None]
  /\ queue = [m \in Managers |-> {}]
  /\ worker = [m \in Managers |-> "idle"] /\ job = [m \in Managers |-> None]
  /\ runLock = None
  /\ ran = [j \in Jobs |-> None] /\ imported = [j \in Jobs |-> "none"]
  /\ main = "serving"

SetStatus(j, to) == status' = [status EXCEPT ![j] = to]
SetDirectory(j, to) == directory' = [directory EXCEPT ![j] = to]
Step(m, to) == worker' = [worker EXCEPT ![m] = to]

-----------------------------------------------------------------------------
(* HTTP handlers.                                                            *)

\* A valid submission gets a directory and a static preview.
BeginPrepare(j) ==
  /\ status[j] = "absent"
  /\ SetStatus(j, "preparing") /\ SetDirectory(j, "present")
  /\ UNCHANGED <<reviews, queue, workers, results, main>>

EndPrepare(j) ==
  /\ status[j] = "preparing"
  /\ \/ /\ \E m \in Manifests, e \in BOOLEAN :
             /\ j \in ChartJobs => ~e
             /\ review' = [review EXCEPT ![j] = [manifest |-> m, loadError |-> e]]
        /\ SetStatus(j, "prepared") /\ UNCHANGED directory
     \/ SetStatus(j, "absent") /\ SetDirectory(j, "none") /\ UNCHANGED review
  /\ UNCHANGED <<approval, queue, workers, results, main>>

\* ChartJobManager.approve: the operator's scope is required or refused.
ChartApproval(j, scope) ==
  /\ j \in ChartJobs
  /\ IF Admitted(review[j].manifest)
     THEN scope = None
     ELSE Scope(review[j].manifest) # None /\ scope = Scope(review[j].manifest)
  /\ approval' = [approval EXCEPT ![j] = scope]

\* LiveJobManager.approve takes admitted charts only.
LiveApproval(j, scope) ==
  /\ j \in LiveJobs /\ scope = None
  /\ Admitted(review[j].manifest) /\ ~review[j].loadError
  /\ UNCHANGED approval

NoOtherActive(j) ==
  \A other \in JobsOf(ManagerOf(j)) : status[other] \notin Active

Accepts(m) ==
  IF m = "live" THEN main \in {"serving", "server_close"}
  ELSE main \in {"serving", "server_close", "live_shutdown", "live_closed"}

Approvable(j) == status[j] = "prepared"

\* Under _lock: the status is queued before submit, which raises after shutdown.
Approve(j, digest, scope) ==
  /\ Approvable(j) /\ NoOtherActive(j)
  /\ digest = review[j].manifest
  /\ ChartApproval(j, scope) \/ LiveApproval(j, scope)
  /\ SetStatus(j, "queued")
  /\ queue' = IF Accepts(ManagerOf(j)) THEN [queue EXCEPT ![ManagerOf(j)] = @ \cup {j}] ELSE queue
  /\ UNCHANGED <<directory, review, workers, results, main>>

-----------------------------------------------------------------------------
(* The workers: _run.                                                        *)

Dequeue(m) ==
  /\ worker[m] = "idle"
  /\ \E j \in queue[m] : /\ job' = [job EXCEPT ![m] = j]
                         /\ queue' = [queue EXCEPT ![m] = @ \ {j}]
  /\ Step(m, "lock")
  /\ UNCHANGED <<status, directory, reviews, runLock, results, main>>

\* Slip: each manager makes a lock of its own.
SlipAcquire(m) ==
  /\ worker[m] = "lock"
  /\ runLock' = m /\ Step(m, "start")
  /\ UNCHANGED <<status, directory, reviews, queue, job, results, main>>

\* Slip: the lock is tried once.
SlipTryAcquire(m) ==
  /\ worker[m] = "lock"
  /\ IF runLock = None THEN runLock' = m /\ Step(m, "start") /\ UNCHANGED job
     ELSE UNCHANGED runLock /\ Step(m, "idle") /\ job' = [job EXCEPT ![m] = None]
  /\ UNCHANGED <<status, directory, reviews, queue, results, main>>

Acquire(m) ==
  /\ worker[m] = "lock" /\ runLock = None
  /\ runLock' = m /\ Step(m, "start")
  /\ UNCHANGED <<status, directory, reviews, queue, job, results, main>>

MarkRunning(m) ==
  /\ worker[m] = "start"
  /\ SetStatus(job[m], "running") /\ Step(m, "render")
  /\ UNCHANGED <<directory, reviews, queue, job, runLock, results, main>>

\* Slip: whatever renders now is run.
SlipRender(m) ==
  /\ worker[m] = "render"
  /\ \E rendered \in Manifests :
       ran' = [ran EXCEPT ![job[m]] = rendered] /\ Step(m, "run")
  /\ UNCHANGED <<status, directory, reviews, queue, job, runLock, imported, main>>

\* inspect_chart renders again: the digest, then the approval's scope.
Render(m) ==
  /\ worker[m] = "render"
  /\ \/ \E rendered \in Manifests :
          /\ rendered = review[job[m]].manifest
          /\ approval[job[m]] # None => approval[job[m]] = Scope(rendered)
          /\ Admitted(rendered) \/ approval[job[m]] # None
          /\ ran' = [ran EXCEPT ![job[m]] = rendered] /\ Step(m, "run")
     \/ Step(m, "failed") /\ UNCHANGED ran
  /\ UNCHANGED <<status, directory, reviews, queue, job, runLock, imported, main>>

\* run_runtime, the evaluation and the sealed bundle: see RuntimeLifecycle.
Run(m) ==
  /\ worker[m] = "run"
  /\ Step(m, "import") \/ Step(m, "failed")
  /\ UNCHANGED <<status, directory, reviews, queue, job, runLock, results, main>>

\* history.import_bundle: stored and indexed, only stored, or neither.
Import(m) ==
  /\ worker[m] = "import"
  /\ \/ imported' = [imported EXCEPT ![job[m]] = "indexed"] /\ Step(m, "succeeded")
     \/ imported' = [imported EXCEPT ![job[m]] = "stored"] /\ Step(m, "failed")
     \/ UNCHANGED imported /\ Step(m, "failed")
  /\ UNCHANGED <<status, directory, reviews, queue, job, runLock, ran, main>>

\* except and else
Settle(m) ==
  /\ worker[m] \in {"succeeded", "failed"}
  /\ SetStatus(job[m], IF worker[m] = "succeeded" THEN "completed" ELSE "error")
  /\ Step(m, "cleanup")
  /\ UNCHANGED <<directory, reviews, queue, job, runLock, results, main>>

\* finally: directory.cleanup()
CleanUp(m) ==
  /\ worker[m] = "cleanup"
  /\ SetDirectory(job[m], "removed") /\ Step(m, "release")
  /\ UNCHANGED <<status, reviews, queue, job, runLock, results, main>>

Release(m) ==
  /\ worker[m] = "release"
  /\ runLock' = None /\ job' = [job EXCEPT ![m] = None] /\ Step(m, "idle")
  /\ UNCHANGED <<status, directory, reviews, queue, results, main>>

Worker(m) ==
  \/ Dequeue(m) \/ Acquire(m) \/ MarkRunning(m) \/ Render(m) \/ Run(m)
  \/ Import(m) \/ Settle(m) \/ CleanUp(m) \/ Release(m)

-----------------------------------------------------------------------------
(* serve_history's finally: server_close, live.close, chart.close.           *)

ServerClose ==
  /\ main = "serving" /\ main' = "server_close"
  /\ UNCHANGED <<status, directory, reviews, queue, workers, results>>

\* shutdown(wait=False, cancel_futures=True), without _lock.
Shutdown(m, from, to) ==
  /\ main = from /\ main' = to
  /\ queue' = [queue EXCEPT ![m] = {}]
  /\ UNCHANGED <<status, directory, reviews, workers, results>>

\* Slip: only the job in the cluster is spared.
SlipSpared == {"running"}

\* The jobs whose directory close leaves to their worker.
Spared == Active

\* Under _lock.
CloseDirectories(m, from, to) ==
  /\ main = from /\ main' = to
  /\ directory' = [j \in Jobs |->
       IF j \in JobsOf(m) /\ status[j] \notin Spared \cup {"absent", "preparing"}
       THEN "removed" ELSE directory[j]]
  /\ UNCHANGED <<status, reviews, queue, workers, results>>

Close ==
  \/ ServerClose
  \/ Shutdown("live", "server_close", "live_shutdown")
  \/ CloseDirectories("live", "live_shutdown", "live_closed")
  \/ Shutdown("chart", "live_closed", "chart_shutdown")
  \/ CloseDirectories("chart", "chart_shutdown", "closed")

Terminated ==
  /\ main = "closed" /\ \A m \in Managers : worker[m] = "idle"
  /\ UNCHANGED vars

Handler ==
  \E j \in Jobs :
    \/ BeginPrepare(j) \/ EndPrepare(j)
    \/ \E digest \in Manifests, scope \in Manifests \cup {None} : Approve(j, digest, scope)

Next == Handler \/ (\E m \in Managers : Worker(m)) \/ Close \/ Terminated

\* Each worker is a thread of its own and every call it makes ends.
Fairness == \A m \in Managers : WF_vars(Worker(m))

Spec == Init /\ [][Next]_vars /\ Fairness

-----------------------------------------------------------------------------
(* Properties.                                                               *)

TypeOK ==
  /\ status \in [Jobs -> {"absent", "preparing", "prepared"} \cup Active \cup Settled]
  /\ directory \in [Jobs -> {"none", "present", "removed"}]
  /\ review \in [Jobs -> [manifest : Manifests \cup {None}, loadError : BOOLEAN]]
  /\ approval \in [Jobs -> Manifests \cup {None}]
  /\ queue \in [Managers -> SUBSET Jobs]
  /\ worker \in [Managers -> {"idle", "lock", "start", "render", "run", "import",
                              "succeeded", "failed", "cleanup", "release"}]
  /\ job \in [Managers -> Jobs \cup {None}]
  /\ runLock \in Managers \cup {None}
  /\ ran \in [Jobs -> Manifests \cup {None}]
  /\ imported \in [Jobs -> {"none", "stored", "indexed"}]
  /\ main \in {"serving", "server_close", "live_shutdown", "live_closed",
               "chart_shutdown", "closed"}

\* One local run at a time, over both managers: no two clusters, and no two
\* imports, of one server exist at once.
OneRunAtATime ==
  \A m, n \in Managers : worker[m] \in InCluster /\ worker[n] \in InCluster => m = n

\* One approved run at a time in each manager: at most one job is queued or
\* running, although a job settles before its worker is free again.
OneActiveJob ==
  \A m \in Managers : \A i, j \in JobsOf(m) : status[i] \in Active /\ status[j] \in Active => i = j

\* What reached the cluster is what was reviewed, and what an operator had to
\* accept was accepted for exactly that.
ReviewedRuns ==
  \A j \in Jobs : ran[j] # None =>
    /\ ran[j] = review[j].manifest
    /\ Matched[ran[j]] # {} => Matched[ran[j]] \subseteq Overridable /\ approval[j] = ran[j]
    /\ j \in LiveJobs => Matched[ran[j]] = {} /\ ~review[j].loadError

\* A worker finds its job's chart in place until its bundle is imported, however
\* approve and the two steps of close interleave, and a job that has settled
\* keeps its directory no longer than its worker is at it.
DirectoryLifetime ==
  /\ \A m \in Managers : worker[m] \in {"render"} \cup InCluster => directory[job[m]] = "present"
  /\ \A j \in Jobs : status[j] \in Settled /\ (\A m \in Managers : job[m] # j) =>
       directory[j] = "removed"

\* What the proofs need besides: who holds the run lock, what the worker's job
\* looks like at each step, and which directories close has not reached yet.
Holding == {"start", "render", "run", "import", "succeeded", "failed", "cleanup", "release"}

WorkerInv ==
  \A m \in Managers :
    /\ worker[m] \in Holding => runLock = m
    /\ worker[m] = "idle" <=> job[m] = None
    /\ worker[m] # "idle" => job[m] \in JobsOf(m)
    /\ worker[m] \in {"lock", "start"} => status[job[m]] = "queued"
    /\ worker[m] \in {"render", "run", "import", "succeeded", "failed"} =>
         status[job[m]] = "running"
    /\ worker[m] \in {"cleanup", "release"} => status[job[m]] \in Settled
    /\ worker[m] \notin {"idle", "cleanup", "release"} => directory[job[m]] = "present"
    /\ worker[m] = "release" => directory[job[m]] = "removed"

QueueInv ==
  /\ \A m \in Managers : \A j \in queue[m] :
       j \in JobsOf(m) /\ status[j] = "queued" /\ job[m] # j /\ directory[j] = "present"
  /\ \A m \in Managers : \A j \in JobsOf(m) :
       status[j] = "preparing" \/ (status[j] = "prepared" /\ Accepts(m)) => directory[j] = "present"

ReviewInv ==
  \A j \in Jobs :
    /\ status[j] \notin {"absent", "preparing"} => review[j].manifest # None
    /\ status[j] \in {"absent", "preparing", "prepared"} => ran[j] = None /\ approval[j] = None
    /\ j \in LiveJobs /\ status[j] \in Active =>
         Admitted(review[j].manifest) /\ ~review[j].loadError
    /\ j \in LiveJobs => approval[j] = None

IInv ==
  TypeOK /\ WorkerInv /\ QueueInv /\ ReviewInv /\ OneActiveJob /\ ReviewedRuns /\ DirectoryLifetime

\* A job settles once: no later approval, run or shutdown changes its answer.
SettledForGood ==
  [][\A j \in Jobs : status[j] \in Settled => status'[j] = status[j]]_vars

\* A job that was accepted while the server ran settles, unless it is closed.
Served ==
  \A j \in Jobs : status[j] = "queued" ~> (status[j] \in Settled \/ Closing)
=============================================================================
