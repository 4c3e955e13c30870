--------------------------- MODULE LiveRunsProofs ---------------------------
(***************************************************************************)
(* One run at a time, on what was reviewed, in a directory that is there:  *)
(* for any number of jobs and manifests, and whenever the server is closed.*)
(***************************************************************************)
EXTENDS LiveRuns, TLAPS

\* Every job has one manager, and None is no job.
LEMMA Managing ==
  /\ \A j \in Jobs : ManagerOf(j) \in Managers /\ j \in JobsOf(ManagerOf(j))
  /\ \A m \in Managers : JobsOf(m) \subseteq Jobs
  /\ \A m \in Managers : \A j \in JobsOf(m) : ManagerOf(j) = m
  /\ None \notin Jobs /\ None \notin Manifests
  /\ None \notin Managers
BY JobsAssumption, NoneAssumption DEF Managers, ManagerOf, JobsOf, Jobs

\* At the start there are no jobs and nobody holds the lock.
LEMMA InitIInv == Init => IInv
<1> SUFFICES ASSUME Init PROVE IInv
  OBVIOUS
<1> USE Managing DEF Init
<1>1. TypeOK
  BY DEF TypeOK
<1>2. WorkerInv
  BY DEF WorkerInv, Holding
<1>3. QueueInv
  BY DEF QueueInv
<1>4. ReviewInv
  BY DEF ReviewInv, Active, Jobs
<1>5. OneActiveJob
  BY DEF OneActiveJob, Active
<1>6. ReviewedRuns
  BY DEF ReviewedRuns
<1>7. DirectoryLifetime
  BY DEF DirectoryLifetime, InCluster, Settled
<1> QED
  BY <1>1, <1>2, <1>3, <1>4, <1>5, <1>6, <1>7 DEF IInv


\* A submission gets its directory.
LEMMA BeginPrepareStep ==
  ASSUME IInv, NEW j \in Jobs, BeginPrepare(j)
  PROVE  IInv'
<1> USE Managing DEF IInv, BeginPrepare, SetStatus, SetDirectory, reviews, workers, results
<1>1. TypeOK'
  BY DEF TypeOK, Active, Settled
<1>2. WorkerInv'
  BY DEF TypeOK, WorkerInv, QueueInv, Holding, Settled
<1>3. QueueInv'
  BY DEF TypeOK, QueueInv, WorkerInv, Accepts, Active, Settled
<1>4. ReviewInv'
  BY DEF TypeOK, ReviewInv, WorkerInv, Active, Settled
<1>5. OneActiveJob'
  BY DEF TypeOK, OneActiveJob, WorkerInv, Active, Settled
<1>6. ReviewedRuns'
  BY DEF TypeOK, ReviewedRuns, ReviewInv, WorkerInv, Active, Scope, Admitted
<1>7. DirectoryLifetime'
  BY DEF TypeOK, DirectoryLifetime, WorkerInv, InCluster, Settled, Active
<1> QED
  BY <1>1, <1>2, <1>3, <1>4, <1>5, <1>6, <1>7

\* A preview registers the job, or its directory goes.
LEMMA EndPrepareStep ==
  ASSUME IInv, NEW j \in Jobs, EndPrepare(j)
  PROVE  IInv'
<1> USE Managing DEF IInv, EndPrepare, SetStatus, SetDirectory, reviews, workers, results
<1>1. TypeOK'
  <2>1. review' \in [Jobs -> [manifest : Manifests \cup {None}, loadError : BOOLEAN]]
    <3>1. CASE review' = review
      BY <3>1 DEF TypeOK
    <3>2. CASE \E r \in [manifest : Manifests, loadError : BOOLEAN] : review' = [review EXCEPT ![j] = r]
      BY <3>2 DEF TypeOK
    <3>3. QED
      BY <3>1, <3>2
  <2>2. QED
    BY <2>1 DEF TypeOK, Active, Settled
<1>2. WorkerInv'
  <2>1. \A m \in Managers : worker[m] # "idle" => job[m] \in Jobs /\ job[m] # j
    BY DEF TypeOK, WorkerInv, Settled, JobsOf, Jobs
  <2>2. \A k \in Jobs : k # j => status'[k] = status[k] /\ directory'[k] = directory[k]
    BY DEF TypeOK
  <2>3. UNCHANGED <<worker, job, runLock>> /\ WorkerInv
    OBVIOUS
  <2> HIDE DEF IInv, EndPrepare
  <2> QED
    BY <2>1, <2>2, <2>3 DEF WorkerInv
<1>3. QueueInv'
  <2>1. /\ \A k \in Jobs : k # j => status'[k] = status[k] /\ directory'[k] = directory[k]
        /\ status'[j] = "absent" \/ (status'[j] = "prepared" /\ directory'[j] = "present")
    BY DEF TypeOK, QueueInv
  <2>2. QED
    BY <2>1 DEF QueueInv, Accepts
<1>4. ReviewInv'
  BY DEF TypeOK, ReviewInv, WorkerInv, Active, Settled
<1>5. OneActiveJob'
  <2>1. \A k \in Jobs : status'[k] \in Active => status[k] \in Active
    BY DEF TypeOK, Active
  <2>2. OneActiveJob
    OBVIOUS
  <2> HIDE DEF IInv, EndPrepare
  <2> QED
    BY <2>1, <2>2 DEF OneActiveJob, JobsOf, Jobs
<1>6. ReviewedRuns'
  <2>1. \A k \in Jobs : ran[k] # None => k # j
    BY DEF ReviewInv
  <2>2. \A k \in Jobs : k # j => review'[k] = review[k]
    BY DEF TypeOK
  <2>3. QED
    BY <2>1, <2>2 DEF ReviewedRuns
<1>7. DirectoryLifetime'
  BY DEF TypeOK, DirectoryLifetime, WorkerInv, InCluster, Settled, Active
<1> QED
  BY <1>1, <1>2, <1>3, <1>4, <1>5, <1>6, <1>7

\* An approval queues a reviewed job.
LEMMA ApproveStep ==
  ASSUME IInv, NEW j \in Jobs, NEW digest, NEW scope \in Manifests \cup {None}, Approve(j, digest, scope)
  PROVE  IInv'
<1> USE Managing DEF IInv, Approve, Approvable, NoOtherActive, ChartApproval, LiveApproval, SetStatus, workers, results
<1>1. TypeOK'
  BY DEF TypeOK, Active, Settled
<1>2. WorkerInv'
  BY DEF TypeOK, WorkerInv, QueueInv, Holding, Settled
<1>3. QueueInv'
  BY DEF TypeOK, QueueInv, WorkerInv, Accepts, Active, Settled
<1>4. ReviewInv'
  <2>1. \A k \in Jobs : k # j => status'[k] = status[k] /\ approval'[k] = approval[k]
    BY DEF TypeOK
  <2>2. status'[j] = "queued" /\ review[j].manifest # None
    BY DEF TypeOK, ReviewInv
  <2>3. j \in LiveJobs => /\ Admitted(review[j].manifest) /\ ~review[j].loadError
                          /\ approval'[j] = None
    BY JobsAssumption DEF ReviewInv
  <2>4. QED
    BY <2>1, <2>2, <2>3 DEF ReviewInv, Active
<1>5. OneActiveJob'
  BY DEF TypeOK, OneActiveJob, WorkerInv, Active, Settled
<1>6. ReviewedRuns'
  BY DEF TypeOK, ReviewedRuns, ReviewInv, WorkerInv, Active, Scope, Admitted
<1>7. DirectoryLifetime'
  BY DEF TypeOK, DirectoryLifetime, WorkerInv, InCluster, Settled, Active
<1> QED
  BY <1>1, <1>2, <1>3, <1>4, <1>5, <1>6, <1>7

\* A worker takes a queued job.
LEMMA DequeueStep ==
  ASSUME IInv, NEW m \in Managers, Dequeue(m)
  PROVE  IInv'
<1> USE Managing DEF IInv, Dequeue, Step, reviews, results
<1>1. TypeOK'
  BY DEF TypeOK, Active, Settled
<1>2. WorkerInv'
  BY DEF TypeOK, WorkerInv, QueueInv, Holding, Settled
<1>3. QueueInv'
  BY DEF TypeOK, QueueInv, WorkerInv, Accepts, Active, Settled
<1>4. ReviewInv'
  BY DEF TypeOK, ReviewInv, WorkerInv, Active, Settled
<1>5. OneActiveJob'
  BY DEF TypeOK, OneActiveJob, WorkerInv, Active, Settled
<1>6. ReviewedRuns'
  BY DEF TypeOK, ReviewedRuns, ReviewInv, WorkerInv, Active, Scope, Admitted
<1>7. DirectoryLifetime'
  BY DEF TypeOK, DirectoryLifetime, WorkerInv, InCluster, Settled, Active
<1> QED
  BY <1>1, <1>2, <1>3, <1>4, <1>5, <1>6, <1>7

\* It gets the run lock.
LEMMA AcquireStep ==
  ASSUME IInv, NEW m \in Managers, Acquire(m)
  PROVE  IInv'
<1> USE Managing DEF IInv, Acquire, Step, reviews, results
<1>1. TypeOK'
  BY DEF TypeOK, Active, Settled
<1>2. WorkerInv'
  BY DEF TypeOK, WorkerInv, QueueInv, Holding, Settled
<1>3. QueueInv'
  BY DEF TypeOK, QueueInv, WorkerInv, Accepts, Active, Settled
<1>4. ReviewInv'
  BY DEF TypeOK, ReviewInv, WorkerInv, Active, Settled
<1>5. OneActiveJob'
  BY DEF TypeOK, OneActiveJob, WorkerInv, Active, Settled
<1>6. ReviewedRuns'
  BY DEF TypeOK, ReviewedRuns, ReviewInv, WorkerInv, Active, Scope, Admitted
<1>7. DirectoryLifetime'
  BY DEF TypeOK, DirectoryLifetime, WorkerInv, InCluster, Settled, Active
<1> QED
  BY <1>1, <1>2, <1>3, <1>4, <1>5, <1>6, <1>7

\* It marks the job running.
LEMMA MarkRunningStep ==
  ASSUME IInv, NEW m \in Managers, MarkRunning(m)
  PROVE  IInv'
<1> USE Managing DEF IInv, MarkRunning, Step, SetStatus, reviews, results
<1>1. TypeOK'
  BY DEF TypeOK, Active, Settled
<1>2. WorkerInv'
  BY DEF TypeOK, WorkerInv, QueueInv, Holding, Settled
<1>3. QueueInv'
  BY DEF TypeOK, QueueInv, WorkerInv, Accepts, Active, Settled
<1>4. ReviewInv'
  BY DEF TypeOK, ReviewInv, WorkerInv, Active, Settled
<1>5. OneActiveJob'
  BY DEF TypeOK, OneActiveJob, WorkerInv, Active, Settled
<1>6. ReviewedRuns'
  BY DEF TypeOK, ReviewedRuns, ReviewInv, WorkerInv, Active, Scope, Admitted
<1>7. DirectoryLifetime'
  BY DEF TypeOK, DirectoryLifetime, WorkerInv, InCluster, Settled, Active
<1> QED
  BY <1>1, <1>2, <1>3, <1>4, <1>5, <1>6, <1>7

\* It renders the chart again.
LEMMA RenderStep ==
  ASSUME IInv, NEW m \in Managers, Render(m)
  PROVE  IInv'
<1> USE Managing DEF IInv, Render, Step, reviews
<1>1. TypeOK'
  BY DEF TypeOK, Active, Settled
<1>2. WorkerInv'
  BY DEF TypeOK, WorkerInv, QueueInv, Holding, Settled
<1>3. QueueInv'
  BY DEF TypeOK, QueueInv, WorkerInv, Accepts, Active, Settled
<1>4. ReviewInv'
  BY DEF TypeOK, ReviewInv, WorkerInv, Active, Settled
<1>5. OneActiveJob'
  BY DEF TypeOK, OneActiveJob, WorkerInv, Active, Settled
<1>6. ReviewedRuns'
  BY DEF TypeOK, ReviewedRuns, ReviewInv, WorkerInv, Active, Scope, Admitted
<1>7. DirectoryLifetime'
  BY DEF TypeOK, DirectoryLifetime, WorkerInv, InCluster, Settled, Active
<1> QED
  BY <1>1, <1>2, <1>3, <1>4, <1>5, <1>6, <1>7

\* It runs the evaluation.
LEMMA RunStep ==
  ASSUME IInv, NEW m \in Managers, Run(m)
  PROVE  IInv'
<1> USE Managing DEF IInv, Run, Step, reviews, results
<1>1. TypeOK'
  BY DEF TypeOK, Active, Settled
<1>2. WorkerInv'
  BY DEF TypeOK, WorkerInv, QueueInv, Holding, Settled
<1>3. QueueInv'
  BY DEF TypeOK, QueueInv, WorkerInv, Accepts, Active, Settled
<1>4. ReviewInv'
  BY DEF TypeOK, ReviewInv, WorkerInv, Active, Settled
<1>5. OneActiveJob'
  BY DEF TypeOK, OneActiveJob, WorkerInv, Active, Settled
<1>6. ReviewedRuns'
  BY DEF TypeOK, ReviewedRuns, ReviewInv, WorkerInv, Active, Scope, Admitted
<1>7. DirectoryLifetime'
  BY DEF TypeOK, DirectoryLifetime, WorkerInv, InCluster, Settled, Active
<1> QED
  BY <1>1, <1>2, <1>3, <1>4, <1>5, <1>6, <1>7

\* It imports the bundle.
LEMMA ImportStep ==
  ASSUME IInv, NEW m \in Managers, Import(m)
  PROVE  IInv'
<1> USE Managing DEF IInv, Import, Step, reviews
<1>1. TypeOK'
  <2>1. imported' \in [Jobs -> {"none", "stored", "indexed"}]
    <3>1. PICK o \in {"none", "stored", "indexed"} :
            imported' = [imported EXCEPT ![job[m]] = o] \/ imported' = imported
      OBVIOUS
    <3>2. QED
      BY <3>1 DEF TypeOK
  <2>2. QED
    BY <2>1 DEF TypeOK
<1>2. WorkerInv'
  BY DEF TypeOK, WorkerInv, QueueInv, Holding, Settled
<1>3. QueueInv'
  BY DEF TypeOK, QueueInv, WorkerInv, Accepts, Active, Settled
<1>4. ReviewInv'
  BY DEF TypeOK, ReviewInv, WorkerInv, Active, Settled
<1>5. OneActiveJob'
  BY DEF TypeOK, OneActiveJob, WorkerInv, Active, Settled
<1>6. ReviewedRuns'
  BY DEF TypeOK, ReviewedRuns, ReviewInv, WorkerInv, Active, Scope, Admitted
<1>7. DirectoryLifetime'
  BY DEF TypeOK, DirectoryLifetime, WorkerInv, InCluster, Settled, Active
<1> QED
  BY <1>1, <1>2, <1>3, <1>4, <1>5, <1>6, <1>7

\* It settles the job.
LEMMA SettleStep ==
  ASSUME IInv, NEW m \in Managers, Settle(m)
  PROVE  IInv'
<1> USE Managing DEF IInv, Settle, Step, SetStatus, reviews, results
<1>1. TypeOK'
  BY DEF TypeOK, Active, Settled
<1>2. WorkerInv'
  BY DEF TypeOK, WorkerInv, QueueInv, Holding, Settled
<1>3. QueueInv'
  BY DEF TypeOK, QueueInv, WorkerInv, Accepts, Active, Settled
<1>4. ReviewInv'
  BY DEF TypeOK, ReviewInv, WorkerInv, Active, Settled
<1>5. OneActiveJob'
  BY DEF TypeOK, OneActiveJob, WorkerInv, Active, Settled
<1>6. ReviewedRuns'
  BY DEF TypeOK, ReviewedRuns, ReviewInv, WorkerInv, Active, Scope, Admitted
<1>7. DirectoryLifetime'
  BY DEF TypeOK, DirectoryLifetime, WorkerInv, InCluster, Settled, Active
<1> QED
  BY <1>1, <1>2, <1>3, <1>4, <1>5, <1>6, <1>7

\* It removes the directory.
LEMMA CleanUpStep ==
  ASSUME IInv, NEW m \in Managers, CleanUp(m)
  PROVE  IInv'
<1> USE Managing DEF IInv, CleanUp, Step, SetDirectory, reviews, results
<1>1. TypeOK'
  BY DEF TypeOK, Active, Settled
<1>2. WorkerInv'
  BY DEF TypeOK, WorkerInv, QueueInv, Holding, Settled
<1>3. QueueInv'
  <2>1. status[job[m]] \in Settled
    BY DEF WorkerInv
  <2>2. \A k \in Jobs : k # job[m] => directory'[k] = directory[k]
    BY DEF TypeOK
  <2>3. QED
    BY <2>1, <2>2 DEF QueueInv, Accepts, Settled
<1>4. ReviewInv'
  BY DEF TypeOK, ReviewInv, WorkerInv, Active, Settled
<1>5. OneActiveJob'
  BY DEF TypeOK, OneActiveJob, WorkerInv, Active, Settled
<1>6. ReviewedRuns'
  BY DEF TypeOK, ReviewedRuns, ReviewInv, WorkerInv, Active, Scope, Admitted
<1>7. DirectoryLifetime'
  BY DEF TypeOK, DirectoryLifetime, WorkerInv, InCluster, Settled, Active
<1> QED
  BY <1>1, <1>2, <1>3, <1>4, <1>5, <1>6, <1>7

\* It releases the run lock.
LEMMA ReleaseStep ==
  ASSUME IInv, NEW m \in Managers, Release(m)
  PROVE  IInv'
<1> USE Managing DEF IInv, Release, Step, reviews, results
<1>1. TypeOK'
  BY DEF TypeOK, Active, Settled
<1>2. WorkerInv'
  BY DEF TypeOK, WorkerInv, QueueInv, Holding, Settled
<1>3. QueueInv'
  BY DEF TypeOK, QueueInv, WorkerInv, Accepts, Active, Settled
<1>4. ReviewInv'
  BY DEF TypeOK, ReviewInv, WorkerInv, Active, Settled
<1>5. OneActiveJob'
  BY DEF TypeOK, OneActiveJob, WorkerInv, Active, Settled
<1>6. ReviewedRuns'
  BY DEF TypeOK, ReviewedRuns, ReviewInv, WorkerInv, Active, Scope, Admitted
<1>7. DirectoryLifetime'
  BY DEF TypeOK, DirectoryLifetime, WorkerInv, InCluster, Settled, Active
<1> QED
  BY <1>1, <1>2, <1>3, <1>4, <1>5, <1>6, <1>7

\* The executor drops what is queued.
LEMMA ShutdownStep ==
  ASSUME IInv, NEW m \in Managers, NEW from, NEW to, Shutdown(m, from, to),
         <<m, from, to>> \in {<<"live", "server_close", "live_shutdown">>, <<"chart", "live_closed", "chart_shutdown">>}
  PROVE  IInv'
<1> USE Managing DEF IInv, Shutdown, reviews, workers, results
<1>1. TypeOK'
  BY DEF TypeOK, Active, Settled
<1>2. WorkerInv'
  BY DEF TypeOK, WorkerInv, QueueInv, Holding, Settled
<1>3. QueueInv'
  BY DEF TypeOK, QueueInv, WorkerInv, Accepts, Active, Settled
<1>4. ReviewInv'
  BY DEF TypeOK, ReviewInv, WorkerInv, Active, Settled
<1>5. OneActiveJob'
  BY DEF TypeOK, OneActiveJob, WorkerInv, Active, Settled
<1>6. ReviewedRuns'
  BY DEF TypeOK, ReviewedRuns, ReviewInv, WorkerInv, Active, Scope, Admitted
<1>7. DirectoryLifetime'
  BY DEF TypeOK, DirectoryLifetime, WorkerInv, InCluster, Settled, Active
<1> QED
  BY <1>1, <1>2, <1>3, <1>4, <1>5, <1>6, <1>7

\* close removes the directories nobody needs.
LEMMA CloseDirectoriesStep ==
  ASSUME IInv, NEW m \in Managers, NEW from, NEW to, CloseDirectories(m, from, to),
         <<m, from, to>> \in {<<"live", "live_shutdown", "live_closed">>, <<"chart", "chart_shutdown", "closed">>}
  PROVE  IInv'
<1> USE Managing DEF IInv, CloseDirectories, Spared, reviews, workers, results
<1>1. TypeOK'
  BY DEF TypeOK, Active, Settled
<1>2. WorkerInv'
  BY DEF TypeOK, WorkerInv, QueueInv, Holding, Settled
<1>3. QueueInv'
  BY DEF TypeOK, QueueInv, WorkerInv, Accepts, Active, Settled
<1>4. ReviewInv'
  BY DEF TypeOK, ReviewInv, WorkerInv, Active, Settled
<1>5. OneActiveJob'
  BY DEF TypeOK, OneActiveJob, WorkerInv, Active, Settled
<1>6. ReviewedRuns'
  BY DEF TypeOK, ReviewedRuns, ReviewInv, WorkerInv, Active, Scope, Admitted
<1>7. DirectoryLifetime'
  BY DEF TypeOK, DirectoryLifetime, WorkerInv, InCluster, Settled, Active
<1> QED
  BY <1>1, <1>2, <1>3, <1>4, <1>5, <1>6, <1>7

\* Every step preserves the invariant.
LEMMA NextIInv == IInv /\ [Next]_vars => IInv'
<1> SUFFICES ASSUME IInv, [Next]_vars PROVE IInv'
  OBVIOUS
<1>1. CASE Handler
  BY <1>1, BeginPrepareStep, EndPrepareStep, ApproveStep DEF Handler
<1>2. CASE \E m \in Managers : Worker(m)
  BY <1>2, DequeueStep, AcquireStep, MarkRunningStep, RenderStep, RunStep, ImportStep, SettleStep,
     CleanUpStep, ReleaseStep
  DEF Worker
<1>3. CASE Close
  <2>1. CASE ServerClose
    BY <2>1 DEF ServerClose, reviews, workers, results, IInv, TypeOK, WorkerInv, QueueInv, Accepts,
       ReviewInv, OneActiveJob, ReviewedRuns, DirectoryLifetime
  <2>2. "live" \in Managers /\ "chart" \in Managers
    BY DEF Managers
  <2>3. CASE Shutdown("live", "server_close", "live_shutdown")
    BY <2>2, <2>3, ShutdownStep
  <2>4. CASE CloseDirectories("live", "live_shutdown", "live_closed")
    BY <2>2, <2>4, CloseDirectoriesStep
  <2>5. CASE Shutdown("chart", "live_closed", "chart_shutdown")
    BY <2>2, <2>5, ShutdownStep
  <2>6. CASE CloseDirectories("chart", "chart_shutdown", "closed")
    BY <2>2, <2>6, CloseDirectoriesStep
  <2>7. QED
    BY <1>3, <2>1, <2>3, <2>4, <2>5, <2>6 DEF Close
<1>4. CASE UNCHANGED vars
  BY <1>4 DEF vars, reviews, workers, results, IInv, TypeOK, WorkerInv, QueueInv, Accepts,
     ReviewInv, OneActiveJob, ReviewedRuns, DirectoryLifetime
<1> QED
  BY <1>1, <1>2, <1>3, <1>4 DEF Next, Terminated

-----------------------------------------------------------------------------

\* The inductive invariant holds in every reachable state.
THEOREM Invariance == Spec => []IInv
BY InitIInv, NextIInv, PTL DEF Spec

\* Every variable keeps its type.
THEOREM TypeCorrect == Spec => []TypeOK
<1>1. IInv => TypeOK
  BY DEF IInv
<1> QED
  BY <1>1, Invariance, PTL

\* The shared lock keeps the two executors apart: one cluster, one import.
THEOREM Exclusive == Spec => []OneRunAtATime
<1>1. IInv => OneRunAtATime
  BY DEF IInv, WorkerInv, OneRunAtATime, Holding, InCluster
<1> QED
  BY <1>1, Invariance, PTL

\* approve admits one job of a manager at a time.
THEOREM OneActive == Spec => []OneActiveJob
<1>1. IInv => OneActiveJob
  BY DEF IInv
<1> QED
  BY <1>1, Invariance, PTL

\* Only what was reviewed, and approved where it must be, reaches a cluster.
THEOREM Reviewed == Spec => []ReviewedRuns
<1>1. IInv => ReviewedRuns
  BY DEF IInv
<1> QED
  BY <1>1, Invariance, PTL

\* close never takes a directory from a worker, and no settled job keeps one.
THEOREM Directories == Spec => []DirectoryLifetime
<1>1. IInv => DirectoryLifetime
  BY DEF IInv
<1> QED
  BY <1>1, Invariance, PTL

\* The answer of a job is final.
THEOREM Final == Spec => SettledForGood
<1>1. ASSUME IInv, [Next]_vars, NEW j \in Jobs, status[j] \in Settled
      PROVE  status'[j] = status[j]
  <2> USE Managing DEF IInv, TypeOK, Settled, SetStatus
  <2>1. CASE Handler
    BY <1>1, <2>1 DEF Handler, BeginPrepare, EndPrepare, Approve, Approvable
  <2>2. CASE \E m \in Managers : Worker(m)
    BY <1>1, <2>2 DEF WorkerInv, Worker, Dequeue, Acquire, MarkRunning, Render, Run, Import, Settle,
       CleanUp, Release
  <2>3. CASE Close \/ UNCHANGED vars
    BY <2>3 DEF Close, ServerClose, Shutdown, CloseDirectories, vars
  <2>4. QED
    BY <1>1, <2>1, <2>2, <2>3 DEF Next, Terminated
<1>2. IInv /\ [Next]_vars =>
        [\A j \in Jobs : status[j] \in Settled => status'[j] = status[j]]_vars
  BY <1>1
<1> QED
  BY <1>2, Invariance, PTL DEF Spec, SettledForGood

-----------------------------------------------------------------------------
(* The safety half of Served.                                                *)

\* While the server serves, an approved job is in its manager's queue or with
\* its manager's worker; and the run lock, when held, is held by a worker that
\* is past it.
Kept ==
  /\ ~Closing => \A j \in Jobs : status[j] \in Active =>
       j \in queue[ManagerOf(j)] \/ job[ManagerOf(j)] = j
  /\ runLock # None => worker[runLock] \in Holding

LEMMA KeptStep ==
  ASSUME IInv, Kept, [Next]_vars
  PROVE  Kept'
<1> USE Managing, NoneAssumption DEF Kept, Closing, SetStatus, SetDirectory, Step, Active, Settled, Holding,
        reviews, workers, results
<1>0. TypeOK /\ WorkerInv /\ QueueInv
  BY DEF IInv
<1>1. CASE Handler
  <2>1. PICK j \in Jobs :
          \/ BeginPrepare(j) \/ EndPrepare(j)
          \/ \E digest \in Manifests, scope \in Manifests \cup {None} : Approve(j, digest, scope)
    BY <1>1 DEF Handler
  <2>2. CASE BeginPrepare(j) \/ EndPrepare(j)
    BY <1>0, <2>2 DEF BeginPrepare, EndPrepare, TypeOK
  <2>3. CASE \E digest \in Manifests, scope \in Manifests \cup {None} : Approve(j, digest, scope)
    BY <1>0, <2>3 DEF Approve, Accepts, ManagerOf, TypeOK
  <2> QED
    BY <2>1, <2>2, <2>3
<1>2. ASSUME NEW m \in Managers, Worker(m) PROVE Kept'
  <2>1. CASE Dequeue(m)
    BY <1>0, <2>1 DEF Dequeue, WorkerInv, QueueInv, TypeOK, ManagerOf, JobsOf
  <2>2. CASE Acquire(m)
    BY <1>0, <2>2 DEF Acquire, TypeOK
  <2>3. CASE MarkRunning(m)
    BY <1>0, <2>3 DEF MarkRunning, WorkerInv, TypeOK
  <2>4. CASE Render(m) \/ Run(m) \/ Import(m)
    BY <1>0, <2>4 DEF Render, Run, Import, WorkerInv, TypeOK
  <2>5. CASE Settle(m)
    BY <1>0, <2>5 DEF Settle, WorkerInv, TypeOK
  <2>6. CASE CleanUp(m)
    BY <1>0, <2>6 DEF CleanUp, WorkerInv, TypeOK
  <2>7. CASE Release(m)
    BY <1>0, <2>7 DEF Release, WorkerInv, TypeOK
  <2> QED
    BY <1>2, <2>1, <2>2, <2>3, <2>4, <2>5, <2>6, <2>7 DEF Worker
<1>3. CASE Close \/ Terminated \/ UNCHANGED vars
  BY <1>3 DEF Close, ServerClose, Shutdown, CloseDirectories, Terminated, vars
<1> QED
  BY <1>1, <1>2, <1>3 DEF Next

\* No approved job is lost while the server serves, and a worker that waits for
\* the run lock waits for a worker that will release it: the two managers'
\* threads never wait for each other.
THEOREM NoJobIsLost == Spec => []Kept
<1>1. Init => Kept
  BY DEF Init, Kept, Active
<1>2. IInv /\ Kept /\ [Next]_vars => Kept'
  BY KeptStep
<1> QED
  BY <1>1, <1>2, Invariance, PTL DEF Spec
=============================================================================
