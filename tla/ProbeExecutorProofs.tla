------------------------- MODULE ProbeExecutorProofs -------------------------
(***************************************************************************)
(* Proofs about ProbeExecutor for every number of tasks and every set of   *)
(* valid plans.  The argument: what is recorded is never written again and *)
(* a stopped run stays stopped (StepFacts), so what one read of the        *)
(* dictionaries or of stop() established still holds when the main thread  *)
(* acts on it; IInv collects what it established.                          *)
(***************************************************************************)
EXTENDS ProbeExecutor, FiniteSetTheorems, WellFoundedInduction, TLAPS

\* A valid plan is a plan, field by field.
LEMMA PlanFields ==
  ASSUME NEW p \in Plans
  PROVE  /\ p.depends_on \in [Task -> SUBSET Task]
         /\ p.when \in [Task -> {"completed", "passed", "failed"}]
         /\ p.capability \in [Task -> Capabilities]
         /\ p.service \in [Task -> Services]
         /\ p.max_parallel_tasks \in 1..4
BY PlansAssumption DEF ValidPlan, PlanType

\* The initial state has the type of the variables.
LEMMA InitTypeOK == Init => TypeOK
<1> SUFFICES ASSUME Init PROVE TypeOK
  OBVIOUS
<1>1. cursor \in 1..N + 1
  BY NAssumption DEF Init
<1> QED BY <1>1 DEF Init, TypeOK

\* RefusedResult builds results.
LEMMA RefusedResultType ==
  ASSUME TypeOK PROVE RefusedResult \in Result
BY DEF TypeOK, RefusedResult, Result, ExecutionStatus, Assessment, TaskState

\* Ran builds results out of a status and an assessment.
LEMMA RanType ==
  ASSUME NEW s \in ExecutionStatus, NEW a \in Assessment
  PROVE  Ran(s, a) \in Result
BY DEF Ran, Result, ExecutionStatus, Assessment, TaskState

\* A probe's verdicts are assessments.
LEMMA VerdictsType == ASSUME NEW t PROVE Verdicts(t) \subseteq {"pass", "fail", "unsettled"}
BY DEF Verdicts

\* Each operation keeps the types of the variables.
LEMMA NextTypeOK == IInv /\ [Next]_vars => TypeOK'
<1> SUFFICES ASSUME IInv, [Next]_vars PROVE TypeOK'
  OBVIOUS
<1> TypeOK /\ RefusalInv
  BY DEF IInv
<1> USE NAssumption DEF TypeOK, Task
<1>1. CASE MonitorMatches \/ MonitorFails \/ Expire
  <2>1. CASE MonitorMatches  BY <2>1 DEF MonitorMatches, main
  <2>2. CASE MonitorFails    BY <2>2 DEF MonitorFails, main
  <2>3. CASE Expire          BY <2>3 DEF Expire, main
  <2> QED BY <1>1, <2>1, <2>2, <2>3
<1>2. CASE Main
  <2> USE <1>2 DEF Main, environment
  <2>1. CASE ScanPast \/ ScanDefer
    <3>1. cursor \in Task /\ cursor' = cursor + 1
      BY <2>1 DEF ScanPast, ScanDefer, Scanning
    <3>2. cursor' \in 1..N + 1
      BY <3>1
    <3> QED BY <2>1, <3>2 DEF ScanPast, ScanDefer
  <2>2. CASE ScanRefuse \/ ClassifyRefusal \/ WriteRefusedCheck
    <3>1. CASE ScanRefuse  BY <3>1 DEF ScanRefuse
    <3>2. CASE ClassifyRefusal
      <4>1. (Stop /\ InfrastructureError) \in BOOLEAN
        OBVIOUS
      <4> QED BY <3>2, <4>1 DEF ClassifyRefusal
    <3>3. CASE WriteRefusedCheck
      <4>1. (Stop /\ ~draft.infrastructure) \in BOOLEAN
        OBVIOUS
      <4> QED BY <3>3, <4>1 DEF WriteRefusedCheck
    <3> QED BY <2>2, <3>1, <3>2, <3>3
  <2>3. CASE ScanTake
    BY <2>3 DEF ScanTake, Scanning
  <2>4. CASE RecordRefusal
    <3>1. cursor + 1 \in 1..N + 1 /\ cursor \in Task
      BY <2>4 DEF RecordRefusal, RefusalInv
    <3> QED BY <2>4, <3>1, RefusedResultType DEF RecordRefusal
  <2>5. CASE Submit
    BY <2>5 DEF Submit
  <2>6. CASE Collect
    BY <2>6 DEF Collect
  <2>7. CASE CollectException
    BY <2>7 DEF CollectException
  <2> QED BY <2>1, <2>2, <2>3, <2>4, <2>5, <2>6, <2>7
<1>3. ASSUME NEW t \in Task, Worker(t) PROVE TypeOK'
  <2> USE <1>3 DEF Worker, main, environment
  <2>1. ASSUME NEW s \in ExecutionStatus, NEW a \in Assessment, Finish(t, s, a)
        PROVE  TypeOK'
    <3>1. Ran(s, a) \in Result
      BY RanType
    <3> QED BY <2>1, <3>1 DEF Finish
  <2>2. ASSUME NEW to \in {"asked", "performing", "raised"}, Move(t, to) PROVE TypeOK'
    BY <2>2 DEF Move
  <2>3. CASE Cancel(t)
    BY <2>3 DEF Cancel
  <2>4. CASE Begin(t)
    BY <2>2, <2>3, <2>4 DEF Begin
  <2>8. CASE Start(t)
    BY <2>1, <2>2, <2>8 DEF Start, ExecutionStatus, Assessment
  <2>5. CASE PerformEnds(t)
    BY <2>1, <2>2, <2>5, VerdictsType DEF PerformEnds, ExecutionStatus, Assessment
  <2>6. CASE PerformCancelled(t)
    BY <2>3, <2>6 DEF PerformCancelled
  <2>7. CASE ReportUnsafe(t)
    BY <2>1, <2>7 DEF ReportUnsafe, ExecutionStatus, Assessment
  <2> QED BY <2>4, <2>5, <2>6, <2>7, <2>8
<1>4. CASE Terminated \/ UNCHANGED vars
  BY <1>4 DEF Terminated, vars, main, environment
<1> QED BY <1>1, <1>2, <1>3, <1>4 DEF Next

-----------------------------------------------------------------------------
\* What a step of run_task for t can do: it moves t alone, from a state in
\* which the pool owns it, and writes a result only when t finishes.
LEMMA WorkerEffect ==
  ASSUME TypeOK, NEW t \in Task, Worker(t)
  PROVE  /\ worker[t] \in {"queued", "asked", "performing", "unsafe"}
         /\ \A u \in Task \ {t} : worker'[u] = worker[u] /\ result'[u] = result[u]
         /\ \/ /\ worker'[t] \in {"asked", "performing", "raised", "unsafe"}
               /\ result' = result
               /\ worker'[t] = "unsafe" => cancelled'
            \/ /\ worker'[t] = "finished"
               /\ \E s \in ExecutionStatus, a \in Assessment :
                    /\ result'[t] = Ran(s, a)
                    /\ s # "completed" => a = "not_tested"
                    /\ s = "completed" => a # "not_tested"
                    /\ s = "cancelled" => worker[t] = "unsafe"
         /\ worker[t] \notin {"asked", "performing"} /\ worker'[t] \in {"asked", "performing"} =>
              ~Stop
         /\ cancelled => cancelled'
         /\ UNCHANGED <<plan, metrics_error, monitor, expired, pc, cursor, ready, draft, executed>>
<1> USE DEF TypeOK
<1>1. UNCHANGED <<plan, metrics_error, monitor, expired, pc, cursor, ready, draft, executed>>
  BY DEF Worker, main, environment
<1>2. ASSUME NEW s \in ExecutionStatus, NEW a \in Assessment, Finish(t, s, a)
      PROVE  /\ \A u \in Task \ {t} : worker'[u] = worker[u] /\ result'[u] = result[u]
             /\ worker'[t] = "finished" /\ result'[t] = Ran(s, a) /\ cancelled' = cancelled
  BY <1>2 DEF Finish
<1>3. ASSUME NEW to, Move(t, to)
      PROVE  /\ \A u \in Task \ {t} : worker'[u] = worker[u]
             /\ worker'[t] = to /\ result' = result /\ cancelled' = cancelled
  BY <1>3 DEF Move
<1>4. ASSUME Cancel(t)
      PROVE  /\ \A u \in Task \ {t} : worker'[u] = worker[u]
             /\ worker'[t] = "unsafe" /\ result' = result /\ cancelled'
  BY <1>4 DEF Cancel
<1>5. CASE Begin(t)
  BY <1>1, <1>3, <1>4, <1>5 DEF Begin
<1>9. CASE Start(t)
  BY <1>1, <1>2, <1>3, <1>9 DEF Start, ExecutionStatus, Assessment
<1>6. CASE PerformEnds(t)
  BY <1>1, <1>2, <1>3, <1>6, VerdictsType DEF PerformEnds, ExecutionStatus, Assessment
<1>7. CASE PerformCancelled(t)
  BY <1>1, <1>4, <1>7 DEF PerformCancelled
<1>8. CASE ReportUnsafe(t)
  BY <1>1, <1>2, <1>8 DEF ReportUnsafe, ExecutionStatus, Assessment
<1> QED BY <1>5, <1>6, <1>7, <1>8, <1>9 DEF Worker

\* A step keeps the plan and everything recorded, and a stopped run stopped.
LEMMA StepFacts ==
  ASSUME IInv, [Next]_vars
  PROVE  /\ plan' = plan
         /\ Stop => Stop'
         /\ InfrastructureError => InfrastructureError'
         /\ executed \subseteq executed'
         /\ \A t \in executed : result'[t] = result[t] /\ worker'[t] = worker[t]
<1> USE DEF Stop, Triggered, InfrastructureError
<1>0. TypeOK /\ BookkeepingInv /\ RefusalInv /\ WaveInv
  BY DEF IInv
<1>1. CASE MonitorMatches
  BY <1>0, <1>1 DEF MonitorMatches, main
<1>2. CASE MonitorFails
  BY <1>0, <1>2 DEF MonitorFails, main
<1>3. CASE Expire
  BY <1>0, <1>3 DEF Expire, main
<1>4. CASE Main
  <2>1. UNCHANGED <<plan, monitor, expired, cancelled>>
    BY <1>4 DEF Main, environment
  <2>2. CASE RecordRefusal
    BY <1>0, <2>1, <2>2 DEF RecordRefusal, RefusalInv, Pending, TypeOK
  <2>3. CASE Submit
    BY <1>0, <2>1, <2>3 DEF Submit, WaveInv, TypeOK
  <2>4. CASE Collect
    BY <2>1, <2>4 DEF Collect
  <2>5. CASE ScanPast \/ ScanRefuse \/ ScanDefer \/ ScanTake
    BY <2>1, <2>5 DEF ScanPast, ScanRefuse, ScanDefer, ScanTake
  <2>6. CASE ClassifyRefusal \/ WriteRefusedCheck \/ CollectException
    BY <2>1, <2>6 DEF ClassifyRefusal, WriteRefusedCheck, CollectException
  <2> QED BY <1>4, <2>2, <2>3, <2>4, <2>5, <2>6 DEF Main
<1>5. ASSUME NEW t \in Task, Worker(t) PROVE
         /\ plan' = plan
         /\ Stop => Stop'
         /\ InfrastructureError => InfrastructureError'
         /\ executed \subseteq executed'
         /\ \A u \in executed : result'[u] = result[u] /\ worker'[u] = worker[u]
  <2>1. t \notin executed
    BY <1>0, <1>5, WorkerEffect DEF BookkeepingInv
  <2> QED BY <1>0, <1>5, <2>1, WorkerEffect DEF TypeOK
<1>6. CASE Terminated \/ UNCHANGED vars
  BY <1>6 DEF Terminated, vars, main, environment
<1> QED BY <1>1, <1>2, <1>3, <1>4, <1>5, <1>6 DEF Next

\* A condition, once its dependencies are recorded, is decided for good; the
\* claims of a task never change.
LEMMA ConditionsDecided ==
  ASSUME IInv, [Next]_vars, NEW t \in Task
  PROVE  /\ plan.depends_on[t] \subseteq executed => (Eligible(t)' <=> Eligible(t))
         /\ Claims(t)' = Claims(t)
<1>1. plan' = plan /\ \A d \in executed : result'[d] = result[d]
  BY StepFacts
<1>2. Claims(t)' = Claims(t)
  BY <1>1 DEF Claims
<1>3. ASSUME plan.depends_on[t] \subseteq executed PROVE Eligible(t)' <=> Eligible(t)
  BY <1>1, <1>3 DEF Eligible
<1> QED BY <1>2, <1>3

-----------------------------------------------------------------------------
\* The initial state satisfies the inductive invariant.
LEMMA InitIInv == Init => IInv
<1> SUFFICES ASSUME Init PROVE IInv
  OBVIOUS
<1> USE DEF Init, NoResult
<1>1. TypeOK
  BY InitTypeOK
<1>2. BookkeepingInv
  BY DEF BookkeepingInv
<1>3. WaveInv
  <2>1. Cardinality(ready) = 0
    BY FS_EmptySet
  <2>2. plan.max_parallel_tasks \in 1..4
    BY PlanFields
  <2> QED BY <2>1, <2>2, NAssumption DEF WaveInv
<1>4. RefusalInv
  BY DEF RefusalInv
<1>5. RunsOnlyWhenEligible /\ VerdictsAreMeasured /\ RefusalsHaveACause
  BY DEF RunsOnlyWhenEligible, VerdictsAreMeasured, RefusalsHaveACause
<1> QED BY <1>1, <1>2, <1>3, <1>4, <1>5 DEF IInv

\* Every step keeps what is recorded in agreement with where each task is.
LEMMA BookkeepingStep == IInv /\ [Next]_vars => BookkeepingInv'
<1> SUFFICES ASSUME IInv, [Next]_vars PROVE BookkeepingInv'
  OBVIOUS
<1>0. TypeOK /\ BookkeepingInv /\ RefusalInv /\ WaveInv
  BY DEF IInv
<1>1. CASE MonitorMatches \/ MonitorFails \/ Expire
  BY <1>0, <1>1 DEF MonitorMatches, MonitorFails, Expire, main, BookkeepingInv
<1>2. CASE Main
  <2>1. UNCHANGED <<plan, monitor, expired, cancelled>>
    BY <1>2 DEF Main, environment
  <2>2. CASE RecordRefusal
    <3>1. cursor \in Task /\ Pending(cursor) /\ cursor \notin ready
      BY <1>0, <2>2 DEF RecordRefusal, RefusalInv, WaveInv, MainAlone, TypeOK, Task
    <3>2. RefusedResult # NoResult /\ RefusedResult.assessment = "not_tested"
      BY DEF RefusedResult, NoResult
    <3>3. worker[cursor] = "idle"
      BY <1>0, <2>2, <3>1 DEF RecordRefusal, BookkeepingInv, TypeOK, Pending
    <3> QED BY <1>0, <2>1, <2>2, <3>1, <3>2, <3>3
            DEF RecordRefusal, BookkeepingInv, TypeOK, Pending
  <2>3. CASE Submit
    BY <1>0, <2>1, <2>3 DEF Submit, BookkeepingInv, WaveInv, MainAlone, TypeOK
  <2>4. CASE Collect
    BY <1>0, <2>1, <2>4 DEF Collect, BookkeepingInv, WaveInv, TypeOK
  <2>5. CASE ScanPast \/ ScanRefuse \/ ScanDefer \/ ScanTake
    BY <1>0, <2>1, <2>5 DEF ScanPast, ScanRefuse, ScanDefer, ScanTake, Scanning, BookkeepingInv
  <2>6. CASE ClassifyRefusal \/ WriteRefusedCheck \/ CollectException
    BY <1>0, <2>1, <2>6
       DEF ClassifyRefusal, WriteRefusedCheck, CollectException, BookkeepingInv
  <2> QED BY <1>2, <2>2, <2>3, <2>4, <2>5, <2>6 DEF Main
<1>3. ASSUME NEW t \in Task, Worker(t) PROVE BookkeepingInv'
  <2>1. t \in ready /\ t \notin executed
    BY <1>0, <1>3, WorkerEffect DEF BookkeepingInv
  <2>2. ASSUME NEW s \in ExecutionStatus, NEW a \in Assessment
        PROVE  Ran(s, a) # NoResult /\ Ran(s, a).status = s /\ Ran(s, a).assessment = a
    BY DEF Ran, NoResult, ExecutionStatus
  <2> QED BY <1>0, <1>3, <2>1, <2>2, WorkerEffect DEF BookkeepingInv
<1>4. CASE Terminated \/ UNCHANGED vars
  BY <1>0, <1>4 DEF Terminated, vars, main, environment, BookkeepingInv
<1> QED BY <1>1, <1>2, <1>3, <1>4 DEF Next

\* A task that does not conflict with a compatible wave joins a compatible wave.
LEMMA JoinsCompatibly ==
  ASSUME NEW t \in Task, NEW wave \in SUBSET Task, t \notin wave, ~Conflicts(t, wave),
         \A u, v \in wave : u # v => Exclusive \notin Claims(u) /\ Claims(u) \cap Claims(v) = {}
  PROVE  \A u, v \in wave \cup {t} :
            u # v => Exclusive \notin Claims(u) /\ Claims(u) \cap Claims(v) = {}
<1>1. ASSUME NEW u \in wave
      PROVE  /\ Exclusive \notin Claims(u) /\ Exclusive \notin Claims(t)
             /\ Claims(u) \cap Claims(t) = {}
  <2>1. Claims(u) \subseteq UNION {Claims(v) : v \in wave}
    OBVIOUS
  <2> QED BY <2>1 DEF Conflicts
<1> QED BY <1>1

\* A set of tasks is finite, and one more task makes it one larger.
LEMMA WaveSize ==
  ASSUME NEW wave \in SUBSET Task, NEW t \in Task \ wave
  PROVE  /\ Cardinality(wave) \in Nat
         /\ Cardinality(wave \cup {t}) = Cardinality(wave) + 1
<1>1. IsFiniteSet(Task)
  BY NAssumption, FS_Interval DEF Task
<1>2. IsFiniteSet(wave)
  BY <1>1, FS_Subset
<1> QED BY <1>2, FS_AddElement, FS_CardinalityType

\* Every step keeps the wave eligible, compatible and no larger than allowed.
LEMMA WaveStep == IInv /\ [Next]_vars => WaveInv'
<1> SUFFICES ASSUME IInv, [Next]_vars PROVE WaveInv'
  OBVIOUS
<1>0. TypeOK /\ BookkeepingInv /\ RefusalInv /\ WaveInv
  BY DEF IInv
<1>1. /\ plan' = plan
      /\ \A t \in Task : Claims(t)' = Claims(t)
      /\ \A t \in Task : plan.depends_on[t] \subseteq executed =>
            (Eligible(t)' <=> Eligible(t)) /\ plan.depends_on[t] \subseteq executed'
  BY StepFacts, ConditionsDecided
<1>2. plan.max_parallel_tasks \in 1..4 /\ Cardinality({}) = 0 /\ N \in Nat
  BY <1>0, PlanFields, FS_EmptySet, NAssumption DEF TypeOK
<1> USE DEF MainAlone
<1>3. CASE UNCHANGED <<ready, executed, pc, cursor, worker>>
  BY <1>0, <1>1, <1>3 DEF WaveInv, TypeOK
<1>4. CASE Main
  <2>1. CASE ScanPast \/ ScanDefer \/ ScanRefuse
    <3>1. /\ UNCHANGED <<ready, executed, worker>>
          /\ cursor \in Task /\ cursor' \in {cursor, cursor + 1}
          /\ pc = "scan" /\ pc' \in {"scan", "classify"}
      BY <2>1 DEF ScanPast, ScanDefer, ScanRefuse, Scanning
    <3> QED BY <1>0, <1>1, <3>1 DEF WaveInv, TypeOK, Task
  <2>2. CASE ClassifyRefusal \/ WriteRefusedCheck
    <3>1. /\ UNCHANGED <<ready, executed, worker, cursor>>
          /\ pc \in {"classify", "check"} /\ pc' \in {"check", "state"}
      BY <2>2 DEF ClassifyRefusal, WriteRefusedCheck
    <3> QED BY <1>0, <1>1, <3>1 DEF WaveInv, TypeOK
  <2>3. CASE ScanTake
    <3> DEFINE t == cursor
    <3>1. t \in Task /\ t \notin ready /\ Pending(t) /\ Eligible(t) /\ ~Conflicts(t, ready)
      BY <1>0, <2>3 DEF ScanTake, Scanning, WaveInv, TypeOK, Task
    <3>2. ready \in SUBSET Task /\ ready' = ready \cup {t}
      BY <1>0, <2>3 DEF ScanTake, TypeOK
    <3>3. Cardinality(ready) \in Nat /\ Cardinality(ready') = Cardinality(ready) + 1
      BY <3>1, <3>2, WaveSize
    <3>4. Cardinality(ready) < plan.max_parallel_tasks
      BY <1>0, <2>3 DEF WaveInv, ScanTake, Scanning
    <3>5. \A u, v \in ready' : u # v => Exclusive \notin Claims(u) /\ Claims(u) \cap Claims(v) = {}
      <4>1. \A u, v \in ready : u # v => Exclusive \notin Claims(u) /\ Claims(u) \cap Claims(v) = {}
        BY <1>0 DEF WaveInv
      <4> HIDE DEF t
      <4> QED BY <3>1, <3>2, <4>1, JoinsCompatibly
    <3>6. /\ UNCHANGED <<executed, worker>> /\ pc = "scan" /\ pc' = "scan"
          /\ cursor' = IF Cardinality(ready') >= plan.max_parallel_tasks THEN N + 1 ELSE cursor + 1
      BY <2>3 DEF ScanTake, Scanning
    <3>7. worker[t] = "idle"
      BY <1>0, <3>1, <3>6 DEF BookkeepingInv, TypeOK, Pending
    <3>8. cursor' > cursor /\ (cursor' \in Task => Cardinality(ready') < plan'.max_parallel_tasks)
      BY <1>0, <1>1, <1>2, <3>1, <3>3, <3>6 DEF Task
    <3>9. \A u \in ready' : /\ u \notin executed' /\ plan'.depends_on[u] \subseteq executed'
                            /\ Eligible(u)' /\ worker'[u] = "idle" /\ u < cursor'
      <4>1. \A u \in ready : u < cursor /\ worker[u] = "idle" /\ Eligible(u)
                             /\ u \notin executed /\ plan.depends_on[u] \subseteq executed
        BY <1>0, <3>6 DEF WaveInv
      <4> QED BY <1>0, <1>1, <3>1, <3>2, <3>6, <3>7, <3>8, <4>1 DEF Pending, TypeOK, Task
    <3>10. \A u, v \in ready' : u # v => Exclusive \notin Claims(u)' /\ Claims(u)' \cap Claims(v)' = {}
      BY <1>1, <3>1, <3>2, <3>5
    <3>11. Cardinality(ready') <= plan'.max_parallel_tasks
      BY <1>1, <1>2, <3>3, <3>4
    <3> QED BY <3>6, <3>8, <3>9, <3>10, <3>11 DEF WaveInv
  <2>4. CASE RecordRefusal
    <3>1. cursor \in Task /\ cursor \notin ready /\ pc = "state" /\ pc' = "scan"
          /\ UNCHANGED <<ready, worker>> /\ executed' = executed \cup {cursor}
          /\ cursor' = cursor + 1
      BY <1>0, <2>4 DEF RecordRefusal, RefusalInv, WaveInv, TypeOK, Task
    <3> QED BY <1>0, <1>1, <3>1 DEF WaveInv, TypeOK, Task
  <2>5. CASE Submit
    <3>1. UNCHANGED <<ready, executed>> /\ pc = "scan" /\ pc' = "await"
          /\ \A t \in ready : worker'[t] = "queued"
      BY <1>0, <2>5 DEF Submit, TypeOK
    <3> QED BY <1>0, <1>1, <3>1 DEF WaveInv, TypeOK
  <2>6. CASE Collect
    <3>1. ready' = {} /\ (pc' = "done" => executed' = Task) /\ pc' \in {"scan", "done"}
      BY <2>6 DEF Collect
    <3> QED BY <1>1, <1>2, <3>1 DEF WaveInv
  <2>7. CASE CollectException
    <3>1. UNCHANGED <<ready, executed, worker, cursor>> /\ pc = "await" /\ pc' = "raised"
      BY <2>7 DEF CollectException
    <3> QED BY <1>0, <1>1, <3>1 DEF WaveInv, TypeOK
  <2> QED BY <1>4, <2>1, <2>2, <2>3, <2>4, <2>5, <2>6, <2>7 DEF Main
<1>5. ASSUME NEW t \in Task, Worker(t) PROVE WaveInv'
  <2>1. /\ UNCHANGED <<ready, executed, pc, cursor>>
        /\ worker'[t] # "idle" /\ \A u \in Task \ {t} : worker'[u] = worker[u]
        /\ t \in ready /\ pc \in {"await", "raised"}
    BY <1>0, <1>5, WorkerEffect DEF BookkeepingInv
  <2> QED BY <1>0, <1>1, <2>1 DEF WaveInv, TypeOK
<1>6. CASE MonitorMatches \/ MonitorFails \/ Expire \/ Terminated
  BY <1>3, <1>6 DEF MonitorMatches, MonitorFails, Expire, Terminated, vars, main
<1> QED BY <1>3, <1>4, <1>5, <1>6 DEF Next, vars, main

\* Every step keeps what the reads of stop() have established.
LEMMA RefusalStep == IInv /\ [Next]_vars => RefusalInv'
<1> SUFFICES ASSUME IInv, [Next]_vars PROVE RefusalInv'
  OBVIOUS
<1>0. TypeOK /\ BookkeepingInv /\ RefusalInv /\ WaveInv
  BY DEF IInv
<1>1. /\ plan' = plan /\ (Stop => Stop') /\ (InfrastructureError => InfrastructureError')
      /\ \A t \in Task : plan.depends_on[t] \subseteq executed =>
            (Eligible(t)' <=> Eligible(t))
  BY StepFacts, ConditionsDecided
<1>2. CASE UNCHANGED <<pc, cursor, draft, executed, worker, result>> /\ (cancelled => cancelled')
  BY <1>0, <1>1, <1>2 DEF RefusalInv, Pending
<1>3. CASE Main
  <2>1. UNCHANGED cancelled
    BY <1>3 DEF Main
  <2>2. CASE ScanRefuse
    <3>1. /\ UNCHANGED <<cursor, draft, executed, worker, result>> /\ pc' = "classify"
          /\ cursor \in Task /\ Pending(cursor) /\ (Stop \/ ~Eligible(cursor))
      BY <2>2 DEF ScanRefuse, Scanning
    <3> QED BY <1>0, <1>1, <2>1, <3>1 DEF RefusalInv, Pending
  <2>3. CASE ClassifyRefusal
    <3>1. /\ UNCHANGED <<cursor, executed, worker, result>> /\ pc = "classify" /\ pc' = "check"
          /\ draft'.infrastructure <=> Stop /\ InfrastructureError
      BY <1>0, <2>3 DEF ClassifyRefusal, TypeOK
    <3> QED BY <1>0, <1>1, <2>1, <3>1 DEF RefusalInv, Pending
  <2>4. CASE WriteRefusedCheck
    <3>1. /\ UNCHANGED <<cursor, executed, worker, result>> /\ pc = "check" /\ pc' = "state"
          /\ draft'.infrastructure = draft.infrastructure
          /\ draft'.cancelled => Stop
      BY <1>0, <2>4 DEF WriteRefusedCheck, TypeOK
    <3> QED BY <1>0, <1>1, <2>1, <3>1 DEF RefusalInv, Pending
  <2>5. CASE RecordRefusal
    <3>1. /\ UNCHANGED <<worker, draft>> /\ pc = "state" /\ pc' = "scan" /\ cursor \in Task
          /\ \A t \in Task : result'[t] = IF t = cursor THEN RefusedResult ELSE result[t]
      BY <1>0, <2>5 DEF RecordRefusal, RefusalInv, TypeOK
    <3>2. RefusedResult.state = "cancelled" => Stop
      BY DEF RefusedResult
    <3> QED BY <1>0, <1>1, <2>1, <3>1, <3>2 DEF RefusalInv
  <2>6. CASE Submit \/ Collect \/ CollectException
    <3>1. /\ UNCHANGED <<draft, result>> /\ pc' \in {"await", "scan", "done", "raised"}
          /\ \A t \in Task : worker'[t] = "unsafe" => worker[t] = "unsafe"
      BY <1>0, <2>6 DEF Submit, Collect, CollectException, TypeOK
    <3> QED BY <1>0, <1>1, <2>1, <3>1 DEF RefusalInv
  <2>7. CASE ScanPast \/ ScanDefer \/ ScanTake
    <3>1. UNCHANGED <<pc, draft, worker, result>> /\ pc = "scan"
      BY <2>7 DEF ScanPast, ScanDefer, ScanTake, Scanning
    <3> QED BY <1>0, <1>1, <2>1, <3>1 DEF RefusalInv
  <2> QED BY <1>3, <2>2, <2>3, <2>4, <2>5, <2>6, <2>7 DEF Main
<1>4. ASSUME NEW t \in Task, Worker(t) PROVE RefusalInv'
  <2>1. UNCHANGED <<pc, cursor, draft, executed>> /\ pc \in {"await", "raised"}
        /\ (cancelled => cancelled')
    BY <1>0, <1>4, WorkerEffect DEF BookkeepingInv
  <2>2. \A u \in Task : worker'[u] = "unsafe" => cancelled'
    BY <1>0, <1>4, <2>1, WorkerEffect DEF RefusalInv
  <2>3. \A u \in Task : result'[u].state = "cancelled" => Stop'
    <3>1. result'[t].state = "cancelled" => result[t].state = "cancelled" \/ cancelled
      <4>1. ASSUME NEW v \in ExecutionStatus, NEW a \in Assessment PROVE Ran(v, a).state = v
        BY DEF Ran
      <4> QED BY <1>0, <1>4, <4>1, WorkerEffect DEF RefusalInv
    <3> QED BY <1>0, <1>1, <1>4, <3>1, WorkerEffect DEF RefusalInv, Stop
  <2> QED BY <2>1, <2>2, <2>3 DEF RefusalInv
<1>5. CASE MonitorMatches \/ MonitorFails \/ Expire \/ Terminated
  BY <1>2, <1>5 DEF MonitorMatches, MonitorFails, Expire, Terminated, vars, main
<1> QED BY <1>2, <1>3, <1>4, <1>5 DEF Next, vars, main

\* What one step may do to the worker and the result of a task.
LEMMA TaskStep ==
  ASSUME IInv, [Next]_vars, NEW t \in Task
  PROVE  \/ worker'[t] = worker[t] /\ result'[t] = result[t]
         \/ /\ t \in ready /\ worker[t] = "idle" /\ worker'[t] = "queued"
            /\ result'[t] = result[t] /\ pc = "scan" /\ UNCHANGED executed
         \/ /\ worker'[t] = worker[t] /\ RecordRefusal /\ t = cursor
            /\ result'[t] = RefusedResult /\ UNCHANGED <<monitor, expired, cancelled>>
         \/ /\ Worker(t) /\ UNCHANGED executed
            /\ worker[t] \in {"queued", "asked", "performing", "unsafe"} /\ worker'[t] # "idle"
<1>0. TypeOK /\ BookkeepingInv /\ RefusalInv /\ WaveInv
  BY DEF IInv
<1>1. CASE Main
  <2>1. CASE Submit
    BY <1>0, <2>1 DEF Submit, WaveInv, MainAlone, TypeOK
  <2>2. CASE RecordRefusal
    BY <1>0, <1>1, <2>2 DEF RecordRefusal, Main, environment, TypeOK
  <2>3. CASE ScanPast \/ ScanRefuse \/ ScanDefer \/ ScanTake
    BY <2>3 DEF ScanPast, ScanRefuse, ScanDefer, ScanTake
  <2>4. CASE ClassifyRefusal \/ WriteRefusedCheck \/ Collect \/ CollectException
    BY <2>4 DEF ClassifyRefusal, WriteRefusedCheck, Collect, CollectException
  <2> QED BY <1>1, <2>1, <2>2, <2>3, <2>4 DEF Main
<1>2. ASSUME NEW u \in Task, Worker(u) PROVE
        \/ worker'[t] = worker[t] /\ result'[t] = result[t]
        \/ /\ Worker(t) /\ UNCHANGED executed
           /\ worker[t] \in {"queued", "asked", "performing", "unsafe"} /\ worker'[t] # "idle"
  <2>1. CASE u = t
    BY <1>0, <1>2, <2>1, WorkerEffect
  <2>2. CASE u # t
    BY <1>0, <1>2, <2>2, WorkerEffect
  <2> QED BY <2>1, <2>2
<1>3. CASE MonitorMatches \/ MonitorFails \/ Expire \/ Terminated \/ UNCHANGED vars
  BY <1>3 DEF MonitorMatches, MonitorFails, Expire, Terminated, vars
<1> QED BY <1>1, <1>2, <1>3 DEF Next

\* Every step keeps RunsOnlyWhenEligible: a task leaves "idle" in a wave only.
LEMMA EligibleStep == IInv /\ [Next]_vars => RunsOnlyWhenEligible'
<1> SUFFICES ASSUME IInv, [Next]_vars, NEW t \in Task, worker'[t] # "idle"
             PROVE  plan'.depends_on[t] \subseteq executed' /\ Eligible(t)'
  BY DEF RunsOnlyWhenEligible
<1>1. plan.depends_on[t] \subseteq executed /\ Eligible(t)
  <2>1. CASE worker[t] # "idle"
    BY <2>1 DEF IInv, RunsOnlyWhenEligible
  <2>2. CASE worker[t] = "idle"
    BY <2>2, TaskStep DEF IInv, WaveInv
  <2> QED BY <2>1, <2>2
<1> QED BY <1>1, StepFacts, ConditionsDecided

\* Every step keeps VerdictsAreMeasured: only a worker writes a verdict, and the
\* verdicts of what it depends on were recorded before it was submitted.
LEMMA MeasuredStep == IInv /\ [Next]_vars => VerdictsAreMeasured'
<1> SUFFICES ASSUME IInv, [Next]_vars, NEW t \in Task,
                    result'[t].assessment \notin {"none", "not_tested"}
             PROVE  /\ worker'[t] = "finished"
                    /\ result'[t].status = "completed" /\ result'[t].state = "completed"
                    /\ \A d \in plan'.depends_on[t] :
                          result'[d].assessment \notin {"none", "not_tested"}
  BY DEF VerdictsAreMeasured
<1>0. TypeOK /\ BookkeepingInv /\ RunsOnlyWhenEligible /\ VerdictsAreMeasured
  BY DEF IInv
<1>1. /\ plan' = plan
      /\ \A d \in executed : result'[d] = result[d]
  BY StepFacts
<1>2. plan.depends_on[t] \subseteq Task
  BY <1>0, PlanFields DEF TypeOK
<1>3. CASE result'[t] = result[t]
  <2>1. worker[t] = "finished" /\ worker'[t] = "finished"
    BY <1>0, <1>3, TaskStep DEF VerdictsAreMeasured
  <2>2. plan.depends_on[t] \subseteq executed
    BY <1>0, <2>1 DEF RunsOnlyWhenEligible
  <2> QED BY <1>0, <1>1, <1>3, <2>1, <2>2 DEF VerdictsAreMeasured
<1>4. CASE result'[t] # result[t]
  <2>1. RefusedResult.assessment = "not_tested"
    BY DEF RefusedResult
  <2>2. Worker(t) /\ worker[t] # "idle"
    BY <1>4, <2>1, TaskStep
  <2>3. worker'[t] = "finished" /\ result'[t].status = "completed" /\ result'[t].state = "completed"
    <3>1. ASSUME NEW s \in ExecutionStatus, NEW a \in Assessment
          PROVE  Ran(s, a).status = s /\ Ran(s, a).state = s /\ Ran(s, a).assessment = a
      BY DEF Ran
    <3> QED BY <1>0, <1>4, <2>2, <3>1, WorkerEffect
  <2>4. plan.depends_on[t] \subseteq executed /\ Eligible(t)
    BY <1>0, <2>2 DEF RunsOnlyWhenEligible
  <2>5. ASSUME NEW d \in plan.depends_on[t] PROVE result[d].assessment \notin {"none", "not_tested"}
    <3>1. result[d].status = "completed" /\ result[d].assessment # "not_tested"
      BY <2>4 DEF Eligible
    <3>2. result[d] \in Result
      BY <1>0, <1>2, <3>1 DEF TypeOK, NoResult
    <3> QED BY <3>1, <3>2 DEF Result, Assessment
  <2> QED BY <1>1, <2>3, <2>4, <2>5
<1> QED BY <1>3, <1>4

\* Every step keeps RefusalsHaveACause: the reads of stop() can only grow true.
LEMMA CauseStep == IInv /\ [Next]_vars => RefusalsHaveACause'
<1> SUFFICES ASSUME IInv, [Next]_vars, NEW t \in executed', worker'[t] = "idle"
             PROVE  /\ result'[t].state = "skipped" =>
                          ~Eligible(t)' /\ result'[t].status # "infrastructure_failure"
                    /\ result'[t].state = "cancelled" => Stop'
                    /\ result'[t].state = "infrastructure_failure" => InfrastructureError' /\ Stop'
                    /\ result'[t].state # "completed" /\ result'[t].assessment = "not_tested"
  BY DEF RefusalsHaveACause
<1>0. TypeOK /\ BookkeepingInv /\ RefusalInv /\ WaveInv /\ RefusalsHaveACause /\ TypeOK'
  BY NextTypeOK DEF IInv
<1>1. t \in Task
  BY <1>0 DEF TypeOK
<1>2. (Stop => Stop') /\ (InfrastructureError => InfrastructureError')
  BY StepFacts
<1>3. CASE t \in executed
  <2>1. result'[t] = result[t] /\ worker[t] = "idle"
    BY <1>3, StepFacts
  <2>2. Eligible(t)' <=> Eligible(t)
    BY <1>0, <1>1, <1>3, ConditionsDecided DEF BookkeepingInv
  <2> QED BY <1>0, <1>2, <1>3, <2>1, <2>2 DEF RefusalsHaveACause
<1>4. CASE t \notin executed
  <2>1. result'[t] # NoResult
    BY <1>0, <1>1, BookkeepingStep DEF BookkeepingInv
  <2>2. result[t] = NoResult \/ worker[t] # "idle"
    BY <1>0, <1>1, <1>4 DEF BookkeepingInv
  <2>3. RecordRefusal /\ t = cursor /\ result'[t] = RefusedResult
    BY <1>1, <2>1, <2>2, TaskStep, <1>0 DEF BookkeepingInv
  <2>4. Pending(t) /\ (Stop \/ ~Eligible(t)) /\ draft.infrastructure \in BOOLEAN
        /\ (draft.infrastructure => Stop /\ InfrastructureError)
    BY <1>0, <2>3 DEF RecordRefusal, RefusalInv, TypeOK
  <2>5. Eligible(t)' <=> Eligible(t)
    BY <1>1, <2>4, ConditionsDecided DEF Pending
  <2> QED BY <1>2, <2>3, <2>4, <2>5 DEF RefusedResult
<1> QED BY <1>3, <1>4

-----------------------------------------------------------------------------
\* IInv is an invariant of the executor: it holds initially and every step of
\* the main thread, of a worker and of the environment keeps it.
THEOREM Invariance == Spec => []IInv
<1>1. IInv /\ [Next]_vars => IInv'
  BY NextTypeOK, BookkeepingStep, WaveStep, RefusalStep, EligibleStep, MeasuredStep, CauseStep
     DEF IInv
<1> QED BY InitIInv, <1>1, PTL DEF Spec

\* Every variable keeps its type (the state run() and run_task share).
THEOREM TypeCorrect == Spec => []TypeOK
<1>1. IInv => TypeOK
  BY DEF IInv
<1> QED BY <1>1, Invariance, PTL

\* Probes in the pool never hold a claim in common, a recovery probe runs
\* alone and the plan's parallelism is kept, for every valid plan.
THEOREM NoConflicts == Spec => []NoConflictingProbes
<1>1. IInv => NoConflictingProbes
  <2> SUFFICES ASSUME IInv PROVE NoConflictingProbes
    OBVIOUS
  <2> DEFINE wave == {t \in Task : Active(t)}
  <2>1. wave \subseteq ready /\ ready \in SUBSET Task
    BY DEF IInv, TypeOK, BookkeepingInv, Active
  <2>2. IsFiniteSet(Task)
    BY NAssumption, FS_Interval DEF Task
  <2>3. Cardinality(wave) <= Cardinality(ready) /\ Cardinality(wave) \in Nat
        /\ Cardinality(ready) \in Nat
    BY <2>1, <2>2, FS_Subset, FS_CardinalityType
  <2>4. plan.max_parallel_tasks \in 1..4
    BY PlanFields DEF IInv, TypeOK
  <2>5. Cardinality(wave) <= plan.max_parallel_tasks
    BY <2>3, <2>4 DEF IInv, WaveInv
  <2> QED BY <2>1, <2>5 DEF IInv, WaveInv, NoConflictingProbes
<1> QED BY <1>1, Invariance, PTL

\* No worker touches a task before its dependencies left the evidence that the
\* task's condition asks for.
THEOREM Eligibility == Spec => []RunsOnlyWhenEligible
<1>1. IInv => RunsOnlyWhenEligible
  BY DEF IInv
<1> QED BY <1>1, Invariance, PTL

\* No verdict comes out of a skip, a cancellation or an infrastructure failure.
THEOREM Measured == Spec => []VerdictsAreMeasured
<1>1. IInv => VerdictsAreMeasured
  BY DEF IInv
<1> QED BY <1>1, Invariance, PTL

\* What is written about a task that did not run has its cause, whatever the
\* four reads of stop() answered.
THEOREM Causes == Spec => []RefusalsHaveACause
<1>1. IInv => RefusalsHaveACause
  BY DEF IInv
<1> QED BY <1>1, Invariance, PTL

\* A run that returns has accounted for every task, and no thread works on.
THEOREM Accounted == Spec => []EveryTaskAccounted
<1>1. IInv => EveryTaskAccounted
  <2> SUFFICES ASSUME IInv, pc = "done", NEW t \in Task
               PROVE  ~Active(t) /\ t \in executed /\ result[t] # NoResult
    BY DEF EveryTaskAccounted
  <2>1. executed = Task
    BY DEF IInv, WaveInv
  <2> QED BY <2>1 DEF IInv, BookkeepingInv, Active
<1> QED BY <1>1, Invariance, PTL

\* What is recorded of a task is final.
THEOREM Final == Spec => RecordedOnce
<1>1. IInv /\ [Next]_vars =>
        [\A t \in executed : result'[t] = result[t] /\ worker'[t] = worker[t]]_vars
  BY StepFacts
<1> QED BY <1>1, Invariance, PTL DEF Spec, RecordedOnce

\* Once a task is reported cancelled, no thread passes the stop() test of
\* run_task any more: the report implies that stop() answers TRUE, and it never
\* answers FALSE again.
THEOREM NoneAdmitted == Spec => NoneAdmittedAfterCancellation
<1>1. IInv /\ [Next]_vars =>
        [(\E t \in Task : result[t].state = "cancelled") => Underway' \subseteq Underway]_vars
  <2> SUFFICES ASSUME IInv, [Next]_vars, NEW t \in Task, result[t].state = "cancelled",
                      NEW u \in Task, worker'[u] \in {"asked", "performing"}
               PROVE  worker[u] \in {"asked", "performing"}
    BY DEF Underway
  <2>1. Stop /\ TypeOK
    BY DEF IInv, RefusalInv
  <2>2. Worker(u) => worker[u] \in {"asked", "performing"}
    BY <2>1, WorkerEffect
  <2> QED BY <2>2, TaskStep
<1> QED BY <1>1, Invariance, PTL DEF Spec, NoneAdmittedAfterCancellation

-----------------------------------------------------------------------------
\* The initial state of the executor is one of the plan's run.
LEMMA InitRefines == Init => PR!Init
<1> SUFFICES ASSUME Init PROVE PR!Init
  OBVIOUS
<1>1. \A t \in Task : Seen(t) = "pending" /\ ~Held(t)
  BY DEF Init, Seen, Held, Active
<1> QED BY <1>1 DEF PR!Init

\* PlanRun counts tasks as the executor does.
LEMMA SameCardinality == ASSUME NEW S PROVE PR!Cardinality(S) = Cardinality(S)
BY DEF PR!Cardinality, Cardinality

\* A task whose dependencies are recorded and that is eligible has its
\* condition satisfied in the plan's run.
LEMMA EligibleSatisfied ==
  ASSUME TypeOK, NEW t \in Task, Eligible(t)
  PROVE  PR!Satisfied(t)
<1>1. plan.depends_on[t] \subseteq Task
  BY PlanFields DEF TypeOK
<1>2. ASSUME NEW d \in plan.depends_on[t]
      PROVE  Seen(d) = result[d].assessment /\ Seen(d) \notin {"pending", "not_tested"}
  <2>1. result[d].status = "completed" /\ result[d].assessment # "not_tested"
    BY <1>2 DEF Eligible
  <2>2. result[d] # NoResult /\ result[d] \in Result
    BY <1>1, <2>1 DEF TypeOK, NoResult
  <2> QED BY <2>1, <2>2 DEF Seen, Result, Assessment
<1> QED BY <1>1, <1>2 DEF Eligible, PR!Satisfied, AbstractPlan

\* Submitting the wave launches it; a worker that finishes settles its task;
\* recording a refusal skips the task; every other step is not seen.
LEMMA StepRefines == IInv /\ [Next]_vars => [PR!Next]_(PR!vars)
<1> SUFFICES ASSUME IInv, [Next]_vars PROVE [PR!Next]_(PR!vars)
  OBVIOUS
<1> DEFINE verdict == [t \in Task |-> Seen(t)]
           running == {t \in Task : Held(t)}
<1>0. TypeOK /\ BookkeepingInv /\ RefusalInv /\ WaveInv
  BY DEF IInv
<1>1. AbstractPlan' = AbstractPlan
  <2>1. plan' = plan /\ \A t \in Task : Claims(t)' = Claims(t)
    BY StepFacts, ConditionsDecided
  <2> QED BY <2>1 DEF AbstractPlan
<1>2. ASSUME \A t \in Task : result'[t] = result[t] /\ (Held(t)' <=> Held(t))
      PROVE  UNCHANGED PR!vars
  <2>1. verdict' = verdict
    BY <1>2 DEF Seen
  <2>2. running' = running
    BY <1>2
  <2> QED BY <1>1, <2>1, <2>2 DEF PR!vars
<1>3. CASE Submit
  <2>1. UNCHANGED <<result, executed>> /\ pc = "scan"
    BY <1>3 DEF Submit
  <2>2. running = {}
    BY <1>0, <2>1 DEF BookkeepingInv, Held, Active
  <2>3. running' = ready
    BY <1>0, <1>3, <2>1, <2>2 DEF Submit, Held, Active, TypeOK
  <2>4. verdict' = verdict
    BY <2>1 DEF Seen
  <2>5. \A t \in ready : verdict[t] = "pending" /\ PR!Satisfied(t)
    BY <1>0, <2>1, EligibleSatisfied DEF WaveInv, BookkeepingInv, MainAlone, Seen, TypeOK
  <2>6. PR!Compatible(running \cup ready)
    BY <1>0, <2>2 DEF PR!Compatible, WaveInv, AbstractPlan, Exclusive, TypeOK
  <2>7. PR!Cardinality(running \cup ready) <= AbstractPlan.max_parallel
    BY <1>0, <2>2, SameCardinality DEF WaveInv, AbstractPlan
  <2>8. PR!Launch(ready)
    BY <1>1, <2>2, <2>3, <2>4, <2>5, <2>6, <2>7 DEF PR!Launch
  <2> QED BY <1>0, <2>8 DEF PR!Next, TypeOK
<1>4. CASE RecordRefusal
  <2>1. cursor \in Task /\ worker[cursor] = "idle" /\ result[cursor] = NoResult
        /\ UNCHANGED worker /\ result' = [result EXCEPT ![cursor] = RefusedResult]
    BY <1>0, <1>4 DEF RecordRefusal, RefusalInv, BookkeepingInv, Pending, WaveInv, MainAlone, TypeOK
  <2>2. RefusedResult # NoResult /\ RefusedResult.assessment = "not_tested"
    BY DEF RefusedResult, NoResult
  <2>3. verdict[cursor] = "pending" /\ cursor \notin running
    BY <2>1 DEF Seen, Held, Active
  <2>4. verdict' = [verdict EXCEPT ![cursor] = "not_tested"]
    BY <1>0, <2>1, <2>2 DEF Seen, TypeOK
  <2>5. running' = running
    BY <2>1 DEF Held, Active
  <2>6. PR!Skip(cursor)
    BY <1>1, <2>3, <2>4, <2>5 DEF PR!Skip
  <2> QED BY <2>1, <2>6 DEF PR!Next
<1>5. ASSUME NEW t \in Task, Worker(t) PROVE [PR!Next]_(PR!vars)
  <2>1. /\ worker[t] \in {"queued", "asked", "performing", "unsafe"}
        /\ \A u \in Task \ {t} : worker'[u] = worker[u] /\ result'[u] = result[u]
    BY <1>0, <1>5, WorkerEffect
  <2>2. CASE worker'[t] \in {"asked", "performing", "raised", "unsafe"} /\ result' = result
    <3>1. \A u \in Task : result'[u] = result[u] /\ (Held(u)' <=> Held(u))
      BY <2>1, <2>2 DEF Held, Active
    <3> QED BY <1>2, <3>1
  <2>3. ASSUME worker'[t] = "finished",
               NEW s \in ExecutionStatus, NEW a \in Assessment, result'[t] = Ran(s, a)
        PROVE  [PR!Next]_(PR!vars)
    <3>1. Ran(s, a) # NoResult /\ Ran(s, a).assessment = a
      BY DEF Ran, NoResult, ExecutionStatus
    <3>2. verdict' = [verdict EXCEPT ![t] = a]
      BY <2>1, <2>3, <3>1 DEF Seen
    <3>3. t \in running /\ running' = running \ {t}
      BY <2>1, <2>3 DEF Held, Active
    <3>4. PR!Settle(t, a)
      BY <1>1, <3>2, <3>3 DEF PR!Settle
    <3> QED BY <3>4 DEF PR!Next, PR!Verdict, Assessment
  <2> QED BY <1>0, <1>5, <2>2, <2>3, WorkerEffect
<1>6. CASE UNCHANGED <<worker, result>>
  BY <1>2, <1>6 DEF Held, Active
<1>7. CASE Main
  BY <1>3, <1>4, <1>6, <1>7
     DEF Main, ScanPast, ScanRefuse, ScanDefer, ScanTake, ClassifyRefusal, WriteRefusedCheck,
         Collect, CollectException
<1>8. CASE MonitorMatches \/ MonitorFails \/ Expire \/ Terminated \/ UNCHANGED vars
  BY <1>6, <1>8 DEF MonitorMatches, MonitorFails, Expire, Terminated, vars
<1> QED BY <1>5, <1>7, <1>8 DEF Next

\* The executor keeps the promises of a plan's run.
THEOREM Refinement == Spec => ImplementsPlanRun
BY InitRefines, StepRefines, Invariance, PTL DEF Spec, ImplementsPlanRun, PR!Spec

-----------------------------------------------------------------------------
\* stop() answers the state of a refused task as it answered its check.
StopHolds == pc = "state" => (Stop' <=> Stop)

\* Between the third and the fourth read, the check agrees with stop().
DraftAgrees == pc = "state" => (draft.cancelled <=> Stop /\ ~draft.infrastructure)

LEMMA DraftStep ==
  ASSUME IInv, DraftAgrees, [Next]_vars, StopHolds
  PROVE  DraftAgrees'
<1> USE DEF DraftAgrees
<1>0. TypeOK /\ BookkeepingInv
  BY DEF IInv
<1>1. CASE Main
  <2>1. Stop' = Stop
    BY <1>1 DEF Main, environment, Stop, Triggered
  <2>2. CASE WriteRefusedCheck
    <3>1. draft' = [draft EXCEPT !.cancelled = Stop /\ ~draft.infrastructure]
      BY <2>2 DEF WriteRefusedCheck
    <3>2. draft'.infrastructure = draft.infrastructure
          /\ draft'.cancelled = (Stop /\ ~draft.infrastructure)
      BY <1>0, <3>1, Zenon DEF TypeOK
    <3> QED
      BY <2>1, <3>2, Zenon
  <2>3. CASE pc' # "state"
    BY <2>3
  <2> QED
    BY <1>1, <2>2, <2>3
    DEF Main, ScanPast, ScanRefuse, ScanDefer, ScanTake, ClassifyRefusal, RecordRefusal, Submit,
        Collect, CollectException, Scanning
<1>2. ASSUME NEW t \in Task, Worker(t) PROVE DraftAgrees'
  <2>1. UNCHANGED <<pc, draft>>
    BY <1>0, <1>2, WorkerEffect
  <2> QED
    BY <2>1 DEF StopHolds
<1>3. CASE MonitorMatches \/ MonitorFails \/ Expire \/ Terminated \/ UNCHANGED vars
  <2>1. UNCHANGED <<pc, draft>>
    BY <1>3 DEF MonitorMatches, MonitorFails, Expire, Terminated, vars, main
  <2> QED
    BY <2>1 DEF StopHolds
<1> QED
  BY <1>1, <1>2, <1>3 DEF Next

LEMMA AgreementStep ==
  ASSUME IInv, DraftAgrees, CheckAgreesWithState, [Next]_vars
  PROVE  CheckAgreesWithState'
<1> SUFFICES ASSUME NEW t \in Task
             PROVE  result'[t].status = "cancelled" <=> result'[t].state = "cancelled"
  BY DEF CheckAgreesWithState
<1>0. TypeOK
  BY DEF IInv
<1>1. CASE result'[t] = result[t]
  BY <1>1 DEF CheckAgreesWithState
<1>2. CASE RecordRefusal /\ result'[t] = RefusedResult
  BY <1>2 DEF RecordRefusal, RefusedResult, DraftAgrees
<1>3. CASE Worker(t)
  <2>1. ASSUME NEW s \in ExecutionStatus, NEW a \in Assessment
        PROVE  Ran(s, a).status = s /\ Ran(s, a).state = s
    BY DEF Ran
  <2> QED
    BY <1>0, <1>1, <1>3, <2>1, WorkerEffect
<1> QED
  BY <1>1, <1>2, <1>3, TaskStep

\* A task's check is CANCELLED exactly when its execution is "cancelled", in
\* every run whose stop() does not change its answer between the check of a
\* refused task and the state of its execution (probes.py:622 and 635): there is
\* no other cause of a disagreement, and no run_task has one.
THEOREM AgreementNeedsOneAnswer == Spec /\ [][StopHolds]_vars => []CheckAgreesWithState
<1>1. Init => DraftAgrees /\ CheckAgreesWithState
  BY DEF Init, DraftAgrees, CheckAgreesWithState, NoResult
<1>2. /\ IInv /\ DraftAgrees /\ CheckAgreesWithState /\ [Next]_vars /\ [StopHolds]_vars
      => (DraftAgrees /\ CheckAgreesWithState)'
  <2> SUFFICES ASSUME IInv, DraftAgrees, CheckAgreesWithState, [Next]_vars, [StopHolds]_vars
               PROVE  (DraftAgrees /\ CheckAgreesWithState)'
    OBVIOUS
  <2>1. CASE UNCHANGED vars
    BY <2>1 DEF vars, main, environment, DraftAgrees, CheckAgreesWithState, Stop, Triggered
  <2> QED
    BY <2>1, DraftStep, AgreementStep
<1> QED
  BY <1>1, <1>2, Invariance, PTL DEF Spec

-----------------------------------------------------------------------------
(* The safety half of Terminates.  The loop of run() ends because every pass  *)
(* accounts for a task that was not accounted for when the pass began.  Where *)
(* a pass began is not part of the state: start, a history variable, keeps    *)
(* the tasks that the loop condition counted last.                            *)

VARIABLE start

Mark == start' = IF Collect THEN executed' ELSE start
Marked == start = {} /\ [][Mark]_<<vars, start>>

\* A set of naturals that is not empty has a smallest element.
LEMMA Smallest ==
  ASSUME NEW T, T \subseteq Nat, T # {}
  PROVE  \E x \in T : \A y \in T : x <= y
<1>1. PICK x \in T : \A y \in T : <<y, x>> \notin OpToRel(<, Nat)
  BY NatLessThanWellFounded, WFMin, Zenon
<1>2. \A y \in T : ~(y < x)
  BY <1>1 DEF OpToRel
<1> QED
  BY <1>2

\* Some task outside a set that leaves tasks out waits for nothing outside it:
\* a valid plan has no cycle.
LEMMA SomeTaskIsReady ==
  ASSUME NEW p \in Plans, NEW S \in SUBSET Task, S # Task
  PROVE  \E t \in Task \ S : p.depends_on[t] \subseteq S
<1>1. PICK rank \in [Task -> Task] :
        \A t \in Task : \A d \in p.depends_on[t] : rank[d] < rank[t]
  BY PlansAssumption DEF ValidPlan, Acyclic
<1> DEFINE ranks == {rank[t] : t \in Task \ S}
<1>2. ranks \subseteq Nat /\ ranks # {}
  <2>1. \E t \in Task : t \notin S
    OBVIOUS
  <2>2. \A t \in Task : rank[t] \in Nat
    BY NAssumption DEF Task
  <2> QED
    BY <2>1, <2>2
<1> HIDE DEF ranks
<1>3. PICK low \in ranks : \A r \in ranks : low <= r
  BY <1>2, Smallest
<1>4. PICK t \in Task \ S : rank[t] = low
  BY <1>3 DEF ranks
<1>5. ASSUME NEW d \in p.depends_on[t] PROVE d \in S
  <2>1. d \in Task /\ rank[d] < rank[t]
    BY <1>1, PlanFields
  <2>2. CASE d \notin S
    <3>1. rank[d] \in ranks
      BY <2>1, <2>2 DEF ranks
    <3>2. low <= rank[d] /\ low \in Nat /\ rank[d] \in Nat
      BY <1>2, <1>3, <3>1
    <3> QED
      BY <1>4, <2>1, <3>2
  <2> QED
    BY <2>2
<1> QED
  BY <1>5

\* A pass that went by a task it could have counted has the task in its wave,
\* or another one, or has recorded a refusal.
PassInv ==
  /\ start \subseteq executed
  /\ pc # "done" => start # Task
  /\ pc = "await" => cursor = N + 1
  /\ pc \notin {"done", "raised"} =>
       \A t \in Task : t < cursor /\ t \notin start /\ plan.depends_on[t] \subseteq start =>
          ready # {} \/ executed # start

LEMMA PassStep ==
  ASSUME IInv, PassInv, [Next]_vars, Mark
  PROVE  PassInv'
<1>0. TypeOK /\ RefusalInv /\ WaveInv /\ plan' = plan /\ executed \subseteq executed'
  BY StepFacts DEF IInv
<1>c. cursor \in 1..N + 1 /\ N \in Nat /\ Task = 1..N /\ executed \subseteq Task
  BY <1>0, NAssumption DEF TypeOK, Task
<1>1. CASE Collect
  <2>1. start' = executed' /\ cursor' = 1 /\ (pc' # "done" => executed' # Task) /\ pc' # "await"
    BY <1>1 DEF Collect, Mark
  <2>2. \A t \in Task : ~(t < cursor')
    BY <1>c, <2>1
  <2> QED
    BY <2>1, <2>2 DEF PassInv
<1>2. CASE ~Collect
  <2>0. start' = start
    BY <1>2 DEF Mark
  <2>1. CASE ScanPast
    <3>1. cursor \in Task /\ pc = "scan" /\ ~Pending(cursor) /\ cursor' = cursor + 1
          /\ UNCHANGED <<pc, ready, executed>>
      BY <2>1 DEF ScanPast, Scanning
    <3>2. ASSUME NEW t \in Task, t < cursor', t \notin start, plan.depends_on[t] \subseteq start
          PROVE  ready # {} \/ executed # start
      <4>1. CASE t = cursor
        BY <3>1, <3>2, <4>1 DEF Pending, PassInv
      <4>2. CASE t # cursor
        <5>1. t < cursor
          BY <1>c, <3>1, <3>2, <4>2
        <5> QED
          BY <3>1, <3>2, <5>1 DEF PassInv
      <4> QED
        BY <4>1, <4>2
    <3> QED
      BY <1>0, <2>0, <3>1, <3>2 DEF PassInv
  <2>2. CASE ScanDefer \/ ScanTake
    <3>1. ready' # {} /\ pc = "scan" /\ UNCHANGED <<pc, executed>>
      BY <2>2 DEF ScanDefer, ScanTake, Scanning, Conflicts
    <3> QED
      BY <2>0, <3>1 DEF PassInv
  <2>3. CASE RecordRefusal
    <3>1. cursor \in executed' /\ cursor \notin executed /\ pc = "state" /\ pc' = "scan"
      BY <1>0, <2>3 DEF RecordRefusal, RefusalInv, Pending
    <3>2. executed' # start' /\ start' \subseteq executed' /\ start' # Task
      BY <1>0, <2>0, <3>1 DEF PassInv
    <3> QED
      BY <3>1, <3>2 DEF PassInv
  <2>4. CASE ScanRefuse \/ ClassifyRefusal \/ WriteRefusedCheck \/ Submit
    <3>1. UNCHANGED <<cursor, ready, executed>> /\ pc \notin {"done", "raised"} /\ pc' # "done"
          /\ (pc' = "await" => cursor = N + 1)
      BY <2>4 DEF ScanRefuse, ClassifyRefusal, WriteRefusedCheck, Submit, Scanning
    <3> QED
      BY <1>0, <2>0, <3>1 DEF PassInv
  <2>5. CASE CollectException
    <3>1. UNCHANGED executed /\ pc = "await" /\ pc' = "raised"
      BY <2>5 DEF CollectException
    <3> QED
      BY <2>0, <3>1 DEF PassInv
  <2>6. CASE UNCHANGED <<pc, cursor, ready, executed>>
    BY <1>0, <2>0, <2>6 DEF PassInv
  <2>7. ASSUME NEW t \in Task, Worker(t) PROVE PassInv'
    BY <1>0, <2>6, <2>7, WorkerEffect
  <2>8. CASE MonitorMatches \/ MonitorFails \/ Expire \/ Terminated \/ UNCHANGED vars
    BY <2>6, <2>8 DEF MonitorMatches, MonitorFails, Expire, Terminated, vars, main
  <2> QED
    BY <1>2, <2>1, <2>2, <2>3, <2>4, <2>5, <2>7, <2>8 DEF Next, Main
<1> QED
  BY <1>1, <1>2

\* A step that marks nothing keeps what a pass knows.
LEMMA PassStutter == PassInv /\ UNCHANGED <<vars, start>> => PassInv'
BY DEF PassInv, vars, main

LEMMA PassAccounts ==
  ASSUME IInv, PassInv, Collect
  PROVE  start \subseteq executed' /\ start # executed'
<1>0. TypeOK /\ WaveInv /\ start \in SUBSET Task /\ start # Task /\ pc = "await" /\ cursor = N + 1
  BY DEF IInv, TypeOK, PassInv, Collect
<1>1. PICK t \in Task \ start : plan.depends_on[t] \subseteq start
  BY <1>0, SomeTaskIsReady DEF TypeOK
<1>2. t < cursor
  BY <1>0, NAssumption DEF Task
<1>3. ready # {} \/ executed # start
  BY <1>0, <1>1, <1>2 DEF PassInv
<1>4. executed' = executed \cup ready /\ ready \cap executed = {}
  BY <1>0 DEF Collect, WaveInv, TypeOK
<1> QED
  BY <1>3, <1>4 DEF PassInv

\* Every pass of the loop of run() accounts for a task that was not accounted
\* for before it, whatever stop() answers, whatever the tasks claim and in
\* whichever order the plan lists them: N passes are enough.
THEOREM EveryPassAccounts ==
  Spec /\ Marked => [][Collect => start \subseteq executed' /\ start # executed']_<<vars, start>>
<1>1. Init /\ start = {} => PassInv
  <2> SUFFICES ASSUME Init, start = {} PROVE PassInv
    OBVIOUS
  <2>1. Task # {} /\ \A t \in Task : ~(t < cursor)
    BY NAssumption DEF Init, Task
  <2> QED
    BY <2>1 DEF Init, PassInv
<1>2. IInv /\ PassInv /\ [Next]_vars /\ [Mark]_<<vars, start>> => PassInv'
  BY PassStep, PassStutter
<1>3. IInv /\ PassInv =>
        [Collect => start \subseteq executed' /\ start # executed']_<<vars, start>>
  BY PassAccounts
<1> QED
  BY <1>1, <1>2, <1>3, Invariance, PTL DEF Spec, Marked

\* Where the main thread is within a pass.
Place ==
  4 * cursor + CASE pc \in {"classify", "await", "done"} -> 1
                 [] pc \in {"check", "raised"} -> 2
                 [] pc = "state" -> 3
                 [] OTHER -> 0

\* Where a worker is within run_task.
Stage(t) ==
  CASE worker[t] = "idle" -> 0
    [] worker[t] = "queued" -> 1
    [] worker[t] = "asked" -> 2
    [] worker[t] = "performing" -> 3
    [] worker[t] = "unsafe" -> 4
    [] OTHER -> 5

\* A step of run_task moves it on.
LEMMA WorkerAdvances ==
  ASSUME TypeOK, NEW t \in Task, Worker(t)
  PROVE  Stage(t) < Stage(t)'
<1>1. /\ \/ worker[t] = "queued" /\ worker'[t] \in {"asked", "unsafe"}
         \/ worker[t] = "asked" /\ worker'[t] \in {"performing", "finished"}
         \/ worker[t] = "performing" /\ worker'[t] \in {"finished", "raised", "unsafe"}
         \/ worker[t] = "unsafe" /\ worker'[t] = "finished"
  BY DEF Worker, Begin, Start, PerformEnds, PerformCancelled, ReportUnsafe, Finish, Move, Cancel, TypeOK
<1> QED
  BY <1>1 DEF Stage

\* Within a pass the main thread only advances, and no worker ever goes back:
\* with EveryPassAccounts, the main thread and the workers take finitely many
\* steps.
THEOREM StepsAdvance ==
  Spec => [][/\ Main /\ ~Collect => Place < Place'
             /\ \A t \in Task : Stage(t) <= Stage(t)' /\ (Worker(t) => Stage(t) < Stage(t)')]_vars
<1>1. ASSUME IInv, [Next]_vars, Main, ~Collect PROVE Place < Place'
  <2>0. cursor \in Nat /\ RefusalInv
    BY <1>1, NAssumption DEF IInv, TypeOK
  <2>1. CASE ScanPast \/ ScanDefer \/ RecordRefusal
    <3>1. cursor' = cursor + 1 /\ pc \in {"scan", "state"} /\ pc' = "scan"
      BY <2>1 DEF ScanPast, ScanDefer, RecordRefusal, Scanning
    <3> QED
      BY <2>0, <3>1 DEF Place
  <2>2. CASE ScanTake
    <3>1. cursor' \in {cursor + 1, N + 1} /\ cursor \in 1..N /\ pc = "scan" /\ pc' = "scan"
      BY <2>2 DEF ScanTake, Scanning, Task
    <3>2. cursor' \in Nat /\ cursor < cursor'
      BY <3>1, NAssumption
    <3> QED
      BY <2>0, <3>1, <3>2 DEF Place
  <2>3. CASE ScanRefuse \/ ClassifyRefusal \/ WriteRefusedCheck \/ Submit \/ CollectException
    <3>1. /\ cursor' = cursor
          /\ \/ pc = "scan" /\ pc' \in {"classify", "await"}
             \/ pc = "classify" /\ pc' = "check"
             \/ pc = "check" /\ pc' = "state"
             \/ pc = "await" /\ pc' = "raised"
      BY <2>3 DEF ScanRefuse, ClassifyRefusal, WriteRefusedCheck, Submit, CollectException, Scanning
    <3> QED
      BY <2>0, <3>1 DEF Place
  <2> QED
    BY <1>1, <2>1, <2>2, <2>3 DEF Main
<1>2. ASSUME IInv, [Next]_vars, NEW t \in Task PROVE Stage(t) <= Stage(t)'
  <2>1. TypeOK
    BY <1>2 DEF IInv
  <2>2. CASE worker'[t] = worker[t]
    BY <2>2 DEF Stage
  <2>3. CASE worker[t] = "idle" /\ worker'[t] = "queued"
    BY <2>3 DEF Stage
  <2>4. CASE Worker(t)
    <3>1. Stage(t) \in Nat /\ Stage(t)' \in Nat
      BY DEF Stage
    <3> QED
      BY <2>1, <2>4, <3>1, WorkerAdvances
  <2> QED
    BY <1>2, <2>2, <2>3, <2>4, TaskStep
<1>3. ASSUME IInv, NEW t \in Task, Worker(t) PROVE Stage(t) < Stage(t)'
  BY <1>3, WorkerAdvances DEF IInv
<1>4. IInv /\ [Next]_vars =>
        [/\ Main /\ ~Collect => Place < Place'
         /\ \A t \in Task : Stage(t) <= Stage(t)' /\ (Worker(t) => Stage(t) < Stage(t)')]_vars
  BY <1>1, <1>2, <1>3
<1> QED
  BY <1>4, Invariance, PTL DEF Spec
=============================================================================
