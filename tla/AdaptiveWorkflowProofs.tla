----------------------- MODULE AdaptiveWorkflowProofs -----------------------
(***************************************************************************)
(* The adaptive graph keeps its budgets, its records and its plan, for any *)
(* tasks, proposals and budgets.                                           *)
(***************************************************************************)
EXTENDS AdaptiveWorkflow, FiniteSetTheorems, TLAPS

\* The deterministic rules read the plan and the records alone.
LEMMA SameRules ==
  ASSUME UNCHANGED <<plan, records>>
  PROVE  /\ PlanIds' = PlanIds /\ BlockedIds' = BlockedIds /\ ReadyIds' = ReadyIds
         /\ \A t : Task(t)' = Task(t) /\ (Completed(t)' <=> Completed(t))
         /\ \A t, u : Conflict(t, u)' <=> Conflict(t, u)
         /\ ValidRecords' <=> ValidRecords
         /\ Settled' <=> Settled
         /\ GoalMet' <=> GoalMet
         /\ RequiredBlocked' <=> RequiredBlocked
         /\ RequiredCompleted' <=> RequiredCompleted
         /\ ValidTrials' = ValidTrials
<1> USE DEF PlanIds, IdsOf, At, Task, LastStatus, Completed, Exhausted
<1>1. BlockedIds' = BlockedIds
  BY DEF BlockedIds
<1>2. ReadyIds' = ReadyIds
  BY <1>1 DEF ReadyIds
<1>3. \A t, u : Conflict(t, u)' <=> Conflict(t, u)
  BY DEF Conflict
<1>4. ValidRecords' <=> ValidRecords
  BY DEF ValidRecords
<1>5. Settled' <=> Settled
  BY <1>1 DEF Settled
<1>6. GoalMet' <=> GoalMet
  BY DEF GoalMet, Met
<1>7. RequiredBlocked' <=> RequiredBlocked
  BY <1>1 DEF RequiredBlocked
<1>8. RequiredCompleted' <=> RequiredCompleted
  BY DEF RequiredCompleted
<1>9. ValidTrials' = ValidTrials
  BY DEF ValidTrials
<1> QED BY <1>1, <1>2, <1>3, <1>4, <1>5, <1>6, <1>7, <1>8, <1>9

-----------------------------------------------------------------------------
(* Facts about admitted plans.                                               *)

\* In an admitted plan an identifier names one position.
LEMMA Named ==
  ASSUME Admitted, NEW i \in DOMAIN plan.tasks
  PROVE  At(plan.tasks[i].id) = i
<1>1. \A j \in DOMAIN plan.tasks : j # i => plan.tasks[j].id # plan.tasks[i].id
  BY DEF Admitted, ValidPlan
<1> QED BY <1>1 DEF At

\* A task that depends on a blocked one is blocked, and so is an exhausted one.
LEMMA BlockedIsClosed ==
  ASSUME NEW t \in PlanIds,
         Exhausted(t) \/ Task(t).deps \cap BlockedIds # {}
  PROVE  t \in BlockedIds
<1>1. SUFFICES ASSUME NEW B \in SUBSET PlanIds,
                      \A u \in PlanIds : Exhausted(u) => u \in B,
                      \A u \in PlanIds : Task(u).deps \cap B # {} => u \in B
               PROVE  t \in B
  BY DEF BlockedIds
<1>2. BlockedIds \subseteq B
  BY <1>1 DEF BlockedIds
<1> QED BY <1>1, <1>2

\* ready_tasks strands nothing: when it finds no task, every task has completed
\* or is blocked.  Acyclicity is what makes this true.
LEMMA NothingStranded ==
  ASSUME Admitted, ReadyIds = {}
  PROVE  Settled
<1> DEFINE Open == {t \in PlanIds : ~Completed(t) /\ t \notin BlockedIds}
<1>1. SUFFICES ASSUME Open # {} PROVE FALSE
  BY DEF Settled
<1>2. Open \in (SUBSET IdsOf(plan.tasks)) \ {{}}
  BY <1>1 DEF PlanIds
<1>3. PICK i \in DOMAIN plan.tasks :
        plan.tasks[i].id \in Open /\ plan.tasks[i].deps \cap Open = {}
  BY <1>2 DEF Admitted, ValidPlan, Acyclic
<1> DEFINE t == plan.tasks[i].id
<1>4. Task(t) = plan.tasks[i]
  BY Named DEF Task
<1>5. Task(t).deps \subseteq PlanIds
  BY <1>4 DEF Admitted, ValidPlan, PlanIds
<1>6. Task(t).deps \cap BlockedIds = {}
  BY <1>3, BlockedIsClosed
<1>7. \A d \in Task(t).deps : Completed(d)
  BY <1>3, <1>4, <1>5, <1>6
<1>8. t \in ReadyIds
  BY <1>3, <1>7 DEF ReadyIds
<1> QED BY <1>8

\* A task that may run has attempts left, and none of them completed.
LEMMA ReadyHasAttempts ==
  ASSUME TypeOK, ValidRecords, NEW t \in PlanIds, t \in Ids,
         t \notin BlockedIds, ~Completed(t)
  PROVE  /\ Len(records[t]) + 1 <= MaxAttempts
         /\ \A n \in 1..Len(records[t]) : records[t][n].status # "completed"
<1>1. records[t] \in Seq(Record)
  BY DEF TypeOK
<1>2. \A n \in 1..Len(records[t]) : records[t][n].status # "completed"
  BY <1>1 DEF ValidRecords, Completed, LastStatus
<1>3. Len(records[t]) \in Nat /\ Len(records[t]) <= MaxAttempts /\ MaxAttempts \in Nat \ {0}
  BY <1>1, BudgetAssumption DEF ValidRecords
<1>4. ~Exhausted(t)
  BY BlockedIsClosed
<1>5. Len(records[t]) # MaxAttempts
  <2>1. SUFFICES ASSUME Len(records[t]) = MaxAttempts PROVE FALSE
    OBVIOUS
  <2>2. Len(records[t]) \in 1..Len(records[t]) /\ records[t] # << >>
    BY <1>1, <1>3, <2>1
  <2>3. records[t][Len(records[t])] \in Record
    BY <1>1, <2>2
  <2>4. records[t][Len(records[t])].status = "infrastructure_failure"
    BY <1>2, <2>2, <2>3 DEF Record, Status
  <2> QED BY <1>3, <1>4, <2>1, <2>2, <2>4 DEF Exhausted, LastStatus
<1> QED BY <1>2, <1>3, <1>5

LEMMA BudgetType ==
  ASSUME TypeOK
  PROVE  /\ budget.plan_versions \in Nat \ {0} /\ budget.model_calls \in Nat \ {0}
         /\ budget.tool_calls \in Nat \ {0}
         /\ plan.version \in Nat /\ (plan = NoPlan => plan.version = 0)
<1>1. \A p \in Proposals : p.version \in Nat
  BY ProposalsAssumption
<1> QED BY <1>1, BudgetAssumption DEF TypeOK, NoPlan

LEMMA PlanIdsAreIds ==
  ASSUME TypeOK
  PROVE  PlanIds \subseteq Ids
<1>1. CASE plan = NoPlan
  <2>1. plan.tasks = << >>
    BY <1>1 DEF NoPlan
  <2>2. DOMAIN << >> = {}
    OBVIOUS
  <2> QED BY <2>1, <2>2 DEF PlanIds, IdsOf
<1>2. CASE plan \in Proposals
  <2>1. \A i \in DOMAIN plan.tasks : plan.tasks[i].id \in Ids
    BY <1>2, ProposalsAssumption DEF IsTask
  <2> QED BY <2>1 DEF PlanIds, IdsOf
<1> QED BY <1>1, <1>2 DEF TypeOK

LEMMA NoBatch ==
  ASSUME Batch = {}
  PROVE  Cardinality(Batch) = 0
BY FS_EmptySet

\* Admission keeps every task of the previous plan at its position.
LEMMA RevisionAppends ==
  ASSUME TypeOK, plan' \in Proposals, ValidPlan(plan', plan)
  PROVE  \A i \in DOMAIN plan.tasks :
           i \in DOMAIN plan'.tasks /\ plan'.tasks[i] = plan.tasks[i]
<1>1. PICK S : plan.tasks \in Seq(S)
  <2>1. CASE plan = NoPlan
    BY <2>1 DEF NoPlan
  <2>2. CASE plan \in Proposals
    BY <2>2, ProposalsAssumption
  <2> QED BY <2>1, <2>2 DEF TypeOK
<1>2. PICK R : plan'.tasks \in Seq(R)
  BY ProposalsAssumption
<1>3. /\ Len(plan.tasks) <= Len(plan'.tasks)
      /\ SubSeq(plan.tasks, 1, Len(plan.tasks)) = SubSeq(plan'.tasks, 1, Len(plan.tasks))
  BY DEF ValidPlan, IsPrefix
<1>4. ASSUME NEW i \in 1..Len(plan.tasks)
      PROVE  plan'.tasks[i] = plan.tasks[i]
  <2>1. SubSeq(plan.tasks, 1, Len(plan.tasks))[i] = plan.tasks[i]
    BY <1>1
  <2>2. SubSeq(plan'.tasks, 1, Len(plan.tasks))[i] = plan'.tasks[i]
    BY <1>1, <1>2, <1>3
  <2> QED BY <1>3, <2>1, <2>2
<1> QED BY <1>1, <1>2, <1>3, <1>4

-----------------------------------------------------------------------------
(* The inductive invariant.                                                  *)

LEMMA InitIInv == Init => IInv
<1> SUFFICES ASSUME Init PROVE IInv
  OBVIOUS
<1>1. TypeOK
  <2>1. << >> \in Seq(Record)
    OBVIOUS
  <2>2. records \in [Ids -> Seq(Record)]
    BY <2>1 DEF Init
  <2> QED BY <2>2 DEF Init, TypeOK, Outcome, Explanation
<1>2. PlanIds = {} /\ Batch = {}
  <2>1. plan.tasks = << >>
    BY DEF Init, NoPlan
  <2>3. DOMAIN << >> = {}
    OBVIOUS
  <2>2. \A t \in Ids : sent[t] = 0
    BY DEF Init
  <2> QED BY <2>1, <2>2, <2>3 DEF PlanIds, IdsOf, Batch
<1>3. WithinBudget
  <2>1. plan.version = 0 /\ model_calls = 0 /\ tool_calls = 0
    BY DEF Init, NoPlan
  <2> QED BY <1>1, <1>2, <2>1, NoBatch, BudgetType DEF WithinBudget
<1>4. RecordsAreValid
  <2>1. \A t \in Ids : records[t] = << >>
    BY DEF Init
  <2>2. Len(<< >>) = 0 /\ 1..0 = {}
    OBVIOUS
  <2> QED BY <2>1, <2>2, BudgetAssumption DEF RecordsAreValid, ValidRecords
<1> USE DEF Init
<1>5. BatchIsCompatible
  BY <1>2 DEF BatchIsCompatible
<1>6. ReplansWhenSettled
  BY <1>2 DEF ReplansWhenSettled, Settled, RequiredBlocked
<1>7. OutcomeIsJustified
  BY DEF OutcomeIsJustified
<1> QED BY <1>1, <1>2, <1>3, <1>4, <1>5, <1>6, <1>7 DEF IInv

LEMMA Counters ==
  ASSUME IInv
  PROVE  /\ model_calls \in Nat /\ tool_calls \in Nat /\ plan.version \in Nat
         /\ tool_calls + Cardinality(Batch) <= budget.tool_calls
         /\ model_calls <= budget.model_calls /\ plan.version <= model_calls
         /\ budget.plan_versions \in Nat \ {0} /\ budget.model_calls \in Nat \ {0}
         /\ budget.tool_calls \in Nat \ {0}
<1>1. TypeOK /\ WithinBudget
  BY DEF IInv
<1>2. model_calls \in Nat /\ tool_calls \in Nat
  BY <1>1 DEF TypeOK
<1> QED BY <1>1, <1>2, BudgetType DEF WithinBudget

\* The graph ends with an outcome its records justify.
LEMMA EndStep ==
  ASSUME IInv, NEW result \in Outcome, NEW why \in Explanation, End(result, why),
         budget' = budget, model_calls' \in Nat,
         model_calls <= model_calls', model_calls' <= budget.model_calls,
         pc # "execute", pc # "raised",
         result = "goal_met" => GoalMet /\ RequiredCompleted,
         result = "not_met_within_budget" =>
           ~GoalMet /\ Cardinality(ValidTrials) >= MaxValidTrials,
         result = "inconclusive" =>
           ~GoalMet /\ Settled /\ \E t \in PlanIds : Completed(t),
         result = "blocked" /\ why = "none" => RequiredBlocked /\ Settled,
         result = "blocked" /\ why = "tool_call_budget" => tool_calls = budget.tool_calls
  PROVE  IInv'
<1> USE DEF End
<1>1. TypeOK'
  BY DEF IInv, TypeOK
<1>2. Batch' = Batch
  BY DEF Batch
<1>3. plan' \in Proposals \cup {NoPlan} /\ plan.version \in Nat
  BY Counters DEF IInv, TypeOK
<1>4. WithinBudget'
  <2>1. plan.version <= model_calls'
    BY Counters
  <2> QED BY <1>2, <2>1 DEF IInv, WithinBudget
<1>5. RecordsAreValid'
  BY SameRules DEF IInv, RecordsAreValid
<1>6. BatchIsCompatible'
  BY <1>2, SameRules DEF IInv, BatchIsCompatible
<1>7. ReplansWhenSettled'
  BY DEF ReplansWhenSettled
<1>8. OutcomeIsJustified'
  BY SameRules DEF OutcomeIsJustified
<1>9. plan' # NoPlan => Admitted'
  BY DEF IInv, Admitted, ValidPlan
<1> QED BY <1>1, <1>2, <1>4, <1>5, <1>6, <1>7, <1>8, <1>9 DEF IInv

LEMMA ModelCallsSpentStep == IInv /\ ModelCallsSpent => IInv'
<1> SUFFICES ASSUME IInv, ModelCallsSpent PROVE IInv'
  OBVIOUS
<1>1. /\ model_calls' \in Nat /\ model_calls <= model_calls'
      /\ model_calls' <= budget.model_calls /\ budget' = budget
  BY Counters DEF ModelCallsSpent, End
<1>2. "blocked" \in Outcome /\ "model_call_budget" \in Explanation
  BY DEF Outcome, Explanation
<1> QED BY <1>1, <1>2, EndStep DEF ModelCallsSpent, End

LEMMA VersionsSpentStep == IInv /\ VersionsSpent => IInv'
<1> SUFFICES ASSUME IInv, VersionsSpent PROVE IInv'
  OBVIOUS
<1>1. plan # NoPlan
  <2>1. TypeOK
    BY DEF IInv
  <2>2. plan.version >= budget.plan_versions
    BY DEF VersionsSpent
  <2> QED BY <2>1, <2>2, BudgetType
<1>2. ~GoalMet /\ Settled
  BY <1>1 DEF IInv, ReplansWhenSettled, VersionsSpent
<1>3. /\ model_calls' \in Nat /\ model_calls <= model_calls'
      /\ model_calls' <= budget.model_calls /\ budget' = budget
  BY Counters DEF VersionsSpent, End
<1>4. {"inconclusive", "blocked"} \subseteq Outcome /\ "plan_version_budget" \in Explanation
  BY DEF Outcome, Explanation
<1>5. CASE \E t \in PlanIds : Completed(t)
  BY <1>2, <1>3, <1>4, <1>5, EndStep DEF VersionsSpent, End
<1>6. CASE ~\E t \in PlanIds : Completed(t)
  BY <1>3, <1>4, <1>6, EndStep DEF VersionsSpent, End
<1> QED BY <1>5, <1>6

LEMMA RejectProposalStep == IInv /\ RejectProposal => IInv'
<1> SUFFICES ASSUME IInv, RejectProposal PROVE IInv'
  OBVIOUS
<1>2. /\ model_calls' \in Nat /\ model_calls <= model_calls'
      /\ model_calls' <= budget.model_calls /\ budget' = budget
  BY Counters DEF RejectProposal, MayPropose, End
<1>3. "blocked" \in Outcome /\ "plan_rejected" \in Explanation
  BY DEF Outcome, Explanation
<1> QED BY <1>2, <1>3, EndStep DEF RejectProposal, MayPropose, End

LEMMA TimeUpStep == IInv /\ TimeUp => IInv'
<1> SUFFICES ASSUME IInv, TimeUp PROVE IInv'
  OBVIOUS
<1>1. /\ model_calls' \in Nat /\ model_calls <= model_calls'
      /\ model_calls' <= budget.model_calls /\ budget' = budget
  BY Counters DEF TimeUp, End
<1>2. "blocked" \in Outcome /\ "elapsed_time_budget" \in Explanation
  BY DEF Outcome, Explanation
<1> QED BY <1>1, <1>2, EndStep DEF TimeUp, End

LEMMA ToolCallsSpentStep == IInv /\ ToolCallsSpent => IInv'
<1> SUFFICES ASSUME IInv, ToolCallsSpent PROVE IInv'
  OBVIOUS
<1>1. Cardinality(Batch) = 0
  BY NoBatch DEF IInv, ToolCallsSpent
<1>2. /\ model_calls' \in Nat /\ model_calls <= model_calls'
      /\ model_calls' <= budget.model_calls /\ budget' = budget
  BY Counters DEF ToolCallsSpent, End
<1>3. tool_calls = budget.tool_calls
  <2>1. budget.tool_calls \in Nat /\ tool_calls \in Nat
    BY Counters
  <2> QED BY <1>1, <2>1, Counters DEF ToolCallsSpent, Remaining
<1>4. "blocked" \in Outcome /\ "tool_call_budget" \in Explanation
  BY DEF Outcome, Explanation
<1> QED BY <1>2, <1>3, <1>4, EndStep DEF ToolCallsSpent, End

LEMMA ConcludeStep == IInv /\ Conclude => IInv'
<1> SUFFICES ASSUME IInv, Conclude PROVE IInv'
  OBVIOUS
<1>1. Admitted
  BY DEF IInv, Conclude
<1>2. explanation = "none"
  BY DEF IInv, Conclude
<1>3. /\ model_calls' \in Nat /\ model_calls <= model_calls'
      /\ model_calls' <= budget.model_calls /\ budget' = budget
      /\ "none" \in Explanation
  BY Counters DEF Explanation, Conclude, End
<1>4. CASE RequiredBlocked
  <2>1. CurrentOutcome = "blocked" /\ ReadyIds = {}
    BY <1>4 DEF CurrentOutcome, Conclude
  <2>2. Settled
    BY <1>1, <2>1, NothingStranded
  <2>3. "blocked" \in Outcome
    BY DEF Outcome
  <2> QED BY <1>2, <1>3, <1>4, <2>1, <2>2, <2>3, EndStep DEF Conclude, End
<1>5. CASE ~RequiredBlocked
  <2>1. \/ CurrentOutcome = "goal_met" /\ GoalMet /\ RequiredCompleted
        \/ /\ CurrentOutcome = "not_met_within_budget"
           /\ ~GoalMet /\ Cardinality(ValidTrials) >= MaxValidTrials
    BY <1>5 DEF CurrentOutcome, Conclude
  <2>2. {"goal_met", "not_met_within_budget"} \subseteq Outcome
    BY DEF Outcome
  <2>3. CASE CurrentOutcome = "goal_met" /\ GoalMet /\ RequiredCompleted
    BY <1>2, <1>3, <2>2, <2>3, EndStep DEF Conclude, End
  <2>4. CASE /\ CurrentOutcome = "not_met_within_budget"
             /\ ~GoalMet /\ Cardinality(ValidTrials) >= MaxValidTrials
    BY <1>2, <1>3, <2>2, <2>4, EndStep DEF Conclude, End
  <2> QED BY <2>1, <2>3, <2>4
<1> QED BY <1>4, <1>5

\* A revision keeps every identifier, so every record still has its task.
LEMMA AcceptProposalStep == IInv /\ AcceptProposal => IInv'
<1> SUFFICES ASSUME IInv, AcceptProposal PROVE IInv'
  OBVIOUS
<1>0. TypeOK /\ budget' = budget /\ Batch = {}
  BY DEF IInv, AcceptProposal, MayPropose
<1>1. plan' \in Proposals /\ ValidPlan(plan', plan)
  BY DEF AcceptProposal
<1>2. TypeOK'
  BY <1>0, <1>1, Counters DEF TypeOK, AcceptProposal, Explanation
<1>3. Batch' = {}
  BY <1>0 DEF Batch, AcceptProposal
<1>4. WithinBudget'
  <2>1. plan'.version = plan.version + 1
    BY <1>1 DEF ValidPlan
  <2>2. model_calls' = model_calls + 1 /\ tool_calls' = tool_calls
    BY DEF AcceptProposal
  <2>3. model_calls < budget.model_calls /\ plan.version < budget.plan_versions
    BY DEF AcceptProposal, MayPropose
  <2> QED BY <1>0, <1>3, <2>1, <2>2, <2>3, Counters DEF WithinBudget
<1>5. PlanIds \subseteq PlanIds'
  BY <1>0, <1>1, RevisionAppends DEF PlanIds, IdsOf
<1>6. RecordsAreValid'
  <2>1. records' = records
    BY DEF AcceptProposal
  <2> QED BY <1>5, <2>1 DEF IInv, RecordsAreValid, ValidRecords
<1>7. BatchIsCompatible'
  BY <1>3 DEF BatchIsCompatible
<1>8. ReplansWhenSettled' /\ OutcomeIsJustified'
  BY DEF IInv, AcceptProposal, MayPropose, ReplansWhenSettled, OutcomeIsJustified
<1>9. Admitted' /\ plan' # NoPlan
  <2>1. plan'.version # 0
    BY <1>1, ProposalsAssumption
  <2>2. Admitted'
    BY <1>0, <1>1 DEF Admitted, TypeOK, ValidPlan
  <2> QED BY <2>1, <2>2 DEF NoPlan
<1> QED BY <1>0, <1>2, <1>3, <1>4, <1>6, <1>7, <1>8, <1>9
        DEF IInv, AcceptProposal, MayPropose

LEMMA DispatchStep == IInv /\ Dispatch => IInv'
<1> SUFFICES ASSUME IInv, Dispatch PROVE IInv'
  OBVIOUS
<1>1. PICK batch \in (SUBSET ReadyIds) \ {{}} :
        /\ IsBatch(batch, Remaining)
        /\ sent' = [t \in Ids |-> IF t \in batch THEN Len(records[t]) + 1 ELSE 0]
  BY DEF Dispatch
<1>2. UNCHANGED <<budget, plan, records, model_calls, tool_calls, reply, outcome, explanation>>
      /\ pc = "coordinate" /\ pc' = "execute"
  BY DEF Dispatch
<1>3. \A t \in Ids : Len(records[t]) \in Nat
  BY DEF IInv, TypeOK
<1>4. TypeOK'
  <2>1. sent' \in [Ids -> Nat]
    BY <1>1, <1>3
  <2> QED BY <1>2, <2>1 DEF IInv, TypeOK
<1>5. Batch' \subseteq batch /\ \A t \in Batch' : sent'[t] = Len(records[t]) + 1
  BY <1>1 DEF Batch
<1>6. Cardinality(Batch') <= Remaining /\ Cardinality(Batch') \in Nat
  <2>1. batch \subseteq PlanIds /\ Cardinality(batch) <= Remaining
    BY <1>1 DEF IsBatch, ReadyIds
  <2>2. PlanIds \subseteq Ids
    BY PlanIdsAreIds DEF IInv
  <2>3. IsFiniteSet(batch)
    BY <2>1, <2>2, IdsAssumption, FS_Subset
  <2>4. Cardinality(Batch') <= Cardinality(batch)
        /\ Cardinality(Batch') \in Nat /\ Cardinality(batch) \in Nat
    BY <1>5, <2>3, FS_Subset, FS_CardinalityType
  <2>5. Remaining \in Int
    BY Counters DEF Remaining
  <2> QED BY <2>1, <2>4, <2>5
<1>7. WithinBudget'
  BY <1>2, <1>6, Counters DEF IInv, WithinBudget, Remaining
<1>8. RecordsAreValid'
  BY <1>2, SameRules DEF IInv, RecordsAreValid
<1>9. BatchIsCompatible'
  <2>1. \A t, u \in batch : t # u => ~Conflict(t, u)
    BY <1>1 DEF IsBatch
  <2> QED BY <1>1, <1>2, <1>5, <2>1, SameRules DEF BatchIsCompatible, ReadyIds
<1>10. ReplansWhenSettled' /\ OutcomeIsJustified'
  BY <1>2 DEF IInv, ReplansWhenSettled, OutcomeIsJustified
<1>11. Admitted' <=> Admitted
  BY <1>2 DEF Admitted, ValidPlan
<1>12. \A t \in Ids : reply'[t] = NoReply
  BY <1>2 DEF IInv
<1> QED BY <1>2, <1>4, <1>7, <1>8, <1>9, <1>10, <1>11, <1>12 DEF IInv

LEMMA ReplanStep == IInv /\ Replan => IInv'
<1> SUFFICES ASSUME IInv, Replan PROVE IInv'
  OBVIOUS
<1>1. UNCHANGED <<budget, plan, records, model_calls, tool_calls, sent, reply,
                  outcome, explanation>> /\ pc = "coordinate" /\ pc' = "plan"
  BY DEF Replan
<1>2. TypeOK'
  BY <1>1 DEF IInv, TypeOK
<1>3. Batch' = Batch
  BY <1>1 DEF Batch
<1>4. WithinBudget'
  BY <1>1, <1>3 DEF IInv, WithinBudget
<1>5. RecordsAreValid' /\ OutcomeIsJustified'
  BY <1>1, SameRules DEF IInv, RecordsAreValid, OutcomeIsJustified
<1>6. BatchIsCompatible'
  BY <1>1, <1>3, SameRules DEF IInv, BatchIsCompatible
<1>7. ReplansWhenSettled'
  <2>1. Settled
    BY <1>1, NothingStranded DEF IInv, Replan
  <2>2. ~RequiredBlocked
    BY DEF Replan, CurrentOutcome
  <2>3. RequiredCompleted
    BY <2>1, <2>2 DEF Settled, RequiredBlocked, RequiredCompleted
  <2>4. ~GoalMet
    BY <2>2, <2>3 DEF Replan, CurrentOutcome
  <2> QED BY <1>1, <2>1, <2>2, <2>4, SameRules DEF ReplansWhenSettled
<1>8. Admitted' <=> Admitted
  BY <1>1 DEF Admitted, ValidPlan
<1> QED BY <1>1, <1>2, <1>3, <1>4, <1>5, <1>6, <1>7, <1>8 DEF IInv

LEMMA ExecuteStep ==
  ASSUME NEW t \in Ids, IInv, Execute(t)
  PROVE  IInv'
<1>1. UNCHANGED <<budget, pc, plan, records, model_calls, tool_calls, sent,
                  outcome, explanation>> /\ pc = "execute" /\ t \in Batch
  BY DEF Execute, Waiting
<1>2. PICK status \in Status, met \in BOOLEAN :
        reply' = [reply EXCEPT ![t] = [attempt |-> sent[t], status |-> status, met |-> met]]
  BY DEF Execute
<1>3. sent[t] \in Nat \ {0}
  BY <1>1 DEF IInv, TypeOK, Batch
<1>4. [attempt |-> sent[t], status |-> status, met |-> met] \in Record
  BY <1>3 DEF Record
<1>5. TypeOK'
  BY <1>1, <1>2, <1>4 DEF IInv, TypeOK
<1>6. Batch' = Batch
  BY <1>1 DEF Batch
<1>7. WithinBudget'
  BY <1>1, <1>6 DEF IInv, WithinBudget
<1>8. RecordsAreValid' /\ OutcomeIsJustified'
  BY <1>1, SameRules DEF IInv, RecordsAreValid, OutcomeIsJustified
<1>9. BatchIsCompatible'
  BY <1>1, <1>6, SameRules DEF IInv, BatchIsCompatible
<1>10. ReplansWhenSettled'
  BY <1>1 DEF ReplansWhenSettled
<1>11. Admitted' <=> Admitted
  BY <1>1 DEF Admitted, ValidPlan
<1>12. \A u \in Ids : reply'[u] # NoReply => u \in Batch /\ reply'[u].attempt = sent[u]
  BY <1>1, <1>2 DEF IInv, TypeOK
<1> QED BY <1>1, <1>5, <1>6, <1>7, <1>8, <1>9, <1>10, <1>11, <1>12 DEF IInv

LEMMA RaiseStep ==
  ASSUME NEW t \in Ids, IInv, Raise(t)
  PROVE  IInv'
<1>1. UNCHANGED <<budget, plan, records, model_calls, tool_calls, sent, reply,
                  outcome, explanation>> /\ pc = "execute" /\ pc' = "raised"
  BY DEF Raise, Waiting
<1>2. TypeOK'
  BY <1>1 DEF IInv, TypeOK
<1>3. Batch' = Batch
  BY <1>1 DEF Batch
<1>4. WithinBudget'
  BY <1>1, <1>3 DEF IInv, WithinBudget
<1>5. RecordsAreValid' /\ OutcomeIsJustified'
  BY <1>1, SameRules DEF IInv, RecordsAreValid, OutcomeIsJustified
<1>6. BatchIsCompatible'
  BY <1>1, <1>3, SameRules DEF IInv, BatchIsCompatible
<1>7. ReplansWhenSettled'
  BY <1>1 DEF ReplansWhenSettled
<1>8. Admitted' <=> Admitted
  BY <1>1 DEF Admitted, ValidPlan
<1> QED BY <1>1, <1>2, <1>3, <1>4, <1>5, <1>6, <1>7, <1>8 DEF IInv

\* The end of a superstep: what ran had attempts left and had not completed.
LEMMA MergeStep == IInv /\ Merge => IInv'
<1> SUFFICES ASSUME IInv, Merge PROVE IInv'
  OBVIOUS
<1>1. /\ pc = "execute" /\ pc' = "coordinate"
      /\ UNCHANGED <<budget, plan, model_calls, outcome, explanation>>
      /\ \A t \in Batch : reply[t] # NoReply
      /\ records' = [t \in Ids |->
           IF t \in Batch THEN Append(records[t], reply[t]) ELSE records[t]]
      /\ tool_calls' = tool_calls + Cardinality(Batch)
      /\ sent' = [t \in Ids |-> 0] /\ reply' = [t \in Ids |-> NoReply]
  BY DEF Merge
<1>2. TypeOK /\ Batch \subseteq Ids
  BY DEF IInv, Batch
<1>3. \A t \in Batch : reply[t] \in Record /\ reply[t].attempt = Len(records[t]) + 1
  BY <1>1, <1>2 DEF IInv, TypeOK, BatchIsCompatible
<1>4. Cardinality(Batch) \in Nat
  BY <1>2, IdsAssumption, FS_Subset, FS_CardinalityType
<1>5. TypeOK'
  <2>1. records' \in [Ids -> Seq(Record)]
    <3>1. ASSUME NEW t \in Ids
          PROVE  (IF t \in Batch THEN Append(records[t], reply[t]) ELSE records[t]) \in Seq(Record)
      BY <1>2, <1>3 DEF TypeOK
    <3> QED BY <1>1, <3>1
  <2>2. tool_calls' \in Nat
    BY <1>1, <1>4, Counters
  <2>3. sent' \in [Ids -> Nat] /\ reply' \in [Ids -> Record \cup {NoReply}]
    BY <1>1
  <2> QED BY <1>1, <1>2, <2>1, <2>2, <2>3 DEF TypeOK
<1>6. Batch' = {}
  BY <1>1 DEF Batch
<1>7. WithinBudget'
  <2>1. Cardinality(Batch') = 0
    BY <1>6, FS_EmptySet
  <2> QED BY <1>1, <1>4, <2>1, Counters DEF IInv, WithinBudget
<1>8. RecordsAreValid'
  <2>1. SUFFICES ASSUME NEW t \in Ids
                 PROVE  /\ records'[t] # << >> => t \in PlanIds
                        /\ Len(records'[t]) <= MaxAttempts
                        /\ \A n \in 1..Len(records'[t]) :
                             /\ records'[t][n].attempt = n
                             /\ records'[t][n].status = "completed" => n = Len(records'[t])
    BY <1>1 DEF RecordsAreValid, ValidRecords, PlanIds
  <2>2. ValidRecords
    BY DEF IInv, RecordsAreValid
  <2>3. CASE t \notin Batch
    BY <1>1, <2>2, <2>3 DEF ValidRecords
  <2>4. CASE t \in Batch
    <3>1. records'[t] = Append(records[t], reply[t]) /\ records[t] \in Seq(Record)
      BY <1>1, <1>2, <2>4 DEF TypeOK
    <3>2. t \in PlanIds /\ t \notin BlockedIds /\ ~Completed(t)
      BY <2>4 DEF IInv, BatchIsCompatible
    <3>3. /\ Len(records[t]) + 1 <= MaxAttempts
          /\ \A n \in 1..Len(records[t]) : records[t][n].status # "completed"
      BY <1>2, <2>2, <3>2, ReadyHasAttempts
    <3>4. Len(records'[t]) = Len(records[t]) + 1 /\ Len(records[t]) \in Nat
      BY <1>3, <2>4, <3>1
    <3>5. \A n \in 1..Len(records[t]) : records'[t][n] = records[t][n]
      BY <1>3, <2>4, <3>1
    <3>6. records'[t][Len(records[t]) + 1] = reply[t]
      BY <1>3, <2>4, <3>1
    <3>7. ASSUME NEW n \in 1..Len(records'[t])
          PROVE  /\ records'[t][n].attempt = n
                 /\ records'[t][n].status = "completed" => n = Len(records'[t])
      <4>1. CASE n \in 1..Len(records[t])
        BY <2>2, <3>3, <3>5, <4>1 DEF ValidRecords
      <4>2. CASE n = Len(records[t]) + 1
        BY <1>3, <2>4, <3>4, <3>6, <4>2
      <4> QED BY <3>4, <4>1, <4>2
    <3> QED BY <3>2, <3>3, <3>4, <3>7
  <2> QED BY <2>3, <2>4
<1>9. BatchIsCompatible'
  BY <1>6 DEF BatchIsCompatible
<1>10. ReplansWhenSettled' /\ OutcomeIsJustified'
  BY <1>1 DEF IInv, ReplansWhenSettled, OutcomeIsJustified
<1>11. Admitted' <=> Admitted
  BY <1>1 DEF Admitted, ValidPlan
<1>12. \A t \in Ids : reply'[t] = NoReply
  BY <1>1
<1> QED BY <1>1, <1>5, <1>6, <1>7, <1>8, <1>9, <1>10, <1>11, <1>12 DEF IInv

LEMMA StutterStep == IInv /\ UNCHANGED vars => IInv'
<1> SUFFICES ASSUME IInv, UNCHANGED vars PROVE IInv'
  OBVIOUS
<1> USE DEF vars
<1>1. TypeOK'
  BY DEF IInv, TypeOK
<1>2. Batch' = Batch
  BY DEF Batch
<1>3. WithinBudget'
  BY <1>2 DEF IInv, WithinBudget
<1>4. RecordsAreValid' /\ OutcomeIsJustified'
  BY SameRules DEF IInv, RecordsAreValid, OutcomeIsJustified
<1>5. BatchIsCompatible'
  BY <1>2, SameRules DEF IInv, BatchIsCompatible
<1>6. ReplansWhenSettled'
  BY SameRules DEF IInv, ReplansWhenSettled
<1>7. Admitted' <=> Admitted
  BY DEF Admitted, ValidPlan
<1> QED BY <1>1, <1>2, <1>3, <1>4, <1>5, <1>6, <1>7 DEF IInv

LEMMA NextIInv == IInv /\ [Next]_vars => IInv'
<1> SUFFICES ASSUME IInv, [Next]_vars PROVE IInv'
  OBVIOUS
<1>1. CASE ModelCallsSpent
  BY <1>1, ModelCallsSpentStep
<1>2. CASE VersionsSpent
  BY <1>2, VersionsSpentStep
<1>3. CASE RejectProposal
  BY <1>3, RejectProposalStep
<1>4. CASE AcceptProposal
  BY <1>4, AcceptProposalStep
<1>5. CASE TimeUp
  BY <1>5, TimeUpStep
<1>6. CASE Conclude
  BY <1>6, ConcludeStep
<1>7. CASE Dispatch
  BY <1>7, DispatchStep
<1>8. CASE ToolCallsSpent
  BY <1>8, ToolCallsSpentStep
<1>9. CASE Replan
  BY <1>9, ReplanStep
<1>10. ASSUME NEW t \in Ids, Execute(t) \/ Raise(t) PROVE IInv'
  BY <1>10, ExecuteStep, RaiseStep
<1>11. CASE Merge
  BY <1>11, MergeStep
<1>12. CASE Terminated \/ UNCHANGED vars
  BY <1>12, StutterStep DEF Terminated
<1> QED BY <1>1, <1>2, <1>3, <1>4, <1>5, <1>6, <1>7, <1>8, <1>9, <1>10, <1>11, <1>12
        DEF Next

\* The inductive invariant holds in every reachable state of the graph.
THEOREM Invariance == Spec => []IInv
BY InitIInv, NextIInv, PTL DEF Spec

\* Every variable keeps its type.
THEOREM TypeCorrect == Spec => []TypeOK
<1>1. IInv => TypeOK
  BY DEF IInv
<1> QED BY <1>1, Invariance, PTL

\* The confirmed budget is never exceeded, calls in flight included.
THEOREM BudgetsHold == Spec => []WithinBudget
<1>1. IInv => WithinBudget
  BY DEF IInv
<1> QED BY <1>1, Invariance, PTL

\* validate_records accepts the records of every reachable state.
THEOREM ValidHistory == Spec => []RecordsAreValid
<1>1. IInv => RecordsAreValid
  BY DEF IInv
<1> QED BY <1>1, Invariance, PTL

\* Tasks run together only when each could run and no two claim a resource.
THEOREM Compatible == Spec => []BatchIsCompatible
<1>1. IInv => BatchIsCompatible
  BY DEF IInv
<1> QED BY <1>1, Invariance, PTL

\* A new version is asked for only when the present plan has nothing left.
THEOREM NoEarlyReplan == Spec => []ReplansWhenSettled
<1>1. IInv => ReplansWhenSettled
  BY DEF IInv
<1> QED BY <1>1, Invariance, PTL

\* The outcome is what the records say.
THEOREM Justified == Spec => []OutcomeIsJustified
<1>1. IInv => OutcomeIsJustified
  BY DEF IInv
<1> QED BY <1>1, Invariance, PTL

\* Completed and blocked tasks gain no record, and no revision rewrites a task.
THEOREM Kept == Spec => HistoryIsKept
<1> DEFINE Step ==
      \A t \in PlanIds :
        /\ Completed(t) \/ t \in BlockedIds => records'[t] = records[t]
        /\ t \in PlanIds' /\ Task(t)' = Task(t)
<1>1. IInv /\ [Next]_vars => [Step]_vars
  <2> SUFFICES ASSUME IInv, Next PROVE Step
    OBVIOUS
  <2>1. CASE UNCHANGED <<plan, records>>
    BY <2>1, SameRules
  <2>2. CASE AcceptProposal
    <3>1. TypeOK /\ plan' \in Proposals /\ ValidPlan(plan', plan) /\ records' = records
      BY <2>2 DEF IInv, AcceptProposal
    <3>2. SUFFICES ASSUME NEW t \in PlanIds
                   PROVE  t \in PlanIds' /\ Task(t)' = Task(t)
      BY <3>1
    <3>3. PICK i \in DOMAIN plan.tasks : plan.tasks[i].id = t
      BY DEF PlanIds, IdsOf
    <3>4. At(t) \in DOMAIN plan.tasks /\ plan.tasks[At(t)].id = t
      BY <3>3 DEF At
    <3>5. \A j, k \in DOMAIN plan'.tasks : plan'.tasks[j].id = plan'.tasks[k].id => j = k
      BY <3>1 DEF ValidPlan
    <3>6. /\ At(t) \in DOMAIN plan'.tasks
          /\ plan'.tasks[At(t)] = plan.tasks[At(t)]
      BY <3>1, <3>4, RevisionAppends
    <3>7. At(t)' = At(t)
      BY <3>4, <3>5, <3>6 DEF At
    <3> QED BY <3>4, <3>6, <3>7 DEF Task, PlanIds, IdsOf
  <2>3. CASE Merge
    <3>1. plan' = plan /\ PlanIds \subseteq Ids
      BY <2>3, PlanIdsAreIds DEF Merge, IInv
    <3>2. \A t \in PlanIds : Completed(t) \/ t \in BlockedIds => t \notin Batch
      BY DEF IInv, BatchIsCompatible
    <3>3. \A t \in PlanIds : t \notin Batch => records'[t] = records[t]
      BY <2>3, <3>1 DEF Merge
    <3> QED BY <3>1, <3>2, <3>3 DEF PlanIds, IdsOf, Task, At
  <2> QED BY <2>1, <2>2, <2>3
          DEF Next, ModelCallsSpent, VersionsSpent, RejectProposal, TimeUp, Conclude,
              Dispatch, ToolCallsSpent, Replan, Execute, Raise, Terminated, End, vars
<1> QED BY <1>1, Invariance, PTL DEF Spec, HistoryIsKept

-----------------------------------------------------------------------------
(* The safety half of Ends.                                                  *)

\* The tasks of the superstep whose worker has not written yet.
Unanswered == {t \in Batch : reply[t] = NoReply}

\* The nodes, as far as they lead on without spending a call.
Position == [coordinate |-> 0, plan |-> 1, execute |-> 1, end |-> 2, raised |-> 2]

\* A superstep executes something.
Busy == pc = "execute" => Batch # {}

LEMMA BusyStep == IInv /\ Busy /\ [Next]_vars => Busy'
<1> SUFFICES ASSUME IInv, Busy, [Next]_vars, pc' = "execute" PROVE Batch' # {}
  BY DEF Busy
<1>1. CASE Dispatch
  <2>1. PICK batch \in (SUBSET ReadyIds) \ {{}} :
          sent' = [t \in Ids |-> IF t \in batch THEN Len(records[t]) + 1 ELSE 0]
    BY <1>1 DEF Dispatch
  <2>2. PICK t \in batch : t \in Ids
    BY <2>1, PlanIdsAreIds DEF ReadyIds, IInv
  <2>3. sent'[t] > 0
    BY <2>1, <2>2 DEF IInv, TypeOK
  <2> QED
    BY <2>2, <2>3 DEF Batch
<1>2. CASE UNCHANGED <<pc, sent>>
  BY <1>2 DEF Busy, Batch
<1> QED
  BY <1>1, <1>2
  DEF Next, ModelCallsSpent, VersionsSpent, RejectProposal, AcceptProposal, TimeUp, Conclude,
      ToolCallsSpent, Replan, Execute, Raise, Merge, Terminated, End, vars

\* What a step of the graph uses up.
Spends ==
  \/ model_calls < model_calls' /\ UNCHANGED tool_calls
  \/ tool_calls < tool_calls' /\ UNCHANGED model_calls
  \/ UNCHANGED <<model_calls, tool_calls>> /\ Position[pc] < Position[pc']
  \/ /\ UNCHANGED <<model_calls, tool_calls, pc>>
     /\ Unanswered' \subseteq Unanswered /\ Unanswered' # Unanswered

\* Every step of the graph spends a model call or a tool call, or is a worker's
\* answer, or leads on to a node that does or to the end: no proposal of the
\* supervisor and no failure of a worker makes the graph turn for nothing.
\* With WithinBudget, a bound on both calls, the number of steps is finite.
THEOREM EveryStepSpends == Spec => [][Spends]_vars
<1>1. Init => Busy
  BY DEF Init, Busy
<1>2. IInv /\ Busy /\ [Next]_vars => [Spends]_vars
  <2> SUFFICES ASSUME IInv, Busy, Next PROVE Spends \/ UNCHANGED vars
    OBVIOUS
  <2>0. model_calls \in Nat /\ tool_calls \in Nat /\ TypeOK
    BY DEF IInv, TypeOK
  <2>1. CASE ModelCallsSpent \/ VersionsSpent \/ TimeUp \/ Conclude \/ ToolCallsSpent
    BY <2>1 DEF ModelCallsSpent, VersionsSpent, TimeUp, Conclude, ToolCallsSpent, End, Spends, Position
  <2>2. CASE RejectProposal \/ AcceptProposal
    BY <2>0, <2>2 DEF RejectProposal, AcceptProposal, End, Spends
  <2>3. CASE Dispatch \/ Replan
    BY <2>3 DEF Dispatch, Replan, Spends, Position
  <2>4. ASSUME NEW t \in Ids, Execute(t) PROVE Spends
    <3>1. sent[t] > 0 /\ reply[t] = NoReply /\ UNCHANGED <<model_calls, tool_calls, pc, sent>>
      BY <2>4 DEF Execute, Waiting, Batch
    <3>2. PICK status \in Status, met \in BOOLEAN :
            reply' = [reply EXCEPT ![t] = [attempt |-> sent[t], status |-> status, met |-> met]]
      BY <2>4 DEF Execute
    <3>3. reply'[t] # NoReply /\ \A u \in Ids \ {t} : reply'[u] = reply[u]
      BY <2>0, <3>1, <3>2 DEF TypeOK, NoReply
    <3>4. Batch' = Batch /\ Batch \subseteq Ids /\ t \in Batch
      BY <3>1 DEF Batch
    <3>5. Unanswered' = Unanswered \ {t} /\ t \in Unanswered
      BY <3>1, <3>3, <3>4 DEF Unanswered
    <3> QED
      BY <3>1, <3>5 DEF Spends
  <2>5. ASSUME NEW t \in Ids, Raise(t) PROVE Spends
    BY <2>5 DEF Raise, Waiting, Spends, Position
  <2>6. CASE Merge
    <3>1. tool_calls' = tool_calls + Cardinality(Batch) /\ UNCHANGED model_calls /\ Batch # {}
      BY <2>6 DEF Merge, Busy
    <3>2. IsFiniteSet(Batch)
      BY IdsAssumption, FS_Subset DEF Batch
    <3>3. Cardinality(Batch) \in Nat /\ Cardinality(Batch) # 0
      BY <3>1, <3>2, FS_CardinalityType, FS_EmptySet
    <3> QED
      BY <2>0, <3>1, <3>3 DEF Spends
  <2> QED
    BY <2>1, <2>2, <2>3, <2>4, <2>5, <2>6 DEF Next, Terminated
<1> QED
  BY <1>1, <1>2, BusyStep, Invariance, PTL DEF Spec
=============================================================================
