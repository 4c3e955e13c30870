-------------------------- MODULE AdaptiveWorkflow --------------------------
(***************************************************************************)
(* The adaptive CPU graph (intelligence/workflow.py) and the deterministic *)
(* rules that admit, schedule and assess its plans (control.py).           *)
(*                                                                         *)
(* plan -> coordinate -> execute (one worker per task of the batch, in     *)
(* parallel) -> coordinate -> ... -> plan.  The supervisor is a language   *)
(* model: it may answer any proposal, or one that does not parse.  Workers *)
(* write into their superstep; the graph merges the writes when all of     *)
(* them have returned, and drops them all when one of them raises.         *)
(***************************************************************************)
EXTENDS Naturals, FiniteSets, Sequences, SequencesExt

CONSTANTS
  Ids,             \* task identifiers
  Proposals,       \* plans the supervisor may propose, admissible or not
  Budgets,         \* RunBudget of the confirmed request
  MaxAttempts,     \* MAX_EXECUTION_ATTEMPTS
  MaxValidTrials   \* MAX_VALID_TRIALS

ASSUME IdsAssumption == IsFiniteSet(Ids)
ASSUME BudgetAssumption ==
  /\ \A b \in Budgets : /\ b.plan_versions \in Nat \ {0}
                         /\ b.model_calls \in Nat \ {0} /\ b.tool_calls \in Nat \ {0}
  /\ MaxAttempts \in Nat \ {0} /\ MaxValidTrials \in Nat \ {0}

\* PlanTask, as far as the rules read it: parses, asks for a registered
\* capability, and stays within the request (admitted); the parameter set it
\* measures, when its capability wants distinct ones; its resource claims;
\* whether its capability decides the goal.
IsTask(task) ==
  /\ task.id \in Ids /\ task.deps \subseteq Ids
  /\ task.admitted \in BOOLEAN /\ task.required \in BOOLEAN /\ task.goal \in BOOLEAN
  /\ task.distinct \in BOOLEAN

NoPlan == [version |-> 0, tasks |-> << >>]

ASSUME ProposalsAssumption ==
  \A p \in Proposals :
    /\ p.version \in Nat \ {0} /\ p.tasks # << >>
    /\ p.tasks \in Seq({p.tasks[i] : i \in DOMAIN p.tasks})
    /\ \A i \in DOMAIN p.tasks : IsTask(p.tasks[i])

VARIABLES
  budget,       \* of the confirmed request: never assigned after Init
  pc,           \* the node that runs next: plan, coordinate, execute; end, raised
  plan,         \* the admitted plan, NoPlan before the first
  records,      \* the attempts of each task, in the order they were merged
  model_calls, tool_calls,
  sent,         \* the attempt number sent to the worker of a task, 0 if none
  reply,        \* what the workers of this superstep have written
  outcome, explanation

vars == <<budget, pc, plan, records, model_calls, tool_calls, sent, reply, outcome, explanation>>

Outcome == {"running", "goal_met", "not_met_within_budget", "inconclusive", "blocked"}
Explanation ==
  {"none", "model_call_budget", "plan_version_budget", "plan_rejected",
   "elapsed_time_budget", "tool_call_budget"}
Status == {"completed", "infrastructure_failure"}
Record == [attempt : Nat \ {0}, status : Status, met : BOOLEAN]
NoReply == [attempt |-> 0, status |-> "none", met |-> FALSE]

Init ==
  /\ budget \in Budgets
  /\ pc = "plan" /\ plan = NoPlan
  /\ records = [t \in Ids |-> << >>]
  /\ model_calls = 0 /\ tool_calls = 0
  /\ sent = [t \in Ids |-> 0]
  /\ reply = [t \in Ids |-> NoReply]
  /\ outcome = "running" /\ explanation = "none"

-----------------------------------------------------------------------------
(* control.py: what a plan and its records allow.                            *)

IdsOf(tasks) == {tasks[i].id : i \in DOMAIN tasks}

\* Every set of tasks has one that depends on none of the set: no cycle.
Acyclic(tasks) ==
  \A S \in (SUBSET IdsOf(tasks)) \ {{}} :
    \E i \in DOMAIN tasks : tasks[i].id \in S /\ tasks[i].deps \cap S = {}

\* Slips of validate_plan.
SlipRewrites(p, previous) ==
  /\ p.version = previous.version + 1
  /\ Len(p.tasks) <= budget.tool_calls
  /\ \A i \in DOMAIN p.tasks : p.tasks[i].admitted /\ p.tasks[i].deps \subseteq IdsOf(p.tasks)
  /\ \A i, j \in DOMAIN p.tasks : i # j => p.tasks[i].id # p.tasks[j].id
  /\ Acyclic(p.tasks)

SlipCycles(p, previous) ==
  /\ p.version = previous.version + 1
  /\ Len(p.tasks) <= budget.tool_calls
  /\ IsPrefix(previous.tasks, p.tasks)
  /\ \A i \in DOMAIN p.tasks : p.tasks[i].admitted /\ p.tasks[i].deps \subseteq IdsOf(p.tasks)
  /\ \A i, j \in DOMAIN p.tasks : i # j => p.tasks[i].id # p.tasks[j].id

\* validate_plan: a revision only appends tasks to the previous plan.
ValidPlan(p, previous) ==
  /\ p.version = previous.version + 1
  /\ Len(p.tasks) <= budget.tool_calls
  /\ IsPrefix(previous.tasks, p.tasks)
  /\ \A i \in DOMAIN p.tasks : p.tasks[i].admitted /\ p.tasks[i].deps \subseteq IdsOf(p.tasks)
  /\ \A i, j \in DOMAIN p.tasks :
       i # j => /\ p.tasks[i].id # p.tasks[j].id
                /\ p.tasks[i].distinct => p.tasks[i].params # p.tasks[j].params
  /\ Acyclic(p.tasks)

PlanIds == IdsOf(plan.tasks)
At(t) == CHOOSE i \in DOMAIN plan.tasks : plan.tasks[i].id = t
Task(t) == plan.tasks[At(t)]

\* validate_records: the attempts of known tasks, numbered, none after success.
ValidRecords ==
  \A t \in Ids :
    /\ records[t] # << >> => t \in PlanIds
    /\ Len(records[t]) <= MaxAttempts
    /\ \A n \in 1..Len(records[t]) :
         /\ records[t][n].attempt = n
         /\ records[t][n].status = "completed" => n = Len(records[t])

LastStatus(t, status) ==
  records[t] # << >> /\ records[t][Len(records[t])].status = status

Completed(t) == LastStatus(t, "completed")
Exhausted(t) == Len(records[t]) >= MaxAttempts /\ LastStatus(t, "infrastructure_failure")

\* blocked_task_ids: the least set with the exhausted tasks that is closed
\* under "depends on one of them".
BlockedIds ==
  {t \in PlanIds : \A B \in SUBSET PlanIds :
     /\ \A u \in PlanIds : Exhausted(u) => u \in B
     /\ \A u \in PlanIds : Task(u).deps \cap B # {} => u \in B
     => t \in B}

\* ready_tasks, before claims and limit.
ReadyIds ==
  {t \in PlanIds : /\ t \notin BlockedIds /\ ~Completed(t)
                   /\ \A d \in Task(t).deps : Completed(d)}

Conflict(t, u) == Task(t).claims \cap Task(u).claims # {}

\* ready_tasks, the greedy choice in plan order: a ready task is left out only
\* for an earlier one it conflicts with, or because earlier ones fill the limit.
IsBatch(batch, limit) ==
  /\ batch \subseteq ReadyIds /\ Cardinality(batch) <= limit
  /\ \A t, u \in batch : t # u => ~Conflict(t, u)
  /\ \A t \in ReadyIds \ batch :
       \/ \E u \in batch : At(u) < At(t) /\ Conflict(t, u)
       \/ Cardinality(batch) = limit /\ \A u \in batch : At(u) < At(t)

Met(t) == Task(t).goal /\ \E n \in DOMAIN records[t] : records[t][n].met
GoalMet == \E t \in PlanIds : Met(t)
ValidTrials == {t \in PlanIds : Completed(t) /\ Task(t).goal}
RequiredBlocked == \E t \in PlanIds : Task(t).required /\ t \in BlockedIds
RequiredCompleted == \A t \in PlanIds : Task(t).required => Completed(t)

\* Slip: one good trial is enough.
SlipGoalAlone ==
  CASE RequiredBlocked -> IF ReadyIds # {} THEN "running" ELSE "blocked"
    [] ~RequiredBlocked /\ GoalMet -> "goal_met"
    [] ~RequiredBlocked /\ ~GoalMet /\ Cardinality(ValidTrials) >= MaxValidTrials ->
         "not_met_within_budget"
    [] OTHER -> "running"

\* outcome: a required task that is blocked comes before the goal.
CurrentOutcome ==
  CASE RequiredBlocked -> IF ReadyIds # {} THEN "running" ELSE "blocked"
    [] ~RequiredBlocked /\ GoalMet /\ RequiredCompleted -> "goal_met"
    [] ~RequiredBlocked /\ ~GoalMet /\ Cardinality(ValidTrials) >= MaxValidTrials ->
         "not_met_within_budget"
    [] OTHER -> "running"

-----------------------------------------------------------------------------
(* workflow.py: the nodes.                                                   *)

End(result, why) ==
  /\ outcome' = result /\ explanation' = why /\ pc' = "end"
  /\ UNCHANGED <<budget, plan, records, tool_calls, sent, reply>>

\* plan_node, the budget of model calls.
ModelCallsSpent ==
  /\ pc = "plan" /\ model_calls >= budget.model_calls
  /\ End("blocked", "model_call_budget") /\ UNCHANGED model_calls

\* plan_node, the budget of plan versions.
VersionsSpent ==
  /\ pc = "plan" /\ model_calls < budget.model_calls /\ plan.version >= budget.plan_versions
  /\ End(IF \E t \in PlanIds : Completed(t) THEN "inconclusive" ELSE "blocked",
         "plan_version_budget")
  /\ UNCHANGED model_calls

MayPropose == pc = "plan" /\ model_calls < budget.model_calls /\ plan.version < budget.plan_versions

\* plan_node: the answer does not parse, or validate_plan rejects it.
RejectProposal ==
  /\ MayPropose
  /\ model_calls' = model_calls + 1
  /\ End("blocked", "plan_rejected")

\* plan_node: a valid plan.
AcceptProposal ==
  /\ MayPropose
  /\ plan' \in {p \in Proposals : ValidPlan(p, plan)}
  /\ model_calls' = model_calls + 1
  /\ explanation' = "none" /\ pc' = "coordinate"
  /\ UNCHANGED <<budget, records, tool_calls, sent, reply, outcome>>

Remaining == budget.tool_calls - tool_calls

\* coordinate_node: the wall clock is read before anything else.
TimeUp ==
  /\ pc = "coordinate"
  /\ End("blocked", "elapsed_time_budget") /\ UNCHANGED model_calls

\* coordinate_node: the records decide.
Conclude ==
  /\ pc = "coordinate" /\ CurrentOutcome # "running"
  /\ End(CurrentOutcome, explanation) /\ UNCHANGED model_calls

\* Slips: the limit is the whole budget; every retry is a first attempt.
SlipWholeBudget ==
  /\ pc = "coordinate" /\ CurrentOutcome = "running"
  /\ \E batch \in (SUBSET ReadyIds) \ {{}} :
       /\ IsBatch(batch, budget.tool_calls)
       /\ sent' = [t \in Ids |-> IF t \in batch THEN Len(records[t]) + 1 ELSE 0]
  /\ pc' = "execute"
  /\ UNCHANGED <<budget, plan, records, model_calls, tool_calls, reply, outcome, explanation>>

SlipFirstAttempt ==
  /\ pc = "coordinate" /\ CurrentOutcome = "running"
  /\ \E batch \in (SUBSET ReadyIds) \ {{}} :
       /\ IsBatch(batch, Remaining)
       /\ sent' = [t \in Ids |-> IF t \in batch THEN 1 ELSE 0]
  /\ pc' = "execute"
  /\ UNCHANGED <<budget, plan, records, model_calls, tool_calls, reply, outcome, explanation>>

\* coordinate_node and route_after_coordinate: one execution per chosen task.
Dispatch ==
  /\ pc = "coordinate" /\ CurrentOutcome = "running"
  /\ \E batch \in (SUBSET ReadyIds) \ {{}} :
       /\ IsBatch(batch, Remaining)
       /\ sent' = [t \in Ids |-> IF t \in batch THEN Len(records[t]) + 1 ELSE 0]
  /\ pc' = "execute"
  /\ UNCHANGED <<budget, plan, records, model_calls, tool_calls, reply, outcome, explanation>>

\* coordinate_node: ready_tasks with a spent limit returns nothing.
ToolCallsSpent ==
  /\ pc = "coordinate" /\ CurrentOutcome = "running" /\ Remaining <= 0
  /\ End("blocked", "tool_call_budget") /\ UNCHANGED model_calls

\* coordinate_node: nothing is ready and calls remain: another plan version.
Replan ==
  /\ pc = "coordinate" /\ CurrentOutcome = "running"
  /\ ReadyIds = {} /\ Remaining > 0
  /\ pc' = "plan"
  /\ UNCHANGED <<budget, plan, records, model_calls, tool_calls, sent, reply, outcome, explanation>>

Batch == {t \in Ids : sent[t] > 0}
Waiting(t) == pc = "execute" /\ t \in Batch /\ reply[t] = NoReply

\* execute_node: a completed trial, or an infrastructure failure turned into a
\* record; the observation says whether the goal is met.
Execute(t) ==
  /\ Waiting(t)
  /\ \E status \in Status, met \in BOOLEAN :
       /\ met => status = "completed" /\ Task(t).goal
       /\ reply' = [reply EXCEPT ![t] = [attempt |-> sent[t], status |-> status, met |-> met]]
  /\ UNCHANGED <<budget, pc, plan, records, model_calls, tool_calls, sent, outcome, explanation>>

\* execute_node: admission refuses, the worker raises, or its answer is for
\* another task; the superstep fails and the graph's caller sees the exception.
Raise(t) ==
  /\ Waiting(t)
  /\ pc' = "raised"
  /\ UNCHANGED <<budget, plan, records, model_calls, tool_calls, sent, reply, outcome, explanation>>

\* Slip: an infrastructure failure is retried, but neither kept nor counted.
SlipRetriesForFree ==
  /\ pc = "execute" /\ \A t \in Batch : reply[t] # NoReply
  /\ LET kept == {t \in Batch : reply[t].status = "completed"}
     IN  /\ records' = [t \in Ids |->
              IF t \in kept THEN Append(records[t], reply[t]) ELSE records[t]]
         /\ tool_calls' = tool_calls + Cardinality(kept)
  /\ sent' = [t \in Ids |-> 0] /\ reply' = [t \in Ids |-> NoReply]
  /\ pc' = "coordinate"
  /\ UNCHANGED <<budget, plan, model_calls, outcome, explanation>>

\* The end of a superstep: records and tool_calls are added up.
Merge ==
  /\ pc = "execute" /\ \A t \in Batch : reply[t] # NoReply
  /\ records' = [t \in Ids |->
       IF t \in Batch THEN Append(records[t], reply[t]) ELSE records[t]]
  /\ tool_calls' = tool_calls + Cardinality(Batch)
  /\ sent' = [t \in Ids |-> 0] /\ reply' = [t \in Ids |-> NoReply]
  /\ pc' = "coordinate"
  /\ UNCHANGED <<budget, plan, model_calls, outcome, explanation>>

Terminated == pc \in {"end", "raised"} /\ UNCHANGED vars

Next ==
  \/ ModelCallsSpent \/ VersionsSpent \/ RejectProposal \/ AcceptProposal
  \/ TimeUp \/ Conclude \/ Dispatch \/ ToolCallsSpent \/ Replan
  \/ \E t \in Ids : Execute(t) \/ Raise(t)
  \/ Merge \/ Terminated

\* One graph.invoke call drives the nodes; workers bound every wait of theirs.
Spec == Init /\ [][Next]_vars /\ WF_vars(Next)

-----------------------------------------------------------------------------
(* Properties.                                                               *)

TypeOK ==
  /\ budget \in Budgets
  /\ pc \in {"plan", "coordinate", "execute", "end", "raised"}
  /\ plan \in Proposals \cup {NoPlan}
  /\ records \in [Ids -> Seq(Record)]
  /\ model_calls \in Nat /\ tool_calls \in Nat
  /\ sent \in [Ids -> Nat]
  /\ reply \in [Ids -> Record \cup {NoReply}]
  /\ outcome \in Outcome /\ explanation \in Explanation

\* Parallel batches, retries and revisions never spend more than the confirmed
\* budget, the calls in flight included (RunBudget's "hard caps").
WithinBudget ==
  /\ model_calls <= budget.model_calls
  /\ plan.version <= model_calls /\ plan.version <= budget.plan_versions
  /\ tool_calls + Cardinality(Batch) <= budget.tool_calls

\* coordinate_node never finds records that validate_records rejects: whatever
\* the order of the workers, attempts are numbered, none follows a success, none
\* is beyond the retry limit, and every one belongs to a task of the plan.
RecordsAreValid == ValidRecords

\* The tasks that run together could run: their dependencies completed, they
\* are neither completed nor behind a blocked task, and no two claim a resource.
BatchIsCompatible ==
  /\ \A t \in Batch : /\ t \in PlanIds \ BlockedIds /\ ~Completed(t)
                      /\ \A d \in Task(t).deps : Completed(d)
                      /\ sent[t] = Len(records[t]) + 1
  /\ \A t, u \in Batch : t # u => ~Conflict(t, u)

Settled == \A t \in PlanIds : Completed(t) \/ t \in BlockedIds

\* A new plan version is asked for only when every task of the present one has
\* completed or can no longer run, no required one is blocked, and the goal is
\* not met: ready_tasks never strands a task, whatever the dependencies.
ReplansWhenSettled ==
  pc = "plan" => Settled /\ ~RequiredBlocked /\ (plan # NoPlan => ~GoalMet)

\* The outcome says what the records say: a goal is claimed with every required
\* result, blocked tasks never stop their independent siblings, a run that is
\* inconclusive or not met has no trial that met the goal.
OutcomeIsJustified ==
  /\ outcome = "goal_met" => GoalMet /\ RequiredCompleted
  /\ outcome = "not_met_within_budget" =>
       ~GoalMet /\ Cardinality(ValidTrials) >= MaxValidTrials
  /\ outcome = "inconclusive" =>
       ~GoalMet /\ Settled /\ \E t \in PlanIds : Completed(t)
  /\ outcome = "blocked" /\ explanation = "none" => RequiredBlocked /\ Settled
  /\ outcome = "blocked" /\ explanation = "tool_call_budget" => tool_calls = budget.tool_calls

\* A task that measured, or that can no longer run, gets no further record; and
\* what a task was is never rewritten under its records.
HistoryIsKept ==
  [][\A t \in PlanIds :
       /\ Completed(t) \/ t \in BlockedIds => records'[t] = records[t]
       /\ t \in PlanIds' /\ Task(t)' = Task(t)]_vars

\* The graph ends: budgets bound every loop through plan, coordinate, execute.
Ends == <>(pc \in {"end", "raised"})

\* The inductive invariant behind the theorems of AdaptiveWorkflowProofs.
Admitted == \E previous \in Proposals \cup {NoPlan} : ValidPlan(plan, previous)

IInv ==
  /\ TypeOK /\ WithinBudget /\ RecordsAreValid /\ BatchIsCompatible
  /\ ReplansWhenSettled /\ OutcomeIsJustified
  /\ plan # NoPlan => Admitted
  /\ pc \in {"coordinate", "execute"} => plan # NoPlan
  /\ pc # "execute" /\ pc # "raised" => Batch = {}
  /\ pc # "end" => outcome = "running" /\ explanation = "none"
  /\ \A t \in Ids : reply[t] # NoReply => t \in Batch /\ reply[t].attempt = sent[t]
=============================================================================
