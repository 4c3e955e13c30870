------------------------------- MODULE PlanRun -------------------------------
(***************************************************************************)
(* What a frozen evaluation plan promises to whoever reads its evidence,   *)
(* whatever order and concurrency the executor chooses: each task settles  *)
(* at most once, a task runs only after its dependencies settled the way   *)
(* its condition asks, and tasks that run together neither exceed the      *)
(* plan's parallelism nor hold conflicting claims.  ProbeExecutor is shown *)
(* to implement this module.                                               *)
(***************************************************************************)
EXTENDS Naturals, FiniteSets

CONSTANT Task

VARIABLES
  plan,         \* depends_on, when, claims and max_parallel of the tasks
  verdict,      \* [Task -> Verdict \cup {"pending"}]
  running       \* tasks handed to a worker and not yet settled

vars == <<plan, verdict, running>>

Verdict == {"pass", "fail", "unsettled", "not_tested"}

\* Tasks that may run at the same time.
Compatible(S) ==
  \A t, u \in S : t # u => /\ "exclusive-product" \notin plan.claims[t]
                           /\ plan.claims[t] \cap plan.claims[u] = {}

\* The dependencies of t produced evidence, and it is what t's condition asks.
Satisfied(t) ==
  LET deps == plan.depends_on[t]
  IN  /\ \A d \in deps : verdict[d] \notin {"pending", "not_tested"}
      /\ plan.when[t] = "passed" => \A d \in deps : verdict[d] = "pass"
      /\ plan.when[t] = "failed" => \E d \in deps : verdict[d] = "fail"

Init ==
  /\ verdict = [t \in Task |-> "pending"]
  /\ running = {}

\* A set of tasks starts; what already runs is compatible with it.
Launch(S) ==
  /\ S \cap running = {}
  /\ \A t \in S : verdict[t] = "pending" /\ Satisfied(t)
  /\ Compatible(running \cup S)
  /\ Cardinality(running \cup S) <= plan.max_parallel
  /\ running' = running \cup S
  /\ UNCHANGED <<plan, verdict>>

\* A running task ends with evidence, or with none.
Settle(t, v) ==
  /\ t \in running
  /\ verdict' = [verdict EXCEPT ![t] = v]
  /\ running' = running \ {t}
  /\ UNCHANGED plan

\* A task is accounted for without running.
Skip(t) ==
  /\ verdict[t] = "pending"
  /\ t \notin running
  /\ verdict' = [verdict EXCEPT ![t] = "not_tested"]
  /\ UNCHANGED <<plan, running>>

Next ==
  \/ \E S \in SUBSET Task : Launch(S)
  \/ \E t \in Task, v \in Verdict : Settle(t, v)
  \/ \E t \in Task : Skip(t)

Spec == Init /\ [][Next]_vars
=============================================================================
