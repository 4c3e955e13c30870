------------------------- MODULE MCAdaptiveWorkflow -------------------------
(* Plans of up to four tasks and their revisions, for TLC.                   *)
EXTENDS AdaptiveWorkflow

MCIds == {"a", "b", "c", "d"}

\* A load trial: it claims the one target, wants its own parameters, and
\* decides the goal.  A probe claims only its endpoint.
Load(id, deps, required, params) ==
  [id |-> id, deps |-> deps, required |-> required, admitted |-> TRUE,
   distinct |-> TRUE, params |-> params, claims |-> {"load"}, goal |-> TRUE]
Probe(id, deps, required, endpoint) ==
  [id |-> id, deps |-> deps, required |-> required, admitted |-> TRUE,
   distinct |-> FALSE, params |-> "any", claims |-> {endpoint}, goal |-> FALSE]

Version(n, tasks) == [version |-> n, tasks |-> tasks]

\* Two loads that exclude each other, and a probe behind the required one.
Mixed == <<Load("a", {}, TRUE, "1"), Load("b", {}, FALSE, "2"), Probe("c", {"a"}, FALSE, "web")>>
\* A join whose dependencies, both later in plan order, run together.
Wide == <<Probe("b", {"a", "c"}, TRUE, "web"), Probe("c", {}, FALSE, "api"), Load("a", {}, FALSE, "1")>>

MCProposals ==
  { Version(1, Mixed),
    Version(2, Append(Mixed, Load("d", {"b"}, TRUE, "3"))),
    Version(2, Append(Mixed, Probe("d", {}, TRUE, "web"))),
    Version(1, Wide),
    Version(2, Append(Wide, Load("d", {}, TRUE, "2"))),
    Version(3, Append(Wide, Load("d", {}, TRUE, "2"))),
    \* rejected: a rewritten task, a cycle, equal parameters, a foreign request
    Version(2, <<Probe("a", {}, FALSE, "web"), Probe("c", {}, FALSE, "api")>>),
    Version(1, <<Load("a", {"b"}, FALSE, "1"), Load("b", {"a"}, FALSE, "2"), Probe("c", {}, TRUE, "web")>>),
    Version(1, <<Load("a", {}, TRUE, "1"), Load("b", {}, TRUE, "1")>>),
    Version(1, <<[Load("a", {}, TRUE, "1") EXCEPT !.admitted = FALSE]>>) }

\* Every budget binds in one of them; MAX_VALID_TRIALS (5) is 2 in the run.
Budget(versions, models, tools) ==
  [plan_versions |-> versions, model_calls |-> models, tool_calls |-> tools]
MCBudgets == {Budget(1, 3, 3), Budget(2, 3, 8), Budget(3, 2, 7)}
=============================================================================
