--------------------------- MODULE MCProbeExecutor ---------------------------
(* Frozen plans of three tasks, and of two, for TLC.                         *)
EXTENDS ProbeExecutor

MCServices == {"http:api", "http:web"}

Plan(deps, when, capability, service, parallel) ==
  [depends_on |-> deps, when |-> when, capability |-> capability,
   service |-> service, max_parallel_tasks |-> parallel]

Always == <<"completed", "completed", "completed">>
Independent == <<{}, {}, {}>>
Api == <<"http:api", "http:api", "http:api">>

\* Tests and examples of the repository, and the shapes between them.
ThreeTaskPlans ==
  { \* a baseline, a follow-up on success and one on failure
    Plan(<<{}, {1}, {1}>>, <<"completed", "passed", "failed">>,
         <<"resource_sample", "dns_observation", "http_service">>, Api, 2),
    \* a chain that two conditions guard
    Plan(<<{}, {1}, {2}>>, <<"completed", "passed", "passed">>,
         <<"http_service", "cpu_load", "pod_recovery">>, Api, 1),
    \* recovery first: nothing may run beside it
    Plan(Independent, Always,
         <<"pod_recovery", "resource_sample", "dns_observation">>, Api, 3),
    \* two probes of one Service and one of another
    Plan(Independent, Always,
         <<"http_service", "http_service", "http_service">>,
         <<"http:api", "http:api", "http:web">>, 3),
    \* more compatible tasks than workers, one of them without metrics
    Plan(Independent, Always,
         <<"resource_sample", "dns_observation", "resource_sample">>, Api, 2),
    \* two loads of one fixture beside a recovery in the middle
    Plan(Independent, Always, <<"cpu_load", "pod_recovery", "cpu_load">>, Api, 4),
    \* dependencies that point forward in plan order
    Plan(<<{3}, {1}, {}>>, <<"failed", "completed", "completed">>,
         <<"dns_observation", "resource_sample", "http_service">>, Api, 2),
    \* a join of two probes that ran together
    Plan(<<{}, {}, {1, 2}>>, <<"completed", "completed", "failed">>,
         <<"http_service", "resource_sample", "pod_recovery">>, Api, 2) }

ConditionalPair ==
  { [depends_on |-> <<{}, {1}>>, when |-> <<"completed", "passed">>,
     capability |-> <<"http_service", "dns_observation">>,
     service |-> <<"http:api", "http:api">>, max_parallel_tasks |-> 1] }
=============================================================================
