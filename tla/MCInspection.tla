---------------------------- MODULE MCInspection ----------------------------
(* Two runs and the options the interfaces give them, for TLC.               *)
EXTENDS Inspection, TLC

CONSTANTS plain, host, rehosted, privileged,   \* charts
          plan1, plan2, r1, r2

\* rehosted is another archive that renders the manifest of host.
MCManifest == [c \in Charts |-> IF c = rehosted THEN host ELSE c]
MCManifests == Charts \ {rehosted}
MCMatched == [m \in MCManifests |-> CASE m = host -> {"KP-SAFE-002"}
                                      [] m = privileged -> {"KP-SAFE-001", "KP-SAFE-002"}
                                      [] OTHER -> {}]
MCOverridable == {"KP-SAFE-002", "KP-SAFE-003", "KP-SAFE-004", "KP-SAFE-005"}

Options(execute, archive, generated, manifest, expected, approval) ==
  [execute |-> execute, archive |-> archive, generated |-> generated, plan |-> plan1,
   manifest |-> manifest, expected |-> expected, approval |-> approval]

ScopeOf(chart, manifest, p) == [chart |-> chart, manifest |-> manifest, plan |-> p]

MCRequests ==
  {Options(FALSE, FALSE, TRUE, None, None, None),   \* a model proposes a plan for a directory
   Options(TRUE, TRUE, FALSE, None, None, None),    \* a run, nothing reviewed
   Options(TRUE, TRUE, FALSE, host, plan1, ScopeOf(host, host, plan1)),
   Options(TRUE, TRUE, FALSE, None, plan1, ScopeOf(host, host, plan2)),
   Options(TRUE, TRUE, FALSE, privileged, None, ScopeOf(privileged, privileged, plan1))}

Interchangeable == Permutations(Runs)
=============================================================================
