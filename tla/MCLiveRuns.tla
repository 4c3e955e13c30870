----------------------------- MODULE MCLiveRuns -----------------------------
(* Three charts: one admitted, one an operator can accept, one nobody can.   *)
EXTENDS LiveRuns

CONSTANTS plain, host, privileged

Rules ==
  [m \in Manifests |-> CASE m = plain -> {}
                         [] m = host -> {"KP-SAFE-002"}
                         [] m = privileged -> {"KP-SAFE-001", "KP-SAFE-002"}]
HostRules == {"KP-SAFE-002"}
=============================================================================
