SPECIFICATION Spec
CONSTANTS
  ChartJobs = {c1, c2}
  LiveJobs = {l1}
  plain = plain
  host = host
  privileged = privileged
  Manifests = {plain, host, privileged}
  Matched <- Rules
  Overridable <- HostRules
  None = None
INVARIANTS OneRunAtATime ReviewedRuns DirectoryLifetime
PROPERTIES Served
