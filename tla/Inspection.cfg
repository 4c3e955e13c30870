SPECIFICATION Spec
CONSTANTS
  plain = plain
  host = host
  rehosted = rehosted
  privileged = privileged
  plan1 = plan1
  plan2 = plan2
  r1 = r1
  r2 = r2
  None = None
  Runs = {r1, r2}
  Charts = {plain, host, rehosted, privileged}
  Manifests <- MCManifests
  Manifest <- MCManifest
  Matched <- MCMatched
  Overridable <- MCOverridable
  Plans = {plan1, plan2}
  Requests <- MCRequests
  MaxRebuilds = 1
INVARIANTS OutputIsWhole RunsAreAdmitted
SYMMETRY Interchangeable
