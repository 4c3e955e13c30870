SPECIFICATION Spec
CONSTANT Experiments = {"none", "service", "planned"}
INVARIANT TeardownAttempted
