SPECIFICATION Spec
CONSTANTS
    h1 = h1
    h2 = h2
    Handlers = {h1, h2}
    Workloads <- TwoPlays
    MaxOld = 2
    MaxFailures = 0
    MaxAdvances = 0
CHECK_DEADLOCK FALSE
INVARIANTS NeverEmpty
