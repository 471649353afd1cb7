SPECIFICATION Spec
CONSTANTS
    h1 = h1
    h2 = h2
    Handlers = {h1, h2}
    Workloads <- MCWorkloads
    MaxOld = 2
    MaxFailures = 2
    MaxAdvances = 1
CHECK_DEADLOCK FALSE
INVARIANTS TypeOK ReplacesExactly RemovesInOrder MockMirrorsMpd
PROPERTIES OldQueueIntact PlacedNext
