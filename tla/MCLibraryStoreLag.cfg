SPECIFICATION Spec
CONSTANTS
    s1 = s1
    s2 = s2
    b1 = b1
    b2 = b2
    Readers = {s1}
    Refreshers = {b1}
    Capacity = 2
    MaxChanges = 1
    MaxFails = 0
INVARIANTS InvalidationSurvives
