SPECIFICATION WedgedSpec
CONSTANTS
    r1 = r1
    r2 = r2
    idle1 = idle1
    Requests = {r1, r2, idle1}
    Timed = {r1, r2}
    Capacity = 1
    Password = "none"
    BackoffMin = 1
    BackoffMax = 2
    MaxCuts = 0
PROPERTIES SendersTimeOut
