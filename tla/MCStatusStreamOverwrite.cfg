SPECIFICATION FairSpec
CONSTANTS
    h1 = h1
    h2 = h2
    w1 = w1
    w2 = w2
    Handlers = {h1, h2}
    Subscribers = {w1}
    OthersAct = FALSE
    Holding = {TRUE}
    Capacity = 1
    MaxChanges = 2
    MaxFaults = 0
    MaxLines = 1
PROPERTIES NewStateShown
