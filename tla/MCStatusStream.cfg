SPECIFICATION FairSpec
CONSTANTS
    h1 = h1
    h2 = h2
    w1 = w1
    w2 = w2
    Handlers = {h1}
    Subscribers = {w1}
    OthersAct = TRUE
    Holding = {TRUE, FALSE}
    Capacity = 1
    MaxChanges = 2
    MaxFaults = 2
    MaxLines = 2
INVARIANT CachedIsCurrent
PROPERTIES FirstMessageFresh BrowsersCatchUp
