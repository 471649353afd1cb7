SPECIFICATION FairSpec
CONSTANTS
    a1 = a1
    Acts = {a1}
    MaxUpsets = 2
CHECK_DEADLOCK FALSE
INVARIANT QuietMeansCurrent
PROPERTIES ListNeverGoesBack ListCatchesUp
