SPECIFICATION Spec
CONSTANTS
    k1 = k1
    k2 = k2
    k3 = k3
    h1 = h1
    h2 = h2
    Keys = {k1, k2, k3}
    Handlers = {h1, h2}
    MaxEntries = 2
    Sizes = {0, 2}
    Albums <- MCAlbums
    Changing = {k1}
    MaxChanges = 1
INVARIANTS CacheWellFormed CachedIsTrue
PROPERTIES EvictsLeastRecent TransfersEnd
