SPECIFICATION Spec
CONSTANTS
    NULL = NULL
    w1 = w1  w2 = w2
    o1 = o1  o2 = o2  o3 = o3  o4 = o4  o5 = o5
    pa = pa  pb = pb  plong = plong
    ma = ma  mb = mb  mlong = mlong  msum = msum
    Workers = {w1, w2}
    Objs = {o1, o2, o3, o4, o5}
    Paths = {pa, pb}
    LongPaths = {}
    Periods = {60}
    Slots = {0, 1}
    Hash <- MCHash
    MaxClock = 2
    TtlSettings = {0}
    DefaultTtl = 1
    Metrics = {ma, mb}
    MetricPath <- MCMetricPath
    MetricSum <- MCMetricSum
    MaxOom = 1
SYMMETRY Symmetric
INVARIANTS
    TypeOK OwnedOnce OnlyFailedPutsLeak PutIsFound TtlBoundsEntries ChainsWellFormed
PROPERTIES RepeatsAreServedFromCache
