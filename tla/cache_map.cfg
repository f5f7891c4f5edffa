SPECIFICATION Spec
CONSTANTS
    NULL = NULL
    w1 = w1  w2 = w2
    o1 = o1  o2 = o2  o3 = o3  o4 = o4  o5 = o5
    pa = pa  pb = pb  plong = plong
    ma = ma  mb = mb  mlong = mlong  msum = msum
    Workers = {w1, w2}
    Objs = {o1, o2, o3, o4, o5}
    Paths = {pa, plong}
    LongPaths = {plong}
    Periods = {60, 300}
    Slots = {0, 1}
    Hash <- MCHash
    MaxClock = 1
    TtlSettings = {1}
    DefaultTtl = 2
    Metrics = {ma, mlong}
    MetricPath <- MCMetricPath
    MetricSum <- MCMetricSum
    MaxOom = 0
INVARIANTS AnswersTheQuestion
PROPERTIES ImplementsTtlMap
SYMMETRY Symmetric
