SPECIFICATION Spec
CONSTANTS
    w1 = w1  w2 = w2  w3 = w3  b1 = b1  b2 = b2  b3 = b3
    NULL = NULL
    Workers = {w1, w2}
    Bufs = {b1, b2, b3}
    Settings <- LateRenders
INVARIANTS NoBareContext
