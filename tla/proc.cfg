SPECIFICATION Spec
CONSTANTS
    w1 = w1  w2 = w2  w3 = w3
    Workers = {w1, w2, w3}
    MaxTotal = 3
    MaxLoss = 1
INVARIANTS TypeOK JiffiesCovered
