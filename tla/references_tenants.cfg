SPECIFICATION ReferencesSpec
CONSTANTS
    x1 = x1
    alpha = alpha
    beta = beta
    Rows = {d1, d2}
    Keys = {x1}
    Titles = {n1, n2}
    NoKey = NoKey
    NoNumber = NoNumber
    Orderers = {alpha, beta}
    Batches <- SameKey
    Intakes = {r1}
    Writers = {c1, c2}
INVARIANT ItemReachesItsBoleto
CHECK_DEADLOCK FALSE
