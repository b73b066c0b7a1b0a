SPECIFICATION FairSpec
CONSTANTS
    Nodes = {n1, n2, n3}
    NoNode = NoNode
    TickMod = 6
    Delays = {0, 1}
    MaxLate = 1
    MaxCallbackOps = 2
INVARIANTS ListConsistent DeadlinesTrue NoneMissed
PROPERTIES ImplementsContract OncePerPass NeverStarves
