\* blocks call back into the client, one level deep
SPECIFICATION Spec
CONSTANTS
    n1 = n1
    n2 = n2
    Node = {n1, n2}
    MaxReg = 2
    MaxSub = 2
    MaxItem = 2
    MaxDepth = 4
SYMMETRY Handles
INVARIANTS ClientInv MonIdLive NoOrphan SubsAccounted
PROPERTY PromiseKept
CHECK_DEADLOCK FALSE
