\* two handles; blocks make no client calls
SPECIFICATION Spec
CONSTANTS
    n1 = n1
    n2 = n2
    Node = {n1, n2}
    MaxReg = 2
    MaxSub = 2
    MaxItem = 2
    MaxDepth = 2
SYMMETRY Handles
INVARIANTS TypeOK OncePerCall NoSilentLoss
CHECK_DEADLOCK FALSE
