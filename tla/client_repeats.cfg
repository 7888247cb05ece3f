\* one handle, registered and waited on repeatedly; blocks make no client calls
SPECIFICATION Spec
CONSTANTS
    n1 = n1
    n2 = n2
    Node = {n1}
    MaxReg = 3
    MaxSub = 2
    MaxItem = 3
    MaxDepth = 2
INVARIANTS NewestBlock OwnBlock
CHECK_DEADLOCK FALSE
