\* liveness; no symmetry
SPECIFICATION FairSpec
CONSTANTS
    n1 = n1
    n2 = n2
    Node = {n1}
    MaxReg = 2
    MaxSub = 2
    MaxItem = 2
    MaxDepth = 2
PROPERTIES RegistrationServed WaitEnds InterruptEndsWait
CHECK_DEADLOCK FALSE
