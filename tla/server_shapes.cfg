\* two names, three declarations, one manifest
SPECIFICATION Spec
CONSTANTS
    a = a
    b = b
    p = p
    q = q
    Nil = Nil
    Name = {a, b}
    Block = {p}
    Standard = {}
    MaxNum = 3
    MaxNs = 1
    Active = {1}
    MaxManifest = 1
SYMMETRY Renamings
INVARIANTS TypeOK Exact  ExactInv
CHECK_DEADLOCK FALSE
