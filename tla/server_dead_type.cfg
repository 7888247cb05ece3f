\* manifest of a deleted type
SPECIFICATION Spec
CONSTANTS
    a = a
    b = b
    p = p
    q = q
    Nil = Nil
    Name = {a}
    Block = {}
    Standard = {}
    MaxNum = 2
    MaxNs = 1
    Active = {1}
    MaxManifest = 1
INVARIANTS TypeHandleLive
CHECK_DEADLOCK FALSE
