\* four declarations: an object of a type in a type, with a block
SPECIFICATION Spec
CONSTANTS
    a = a
    b = b
    p = p
    q = q
    Nil = Nil
    Name = {a}
    Block = {p}
    Standard = {}
    MaxNum = 4
    MaxNs = 1
    Active = {1}
    MaxManifest = 1
INVARIANTS EveryBlock
CHECK_DEADLOCK FALSE
