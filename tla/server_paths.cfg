\* two names, two declarations, manifest below a manifested object
SPECIFICATION Spec
CONSTANTS
    a = a
    b = b
    p = p
    q = q
    Nil = Nil
    Name = {a, b}
    Block = {}
    Standard = {}
    MaxNum = 2
    MaxNs = 1
    Active = {1}
    MaxManifest = 3
SYMMETRY Renamings
CONSTRAINT WhileProper
INVARIANTS NoClash PathInv
CHECK_DEADLOCK FALSE
