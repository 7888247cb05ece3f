\* one block, three namespaces, two declarations in any, one manifest; number 2 of
\* namespace 0 is taken
SPECIFICATION Spec
CONSTANTS
    a = a
    b = b
    p = p
    q = q
    Nil = Nil
    Name = {a}
    Block = {p}
    Standard = {2}
    MaxNum = 2
    MaxNs = 2
    Active = {0, 1, 2}
    MaxManifest = 1
INVARIANTS DeclaredBlocks Exact
PROPERTIES StaleForGood
CHECK_DEADLOCK FALSE
