\* two clients, a read-write and a read-only variable, a method with a block and
\* one without; blocks within blocks
SPECIFICATION FairSpec
CONSTANTS
    c1 = c1
    c2 = c2
    x = x
    y = y
    m = m
    n = n
    u = u
    v = v
    Remote = {c1, c2}
    Var = {x, y}
    Method = {m, n}
    ReadOnly = {y}
    Blockless = {n, y}
    Value = {u, v}
    MaxReq = 2
    MaxDepth = 2
INVARIANTS TypeOK ExternalRight
PROPERTIES Answered PromiseKept
CHECK_DEADLOCK FALSE
