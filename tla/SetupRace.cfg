SPECIFICATION Spec
CONSTANTS
    p1 = p1  p2 = p2
    i1 = i1  i2 = i2  i3 = i3
    alice = alice  bob = bob
    h1 = h1  h2 = h2
    t1 = t1  t2 = t2
    d1 = d1
    None = None
    Procs <- TwoProcs
    Ids <- TwoIds
    Names <- TwoNames
    Hashes <- OneHash
    Tokens <- OneToken
    Dbs <- OneDb
    Ops <- SetupOps
    Apart <- Nothing
    Faults <- Nothing
SYMMETRY Symmetry
INVARIANTS
    SetupOnce
CHECK_DEADLOCK FALSE
