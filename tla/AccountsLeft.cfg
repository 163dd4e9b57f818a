SPECIFICATION MCSpec
CONSTANTS
    p1 = p1  p2 = p2
    i1 = i1  i2 = i2
    alice = alice  bob = bob
    h1 = h1  h2 = h2
    t1 = t1
    d1 = d1
    None = None
    Procs <- TwoProcs
    Ids <- TwoIds
    Names <- TwoNames
    Hashes <- TwoHashes
    Tokens <- OneToken
    Dbs <- OneDb
    Ops <- LeftOps
    Apart <- SetupApart
    Faults <- AllFaults
SYMMETRY Symmetry
INVARIANTS
    StaleSessionsTraced
    AssignmentsTraced
