SPECIFICATION Spec
CONSTANTS
    p1 = p1  p2 = p2
    i1 = i1  i2 = i2  i3 = i3
    alice = alice  bob = bob
    h1 = h1  h2 = h2
    t1 = t1  t2 = t2
    d1 = d1
    None = None
    Procs <- TwoProcs
    Ids <- ThreeIds
    Names <- TwoNames
    Hashes <- OneHash
    Tokens <- OneToken
    Dbs <- OneDb
    Ops <- AccountOps
    Apart <- Nothing
    Faults <- StatementOnly
SYMMETRY Symmetry
INVARIANTS
    TypeOK
    AccountIdentity
    NoOrphans
    NeverOwnAccount
PROPERTY
    ImplementsRegister
