SPECIFICATION FairSpec
CONSTANTS
    w1 = w1  d1 = d1  a1 = a1  a2 = a2  q1 = q1
    Ticker = Ticker
    Star = Star
    None = None
    Handlers <- OneHandler
    Dbs <- OneDb
    Acls <- TwoAcls
    Pools <- OnePool
    BasePool = q1
    Boot = TRUE
    Overlap = TRUE
    MaxChanges = 2
    MaxRestarts = 1
    MaxFailures = 1
INVARIANTS
    TypeOK

    
