SPECIFICATION MCSpec
CONSTANTS
    w1 = w1  w2 = w2
    a1 = a1  a2 = a2  q1 = q1  q2 = q2
    Ticker = Ticker
    Star = Star
    None = None
    Handlers <- TwoHandlers
    Dbs <- TwoDbs
    Acls <- TwoAcls
    Pools <- TwoPools
    BasePool = q1
    Boot = TRUE
    Overlap = TRUE
    MaxChanges = 2
    MaxRestarts = 1
    MaxFailures = 1
INVARIANTS
    
    
    RowsTraced
    TextSaysRecord
    OverwrittenBySave
