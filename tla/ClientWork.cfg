SPECIFICATION MCSpec
CONSTANTS
    dA = dA  dB = dB  fA = fA  fB = fB  fBroken = fBroken
    colA = colA  colB = colB  colC = colC
    NoData = NoData
    BackupDbs <- TwoBackupDbs
    Files <- ThreeFiles
    ValidFiles <- TwoDumps
    PublicDumps <- TwoDumps
    DumpOf <- DumpNames
    TableRows <- ThreeTableRows
    NoName = NoName
    Gone = Gone
    BackupPlans <- AllBackupPlans
    Names <- ThreeColumnNames
    SortNames <- SortByB
    NullValue <- MinusOne
    EmptyText = 0
    Undefined <- MinusTwo
    Cells <- FourCells
    NullText = 4
    StringOf <- TextOfCells
    TypedTexts = {1, 4}
    PageSize = 2
    LastRowPage = 2
    ColumnForms <- TwoColumnForms
    NoRow = NoRow
    NoColumn = NoColumn
    TablePlans <- AllTablePlans
    TableNames = {"t1"}
    ColNames = {"x"}
    MaxDrafts = 2
    Queries <- ConsoleTexts
    AnswerTo <- ConsoleAnswers
    FormattedAs <- ConsoleFormats
    HistoryLimit = 1
    PagePlans <- AllPagePlans
    Filters = {"username"}
    LogTexts = {"x", "y"}
    FilterTexts = {"x"}
    FirstLogs <- TwoLogs
    LaterLogs <- MoreLogs
    LogLimit = 1
    LastPage = 1
    MaxLogEvents = 2
INVARIANTS ClientWorkTypeOK TicksOfList FormOfFile RestoredApart
    TableInSync UpdateIsOfRow AlterFindsColumn PageHasRows
    TablesInSync TablesWellFormed
    ShownSatisfyFilter
CHECK_DEADLOCK FALSE
