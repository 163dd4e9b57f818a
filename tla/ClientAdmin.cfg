SPECIFICATION MCSpec
CONSTANTS
    tabA = tabA  tabB = tabB  ann = ann  bob = bob
    uA = uA  uB = uB  dApp = dApp  dWeb = dWeb  dSys = dSys  pA = pA  pB = pB
    NoData = NoData
    Tabs <- ClientTabs
    Logins <- ClientLogins
    FirstAdmin = ann
    NobodySignedIn = NobodySignedIn
    Links = {"/profile"}
    MaxClientRequests = 3
    MaxLoads = 2
    ClientBounds <- AllClientBounds
    Users <- TwoUsers
    NoUser = NoUser
    NoRow = NoRow
    NoSecret = NoSecret
    Dbs <- OneDb
    ListedDbs <- OneDb
    Ips = {}
    UserPlans <- AllUserPlans
    DbNames <- AllDbs
    SystemDbs <- OneSystemDb
    NoDb = NoDb
    DbPlans <- AllDbPlans
    PooledDbs <- TwoPooled
    PoolChoices = {0, 5, 20}
    PoolDefault = 20
    PoolRefused = {0}
    DayChoices = {0, 30, 90}
    DaysDefault = 90
    SettingsPlans <- AllSettingsPlans
SYMMETRY Symmetry
INVARIANTS ClientAdminTypeOK ShownUserHasSession SetupNotOfferedAgain
    UsersInSync PasswordOfUser UserDeletionTyped
    DatabasesInSync DropTypedOrCutShort
    SettingsInSync RetentionShown ActiveHasCerts
PROPERTIES ShownUntilClosed
CHECK_DEADLOCK FALSE
