SPECIFICATION RecordsSpec
CONSTANTS
    \* ProviderCatalog: a retry, a rival, another name, a key used twice.
    first = first
    again = again
    rival = rival
    other = other
    clash = clash
    x1 = x1
    x2 = x2
    NoCat = NoCat
    MintCalls = {first, again, rival, other, clash}
    MintKey <- MCKey
    MintName <- MCName
    Curated = {}
    CatLimit = 2
    Readers = {x1}
    MaxSales = 1
    \* The generated catalog: one curated category, two minted ones.
    Queries <- MCQueries
    UnitPrice <- MCUnitPrice
    CuratedCats = 1
    BrandCount = 2
    ModelsPerPair = 2
    VariantsPerModel = 2
    SeriesCount = 2
    StyleCounts = {1, 2}
    WindowMin = 3
    MaxWindow = 8
    ScanLimit = 5
    PageSizes = {1, 3}
    MaxMinted = 2
    \* QualityReview: two reviewers, one rater.
    Reviewers = {r1, r2}
    Raters = {f1}
    Nobody = Nobody
    MaxReplies = 2
    MaxEvents = 3
    \* GuestIdentity: two tabs of one browser.
    Tabs = {a, b}
    MaxVisitors = 2
    MaxSessions = 4
    MaxAttempts = 3
    NoSession = NoSession
    NoVisitor = NoVisitor
    \* MockCommerce
    MockCallers = {r1, r2}
    Skus = {s1, s2}
    s1 = s1
    s2 = s2
    HouseNames = {"own"}
    Wishes = {"own", "new"}
    WindowSize = 1
    Stock <- MCStock
    MaxOrder <- MCMaxOrder
    Baskets <- MCBaskets
    Budgets <- MCBudgets
    NoObject = NoObject
    \* TaxonomyRegistry: two administrators, two versions.
    Admins = {r1, r2}
    Builtin = {base}
    p1 = p1
    p2 = p2
    cx = cx
    NewCategory <- MCNewCategory
    AliasOf <- MCAliasOf
    MaxVersions = 2
    \* HandoffDesk: two conversations, one agent.
    Threads = {r1, r2}
    Clerks = {a1}
    MaxSlips = 3
    MaxLines = 3
    PageLimit = 1
    NoClerk = NoClerk
    \* Replicas: two processes, one turn of the conversation.
    Replicas = {r1, r2}
    Setups <- MCSetups
    MaxTurns = 1
    MaxBoots = 2
SYMMETRY Alike
CHECK_DEADLOCK FALSE
INVARIANTS PagesPartitionTheAnswer JudgedAsSeen OneConversationEach
           MockKeepsItsBooks RegistryServesWhatWasApproved DeskIsSound FleetIsFit
PROPERTIES MintedCategoriesStay
