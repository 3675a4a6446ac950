\* A request for papers and their code, and one that names both, every outcome.
CONSTANTS
    CallLimit = 12
    Records = {1, 2, 3, 4}
    IdentitiesOf <- MCIdentitiesOf
    IdOf <- MCIdOf
    UpdatedOf <- MCUpdatedOf
    PublishedOf <- MCPublishedOf
    Window <- MCWindow
    PageSize = 2
    MaxPages = 3
    MaxRecords = 3
    MaxSearches = 2
    MaxPapers = 2
    MaxTurns = 7
    Paths = {m1, m2}
    MaxReads = 2
    MaxCodeTurns = 6
    None = None
    Urls = {u1, u2}
    u1 = u1
    u2 = u2
    m1 = m1
    m2 = m2
    LinksOf <- MCLinksOf
    Goals <- MCGoals
    ContextUrls = {}
    MaxDelegations = 3
SPECIFICATION FairSpec
CHECK_DEADLOCK FALSE
INVARIANTS
    TypeOK
    PapersAreWorks
    BudgetShared
    AdviceValidates
    ArtifactsWhole
    NothingReadUnapproved
PROPERTIES
    IsTurnLoop
    RequestEnds
