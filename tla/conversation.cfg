\* Sessions with and without a supervisor, over restarts, refused saves and a
\* profile that changes; the second paper does not fit the context.
CONSTANTS
    p1 = p1
    p2 = p2
    u1 = u1
    u2 = u2
    Papers = {p1, p2}
    Urls = {u1, u2}
    LinksOf <- MCLinksOf
    Profiles = {f1}
    Goals <- MCGoals
    None = None
    Unfit = {p2}
SPECIFICATION FairSpec
CHECK_DEADLOCK FALSE
INVARIANTS
    RepositoryOfItsProfile
    RepositoryAfterPaper
    CodeFollowsEvidence
PROPERTIES
    Settles
