\* A supervised turn whose save is refused.
CONSTANTS
    p1 = p1
    p2 = p2
    u1 = u1
    u2 = u2
    Papers = {p1, p2}
    Urls = {u1, u2}
    LinksOf <- MCLinksOf
    Profiles = {f1}
    Goals <- MCGoals
    None = None
    Unfit = {}
SPECIFICATION Spec
CHECK_DEADLOCK FALSE
INVARIANTS RefusedSaveIsSaid
