SPECIFICATION WishesSpec
CONSTANTS
    alice = alice
    bob = bob
    l1 = l1
    l2 = l2
    w1 = w1
    w2 = w2
    c1 = c1
    c2 = c2
    toys = toys
    r1 = r1
    r2 = r2
    r3 = r3
    r4 = r4
    None = None
    Users = {alice, bob}
    Groups = {}
    Lists = {l1, l2}
    Wishes = {w1, w2}
    Categories = {c1, c2}
    CategoryNames = {toys}
    Requests = {r1, r2, r3, r4}
    MaxInFlight = 1
    MaxTargets = 1
    Handlers <- EditingHandlers
    SeedGroup <- MCSeedGroup
    SeedMembers = {}
    SeedList <- MCSeedList
    SeedLinks = {}
    SeedCollaborators = {}
    SeedIds = 1
    SeedWish <- MCSeedWish
    SeedCategory <- MCSeedCategory
SYMMETRY RequestSymmetry
INVARIANTS NoDanglingCategory OneCategoryPerName 
CHECK_DEADLOCK FALSE
