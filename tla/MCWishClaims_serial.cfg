SPECIFICATION ClaimsSpec
CONSTANTS
    alice = alice
    bob = bob
    carol = carol
    g1 = g1
    g2 = g2
    l1 = l1
    l2 = l2
    w1 = w1
    w2 = w2
    r1 = r1
    r2 = r2
    r3 = r3
    None = None
    Users = {alice, bob, carol}
    Groups = {g1}
    Lists = {l1}
    Wishes = {w1}
    Categories = {}
    CategoryNames = {}
    Requests = {r1, r2, r3}
    MaxInFlight = 1
    MaxTargets = 2
    Handlers <- SerialHandlers
    SeedGroup <- MCSeedGroup
    SeedMembers <- MCSeedMembers
    SeedList <- MCSeedList
    SeedLinks <- MCSeedLinks
    SeedCollaborators = {}
    SeedIds = 6
    SeedClaims <- MCSeedClaims
    SeedWish <- MCSeedWish
    SeedCategory <- MCSeedCategory
SYMMETRY RequestSymmetry
PROPERTIES  PublishingMintsALink UnclaimingTellsTheTruth PublicViewIsCurrent
CHECK_DEADLOCK FALSE
