SPECIFICATION ClaimsSpec
CONSTANTS
    alice = alice
    bob = bob
    carol = carol
    g1 = g1
    g2 = g2
    l1 = l1
    l2 = l2
    w1 = w1
    w2 = w2
    r1 = r1
    r2 = r2
    r3 = r3
    None = None
    Users = {alice, bob, carol}
    Groups = {g1, g2}
    Lists = {l1, l2}
    Wishes = {w1, w2}
    Categories = {}
    CategoryNames = {}
    Requests = {r1, r2}
    MaxInFlight = 2
    MaxTargets = 1
    Handlers <- AllHandlers
    SeedGroup <- MCSeedGroup
    SeedMembers <- MCSeedMembersWithBob
    SeedList <- MCSeedList
    SeedLinks <- MCSeedLinks
    SeedCollaborators <- MCSeedCollaborators
    SeedIds = 6
    SeedClaims <- MCSeedClaims
    SeedWish <- MCSeedWish
    SeedCategory <- MCSeedCategory
SYMMETRY RequestSymmetry
INVARIANTS ClaimsTypeOK OwnerStaysMember CollaboratorIsNotOwner PublicNeverClaimable NoOwnWishClaimed
PROPERTIES OnlyOwnersGrantAccess  
CHECK_DEADLOCK FALSE
