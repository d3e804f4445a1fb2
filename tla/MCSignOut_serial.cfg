SPECIFICATION SignOutSpec
CONSTANTS
    u1 = u1
    web = web
    app = app
    s1 = s1
    s2 = s2
    s3 = s3
    r1 = r1
    r2 = r2
    r3 = r3
    Users = {u1}
    Clients = {web, app}
    FirstParty = web
    Sessions = {s1, s2, s3}
    Requests = {r1, r2, r3}
    MaxInFlight = 1
    GraceWindow = 0
    Lifetime = 1
    MaxTime = 2
    None = None
    SeedSession <- MCSeedSession
SYMMETRY RequestAndSessionSymmetry
INVARIANTS SignedOutStaysOut SingleSuccessor
PROPERTIES SignOutEndsWithTheGrace
CHECK_DEADLOCK FALSE
