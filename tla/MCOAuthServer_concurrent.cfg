SPECIFICATION OAuthSpec
CONSTANTS
    u1 = u1
    web = web
    app = app
    s1 = s1
    s2 = s2
    s3 = s3
    ra = ra
    rb = rb
    r1 = r1
    r2 = r2
    profile = profile
    wishes = wishes
    Users = {u1}
    Clients = {web, app}
    FirstParty = web
    Sessions = {s1, s2, s3}
    Requests = {ra, rb, r1, r2}
    MaxInFlight = 2
    GraceWindow = 0
    Lifetime = 1
    MaxTime = 1
    None = None
    SeedSession <- MCSeedSession
    SeedBorn <- MCSeedBorn
    Scopes = {profile, wishes}
    CodeTTL = 1
    SSOTokenValid = 2
    Second = 2
    SeedLogins <- MCSeedLogins
    SeedCode <- MCSeedCode
    SeedConsents <- MCSeedConsents
    SeedAgreed <- MCSeedAgreed
SYMMETRY RequestAndSessionSymmetry
INVARIANTS OAuthTypeOK RotationIsLinked OnlyOvertakenCodesLackConsent  ScopesWereAgreedTo
PROPERTIES RevocationIsFinal CodesStartOneLine
CHECK_DEADLOCK FALSE
