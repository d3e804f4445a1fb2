SPECIFICATION AccountsSpec
CONSTANTS
    ann = ann
    bob = bob
    cat = cat
    i1 = i1
    i2 = i2
    ea = ea
    eb = eb
    ec = ec
    p1 = p1
    s1 = s1
    None = None
    Users = {ann, bob, cat}
    Invites = {i1, i2}
    Emails = {ea, eb, ec}
    Passwords = {p1}
    Subjects = {s1}
    SMTPEnabled = TRUE
    OIDCAutoCreateUsers = TRUE
    Requests = {r1, r2, r3}
    MaxInFlight = 2
    Handlers <- AllHandlers
    SeedAccount <- MCAccount
    SeedInvite <- MCInvite
    SeedSent <- MCSent
    SeedIds = 2
SYMMETRY AccountSymmetry
INVARIANTS
    InvitesMatchAccounts
    OneAccountPerEmail
CHECK_DEADLOCK FALSE
