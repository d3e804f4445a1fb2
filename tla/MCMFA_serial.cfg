SPECIFICATION MFASpec
CONSTANTS
    ann = ann
    bob = bob
    i1 = i1
    ea = ea
    eb = eb
    ec = ec
    p1 = p1
    p2 = p2
    s1 = s1
    None = None
    Users = {ann, bob}
    Invites = {i1}
    Emails = {ea, eb, ec}
    Passwords = {p1, p2}
    Subjects = {s1}
    SMTPEnabled = TRUE
    OIDCAutoCreateUsers = TRUE
    MFARecoveryCodesEnabled = TRUE
    RecoveryCodeCount = 1
    Requests = {r1, r2, r3}
    MaxInFlight = 1
    Handlers = {"UpdateUser", "APIDeleteUser", "VerifyUser", "SendUserVerificationCode",
                "APIResetPassword", "APIChangePassword", "OIDCCallback",
                "APIEnrollMFA", "APIActivateMFA", "GenerateToken", "APIValidateMFA",
                "APIDisableMFA", "APIAdminDeleteUserMFA"}
    SeedAccount <- MCAccount
    SeedInvite <- MCInvite
    SeedSent <- MCSent
    SeedIds = 7
    SeedRecovery <- MCRecovery
    SeedChallenged <- MCChallenged
SYMMETRY RequestSymmetry
INVARIANTS
    MFATypeOK
    VerifiedMeansReached
    OneAccountPerSubject
    CodesAreSingleUse
    MFAKeepsASecret
    CodesOfTheSecret
CHECK_DEADLOCK FALSE
