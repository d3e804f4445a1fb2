----------------------------- MODULE MCAccounts -----------------------------
(* An instance of Accounts: one administrator, who was mailed a code of each  *)
(* kind, one open invite and room for two more accounts.                      *)
EXTENDS Accounts

CONSTANTS ann, bob, cat, i1, i2, ea, eb, ec, p1, s1

MCAccount ==
    [u \in Users |->
        IF u = ann THEN [NoAccount EXCEPT !.enabled = TRUE, !.email = ea, !.password = p1,
                                          !.admin = TRUE, !.code = 1, !.reset = 2, !.open = TRUE]
        ELSE NoAccount]
MCInvite == [i \in Invites |-> [NoInvite EXCEPT !.enabled = i = i1]]
MCSent == {[kind |-> "verify", code |-> 1, to |-> ea], [kind |-> "reset", code |-> 2, to |-> ea]}

AllHandlers ==
    {"RegisterUser", "RegisterInvite", "APIDeleteInvite", "OIDCCallback", "VerifyUser",
     "SendUserVerificationCode", "UpdateUser", "APIDeleteUser", "APIResetPassword",
     "APIChangePassword"}

AccountSymmetry ==
    Permutations(Requests) \cup Permutations({bob, cat}) \cup Permutations({eb, ec})

=============================================================================
