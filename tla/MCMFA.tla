------------------------------- MODULE MCMFA -------------------------------
(* An instance of MFA: an administrator with a second factor who was mailed  *)
(* a reset code, and a user whose second factor waits to be confirmed.       *)
EXTENDS MFA

CONSTANTS ann, bob, i1, ea, eb, ec, p1, p2, s1

Person == [NoAccount EXCEPT !.enabled = TRUE, !.password = p1, !.verified = TRUE]

MCAccount ==
    [u \in Users |->
        IF u = ann THEN [Person EXCEPT !.email = ea, !.admin = TRUE, !.code = 1,
                           !.reset = 2, !.open = TRUE, !.mfa = TRUE, !.secret = 3]
        ELSE IF u = bob THEN [Person EXCEPT !.email = eb, !.code = 5, !.reset = 6, !.secret = 7]
        ELSE NoAccount]
MCInvite == [i \in Invites |-> NoInvite]
MCSent == {[kind |-> "verify", code |-> 1, to |-> ea], [kind |-> "verify", code |-> 5, to |-> eb],
           [kind |-> "reset", code |-> 2, to |-> ea]}
MCRecovery == {[id |-> 4, user |-> ann, secret |-> 3, used |-> FALSE]}
MCChallenged == {ann}

RequestSymmetry == Permutations(Requests)

=============================================================================
