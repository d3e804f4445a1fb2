--------------------------- MODULE MCOAuthServer ---------------------------
(***************************************************************************)
(* OAuthServer for TLC: one user, logged in since the start, has agreed to  *)
(* one scope for the app, which has two codes: that of ra is redeemed, for  *)
(* the session s1, and that of rb is not.  r1 and r2 are the requests.      *)
(***************************************************************************)
EXTENDS OAuthServer, TLC

CONSTANTS u1, web, app, s1, s2, s3, ra, rb, r1, r2, profile, wishes

MCSeedSession ==
    [s \in Sessions |->
        IF s = s1 THEN [NoSession EXCEPT !.user = u1, !.client = app] ELSE NoSession]
MCSeedBorn == [s \in Sessions |-> IF s = s1 THEN ra ELSE None]
MCSeedLogins == {[user |-> u1, issued |-> 0, made |-> 0]}
MCSeedConsents == {[id |-> ra, user |-> u1, client |-> app, scopes |-> {profile}]}
MCSeedCode ==
    [r \in Requests |-> IF r \in {ra, rb}
                        THEN [user |-> u1, client |-> app, scopes |-> {profile}, issued |-> 0,
                              used |-> r = ra, made |-> 0, stale |-> {}]
                        ELSE NoCode]
MCSeedAgreed == {[user |-> u1, client |-> app, scopes |-> {profile}]}

RequestAndSessionSymmetry == Permutations({r1, r2}) \cup Permutations({s2, s3})

=============================================================================
