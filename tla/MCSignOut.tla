----------------------------- MODULE MCSignOut -----------------------------
(***************************************************************************)
(* SignOut for TLC: one request at a time, and the run in which two overlap *)
(* and a session outlives signing out.  The app has the session s1 already. *)
(***************************************************************************)
EXTENDS SignOut, TLC

CONSTANTS u1, web, app, s1, s2, s3, r1, r2, r3

MCSeedSession ==
    [s \in Sessions |->
        IF s = s1 THEN [NoSession EXCEPT !.user = u1, !.client = app] ELSE NoSession]

RequestAndSessionSymmetry == Permutations(Requests) \cup Permutations(Sessions \ {s1})

=============================================================================
