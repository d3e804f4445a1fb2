------------------------------ MODULE SignOut ------------------------------
(***************************************************************************)
(* What signing out means for refresh tokens: RefreshSessions with history  *)
(* variables that remember which session was rotated into which, which      *)
(* refresh tokens were handed over and which sessions were signed out.      *)
(***************************************************************************)
EXTENDS RefreshSessions

VARIABLES
    origin,          \* origin[s]: the session s was rotated from, or None
    delivered,       \* the sessions whose refresh token reached the client
    signedOut        \* signedOut[s]: when s, or what it comes from, was signed out

history == <<origin, delivered, signedOut>>
signOutVars == <<refreshVars, history>>

Step(r, step) == At(r, step) /\ request'[r] # request[r] /\ request'[r].reply # "error"

Created == {s \in Sessions : ~Exists(s) /\ session'[s].user # None}
\* The session that s, if it is created by a rotation, is rotated from.
ParentsOf(s) ==
    {request[r].token : r \in {p \in Requests : Step(p, "create") /\ request'[p].child = s}}

\* What a step signs out: the session of the browser that logs out, the sessions
\* of a disconnected app, and every session of a user who is signed out
\* everywhere or whose token is taken for stolen.
SignedOutBy(r) ==
    LET q == request[r]
    IN {s \in Sessions :
          \/ Step(r, "logout") /\ s = q.token
          \/ Step(r, "disconnect") /\ session[s].user = q.user /\ session[s].client = q.client
          \/ Step(r, "revokeAll") /\ session[s].user = q.user
          \/ Step(r, "reuse") /\ session[s].user = q.row.user}

SignOutInit ==
    /\ RefreshInit
    /\ origin = [s \in Sessions |-> None]
    /\ delivered = {s \in Sessions : SeedSession[s] # NoSession}
    /\ signedOut = [s \in Sessions |-> None]

SignOutNext ==
    /\ RefreshNext
    /\ origin' = [s \in Sessions |-> IF s \in Created /\ ParentsOf(s) # {}
                                     THEN CHOOSE t \in ParentsOf(s) : TRUE ELSE origin[s]]
    /\ delivered' = delivered \cup
            {s \in Sessions : \/ s \in Created /\ ParentsOf(s) = {}
                              \/ \E r \in Requests : /\ Step(r, "user")
                                                     /\ request'[r].reply = "ok"
                                                     /\ request[r].child = s}
    /\ signedOut' =
            [s \in Sessions |->
                IF s \in Created
                THEN IF \E t \in ParentsOf(s) : signedOut[t] # None THEN now ELSE None
                ELSE IF signedOut[s] = None /\ \E r \in Requests : s \in SignedOutBy(r)
                THEN now ELSE signedOut[s]]

SignOutSpec == SignOutInit /\ [][SignOutNext]_signOutVars

-----------------------------------------------------------------------------
\* A session that was signed out, or was rotated from one that had been, is not
\* active: signing out leaves no session behind.
SignedOutStaysOut == \A s \in Sessions : signedOut[s] # None => ~Active(s)

\* A session is replaced by at most one session whose token was handed over, the
\* one it is linked to.
SingleSuccessor ==
    \A s, t \in delivered : origin[s] # None /\ origin[s] = origin[t] => s = t

\* The rotation of a refresh token goes on to mint an access token.
Served(r) == At(r, "read") /\ request'[r].step \in {"create", "user"}

\* A refresh token that was signed out is good for no more than the grace window
\* of the rotation that preceded the sign-out.
SignOutEndsWithTheGrace ==
    [][\A r \in Requests :
        LET t == request[r].token
        IN Served(r) /\ signedOut[t] # None => now <= signedOut[t] + GraceWindow]_signOutVars

=============================================================================
