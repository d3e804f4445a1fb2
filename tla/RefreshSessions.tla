--------------------------- MODULE RefreshSessions ---------------------------
(***************************************************************************)
(* Refresh tokens: the sessions table, the token endpoint's refresh grant   *)
(* and the ways of signing out.                                             *)
(*                                                                          *)
(* A refresh token stands for one row.  Rotating it creates the row of the  *)
(* next token and then saves the old row, in two separate calls; the old    *)
(* token is still good for an access token during a grace window and, after *)
(* it, taken as stolen.  A request is split at its database calls.          *)
(***************************************************************************)
EXTENDS Naturals, FiniteSets

CONSTANTS
    Users, Clients,
    FirstParty,      \* the built-in client
    Sessions,        \* the rows a behaviour may create
    Requests,        \* the token and sign-out requests, each handled once
    MaxInFlight,     \* bound: requests being handled at the same time
    GraceWindow,     \* RotationGraceWindow
    Lifetime,        \* RefreshTokenLifetime
    MaxTime,         \* bound: the clock stops here
    None,
    SeedSession      \* the sessions there are at the start

ASSUME RefreshAssumption ==
    /\ FirstParty \in Clients
    /\ GraceWindow \in Nat
    /\ Lifetime \in Nat
    /\ MaxTime \in Nat
    /\ MaxInFlight \in Nat
    /\ None \notin Users \cup Clients \cup Sessions \cup Nat

VARIABLES
    now,             \* the clock
    userEnabled,     \* userEnabled[u]: the account is enabled
    clientEnabled,   \* clientEnabled[c]: the client is enabled
    invalidatedAt,   \* invalidatedAt[u]: the user's global logout marker
    session,         \* session[s]: its row, or NoSession
    request          \* request[r]: the request r as its handler sees it

refreshVars == <<now, userEnabled, clientEnabled, invalidatedAt, session, request>>

Time == Nat \cup {None}

SessionRow ==
    [user: Users \cup {None}, client: Clients \cup {None}, issued: Nat,
     revoked: Time, rotated: Time, next: Sessions \cup {None}]

NoSession == [user |-> None, client |-> None, issued |-> 0,
              revoked |-> None, rotated |-> None, next |-> None]

\* The sessions at the start are active.
ASSUME SeedSessionAssumption ==
    /\ SeedSession \in [Sessions -> SessionRow]
    /\ \A s \in Sessions :
        \/ SeedSession[s] = NoSession
        \/ \E u \in Users, c \in Clients :
              SeedSession[s] = [NoSession EXCEPT !.user = u, !.client = c]

NewSession(u, c) == [NoSession EXCEPT !.user = u, !.client = c, !.issued = now]

Exists(s) == session[s].user # None
Active(s) == Exists(s) /\ session[s].revoked = None
Expired(row) == now > row.issued + Lifetime

(***************************************************************************)
(* A request: the client that sends it, the refresh token it presents or    *)
(* the user it is about, the next call to make, and what it has gathered:   *)
(* the row it read, the time it read it, the row it created.                *)
(***************************************************************************)
Request ==
    [step: {"none", "client", "read", "create", "save", "revokeChild", "reuse",
            "user", "grantClient", "grantUser", "grant", "logout", "disconnect",
            "mark", "revokeAll", "done"},
     client: Clients \cup {None}, token: Sessions \cup {None},
     user: Users \cup {None}, row: SessionRow, at: Nat,
     child: Sessions \cup {None},
     reply: {"none", "pending", "ok", "refused", "error"}]

NoRequest == [step |-> "none", client |-> None, token |-> None, user |-> None,
              row |-> NoSession, at |-> 0, child |-> None, reply |-> "none"]

\* A request that has been answered: only the reply is left of it.
Answer(r, reply) ==
    request' = [request EXCEPT ![r] = [NoRequest EXCEPT !.step = "done", !.reply = reply]]

Pending(r) == request[r].reply = "pending"
At(r, step) == Pending(r) /\ request[r].step = step
Go(r, step) == request' = [request EXCEPT ![r].step = step]

Accept(r, q) ==
    /\ request[r] = NoRequest
    /\ Cardinality({p \in Requests : Pending(p)}) < MaxInFlight
    /\ request' = [request EXCEPT ![r] = q]
    /\ UNCHANGED <<now, userEnabled, clientEnabled, invalidatedAt, session>>

\* Mutation: only the browser sessions.
BrowserSessionsOf(u) ==
    {s \in Sessions : session[s].user = u /\ session[s].client = FirstParty}

SessionsOf(u) == {s \in Sessions : session[s].user = u}

-----------------------------------------------------------------------------
(* The refresh grant.                                                       *)

RefreshGrant(r) ==
    \E c \in Clients, t \in Sessions :
        /\ Exists(t)
        /\ Accept(r, [NoRequest EXCEPT !.step = "client", !.client = c, !.token = t,
                                       !.reply = "pending"])

\* Both grants of the token endpoint begin with it.
AuthenticateClient(r) ==
    /\ At(r, "client") \/ At(r, "grantClient")
    /\ IF clientEnabled[request[r].client]
       THEN Go(r, IF At(r, "client") THEN "read" ELSE "grantUser")
       ELSE Answer(r, "refused")
    /\ UNCHANGED <<now, userEnabled, clientEnabled, invalidatedAt, session>>

ItsOwnClient(q) == q.row.client = q.client

\* A refresh token only works for the client it was issued to; a row that was
\* created for another one is revoked.  q is the request, its row read and, if
\* it rotates, its child saved.
AfterRotation(r, q) ==
    IF ItsOwnClient(q)
    THEN request' = [request EXCEPT ![r] = [q EXCEPT !.step = "user"]]
    ELSE IF q.child # None
         THEN request' = [request EXCEPT ![r] = [q EXCEPT !.step = "revokeChild"]]
         ELSE Answer(r, "refused")

\* Mutation: the grace window runs as long as the token itself.
InItsLifetime(row) == now - row.rotated <= Lifetime
InGraceWindow(row) == now - row.rotated <= GraceWindow

\* RotateSession up to its first write.
ReadSession(r) ==
    /\ At(r, "read")
    /\ LET row == session[request[r].token]
           q == [request[r] EXCEPT !.row = row, !.at = now]
       IN \/ /\ Expired(row)
             /\ Answer(r, "refused")
          \/ /\ ~Expired(row) /\ row.revoked # None /\ row.rotated = None
             /\ Answer(r, "refused")
          \/ /\ ~Expired(row) /\ row.revoked # None /\ row.rotated # None
             /\ InGraceWindow(row)
             /\ AfterRotation(r, q)
          \/ /\ ~Expired(row) /\ row.revoked # None /\ row.rotated # None
             /\ ~InGraceWindow(row)
             /\ request' = [request EXCEPT ![r] = [q EXCEPT !.step = "reuse"]]
          \/ /\ ~Expired(row) /\ row.revoked = None
             /\ request' = [request EXCEPT ![r] = [q EXCEPT !.step = "create"]]
    /\ UNCHANGED <<now, userEnabled, clientEnabled, invalidatedAt, session>>

CreateChild(r) ==
    /\ At(r, "create")
    /\ \E s \in Sessions :
        /\ ~Exists(s)
        /\ session' = [session EXCEPT ![s] =
                          NewSession(request[r].row.user, request[r].row.client)]
        /\ request' = [request EXCEPT ![r].step = "save", ![r].child = s]
    /\ UNCHANGED <<now, userEnabled, clientEnabled, invalidatedAt>>

\* Mutation: the rotation is recorded and the row left unrevoked.
RotatedOnly(q) == [q.row EXCEPT !.rotated = q.at, !.next = q.child]

\* Mutation: the replacement's column gets the client's id.
ReplacedByClient(q) ==
    [q.row EXCEPT !.revoked = q.at, !.rotated = q.at, !.next = q.client]

\* The row that is saved, every column of it.
RotatedRow(q) ==
    [q.row EXCEPT !.revoked = q.at, !.rotated = q.at, !.next = q.child]

SaveRotated(r) ==
    /\ At(r, "save")
    /\ session' = [session EXCEPT ![request[r].token] = RotatedRow(request[r])]
    /\ AfterRotation(r, request[r])
    /\ UNCHANGED <<now, userEnabled, clientEnabled, invalidatedAt>>

\* The user must be enabled still; only then is an access token minted and the
\* new refresh token, if there is one, handed over.
MintAccessToken(r) ==
    /\ At(r, "user")
    /\ Answer(r, IF userEnabled[request[r].row.user] THEN "ok" ELSE "refused")
    /\ UNCHANGED <<now, userEnabled, clientEnabled, invalidatedAt, session>>

-----------------------------------------------------------------------------
(* The grant that starts a line of sessions.  Which codes are good for the   *)
(* user and the client is the matter of OAuthServer.                        *)

AuthorizationCodeGrant(r) ==
    \E u \in Users, c \in Clients :
        Accept(r, [NoRequest EXCEPT !.step = "grantClient", !.client = c, !.user = u,
                                    !.reply = "pending"])

\* The user must be enabled, and the code good.
ReadGrantUser(r) ==
    /\ At(r, "grantUser")
    /\ \/ userEnabled[request[r].user] /\ Go(r, "grant")
       \/ Answer(r, "refused")
    /\ UNCHANGED <<now, userEnabled, clientEnabled, invalidatedAt, session>>

IssueTokenResponse(r) ==
    /\ At(r, "grant")
    /\ \E s \in Sessions :
        /\ ~Exists(s)
        /\ session' = [session EXCEPT ![s] = NewSession(request[r].user, request[r].client)]
    /\ Answer(r, "ok")
    /\ UNCHANGED <<now, userEnabled, clientEnabled, invalidatedAt>>

-----------------------------------------------------------------------------
(* Revocation.  Each statement only touches rows that are not revoked yet.  *)

Revoke(S) ==
    session' = [s \in Sessions |-> IF s \in S /\ Active(s)
                                   THEN [session[s] EXCEPT !.revoked = now]
                                   ELSE session[s]]

\* Logging out of one browser.
APIOAuthRevoke(r) ==
    \E t \in Sessions :
        /\ Exists(t)
        /\ Accept(r, [NoRequest EXCEPT !.step = "logout", !.token = t, !.reply = "pending"])

RevokeSessionByRefreshHash(r) ==
    /\ At(r, "logout")
    /\ Revoke({request[r].token})
    /\ Answer(r, "ok")
    /\ UNCHANGED <<now, userEnabled, clientEnabled, invalidatedAt>>

\* What a rejected rotation leaves.
RevokeChild(r) ==
    /\ At(r, "revokeChild")
    /\ Revoke({request[r].child})
    /\ Answer(r, "refused")
    /\ UNCHANGED <<now, userEnabled, clientEnabled, invalidatedAt>>

\* Disconnecting one app.
APIRevokeConnectedApp(r) ==
    \E u \in Users, c \in Clients :
        Accept(r, [NoRequest EXCEPT !.step = "disconnect", !.user = u, !.client = c,
                                    !.reply = "pending"])

RevokeUserClientSessions(r) ==
    /\ At(r, "disconnect")
    /\ Revoke({s \in SessionsOf(request[r].user) : session[s].client = request[r].client})
    /\ Answer(r, "ok")
    /\ UNCHANGED <<now, userEnabled, clientEnabled, invalidatedAt>>

\* A rotated token that comes back after the grace window.
RevokeReused(r) ==
    /\ At(r, "reuse")
    /\ Revoke(SessionsOf(request[r].row.user))
    /\ Answer(r, "refused")
    /\ UNCHANGED <<now, userEnabled, clientEnabled, invalidatedAt>>

\* Signing out everywhere: by the user, or of the user by an administrator.
RevokeAllForUser(r) ==
    \E u \in Users :
        Accept(r, [NoRequest EXCEPT !.step = "mark", !.user = u, !.reply = "pending"])

SetUserSessionsInvalidatedAt(r) ==
    /\ At(r, "mark")
    /\ invalidatedAt' = [invalidatedAt EXCEPT ![request[r].user] = now]
    /\ Go(r, "revokeAll")
    /\ UNCHANGED <<now, userEnabled, clientEnabled, session>>

RevokeAllUserSessions(r) ==
    /\ At(r, "revokeAll")
    /\ Revoke(SessionsOf(request[r].user))
    /\ Answer(r, "ok")
    /\ UNCHANGED <<now, userEnabled, clientEnabled, invalidatedAt>>

-----------------------------------------------------------------------------
DisableUser ==
    /\ \E u \in Users :
        /\ userEnabled[u]
        /\ userEnabled' = [userEnabled EXCEPT ![u] = FALSE]
    /\ UNCHANGED <<now, clientEnabled, invalidatedAt, session, request>>

DisableOAuthClient ==
    /\ \E c \in Clients \ {FirstParty} :
        /\ clientEnabled[c]
        /\ clientEnabled' = [clientEnabled EXCEPT ![c] = FALSE]
    /\ UNCHANGED <<now, userEnabled, invalidatedAt, session, request>>

Tick ==
    /\ now < MaxTime
    /\ now' = now + 1
    /\ UNCHANGED <<userEnabled, clientEnabled, invalidatedAt, session, request>>

\* A database call fails, or the process dies with the request in it.
Fail(r) ==
    /\ Pending(r)
    /\ Answer(r, "error")
    /\ UNCHANGED <<now, userEnabled, clientEnabled, invalidatedAt, session>>

RefreshInit ==
    /\ now = 0
    /\ userEnabled = [u \in Users |-> TRUE]
    /\ clientEnabled = [c \in Clients |-> TRUE]
    /\ invalidatedAt = [u \in Users |-> None]
    /\ session = SeedSession
    /\ request = [r \in Requests |-> NoRequest]

RefreshStep(r) ==
    \/ RefreshGrant(r) \/ AuthenticateClient(r) \/ ReadSession(r)
    \/ CreateChild(r) \/ SaveRotated(r) \/ MintAccessToken(r)
    \/ AuthorizationCodeGrant(r) \/ ReadGrantUser(r) \/ IssueTokenResponse(r)
    \/ APIOAuthRevoke(r) \/ RevokeSessionByRefreshHash(r)
    \/ APIRevokeConnectedApp(r) \/ RevokeUserClientSessions(r)
    \/ RevokeChild(r) \/ RevokeReused(r)
    \/ RevokeAllForUser(r) \/ SetUserSessionsInvalidatedAt(r)
    \/ RevokeAllUserSessions(r)
    \/ Fail(r)

RefreshNext ==
    \/ \E r \in Requests : RefreshStep(r)
    \/ DisableUser \/ DisableOAuthClient \/ Tick

RefreshSpec == RefreshInit /\ [][RefreshNext]_refreshVars

-----------------------------------------------------------------------------
\* Every row, every request and every clock is of its type.
RefreshTypeOK ==
    /\ now \in Nat
    /\ userEnabled \in [Users -> BOOLEAN]
    /\ clientEnabled \in [Clients -> BOOLEAN]
    /\ invalidatedAt \in [Users -> Time]
    /\ session \in [Sessions -> SessionRow]
    /\ request \in [Requests -> Request]

\* A revoked session is never active again: although a rotation saves every
\* column of a row it read before others may have revoked it, what it saves is
\* itself revoked, and the revoking statements leave revoked rows alone.
RevocationIsFinal ==
    [][\A s \in Sessions :
        session[s].revoked # None => session'[s].revoked # None]_refreshVars

\* A session that was rotated is revoked and names a replacement that exists and
\* is the same user's at the same client: the link reuse detection relies on.
RotationIsLinked ==
    \A s \in Sessions :
        session[s].rotated # None =>
            LET t == session[s].next
            IN /\ session[s].revoked # None
               /\ t \in Sessions
               /\ session[t].user = session[s].user
               /\ session[t].client = session[s].client

\* A refresh request that succeeds presented a token of its own client.
OnlyItsClientIsServed ==
    [][\A r \in Requests :
        At(r, "user") /\ request'[r].reply = "ok" =>
            session[request[r].token].client = request[r].client]_refreshVars

=============================================================================
