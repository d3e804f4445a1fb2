------------------------ MODULE RefreshSessionsProofs ------------------------
(***************************************************************************)
(* What RefreshSessions promises, proved for any users, clients, sessions   *)
(* and requests, any number of them in flight, and any window and lifetime, *)
(* and what SignOut promises where requests come one at a time.             *)
(*                                                                          *)
(* The argument rests on what a request in flight still knows: the row it   *)
(* read may be stale in every column but two, because no step changes the   *)
(* user or the client of a session that exists.  Signing out needs all of   *)
(* the row, and that is only current when there is no other request.        *)
(***************************************************************************)
EXTENDS SignOut, FiniteSetTheorems, TLAPS

\* A row is either the empty one or names its user.
Rows(rows) == \A s \in Sessions : rows[s].user = None => rows[s] = NoSession

SameBinding(a, b) == a.user = b.user /\ a.client = b.client

\* What the request q has gathered agrees with the rows.
Gathered(rows, q) ==
    /\ q.step \in {"client", "read", "create", "save", "revokeChild", "reuse",
                   "user", "logout"} =>
            q.token \in Sessions /\ rows[q.token].user # None
    /\ q.step \in {"create", "save", "user", "reuse"} => SameBinding(q.row, rows[q.token])
    /\ q.step = "save" => /\ q.child \in Sessions
                          /\ SameBinding(rows[q.child], rows[q.token])
    /\ q.step = "user" => q.row.client = q.client
    /\ q.step \in {"grantClient", "grantUser", "grant", "disconnect", "mark", "revokeAll"} =>
            q.user \in Users

RefreshInv ==
    /\ RefreshTypeOK
    /\ Rows(session)
    /\ \A r \in Requests : Gathered(session, request[r])
    /\ RotationIsLinked

\* No step changes the user or the client of a session that exists.
BindingsKept ==
    \A s \in Sessions : Exists(s) => SameBinding(session'[s], session[s])

\* A revoked row stays revoked.
RevokedKept ==
    \A s \in Sessions : session[s].revoked # None => session'[s].revoked # None

-----------------------------------------------------------------------------
(* What each kind of write to the sessions table keeps.                     *)

\* What is shown of the rows after a step.
GoodWrite ==
    /\ session' \in [Sessions -> SessionRow]
    /\ Rows(session')
    /\ BindingsKept
    /\ RevokedKept
    /\ RotationIsLinked'

\* A step that leaves the sessions alone.
LEMMA NoWrite ==
    ASSUME RefreshInv, UNCHANGED session
    PROVE  GoodWrite
BY DEF RefreshInv, RefreshTypeOK, GoodWrite, BindingsKept, RevokedKept,
       RotationIsLinked, SameBinding

\* Revoking any set of sessions, whatever they are.
LEMMA RevokeWrite ==
    ASSUME RefreshInv, NEW S \in SUBSET Sessions, Revoke(S)
    PROVE  GoodWrite
<1> USE DEF RefreshInv, RefreshTypeOK
<1>1. now \in Time /\ now # None
  BY RefreshAssumption DEF Time
<1>2. ASSUME NEW s \in Sessions
      PROVE  /\ session'[s] \in SessionRow
             /\ SameBinding(session'[s], session[s])
             /\ session'[s].rotated = session[s].rotated
             /\ session'[s].next = session[s].next
             /\ session[s].revoked # None => session'[s].revoked # None
             /\ session[s].user = None => session'[s] = session[s]
  BY <1>1 DEF Revoke, SessionRow, SameBinding, Active, Exists
<1>3. session' \in [Sessions -> SessionRow]
  BY <1>2 DEF Revoke
<1>4. Rows(session')
  BY <1>2 DEF Rows, SameBinding
<1>5. BindingsKept /\ RevokedKept
  BY <1>2 DEF BindingsKept, RevokedKept
<1>6. RotationIsLinked'
  BY <1>2 DEF RotationIsLinked, SameBinding
<1> QED
  BY <1>3, <1>4, <1>5, <1>6 DEF GoodWrite

\* Creating a session in a row that was free.
LEMMA CreateWrite ==
    ASSUME RefreshInv, NEW s \in Sessions, ~Exists(s),
           NEW u \in Users, NEW c \in Clients \cup {None},
           session' = [session EXCEPT ![s] = NewSession(u, c)]
    PROVE  GoodWrite /\ session'[s].user = u /\ session'[s].client = c
<1> USE DEF RefreshInv, RefreshTypeOK
<1>1. /\ NewSession(u, c) \in SessionRow
      /\ NewSession(u, c).user = u /\ u # None
      /\ NewSession(u, c).client = c
      /\ NewSession(u, c).rotated = None
  BY RefreshAssumption DEF NewSession, NoSession, SessionRow, Time
<1>2. /\ session' \in [Sessions -> SessionRow]
      /\ session'[s] = NewSession(u, c)
      /\ \A t \in Sessions \ {s} : session'[t] = session[t]
  BY <1>1
<1>3. session[s] = NoSession /\ session[s].revoked = None
  BY DEF Rows, Exists, NoSession
<1>4. Rows(session')
  BY <1>1, <1>2 DEF Rows
<1>5. BindingsKept /\ RevokedKept
  BY <1>2, <1>3 DEF BindingsKept, RevokedKept, SameBinding, Exists
<1>6. RotationIsLinked'
  <2> SUFFICES ASSUME NEW t \in Sessions, session'[t].rotated # None
               PROVE  /\ session'[t].revoked # None
                      /\ session'[t].next \in Sessions
                      /\ session'[session'[t].next].user = session'[t].user
                      /\ session'[session'[t].next].client = session'[t].client
    BY DEF RotationIsLinked
  <2>1. t # s /\ session'[t] = session[t]
    BY <1>1, <1>2
  <2>2. session[t].user # None
    BY <2>1 DEF Rows, NoSession
  <2>3. /\ session[t].revoked # None
        /\ session[t].next \in Sessions
        /\ session[session[t].next].user = session[t].user
        /\ session[session[t].next].client = session[t].client
    BY <2>1 DEF RotationIsLinked
  <2>4. session[t].next # s
    BY <2>2, <2>3 DEF Exists
  <2> QED
    BY <1>2, <2>1, <2>3, <2>4
<1> QED
  BY <1>1, <1>2, <1>4, <1>5, <1>6 DEF GoodWrite

\* Saving the session that was rotated: revoked, and linked to its replacement.
LEMMA SaveWrite ==
    ASSUME RefreshInv, NEW r \in Requests, request[r].step = "save",
           session' = [session EXCEPT ![request[r].token] = RotatedRow(request[r])]
    PROVE  GoodWrite
<1> USE DEF RefreshInv, RefreshTypeOK
<1> DEFINE q == request[r]
           x == q.token
<1>1. /\ x \in Sessions /\ session[x].user # None
      /\ SameBinding(q.row, session[x])
      /\ q.child \in Sessions
      /\ SameBinding(session[q.child], session[x])
  BY DEF Gathered
<1>2. /\ q.row \in SessionRow /\ q.at \in Nat
  BY DEF Request
<1>3. /\ RotatedRow(q) \in SessionRow
      /\ SameBinding(RotatedRow(q), session[x])
      /\ RotatedRow(q).revoked # None
      /\ RotatedRow(q).next = q.child
  BY <1>1, <1>2, RefreshAssumption DEF RotatedRow, SessionRow, SameBinding, Time
<1>4. /\ session' \in [Sessions -> SessionRow]
      /\ session'[x] = RotatedRow(q)
      /\ \A t \in Sessions \ {x} : session'[t] = session[t]
  BY <1>1, <1>3
<1>5. \A t \in Sessions : SameBinding(session'[t], session[t])
  BY <1>3, <1>4 DEF SameBinding
<1>6. Rows(session')
  BY <1>1, <1>4, <1>5 DEF Rows, SameBinding
<1>7. BindingsKept /\ RevokedKept
  BY <1>3, <1>4, <1>5 DEF BindingsKept, RevokedKept
<1>8. RotationIsLinked'
  BY <1>1, <1>3, <1>4, <1>5 DEF RotationIsLinked, SameBinding
<1> QED
  BY <1>4, <1>6, <1>7, <1>8 DEF GoodWrite

-----------------------------------------------------------------------------
(* What a request knows stays true while others are handled.                *)

\* The request that makes the step is as it should be when its new record is.
LEMMA RequestMoves ==
    ASSUME RefreshInv, GoodWrite, NEW r \in Requests, NEW q \in Request,
           Gathered(session', q), request' = [request EXCEPT ![r] = q]
    PROVE  /\ request' \in [Requests -> Request]
           /\ \A p \in Requests : Gathered(session', request'[p])
<1>1. request \in [Requests -> Request] /\ session \in [Sessions -> SessionRow]
  BY DEF RefreshInv, RefreshTypeOK
<1>2. request' \in [Requests -> Request] /\ request'[r] = q
  BY <1>1
<1>3. ASSUME NEW p \in Requests, p # r
      PROVE  Gathered(session', request'[p])
  <2>1. request'[p] = request[p] /\ Gathered(session, request[p])
    BY <1>1, <1>3 DEF RefreshInv
  <2>2. \A s \in Sessions :
            session[s].user # None => SameBinding(session'[s], session[s])
    BY DEF GoodWrite, BindingsKept, Exists
  <2>3. None \notin Users
    BY RefreshAssumption
  <2> QED
    BY <2>1, <2>2, <2>3 DEF Gathered, SameBinding
<1> QED
  BY <1>2, <1>3

\* An answer leaves nothing to be known.
LEMMA AnswerMoves ==
    ASSUME RefreshInv, GoodWrite, NEW r \in Requests,
           NEW reply \in {"ok", "refused", "error"}, Answer(r, reply)
    PROVE  /\ request' \in [Requests -> Request]
           /\ \A p \in Requests : Gathered(session', request'[p])
<1> DEFINE q == [NoRequest EXCEPT !.step = "done", !.reply = reply]
<1>1. q \in Request
  BY DEF NoRequest, Request, NoSession, SessionRow, Time
<1>2. Gathered(session', q)
  BY DEF NoRequest, Gathered
<1> QED
  BY <1>1, <1>2, RequestMoves DEF Answer

\* A request that has just arrived knows nothing yet.
LEMMA AcceptMoves ==
    ASSUME RefreshInv, NEW r \in Requests, NEW q \in Request,
           Gathered(session, q), Accept(r, q)
    PROVE  RefreshInv' /\ GoodWrite
<1>1. GoodWrite /\ session' = session
  BY NoWrite DEF Accept
<1>2. /\ request' \in [Requests -> Request]
      /\ \A p \in Requests : Gathered(session', request'[p])
  BY <1>1, RequestMoves DEF Accept
<1> QED
  BY <1>1, <1>2 DEF RefreshInv, RefreshTypeOK, GoodWrite, Accept

\* A step of a request that answers it, or moves it on to q.
LEMMA StepMoves ==
    ASSUME RefreshInv, GoodWrite, NEW r \in Requests,
           UNCHANGED <<now, userEnabled, clientEnabled>>,
           invalidatedAt' \in [Users -> Time],
           \/ Answer(r, "ok") \/ Answer(r, "refused") \/ Answer(r, "error")
           \/ \E q \in Request : /\ Gathered(session', q)
                                 /\ request' = [request EXCEPT ![r] = q]
    PROVE  RefreshInv'
<1>1. /\ request' \in [Requests -> Request]
      /\ \A p \in Requests : Gathered(session', request'[p])
  BY AnswerMoves, RequestMoves
<1> QED
  BY <1>1 DEF RefreshInv, RefreshTypeOK, GoodWrite

-----------------------------------------------------------------------------
(* One lemma for each group of actions.                                     *)

\* The requests that the endpoints accept.
LEMMA RequestsArrive ==
    ASSUME RefreshInv, NEW r \in Requests,
           \/ RefreshGrant(r) \/ AuthorizationCodeGrant(r) \/ APIOAuthRevoke(r)
           \/ APIRevokeConnectedApp(r) \/ RevokeAllForUser(r)
    PROVE  RefreshInv' /\ GoodWrite
<1> USE DEF NoRequest, Request, NoSession, SessionRow, Time, Gathered, Exists
<1>1. CASE RefreshGrant(r)
  <2>1. PICK c \in Clients, t \in Sessions :
            /\ Exists(t)
            /\ Accept(r, [NoRequest EXCEPT !.step = "client", !.client = c,
                                           !.token = t, !.reply = "pending"])
    BY <1>1 DEF RefreshGrant
  <2> QED
    BY <2>1, AcceptMoves
<1>2. CASE AuthorizationCodeGrant(r)
  <2>1. PICK u \in Users, c \in Clients :
            Accept(r, [NoRequest EXCEPT !.step = "grantClient", !.client = c,
                                        !.user = u, !.reply = "pending"])
    BY <1>2 DEF AuthorizationCodeGrant
  <2> QED
    BY <2>1, AcceptMoves
<1>3. CASE APIOAuthRevoke(r)
  <2>1. PICK t \in Sessions :
            /\ Exists(t)
            /\ Accept(r, [NoRequest EXCEPT !.step = "logout", !.token = t,
                                           !.reply = "pending"])
    BY <1>3 DEF APIOAuthRevoke
  <2> QED
    BY <2>1, AcceptMoves
<1>4. CASE APIRevokeConnectedApp(r)
  <2>1. PICK u \in Users, c \in Clients :
            Accept(r, [NoRequest EXCEPT !.step = "disconnect", !.user = u,
                                        !.client = c, !.reply = "pending"])
    BY <1>4 DEF APIRevokeConnectedApp
  <2> QED
    BY <2>1, AcceptMoves
<1>5. CASE RevokeAllForUser(r)
  <2>1. PICK u \in Users :
            Accept(r, [NoRequest EXCEPT !.step = "mark", !.user = u,
                                        !.reply = "pending"])
    BY <1>5 DEF RevokeAllForUser
  <2> QED
    BY <2>1, AcceptMoves
<1> QED
  BY <1>1, <1>2, <1>3, <1>4, <1>5

\* The calls that only read, and those that refuse.
LEMMA RequestsRead ==
    ASSUME RefreshInv, NEW r \in Requests,
           \/ AuthenticateClient(r) \/ ReadSession(r) \/ MintAccessToken(r)
           \/ ReadGrantUser(r) \/ SetUserSessionsInvalidatedAt(r) \/ Fail(r)
    PROVE  RefreshInv' /\ GoodWrite
<1> DEFINE Goes(q) == q \in Request /\ Gathered(session, q)
                      /\ request' = [request EXCEPT ![r] = q]
<1>0. /\ request[r] \in Request /\ Gathered(session, request[r])
      /\ session \in [Sessions -> SessionRow] /\ now \in Nat
      /\ invalidatedAt \in [Users -> Time]
  BY DEF RefreshInv, RefreshTypeOK
<1>1. CASE AuthenticateClient(r)
  <2>1. \/ Answer(r, "refused") \/ Goes([request[r] EXCEPT !.step = "read"])
        \/ Goes([request[r] EXCEPT !.step = "grantUser"])
    BY <1>0, <1>1 DEF AuthenticateClient, Go, At, Request, Gathered
  <2> QED
    BY <1>0, <1>1, <2>1, NoWrite, StepMoves DEF AuthenticateClient
<1>2. CASE ReadSession(r)
  <2> DEFINE q == [request[r] EXCEPT !.row = session[request[r].token], !.at = now]
  <2>1. /\ request[r].step = "read"
        /\ request[r].token \in Sessions /\ session[request[r].token].user # None
    BY <1>0, <1>2 DEF ReadSession, At, Gathered
  <2>2. q \in Request
    BY <1>0, <2>1 DEF Request
  <2>3. /\ Answer(r, "refused") \/ Goes([q EXCEPT !.step = "create"])
           \/ Goes([q EXCEPT !.step = "reuse"])
           \/ Goes([q EXCEPT !.step = "revokeChild"])
           \/ Goes([q EXCEPT !.step = "user"])
    BY <1>0, <1>2, <2>1, <2>2
    DEF ReadSession, AfterRotation, ItsOwnClient, Request, Gathered, SameBinding
  <2> QED
    BY <1>0, <1>2, <2>3, NoWrite, StepMoves DEF ReadSession
<1>3. CASE MintAccessToken(r)
  BY <1>0, <1>3, NoWrite, StepMoves DEF MintAccessToken
<1>4. CASE ReadGrantUser(r)
  <2>1. Answer(r, "refused") \/ Goes([request[r] EXCEPT !.step = "grant"])
    BY <1>0, <1>4 DEF ReadGrantUser, Go, At, Request, Gathered
  <2> QED
    BY <1>0, <1>4, <2>1, NoWrite, StepMoves DEF ReadGrantUser
<1>5. CASE SetUserSessionsInvalidatedAt(r)
  <2>1. Goes([request[r] EXCEPT !.step = "revokeAll"])
    BY <1>0, <1>5 DEF SetUserSessionsInvalidatedAt, Go, At, Request, Gathered
  <2>2. invalidatedAt' \in [Users -> Time]
    BY <1>0, <1>5 DEF SetUserSessionsInvalidatedAt, Time
  <2> QED
    BY <1>5, <2>1, <2>2, NoWrite, StepMoves DEF SetUserSessionsInvalidatedAt
<1>6. CASE Fail(r)
  BY <1>0, <1>6, NoWrite, StepMoves DEF Fail
<1> QED
  BY <1>1, <1>2, <1>3, <1>4, <1>5, <1>6

\* The calls that revoke sessions.
LEMMA RequestsRevoke ==
    ASSUME RefreshInv, NEW r \in Requests,
           \/ RevokeSessionByRefreshHash(r) \/ RevokeUserClientSessions(r)
           \/ RevokeChild(r) \/ RevokeReused(r) \/ RevokeAllUserSessions(r)
    PROVE  RefreshInv' /\ GoodWrite
<1>1. invalidatedAt \in [Users -> Time] /\ request[r] \in Request
  BY DEF RefreshInv, RefreshTypeOK
<1>2. PICK S \in SUBSET Sessions : Revoke(S)
  <2>1. ASSUME NEW s PROVE Revoke({s}) <=> Revoke({s} \cap Sessions)
    BY DEF Revoke
  <2> QED
    BY <2>1 DEF RevokeSessionByRefreshHash, RevokeUserClientSessions, RevokeChild,
              RevokeReused, RevokeAllUserSessions, SessionsOf
<1>3. GoodWrite
  BY <1>2, RevokeWrite
<1>4. (Answer(r, "ok") \/ Answer(r, "refused"))
      /\ UNCHANGED <<now, userEnabled, clientEnabled, invalidatedAt>>
  BY DEF RevokeSessionByRefreshHash, RevokeUserClientSessions, RevokeChild,
         RevokeReused, RevokeAllUserSessions
<1> QED
  BY <1>1, <1>3, <1>4, StepMoves

\* The two writes of a rotation, and the creation of a session.
LEMMA RequestsWrite ==
    ASSUME RefreshInv, NEW r \in Requests,
           CreateChild(r) \/ SaveRotated(r) \/ IssueTokenResponse(r)
    PROVE  RefreshInv' /\ GoodWrite
<1> DEFINE Goes(q) == q \in Request /\ Gathered(session', q)
                      /\ request' = [request EXCEPT ![r] = q]
<1>0. /\ request[r] \in Request /\ Gathered(session, request[r])
      /\ session \in [Sessions -> SessionRow]
      /\ invalidatedAt \in [Users -> Time]
  BY DEF RefreshInv, RefreshTypeOK
<1>1. CASE CreateChild(r)
  <2> DEFINE u == request[r].row.user
             c == request[r].row.client
  <2>1. PICK s \in Sessions :
            /\ ~Exists(s)
            /\ session' = [session EXCEPT ![s] = NewSession(u, c)]
            /\ request' = [request EXCEPT ![r].step = "save", ![r].child = s]
    BY <1>1 DEF CreateChild
  <2>2. /\ request[r].step = "create"
        /\ request[r].token \in Sessions /\ session[request[r].token].user # None
        /\ SameBinding(request[r].row, session[request[r].token])
    BY <1>0, <1>1 DEF CreateChild, At, Gathered
  <2>3. u \in Users /\ c \in Clients \cup {None}
    BY <1>0, <2>2 DEF SessionRow, SameBinding, Request
  <2>4. GoodWrite /\ session'[s].user = u /\ session'[s].client = c
    BY <2>1, <2>3, CreateWrite
  <2>5. SameBinding(session'[request[r].token], session[request[r].token])
    BY <2>2, <2>4 DEF GoodWrite, BindingsKept, Exists
  <2>6. Goes([request[r] EXCEPT !.step = "save", !.child = s])
    BY <1>0, <2>1, <2>2, <2>4, <2>5 DEF Request, Gathered, SameBinding, RefreshInv, RefreshTypeOK
  <2> QED
    BY <1>0, <1>1, <2>4, <2>6, StepMoves DEF CreateChild
<1>2. CASE SaveRotated(r)
  <2>1. request[r].step = "save"
    BY <1>2 DEF SaveRotated, At
  <2>2. GoodWrite
    BY <1>2, <2>1, SaveWrite DEF SaveRotated
  <2>3. /\ request[r].token \in Sessions
        /\ session[request[r].token].user # None
        /\ SameBinding(request[r].row, session[request[r].token])
        /\ SameBinding(session'[request[r].token], session[request[r].token])
    BY <1>0, <2>1, <2>2 DEF Gathered, GoodWrite, BindingsKept, Exists
  <2>4. \/ Answer(r, "refused")
        \/ Goes([request[r] EXCEPT !.step = "revokeChild"])
        \/ Goes([request[r] EXCEPT !.step = "user"])
    BY <1>0, <1>2, <2>1, <2>3
    DEF SaveRotated, AfterRotation, ItsOwnClient, Request, Gathered, SameBinding
  <2> QED
    BY <1>0, <1>2, <2>2, <2>4, StepMoves DEF SaveRotated
<1>3. CASE IssueTokenResponse(r)
  <2>1. PICK s \in Sessions :
            /\ ~Exists(s)
            /\ session' = [session EXCEPT ![s] =
                              NewSession(request[r].user, request[r].client)]
    BY <1>3 DEF IssueTokenResponse
  <2>2. request[r].user \in Users /\ request[r].client \in Clients \cup {None}
    BY <1>0, <1>3 DEF IssueTokenResponse, At, Gathered, Request
  <2> QED
    BY <1>0, <1>3, <2>1, <2>2, CreateWrite, StepMoves DEF IssueTokenResponse
<1> QED
  BY <1>1, <1>2, <1>3

-----------------------------------------------------------------------------
\* The seed satisfies it, and no request is there yet.
LEMMA InitEstablishes == RefreshInit => RefreshInv
<1> SUFFICES ASSUME RefreshInit PROVE RefreshInv
  OBVIOUS
<1>1. ASSUME NEW s \in Sessions
      PROVE  /\ session[s].rotated = None
             /\ session[s].user = None => session[s] = NoSession
  <2>1. session[s] = SeedSession[s] /\ None \notin Users
    BY RefreshAssumption DEF RefreshInit
  <2>2. CASE SeedSession[s] = NoSession
    BY <2>1, <2>2 DEF NoSession
  <2>3. CASE \E u \in Users, c \in Clients :
                SeedSession[s] = [NoSession EXCEPT !.user = u, !.client = c]
    BY <2>1, <2>3 DEF NoSession
  <2> QED
    BY <1>1, <2>2, <2>3, SeedSessionAssumption
<1>2. RefreshTypeOK
  BY RefreshAssumption, SeedSessionAssumption
  DEF RefreshInit, RefreshTypeOK, NoSession, NoRequest, SessionRow, Request, Time
<1>3. Rows(session) /\ RotationIsLinked
  BY <1>1 DEF Rows, RotationIsLinked
<1>4. \A r \in Requests : Gathered(session, request[r])
  BY DEF RefreshInit, Gathered, NoRequest
<1> QED
  BY <1>2, <1>3, <1>4 DEF RefreshInv

\* Every step keeps the invariant, and revoked sessions revoked.
LEMMA StepPreserves ==
    ASSUME RefreshInv, [RefreshNext]_refreshVars
    PROVE  RefreshInv' /\ BindingsKept /\ RevokedKept
<1>1. CASE \E r \in Requests : RefreshStep(r)
  BY <1>1, RequestsArrive, RequestsRead, RequestsRevoke, RequestsWrite
  DEF RefreshStep, GoodWrite
<1>2. CASE \/ DisableUser \/ DisableOAuthClient \/ Tick
           \/ UNCHANGED refreshVars
  <2>1. GoodWrite /\ UNCHANGED request
    BY <1>2, NoWrite DEF DisableUser, DisableOAuthClient, Tick, refreshVars
  <2>2. RefreshTypeOK'
    <3> USE DEF RefreshInv, RefreshTypeOK
    <3>1. CASE DisableUser
      BY <3>1 DEF DisableUser
    <3>2. CASE DisableOAuthClient
      BY <3>2 DEF DisableOAuthClient
    <3>3. CASE Tick
      BY <3>3 DEF Tick
    <3>4. CASE UNCHANGED refreshVars
      BY <3>4 DEF refreshVars
    <3> QED
      BY <1>2, <3>1, <3>2, <3>3, <3>4
  <2>3. session' = session
    BY <1>2 DEF DisableUser, DisableOAuthClient, Tick, refreshVars
  <2> QED
    BY <2>1, <2>2, <2>3 DEF RefreshInv, GoodWrite
<1> QED
  BY <1>1, <1>2 DEF RefreshNext

\* The invariant the theorems rest on holds of every reachable state.
THEOREM RefreshInvariant == RefreshSpec => []RefreshInv
<1>1. RefreshInit => RefreshInv
  BY InitEstablishes
<1>2. RefreshInv /\ [RefreshNext]_refreshVars => RefreshInv'
  BY StepPreserves
<1> QED
  BY <1>1, <1>2, PTL DEF RefreshSpec

\* Every variable has its type: no row, request or clock is ever malformed.
THEOREM RefreshTypeCorrect == RefreshSpec => []RefreshTypeOK
<1>1. RefreshInv => RefreshTypeOK
  BY DEF RefreshInv
<1> QED
  BY <1>1, RefreshInvariant, PTL

\* A rotated session is revoked and linked to a replacement of the same user and
\* client, whatever RotateSession overlaps with.
THEOREM RotationAlwaysLinked == RefreshSpec => []RotationIsLinked
<1>1. RefreshInv => RotationIsLinked
  BY DEF RefreshInv
<1> QED
  BY <1>1, RefreshInvariant, PTL

\* No step of any request makes a revoked session active again.
THEOREM RevocationFinal == RefreshSpec => RevocationIsFinal
<1>1. RefreshInv /\ [RefreshNext]_refreshVars =>
        [\A s \in Sessions :
            session[s].revoked # None => session'[s].revoked # None]_refreshVars
  BY StepPreserves DEF RevokedKept
<1> QED
  BY <1>1, RefreshInvariant, PTL DEF RefreshSpec, RevocationIsFinal

\* A refresh request that succeeds presented a token of its own client.
THEOREM ClientAlwaysMatches == RefreshSpec => OnlyItsClientIsServed
<1>1. RefreshInv =>
        [\A r \in Requests :
            At(r, "user") /\ request'[r].reply = "ok" =>
                session[request[r].token].client = request[r].client]_refreshVars
  BY DEF RefreshInv, Gathered, SameBinding, At
<1> QED
  BY <1>1, RefreshInvariant, PTL DEF OnlyItsClientIsServed

-----------------------------------------------------------------------------
(* What signing out means, proved for requests that come one at a time.     *)
(* What makes the difference is Current: the row a rotation has read is      *)
(* still the row there is when it saves it, and its child is a secret of    *)
(* its own.                                                                 *)

PendingRequests == {p \in Requests : Pending(p)}

Alone ==
    /\ IsFiniteSet(PendingRequests)
    /\ \A p, q \in Requests : Pending(p) /\ Pending(q) => p = q

\* What is known of the history of the session s.
Remembered(s) ==
    /\ session[s].user = None =>
            origin[s] = None /\ s \notin delivered /\ signedOut[s] = None
    /\ signedOut[s] # None => session[s].revoked # None
    /\ session[s].rotated # None =>
            /\ session[s].rotated <= now
            /\ signedOut[s] # None => session[s].rotated <= signedOut[s]
    /\ s \in delivered /\ origin[s] # None => session[origin[s]].revoked # None

\* The child of the rotation q: nobody was given its token, or one like it.
Undelivered(q) ==
    /\ q.child \in Sessions
    /\ session[q.child].user # None
    /\ q.child \notin delivered
    /\ origin[q.child] = q.token
    /\ \A t \in delivered : origin[t] # q.token

\* What the request q knows when no other comes between.
Current(q) ==
    /\ q.step \in {"client", "read", "create"} => q.child = None
    /\ q.step \in {"create", "save"} =>
            q.row = session[q.token] /\ q.row.revoked = None /\ q.at <= now
    /\ q.step = "save" => Undelivered(q)
    /\ q.step \in {"user", "revokeChild"} /\ q.child # None =>
            Undelivered(q) /\ session[q.token].revoked # None

HistoryTypeOK ==
    /\ origin \in [Sessions -> Sessions \cup {None}]
    /\ delivered \in SUBSET Sessions
    /\ signedOut \in [Sessions -> Time]

HistoryInv ==
    /\ HistoryTypeOK
    /\ \A s \in Sessions : Remembered(s)
    /\ SingleSuccessor

SignOutInv ==
    /\ RefreshInv
    /\ Alone
    /\ HistoryInv
    /\ \A r \in Requests : Pending(r) => Current(request[r])

\* A step of the request r is no step of another.
LEMMA OnlyOneMoves ==
    ASSUME RefreshInv, NEW r \in Requests, RefreshStep(r)
    PROVE  \A p \in Requests \ {r} : request'[p] = request[p]
<1> USE DEF RefreshInv, RefreshTypeOK
<1>1. CASE \/ RefreshGrant(r) \/ AuthorizationCodeGrant(r) \/ APIOAuthRevoke(r)
           \/ APIRevokeConnectedApp(r) \/ RevokeAllForUser(r)
  BY <1>1 DEF RefreshGrant, AuthorizationCodeGrant, APIOAuthRevoke, APIRevokeConnectedApp,
              RevokeAllForUser, Accept
<1>2. CASE \/ AuthenticateClient(r) \/ MintAccessToken(r) \/ ReadGrantUser(r)
           \/ SetUserSessionsInvalidatedAt(r) \/ Fail(r) \/ IssueTokenResponse(r)
  BY <1>2 DEF AuthenticateClient, MintAccessToken, ReadGrantUser,
              SetUserSessionsInvalidatedAt, Fail, IssueTokenResponse, Go, Answer
<1>3. CASE \/ RevokeSessionByRefreshHash(r) \/ RevokeUserClientSessions(r)
           \/ RevokeChild(r) \/ RevokeReused(r) \/ RevokeAllUserSessions(r)
  BY <1>3 DEF RevokeSessionByRefreshHash, RevokeUserClientSessions, RevokeChild,
              RevokeReused, RevokeAllUserSessions, Answer
<1>4. CASE ReadSession(r)
  BY <1>4 DEF ReadSession, AfterRotation, Answer
<1>5. CASE CreateChild(r)
  BY <1>5 DEF CreateChild
<1>6. CASE SaveRotated(r)
  BY <1>6 DEF SaveRotated, AfterRotation, Answer
<1> QED
  BY <1>1, <1>2, <1>3, <1>4, <1>5, <1>6 DEF RefreshStep

\* A request that is not being handled is accepted before anything else.
LEMMA AcceptedFirst ==
    ASSUME NEW r \in Requests, RefreshStep(r)
    PROVE  \/ Pending(r)
           \/ Cardinality(PendingRequests) < MaxInFlight
<1>1. CASE \/ RefreshGrant(r) \/ AuthorizationCodeGrant(r) \/ APIOAuthRevoke(r)
           \/ APIRevokeConnectedApp(r) \/ RevokeAllForUser(r)
  BY <1>1 DEF RefreshGrant, AuthorizationCodeGrant, APIOAuthRevoke, APIRevokeConnectedApp,
              RevokeAllForUser, Accept, PendingRequests
<1>2. CASE \/ AuthenticateClient(r) \/ ReadSession(r) \/ CreateChild(r) \/ SaveRotated(r)
           \/ MintAccessToken(r) \/ ReadGrantUser(r) \/ IssueTokenResponse(r)
           \/ SetUserSessionsInvalidatedAt(r) \/ Fail(r)
  BY <1>2 DEF AuthenticateClient, ReadSession, CreateChild, SaveRotated, MintAccessToken,
              ReadGrantUser, IssueTokenResponse, SetUserSessionsInvalidatedAt, Fail, At
<1>3. CASE \/ RevokeSessionByRefreshHash(r) \/ RevokeUserClientSessions(r)
           \/ RevokeChild(r) \/ RevokeReused(r) \/ RevokeAllUserSessions(r)
  BY <1>3 DEF RevokeSessionByRefreshHash, RevokeUserClientSessions, RevokeChild,
              RevokeReused, RevokeAllUserSessions, At
<1> QED
  BY <1>1, <1>2, <1>3 DEF RefreshStep

\* One at a time: whoever makes a step is the only one there is.
LEMMA AloneKept ==
    ASSUME MaxInFlight = 1, RefreshInv, Alone, NEW r \in Requests, RefreshStep(r)
    PROVE  /\ Alone'
           /\ \A p \in Requests \ {r} : /\ request'[p] = request[p]
                                        /\ ~Pending(p)
                                        /\ ~Pending(p)'
<1>1. \A p \in Requests \ {r} : request'[p] = request[p]
  BY OnlyOneMoves
<1>2. \A p \in Requests \ {r} : ~Pending(p)
  <2>1. CASE Pending(r)
    BY <2>1 DEF Alone
  <2>2. CASE Cardinality(PendingRequests) < MaxInFlight
    <3>1. Cardinality(PendingRequests) = 0
      BY <2>2, FS_CardinalityType DEF Alone
    <3>2. PendingRequests = {}
      BY <3>1, FS_EmptySet DEF Alone
    <3> QED
      BY <3>2 DEF PendingRequests
  <2> QED
    BY <2>1, <2>2, AcceptedFirst
<1>3. \A p \in Requests \ {r} : ~Pending(p)'
  BY <1>1, <1>2 DEF Pending
<1>4. IsFiniteSet(PendingRequests)'
  <2>1. PendingRequests' \subseteq {r}
    BY <1>3 DEF PendingRequests
  <2>2. IsFiniteSet({r})
    BY FS_Singleton
  <2> QED
    BY <2>1, <2>2, FS_Subset
<1> QED
  BY <1>1, <1>2, <1>3, <1>4 DEF Alone

-----------------------------------------------------------------------------
(* How the history moves: no step creates, delivers or signs out more than  *)
(* one request asks for.                                                    *)

\* The only request that makes a step is the one whose step it is.
LEMMA StepIsOfOne ==
    ASSUME NEW r \in Requests, \A p \in Requests \ {r} : request'[p] = request[p],
           NEW p \in Requests, NEW step, Step(p, step)
    PROVE  p = r
BY DEF Step

\* A step that creates no session, delivers none and signs nobody out.
LEMMA HistoryStays ==
    ASSUME HistoryTypeOK, SignOutNext, Created = {},
           \A p \in Requests : SignedOutBy(p) = {},
           \A p \in Requests : Step(p, "user") => request'[p].reply # "ok" \/ request[p].child = None
    PROVE  UNCHANGED history
<1> USE DEF HistoryTypeOK
<1>1. origin' = origin
  <2>1. origin' = [s \in Sessions |-> origin[s]]
    BY DEF SignOutNext
  <2> QED
    BY <2>1
<1>2. delivered' = delivered
  BY RefreshAssumption DEF SignOutNext
<1>3. signedOut' = signedOut
  <2>1. signedOut' = [s \in Sessions |-> signedOut[s]]
    BY DEF SignOutNext
  <2> QED
    BY <2>1
<1> QED
  BY <1>1, <1>2, <1>3 DEF history

\* A step that signs the sessions T out.
LEMMA HistorySignsOut ==
    ASSUME HistoryTypeOK, SignOutNext, Created = {}, NEW r \in Requests,
           \A p \in Requests \ {r} : request'[p] = request[p],
           \A step \in {"user", "create"} : ~Step(r, step)
    PROVE  /\ UNCHANGED <<origin, delivered>>
           /\ signedOut' = [s \in Sessions |->
                               IF signedOut[s] = None /\ s \in SignedOutBy(r) THEN now ELSE signedOut[s]]
<1> USE DEF HistoryTypeOK
<1>1. origin' = origin
  <2>1. origin' = [s \in Sessions |-> origin[s]]
    BY DEF SignOutNext
  <2> QED
    BY <2>1
<1>2. \A p \in Requests : ~Step(p, "user")
  BY StepIsOfOne
<1>3. delivered' = delivered
  BY <1>2 DEF SignOutNext
<1>4. \A p \in Requests : SignedOutBy(p) # {} => p = r
  BY StepIsOfOne DEF SignedOutBy
<1>5. signedOut' = [s \in Sessions |->
                        IF signedOut[s] = None /\ s \in SignedOutBy(r) THEN now ELSE signedOut[s]]
  BY <1>4 DEF SignOutNext
<1> QED
  BY <1>1, <1>3, <1>5

\* What is remembered of the sessions outlives a step that writes none of them.
LEMMA RememberedStays ==
    ASSUME RefreshInv, HistoryInv, UNCHANGED <<session, history>>, now' \in Nat, now <= now'
    PROVE  HistoryInv'
<1> USE DEF HistoryInv, HistoryTypeOK, history
<1>1. HistoryTypeOK' /\ SingleSuccessor'
  BY DEF SingleSuccessor
<1>2. ASSUME NEW s \in Sessions
      PROVE  Remembered(s)'
  <2>1. Remembered(s) /\ session \in [Sessions -> SessionRow] /\ now \in Nat
    BY DEF RefreshInv, RefreshTypeOK
  <2>2. session[s].rotated # None => session[s].rotated \in Nat
    BY <2>1 DEF SessionRow, Time
  <2> QED
    BY <2>1, <2>2 DEF Remembered
<1> QED
  BY <1>1, <1>2

\* Signing out revokes what it signs out.
LEMMA RememberedSignsOut ==
    ASSUME RefreshInv, HistoryInv, NEW S, Revoke(S), NEW T \in SUBSET S,
           \A s \in T : s \in Sessions /\ Exists(s), UNCHANGED <<origin, delivered, now>>,
           signedOut' = [s \in Sessions |->
                            IF signedOut[s] = None /\ s \in T THEN now ELSE signedOut[s]]
    PROVE  HistoryInv'
<1> USE DEF HistoryInv, HistoryTypeOK
<1>1. now \in Time /\ now \in Nat /\ now # None
  BY RefreshAssumption DEF Time, RefreshInv, RefreshTypeOK
<1>2. HistoryTypeOK' /\ SingleSuccessor'
  BY <1>1 DEF SingleSuccessor
<1>3. ASSUME NEW s \in Sessions
      PROVE  /\ session'[s].user = session[s].user
             /\ session'[s].rotated = session[s].rotated
             /\ session[s].revoked # None => session'[s].revoked # None
             /\ s \in T => session'[s].revoked # None
  BY <1>1 DEF Revoke, Active, Exists, SessionRow, RefreshInv, RefreshTypeOK
<1>4. ASSUME NEW s \in Sessions
      PROVE  Remembered(s)'
  <2>1. Remembered(s) /\ origin[s] \in Sessions \cup {None}
    OBVIOUS
  <2>2. signedOut'[s] = IF signedOut[s] = None /\ s \in T THEN now ELSE signedOut[s]
    OBVIOUS
  <2> QED
    BY <1>3, <2>1, <2>2 DEF Remembered, Exists
<1> QED
  BY <1>2, <1>4

\* A session that was free is there: a new one has a parent, if it has one, that
\* was not signed out.
LEMMA RememberedCreates ==
    ASSUME RefreshInv, HistoryInv, NEW s \in Sessions, ~Exists(s),
           NEW u \in Users, NEW c \in Clients \cup {None},
           session' = [session EXCEPT ![s] = NewSession(u, c)], now' = now,
           NEW parent \in Sessions \cup {None},
           origin' = [origin EXCEPT ![s] = parent],
           delivered' \in SUBSET Sessions,
           parent # None => delivered' = delivered,
           parent = None => delivered' = delivered \cup {s},
           signedOut' = signedOut
    PROVE  HistoryInv'
<1> USE DEF HistoryInv, HistoryTypeOK
<1>1. \A t \in Sessions : Remembered(t)
  OBVIOUS
<1>2. /\ origin[s] = None /\ s \notin delivered /\ signedOut[s] = None
      /\ session \in [Sessions -> SessionRow]
      /\ u # None
      /\ session[s].revoked = None
  BY <1>1, RefreshAssumption
  DEF Remembered, Exists, RefreshInv, RefreshTypeOK, Rows, NoSession
<1>3. /\ session'[s].user = u /\ session'[s].revoked = None /\ session'[s].rotated = None
      /\ \A t \in Sessions \ {s} : session'[t] = session[t]
  BY <1>2 DEF NewSession, NoSession
<1>4. /\ origin'[s] = parent
      /\ \A t \in Sessions \ {s} : origin'[t] = origin[t]
  OBVIOUS
<1>5. SingleSuccessor'
  <2> SUFFICES ASSUME NEW x \in delivered', NEW y \in delivered',
                      origin'[x] # None, origin'[x] = origin'[y]
               PROVE  x = y
    BY DEF SingleSuccessor
  <2>1. x # s /\ y # s
    BY <1>2, <1>4
  <2>2. x \in delivered /\ y \in delivered /\ origin[x] # None /\ origin[x] = origin[y]
    BY <1>4, <2>1
  <2> QED
    BY <2>2 DEF SingleSuccessor
<1>6. ASSUME NEW t \in Sessions
      PROVE  Remembered(t)'
  <2>1. CASE t = s
    <3>1. t \in delivered' => origin'[t] = None
      BY <1>2, <1>4, <2>1
    <3> QED
      BY <1>2, <1>3, <2>1, <3>1 DEF Remembered
  <2>2. CASE t # s
    <3>1. /\ Remembered(t) /\ session'[t] = session[t] /\ origin'[t] = origin[t]
          /\ t \in delivered' <=> t \in delivered
      BY <1>3, <1>4, <2>2
    <3>2. t \in delivered /\ origin[t] # None => origin[t] # s
      BY <1>2, <3>1 DEF Remembered
    <3>3. t \in delivered /\ origin[t] # None => session'[origin[t]] = session[origin[t]]
      BY <1>3, <3>2
    <3> QED
      BY <3>1, <3>3 DEF Remembered
  <2> QED
    BY <2>1, <2>2
<1> QED
  BY <1>5, <1>6

\* The session a rotation saves was active, so nobody had signed it out.
LEMMA RememberedSaves ==
    ASSUME RefreshInv, HistoryInv, NEW x \in Sessions, session[x].user # None,
           session[x].revoked = None, NEW row \in SessionRow,
           row.user = session[x].user, row.revoked # None,
           row.rotated # None => row.rotated <= now,
           session' = [session EXCEPT ![x] = row], UNCHANGED <<history, now>>
    PROVE  HistoryInv'
<1> USE DEF HistoryInv, HistoryTypeOK, history
<1>1. session \in [Sessions -> SessionRow]
  BY DEF RefreshInv, RefreshTypeOK
<1>2. session'[x] = row /\ \A t \in Sessions \ {x} : session'[t] = session[t]
  BY <1>1
<1>3. HistoryTypeOK' /\ SingleSuccessor'
  BY DEF SingleSuccessor
<1>4. ASSUME NEW t \in Sessions
      PROVE  Remembered(t)'
  <2>1. Remembered(t) /\ (t = x => signedOut[t] = None)
    BY DEF Remembered
  <2>2. origin[t] \in Sessions => (session[origin[t]].revoked # None
                                   => session'[origin[t]].revoked # None)
    BY <1>2
  <2> QED
    BY <1>2, <2>1, <2>2 DEF Remembered
<1> QED
  BY <1>3, <1>4

\* The child whose token a rotation hands over is the only one there is of it.
LEMMA RememberedDelivers ==
    ASSUME RefreshInv, HistoryInv, NEW r \in Requests, Undelivered(request[r]),
           session[request[r].token].revoked # None,
           delivered' = delivered \cup {request[r].child},
           UNCHANGED <<session, origin, signedOut, now>>
    PROVE  HistoryInv'
<1> USE DEF HistoryInv, HistoryTypeOK, Undelivered
<1>1. SingleSuccessor'
  <2> SUFFICES ASSUME NEW x \in delivered', NEW y \in delivered',
                      origin[x] # None, origin[x] = origin[y]
               PROVE  x = y
    BY DEF SingleSuccessor
  <2> QED
    BY DEF SingleSuccessor
<1>2. ASSUME NEW t \in Sessions
      PROVE  Remembered(t)'
  <2>1. Remembered(t)
    OBVIOUS
  <2>2. CASE t = request[r].child
    BY <2>1, <2>2 DEF Remembered
  <2>3. CASE t # request[r].child
    BY <2>1, <2>3 DEF Remembered
  <2> QED
    BY <2>2, <2>3
<1> QED
  BY <1>1, <1>2

-----------------------------------------------------------------------------
(* One lemma for each group of actions.                                     *)

\* A step after which the history is right and so is what its request knows.
LEMMA AloneSuffices ==
    ASSUME MaxInFlight = 1, SignOutInv, NEW r \in Requests, RefreshStep(r),
           HistoryInv', Pending(r)' => Current(request[r])'
    PROVE  SignOutInv'
<1>1. RefreshInv'
  BY StepPreserves DEF SignOutInv, RefreshNext
<1>2. Alone' /\ \A p \in Requests \ {r} : ~Pending(p)'
  BY AloneKept DEF SignOutInv
<1> QED
  BY <1>1, <1>2 DEF SignOutInv

\* A step that neither writes a session nor signs out nor serves anybody.
LEMMA QuietSteps ==
    ASSUME SignOutInv, SignOutNext, NEW r \in Requests,
           \A p \in Requests \ {r} : request'[p] = request[p],
           \A step \in {"create", "user", "logout", "disconnect", "revokeAll", "reuse"} :
                ~Step(r, step),
           UNCHANGED <<session, now>>
    PROVE  HistoryInv'
<1>1. /\ \A p \in Requests : SignedOutBy(p) = {}
      /\ \A p \in Requests : ~Step(p, "user")
  BY StepIsOfOne DEF SignedOutBy
<1>2. Created = {}
  BY DEF Created, Exists
<1>3. UNCHANGED history
  BY <1>1, <1>2, HistoryStays DEF SignOutInv, HistoryInv
<1> QED
  BY <1>3, RememberedStays DEF SignOutInv, RefreshInv, RefreshTypeOK

\* The requests that the endpoints accept.
LEMMA ArrivalsAlone ==
    ASSUME SignOutInv, SignOutNext, NEW r \in Requests,
           \A p \in Requests \ {r} : request'[p] = request[p],
           \/ RefreshGrant(r) \/ AuthorizationCodeGrant(r) \/ APIOAuthRevoke(r)
           \/ APIRevokeConnectedApp(r) \/ RevokeAllForUser(r)
    PROVE  HistoryInv' /\ (Pending(r)' => Current(request[r])')
<1>0. request \in [Requests -> Request]
  BY DEF SignOutInv, RefreshInv, RefreshTypeOK
<1>1. /\ request[r] = NoRequest
      /\ request'[r].child = None
      /\ request'[r].step \in {"client", "grantClient", "logout", "disconnect", "mark"}
      /\ UNCHANGED <<session, now>>
  <2> USE DEF Accept, NoRequest
  <2>1. CASE RefreshGrant(r)
    BY <1>0, <2>1 DEF RefreshGrant
  <2>2. CASE AuthorizationCodeGrant(r)
    BY <1>0, <2>2 DEF AuthorizationCodeGrant
  <2>3. CASE APIOAuthRevoke(r)
    BY <1>0, <2>3 DEF APIOAuthRevoke
  <2>4. CASE APIRevokeConnectedApp(r)
    BY <1>0, <2>4 DEF APIRevokeConnectedApp
  <2>5. CASE RevokeAllForUser(r)
    BY <1>0, <2>5 DEF RevokeAllForUser
  <2> QED
    BY <2>1, <2>2, <2>3, <2>4, <2>5
<1>2. \A step : ~Step(r, step)
  BY <1>1 DEF Step, At, Pending, NoRequest
<1>3. HistoryInv'
  BY <1>1, <1>2, QuietSteps
<1> QED
  BY <1>1, <1>3 DEF Current

\* The calls that only read, and those that fail.
LEMMA ReadsAlone ==
    ASSUME SignOutInv, SignOutNext, NEW r \in Requests,
           \A p \in Requests \ {r} : request'[p] = request[p],
           \/ AuthenticateClient(r) \/ ReadGrantUser(r)
           \/ SetUserSessionsInvalidatedAt(r) \/ Fail(r)
    PROVE  HistoryInv' /\ (Pending(r)' => Current(request[r])')
<1>0. /\ request \in [Requests -> Request]
      /\ Pending(r) => Current(request[r])
  BY DEF SignOutInv, RefreshInv, RefreshTypeOK
<1>1. /\ Pending(r) /\ UNCHANGED <<session, now>>
      /\ \/ request'[r].reply = "error"
         \/ request[r].step \in {"client", "grantClient", "grantUser", "mark"}
  BY <1>0 DEF AuthenticateClient, ReadGrantUser, SetUserSessionsInvalidatedAt, Fail,
              Answer, At, NoRequest, Request
<1>2. \A step \in {"create", "user", "logout", "disconnect", "revokeAll", "reuse"} :
        ~Step(r, step)
  BY <1>1 DEF Step, At
<1>3. HistoryInv'
  BY <1>1, <1>2, QuietSteps
<1>4. \/ ~Pending(r)'
      \/ request'[r].step = "read" /\ request'[r].child = None
      \/ request'[r].step \in {"grantUser", "grant", "revokeAll"}
  <2>1. request[r].step = "client" => request[r].child = None
    BY <1>0, <1>1 DEF Current
  <2>2. CASE AuthenticateClient(r)
    <3>1. CASE Answer(r, "refused")
      BY <1>0, <3>1 DEF Answer, Pending, NoRequest
    <3>2. CASE Go(r, "read") /\ request[r].step = "client"
      BY <1>0, <2>1, <3>2 DEF Go, Request
    <3>3. CASE Go(r, "grantUser")
      BY <1>0, <3>3 DEF Go, Request
    <3> QED
      BY <2>2, <3>1, <3>2, <3>3 DEF AuthenticateClient, At
  <2>3. CASE ReadGrantUser(r)
    BY <1>0, <2>3 DEF ReadGrantUser, Answer, Go, Pending, NoRequest, Request
  <2>4. CASE SetUserSessionsInvalidatedAt(r)
    BY <1>0, <2>4 DEF SetUserSessionsInvalidatedAt, Go, Request
  <2>5. CASE Fail(r)
    BY <1>0, <2>5 DEF Fail, Answer, Pending, NoRequest
  <2> QED
    BY <2>2, <2>3, <2>4, <2>5
<1> QED
  BY <1>3, <1>4 DEF Current

\* Reading the row: a token that is still active is what the rotation goes on with.
LEMMA RowReadAlone ==
    ASSUME SignOutInv, SignOutNext, NEW r \in Requests,
           \A p \in Requests \ {r} : request'[p] = request[p], ReadSession(r)
    PROVE  HistoryInv' /\ (Pending(r)' => Current(request[r])')
<1> DEFINE row == session[request[r].token]
           q == [request[r] EXCEPT !.row = row, !.at = now]
<1>0. /\ request[r] \in Request /\ Current(request[r]) /\ request \in [Requests -> Request]
      /\ now \in Nat
  BY DEF SignOutInv, RefreshInv, RefreshTypeOK, ReadSession, At
<1>1. At(r, "read") /\ UNCHANGED <<session, now>>
  BY DEF ReadSession
<1>2. \A step \in {"create", "user", "logout", "disconnect", "revokeAll", "reuse"} :
        ~Step(r, step)
  BY <1>1 DEF Step, At
<1>3. HistoryInv'
  BY <1>1, <1>2, QuietSteps
<1>4. request[r].child = None
  BY <1>0, <1>1 DEF At, Current
<1>5. \/ Answer(r, "refused")
      \/ request' = [request EXCEPT ![r] = [q EXCEPT !.step = "reuse"]]
      \/ request' = [request EXCEPT ![r] = [q EXCEPT !.step = "user"]]
      \/ row.revoked = None /\ request' = [request EXCEPT ![r] = [q EXCEPT !.step = "create"]]
  BY <1>0, <1>4 DEF ReadSession, AfterRotation, Request
<1>6. CASE Answer(r, "refused")
  BY <1>0, <1>3, <1>6 DEF Answer, Pending, NoRequest
<1>7. CASE request' = [request EXCEPT ![r] = [q EXCEPT !.step = "reuse"]]
  BY <1>0, <1>3, <1>7 DEF Current, Request
<1>8. CASE request' = [request EXCEPT ![r] = [q EXCEPT !.step = "user"]]
  BY <1>0, <1>3, <1>4, <1>8 DEF Current, Request
<1>9. CASE row.revoked = None /\ request' = [request EXCEPT ![r] = [q EXCEPT !.step = "create"]]
  <2>1. /\ request'[r].step = "create" /\ request'[r].child = None /\ request'[r].row = row
        /\ request'[r].token = request[r].token /\ request'[r].at = now
    BY <1>0, <1>4, <1>9 DEF Request
  <2>2. session' = session /\ now' = now
    BY <1>1
  <2> QED
    BY <1>0, <1>3, <1>9, <2>1, <2>2 DEF Current
<1> QED
  BY <1>5, <1>6, <1>7, <1>8, <1>9

\* The new token is handed over, if there is one and the user is enabled.
LEMMA MintAlone ==
    ASSUME SignOutInv, SignOutNext, NEW r \in Requests,
           \A p \in Requests \ {r} : request'[p] = request[p], MintAccessToken(r)
    PROVE  HistoryInv' /\ (Pending(r)' => Current(request[r])')
<1> DEFINE child == request[r].child
<1>0. /\ request[r] \in Request /\ Current(request[r]) /\ request \in [Requests -> Request]
      /\ RefreshInv /\ HistoryInv /\ HistoryTypeOK
  BY DEF SignOutInv, RefreshInv, RefreshTypeOK, MintAccessToken, At, HistoryInv
<1>1. At(r, "user") /\ UNCHANGED <<session, now>> /\ ~Pending(r)'
  BY <1>0 DEF MintAccessToken, Answer, Pending, NoRequest
<1>2. Created = {}
  BY <1>1 DEF Created, Exists
<1>3. \A p \in Requests : SignedOutBy(p) = {}
  BY <1>1, StepIsOfOne DEF SignedOutBy, Step, At
<1>4. CASE child = None \/ request'[r].reply # "ok"
  <2>1. \A p \in Requests : Step(p, "user") => request'[p].reply # "ok" \/ request[p].child = None
    BY <1>4, StepIsOfOne
  <2>2. UNCHANGED history
    BY <1>0, <1>2, <1>3, <2>1, HistoryStays
  <2> QED
    BY <1>0, <1>1, <2>2, RememberedStays DEF RefreshInv, RefreshTypeOK
<1>5. CASE child # None /\ request'[r].reply = "ok"
  <2>1. Undelivered(request[r]) /\ session[request[r].token].revoked # None
    BY <1>0, <1>1, <1>5 DEF Current, At
  <2>2. UNCHANGED <<origin, signedOut>>
    <3>1. origin' = [s \in Sessions |-> origin[s]]
      BY <1>2 DEF SignOutNext
    <3>2. signedOut' = [s \in Sessions |-> signedOut[s]]
      BY <1>2, <1>3 DEF SignOutNext
    <3> QED
      BY <1>0, <3>1, <3>2 DEF HistoryTypeOK
  <2>3. Step(r, "user")
    BY <1>0, <1>1, <1>5 DEF Step, At, Pending
  <2>4. {s \in Sessions : \/ s \in Created /\ ParentsOf(s) = {}
                          \/ \E p \in Requests : /\ Step(p, "user")
                                                 /\ request'[p].reply = "ok"
                                                 /\ request[p].child = s} = {child}
    BY <1>2, <1>5, <2>1, <2>3, StepIsOfOne DEF Undelivered
  <2>5. delivered' = delivered \cup {child}
    BY <2>4 DEF SignOutNext
  <2> QED
    BY <1>0, <1>1, <2>1, <2>2, <2>5, RememberedDelivers
<1> QED
  BY <1>4, <1>5

\* The child of a rotation is there before the session it replaces is revoked.
LEMMA ChildAlone ==
    ASSUME SignOutInv, SignOutNext, NEW r \in Requests,
           \A p \in Requests \ {r} : request'[p] = request[p], CreateChild(r)
    PROVE  HistoryInv' /\ (Pending(r)' => Current(request[r])')
<1> DEFINE q == request[r]
           x == q.token
<1>0. /\ q \in Request /\ Current(q) /\ Gathered(session, q)
      /\ request \in [Requests -> Request]
      /\ session \in [Sessions -> SessionRow]
      /\ RefreshInv /\ HistoryInv /\ HistoryTypeOK
  BY DEF SignOutInv, RefreshInv, RefreshTypeOK, CreateChild, At, HistoryInv
<1>1. At(r, "create") /\ now' = now
  BY DEF CreateChild
<1>2. /\ x \in Sessions /\ session[x].user # None
      /\ q.row = session[x] /\ session[x].revoked = None /\ q.at <= now
  BY <1>0, <1>1 DEF At, Current, Gathered
<1>3. PICK s \in Sessions :
        /\ ~Exists(s)
        /\ session' = [session EXCEPT ![s] = NewSession(session[x].user, session[x].client)]
        /\ request' = [request EXCEPT ![r].step = "save", ![r].child = s]
  BY <1>2 DEF CreateChild
<1>4. s # x /\ session[x].user \in Users /\ session[x].client \in Clients \cup {None}
  BY <1>0, <1>2, <1>3 DEF Exists, SessionRow
<1>5. /\ request'[r] = [q EXCEPT !.step = "save", !.child = s]
      /\ Step(r, "create") /\ request'[r].child = s
  BY <1>0, <1>1, <1>3 DEF Step, At, Pending, Request
<1>6. session'[s].user = session[x].user
  BY <1>0, <1>3 DEF NewSession, NoSession
<1>7. Created = {s}
  BY <1>0, <1>2, <1>3, <1>6 DEF Created, Exists
<1>8. ParentsOf(s) = {x}
  BY <1>5, StepIsOfOne DEF ParentsOf
<1>9. origin' = [origin EXCEPT ![s] = x]
  <2>1. origin' = [t \in Sessions |-> IF t = s THEN x ELSE origin[t]]
    BY <1>7, <1>8 DEF SignOutNext
  <2> QED
    BY <1>0, <2>1 DEF HistoryTypeOK
<1>10. delivered' = delivered
  <2>1. \A p \in Requests : ~Step(p, "user")
    BY <1>1, StepIsOfOne DEF Step, At
  <2> QED
    BY <1>7, <1>8, <2>1 DEF SignOutNext
<1>11. signedOut[x] = None /\ signedOut[s] = None /\ s \notin delivered
  BY <1>0, <1>2, <1>3 DEF HistoryInv, Remembered, Exists
<1>12. signedOut' = signedOut
  <2>1. \A p \in Requests : SignedOutBy(p) = {}
    BY <1>1, StepIsOfOne DEF SignedOutBy, Step, At
  <2>2. signedOut' = [t \in Sessions |-> signedOut[t]]
    BY <1>7, <1>8, <1>11, <2>1 DEF SignOutNext
  <2> QED
    BY <1>0, <2>2 DEF HistoryTypeOK
<1>13. HistoryInv'
  BY <1>0, <1>1, <1>2, <1>3, <1>4, <1>9, <1>10, <1>12, RememberedCreates, RefreshAssumption
  DEF HistoryTypeOK
<1>14. \A t \in delivered : origin[t] # x
  BY <1>0, <1>2, RefreshAssumption DEF HistoryInv, HistoryTypeOK, Remembered
<1>15. Undelivered(q)'
  <2>1. \A t \in delivered' : origin'[t] # x
    BY <1>0, <1>9, <1>10, <1>11, <1>14 DEF HistoryTypeOK
  <2> QED
    BY <1>0, <1>4, <1>5, <1>6, <1>9, <1>10, <1>11, <2>1, RefreshAssumption
    DEF Undelivered, HistoryTypeOK, Request
<1>16. Current(q)'
  <2>1. session'[x] = session[x]
    BY <1>0, <1>3, <1>4
  <2>2. /\ request'[r].step = "save" /\ request'[r].row = q.row
        /\ request'[r].token = x /\ request'[r].at = q.at
    BY <1>0, <1>5 DEF Request
  <2> QED
    BY <1>1, <1>2, <1>15, <2>1, <2>2 DEF Current
<1> QED
  BY <1>13, <1>16

\* The row that is saved is the one there is, and nobody has signed it out.
LEMMA SaveAlone ==
    ASSUME SignOutInv, SignOutNext, NEW r \in Requests,
           \A p \in Requests \ {r} : request'[p] = request[p], SaveRotated(r)
    PROVE  HistoryInv' /\ (Pending(r)' => Current(request[r])')
<1> DEFINE q == request[r]
           x == q.token
<1>0. /\ q \in Request /\ Current(q) /\ Gathered(session, q)
      /\ request \in [Requests -> Request]
      /\ session \in [Sessions -> SessionRow]
      /\ RefreshInv /\ HistoryInv /\ HistoryTypeOK
  BY DEF SignOutInv, RefreshInv, RefreshTypeOK, SaveRotated, At, HistoryInv
<1>1. At(r, "save") /\ now' = now /\ session' = [session EXCEPT ![x] = RotatedRow(q)]
  BY DEF SaveRotated
<1>2. /\ x \in Sessions /\ session[x].user # None
      /\ q.row = session[x] /\ session[x].revoked = None /\ q.at <= now
      /\ Undelivered(q)
  BY <1>0, <1>1 DEF At, Current, Gathered
<1>3. /\ RotatedRow(q) \in SessionRow /\ RotatedRow(q).user = session[x].user
      /\ RotatedRow(q).revoked # None /\ RotatedRow(q).rotated = q.at
  BY <1>0, <1>2, RefreshAssumption DEF RotatedRow, SessionRow, Request, Time, Undelivered
<1>4. session'[x] = RotatedRow(q) /\ \A t \in Sessions : session'[t].user = session[t].user
  BY <1>0, <1>1, <1>2, <1>3
<1>5. Created = {}
  BY <1>4 DEF Created, Exists
<1>6. /\ \A p \in Requests : SignedOutBy(p) = {}
      /\ \A p \in Requests : ~Step(p, "user")
  BY <1>1, StepIsOfOne DEF SignedOutBy, Step, At
<1>7. UNCHANGED history
  BY <1>0, <1>5, <1>6, HistoryStays
<1>8. HistoryInv'
  BY <1>0, <1>1, <1>2, <1>3, <1>7, RememberedSaves
<1>9. \/ ~Pending(r)'
      \/ request'[r] = [q EXCEPT !.step = "revokeChild"]
      \/ request'[r] = [q EXCEPT !.step = "user"]
  BY <1>0 DEF SaveRotated, AfterRotation, Answer, Pending, NoRequest
<1>10. ASSUME Pending(r)'
       PROVE  Current(q)'
  <2>1. /\ request'[r].step \in {"revokeChild", "user"}
        /\ request'[r].token = x /\ request'[r].child = q.child
    BY <1>0, <1>9, <1>10 DEF Request
  <2>2. Undelivered(q)'
    BY <1>2, <1>4, <1>7, <2>1 DEF Undelivered, history
  <2> QED
    BY <1>3, <1>4, <2>1, <2>2 DEF Current
<1> QED
  BY <1>8, <1>10

\* A session that starts a line is delivered at once.
LEMMA GrantAlone ==
    ASSUME SignOutInv, SignOutNext, NEW r \in Requests,
           \A p \in Requests \ {r} : request'[p] = request[p], IssueTokenResponse(r)
    PROVE  HistoryInv' /\ (Pending(r)' => Current(request[r])')
<1> DEFINE q == request[r]
<1>0. /\ q \in Request /\ Gathered(session, q)
      /\ request \in [Requests -> Request]
      /\ session \in [Sessions -> SessionRow]
      /\ RefreshInv /\ HistoryInv /\ HistoryTypeOK
  BY DEF SignOutInv, RefreshInv, RefreshTypeOK, HistoryInv
<1>1. At(r, "grant") /\ now' = now /\ ~Pending(r)'
  BY <1>0 DEF IssueTokenResponse, Answer, Pending, NoRequest
<1>2. q.user \in Users /\ q.client \in Clients \cup {None} /\ q.user # None
  BY <1>0, <1>1, RefreshAssumption DEF At, Gathered, Request
<1>3. PICK s \in Sessions :
        ~Exists(s) /\ session' = [session EXCEPT ![s] = NewSession(q.user, q.client)]
  BY DEF IssueTokenResponse
<1>4. session'[s].user = q.user
  BY <1>0, <1>3 DEF NewSession, NoSession
<1>5. Created = {s}
  BY <1>0, <1>2, <1>3, <1>4 DEF Created, Exists
<1>6. /\ ParentsOf(s) = {}
      /\ \A p \in Requests : SignedOutBy(p) = {}
      /\ \A p \in Requests : ~Step(p, "user")
  BY <1>1, StepIsOfOne DEF ParentsOf, SignedOutBy, Step, At
<1>7. origin[s] = None /\ signedOut[s] = None
  BY <1>0, <1>3 DEF HistoryInv, Remembered, Exists
<1>8. origin' = [origin EXCEPT ![s] = None]
  <2>1. origin' = [t \in Sessions |-> origin[t]]
    BY <1>5, <1>6 DEF SignOutNext
  <2> QED
    BY <1>0, <1>7, <2>1 DEF HistoryTypeOK
<1>9. delivered' = delivered \cup {s}
  BY <1>5, <1>6 DEF SignOutNext
<1>10. signedOut' = signedOut
  <2>1. signedOut' = [t \in Sessions |-> signedOut[t]]
    BY <1>5, <1>6, <1>7 DEF SignOutNext
  <2> QED
    BY <1>0, <2>1 DEF HistoryTypeOK
<1>11. HistoryInv'
  BY <1>0, <1>1, <1>2, <1>3, <1>8, <1>9, <1>10, RememberedCreates DEF HistoryTypeOK
<1> QED
  BY <1>1, <1>11

\* Whatever a step signs out it revokes.
LEMMA RevocationsAlone ==
    ASSUME SignOutInv, SignOutNext, NEW r \in Requests,
           \A p \in Requests \ {r} : request'[p] = request[p],
           \/ RevokeSessionByRefreshHash(r) \/ RevokeUserClientSessions(r)
           \/ RevokeChild(r) \/ RevokeReused(r) \/ RevokeAllUserSessions(r)
    PROVE  HistoryInv' /\ (Pending(r)' => Current(request[r])')
<1> DEFINE q == request[r]
<1>0. /\ q \in Request /\ Gathered(session, q)
      /\ request \in [Requests -> Request]
      /\ session \in [Sessions -> SessionRow]
      /\ RefreshInv /\ HistoryInv /\ HistoryTypeOK
  BY DEF SignOutInv, RefreshInv, RefreshTypeOK, HistoryInv
<1>1. /\ now' = now /\ ~Pending(r)'
      /\ q.step \in {"logout", "disconnect", "revokeChild", "reuse", "revokeAll"}
  BY <1>0 DEF RevokeSessionByRefreshHash, RevokeUserClientSessions, RevokeChild,
         RevokeReused, RevokeAllUserSessions, Answer, Pending, NoRequest, At
<1>2. PICK S : /\ Revoke(S)
               /\ SignedOutBy(r) \subseteq S
  <2>1. CASE RevokeSessionByRefreshHash(r)
    BY <2>1 DEF RevokeSessionByRefreshHash, SignedOutBy, Step, At
  <2>2. CASE RevokeUserClientSessions(r)
    BY <2>2 DEF RevokeUserClientSessions, SignedOutBy, Step, At, SessionsOf
  <2>3. CASE RevokeChild(r)
    BY <2>3 DEF RevokeChild, SignedOutBy, Step, At
  <2>4. CASE RevokeReused(r)
    BY <2>4 DEF RevokeReused, SignedOutBy, Step, At, SessionsOf
  <2>5. CASE RevokeAllUserSessions(r)
    BY <2>5 DEF RevokeAllUserSessions, SignedOutBy, Step, At, SessionsOf
  <2> QED
    BY <2>1, <2>2, <2>3, <2>4, <2>5
<1>3. \A s \in SignedOutBy(r) : s \in Sessions /\ Exists(s)
  <2> SUFFICES ASSUME NEW s \in SignedOutBy(r) PROVE s \in Sessions /\ Exists(s)
    OBVIOUS
  <2>1. CASE Step(r, "logout") /\ s = q.token
    BY <1>0, <2>1 DEF SignedOutBy, Step, At, Gathered, Exists
  <2>2. CASE Step(r, "disconnect") /\ session[s].user = q.user
    BY <1>0, <2>2, RefreshAssumption DEF SignedOutBy, Step, At, Gathered, Exists
  <2>3. CASE Step(r, "revokeAll") /\ session[s].user = q.user
    BY <1>0, <2>3, RefreshAssumption DEF SignedOutBy, Step, At, Gathered, Exists
  <2>4. CASE Step(r, "reuse") /\ session[s].user = q.row.user
    BY <1>0, <2>4 DEF Step, At, Gathered, Exists, SameBinding, SignedOutBy
  <2> QED
    BY <2>1, <2>2, <2>3, <2>4 DEF SignedOutBy
<1>4. Created = {}
  <2>1. \A s \in Sessions : session'[s].user = session[s].user
    BY <1>0, <1>2 DEF Revoke, SessionRow
  <2> QED
    BY <2>1 DEF Created, Exists
<1>5. \A step \in {"user", "create"} : ~Step(r, step)
  BY <1>1 DEF Step, At
<1>6. /\ UNCHANGED <<origin, delivered>>
      /\ signedOut' = [s \in Sessions |->
                          IF signedOut[s] = None /\ s \in SignedOutBy(r) THEN now ELSE signedOut[s]]
  BY <1>0, <1>4, <1>5, HistorySignsOut
<1>7. HistoryInv'
  BY <1>0, <1>1, <1>2, <1>3, <1>6, RememberedSignsOut
<1> QED
  BY <1>1, <1>7

-----------------------------------------------------------------------------
\* At the start nothing has been rotated, signed out or even asked for.
LEMMA SignOutStarts == SignOutInit => SignOutInv
<1> SUFFICES ASSUME SignOutInit PROVE SignOutInv
  OBVIOUS
<1>1. RefreshInv
  BY InitEstablishes DEF SignOutInit
<1>2. \A r \in Requests : ~Pending(r)
  BY DEF SignOutInit, RefreshInit, Pending, NoRequest
<1>3. Alone
  <2>1. PendingRequests = {}
    BY <1>2 DEF PendingRequests
  <2> QED
    BY <1>2, <2>1, FS_EmptySet DEF Alone
<1>4. HistoryTypeOK /\ SingleSuccessor
  BY DEF SignOutInit, HistoryTypeOK, SingleSuccessor, Time
<1>5. ASSUME NEW s \in Sessions
      PROVE  Remembered(s)
  <2>1. /\ origin[s] = None /\ signedOut[s] = None /\ session[s] = SeedSession[s]
        /\ s \in delivered => SeedSession[s] # NoSession
    BY DEF SignOutInit, RefreshInit
  <2>2. session[s].rotated = None
    <3>1. CASE SeedSession[s] = NoSession
      BY <2>1, <3>1 DEF NoSession
    <3>2. CASE \E u \in Users, c \in Clients :
                  SeedSession[s] = [NoSession EXCEPT !.user = u, !.client = c]
      BY <2>1, <3>2 DEF NoSession
    <3> QED
      BY <3>1, <3>2, SeedSessionAssumption
  <2>3. session[s].user = None => s \notin delivered
    BY <1>1, <2>1 DEF RefreshInv, Rows
  <2> QED
    BY <2>1, <2>2, <2>3 DEF Remembered
<1> QED
  BY <1>1, <1>2, <1>3, <1>4, <1>5 DEF SignOutInv, HistoryInv

\* What happens between requests leaves every session and every request alone.
LEMMA BetweenRequests ==
    ASSUME SignOutInv,
           \/ UNCHANGED signOutVars
           \/ SignOutNext /\ (DisableUser \/ DisableOAuthClient \/ Tick)
    PROVE  SignOutInv'
<1>0. /\ HistoryInv /\ HistoryTypeOK /\ RefreshInv /\ now \in Nat
  BY DEF SignOutInv, RefreshInv, RefreshTypeOK, HistoryInv
<1>1. /\ UNCHANGED <<session, request>> /\ now' \in Nat /\ now <= now'
  BY <1>0 DEF DisableUser, DisableOAuthClient, Tick, signOutVars, refreshVars
<1>2. UNCHANGED history
  <2>1. CASE UNCHANGED signOutVars
    BY <2>1 DEF signOutVars
  <2>2. CASE SignOutNext
    <3>1. \A p \in Requests : \A step : ~Step(p, step)
      BY <1>1 DEF Step
    <3>2. Created = {} /\ \A p \in Requests : SignedOutBy(p) = {}
      BY <1>1, <3>1 DEF Created, Exists, SignedOutBy
    <3> QED
      BY <1>0, <2>2, <3>1, <3>2, HistoryStays
  <2> QED
    BY <2>1, <2>2
<1>3. HistoryInv'
  BY <1>0, <1>1, <1>2, RememberedStays
<1>4. RefreshInv'
  <2>1. [RefreshNext]_refreshVars
    BY DEF signOutVars, RefreshNext
  <2> QED
    BY <1>0, <2>1, StepPreserves
<1>5. Alone'
  BY <1>1 DEF SignOutInv, Alone, PendingRequests, Pending
<1>6. ASSUME NEW r \in Requests, Pending(r)'
      PROVE  Current(request[r])'
  <2>1. Current(request[r]) /\ request[r] \in Request
    BY <1>1, <1>6 DEF SignOutInv, Pending, RefreshInv, RefreshTypeOK
  <2>2. Undelivered(request[r]) => Undelivered(request[r])'
    BY <1>1, <1>2 DEF Undelivered, history
  <2>3. request[r].at \in Nat
    BY <2>1 DEF Request
  <2> QED
    BY <1>0, <1>1, <2>1, <2>2, <2>3 DEF Current
<1> QED
  BY <1>3, <1>4, <1>5, <1>6 DEF SignOutInv

\* Every step keeps it, when requests come one at a time.
LEMMA SignOutPreserves ==
    ASSUME MaxInFlight = 1, SignOutInv, [SignOutNext]_signOutVars
    PROVE  SignOutInv'
<1>1. CASE SignOutNext /\ \E r \in Requests : RefreshStep(r)
  <2>1. PICK r \in Requests : RefreshStep(r)
    BY <1>1
  <2>2. \A p \in Requests \ {r} : request'[p] = request[p]
    BY <2>1, OnlyOneMoves DEF SignOutInv
  <2>3. HistoryInv' /\ (Pending(r)' => Current(request[r])')
    BY <1>1, <2>1, <2>2, ArrivalsAlone, ReadsAlone, RowReadAlone, MintAlone, ChildAlone,
       SaveAlone, GrantAlone, RevocationsAlone
    DEF RefreshStep
  <2> QED
    BY <2>1, <2>3, AloneSuffices
<1> QED
  BY <1>1, BetweenRequests DEF SignOutNext, RefreshNext

\* The invariant of signing out, for requests that come one at a time.
THEOREM SignOutInvariant ==
    ASSUME MaxInFlight = 1
    PROVE  SignOutSpec => []SignOutInv
<1>1. SignOutInit => SignOutInv
  BY SignOutStarts
<1>2. SignOutInv /\ [SignOutNext]_signOutVars => SignOutInv'
  BY SignOutPreserves
<1> QED
  BY <1>1, <1>2, PTL DEF SignOutSpec

\* Where requests come one at a time, signing out leaves no session behind: not
\* the sessions it found, nor any that one of them had been rotated into.
THEOREM SigningOutIsFinal ==
    ASSUME MaxInFlight = 1
    PROVE  SignOutSpec => []SignedOutStaysOut
<1>1. SignOutInv => SignedOutStaysOut
  BY DEF SignOutInv, HistoryInv, Remembered, SignedOutStaysOut, Active
<1> QED
  BY <1>1, SignOutInvariant, PTL

\* Where requests come one at a time, a session has one successor at most whose
\* refresh token anybody holds, however often the token is presented.
THEOREM SuccessorsAreSingle ==
    ASSUME MaxInFlight = 1
    PROVE  SignOutSpec => []SingleSuccessor
<1>1. SignOutInv => SingleSuccessor
  BY DEF SignOutInv, HistoryInv
<1> QED
  BY <1>1, SignOutInvariant, PTL

\* A token that was signed out is served no longer than the grace window of the
\* rotation that preceded the sign-out.
LEMMA ServedWithinGrace ==
    ASSUME SignOutInv, SignOutNext, NEW r \in Requests, Served(r),
           signedOut[request[r].token] # None
    PROVE  now <= signedOut[request[r].token] + GraceWindow
<1> DEFINE t == request[r].token
           q == [request[r] EXCEPT !.row = session[t], !.at = now]
<1>0. /\ request[r] \in Request /\ Gathered(session, request[r])
      /\ request \in [Requests -> Request] /\ session \in [Sessions -> SessionRow]
      /\ now \in Nat /\ GraceWindow \in Nat /\ HistoryInv
  BY RefreshAssumption DEF SignOutInv, RefreshInv, RefreshTypeOK
<1>1. request'[r] # request[r] /\ At(r, "read") /\ request'[r].step \in {"create", "user"}
  BY DEF Served, At
<1>2. t \in Sessions
  BY <1>0, <1>1 DEF At, Gathered
<1>3. signedOut[t] \in Nat /\ session[t].revoked # None /\ Remembered(t)
  BY <1>0, <1>2 DEF HistoryInv, HistoryTypeOK, Remembered, Time
<1>4. ReadSession(r)
  <2>1. PICK p \in Requests : RefreshStep(p)
    BY <1>1 DEF SignOutNext, RefreshNext, DisableUser, DisableOAuthClient, Tick
  <2>2. p = r
    BY <1>1, <2>1, OnlyOneMoves DEF SignOutInv
  <2>3. request[r] # NoRequest /\ request[r].step = "read"
    BY <1>1 DEF At, Pending, NoRequest
  <2>4. ~(\/ RefreshGrant(r) \/ AuthorizationCodeGrant(r) \/ APIOAuthRevoke(r)
          \/ APIRevokeConnectedApp(r) \/ RevokeAllForUser(r))
    BY <2>3 DEF RefreshGrant, AuthorizationCodeGrant, APIOAuthRevoke,
               APIRevokeConnectedApp, RevokeAllForUser, Accept
  <2>5. ~(\/ AuthenticateClient(r) \/ CreateChild(r) \/ SaveRotated(r)
          \/ MintAccessToken(r) \/ ReadGrantUser(r) \/ IssueTokenResponse(r)
          \/ SetUserSessionsInvalidatedAt(r))
    BY <2>3 DEF AuthenticateClient, CreateChild, SaveRotated, MintAccessToken,
               ReadGrantUser, IssueTokenResponse, SetUserSessionsInvalidatedAt, At
  <2>6. ~(\/ RevokeSessionByRefreshHash(r) \/ RevokeUserClientSessions(r)
          \/ RevokeChild(r) \/ RevokeReused(r) \/ RevokeAllUserSessions(r))
    BY <2>3 DEF RevokeSessionByRefreshHash, RevokeUserClientSessions, RevokeChild,
               RevokeReused, RevokeAllUserSessions, At
  <2>7. ~Fail(r)
    BY <1>0, <1>1 DEF Fail, Answer, NoRequest
  <2> QED
    BY <2>1, <2>2, <2>4, <2>5, <2>6, <2>7 DEF RefreshStep
<1>5. ~Answer(r, "refused") /\ request'[r].step # "reuse"
  BY <1>0, <1>1 DEF Answer, NoRequest
<1>6. request' # [request EXCEPT ![r] = [q EXCEPT !.step = "reuse"]]
  BY <1>0, <1>5 DEF Request
<1>7. session[t].rotated # None /\ InGraceWindow(session[t])
  BY <1>3, <1>4, <1>5, <1>6 DEF ReadSession
<1>8. session[t].rotated \in Nat
  BY <1>0, <1>2, <1>7 DEF SessionRow, Time
<1>9. session[t].rotated <= signedOut[t] /\ now - session[t].rotated <= GraceWindow
  BY <1>3, <1>7 DEF Remembered, InGraceWindow
<1> QED
  BY <1>0, <1>3, <1>8, <1>9

\* Where requests come one at a time, a token that was signed out gets nothing
\* once the grace window of its rotation has passed.
THEOREM SigningOutEndsWithTheGrace ==
    ASSUME MaxInFlight = 1
    PROVE  SignOutSpec => SignOutEndsWithTheGrace
<1>1. SignOutInv /\ [SignOutNext]_signOutVars =>
        [\A r \in Requests :
            LET t == request[r].token
            IN Served(r) /\ signedOut[t] # None => now <= signedOut[t] + GraceWindow]_signOutVars
  BY ServedWithinGrace
<1> QED
  BY <1>1, SignOutInvariant, PTL DEF SignOutSpec, SignOutEndsWithTheGrace

=============================================================================
