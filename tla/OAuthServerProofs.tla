-------------------------- MODULE OAuthServerProofs --------------------------
(***************************************************************************)
(* What the authorization server promises, proved for any users, clients,   *)
(* scopes, sessions and requests, any number of them in flight, and any     *)
(* lifetimes of codes and cookies.                                          *)
(*                                                                          *)
(* It implements RefreshSessions, so what was proved there holds here.  The *)
(* rest is an invariant of the flows: each part says what a request knows   *)
(* for good once it has passed a check, although what it checked may have   *)
(* changed since, and which codes are spent.                                *)
(***************************************************************************)
EXTENDS OAuthServer, RefreshSessionsProofs

-----------------------------------------------------------------------------
(* The authorization server makes the requests of RefreshSessions, and only *)
(* some of them.                                                            *)

\* To RefreshSessions, consuming a code is nothing or the refusal of its request.
LEMMA ConsumingIsRefusing ==
    ASSUME NEW r \in Requests, ConsumeAuthorizationCode(r)
    PROVE  RefreshStep(r) \/ UNCHANGED refreshVars
<1>1. UNCHANGED <<now, userEnabled, clientEnabled, invalidatedAt, session>> /\ At(r, "grantUser")
  BY DEF ConsumeAuthorizationCode
<1>2. UNCHANGED request \/ Answer(r, "refused")
  BY DEF ConsumeAuthorizationCode
<1>3. CASE Answer(r, "refused")
  <2>1. ReadGrantUser(r)
    BY <1>1, <1>3 DEF ReadGrantUser
  <2>2. QED
    BY <2>1 DEF RefreshStep
<1>4. CASE UNCHANGED request
  BY <1>1, <1>4 DEF refreshVars
<1>5. QED
  BY <1>2, <1>3, <1>4

\* A request for a code changes nothing that RefreshSessions knows.
LEMMA AuthorizationStutters ==
    ASSUME NEW r \in Requests, AuthorizationStep(r)
    PROVE  UNCHANGED refreshVars
BY DEF AuthorizationStep, APIOAuthAuthorize, APIOAuthConsent, RequestCode, FlowCheck,
       GetConsent, FindConsent, CreateConsent, SaveConsent, IssueAuthorizationCode,
       AbandonFlow

\* Every step of a token or sign-out request is one of RefreshSessions, or nothing to it.
LEMMA TokenStepsRefine ==
    ASSUME NEW r \in Requests, TokenStep(r)
    PROVE  RefreshStep(r) \/ UNCHANGED refreshVars
<1>1. CASE PresentCode(r)
  BY <1>1 DEF PresentCode, RefreshStep
<1>2. CASE ConsumeAuthorizationCode(r)
  BY <1>2, ConsumingIsRefusing
<1>3. CASE RedeemCode(r)
  BY <1>3 DEF RedeemCode, RefreshStep
<1>4. CASE StartSession(r)
  BY <1>4 DEF StartSession, RefreshStep
<1>5. CASE RotateSession(r)
  BY <1>5 DEF RotateSession, RefreshStep
<1>6. CASE TakeUpRequest(r)
  BY <1>6 DEF TakeUpRequest, RefreshStep
<1>7. CASE HandleRequest(r)
  BY <1>7 DEF HandleRequest, RefreshStep
<1>8. CASE DisconnectApp(r)
  BY <1>8 DEF DisconnectApp, RefreshStep
<1>9. CASE RevokeConsent(r)
  BY <1>9 DEF RevokeConsent
<1>10. CASE SignOutEverywhere(r)
  BY <1>10 DEF SignOutEverywhere, RefreshStep
<1>11. CASE AbandonRequest(r)
  BY <1>11 DEF AbandonRequest, RefreshStep
<1>12. QED
  BY <1>1, <1>2, <1>3, <1>4, <1>5, <1>6, <1>7, <1>8, <1>9, <1>10, <1>11 DEF TokenStep

\* So is every step of the authorization server.
LEMMA StepRefines == [OAuthNext]_oauthVars => [RefreshNext]_refreshVars
<1> SUFFICES ASSUME [OAuthNext]_oauthVars PROVE [RefreshNext]_refreshVars
  OBVIOUS
<1>1. CASE \E r \in Requests : AuthorizationStep(r)
  BY <1>1, AuthorizationStutters
<1>2. CASE \E r \in Requests : TokenStep(r)
  BY <1>2, TokenStepsRefine DEF RefreshNext
<1>3. CASE Login
  BY <1>3 DEF Login
<1>4. CASE Environment
  BY <1>4 DEF Environment, RefreshNext
<1>5. CASE UNCHANGED oauthVars
  BY <1>5 DEF oauthVars
<1>6. QED
  BY <1>1, <1>2, <1>3, <1>4, <1>5 DEF OAuthNext

\* The authorization server implements RefreshSessions: logins, codes and consent
\* add nothing that the refresh sessions alone could not do.
THEOREM OAuthImplementsSessions == OAuthSpec => RefreshSpec
<1>1. OAuthInit => RefreshInit
  BY DEF OAuthInit
<1>2. [OAuthNext]_oauthVars => [RefreshNext]_refreshVars
  BY StepRefines
<1>3. QED
  BY <1>1, <1>2, PTL DEF OAuthSpec, RefreshSpec


-----------------------------------------------------------------------------
(* The invariant of the flows.                                              *)

AskSteps == {"authorizeClient", "authorizeUser", "readConsent", "formUser", "formClient",
             "findConsent", "createConsent", "saveConsent", "issue"}

\* The steps after the check of the cookie, and those after a form was posted.
CheckedSteps == {"readConsent", "formClient", "findConsent", "createConsent",
                 "saveConsent", "issue"}
PostedSteps == {"formUser", "formClient", "findConsent", "createConsent", "saveConsent"}

AppOf(f) == [user |-> f.login.user, client |-> f.client]

\* By the marks M, the user u was not signed out everywhere after the moment at.
SignedInSince(M, u, at) == M[u] # None => at >= M[u]

HasAgreed(A, app, S) == \E a \in A : SameApp(a, app) /\ S \subseteq a.scopes
HasConsent(K, app) == \E k \in K : SameApp(k, app)

LoginsFit == \A l \in login : l.issued <= l.made

\* A request for a code: it has none yet, and acts on a cookie that was handed out.
FlowsFit ==
    \A r \in Requests :
        /\ FlowAt(r, "none") \/ flow[r].step \in AskSteps => ~IsIssued(r)
        /\ flow[r].step \in AskSteps => flow[r].login \in login /\ flow[r].client \in Clients

FlowsSignedIn ==
    \A r \in Requests :
        flow[r].step \in CheckedSteps /\ "signOut" \notin flow[r].stale
            => SignedInSince(invalidatedAt, flow[r].login.user, flow[r].login.made)

FlowsAgreed ==
    \A r \in Requests :
        flow[r].step \in PostedSteps \/ (FlowAt(r, "issue") /\ flow[r].client # FirstParty)
            => HasAgreed(agreed, AppOf(flow[r]), flow[r].scopes)

ConsentsAgreed == \A k \in consent : HasAgreed(agreed, k, k.scopes)

FlowsConsented ==
    \A r \in Requests :
        FlowAt(r, "issue") /\ flow[r].client # FirstParty /\ "withdrawal" \notin flow[r].stale
            => HasConsent(consent, AppOf(flow[r]))

\* The rows of the table and those that requests hold.
HeldRows == consent \cup {flow[r].row : r \in Requests}

\* An id names one user's consent to one client, and the request that created it
\* has gone on.
RowsFit ==
    /\ \A j \in HeldRows, k \in HeldRows : j.id = k.id => SameApp(j, k)
    /\ \A k \in HeldRows : k # NoConsent => flow[k.id].step \in {"issue", "over"}
    /\ \A r \in Requests : FlowAt(r, "saveConsent") =>
            flow[r].row \in ConsentRow /\ SameApp(flow[r].row, AppOf(flow[r]))

\* A code is presented by one request at most that has consumed it, and only
\* before a session goes back to it.
CodesFit ==
    /\ \A s \in Sessions : Exists(s) =>
          born[s] \in Requests /\ IsIssued(born[s]) /\ code[born[s]].used
    /\ \A r \in Requests :
        /\ FlowAt(r, "redeem") \/ FlowAt(r, "redeemed") =>
              flow[r].code \in Requests /\ IsIssued(flow[r].code)
        /\ FlowAt(r, "redeemed") =>
              /\ code[flow[r].code].used
              /\ \A s \in Sessions : Exists(s) => born[s] # flow[r].code
              /\ \A q \in Requests \ {r} : FlowAt(q, "redeemed") => flow[q].code # flow[r].code
        /\ At(r, "grant") => FlowAt(r, "redeemed") /\ IsBound(request[r], flow[r])

OAuthInv ==
    /\ RefreshInv
    /\ OAuthTypeOK
    /\ LoginsFit /\ FlowsFit /\ FlowsSignedIn
    /\ FlowsAgreed /\ ConsentsAgreed /\ FlowsConsented /\ RowsFit
    /\ CodesFit
    /\ SignedOutLoginsOpenNothing /\ ScopesWereAgreedTo /\ OnlyOvertakenCodesLackConsent

-----------------------------------------------------------------------------
(* Types.                                                                   *)

\* Ending a flow, or moving it on, keeps it of its type.
LEMMA FlowTypes ==
    ASSUME OAuthTypeOK, NEW r \in Requests,
           \/ EndFlow(r) \/ FlowFollows(r)
           \/ \E step \in AskSteps \cup {"redeemed"} : FlowTo(r, step)
    PROVE  flow' \in [Requests -> Flow]
<1> USE DEF OAuthTypeOK, AskSteps
<1>1. flow[r] \in Flow
  OBVIOUS
<1>2. [NoFlow EXCEPT !.step = "over"] \in Flow
  BY DEF NoFlow, NoLogin, NoConsent, Flow
<1>3. \A step \in AskSteps \cup {"redeemed"} : [flow[r] EXCEPT !.step = step] \in Flow
  BY <1>1 DEF Flow
<1>4. QED
  BY <1>2, <1>3 DEF EndFlow, FlowFollows, FlowTo

\* A request for a code keeps every table and flow of its type.
LEMMA AuthorizationTypes ==
    ASSUME OAuthTypeOK, FlowsFit, RowsFit, NEW r \in Requests, AuthorizationStep(r), RefreshTypeOK'
    PROVE  OAuthTypeOK'
<1> USE DEF OAuthTypeOK
<1>1. UNCHANGED session
  BY AuthorizationStutters DEF refreshVars
<1>2. CASE APIOAuthAuthorize(r) \/ APIOAuthConsent(r)
  <2>1. PICK l \in login, c \in Clients, S \in SUBSET Scopes, step \in {"authorizeClient", "formUser"} :
           /\ RequestCode(r, step, l, c, S)
           /\ agreed' \subseteq agreed \cup {[user |-> l.user, client |-> c, scopes |-> S]}
    BY <1>2 DEF APIOAuthAuthorize, APIOAuthConsent
  <2>2. [NoFlow EXCEPT !.step = step, !.login = l, !.client = c, !.scopes = S] \in Flow
    BY <2>1 DEF NoFlow, NoLogin, NoConsent, Flow
  <2>3. l.user \in Users
    BY DEF LoginRow
  <2>4. QED
    BY <1>1, <2>1, <2>2, <2>3 DEF RequestCode, oauthTables, oauthHistory, IsIssued, Exists
<1>3. CASE FlowCheck(r) \/ GetConsent(r) \/ AbandonFlow(r)
  <2>1. flow' \in [Requests -> Flow]
    BY <1>3, FlowTypes DEF FlowCheck, GetConsent, AbandonFlow, AskSteps
  <2>2. QED
    BY <1>1, <1>3, <2>1 DEF FlowCheck, GetConsent, AbandonFlow, oauthTables, oauthHistory, IsIssued, Exists
<1>4. CASE FindConsent(r)
  <2>1. PICK k \in ConsentRow \cup {NoConsent}, step \in {"createConsent", "saveConsent"} :
           flow' = [flow EXCEPT ![r].step = step, ![r].row = k]
    BY <1>4 DEF FindConsent, ConsentsOf, UpsertOf
  <2>2. [flow[r] EXCEPT !.step = step, !.row = k] \in Flow
    <3>1. flow[r] \in Flow
      OBVIOUS
    <3>2. QED
      BY <2>1, <3>1 DEF Flow
  <2>3. flow' = [flow EXCEPT ![r] = [flow[r] EXCEPT !.step = step, !.row = k]]
    BY <2>1
  <2>4. QED
    BY <1>1, <1>4, <2>2, <2>3 DEF FindConsent, oauthTables, oauthHistory, IsIssued, Exists
<1>5. CASE CreateConsent(r)
  <2>1. flow' \in [Requests -> Flow]
    BY <1>5, FlowTypes DEF CreateConsent, AskSteps
  <2>2. flow[r].login \in LoginRow /\ flow[r].client \in Clients /\ flow[r].scopes \subseteq Scopes
    BY <1>5 DEF CreateConsent, FlowsFit, FlowAt, AskSteps, Flow
  <2>3. [id |-> r, user |-> flow[r].login.user, client |-> flow[r].client,
         scopes |-> flow[r].scopes] \in ConsentRow
    BY <2>2 DEF LoginRow, ConsentRow
  <2>4. QED
    BY <1>1, <1>5, <2>1, <2>3 DEF CreateConsent, oauthHistory, IsIssued, Exists
<1>6. CASE SaveConsent(r)
  <2>1. flow' \in [Requests -> Flow]
    BY <1>6, FlowTypes DEF SaveConsent, AskSteps
  <2>2. flow[r].row \in ConsentRow /\ flow[r].scopes \subseteq Scopes
    BY <1>6 DEF SaveConsent, RowsFit, Flow
  <2>3. [flow[r].row EXCEPT !.scopes = flow[r].scopes] \in ConsentRow
    BY <2>2 DEF ConsentRow
  <2>4. QED
    BY <1>1, <1>6, <2>1, <2>3 DEF SaveConsent, oauthHistory, IsIssued, Exists
<1>7. CASE IssueAuthorizationCode(r)
  <2>1. flow' \in [Requests -> Flow]
    BY <1>7, FlowTypes DEF IssueAuthorizationCode
  <2>2. flow[r].login \in LoginRow /\ flow[r].client \in Clients /\ flow[r] \in Flow
    BY <1>7 DEF IssueAuthorizationCode, FlowsFit, FlowAt, AskSteps
  <2>3. code'[r] \in CodeRow /\ code' = [code EXCEPT ![r] = code'[r]]
    BY <1>7, <2>2 DEF IssueAuthorizationCode, LoginRow, CodeRow, Flow, RefreshTypeOK
  <2>4. code'[r] # NoCode
    BY <2>3, RefreshAssumption DEF CodeRow, NoCode
  <2>5. \A k \in Requests : IsIssued(k) => IsIssued(k)'
    BY <2>3, <2>4 DEF IsIssued
  <2>6. QED
    BY <1>1, <1>7, <2>1, <2>3, <2>5 DEF IssueAuthorizationCode, oauthHistory, Exists
<1>8. QED
  BY <1>2, <1>3, <1>4, <1>5, <1>6, <1>7 DEF AuthorizationStep


\* What the histories of overtaken codes and flows leave of them.
LEMMA OvertakenTypes ==
    ASSUME OAuthTypeOK, NEW why \in Causes, NEW u \in Users, NEW C
    PROVE  /\ OvertakenCodes(why, u, C) \in [Requests -> CodeRow \cup {NoCode}]
           /\ OvertakenFlows(why, u, C) \in [Requests -> Flow]
           /\ \A k \in Requests : OvertakenCodes(why, u, C)[k] = NoCode <=> code[k] = NoCode
<1> USE DEF OAuthTypeOK
<1>1. ASSUME NEW k \in Requests, code[k] \in CodeRow
      PROVE  [code[k] EXCEPT !.stale = @ \cup {why}] \in CodeRow /\ CodeRow \cap {NoCode} = {}
  BY <1>1, RefreshAssumption DEF CodeRow, NoCode
<1>2. ASSUME NEW k \in Requests, code[k] = NoCode
      PROVE  OvertakenCodes(why, u, C)[k] = NoCode
  <2>1. code[k].user # u
    BY <1>2, RefreshAssumption DEF NoCode
  <2>2. QED
    BY <1>2, <2>1 DEF OvertakenCodes
<1>3. ASSUME NEW q \in Requests
      PROVE  [flow[q] EXCEPT !.stale = @ \cup {why}] \in Flow
  <2>1. flow[q] \in Flow
    OBVIOUS
  <2>2. QED
    BY <2>1 DEF Flow
<1>4. ASSUME NEW k \in Requests
      PROVE  /\ OvertakenCodes(why, u, C)[k] \in CodeRow \cup {NoCode}
             /\ OvertakenCodes(why, u, C)[k] = NoCode <=> code[k] = NoCode
  <2>1. CASE code[k] = NoCode
    BY <2>1, <1>2
  <2>2. CASE code[k] \in CodeRow
    BY <2>2, <1>1 DEF OvertakenCodes
  <2>3. QED
    BY <2>1, <2>2
<1>5. OvertakenFlows(why, u, C) \in [Requests -> Flow]
  BY <1>3 DEF OvertakenFlows
<1>6. QED
  BY <1>4, <1>5 DEF OvertakenCodes

\* Sessions stay.
LEMMA SessionsStay ==
    ASSUME RefreshInv, [RefreshNext]_refreshVars
    PROVE  /\ RefreshInv'
           /\ \A s \in Sessions : Exists(s) => Exists(s)'
<1>1. RefreshInv' /\ BindingsKept
  BY StepPreserves
<1>2. QED
  BY <1>1 DEF BindingsKept, SameBinding, Exists

\* Reading, answering, revoking and saving a rotated row create no session.
LEMMA NoNewSession ==
    ASSUME RefreshInv, NEW r \in Requests,
           \/ UNCHANGED session
           \/ HandleRequest(r)
    PROVE  \A s \in Sessions : Exists(s)' <=> Exists(s)
<1> USE DEF RefreshInv, RefreshTypeOK
<1>1. CASE UNCHANGED session
  BY <1>1 DEF Exists
<1>2. ASSUME NEW S, Revoke(S)
      PROVE  \A s \in Sessions : Exists(s)' <=> Exists(s)
  <2>1. ASSUME NEW s \in Sessions
        PROVE  session'[s].user = session[s].user
    <3>1. session[s] \in SessionRow
      OBVIOUS
    <3>2. QED
      BY <1>2, <3>1 DEF Revoke, SessionRow
  <2>2. QED
    BY <2>1 DEF Exists
<1>3. CASE SaveRotated(r)
  <2>1. request[r].token \in Sessions /\ request[r].row.user = session[request[r].token].user
    BY <1>3 DEF SaveRotated, At, Gathered, SameBinding
  <2>2. request[r].row \in SessionRow
    BY DEF Request
  <2>3. RotatedRow(request[r]).user = request[r].row.user
    BY <2>2 DEF RotatedRow, SessionRow
  <2>4. QED
    BY <1>3, <2>1, <2>3 DEF SaveRotated, Exists
<1>4. CASE HandleRequest(r) /\ ~SaveRotated(r)
  <2>1. \/ UNCHANGED session
        \/ \E S : Revoke(S)
    BY <1>4 DEF HandleRequest, AuthenticateClient, ReadSession, MintAccessToken,
       RevokeSessionByRefreshHash, RevokeChild, RevokeReused, RevokeAllUserSessions,
       RevokeUserClientSessions
  <2>2. QED
    BY <1>1, <1>2, <2>1
<1>5. QED
  BY <1>1, <1>3, <1>4

\* So does a token or sign-out request.
LEMMA TokenTypes ==
    ASSUME RefreshInv, OAuthTypeOK, CodesFit, NEW r \in Requests, TokenStep(r), RefreshTypeOK',
           \A s \in Sessions : Exists(s) => Exists(s)'
    PROVE  OAuthTypeOK'
<1> USE DEF OAuthTypeOK
<1>1. CASE \/ TakeUpRequest(r) \/ HandleRequest(r) \/ AbandonRequest(r) \/ RedeemCode(r)
           \/ DisconnectApp(r) \/ PresentCode(r)
  <2>1. UNCHANGED <<oauthTables, oauthHistory>>
    BY <1>1 DEF TakeUpRequest, HandleRequest, AbandonRequest, RedeemCode, DisconnectApp, PresentCode
  <2>2. flow' \in [Requests -> Flow]
    <3>1. CASE TakeUpRequest(r) \/ HandleRequest(r) \/ AbandonRequest(r) \/ RedeemCode(r)
      BY <3>1, FlowTypes DEF TakeUpRequest, HandleRequest, AbandonRequest, RedeemCode
    <3>2. CASE DisconnectApp(r)
      BY <3>2 DEF DisconnectApp, Flow, NoFlow, NoLogin, NoConsent
    <3>3. CASE PresentCode(r)
      <4>1. PICK k \in Requests, b \in BOOLEAN :
              flow' = [flow EXCEPT ![r] = [NoFlow EXCEPT !.step = "redeem", !.code = k, !.bound = b]]
        BY <3>3 DEF PresentCode
      <4>2. [NoFlow EXCEPT !.step = "redeem", !.code = k, !.bound = b] \in Flow
        BY DEF Flow, NoFlow, NoLogin, NoConsent
      <4>3. QED
        BY <4>1, <4>2
    <3>4. QED
      BY <1>1, <3>1, <3>2, <3>3
  <2>3. UNCHANGED session \/ HandleRequest(r)
    BY <1>1 DEF TakeUpRequest, AbandonRequest, RedeemCode, DisconnectApp, PresentCode,
       RefreshGrant, APIOAuthRevoke, RevokeAllForUser, APIRevokeConnectedApp,
       AuthorizationCodeGrant, Accept, Fail, ReadGrantUser
  <2>4. QED
    BY <2>1, <2>2, <2>3, NoNewSession DEF oauthTables, oauthHistory, IsIssued
<1>2. CASE ConsumeAuthorizationCode(r)
  <2>1. flow' \in [Requests -> Flow]
    BY <1>2, FlowTypes DEF ConsumeAuthorizationCode
  <2>2. flow[r].code \in Requests /\ IsIssued(flow[r].code)
    BY <1>2 DEF ConsumeAuthorizationCode, CodesFit
  <2>3. code[flow[r].code] \in CodeRow
    BY <2>2 DEF IsIssued
  <2>4. [code[flow[r].code] EXCEPT !.used = TRUE] \in CodeRow \ {NoCode}
    BY <2>3, RefreshAssumption DEF CodeRow, NoCode
  <2>5. /\ code' \in [Requests -> CodeRow \cup {NoCode}]
        /\ \A k \in Requests : IsIssued(k) => IsIssued(k)'
    BY <1>2, <2>2, <2>4 DEF ConsumeAuthorizationCode, IsIssued
  <2>6. QED
    BY <1>2, <2>1, <2>5 DEF ConsumeAuthorizationCode, oauthHistory, Exists
<1>3. CASE StartSession(r) \/ RotateSession(r)
  <2>1. flow' \in [Requests -> Flow]
    BY <1>3, FlowTypes DEF StartSession, RotateSession
  <2>2. UNCHANGED <<login, consent, code, agreed>>
    BY <1>3 DEF StartSession, RotateSession, oauthTables
  <2>3. PICK k \in Requests : IsIssued(k) /\ SessionsStartWith(k)
    <3>1. CASE StartSession(r)
      BY <3>1 DEF StartSession, IssueTokenResponse, CodesFit
    <3>2. CASE RotateSession(r)
      <4>1. request[r].token \in Sessions /\ Exists(request[r].token)
        BY <3>2 DEF RotateSession, CreateChild, At, RefreshInv, Gathered, Exists
      <4>2. QED
        BY <3>2, <4>1, RefreshAssumption DEF RotateSession, CodesFit
    <3>3. QED
      BY <1>3, <3>1, <3>2
  <2>4. QED
    BY <2>1, <2>2, <2>3, OAuthAssumption DEF SessionsStartWith, IsIssued, Exists
<1>4. CASE RevokeConsent(r) \/ SignOutEverywhere(r)
  <2>1. request[r].user \in Users
    BY <1>4 DEF RevokeConsent, SignOutEverywhere, SetUserSessionsInvalidatedAt, At,
       RefreshInv, Gathered
  <2>2. /\ code' \in [Requests -> CodeRow \cup {NoCode}]
        /\ \A k \in Requests : IsIssued(k)' <=> IsIssued(k)
    BY <1>4, <2>1, OvertakenTypes DEF RevokeConsent, SignOutEverywhere, Causes, IsIssued
  <2>3. flow' \in [Requests -> Flow]
    <3>1. CASE SignOutEverywhere(r)
      BY <3>1, <2>1, OvertakenTypes DEF SignOutEverywhere, Causes
    <3>2. CASE RevokeConsent(r)
      <4> DEFINE flows == OvertakenFlows("withdrawal", request[r].user, {request[r].client})
      <4>1. flows \in [Requests -> Flow]
        BY <2>1, OvertakenTypes DEF Causes
      <4>2. [flows[r] EXCEPT !.step = "over"] \in Flow
        <5>1. flows[r] \in Flow
          BY <4>1
        <5> HIDE DEF flows
        <5>2. QED
          BY <5>1 DEF Flow
      <4>3. flow' = [flows EXCEPT ![r] = [flows[r] EXCEPT !.step = "over"]]
        BY <3>2 DEF RevokeConsent
      <4> HIDE DEF flows
      <4>4. QED
        BY <4>1, <4>2, <4>3
    <3>3. QED
      BY <1>4, <3>1, <3>2
  <2>4. UNCHANGED <<session, born, login, agreed>> /\ consent' \subseteq consent
    BY <1>4 DEF RevokeConsent, SignOutEverywhere, SetUserSessionsInvalidatedAt, refreshVars,
       oauthHistory
  <2>5. QED
    BY <2>2, <2>3, <2>4 DEF Exists
<1>5. QED
  BY <1>1, <1>2, <1>3, <1>4 DEF TokenStep


-----------------------------------------------------------------------------
(* What the steps of a token request leave of the requests for codes.       *)

\* A flow, or a code, that was at most overtaken.
FlowKept(f, g) ==
    /\ g.step = f.step /\ g.login = f.login /\ g.client = f.client
    /\ g.scopes = f.scopes /\ g.row = f.row /\ f.stale \subseteq g.stale
CodeKept(a, b) ==
    /\ b.user = a.user /\ b.client = a.client /\ b.scopes = a.scopes /\ b.made = a.made
    /\ a.stale \subseteq b.stale

TokenKeeps ==
    /\ UNCHANGED <<login, agreed>>
    /\ consent' \subseteq consent
    /\ \A k \in Requests : (IsIssued(k)' <=> IsIssued(k)) /\ CodeKept(code[k], code'[k])
    /\ \A q \in Requests :
        /\ flow'[q].step \in AskSteps \cup {"none"} => FlowKept(flow[q], flow'[q])
        /\ flow[q].step \in {"issue", "over"} => flow'[q].step \in {"issue", "over"}
        /\ flow'[q].row \in {flow[q].row, NoConsent}

\* A withdrawal or a sign-out only adds to the history of what it overtakes.
LEMMA OvertakenKept ==
    ASSUME OAuthTypeOK, NEW why \in Causes, NEW u \in Users, NEW C
    PROVE  /\ \A k \in Requests : CodeKept(code[k], OvertakenCodes(why, u, C)[k])
           /\ \A q \in Requests : FlowKept(flow[q], OvertakenFlows(why, u, C)[q])
<1> USE DEF OAuthTypeOK
<1>1. ASSUME NEW k \in Requests
      PROVE  CodeKept(code[k], OvertakenCodes(why, u, C)[k])
  <2>1. CASE code[k] \in CodeRow
    BY <2>1 DEF OvertakenCodes, CodeKept, CodeRow
  <2>2. CASE code[k] = NoCode
    <3>1. code[k].user # u
      BY <2>2, RefreshAssumption DEF NoCode
    <3>2. QED
      BY <3>1 DEF OvertakenCodes, CodeKept
  <2>3. QED
    BY <2>1, <2>2
<1>2. ASSUME NEW q \in Requests
      PROVE  FlowKept(flow[q], OvertakenFlows(why, u, C)[q])
  <2>1. flow[q] \in Flow
    OBVIOUS
  <2>2. QED
    BY <2>1 DEF OvertakenFlows, FlowKept, Flow
<1>3. QED
  BY <1>1, <1>2

\* A token or sign-out request at most overtakes the codes and the requests for codes.
LEMMA TokenFrame ==
    ASSUME RefreshInv, OAuthTypeOK, CodesFit, NEW r \in Requests, TokenStep(r)
    PROVE  TokenKeeps
<1> USE DEF OAuthTypeOK
<1>0. flow[r] \in Flow
  OBVIOUS
<1>1. ASSUME \/ EndFlow(r)
             \/ UNCHANGED flow
             \/ FlowTo(r, "redeemed")
             \/ /\ flow[r] = NoFlow
                /\ \E f \in Flow : /\ f.step \in {"redeem", "withdraw"} /\ f.row = NoConsent
                                   /\ flow' = [flow EXCEPT ![r] = f]
      PROVE  \A q \in Requests :
                /\ flow'[q].step \in AskSteps \cup {"none"} => FlowKept(flow[q], flow'[q])
                /\ flow[q].step \in {"issue", "over"} /\ ~FlowTo(r, "redeemed")
                      => flow'[q].step \in {"issue", "over"}
                /\ flow'[q].row \in {flow[q].row, NoConsent}
  <2>1. CASE EndFlow(r)
    BY <2>1, <1>0 DEF EndFlow, FlowKept, AskSteps, NoFlow, Flow
  <2>2. CASE UNCHANGED flow
    BY <2>2 DEF FlowKept
  <2>3. CASE FlowTo(r, "redeemed")
    BY <2>3, <1>0 DEF FlowTo, FlowKept, AskSteps, Flow
  <2>4. CASE flow[r] = NoFlow /\ \E f \in Flow : /\ f.step \in {"redeem", "withdraw"} /\ f.row = NoConsent
                                   /\ flow' = [flow EXCEPT ![r] = f]
    BY <2>4 DEF FlowKept, AskSteps, NoFlow
  <2>5. QED
    BY <1>1, <2>1, <2>2, <2>3, <2>4
<1>2. CASE \/ PresentCode(r) \/ RedeemCode(r) \/ StartSession(r) \/ RotateSession(r)
           \/ TakeUpRequest(r) \/ HandleRequest(r) \/ DisconnectApp(r) \/ AbandonRequest(r)
  <2>1. UNCHANGED <<login, agreed, consent, code>>
    BY <1>2 DEF PresentCode, RedeemCode, StartSession, RotateSession, TakeUpRequest,
       HandleRequest, DisconnectApp, AbandonRequest, oauthTables, oauthHistory
  <2>2. \/ EndFlow(r)
        \/ UNCHANGED flow
        \/ /\ flow[r] = NoFlow
           /\ \E f \in Flow : /\ f.step \in {"redeem", "withdraw"} /\ f.row = NoConsent
                              /\ flow' = [flow EXCEPT ![r] = f]
    <3>1. CASE PresentCode(r)
      <4>1. PICK k \in Requests, b \in BOOLEAN :
              flow' = [flow EXCEPT ![r] = [NoFlow EXCEPT !.step = "redeem", !.code = k, !.bound = b]]
        BY <3>1 DEF PresentCode
      <4>2. [NoFlow EXCEPT !.step = "redeem", !.code = k, !.bound = b] \in Flow
        BY DEF Flow, NoFlow, NoLogin, NoConsent
      <4>3. QED
        BY <3>1, <4>1, <4>2 DEF PresentCode, Free, NoFlow
    <3>2. CASE DisconnectApp(r)
      <4>1. [NoFlow EXCEPT !.step = "withdraw"] \in Flow
        BY DEF Flow, NoFlow, NoLogin, NoConsent
      <4>2. QED
        BY <3>2, <4>1 DEF DisconnectApp, Free, NoFlow
    <3>3. QED
      BY <1>2, <3>1, <3>2 DEF RedeemCode, StartSession, RotateSession, TakeUpRequest,
         HandleRequest, AbandonRequest, FlowFollows, EndFlow
  <2>3. ASSUME NEW k \in Requests
        PROVE  CodeKept(code[k], code'[k])
    BY <2>1 DEF CodeKept
  <2>4. CASE FlowTo(r, "redeemed")
    BY <2>1, <2>2, <2>3, <2>4, <1>1, <1>0 DEF TokenKeeps, IsIssued, FlowTo, EndFlow, NoFlow, Flow
  <2>5. CASE ~FlowTo(r, "redeemed")
    BY <2>1, <2>2, <2>3, <2>5, <1>1 DEF TokenKeeps, IsIssued
  <2>6. QED
    BY <2>4, <2>5
<1>3. CASE ConsumeAuthorizationCode(r)
  <2>1. EndFlow(r) \/ FlowTo(r, "redeemed")
    BY <1>3 DEF ConsumeAuthorizationCode
  <2>2. \A q \in Requests : flow[q].step \in {"issue", "over"} => flow'[q].step \in {"issue", "over"}
    BY <1>3, <1>0, <2>1, <1>1 DEF ConsumeAuthorizationCode, FlowAt, FlowTo, Flow
  <2>3. flow[r].code \in Requests /\ IsIssued(flow[r].code)
    BY <1>3 DEF ConsumeAuthorizationCode, CodesFit
  <2>4. ASSUME NEW k \in Requests
        PROVE  (IsIssued(k)' <=> IsIssued(k)) /\ CodeKept(code[k], code'[k])
    <3>1. CASE code' = code
      BY <3>1 DEF IsIssued, CodeKept
    <3>2. CASE code' = [code EXCEPT ![flow[r].code].used = TRUE]
      <4>1. CASE k = flow[r].code
        <5>1. code[k] \in CodeRow
          BY <4>1, <2>3 DEF IsIssued
        <5>2. QED
          BY <3>2, <4>1, <5>1, RefreshAssumption DEF IsIssued, CodeKept, CodeRow, NoCode
      <4>2. CASE k # flow[r].code
        BY <3>2, <4>2, <2>3 DEF IsIssued, CodeKept
      <4>3. QED
        BY <4>1, <4>2
    <3>3. QED
      BY <1>3, <3>1, <3>2 DEF ConsumeAuthorizationCode
  <2>5. UNCHANGED <<login, agreed, consent>>
    BY <1>3 DEF ConsumeAuthorizationCode, oauthHistory
  <2>6. QED
    BY <2>1, <2>2, <2>4, <2>5, <1>1 DEF TokenKeeps
<1>4. CASE RevokeConsent(r) \/ SignOutEverywhere(r)
  <2>1. PICK why \in Causes, C \in SUBSET (Clients \cup {None}) :
          /\ code' = OvertakenCodes(why, request[r].user, C)
          /\ \/ flow' = OvertakenFlows(why, request[r].user, C)
             \/ flow' = [OvertakenFlows(why, request[r].user, C) EXCEPT ![r].step = "over"]
    <3>1. request[r].client \in Clients \cup {None}
      BY DEF RefreshTypeOK, Request
    <3>2. QED
      BY <1>4, <3>1 DEF RevokeConsent, SignOutEverywhere, Causes
  <2>2. request[r].user \in Users
    BY <1>4 DEF RevokeConsent, SignOutEverywhere, SetUserSessionsInvalidatedAt, At,
       RefreshInv, Gathered
  <2> DEFINE flows == OvertakenFlows(why, request[r].user, C)
  <2>3. /\ \A k \in Requests : (IsIssued(k)' <=> IsIssued(k)) /\ CodeKept(code[k], code'[k])
        /\ \A q \in Requests : FlowKept(flow[q], flows[q])
        /\ flows \in [Requests -> Flow]
    BY <2>1, <2>2, OvertakenKept, OvertakenTypes DEF IsIssued
  <2> HIDE DEF flows
  <2>4. ASSUME NEW q \in Requests
        PROVE  /\ flow'[q].step \in AskSteps \cup {"none"} => FlowKept(flow[q], flow'[q])
               /\ flow[q].step \in {"issue", "over"} => flow'[q].step \in {"issue", "over"}
               /\ flow'[q].row \in {flow[q].row, NoConsent}
    <3>1. CASE flow' = flows
      BY <3>1, <2>3 DEF FlowKept
    <3>2. CASE flow' = [flows EXCEPT ![r].step = "over"]
      <4>1. flows[r] \in Flow
        BY <2>3
      <4>2. CASE q = r
        BY <3>2, <4>1, <4>2, <2>3 DEF FlowKept, Flow, AskSteps
      <4>3. CASE q # r
        BY <3>2, <4>3, <2>3 DEF FlowKept
      <4>4. QED
        BY <4>2, <4>3
    <3>3. QED
      BY <2>1, <3>1, <3>2 DEF flows
  <2>5. UNCHANGED <<login, agreed>> /\ consent' \subseteq consent
    BY <1>4 DEF RevokeConsent, SignOutEverywhere, oauthHistory
  <2>6. QED
    BY <2>3, <2>4, <2>5 DEF TokenKeeps
<1>5. QED
  BY <1>2, <1>3, <1>4 DEF TokenStep

-----------------------------------------------------------------------------
(* What a step of a request for a code does to its flow.                    *)

\* The request goes on to another step.
GoesOn(f, g) ==
    /\ f.step \in AskSteps /\ g.step \in AskSteps
    /\ g.login = f.login /\ g.client = f.client /\ g.scopes = f.scopes /\ g.stale = f.stale

AskKeeps(r) ==
    /\ login' = login
    /\ agreed \subseteq agreed'
    /\ \A q \in Requests \ {r} : flow'[q] = flow[q] /\ code'[q] = code[q]
    /\ \/ /\ FlowAt(r, "none") /\ flow'[r].step \in {"authorizeClient", "formUser"}
          /\ flow'[r].login \in login /\ flow'[r].client \in Clients
          /\ flow'[r].row = NoConsent /\ code' = code
       \/ /\ GoesOn(flow[r], flow'[r]) /\ code' = code
       \/ /\ flow'[r].step = "over" /\ flow'[r].row = NoConsent
          /\ code' = code \/ IssueAuthorizationCode(r)

\* A request is taken up once.
LEMMA CodesAreAskedForOnce ==
    ASSUME NEW r \in Requests, APIOAuthAuthorize(r) \/ APIOAuthConsent(r)
    PROVE  FlowAt(r, "none")
<1>1. PICK l \in login, c \in Clients, S \in SUBSET Scopes, step \in {"authorizeClient", "formUser"} :
        RequestCode(r, step, l, c, S)
  BY DEF APIOAuthAuthorize, APIOAuthConsent
<1>2. flow[r] = NoFlow
  BY <1>1 DEF RequestCode, Free
<1>3. QED
  BY <1>2 DEF FlowAt, NoFlow

\* A request for a code moves its own flow by one step, and issues its own code.
LEMMA AuthorizationFrame ==
    ASSUME OAuthTypeOK, NEW r \in Requests, AuthorizationStep(r)
    PROVE  AskKeeps(r)
<1> USE DEF OAuthTypeOK
<1>0. flow[r] \in Flow
  OBVIOUS
<1>1. CASE APIOAuthAuthorize(r) \/ APIOAuthConsent(r)
  <2>1. PICK l \in login, c \in Clients, S \in SUBSET Scopes, step \in {"authorizeClient", "formUser"} :
          RequestCode(r, step, l, c, S)
    BY <1>1 DEF APIOAuthAuthorize, APIOAuthConsent
  <2>2. UNCHANGED <<login, code>> /\ FlowAt(r, "none") /\ agreed \subseteq agreed'
    <3>1. UNCHANGED <<login, code>> /\ FlowAt(r, "none")
      BY <2>1 DEF RequestCode, oauthTables, Free, FlowAt, NoFlow
    <3>2. agreed \subseteq agreed'
      BY <1>1 DEF APIOAuthAuthorize, APIOAuthConsent
    <3>3. QED
      BY <3>1, <3>2
  <2>3. /\ \A q \in Requests \ {r} : flow'[q] = flow[q]
        /\ flow'[r] = [NoFlow EXCEPT !.step = step, !.login = l, !.client = c, !.scopes = S]
    BY <2>1 DEF RequestCode
  <2>4. QED
    BY <2>2, <2>3 DEF AskKeeps, NoFlow
<1>2. ASSUME NEW step \in AskSteps, flow[r].step \in AskSteps, FlowTo(r, step),
             UNCHANGED <<login, agreed, code>>
      PROVE  AskKeeps(r)
  BY <1>0, <1>2 DEF AskKeeps, GoesOn, FlowTo, Flow
<1>3. ASSUME EndFlow(r), UNCHANGED <<login, agreed, code>>
      PROVE  AskKeeps(r)
  BY <1>3 DEF AskKeeps, EndFlow, NoFlow
<1>4. CASE FlowCheck(r) \/ GetConsent(r) \/ AbandonFlow(r) \/ CreateConsent(r) \/ SaveConsent(r)
  <2>1. UNCHANGED <<login, agreed, code>>
    BY <1>4 DEF FlowCheck, GetConsent, AbandonFlow, CreateConsent, SaveConsent, oauthTables,
       oauthHistory
  <2>2. \/ EndFlow(r)
        \/ flow[r].step \in AskSteps /\ \E step \in AskSteps : FlowTo(r, step)
    BY <1>4 DEF FlowCheck, GetConsent, AbandonFlow, CreateConsent, SaveConsent, AskSteps, FlowAt
  <2>3. QED
    BY <2>1, <2>2, <1>2, <1>3
<1>5. CASE FindConsent(r)
  <2>1. PICK k \in consent \cup {NoConsent}, step \in {"createConsent", "saveConsent"} :
           flow' = [flow EXCEPT ![r] = [flow[r] EXCEPT !.step = step, !.row = k]]
    BY <1>5 DEF FindConsent, ConsentsOf, UpsertOf
  <2>2. UNCHANGED <<login, agreed, code>> /\ FlowAt(r, "findConsent")
    BY <1>5 DEF FindConsent, oauthTables, oauthHistory
  <2>3. QED
    BY <1>0, <2>1, <2>2 DEF AskKeeps, GoesOn, AskSteps, Flow, FlowAt
<1>6. CASE IssueAuthorizationCode(r)
  BY <1>6 DEF AskKeeps, IssueAuthorizationCode, EndFlow, NoFlow, oauthHistory
<1>7. QED
  BY <1>1, <1>4, <1>5, <1>6 DEF AuthorizationStep

-----------------------------------------------------------------------------
(* The parts of the invariant, one after the other.                         *)

\* A request for a code has none before it issues it, and acts on a cookie that was handed
\* out, with an issue time no later than the moment it was made.
LEMMA FitStep ==
    ASSUME OAuthTypeOK, FlowsFit, LoginsFit, NEW r \in Requests, AskKeeps(r) \/ TokenKeeps
    PROVE  FlowsFit' /\ LoginsFit'
<1>1. LoginsFit'
  BY DEF LoginsFit, AskKeeps, TokenKeeps
<1>2. CASE TokenKeeps
  BY <1>1, <1>2 DEF TokenKeeps, FlowsFit, FlowAt, FlowKept, AskSteps
<1>3. CASE AskKeeps(r)
  <2>1. ASSUME NEW q \in Requests \ {r}
        PROVE  /\ FlowAt(q, "none")' \/ flow'[q].step \in AskSteps => ~IsIssued(q)'
               /\ flow'[q].step \in AskSteps => flow'[q].login \in login' /\ flow'[q].client \in Clients
    BY <1>3 DEF AskKeeps, FlowsFit, FlowAt, IsIssued
  <2>2. /\ FlowAt(r, "none")' \/ flow'[r].step \in AskSteps => ~IsIssued(r)'
        /\ flow'[r].step \in AskSteps => flow'[r].login \in login' /\ flow'[r].client \in Clients
    BY <1>3 DEF AskKeeps, FlowsFit, FlowAt, IsIssued, GoesOn, AskSteps
  <2>3. QED
    BY <1>1, <2>1, <2>2 DEF FlowsFit
<1>4. QED
  BY <1>2, <1>3

\* What a user agreed to covers the scopes of consents, of flows past the consent page, and
\* so of codes.
LEMMA AgreedStep ==
    ASSUME OAuthTypeOK, FlowsFit, FlowsAgreed, ConsentsAgreed, ScopesWereAgreedTo, RowsFit,
           NEW r \in Requests, (AuthorizationStep(r) /\ AskKeeps(r)) \/ TokenKeeps
    PROVE  FlowsAgreed' /\ ConsentsAgreed' /\ ScopesWereAgreedTo'
<1>0. ASSUME NEW app, NEW S, agreed \subseteq agreed', HasAgreed(agreed, app, S)
      PROVE  HasAgreed(agreed', app, S)
  BY <1>0 DEF HasAgreed
<1>1. CASE TokenKeeps
  <2>1. FlowsAgreed'
    BY <1>1 DEF FlowsAgreed, TokenKeeps, FlowKept, HasAgreed, AppOf, PostedSteps, FlowAt, AskSteps
  <2>2. ConsentsAgreed'
    BY <1>1 DEF ConsentsAgreed, TokenKeeps, HasAgreed
  <2>3. ScopesWereAgreedTo'
    BY <1>1 DEF ScopesWereAgreedTo, TokenKeeps, CodeKept, SameApp, IsIssued
  <2>4. QED
    BY <2>1, <2>2, <2>3
<1>2. CASE AuthorizationStep(r) /\ AskKeeps(r)
  <2>0. agreed \subseteq agreed'
    BY <1>2 DEF AskKeeps
  <2>1. ASSUME NEW q \in Requests \ {r},
               flow'[q].step \in PostedSteps \/ (FlowAt(q, "issue")' /\ flow'[q].client # FirstParty)
        PROVE  HasAgreed(agreed', AppOf(flow'[q]), flow'[q].scopes)
    BY <1>2, <2>0, <2>1, <1>0 DEF AskKeeps, FlowsAgreed, FlowAt, AppOf
  <2>2. ASSUME flow'[r].step \in PostedSteps \/ (FlowAt(r, "issue")' /\ flow'[r].client # FirstParty)
        PROVE  HasAgreed(agreed', AppOf(flow'[r]), flow'[r].scopes)
    <3>1. CASE FlowAt(r, "none")
      <4>1. APIOAuthConsent(r)
        BY <1>2, <2>2, <3>1 DEF AuthorizationStep, AskKeeps, APIOAuthAuthorize, RequestCode, FlowCheck,
           GetConsent, FindConsent, CreateConsent, SaveConsent, IssueAuthorizationCode, AbandonFlow,
           FlowAt, InFlow, PostedSteps, GoesOn, AskSteps, OAuthTypeOK, NoFlow, Flow
      <4>2. PICK l \in login, c \in Clients, S \in SUBSET Scopes :
              /\ RequestCode(r, "formUser", l, c, S)
              /\ agreed' = agreed \cup {[user |-> l.user, client |-> c, scopes |-> S]}
        BY <4>1 DEF APIOAuthConsent
      <4>3. flow'[r].login = l /\ flow'[r].client = c /\ flow'[r].scopes = S
        BY <4>2 DEF RequestCode, OAuthTypeOK, NoFlow
      <4> DEFINE a == [user |-> l.user, client |-> c, scopes |-> S]
      <4>4. a \in agreed' /\ SameApp(a, AppOf(flow'[r])) /\ flow'[r].scopes \subseteq a.scopes
        BY <4>2, <4>3 DEF AppOf, SameApp
      <4> HIDE DEF a
      <4>5. QED
        BY <4>4 DEF HasAgreed
    <3>2. CASE flow[r].step \in PostedSteps \/ (FlowAt(r, "issue") /\ flow[r].client # FirstParty)
      <4>1. HasAgreed(agreed, AppOf(flow[r]), flow[r].scopes)
        BY <3>2 DEF FlowsAgreed
      <4>2. GoesOn(flow[r], flow'[r])
        BY <1>2, <2>2, <3>2 DEF AskKeeps, PostedSteps, FlowAt
      <4>3. QED
        BY <4>1, <4>2, <2>0, <1>0 DEF GoesOn, AppOf
    <3>3. CASE FlowAt(r, "readConsent")
      <4>1. GetConsent(r) /\ ~EndFlow(r)
        <5>1. ~EndFlow(r)
          BY <2>2 DEF EndFlow, OAuthTypeOK, NoFlow, PostedSteps, FlowAt
        <5>2. ~APIOAuthAuthorize(r) /\ ~APIOAuthConsent(r)
          BY <3>3, CodesAreAskedForOnce DEF FlowAt
        <5>3. QED
          BY <1>2, <3>3, <5>1, <5>2 DEF AuthorizationStep, FlowCheck, FindConsent, CreateConsent,
             SaveConsent, IssueAuthorizationCode, AbandonFlow, FlowAt
      <4>2. PICK k \in consent : SameApp(k, AppOf(flow[r])) /\ flow[r].scopes \subseteq k.scopes
        BY <4>1 DEF GetConsent, ConsentsOf, Covers, SameApp, AppOf
      <4>3. HasAgreed(agreed, AppOf(flow[r]), flow[r].scopes)
        BY <4>2 DEF ConsentsAgreed, HasAgreed, SameApp
      <4>4. GoesOn(flow[r], flow'[r])
        BY <1>2, <2>2, <3>3 DEF AskKeeps, PostedSteps, FlowAt
      <4>5. QED
        BY <4>3, <4>4, <2>0, <1>0 DEF GoesOn, AppOf
    <3>4. CASE FlowAt(r, "authorizeClient") \/ FlowAt(r, "authorizeUser")
               \/ (FlowAt(r, "issue") /\ flow[r].client = FirstParty)
      <4>1. ~APIOAuthAuthorize(r) /\ ~APIOAuthConsent(r)
        BY <3>4, CodesAreAskedForOnce DEF FlowAt
      <4>2. \/ EndFlow(r)
            \/ FlowTo(r, "authorizeUser") \/ FlowTo(r, "readConsent")
            \/ flow[r].client = FirstParty /\ FlowTo(r, "issue")
        BY <1>2, <3>4, <4>1 DEF AuthorizationStep, FlowCheck, GetConsent, FindConsent,
           CreateConsent, SaveConsent, IssueAuthorizationCode, AbandonFlow, FlowAt
      <4>3. flow[r] \in Flow
        BY DEF OAuthTypeOK
      <4>4. QED
        BY <2>2, <4>2, <4>3 DEF EndFlow, FlowTo, NoFlow, Flow, PostedSteps, FlowAt, OAuthTypeOK
    <3>5. QED
      BY <1>2, <2>2, <3>1, <3>2, <3>3, <3>4 DEF AskKeeps, GoesOn, AskSteps, PostedSteps, FlowAt
  <2>3. ConsentsAgreed'
    <3>1. CASE consent' = consent
      BY <3>1, <2>0, <1>0 DEF ConsentsAgreed
    <3>2. CASE CreateConsent(r)
      <4>1. HasAgreed(agreed, AppOf(flow[r]), flow[r].scopes)
        BY <3>2 DEF CreateConsent, FlowsAgreed, PostedSteps, FlowAt
      <4>2. QED
        BY <3>2, <4>1, <2>0, <1>0 DEF CreateConsent, ConsentsAgreed, HasAgreed, AppOf, SameApp
    <3>3. CASE SaveConsent(r)
      <4>1. /\ HasAgreed(agreed, AppOf(flow[r]), flow[r].scopes)
            /\ flow[r].row \in ConsentRow /\ SameApp(flow[r].row, AppOf(flow[r]))
        BY <3>3 DEF SaveConsent, FlowsAgreed, PostedSteps, FlowAt, RowsFit
      <4> DEFINE k == [flow[r].row EXCEPT !.scopes = flow[r].scopes]
      <4>2. k.user = flow[r].login.user /\ k.client = flow[r].client /\ k.scopes = flow[r].scopes
        BY <4>1 DEF ConsentRow, SameApp, AppOf
      <4>3. HasAgreed(agreed, k, k.scopes)
        BY <4>1, <4>2 DEF HasAgreed, SameApp, AppOf
      <4>4. consent' \subseteq consent \cup {k}
        BY <3>3 DEF SaveConsent
      <4> HIDE DEF k
      <4>5. QED
        BY <4>3, <4>4, <2>0, <1>0 DEF ConsentsAgreed
    <3>4. QED
      BY <1>2, <3>1, <3>2, <3>3 DEF AuthorizationStep, APIOAuthAuthorize, APIOAuthConsent,
         RequestCode, FlowCheck, GetConsent, FindConsent, IssueAuthorizationCode, AbandonFlow,
         oauthTables
  <2>4. ScopesWereAgreedTo'
    <3>1. ASSUME NEW k \in Requests, IsIssued(k)', code'[k].client # FirstParty
          PROVE  HasAgreed(agreed', code'[k], code'[k].scopes)
      <4>1. CASE code'[k] = code[k]
        BY <3>1, <4>1, <2>0, <1>0 DEF ScopesWereAgreedTo, IsIssued, HasAgreed
      <4>2. CASE k = r /\ IssueAuthorizationCode(r)
        <5>1. /\ code'[r].user = flow[r].login.user /\ code'[r].client = flow[r].client
              /\ code'[r].scopes = flow[r].scopes
          BY <4>2 DEF IssueAuthorizationCode, OAuthTypeOK
        <5>2. HasAgreed(agreed, AppOf(flow[r]), flow[r].scopes)
          BY <3>1, <4>2, <5>1 DEF IssueAuthorizationCode, FlowsAgreed, FlowAt
        <5>3. QED
          BY <4>2, <5>1, <5>2, <2>0 DEF HasAgreed, AppOf, SameApp
      <4>3. QED
        BY <1>2, <4>1, <4>2 DEF AskKeeps
    <3>2. QED
      BY <3>1 DEF ScopesWereAgreedTo, HasAgreed
  <2>5. QED
    BY <2>1, <2>2, <2>3, <2>4 DEF FlowsAgreed
<1>3. QED
  BY <1>1, <1>2

\* However consents are created, read and saved again, an id names one user and client.
LEMMA RowsStep ==
    ASSUME OAuthTypeOK, OAuthTypeOK', RowsFit, NEW r \in Requests,
           (AuthorizationStep(r) /\ AskKeeps(r)) \/ TokenKeeps
    PROVE  RowsFit'
<1> USE DEF OAuthTypeOK
<1>0. /\ \A k \in HeldRows : k \in ConsentRow \/ k = NoConsent
      /\ NoConsent.id \notin Requests
      /\ \A k \in ConsentRow : k.id \in Requests /\ k # NoConsent
  BY OAuthAssumption DEF HeldRows, Flow, ConsentRow, NoConsent
<1>1. ASSUME HeldRows' \subseteq HeldRows \cup {NoConsent},
             \A q \in Requests : flow[q].step \in {"issue", "over"} => flow'[q].step \in {"issue", "over"}
      PROVE  /\ \A j \in HeldRows', k \in HeldRows' : j.id = k.id => SameApp(j, k)
             /\ \A k \in HeldRows' : k # NoConsent => flow'[k.id].step \in {"issue", "over"}
  <2>1. ASSUME NEW j \in HeldRows', NEW k \in HeldRows', j.id = k.id
        PROVE  SameApp(j, k)
    <3>1. CASE j \in HeldRows /\ k \in HeldRows
      BY <2>1, <3>1 DEF RowsFit
    <3>2. CASE j = NoConsent \/ k = NoConsent
      <4>1. j = k
        BY <1>0, <1>1, <2>1, <3>2
      <4>2. QED
        BY <4>1 DEF SameApp
    <3>3. QED
      BY <1>1, <3>1, <3>2
  <2>2. QED
    BY <1>0, <1>1, <2>1 DEF RowsFit
<1>2. CASE TokenKeeps
  <2>1. HeldRows' \subseteq HeldRows \cup {NoConsent}
    BY <1>2 DEF TokenKeeps, HeldRows
  <2>2. \A q \in Requests : FlowAt(q, "saveConsent")' => FlowAt(q, "saveConsent") /\ FlowKept(flow[q], flow'[q])
    BY <1>2 DEF TokenKeeps, FlowAt, FlowKept, AskSteps
  <2>3. \A q \in Requests : FlowAt(q, "saveConsent")' =>
            flow'[q].row \in ConsentRow /\ SameApp(flow'[q].row, AppOf(flow'[q]))
    BY <2>2 DEF RowsFit, FlowKept, AppOf
  <2>4. QED
    BY <1>1, <1>2, <2>1, <2>3 DEF RowsFit, TokenKeeps
<1>3. CASE AuthorizationStep(r) /\ AskKeeps(r)
  <2>0. /\ \A q \in Requests \ {r} : flow'[q] = flow[q]
        /\ flow[r] \in Flow
    BY <1>3 DEF AskKeeps
  <2>1. ASSUME NEW q \in Requests, flow[q].step \in {"issue", "over"}
        PROVE  flow'[q].step \in {"issue", "over"}
    <3>1. CASE q = r
      <4>1. ~APIOAuthAuthorize(r) /\ ~APIOAuthConsent(r)
        BY <2>1, <3>1, CodesAreAskedForOnce DEF FlowAt
      <4>2. EndFlow(r)
        BY <1>3, <2>1, <3>1, <4>1 DEF AuthorizationStep, FlowCheck, GetConsent, FindConsent,
           CreateConsent, SaveConsent, IssueAuthorizationCode, AbandonFlow, FlowAt
      <4>3. QED
        BY <3>1, <4>2 DEF EndFlow, NoFlow
    <3>2. QED
      BY <2>0, <2>1, <3>1
  <2>2. CASE flow'[r].row \in HeldRows \cup {NoConsent} /\ consent' = consent /\ ~FindConsent(r)
    <3>1. HeldRows' \subseteq HeldRows \cup {NoConsent}
      BY <2>0, <2>2 DEF HeldRows
    <3>2. FlowAt(r, "saveConsent")' => FALSE
      <4>1. FlowAt(r, "saveConsent")' /\ (APIOAuthAuthorize(r) \/ APIOAuthConsent(r)) => FALSE
        BY <1>3, CodesAreAskedForOnce DEF AskKeeps, FlowAt, GoesOn, AskSteps
      <4>2. \/ APIOAuthAuthorize(r) \/ APIOAuthConsent(r) \/ CreateConsent(r) \/ SaveConsent(r)
            \/ EndFlow(r)
            \/ \E step \in AskSteps \ {"saveConsent"} : FlowTo(r, step)
        BY <1>3, <2>2 DEF AuthorizationStep, FlowCheck, GetConsent, IssueAuthorizationCode,
           AbandonFlow, AskSteps
      <4>3. CASE EndFlow(r)
        BY <4>3 DEF EndFlow, NoFlow, FlowAt
      <4>4. CASE \E step \in AskSteps \ {"saveConsent"} : FlowTo(r, step)
        BY <2>0, <4>4 DEF FlowTo, FlowAt, Flow
      <4>5. CASE CreateConsent(r) \/ SaveConsent(r)
        BY <2>0, <4>5 DEF CreateConsent, SaveConsent, FlowTo, FlowAt, Flow
      <4>6. QED
        BY <4>1, <4>2, <4>3, <4>4, <4>5
    <3>3. \A q \in Requests : FlowAt(q, "saveConsent")' =>
            flow'[q].row \in ConsentRow /\ SameApp(flow'[q].row, AppOf(flow'[q]))
      BY <2>0, <3>2 DEF RowsFit, FlowAt
    <3>4. QED
      BY <1>1, <2>1, <3>1, <3>3 DEF RowsFit
  <2>3. CASE FindConsent(r)
    <3>1. PICK k \in consent \cup {NoConsent}, step \in {"createConsent", "saveConsent"} :
             /\ flow' = [flow EXCEPT ![r] = [flow[r] EXCEPT !.step = step, !.row = k]]
             /\ step = "saveConsent" => k \in ConsentsOf(flow[r].login.user, flow[r].client)
      BY <2>3 DEF FindConsent, ConsentsOf, UpsertOf
    <3>2. flow'[r] = [flow[r] EXCEPT !.step = step, !.row = k] /\ consent' = consent
      BY <2>3, <3>1 DEF FindConsent, oauthTables
    <3>3. HeldRows' \subseteq HeldRows \cup {NoConsent}
      <4>1. flow'[r].row = k
        BY <2>0, <3>2 DEF Flow
      <4>2. \A q \in Requests : flow'[q].row \in HeldRows \cup {NoConsent}
        BY <2>0, <4>1 DEF HeldRows
      <4>3. consent' \subseteq HeldRows
        BY <3>2 DEF HeldRows
      <4>4. QED
        BY <4>2, <4>3 DEF HeldRows
    <3>4. FlowAt(r, "saveConsent")' => flow'[r].row \in ConsentRow /\ SameApp(flow'[r].row, AppOf(flow'[r]))
      BY <2>0, <3>1, <3>2 DEF FlowAt, ConsentsOf, SameApp, AppOf, Flow
    <3>5. \A q \in Requests : FlowAt(q, "saveConsent")' =>
            flow'[q].row \in ConsentRow /\ SameApp(flow'[q].row, AppOf(flow'[q]))
      BY <2>0, <3>4 DEF RowsFit, FlowAt
    <3>6. QED
      BY <1>1, <2>1, <3>3, <3>5 DEF RowsFit
  <2>4. ASSUME NEW k \in ConsentRow, consent' \subseteq consent \cup {k},
               FlowTo(r, "issue"), flow[k.id].step \in {"issue", "over"} \/ k.id = r,
               \A j \in HeldRows : j.id = k.id => SameApp(j, k)
        PROVE  RowsFit'
    <3>1. HeldRows' \subseteq HeldRows \cup {k}
      BY <2>0, <2>4 DEF HeldRows, FlowTo, Flow
    <3>2. flow'[k.id].step \in {"issue", "over"}
      BY <2>0, <2>1, <2>4, <1>0 DEF FlowTo, Flow
    <3>3. \A j \in HeldRows' : j # NoConsent => flow'[j.id].step \in {"issue", "over"}
      BY <1>0, <2>1, <3>1, <3>2 DEF RowsFit
    <3>4. \A i \in HeldRows', j \in HeldRows' : i.id = j.id => SameApp(i, j)
      BY <2>4, <3>1 DEF RowsFit, SameApp
    <3>5. FlowAt(r, "saveConsent")' => FALSE
      BY <2>0, <2>4 DEF FlowTo, FlowAt, Flow
    <3>6. \A q \in Requests : FlowAt(q, "saveConsent")' =>
            flow'[q].row \in ConsentRow /\ SameApp(flow'[q].row, AppOf(flow'[q]))
      BY <2>0, <3>5 DEF RowsFit, FlowAt
    <3>7. QED
      BY <3>3, <3>4, <3>6 DEF RowsFit
  <2>5. CASE CreateConsent(r)
    <3> DEFINE k == [id |-> r, user |-> flow[r].login.user, client |-> flow[r].client,
                     scopes |-> flow[r].scopes]
    <3>1. consent' = consent \cup {k} /\ FlowTo(r, "issue") /\ k.id = r /\ FlowAt(r, "createConsent")
      BY <2>5 DEF CreateConsent
    <3>2. k \in ConsentRow
      BY <3>1
    <3>3. \A j \in HeldRows : j.id # r
      BY <1>0, <3>1 DEF RowsFit, FlowAt
    <3> HIDE DEF k
    <3>4. QED
      BY <2>4, <3>1, <3>2, <3>3
  <2>6. CASE SaveConsent(r)
    <3> DEFINE k == [flow[r].row EXCEPT !.scopes = flow[r].scopes]
    <3>1. flow[r].row \in ConsentRow /\ flow[r].row \in HeldRows
      BY <2>6 DEF SaveConsent, RowsFit, HeldRows
    <3>2. k \in ConsentRow /\ k.id = flow[r].row.id /\ SameApp(flow[r].row, k)
      BY <2>0, <3>1 DEF ConsentRow, SameApp, Flow
    <3>3. consent' \subseteq consent \cup {k} /\ FlowTo(r, "issue")
      BY <2>6 DEF SaveConsent
    <3> HIDE DEF k
    <3>4. \A j \in HeldRows : j.id = k.id => SameApp(j, k)
      BY <3>1, <3>2 DEF RowsFit, SameApp
    <3>5. flow[k.id].step \in {"issue", "over"}
      BY <1>0, <3>1, <3>2 DEF RowsFit
    <3>6. QED
      BY <2>4, <3>2, <3>3, <3>4, <3>5
  <2>7. CASE \/ APIOAuthAuthorize(r) \/ APIOAuthConsent(r) \/ FlowCheck(r) \/ GetConsent(r)
             \/ IssueAuthorizationCode(r) \/ AbandonFlow(r)
    <3>1. consent' = consent
      BY <2>7 DEF APIOAuthAuthorize, APIOAuthConsent, RequestCode, FlowCheck, GetConsent,
         IssueAuthorizationCode, AbandonFlow, oauthTables
    <3>2. flow'[r].row \in HeldRows \cup {NoConsent}
      <4>1. CASE APIOAuthAuthorize(r) \/ APIOAuthConsent(r)
        BY <1>3, <4>1, CodesAreAskedForOnce DEF AskKeeps, GoesOn, AskSteps, FlowAt
      <4>2. CASE EndFlow(r)
        BY <4>2 DEF EndFlow, NoFlow
      <4>3. CASE \E step : FlowTo(r, step)
        BY <2>0, <4>3 DEF FlowTo, HeldRows, Flow
      <4>4. QED
        BY <2>7, <4>1, <4>2, <4>3 DEF FlowCheck, GetConsent, IssueAuthorizationCode, AbandonFlow
    <3>3. CASE FindConsent(r)
      BY <2>3, <3>3
    <3>4. QED
      BY <2>2, <3>1, <3>2, <3>3
  <2>8. QED
    BY <1>3, <2>3, <2>5, <2>6, <2>7 DEF AuthorizationStep
<1>4. QED
  BY <1>2, <1>3

\* A flow that may issue a code, and the code, has a consent or was overtaken by its
\* withdrawal: saving a consent puts back the user and client of the row it replaces.
LEMMA ConsentedStep ==
    ASSUME OAuthTypeOK, FlowsConsented, OnlyOvertakenCodesLackConsent, RowsFit, NEW r \in Requests,
           \/ AuthorizationStep(r) /\ AskKeeps(r)
           \/ TokenStep(r) /\ TokenKeeps
    PROVE  FlowsConsented' /\ OnlyOvertakenCodesLackConsent'
<1> USE DEF OAuthTypeOK
<1>1. \A k \in Requests : IsIssued(k) /\ code[k].client # FirstParty /\ "withdrawal" \notin code[k].stale
          => HasConsent(consent, code[k])
  BY DEF OnlyOvertakenCodesLackConsent, HasConsent
<1>2. SUFFICES /\ FlowsConsented'
               /\ \A k \in Requests : IsIssued(k)' /\ code'[k].client # FirstParty
                     /\ "withdrawal" \notin code'[k].stale => HasConsent(consent', code'[k])
  BY DEF OnlyOvertakenCodesLackConsent, HasConsent
<1>3. CASE TokenStep(r) /\ TokenKeeps /\ ~RevokeConsent(r)
  <2>1. consent' = consent
    BY <1>3 DEF TokenStep, PresentCode, ConsumeAuthorizationCode, RedeemCode, StartSession,
       RotateSession, TakeUpRequest, HandleRequest, DisconnectApp, SignOutEverywhere,
       AbandonRequest, oauthTables
  <2>2. FlowsConsented'
    BY <1>3, <2>1 DEF FlowsConsented, TokenKeeps, FlowKept, FlowAt, AskSteps, AppOf
  <2>3. QED
    BY <1>1, <1>3, <2>1, <2>2 DEF TokenKeeps, CodeKept, HasConsent, SameApp
<1>4. CASE RevokeConsent(r) /\ TokenKeeps
  <2> DEFINE app == [user |-> request[r].user, client |-> request[r].client]
  <2>1. ASSUME NEW x, ~SameApp(x, app), HasConsent(consent, x)
        PROVE  HasConsent(consent', x)
    BY <1>4, <2>1 DEF RevokeConsent, ConsentsOf, HasConsent, SameApp
  <2>2. ASSUME NEW k \in Requests, IsIssued(k)', SameApp(code'[k], app)
        PROVE  "withdrawal" \in code'[k].stale
    <3>1. code[k] \in CodeRow /\ SameApp(code[k], app)
      BY <1>4, <2>2 DEF TokenKeeps, CodeKept, SameApp, IsIssued
    <3>2. code'[k] = [code[k] EXCEPT !.stale = @ \cup {"withdrawal"}]
      BY <1>4, <3>1 DEF RevokeConsent, OvertakenCodes, SameApp
    <3>3. QED
      BY <3>1, <3>2 DEF CodeRow
  <2>3. ASSUME NEW q \in Requests, FlowAt(q, "issue")', SameApp(AppOf(flow'[q]), app)
        PROVE  "withdrawal" \in flow'[q].stale
    <3>1. flow[q] \in Flow /\ SameApp(AppOf(flow[q]), app)
      BY <1>4, <2>3 DEF TokenKeeps, FlowKept, SameApp, AppOf, AskSteps, FlowAt
    <3> DEFINE flows == OvertakenFlows("withdrawal", request[r].user, {request[r].client})
    <3>2. flows[q] = [flow[q] EXCEPT !.stale = @ \cup {"withdrawal"}]
      BY <3>1 DEF OvertakenFlows, SameApp, AppOf
    <3>3. "withdrawal" \in flows[q].stale
      BY <3>1, <3>2 DEF Flow
    <3>4. flow' = [flows EXCEPT ![r].step = "over"]
      BY <1>4 DEF RevokeConsent
    <3>5. flows \in [Requests -> {flows[p] : p \in Requests}]
      BY DEF OvertakenFlows
    <3>6. CASE q # r
      <4> HIDE DEF flows
      <4>1. QED
        BY <3>3, <3>4, <3>5, <3>6
    <3>7. CASE q = r
      <4>1. flows[r] \in [DOMAIN flow[r] -> {flows[r][x] : x \in DOMAIN flow[r]}]
        BY <3>2, <3>7
      <4>2. "step" \in DOMAIN flow[r]
        BY <3>1, <3>7 DEF Flow
      <4> HIDE DEF flows
      <4>3. flow'[r].step = "over"
        BY <3>4, <3>5, <4>1, <4>2
      <4>4. QED
        BY <2>3, <3>7, <4>3 DEF FlowAt
    <3>8. QED
      BY <3>6, <3>7
  <2>4. FlowsConsented'
    <3>1. ASSUME NEW q \in Requests, FlowAt(q, "issue")', flow'[q].client # FirstParty,
                 "withdrawal" \notin flow'[q].stale
          PROVE  HasConsent(consent', AppOf(flow'[q]))
      <4>1. FlowKept(flow[q], flow'[q])
        BY <1>4, <3>1 DEF TokenKeeps, AskSteps, FlowAt
      <4>2. HasConsent(consent, AppOf(flow[q])) /\ AppOf(flow[q]) = AppOf(flow'[q])
        BY <3>1, <4>1 DEF FlowsConsented, FlowKept, FlowAt, AppOf
      <4>3. QED
        BY <2>1, <2>3, <3>1, <4>2
    <3>2. QED
      BY <3>1 DEF FlowsConsented
  <2>5. ASSUME NEW k \in Requests, IsIssued(k)', code'[k].client # FirstParty,
               "withdrawal" \notin code'[k].stale
        PROVE  HasConsent(consent', code'[k])
    <3>1. CodeKept(code[k], code'[k]) /\ IsIssued(k)
      BY <1>4, <2>5 DEF TokenKeeps
    <3>2. HasConsent(consent, code'[k])
      BY <1>1, <2>5, <3>1 DEF CodeKept, HasConsent, SameApp
    <3>3. QED
      BY <2>1, <2>2, <2>5, <3>2
  <2>6. QED
    BY <2>4, <2>5
<1>5. CASE AuthorizationStep(r) /\ AskKeeps(r)
  <2>0. flow[r] \in Flow
    OBVIOUS
  <2>1. ASSUME NEW x, HasConsent(consent, x)
        PROVE  HasConsent(consent', x)
    <3>1. CASE consent \subseteq consent'
      BY <2>1, <3>1 DEF HasConsent
    <3>2. CASE SaveConsent(r)
      <4> DEFINE new == [flow[r].row EXCEPT !.scopes = flow[r].scopes]
      <4>1. flow[r].row \in ConsentRow /\ flow[r].row \in HeldRows
        BY <3>2 DEF SaveConsent, RowsFit, HeldRows
      <4>2. SameApp(flow[r].row, new)
        BY <4>1 DEF ConsentRow, SameApp
      <4>3. new \in consent' /\ \A k \in consent : k.id # flow[r].row.id => k \in consent'
        BY <3>2 DEF SaveConsent
      <4> HIDE DEF new
      <4>4. PICK k \in consent : SameApp(k, x)
        BY <2>1 DEF HasConsent
      <4>5. CASE k.id = flow[r].row.id
        <5>1. SameApp(k, flow[r].row)
          BY <4>1, <4>5 DEF RowsFit, HeldRows
        <5>2. QED
          BY <4>2, <4>3, <4>4, <5>1 DEF HasConsent, SameApp
      <4>6. QED
        BY <4>3, <4>4, <4>5 DEF HasConsent
    <3>3. QED
      BY <1>5, <3>1, <3>2 DEF AuthorizationStep, APIOAuthAuthorize, APIOAuthConsent,
         RequestCode, FlowCheck, GetConsent, FindConsent, CreateConsent, IssueAuthorizationCode,
         AbandonFlow, oauthTables
  <2>2. ASSUME FlowAt(r, "issue")', flow'[r].client # FirstParty, "withdrawal" \notin flow'[r].stale
        PROVE  HasConsent(consent', AppOf(flow'[r]))
    <3>1. ~APIOAuthAuthorize(r) /\ ~APIOAuthConsent(r)
      BY <1>5, <2>2, CodesAreAskedForOnce DEF AskKeeps, FlowAt, GoesOn, AskSteps
    <3>2. GoesOn(flow[r], flow'[r])
      BY <1>5, <2>2 DEF AskKeeps, FlowAt
    <3>3. AppOf(flow'[r]) = AppOf(flow[r])
      BY <3>2 DEF GoesOn, AppOf
    <3>4. ~EndFlow(r) /\ \A step \in AskSteps : FlowTo(r, step) => step = "issue"
      BY <2>0, <2>2 DEF EndFlow, NoFlow, FlowTo, FlowAt, Flow
    <3>5. ASSUME FindConsent(r)
          PROVE  FALSE
      <4>1. PICK k \in consent \cup {NoConsent}, step \in {"createConsent", "saveConsent"} :
              flow' = [flow EXCEPT ![r] = [flow[r] EXCEPT !.step = step, !.row = k]]
        BY <3>5 DEF FindConsent, ConsentsOf, UpsertOf
      <4>2. QED
        BY <2>0, <2>2, <4>1 DEF FlowAt, Flow
    <3>6. \/ CreateConsent(r) \/ SaveConsent(r)
          \/ GetConsent(r)
          \/ FlowCheck(r) /\ FlowAt(r, "authorizeUser") /\ flow[r].client = FirstParty
      BY <1>5, <3>1, <3>4, <3>5 DEF AuthorizationStep, FlowCheck, IssueAuthorizationCode,
         AbandonFlow, AskSteps
    <3>7. CASE CreateConsent(r)
      <4> DEFINE new == [id |-> r, user |-> flow[r].login.user, client |-> flow[r].client,
                         scopes |-> flow[r].scopes]
      <4>1. new \in consent' /\ SameApp(new, AppOf(flow[r]))
        BY <3>7 DEF CreateConsent, SameApp, AppOf
      <4> HIDE DEF new
      <4>2. QED
        BY <3>3, <4>1 DEF HasConsent
    <3>8. CASE SaveConsent(r)
      <4> DEFINE new == [flow[r].row EXCEPT !.scopes = flow[r].scopes]
      <4>1. flow[r].row \in ConsentRow /\ SameApp(flow[r].row, AppOf(flow[r]))
        BY <3>8 DEF SaveConsent, RowsFit
      <4>2. new \in consent' /\ SameApp(new, AppOf(flow[r]))
        BY <3>8, <4>1 DEF SaveConsent, SameApp, ConsentRow
      <4> HIDE DEF new
      <4>3. QED
        BY <3>3, <4>2 DEF HasConsent
    <3>9. CASE GetConsent(r)
      <4>1. PICK k \in consent : SameApp(k, AppOf(flow[r]))
        BY <3>4, <3>9 DEF GetConsent, ConsentsOf, SameApp, AppOf
      <4>2. QED
        BY <2>1, <3>3, <4>1 DEF HasConsent
    <3>10. QED
      BY <2>2, <3>2, <3>6, <3>7, <3>8, <3>9 DEF GoesOn
  <2>3. FlowsConsented'
    <3>1. ASSUME NEW q \in Requests \ {r}, FlowAt(q, "issue")', flow'[q].client # FirstParty,
                 "withdrawal" \notin flow'[q].stale
          PROVE  HasConsent(consent', AppOf(flow'[q]))
      BY <1>5, <2>1, <3>1 DEF AskKeeps, FlowsConsented, FlowAt
    <3>2. QED
      BY <2>2, <3>1 DEF FlowsConsented
  <2>4. ASSUME NEW k \in Requests, IsIssued(k)', code'[k].client # FirstParty,
               "withdrawal" \notin code'[k].stale
        PROVE  HasConsent(consent', code'[k])
    <3>1. CASE code'[k] = code[k]
      BY <1>1, <2>1, <2>4, <3>1 DEF IsIssued
    <3>2. CASE k = r /\ IssueAuthorizationCode(r)
      <4>1. /\ code'[r].user = flow[r].login.user /\ code'[r].client = flow[r].client
            /\ code'[r].stale = flow[r].stale /\ FlowAt(r, "issue")
        BY <3>2 DEF IssueAuthorizationCode
      <4>2. HasConsent(consent, AppOf(flow[r]))
        BY <2>4, <3>2, <4>1 DEF FlowsConsented
      <4>3. QED
        BY <2>1, <3>2, <4>1, <4>2 DEF HasConsent, SameApp, AppOf
    <3>3. QED
      BY <1>5, <3>1, <3>2 DEF AskKeeps
  <2>5. QED
    BY <2>3, <2>4
<1>6. QED
  BY <1>3, <1>4, <1>5

\* Past the check of the cookie, its login was made after the last sign-out or overtaken by it.
LEMMA SignedInStep ==
    ASSUME OAuthTypeOK, FlowsFit, LoginsFit, FlowsSignedIn, SignedOutLoginsOpenNothing,
           RefreshInv, NEW r \in Requests,
           \/ AuthorizationStep(r) /\ AskKeeps(r)
           \/ TokenStep(r) /\ TokenKeeps
    PROVE  FlowsSignedIn' /\ SignedOutLoginsOpenNothing'
<1> USE DEF OAuthTypeOK
<1>1. CASE TokenStep(r) /\ TokenKeeps /\ ~SignOutEverywhere(r)
  <2>1. invalidatedAt' = invalidatedAt
    BY <1>1 DEF TokenStep, PresentCode, ConsumeAuthorizationCode, RedeemCode, StartSession,
       RotateSession, TakeUpRequest, HandleRequest, DisconnectApp, RevokeConsent,
       AbandonRequest, refreshVars, AuthorizationCodeGrant, RefreshGrant, APIOAuthRevoke,
       RevokeAllForUser, APIRevokeConnectedApp, Accept, Fail, ReadGrantUser, IssueTokenResponse,
       CreateChild, AuthenticateClient, ReadSession, SaveRotated, MintAccessToken,
       RevokeSessionByRefreshHash, RevokeChild, RevokeReused, RevokeAllUserSessions,
       RevokeUserClientSessions
  <2>2. FlowsSignedIn'
    BY <1>1, <2>1 DEF FlowsSignedIn, TokenKeeps, FlowKept, AskSteps, CheckedSteps
  <2>3. SignedOutLoginsOpenNothing'
    BY <1>1, <2>1 DEF SignedOutLoginsOpenNothing, TokenKeeps, CodeKept
  <2>4. QED
    BY <2>2, <2>3
<1>2. CASE SignOutEverywhere(r) /\ TokenKeeps
  <2> DEFINE u == request[r].user
  <2>0. u \in Users
    BY <1>2 DEF SignOutEverywhere, SetUserSessionsInvalidatedAt, At, RefreshInv, Gathered
  <2>1. \A v : v # u => invalidatedAt'[v] = invalidatedAt[v]
    BY <1>2 DEF SignOutEverywhere, SetUserSessionsInvalidatedAt, RefreshTypeOK
  <2>2. ASSUME NEW q \in Requests, flow'[q].step \in CheckedSteps, "signOut" \notin flow'[q].stale
        PROVE  SignedInSince(invalidatedAt', flow'[q].login.user, flow'[q].login.made)
    <3>1. FlowKept(flow[q], flow'[q])
      BY <1>2, <2>2 DEF TokenKeeps, AskSteps, CheckedSteps
    <3>2. SignedInSince(invalidatedAt, flow[q].login.user, flow[q].login.made)
      BY <2>2, <3>1 DEF FlowsSignedIn, FlowKept
    <3>3. flow[q].login.user # u
      <4>1. flow[q].client \in Clients /\ flow[q] \in Flow
        BY <2>2, <3>1 DEF FlowsFit, FlowKept, CheckedSteps, AskSteps
      <4>2. ASSUME flow[q].login.user = u
            PROVE  flow'[q] = [flow[q] EXCEPT !.stale = @ \cup {"signOut"}]
        BY <1>2, <4>1, <4>2 DEF SignOutEverywhere, OvertakenFlows
      <4>3. QED
        BY <2>2, <4>1, <4>2 DEF Flow
    <3>4. QED
      BY <2>1, <3>1, <3>2, <3>3 DEF SignedInSince, FlowKept
  <2>3. ASSUME NEW k \in Requests, IsIssued(k)', "signOut" \notin code'[k].stale,
               invalidatedAt'[code'[k].user] # None
        PROVE  code'[k].made >= invalidatedAt'[code'[k].user]
    <3>1. IsIssued(k) /\ CodeKept(code[k], code'[k]) /\ code[k] \in CodeRow
      BY <1>2, <2>3 DEF TokenKeeps, IsIssued
    <3>2. code[k].user # u
      <4>1. ASSUME code[k].user = u
            PROVE  code'[k] = [code[k] EXCEPT !.stale = @ \cup {"signOut"}]
        BY <1>2, <3>1, <4>1 DEF SignOutEverywhere, OvertakenCodes, CodeRow
      <4>2. QED
        BY <2>3, <3>1, <4>1 DEF CodeRow
    <3>3. QED
      BY <2>1, <2>3, <3>1, <3>2 DEF SignedOutLoginsOpenNothing, CodeKept
  <2>4. QED
    BY <2>2, <2>3 DEF FlowsSignedIn, SignedOutLoginsOpenNothing
<1>3. CASE AuthorizationStep(r) /\ AskKeeps(r)
  <2>0. invalidatedAt' = invalidatedAt /\ flow[r] \in Flow
    BY <1>3, AuthorizationStutters DEF refreshVars
  <2>1. ASSUME flow'[r].step \in CheckedSteps, "signOut" \notin flow'[r].stale
        PROVE  SignedInSince(invalidatedAt, flow'[r].login.user, flow'[r].login.made)
    <3>1. GoesOn(flow[r], flow'[r])
      BY <1>3, <2>1 DEF AskKeeps, CheckedSteps
    <3>2. CASE flow[r].step \in CheckedSteps
      BY <2>1, <3>1, <3>2 DEF FlowsSignedIn, GoesOn
    <3>3. CASE flow[r].step \notin CheckedSteps
      <4>1. ~APIOAuthAuthorize(r) /\ ~APIOAuthConsent(r) /\ ~EndFlow(r)
        BY <2>1, <3>1, CodesAreAskedForOnce DEF GoesOn, FlowAt, AskSteps, EndFlow, NoFlow, CheckedSteps
      <4>2. FlowCheck(r)
        BY <1>3, <3>3, <4>1 DEF AuthorizationStep, GetConsent, FindConsent, CreateConsent,
           SaveConsent, IssueAuthorizationCode, AbandonFlow, CheckedSteps, FlowAt
      <4>3. ~FlowTo(r, "authorizeUser")
        BY <2>0, <2>1 DEF FlowTo, CheckedSteps, Flow
      <4>4. ResolvesSSOUser(flow[r].login)
        BY <3>3, <4>1, <4>2, <4>3 DEF FlowCheck, CheckedSteps, FlowAt
      <4>5. flow[r].login \in LoginRow /\ flow[r].login.issued <= flow[r].login.made
        BY <3>1 DEF GoesOn, FlowsFit, LoginsFit
      <4>6. SignedInSince(invalidatedAt, flow[r].login.user, flow[r].login.made)
        BY <4>4, <4>5 DEF ResolvesSSOUser, SignedInSince, LoginRow, RefreshTypeOK, Time
      <4>7. QED
        BY <3>1, <4>6 DEF GoesOn
    <3>4. QED
      BY <3>2, <3>3
  <2>2. FlowsSignedIn'
    BY <1>3, <2>0, <2>1 DEF FlowsSignedIn, AskKeeps
  <2>3. ASSUME NEW k \in Requests, IsIssued(k)', "signOut" \notin code'[k].stale,
               invalidatedAt[code'[k].user] # None
        PROVE  code'[k].made >= invalidatedAt[code'[k].user]
    <3>1. CASE code'[k] = code[k]
      BY <2>3, <3>1 DEF SignedOutLoginsOpenNothing, IsIssued
    <3>2. CASE k = r /\ IssueAuthorizationCode(r)
      <4>1. /\ code'[r].user = flow[r].login.user /\ code'[r].made = flow[r].login.made
            /\ code'[r].stale = flow[r].stale /\ FlowAt(r, "issue")
        BY <3>2 DEF IssueAuthorizationCode
      <4>2. QED
        BY <2>3, <3>2, <4>1 DEF FlowsSignedIn, SignedInSince, CheckedSteps, FlowAt
    <3>3. QED
      BY <1>3, <3>1, <3>2 DEF AskKeeps
  <2>4. QED
    BY <2>0, <2>2, <2>3 DEF SignedOutLoginsOpenNothing
<1>4. QED
  BY <1>1, <1>2, <1>3

-----------------------------------------------------------------------------
(* Codes and the sessions they start.                                       *)

\* A step that starts no session and uses no code.
LEMMA CodesQuiet ==
    ASSUME CodesFit, NEW r \in Requests,
           born' = born,
           \A s \in Sessions : Exists(s)' <=> Exists(s),
           \A k \in Requests : IsIssued(k) =>
              /\ IsIssued(k)'
              /\ code'[k].used = code[k].used /\ code'[k].client = code[k].client,
           \A q \in Requests \ {r} :
              /\ flow'[q].step = flow[q].step /\ flow'[q].code = flow[q].code
              /\ flow'[q].bound = flow[q].bound
              /\ request'[q] = request[q],
           \/ /\ flow'[r].step = flow[r].step /\ flow'[r].code = flow[r].code
              /\ flow'[r].bound = flow[r].bound
              /\ At(r, "grant")' => \/ request'[r] = request[r]
                                    \/ /\ FlowAt(r, "redeemed")
                                       /\ request'[r].client = request[r].client
                                       /\ IsBound(request[r], flow[r])
           \/ /\ flow'[r].step \notin {"redeem", "redeemed"}
              /\ ~At(r, "grant")'
    PROVE  CodesFit'
<1>1. \A s \in Sessions : Exists(s)' =>
          born'[s] \in Requests /\ code'[born'[s]] # NoCode /\ code'[born'[s]].used
  BY DEF CodesFit, IsIssued
<1>2. ASSUME NEW q \in Requests, FlowAt(q, "redeem")' \/ FlowAt(q, "redeemed")'
      PROVE  /\ flow'[q].step = flow[q].step /\ flow'[q].code = flow[q].code
             /\ flow'[q].bound = flow[q].bound
             /\ flow'[q].code \in Requests /\ code'[flow'[q].code] # NoCode
             /\ code'[flow'[q].code].used = code[flow[q].code].used
             /\ code'[flow'[q].code].client = code[flow[q].code].client
  BY <1>2 DEF CodesFit, FlowAt, IsIssued
<1>3. ASSUME NEW q \in Requests, FlowAt(q, "redeemed")'
      PROVE  /\ code'[flow'[q].code].used
             /\ \A s \in Sessions : Exists(s)' => born'[s] # flow'[q].code
             /\ \A p \in Requests \ {q} : FlowAt(p, "redeemed")' => flow'[p].code # flow'[q].code
  BY <1>2, <1>3 DEF CodesFit, FlowAt
<1>4. ASSUME NEW q \in Requests, At(q, "grant")'
      PROVE  FlowAt(q, "redeemed")' /\ flow'[q].bound /\ code'[flow'[q].code].client = request'[q].client
  <2>1. CASE q # r
    <3>1. At(q, "grant") /\ request'[q] = request[q]
      BY <1>4, <2>1 DEF At, Pending
    <3>2. FlowAt(q, "redeemed")'
      BY <2>1, <3>1 DEF CodesFit, FlowAt
    <3>3. QED
      BY <1>2, <3>1, <3>2 DEF CodesFit, IsBound
  <2>2. CASE q = r
    <3>1. FlowAt(r, "redeemed") /\ IsBound(request[r], flow[r]) /\ request'[r].client = request[r].client
      BY <1>4, <2>2 DEF CodesFit, At, Pending
    <3>2. FlowAt(r, "redeemed")'
      BY <1>4, <2>2, <3>1 DEF FlowAt
    <3>3. QED
      BY <1>2, <2>2, <3>1, <3>2 DEF IsBound
  <2>3. QED
    BY <2>1, <2>2
<1>5. QED
  BY <1>1, <1>2, <1>3, <1>4 DEF CodesFit, IsIssued, IsBound

\* A request for a code leaves the codes of others and the sessions as they are.
LEMMA CodesAuthorization ==
    ASSUME OAuthTypeOK, CodesFit, FlowsFit, NEW r \in Requests,
           AuthorizationStep(r), AskKeeps(r)
    PROVE  CodesFit'
<1>1. UNCHANGED <<session, request, born>>
  BY AuthorizationStutters DEF refreshVars, AuthorizationStep, APIOAuthAuthorize, APIOAuthConsent,
     RequestCode, FlowCheck, GetConsent, FindConsent, CreateConsent, SaveConsent,
     IssueAuthorizationCode, AbandonFlow, oauthHistory
<1>2. \A k \in Requests : IsIssued(k) => code'[k] = code[k]
  BY DEF AskKeeps, IssueAuthorizationCode, FlowsFit, FlowAt, AskSteps
<1>3. flow'[r].step \notin {"redeem", "redeemed"}
  BY DEF AskKeeps, GoesOn, AskSteps
<1>4. ~At(r, "grant")
  <2>1. ASSUME At(r, "grant") PROVE FALSE
    <3>1. FlowAt(r, "redeemed") /\ Pending(r)
      BY <2>1 DEF CodesFit, At
    <3>2. ~APIOAuthAuthorize(r) /\ ~APIOAuthConsent(r)
      BY <3>1, CodesAreAskedForOnce DEF FlowAt
    <3>3. QED
      BY <3>1, <3>2 DEF AuthorizationStep, FlowCheck, GetConsent, FindConsent, CreateConsent,
         SaveConsent, IssueAuthorizationCode, AbandonFlow, FlowAt
  <2>2. QED
    BY <2>1
<1>5. QED
  <2>1. \A s \in Sessions : Exists(s)' <=> Exists(s)
    BY <1>1 DEF Exists
  <2>2. \A q \in Requests \ {r} : flow'[q] = flow[q] /\ request'[q] = request[q]
    BY <1>1 DEF AskKeeps
  <2>3. ~At(r, "grant")'
    BY <1>1, <1>4 DEF At, Pending
  <2>4. QED
    BY <1>1, <1>2, <1>3, <2>1, <2>2, <2>3, CodesQuiet DEF IsIssued

\* A token request consumes a code for itself, and starts a session from that code alone.
LEMMA CodesToken ==
    ASSUME RefreshInv, RefreshInv', OAuthTypeOK, CodesFit, NEW r \in Requests,
           TokenStep(r), TokenKeeps
    PROVE  CodesFit'
<1> USE DEF OAuthTypeOK, RefreshTypeOK
<1>0. flow[r] \in Flow /\ request[r] \in Request
  OBVIOUS
<1>1. CASE \/ TakeUpRequest(r) \/ HandleRequest(r) \/ AbandonRequest(r) \/ DisconnectApp(r)
           \/ PresentCode(r)
  <2>1. UNCHANGED <<code, born>>
    BY <1>1 DEF TakeUpRequest, HandleRequest, AbandonRequest, DisconnectApp, PresentCode,
       oauthTables, oauthHistory
  <2>2. \A s \in Sessions : Exists(s)' <=> Exists(s)
    <3>1. UNCHANGED session \/ HandleRequest(r)
      BY <1>1 DEF TakeUpRequest, AbandonRequest, DisconnectApp, PresentCode,
         RefreshGrant, APIOAuthRevoke, RevokeAllForUser, APIRevokeConnectedApp,
         AuthorizationCodeGrant, Accept, Fail
    <3>2. QED
      BY <3>1, NoNewSession
  <2>3. request' = [request EXCEPT ![r] = request'[r]] /\ ~At(r, "grant")'
    <3> DEFINE Goes(q) == request' = [request EXCEPT ![r] = q] /\ q.step # "grant"
    <3>1. ASSUME NEW q, Goes(q) PROVE request' = [request EXCEPT ![r] = request'[r]] /\ ~At(r, "grant")'
      BY <3>1 DEF At
    <3>2. ASSUME NEW step \in {"read", "grantUser"}, Go(r, step)
          PROVE  Goes([request[r] EXCEPT !.step = step])
      BY <1>0, <3>2 DEF Go, Request
    <3>3. ASSUME NEW reply, Answer(r, reply)
          PROVE  Goes([NoRequest EXCEPT !.step = "done", !.reply = reply])
      BY <3>3 DEF Answer, NoRequest
    <3>4. CASE TakeUpRequest(r) \/ DisconnectApp(r) \/ PresentCode(r)
      <4>1. ASSUME NEW q, Accept(r, q), q.step # "grant"
            PROVE  Goes(q)
        BY <4>1 DEF Accept
      <4>2. \E q : Accept(r, q) /\ q.step # "grant"
        <5>1. CASE RefreshGrant(r)
          <6>1. PICK c \in Clients, t \in Sessions :
                  Accept(r, [NoRequest EXCEPT !.step = "client", !.client = c, !.token = t, !.reply = "pending"])
            BY <5>1 DEF RefreshGrant
          <6>2. [NoRequest EXCEPT !.step = "client", !.client = c, !.token = t, !.reply = "pending"].step # "grant"
            BY DEF NoRequest
          <6>3. QED
            BY <6>1, <6>2
        <5>2. CASE APIOAuthRevoke(r)
          <6>1. PICK t \in Sessions :
                  Accept(r, [NoRequest EXCEPT !.step = "logout", !.token = t, !.reply = "pending"])
            BY <5>2 DEF APIOAuthRevoke
          <6>2. [NoRequest EXCEPT !.step = "logout", !.token = t, !.reply = "pending"].step # "grant"
            BY DEF NoRequest
          <6>3. QED
            BY <6>1, <6>2
        <5>3. CASE RevokeAllForUser(r)
          <6>1. PICK u \in Users :
                  Accept(r, [NoRequest EXCEPT !.step = "mark", !.user = u, !.reply = "pending"])
            BY <5>3 DEF RevokeAllForUser
          <6>2. [NoRequest EXCEPT !.step = "mark", !.user = u, !.reply = "pending"].step # "grant"
            BY DEF NoRequest
          <6>3. QED
            BY <6>1, <6>2
        <5>4. CASE APIRevokeConnectedApp(r)
          <6>1. PICK u \in Users, c \in Clients :
                  Accept(r, [NoRequest EXCEPT !.step = "disconnect", !.user = u, !.client = c, !.reply = "pending"])
            BY <5>4 DEF APIRevokeConnectedApp
          <6>2. [NoRequest EXCEPT !.step = "disconnect", !.user = u, !.client = c, !.reply = "pending"].step # "grant"
            BY DEF NoRequest
          <6>3. QED
            BY <6>1, <6>2
        <5>5. CASE AuthorizationCodeGrant(r)
          <6>1. PICK u \in Users, c \in Clients :
                  Accept(r, [NoRequest EXCEPT !.step = "grantClient", !.client = c, !.user = u, !.reply = "pending"])
            BY <5>5 DEF AuthorizationCodeGrant
          <6>2. [NoRequest EXCEPT !.step = "grantClient", !.client = c, !.user = u, !.reply = "pending"].step # "grant"
            BY DEF NoRequest
          <6>3. QED
            BY <6>1, <6>2
        <5>6. QED
          BY <3>4, <5>1, <5>2, <5>3, <5>4, <5>5 DEF TakeUpRequest, DisconnectApp, PresentCode
      <4> HIDE DEF Goes
      <4>3. QED
        BY <3>1, <4>1, <4>2
    <3>5. CASE AbandonRequest(r)
      <4>1. Answer(r, "error")
        BY <3>5 DEF AbandonRequest, Fail
      <4> HIDE DEF Goes
      <4>2. QED
        BY <3>1, <3>3, <4>1
    <3>6. CASE HandleRequest(r) /\ ~ReadSession(r) /\ ~SaveRotated(r)
      <4>1. \/ \E step \in {"read", "grantUser"} : Go(r, step)
            \/ \E reply : Answer(r, reply)
        BY <3>6 DEF HandleRequest, AuthenticateClient, MintAccessToken, RevokeSessionByRefreshHash,
           RevokeChild, RevokeReused, RevokeAllUserSessions, RevokeUserClientSessions
      <4> HIDE DEF Goes
      <4>2. QED
        BY <3>1, <3>2, <3>3, <4>1
    <3>7. ASSUME NEW q \in Request, AfterRotation(r, q)
          PROVE  \E p : Goes(p)
      <4>1. CASE Answer(r, "refused")
        BY <3>3, <4>1
      <4>2. CASE \E step \in {"user", "revokeChild"} : request' = [request EXCEPT ![r] = [q EXCEPT !.step = step]]
        <5>1. PICK step \in {"user", "revokeChild"} : request' = [request EXCEPT ![r] = [q EXCEPT !.step = step]]
          BY <4>2
        <5>2. Goes([q EXCEPT !.step = step])
          BY <5>1 DEF Request
        <5>3. QED
          BY <5>2
      <4>3. QED
        BY <3>7, <4>1, <4>2 DEF AfterRotation
    <3>8. CASE ReadSession(r)
      <4> DEFINE q == [request[r] EXCEPT !.row = session[request[r].token], !.at = now]
      <4>1. q \in Request
        <5>1. session[request[r].token] \in SessionRow /\ now \in Nat
          BY <3>8 DEF ReadSession, At, RefreshInv, Gathered
        <5>2. QED
          BY <1>0, <5>1 DEF Request
      <4>2. \/ Answer(r, "refused")
            \/ AfterRotation(r, q)
            \/ \E step \in {"reuse", "create"} : request' = [request EXCEPT ![r] = [q EXCEPT !.step = step]]
        BY <3>8 DEF ReadSession
      <4>3. ASSUME NEW step \in {"reuse", "create"}
            PROVE  [q EXCEPT !.step = step].step = step
        BY <4>1 DEF Request
      <4> HIDE DEF q
      <4>4. \E p : Goes(p)
        BY <3>3, <3>7, <4>1, <4>2, <4>3
      <4>5. QED
        BY <3>1, <4>4
    <3>9. CASE SaveRotated(r)
      <4>1. \E p : Goes(p)
        BY <1>0, <3>7, <3>9 DEF SaveRotated
      <4>2. QED
        BY <3>1, <4>1
    <3>10. QED
      BY <1>1, <3>4, <3>5, <3>6, <3>8, <3>9
  <2>4. \A q \in Requests \ {r} : request'[q] = request[q]
    BY <2>3
  <2>5. /\ \A q \in Requests \ {r} : flow'[q] = flow[q]
        /\ flow'[r] = flow[r] \/ flow'[r].step \notin {"redeem", "redeemed"}
           \/ PresentCode(r)
    BY <1>1 DEF TakeUpRequest, HandleRequest, AbandonRequest, DisconnectApp, PresentCode,
       FlowFollows, NoFlow
  <2>6. CASE ~PresentCode(r)
    BY <2>1, <2>2, <2>3, <2>4, <2>5, <2>6, CodesQuiet DEF IsIssued
  <2>7. CASE PresentCode(r)
    <3>1. PICK k \in Requests, b \in BOOLEAN :
            /\ IsIssued(k)
            /\ flow' = [flow EXCEPT ![r] = [NoFlow EXCEPT !.step = "redeem", !.code = k, !.bound = b]]
      BY <2>7 DEF PresentCode
    <3>2. flow'[r].step = "redeem" /\ flow'[r].code = k
      BY <3>1 DEF NoFlow
    <3>3. \A q \in Requests : FlowAt(q, "redeemed")' => q # r /\ FlowAt(q, "redeemed")
      BY <2>5, <3>2 DEF FlowAt
    <3>4. \A q \in Requests : At(q, "grant")' => q # r /\ At(q, "grant")
      BY <2>3, <2>4 DEF At, Pending
    <3>5. \A s \in Sessions : Exists(s)' => born'[s] \in Requests /\ IsIssued(born'[s]) /\ code[born'[s]].used
      BY <2>1, <2>2 DEF CodesFit
    <3>6. \A q \in Requests : FlowAt(q, "redeem")' \/ FlowAt(q, "redeemed")' =>
              flow'[q].code \in Requests /\ IsIssued(flow'[q].code)
      BY <2>5, <3>1, <3>2 DEF CodesFit, FlowAt
    <3>7. ASSUME NEW q \in Requests, FlowAt(q, "redeemed")'
          PROVE  /\ code[flow'[q].code].used
                 /\ \A s \in Sessions : Exists(s)' => born'[s] # flow'[q].code
                 /\ \A p \in Requests \ {q} : FlowAt(p, "redeemed")' => flow'[p].code # flow'[q].code
      BY <2>1, <2>2, <2>5, <3>3, <3>7 DEF CodesFit
    <3>8. ASSUME NEW q \in Requests, At(q, "grant")'
          PROVE  FlowAt(q, "redeemed")' /\ flow'[q].bound /\ code[flow'[q].code].client = request'[q].client
      BY <2>4, <2>5, <3>4, <3>8 DEF CodesFit, FlowAt, IsBound
    <3>9. QED
      BY <2>1, <3>5, <3>6, <3>7, <3>8 DEF CodesFit, IsIssued, IsBound
  <2>8. QED
    BY <2>6, <2>7
<1>2. CASE ConsumeAuthorizationCode(r)
  <2> DEFINE k == flow[r].code
  <2>1. /\ k \in Requests /\ IsIssued(k)
        /\ UNCHANGED <<session, born>>
        /\ \A q \in Requests \ {r} : flow'[q] = flow[q] /\ request'[q] = request[q]
        /\ ~At(r, "grant")'
    <3>1. k \in Requests /\ IsIssued(k) /\ UNCHANGED <<session, born>>
      BY <1>2 DEF ConsumeAuthorizationCode, CodesFit, oauthHistory
    <3>2. \A q \in Requests \ {r} : flow'[q] = flow[q] /\ request'[q] = request[q]
      BY <1>2 DEF ConsumeAuthorizationCode, FlowTo, EndFlow, Answer
    <3>3. ~At(r, "grant")'
      BY <1>2 DEF ConsumeAuthorizationCode, Answer, NoRequest, At, Pending
    <3>4. QED
      BY <3>1, <3>2, <3>3
  <2>2. CASE EndFlow(r) /\ code' = code
    <3>1. flow'[r].step = "over"
      BY <2>2 DEF EndFlow, NoFlow
    <3>2. QED
      BY <2>1, <2>2, <3>1, CodesQuiet DEF IsIssued, Exists
  <2>3. CASE /\ ~code[k].used
             /\ code' = [code EXCEPT ![k].used = TRUE] /\ FlowTo(r, "redeemed")
    <3>1. /\ code'[k] = [code[k] EXCEPT !.used = TRUE] /\ code[k] \in CodeRow
          /\ \A j \in Requests : j # k => code'[j] = code[j]
      BY <2>1, <2>3 DEF IsIssued
    <3>2. code'[k].used /\ code'[k].client = code[k].client /\ code'[k] # NoCode
      BY <2>1, <3>1 DEF CodeRow, TokenKeeps, IsIssued
    <3>3. flow'[r].step = "redeemed" /\ flow'[r].code = k
      BY <1>0, <2>3 DEF FlowTo, Flow
    <3>4. ASSUME NEW j \in Requests, IsIssued(j)
          PROVE  /\ code'[j] # NoCode /\ code'[j].client = code[j].client
                 /\ code[j].used => code'[j].used
      BY <3>1, <3>2, <3>4 DEF IsIssued
    <3> HIDE DEF k
    <3>5. ASSUME NEW s \in Sessions, Exists(s)'
          PROVE  /\ born'[s] \in Requests /\ code'[born'[s]] # NoCode /\ code'[born'[s]].used
                 /\ born'[s] # k
      BY <2>1, <2>3, <3>4, <3>5 DEF CodesFit, Exists
    <3>6. ASSUME NEW q \in Requests, FlowAt(q, "redeem")' \/ FlowAt(q, "redeemed")'
          PROVE  flow'[q].code \in Requests /\ code'[flow'[q].code] # NoCode
      BY <2>1, <3>3, <3>4, <3>6 DEF CodesFit, FlowAt
    <3>7. ASSUME NEW q \in Requests \ {r}, FlowAt(q, "redeemed")'
          PROVE  flow'[q].code # k /\ code'[flow'[q].code].used /\ FlowAt(q, "redeemed")
      BY <2>1, <2>3, <3>4, <3>7 DEF CodesFit, FlowAt
    <3>8. ASSUME NEW q \in Requests, FlowAt(q, "redeemed")'
          PROVE  /\ code'[flow'[q].code].used
                 /\ \A s \in Sessions : Exists(s)' => born'[s] # flow'[q].code
                 /\ \A p \in Requests \ {q} : FlowAt(p, "redeemed")' => flow'[p].code # flow'[q].code
      <4>1. CASE q = r
        BY <3>2, <3>3, <3>5, <3>7, <3>8, <4>1
      <4>2. CASE q # r
        <5>1. flow'[q].code # k /\ code'[flow'[q].code].used /\ FlowAt(q, "redeemed") /\ flow'[q] = flow[q]
          BY <2>1, <3>7, <3>8, <4>2
        <5>2. \A s \in Sessions : Exists(s)' => born'[s] # flow'[q].code
          BY <2>1, <5>1 DEF CodesFit, Exists
        <5>3. \A p \in Requests \ {q} : FlowAt(p, "redeemed")' => flow'[p].code # flow'[q].code
          BY <2>1, <3>3, <3>7, <5>1 DEF CodesFit
        <5>4. QED
          BY <5>1, <5>2, <5>3
      <4>3. QED
        BY <4>1, <4>2
    <3>9. ASSUME NEW q \in Requests, At(q, "grant")'
          PROVE  FlowAt(q, "redeemed")' /\ flow'[q].bound /\ code'[flow'[q].code].client = request'[q].client
      <4>1. q # r /\ At(q, "grant") /\ flow'[q] = flow[q] /\ request'[q] = request[q]
        BY <2>1, <3>9 DEF At, Pending
      <4>2. QED
        BY <3>4, <4>1 DEF CodesFit, FlowAt, IsBound
    <3>10. QED
      BY <3>5, <3>6, <3>8, <3>9 DEF CodesFit, IsIssued, IsBound
  <2>4. QED
    BY <1>2, <2>2, <2>3 DEF ConsumeAuthorizationCode, IsRedeemable
<1>3. CASE RedeemCode(r)
  <2>1. /\ UNCHANGED <<session, code, born>>
        /\ FlowAt(r, "redeemed")
        /\ request' = [request EXCEPT ![r] = request'[r]]
        /\ flow' = [flow EXCEPT ![r] = flow'[r]]
    BY <1>3 DEF RedeemCode, oauthTables, oauthHistory, ReadGrantUser, Go, Answer, FlowFollows
  <2>2. CASE request'[r].reply = "pending"
    <3>1. flow' = flow /\ IsBound(request[r], flow[r])
      BY <1>3, <2>2 DEF RedeemCode, FlowFollows
    <3>2. request'[r].client = request[r].client
      <4>1. CASE Go(r, "grant")
        BY <1>0, <4>1 DEF Go, Request
      <4>2. CASE Answer(r, "refused")
        BY <2>2, <4>2 DEF Answer, NoRequest
      <4>3. QED
        BY <1>3, <4>1, <4>2 DEF RedeemCode, ReadGrantUser
    <3>3. QED
      BY <2>1, <3>1, <3>2, CodesQuiet DEF IsIssued, Exists
  <2>3. CASE request'[r].reply # "pending"
    <3>1. flow'[r].step = "over"
      BY <1>3, <2>3 DEF RedeemCode, FlowFollows, NoFlow
    <3>2. ~At(r, "grant")'
      BY <2>3 DEF At, Pending
    <3>3. QED
      BY <2>1, <3>1, <3>2, CodesQuiet DEF IsIssued, Exists
  <2>4. QED
    BY <2>2, <2>3
<1>4. CASE StartSession(r) \/ RotateSession(r)
  <2>1. UNCHANGED code
    BY <1>4 DEF StartSession, RotateSession, oauthTables
  <2>2. PICK k \in Requests :
          /\ SessionsStartWith(k)
          /\ IsIssued(k) /\ code[k].used
          /\ \A q \in Requests : FlowAt(q, "redeemed")' => flow[q].code # k
    <3>1. CASE StartSession(r)
      <4>1. At(r, "grant") /\ SessionsStartWith(flow[r].code) /\ flow'[r].step = "over"
        BY <3>1 DEF StartSession, IssueTokenResponse, Answer, FlowFollows, NoFlow, NoRequest
      <4>2. \A q \in Requests \ {r} : flow'[q] = flow[q]
        BY <3>1 DEF StartSession, FlowFollows
      <4>3. FlowAt(r, "redeemed")
        BY <4>1 DEF CodesFit
      <4>4. QED
        BY <4>1, <4>2, <4>3 DEF CodesFit, FlowAt
    <3>2. CASE RotateSession(r)
      <4>1. request[r].token \in Sessions /\ Exists(request[r].token) /\ flow' = flow
        BY <3>2 DEF RotateSession, CreateChild, At, RefreshInv, Gathered, Exists
      <4>2. QED
        BY <3>2, <4>1 DEF RotateSession, CodesFit, FlowAt
    <3>3. QED
      BY <1>4, <3>1, <3>2
  <2>3. ASSUME NEW s \in Sessions, Exists(s)'
        PROVE  \/ Exists(s) /\ born'[s] = born[s]
               \/ born'[s] = k
    BY <2>2, <2>3 DEF SessionsStartWith, Exists
  <2>4. /\ \A q \in Requests \ {r} : flow'[q] = flow[q] /\ request'[q] = request[q]
        /\ ~At(r, "grant")'
        /\ flow'[r] = flow[r] \/ flow'[r].step \notin {"redeem", "redeemed"}
    <3>1. CASE StartSession(r)
      BY <3>1 DEF StartSession, IssueTokenResponse, Answer, FlowFollows, NoFlow, NoRequest, At, Pending
    <3>2. CASE RotateSession(r)
      <4>1. request'[r].step = "save" /\ flow' = flow
        BY <1>0, <3>2 DEF RotateSession, CreateChild, Request
      <4>2. QED
        BY <3>2, <4>1 DEF RotateSession, CreateChild, At
    <3>3. QED
      BY <1>4, <3>1, <3>2
  <2>5. ASSUME NEW s \in Sessions, Exists(s)'
        PROVE  /\ born'[s] \in Requests /\ IsIssued(born'[s]) /\ code[born'[s]].used
               /\ \A q \in Requests : FlowAt(q, "redeemed")' => born'[s] # flow[q].code
    BY <2>2, <2>3, <2>4, <2>5 DEF CodesFit, FlowAt
  <2>6. ASSUME NEW q \in Requests, FlowAt(q, "redeem")' \/ FlowAt(q, "redeemed")'
        PROVE  flow'[q] = flow[q]
    BY <2>4, <2>6 DEF FlowAt
  <2>7. ASSUME NEW q \in Requests, At(q, "grant")'
        PROVE  FlowAt(q, "redeemed")' /\ flow'[q].bound /\ code[flow'[q].code].client = request'[q].client
    <3>1. q # r /\ At(q, "grant") /\ flow'[q] = flow[q] /\ request'[q] = request[q]
      BY <2>4, <2>7 DEF At, Pending
    <3>2. QED
      BY <3>1 DEF CodesFit, FlowAt, IsBound
  <2>8. ASSUME NEW q \in Requests, FlowAt(q, "redeemed")'
        PROVE  /\ code[flow'[q].code].used
               /\ \A s \in Sessions : Exists(s)' => born'[s] # flow'[q].code
               /\ \A p \in Requests \ {q} : FlowAt(p, "redeemed")' => flow'[p].code # flow'[q].code
    <3>1. flow'[q] = flow[q] /\ FlowAt(q, "redeemed")
      BY <2>6, <2>8 DEF FlowAt
    <3>2. \A p \in Requests : FlowAt(p, "redeemed")' => flow'[p] = flow[p] /\ FlowAt(p, "redeemed")
      BY <2>6 DEF FlowAt
    <3>3. QED
      BY <2>5, <2>8, <3>1, <3>2 DEF CodesFit
  <2>9. \A q \in Requests : FlowAt(q, "redeem")' \/ FlowAt(q, "redeemed")' =>
            flow'[q].code \in Requests /\ IsIssued(flow'[q].code)
    BY <2>6 DEF CodesFit, FlowAt
  <2>10. QED
    BY <2>1, <2>5, <2>7, <2>8, <2>9 DEF CodesFit, IsIssued, IsBound
<1>5. CASE RevokeConsent(r) \/ SignOutEverywhere(r)
  <2>1. PICK why \in Causes, C \in {Clients, {request[r].client}} :
          /\ code' = OvertakenCodes(why, request[r].user, C)
          /\ \/ flow' = OvertakenFlows(why, request[r].user, C)
             \/ flow' = [OvertakenFlows(why, request[r].user, C) EXCEPT ![r].step = "over"]
    BY <1>5 DEF RevokeConsent, SignOutEverywhere, Causes
  <2> DEFINE flows == OvertakenFlows(why, request[r].user, C)
  <2>2. /\ flows \in [Requests -> Flow]
        /\ \A q \in Requests : /\ flows[q].step = flow[q].step /\ flows[q].code = flow[q].code
                                 /\ flows[q].bound = flow[q].bound
    <3>1. request[r].user \in Users
      BY <1>5 DEF RevokeConsent, SignOutEverywhere, SetUserSessionsInvalidatedAt, At,
         RefreshInv, Gathered
    <3>2. flows \in [Requests -> Flow]
      BY <3>1, OvertakenTypes
    <3>3. ASSUME NEW q \in Requests
          PROVE  /\ flows[q].step = flow[q].step /\ flows[q].code = flow[q].code
                 /\ flows[q].bound = flow[q].bound
      <4>1. flow[q] \in Flow
        OBVIOUS
      <4>2. QED
        BY <4>1 DEF OvertakenFlows, Flow
    <3>4. QED
      BY <3>2, <3>3
  <2> HIDE DEF flows
  <2>3. /\ \A q \in Requests \ {r} : /\ flow'[q].step = flow[q].step /\ flow'[q].code = flow[q].code
                                      /\ flow'[q].bound = flow[q].bound
        /\ \/ /\ flow'[r].step = flow[r].step /\ flow'[r].code = flow[r].code
              /\ flow'[r].bound = flow[r].bound
           \/ flow'[r].step = "over"
    <3>1. CASE flow' = flows
      BY <2>2, <3>1
    <3>2. CASE flow' = [flows EXCEPT ![r].step = "over"]
      <4>1. flows[r] \in Flow
        BY <2>2
      <4>2. QED
        BY <2>2, <3>2, <4>1 DEF Flow
    <3>3. QED
      BY <2>1, <3>1, <3>2 DEF flows
  <2>4. ASSUME NEW k \in Requests, IsIssued(k)
        PROVE  IsIssued(k)' /\ code'[k].used = code[k].used /\ code'[k].client = code[k].client
    <3>1. code[k] \in CodeRow
      BY <2>4 DEF IsIssued
    <3>2. code'[k].used = code[k].used
      BY <2>1, <3>1 DEF OvertakenCodes, CodeRow
    <3>3. QED
      BY <2>4, <3>2 DEF TokenKeeps, CodeKept
  <2>5. /\ UNCHANGED <<session, born>>
        /\ \A q \in Requests \ {r} : request'[q] = request[q]
        /\ ~At(r, "grant")'
    <3>1. CASE RevokeConsent(r)
      BY <3>1 DEF RevokeConsent, refreshVars, oauthHistory, At, Pending
    <3>2. CASE SignOutEverywhere(r)
      <4>1. request'[r].step = "revokeAll"
        BY <1>0, <3>2 DEF SignOutEverywhere, SetUserSessionsInvalidatedAt, Go, Request
      <4>2. QED
        BY <3>2, <4>1 DEF SignOutEverywhere, SetUserSessionsInvalidatedAt, Go, oauthHistory, At
    <3>3. QED
      BY <1>5, <3>1, <3>2
  <2>6. \A s \in Sessions : Exists(s)' <=> Exists(s)
    BY <2>5 DEF Exists
  <2>7. QED
    BY <2>3, <2>4, <2>5, <2>6, CodesQuiet
<1>6. QED
  BY <1>1, <1>2, <1>3, <1>4, <1>5 DEF TokenStep

-----------------------------------------------------------------------------
(* The invariant, and what follows from it.                                 *)

\* What there is at the start satisfies the invariant.
LEMMA OAuthInitEstablishes == OAuthInit => OAuthInv
<1> SUFFICES ASSUME OAuthInit PROVE OAuthInv
  OBVIOUS
<1> USE OAuthSeedAssumption, OAuthAssumption, RefreshAssumption
<1>1. RefreshInv
  BY InitEstablishes DEF OAuthInit
<1>2. /\ login = SeedLogins /\ consent = SeedConsents /\ code = SeedCode /\ born = SeedBorn
      /\ agreed = SeedAgreed /\ session = SeedSession
      /\ \A r \in Requests : request[r] = NoRequest
      /\ \A u \in Users : invalidatedAt[u] = None
  BY DEF OAuthInit, RefreshInit
<1>3. \A r \in Requests : flow[r] = IF IsIssued(r) THEN [NoFlow EXCEPT !.step = "over"] ELSE NoFlow
  BY DEF OAuthInit
<1>4. \A r \in Requests : /\ flow[r].step = IF IsIssued(r) THEN "over" ELSE "none"
                          /\ flow[r].row = NoConsent
  BY <1>3 DEF NoFlow
<1>5. OAuthTypeOK
  <2>1. NoFlow \in Flow /\ [NoFlow EXCEPT !.step = "over"] \in Flow
    BY DEF NoFlow, NoLogin, NoConsent, Flow
  <2>2. flow \in [Requests -> Flow]
    BY <2>1 DEF OAuthInit
  <2>3. QED
    BY <1>1, <1>2, <2>2 DEF OAuthTypeOK, RefreshInv, Exists, IsIssued
<1>6. /\ LoginsFit /\ FlowsFit
      /\ FlowsSignedIn /\ FlowsAgreed /\ FlowsConsented
  BY <1>2, <1>4 DEF LoginsFit, FlowsFit, FlowsSignedIn, FlowsAgreed, FlowsConsented, FlowAt,
     AskSteps, CheckedSteps, PostedSteps
<1>7. ConsentsAgreed /\ ScopesWereAgreedTo /\ OnlyOvertakenCodesLackConsent
  BY <1>2 DEF ConsentsAgreed, HasAgreed, ScopesWereAgreedTo, OnlyOvertakenCodesLackConsent, IsIssued
<1>8. SignedOutLoginsOpenNothing
  <2>1. \A k \in Requests : IsIssued(k) => code[k].user \in Users
    BY <1>5 DEF OAuthTypeOK, IsIssued, CodeRow
  <2>2. QED
    BY <1>2, <2>1 DEF SignedOutLoginsOpenNothing
<1>9. RowsFit
  <2>1. \A k \in HeldRows : k \in consent \/ k = NoConsent
    BY <1>4 DEF HeldRows
  <2>2. \A k \in consent : k.id \in Requests /\ IsIssued(k.id) /\ k # NoConsent /\ NoConsent.id = None
    BY <1>2 DEF ConsentRow, NoConsent, IsIssued
  <2>3. \A j \in HeldRows, k \in HeldRows : j.id = k.id => SameApp(j, k)
    BY <1>2, <2>1, <2>2 DEF SameApp
  <2>4. \A k \in HeldRows : k # NoConsent => flow[k.id].step \in {"issue", "over"}
    BY <1>4, <2>1, <2>2
  <2>5. QED
    BY <1>4, <2>3, <2>4 DEF RowsFit, FlowAt
<1>10. CodesFit
  <2>1. \A r \in Requests : ~At(r, "grant")
    BY <1>2 DEF At, Pending, NoRequest
  <2>2. QED
    BY <1>2, <1>4, <2>1 DEF CodesFit, FlowAt, Exists, IsIssued
<1>11. QED
  BY <1>1, <1>5, <1>6, <1>7, <1>8, <1>9, <1>10 DEF OAuthInv

\* Every step of a request keeps it.
LEMMA RequestPreserves ==
    ASSUME OAuthInv, NEW r \in Requests, AuthorizationStep(r) \/ TokenStep(r)
    PROVE  OAuthInv'
<1> USE DEF OAuthInv
<1>1. RefreshInv' /\ \A s \in Sessions : Exists(s) => Exists(s)'
  BY AuthorizationStutters, TokenStepsRefine, SessionsStay DEF RefreshNext
<1>2. RefreshTypeOK'
  BY <1>1 DEF RefreshInv
<1>3. CASE AuthorizationStep(r)
  <2>1. AskKeeps(r)
    BY <1>3, AuthorizationFrame
  <2>2. OAuthTypeOK'
    BY <1>2, <1>3, AuthorizationTypes
  <2>3. QED
    BY <1>1, <1>3, <2>1, <2>2, FitStep, AgreedStep, RowsStep, ConsentedStep, SignedInStep,
       CodesAuthorization
<1>4. CASE TokenStep(r)
  <2>1. TokenKeeps
    BY <1>4, TokenFrame
  <2>2. OAuthTypeOK'
    BY <1>1, <1>2, <1>4, TokenTypes
  <2>3. QED
    BY <1>1, <1>4, <2>1, <2>2, FitStep, AgreedStep, RowsStep, ConsentedStep, SignedInStep,
       CodesToken
<1>5. QED
  BY <1>3, <1>4

\* Logins and the environment keep it.
LEMMA OtherwisePreserves ==
    ASSUME OAuthInv, [OAuthNext]_oauthVars,
           Login \/ Environment \/ UNCHANGED oauthVars
    PROVE  OAuthInv'
<1> USE DEF OAuthInv, OAuthTypeOK
<1>1. RefreshInv'
  BY StepRefines, SessionsStay
<1>2. /\ UNCHANGED <<session, request, invalidatedAt>>
      /\ UNCHANGED <<consent, code, flow, born, agreed>>
      /\ login \subseteq login'
  BY DEF Login, Environment, DisableUser, DisableOAuthClient, Tick, oauthVars, refreshVars,
     oauthTables, oauthHistory
<1>3. login' \subseteq LoginRow /\ LoginsFit'
  <2>1. CASE Login
    <3>1. PICK u \in Users : login' = login \cup {NewLogin(u)}
      BY <2>1 DEF Login
    <3>2. now \in Nat /\ now % Second \in 0..now
      <4>1. now \in Nat /\ Second \in Nat \ {0}
        BY OAuthAssumption DEF RefreshTypeOK
      <4>2. QED
        BY <4>1
    <3>3. NewLogin(u) \in LoginRow /\ NewLogin(u).issued <= NewLogin(u).made
      BY <3>2 DEF NewLogin, LoginRow
    <3>4. QED
      BY <3>1, <3>3 DEF LoginsFit
  <2>2. CASE login' = login
    BY <2>2 DEF LoginsFit
  <2>3. QED
    BY <2>1, <2>2 DEF Environment, oauthVars, oauthTables
<1>4. OAuthTypeOK'
  BY <1>1, <1>2, <1>3 DEF RefreshInv, Exists, IsIssued
<1>5. FlowsFit' /\ FlowsSignedIn' /\ FlowsAgreed' /\ FlowsConsented'
  BY <1>2 DEF FlowsFit, FlowsSignedIn, FlowsAgreed, FlowsConsented, FlowAt, IsIssued
<1>6. RowsFit'
  BY <1>2 DEF RowsFit, HeldRows, FlowAt
<1>7. CodesFit'
  BY <1>2 DEF CodesFit, FlowAt, At, Pending, Exists, IsIssued, IsBound
<1>8. /\ ConsentsAgreed' /\ ScopesWereAgreedTo' /\ OnlyOvertakenCodesLackConsent'
      /\ SignedOutLoginsOpenNothing'
  BY <1>2 DEF ConsentsAgreed, ScopesWereAgreedTo, OnlyOvertakenCodesLackConsent,
     SignedOutLoginsOpenNothing, IsIssued
<1>9. QED
  BY <1>1, <1>3, <1>4, <1>5, <1>6, <1>7, <1>8

\* The invariant the theorems rest on holds of every reachable state.
THEOREM OAuthInvariant == OAuthSpec => []OAuthInv
<1>1. OAuthInit => OAuthInv
  BY OAuthInitEstablishes
<1>2. OAuthInv /\ [OAuthNext]_oauthVars => OAuthInv'
  BY RequestPreserves, OtherwisePreserves DEF OAuthNext
<1>3. QED
  BY <1>1, <1>2, PTL DEF OAuthSpec

\* Every cookie, consent, code and flow is of its type, and a session goes back
\* to a code that was issued.
THEOREM OAuthTypeCorrect == OAuthSpec => []OAuthTypeOK
<1>1. OAuthInv => OAuthTypeOK
  BY DEF OAuthInv
<1>2. QED
  BY <1>1, OAuthInvariant, PTL

\* Whatever its requests and consent forms overlap with, an app holds no code for
\* scopes but those its user agreed to in one form.
THEOREM ScopesAlwaysAgreedTo == OAuthSpec => []ScopesWereAgreedTo
<1>1. OAuthInv => ScopesWereAgreedTo
  BY DEF OAuthInv
<1>2. QED
  BY <1>1, OAuthInvariant, PTL

\* A code that lacks a consent is one whose withdrawal overtook it.
THEOREM ConsentUnlessOvertaken == OAuthSpec => []OnlyOvertakenCodesLackConsent
<1>1. OAuthInv => OnlyOvertakenCodesLackConsent
  BY DEF OAuthInv
<1>2. QED
  BY <1>1, OAuthInvariant, PTL

\* The cut of the issue time to seconds never lets a login outlive the sign-out
\* of its user.
THEOREM LoginsSignedOut == OAuthSpec => []SignedOutLoginsOpenNothing
<1>1. OAuthInv => SignedOutLoginsOpenNothing
  BY DEF OAuthInv
<1>2. QED
  BY <1>1, OAuthInvariant, PTL

\* A code starts one line of sessions at most, for its own client, with proof.
THEOREM CodesRedeemedOnce == OAuthSpec => CodesStartOneLine
<1>1. OAuthInv =>
        [\A r \in Requests : At(r, "grant") /\ session' # session /\ request'[r] # request[r] =>
            /\ ~\E s \in Sessions : Exists(s) /\ born[s] = flow[r].code
            /\ flow[r].bound
            /\ code[flow[r].code].client = request[r].client]_oauthVars
  BY DEF OAuthInv, CodesFit, IsBound
<1>2. QED
  BY <1>1, OAuthInvariant, PTL DEF CodesStartOneLine

\* What was proved of the sessions alone holds of them in the authorization
\* server: its rotations leave linked pairs behind.
THEOREM OAuthRotationIsLinked == OAuthSpec => []RotationIsLinked
BY OAuthImplementsSessions, RotationAlwaysLinked, PTL

\* And nothing the authorization server does makes a revoked session active again.
THEOREM OAuthRevocationIsFinal == OAuthSpec => RevocationIsFinal
BY OAuthImplementsSessions, RevocationFinal, PTL

\* And its refresh grant serves a token's own client alone.
THEOREM OAuthServesItsClient == OAuthSpec => OnlyItsClientIsServed
BY OAuthImplementsSessions, ClientAlwaysMatches, PTL

=============================================================================
