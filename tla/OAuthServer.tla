----------------------------- MODULE OAuthServer -----------------------------
(***************************************************************************)
(* The authorization server: browser logins, authorization codes and the    *)
(* consent of users to apps, composed with the refresh sessions that codes  *)
(* start.                                                                   *)
(*                                                                          *)
(* A token or sign-out request is a request of RefreshSessions; what it     *)
(* does beside the sessions, and the requests to the authorization endpoint *)
(* and its consent form, are kept in flow.  A code is named by the request  *)
(* that issued it, and so is a row of consents by the one that created it.  *)
(*                                                                          *)
(* A request that is refused for its parameters (redirect URI, response     *)
(* type, resource, client secret) or held up by the gates of a login        *)
(* (verification, second factor) changes nothing: it stands under           *)
(* AbandonFlow.                                                             *)
(***************************************************************************)
EXTENDS RefreshSessions

CONSTANTS
    Scopes,
    CodeTTL,         \* authorizationCodeTTL
    SSOTokenValid,   \* SSOTokenValidDuration
    Second,          \* ticks in a second, the precision of a token's issue time
    SeedLogins, SeedCode, SeedConsents, SeedBorn, SeedAgreed

ASSUME OAuthAssumption ==
    /\ CodeTTL \in Nat
    /\ SSOTokenValid \in Nat
    /\ Second \in Nat \ {0}
    /\ None \notin Requests

VARIABLES
    login,           \* the SSO cookies handed out
    consent,         \* rows of o_auth_consents that are not deleted
    code,            \* code[r]: the authorization code r issued, or NoCode
    flow,            \* flow[r]: what r does beside the sessions
    born,            \* history: born[s], the code the session s goes back to
    agreed           \* history: the scopes users agreed to in a consent form

oauthTables == <<login, consent, code>>
oauthHistory == <<born, agreed>>
oauthVars == <<refreshVars, oauthTables, flow, oauthHistory>>

\* A cookie: whose it is, the whole second it was issued in and, as history, when
\* it really was.
NoLogin == [user |-> None, issued |-> 0, made |-> 0]
LoginRow == [user: Users, issued: Nat, made: Nat]

\* Two rows of one user and one client.
SameApp(a, b) == a.user = b.user /\ a.client = b.client

NoConsent == [id |-> None, user |-> None, client |-> None, scopes |-> {}]
ConsentRow == [id: Requests, user: Users, client: Clients, scopes: SUBSET Scopes]

\* What overtakes a request or a code: its consent is withdrawn, its user is
\* signed out everywhere.  A history of that is kept in stale.
Causes == {"withdrawal", "signOut"}

NoCode == [user |-> None, client |-> None, scopes |-> {}, issued |-> 0,
           used |-> FALSE, made |-> 0, stale |-> {}]
CodeRow == [user: Users, client: Clients, scopes: SUBSET Scopes, issued: Nat,
            used: BOOLEAN, made: Nat, stale: SUBSET Causes]

\* At the start a session goes back to a code that was used, and a code to a
\* consent, which goes back to a consent form.
ASSUME OAuthSeedAssumption ==
    /\ SeedLogins \subseteq LoginRow
    /\ \A l \in SeedLogins : l.issued <= l.made
    /\ SeedConsents \subseteq ConsentRow
    /\ SeedCode \in [Requests -> CodeRow \cup {NoCode}]
    /\ SeedBorn \in [Sessions -> Requests \cup {None}]
    /\ SeedAgreed \subseteq [user: Users, client: Clients, scopes: SUBSET Scopes]
    /\ \A s \in Sessions : SeedSession[s].user # None =>
          SeedBorn[s] # None /\ SeedCode[SeedBorn[s]] # NoCode /\ SeedCode[SeedBorn[s]].used
    /\ \A r \in Requests : SeedCode[r] # NoCode /\ SeedCode[r].client # FirstParty =>
          /\ \E k \in SeedConsents : SameApp(k, SeedCode[r])
          /\ \E a \in SeedAgreed : SameApp(a, SeedCode[r]) /\ SeedCode[r].scopes \subseteq a.scopes
    /\ \A k \in SeedConsents :
          /\ SeedCode[k.id] # NoCode
          /\ \A other \in SeedConsents : other.id = k.id => other = k
          /\ \E a \in SeedAgreed : SameApp(a, k) /\ k.scopes \subseteq a.scopes

(***************************************************************************)
(* A flow: the cookie and the parameters of a request for a code, the row   *)
(* of consents it read; or the code that a token request presents and       *)
(* whether its redirect URI and its PKCE verifier are those of the code.    *)
(***************************************************************************)
NoFlow == [step |-> "none", login |-> NoLogin, client |-> None, scopes |-> {},
           row |-> NoConsent, stale |-> {}, code |-> None, bound |-> FALSE]
Flow ==
    [step: {"none", "authorizeClient", "authorizeUser", "readConsent", "formUser",
            "formClient", "findConsent", "createConsent", "saveConsent", "issue",
            "redeem", "redeemed", "withdraw", "over"},
     login: LoginRow \cup {NoLogin}, client: Clients \cup {None},
     scopes: SUBSET Scopes, row: ConsentRow \cup {NoConsent},
     stale: SUBSET Causes, code: Requests \cup {None}, bound: BOOLEAN]

FlowAt(r, step) == flow[r].step = step
InFlow(r) == flow[r].step \notin {"none", "over"}
FlowTo(r, step) == flow' = [flow EXCEPT ![r].step = step]
EndFlow(r) == flow' = [flow EXCEPT ![r] = [NoFlow EXCEPT !.step = "over"]]

\* The flow of a token request ends with it.
FlowFollows(r) ==
    flow' = IF request'[r].reply = "pending" THEN flow
            ELSE [flow EXCEPT ![r] = [NoFlow EXCEPT !.step = "over"]]

IsIssued(k) == code[k] # NoCode

\* A request of either kind can be taken up.
Free(r) ==
    /\ request[r] = NoRequest
    /\ flow[r] = NoFlow
    /\ Cardinality({p \in Requests : Pending(p) \/ InFlow(p)}) < MaxInFlight

-----------------------------------------------------------------------------
(* Logging in a browser.                                                    *)

\* issueSSOSession: the token's issue time is cut to whole seconds.
NewLogin(u) == [user |-> u, issued |-> now - (now % Second), made |-> now]

Login ==
    /\ \E u \in Users :
        /\ userEnabled[u]
        /\ NewLogin(u) \notin login
        /\ login' = login \cup {NewLogin(u)}
    /\ UNCHANGED <<refreshVars, consent, code, flow, oauthHistory>>

\* Mutation: the logout marker is cut to whole seconds as well.
SSOUserOfTheSecond(l) ==
    /\ now <= l.issued + SSOTokenValid
    /\ userEnabled[l.user]
    /\ invalidatedAt[l.user] # None =>
          l.issued >= invalidatedAt[l.user] - (invalidatedAt[l.user] % Second)

\* The cookie has not expired, and was issued no earlier than its user was last
\* signed out everywhere.
ResolvesSSOUser(l) ==
    /\ now <= l.issued + SSOTokenValid
    /\ userEnabled[l.user]
    /\ invalidatedAt[l.user] # None => l.issued >= invalidatedAt[l.user]

-----------------------------------------------------------------------------
(* The authorization endpoint.                                              *)

RequestCode(r, step, l, c, S) ==
    /\ Free(r)
    /\ flow' = [flow EXCEPT ![r] = [NoFlow EXCEPT !.step = step, !.login = l,
                                                  !.client = c, !.scopes = S]]
    /\ UNCHANGED <<refreshVars, oauthTables, born>>

APIOAuthAuthorize(r) ==
    /\ \E l \in login, c \in Clients, S \in SUBSET Scopes \ {{}} :
          RequestCode(r, "authorizeClient", l, c, S)
    /\ UNCHANGED agreed

\* The checks of both handlers: one that does not hold ends the request.
FlowCheck(r) ==
    /\ LET Passes(holds, step) == IF holds THEN FlowTo(r, step) ELSE EndFlow(r)
           f == flow[r]
       IN \/ /\ FlowAt(r, "authorizeClient")
             /\ Passes(clientEnabled[f.client], "authorizeUser")
          \/ /\ FlowAt(r, "authorizeUser")
             /\ Passes(ResolvesSSOUser(f.login),
                       IF f.client = FirstParty THEN "issue" ELSE "readConsent")
          \/ /\ FlowAt(r, "formUser")
             /\ Passes(ResolvesSSOUser(f.login), "formClient")
          \/ /\ FlowAt(r, "formClient")
             /\ Passes(clientEnabled[f.client], "findConsent")
    /\ UNCHANGED <<refreshVars, oauthTables, oauthHistory>>

ConsentsOf(u, c) == {k \in consent : k.user = u /\ k.client = c}

\* Mutation: having a consent is enough.
CoversSome(k, S) == k.scopes # {}
Covers(k, S) == S \subseteq k.scopes

\* Without a consent that covers the scopes the answer is the consent page, and
\* its form another request.
GetConsent(r) ==
    /\ FlowAt(r, "readConsent")
    /\ LET f == flow[r]
           rows == ConsentsOf(f.login.user, f.client)
       IN IF rows = {} THEN EndFlow(r)
          ELSE \E k \in rows : IF Covers(k, f.scopes) THEN FlowTo(r, "issue") ELSE EndFlow(r)
    /\ UNCHANGED <<refreshVars, oauthTables, oauthHistory>>

\* The consent form is submitted, with the parameters its browser posts.
APIOAuthConsent(r) ==
    \E l \in login, c \in Clients, S \in SUBSET Scopes \ {{}} :
        /\ RequestCode(r, "formUser", l, c, S)
        /\ agreed' = agreed \cup {[user |-> l.user, client |-> c, scopes |-> S]}

\* Mutation: an update, which does not mind that there is no row.
UpdateOf(rows) == IF rows = {} THEN "issue" ELSE "saveConsent"
UpsertOf(rows) == IF rows = {} THEN "createConsent" ELSE "saveConsent"

\* UpsertConsent: find, then create a row or save the one that was found.
FindConsent(r) ==
    /\ FlowAt(r, "findConsent")
    /\ LET rows == ConsentsOf(flow[r].login.user, flow[r].client)
       IN \E k \in IF rows = {} THEN {NoConsent} ELSE rows :
             flow' = [flow EXCEPT ![r].step = UpsertOf(rows), ![r].row = k]
    /\ UNCHANGED <<refreshVars, oauthTables, oauthHistory>>

CreateConsent(r) ==
    /\ FlowAt(r, "createConsent")
    /\ consent' = consent \cup {[id |-> r, user |-> flow[r].login.user,
                                 client |-> flow[r].client, scopes |-> flow[r].scopes]}
    /\ FlowTo(r, "issue")
    /\ UNCHANGED <<refreshVars, login, code, oauthHistory>>

\* Save inserts the row again when it was deleted in the meantime.
SaveConsent(r) ==
    /\ FlowAt(r, "saveConsent")
    /\ LET row == flow[r].row
       IN consent' = {k \in consent : k.id # row.id}
                        \cup {[row EXCEPT !.scopes = flow[r].scopes]}
    /\ FlowTo(r, "issue")
    /\ UNCHANGED <<refreshVars, login, code, oauthHistory>>

IssueAuthorizationCode(r) ==
    /\ FlowAt(r, "issue")
    /\ LET f == flow[r]
       IN code' = [code EXCEPT ![r] =
                      [user |-> f.login.user, client |-> f.client, scopes |-> f.scopes,
                       issued |-> now, used |-> FALSE, made |-> f.login.made,
                       stale |-> f.stale]]
    /\ EndFlow(r)
    /\ UNCHANGED <<refreshVars, login, consent, oauthHistory>>

-----------------------------------------------------------------------------
(* Redeeming a code at the token endpoint.                                  *)

PresentCode(r) ==
    /\ Free(r)
    /\ AuthorizationCodeGrant(r)
    /\ \E k \in Requests, b \in BOOLEAN :
        /\ IsIssued(k)
        /\ code[k].user = request'[r].user
        /\ flow' = [flow EXCEPT ![r] = [NoFlow EXCEPT !.step = "redeem",
                                                      !.code = k, !.bound = b]]
    /\ UNCHANGED <<oauthTables, oauthHistory>>

\* Mutation: the update does not ask whether the code was used.
IsUnexpired(k) == k.issued + CodeTTL > now
IsRedeemable(k) == ~k.used /\ k.issued + CodeTTL > now

ConsumeAuthorizationCode(r) ==
    /\ At(r, "grantUser") /\ FlowAt(r, "redeem")
    /\ LET k == flow[r].code
       IN IF IsRedeemable(code[k])
          THEN /\ code' = [code EXCEPT ![k].used = TRUE]
               /\ FlowTo(r, "redeemed")
               /\ UNCHANGED request
          ELSE /\ Answer(r, "refused")
               /\ EndFlow(r)
               /\ UNCHANGED code
    /\ UNCHANGED <<now, userEnabled, clientEnabled, invalidatedAt, session,
                   login, consent, oauthHistory>>

IsBound(q, f) == f.bound /\ code[f.code].client = q.client

\* A code that was presented by the wrong client, or without its verifier, is
\* refused when it has been consumed.
RedeemCode(r) ==
    /\ FlowAt(r, "redeemed")
    /\ ReadGrantUser(r)
    /\ request'[r].reply = "pending" <=>
          IsBound(request[r], flow[r]) /\ userEnabled[request[r].user]
    /\ FlowFollows(r)
    /\ UNCHANGED <<oauthTables, oauthHistory>>

-----------------------------------------------------------------------------
(* What RefreshSessions does, with its requests taken up only when they are  *)
(* free here and the sessions it creates remembered with their code.        *)

SessionsStartWith(k) ==
    born' = [s \in Sessions |-> IF ~Exists(s) /\ session'[s].user # None THEN k ELSE born[s]]

StartSession(r) ==
    /\ IssueTokenResponse(r)
    /\ SessionsStartWith(flow[r].code)
    /\ FlowFollows(r)
    /\ UNCHANGED <<oauthTables, agreed>>

RotateSession(r) ==
    /\ CreateChild(r)
    /\ SessionsStartWith(born[request[r].token])
    /\ UNCHANGED <<oauthTables, flow, agreed>>

TakeUpRequest(r) ==
    /\ Free(r)
    /\ RefreshGrant(r) \/ APIOAuthRevoke(r) \/ RevokeAllForUser(r)
    /\ UNCHANGED <<oauthTables, flow, oauthHistory>>

HandleRequest(r) ==
    /\ \/ AuthenticateClient(r) \/ ReadSession(r) \/ SaveRotated(r) \/ MintAccessToken(r)
       \/ RevokeSessionByRefreshHash(r) \/ RevokeChild(r) \/ RevokeReused(r)
       \/ RevokeAllUserSessions(r)
       \/ ~FlowAt(r, "withdraw") /\ RevokeUserClientSessions(r)
    /\ FlowFollows(r)
    /\ UNCHANGED <<oauthTables, oauthHistory>>

-----------------------------------------------------------------------------
(* Withdrawing: an app is disconnected, or a user signed out everywhere.  A  *)
(* code, and a request for one, that it overtakes stays good.               *)

OvertakenCodes(why, u, C) ==
    [k \in Requests |->
        IF code[k].user = u /\ code[k].client \in C
        THEN [code[k] EXCEPT !.stale = @ \cup {why}] ELSE code[k]]
OvertakenFlows(why, u, C) ==
    [q \in Requests |->
        IF flow[q].login.user = u /\ flow[q].client \in C
        THEN [flow[q] EXCEPT !.stale = @ \cup {why}] ELSE flow[q]]

DisconnectApp(r) ==
    /\ Free(r)
    /\ APIRevokeConnectedApp(r)
    /\ flow' = [flow EXCEPT ![r] = [NoFlow EXCEPT !.step = "withdraw"]]
    /\ UNCHANGED <<oauthTables, oauthHistory>>

RevokeConsent(r) ==
    /\ At(r, "disconnect") /\ FlowAt(r, "withdraw")
    /\ LET u == request[r].user
           c == request[r].client
       IN /\ consent' = consent \ ConsentsOf(u, c)
          /\ code' = OvertakenCodes("withdrawal", u, {c})
          /\ flow' = [OvertakenFlows("withdrawal", u, {c}) EXCEPT ![r].step = "over"]
    /\ UNCHANGED <<refreshVars, login, oauthHistory>>

SignOutEverywhere(r) ==
    /\ SetUserSessionsInvalidatedAt(r)
    /\ code' = OvertakenCodes("signOut", request[r].user, Clients)
    /\ flow' = OvertakenFlows("signOut", request[r].user, Clients)
    /\ UNCHANGED <<login, consent, oauthHistory>>

\* A database call fails, or the process dies with the request in it.
AbandonFlow(r) ==
    /\ InFlow(r)
    /\ ~Pending(r)
    /\ EndFlow(r)
    /\ UNCHANGED <<refreshVars, oauthTables, oauthHistory>>

AbandonRequest(r) ==
    /\ Fail(r)
    /\ FlowFollows(r)
    /\ UNCHANGED <<oauthTables, oauthHistory>>

Environment ==
    /\ DisableUser \/ DisableOAuthClient \/ Tick
    /\ UNCHANGED <<oauthTables, flow, oauthHistory>>

-----------------------------------------------------------------------------
OAuthInit ==
    /\ RefreshInit
    /\ login = SeedLogins
    /\ consent = SeedConsents
    /\ code = SeedCode
    /\ flow = [r \in Requests |-> IF IsIssued(r) THEN [NoFlow EXCEPT !.step = "over"] ELSE NoFlow]
    /\ born = SeedBorn
    /\ agreed = SeedAgreed

AuthorizationStep(r) ==
    \/ APIOAuthAuthorize(r) \/ APIOAuthConsent(r) \/ FlowCheck(r) \/ GetConsent(r)
    \/ FindConsent(r) \/ CreateConsent(r) \/ SaveConsent(r)
    \/ IssueAuthorizationCode(r) \/ AbandonFlow(r)

TokenStep(r) ==
    \/ PresentCode(r) \/ ConsumeAuthorizationCode(r) \/ RedeemCode(r)
    \/ StartSession(r) \/ RotateSession(r)
    \/ TakeUpRequest(r) \/ HandleRequest(r) \/ DisconnectApp(r) \/ RevokeConsent(r)
    \/ SignOutEverywhere(r) \/ AbandonRequest(r)

OAuthNext ==
    \/ \E r \in Requests : AuthorizationStep(r) \/ TokenStep(r)
    \/ Login
    \/ Environment

OAuthSpec == OAuthInit /\ [][OAuthNext]_oauthVars

-----------------------------------------------------------------------------
\* Every cookie, consent, code and flow is of its type, and a session goes back
\* to a code.
OAuthTypeOK ==
    /\ RefreshTypeOK
    /\ login \subseteq LoginRow
    /\ consent \subseteq ConsentRow
    /\ code \in [Requests -> CodeRow \cup {NoCode}]
    /\ flow \in [Requests -> Flow]
    /\ born \in [Sessions -> Requests \cup {None}]
    /\ agreed \subseteq [user: Users, client: Clients, scopes: SUBSET Scopes]
    /\ \A s \in Sessions : Exists(s) => born[s] # None /\ IsIssued(born[s])

\* A code starts one line of sessions at most, however often and by however many
\* requests at once it is presented, and only for the client it was issued to,
\* which proved that it had asked for it.
CodesStartOneLine ==
    [][\A r \in Requests : At(r, "grant") /\ session' # session /\ request'[r] # request[r] =>
        /\ ~\E s \in Sessions : Exists(s) /\ born[s] = flow[r].code
        /\ flow[r].bound
        /\ code[flow[r].code].client = request[r].client]_oauthVars

\* An app that its user has disconnected, so that no consent is left, keeps what
\* the withdrawal overtook at most: a code issued before it, or asked for by a
\* request that had begun, and the session such a code starts.
OnlyOvertakenCodesLackConsent ==
    \A k \in Requests :
        IsIssued(k) /\ code[k].client # FirstParty /\ "withdrawal" \notin code[k].stale =>
            \E c \in consent : SameApp(c, code[k])

\* A login from before its user was signed out everywhere opens nothing to a
\* request that began after it, although the cookie knows only the second.
SignedOutLoginsOpenNothing ==
    \A k \in Requests :
        IsIssued(k) /\ "signOut" \notin code[k].stale /\ invalidatedAt[code[k].user] # None
            => code[k].made >= invalidatedAt[code[k].user]

\* An app never gets scopes but those its user agreed to in one consent form.
ScopesWereAgreedTo ==
    \A k \in Requests :
        IsIssued(k) /\ code[k].client # FirstParty =>
            \E a \in agreed : SameApp(a, code[k]) /\ code[k].scopes \subseteq a.scopes

=============================================================================
