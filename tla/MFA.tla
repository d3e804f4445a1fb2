-------------------------------- MODULE MFA --------------------------------
(***************************************************************************)
(* The second factor of a login: enrolment with a secret that is pending    *)
(* until it is confirmed, recovery codes, the login with a password and the *)
(* challenge that follows it, and the ways of turning the factor off.       *)
(*                                                                          *)
(* A one-time password is modelled by the secret it was made with, and a    *)
(* recovery code by the id of the row that holds its hash.                  *)
(***************************************************************************)
EXTENDS Accounts

CONSTANTS
    MFARecoveryCodesEnabled,  \* configuration: recovery codes are issued and taken
    RecoveryCodeCount,        \* bound: the recovery codes of an activation
    SeedRecovery, SeedChallenged

ASSUME MFAAssumption ==
    /\ MFARecoveryCodesEnabled \in BOOLEAN
    /\ RecoveryCodeCount \in Nat \ {0}

\* The recovery codes and challenges at the start are those of accounts.
ASSUME MFASeedAssumption ==
    /\ SeedChallenged \cup {c.user : c \in SeedRecovery} \subseteq
          {u \in Users : SeedAccount[u] # NoAccount}
    /\ SeedRecovery \subseteq [id: 1..SeedIds, user: Users, secret: 1..SeedIds, used: BOOLEAN]
    /\ \A c, d \in SeedRecovery : c.id = d.id => c = d

\* Requests left the database at the start in order: identities, codes and mail belong
\* to one account each, a verified address is the one its code was mailed to, and a
\* second factor that counts has a secret, the one its recovery codes came with.
ASSUME MFASeedInOrder ==
    /\ \A u, v \in Users :
        LET x == SeedAccount[u]
            y == SeedAccount[v]
        IN  /\ x.enabled /\ y.enabled /\ x.subject # None /\ x.subject = y.subject => u = v
            /\ (x.code = y.code /\ x.code # 0) \/ (x.reset = y.reset /\ x.reset # 0) => u = v
    /\ \A u \in Users : SeedAccount[u].mfa => SeedAccount[u].secret # 0
    /\ \A c \in SeedRecovery :
        /\ SeedAccount[c.user].mfa => c.secret = SeedAccount[c.user].secret
        /\ \A u \in Users : SeedAccount[u].reset # c.id
    /\ SMTPEnabled => \A u \in Users :
        LET x == SeedAccount[u]
        IN  /\ x.verified /\ x.password # None =>
                 [kind |-> "verify", code |-> x.code, to |-> x.email] \in SeedSent
            /\ \A m \in SeedSent : m.kind = "verify" /\ m.code = x.code => m.to = x.email

VARIABLES
    recovery,    \* rows of recovery codes; secret is history: the one they came with
    challenged   \* the accounts someone gave the password of, to be asked for more

mfaTables == <<accountTables, recovery, challenged>>
mfaVars == <<mfaTables, req>>

AcceptMFA(r, op, caller, scope, program) ==
    Begin(r, op, caller, scope, program) /\ UNCHANGED mfaTables

\* What people enter: the one-time password of the secret an account has, or
\* one of its recovery codes, spent or not.
Factors(u) ==
    {[totp |-> TRUE, value |-> account[u].secret]}
    \cup {[totp |-> FALSE, value |-> c.id] : c \in {d \in recovery : d.user = u}}

\* Mutation: a code counts as active after its use.
GetAllRecoveryCodes(u) == {c \in recovery : c.user = u}
GetActiveRecoveryCodes(u) == {c \in recovery : c.user = u /\ ~c.used}

MFAPasses(q, c) ==
    \/ c.do = "mayEnrol"     /\ q.found.password # None /\ ~q.found.mfa
    \/ c.do = "mayActivate"  /\ ~q.found.mfa /\ q.found.secret # 0 /\ q.found.secret = c.arg
    \/ c.do = "enrolled"     /\ q.found.mfa
    \/ c.do = "hasPassword"  /\ q.found.password = c.arg

MFACheck(r) ==
    /\ Guarded(r, {"mayEnrol", "mayActivate", "enrolled", "hasPassword"}, MFAPasses)
    /\ UNCHANGED mfaTables

-----------------------------------------------------------------------------
(* Enrolment.                                                               *)

APIEnrollMFA(r) ==
    \E u \in Registered :
        AcceptMFA(r, "APIEnrollMFA", u, u,
            <<Call("readUser", None), Call("mayEnrol", None), Call("setSecret", None)>>)

SetUserPendingMFASecret(r) ==
    /\ At(r, "setSecret")
    /\ UpdateColumns(r, [account[req[r].scope] EXCEPT !.secret = nextId + 1, !.mfa = FALSE])
    /\ nextId' = nextId + 1
    /\ UNCHANGED <<invite, sent, accepted, recovery, challenged>>

RecoveryCalls ==
    IF MFARecoveryCodesEnabled THEN <<Call("storeCodes", None)>> ELSE <<>>

\* Mutation: codes of an earlier enrolment are kept.
ActivationKeepingCodes(t) ==
    <<Call("readUser", None), Call("mayActivate", t)>> \o RecoveryCalls
    \o <<Call("activate", None)>>

ActivationCalls(t) ==
    <<Call("readUser", None), Call("mayActivate", t), Call("clearCodes", None)>>
    \o RecoveryCalls \o <<Call("activate", None)>>

APIActivateMFA(r) ==
    \E u \in Registered :
        AcceptMFA(r, "APIActivateMFA", u, u, ActivationCalls(account[u].secret))

ClearUserRecoveryCodes(r) ==
    /\ At(r, "clearCodes")
    /\ recovery' = {c \in recovery : c.user # req[r].scope}
    /\ Done(r)
    /\ UNCHANGED <<accountTables, challenged>>

StoreRecoveryCodes(r) ==
    /\ At(r, "storeCodes")
    /\ recovery' = recovery \cup
            {[id |-> nextId + i, user |-> req[r].scope,
              secret |-> req[r].found.secret, used |-> FALSE] : i \in 1..RecoveryCodeCount}
    /\ nextId' = nextId + RecoveryCodeCount
    /\ Done(r)
    /\ UNCHANGED <<account, invite, sent, accepted, challenged>>

ActivateUserMFA(r) ==
    /\ At(r, "activate")
    /\ UpdateColumns(r, [account[req[r].scope] EXCEPT !.mfa = TRUE])
    /\ UNCHANGED <<invite, sent, accepted, nextId, recovery, challenged>>

-----------------------------------------------------------------------------
(* Logging in.                                                              *)

GenerateToken(r) ==
    \E e \in Emails, p \in Passwords :
        AcceptMFA(r, "GenerateToken", None, None,
                  <<Call("logIn", [email |-> e, password |-> p])>>)

\* The password is all it takes, or is answered with a challenge.
LogIn(r) ==
    /\ At(r, "logIn")
    /\ LET us == {u \in findEnabledUserByEmail(Arg(r).email) : account[u].password = Arg(r).password}
       IN /\ Answer(r, IF us = {} THEN "refused" ELSE "ok")
          /\ challenged' = challenged \cup {u \in us : account[u].mfa}
    /\ UNCHANGED <<accountTables, recovery>>

APIValidateMFA(r) ==
    \E u \in challenged : \E f \in Factors(u) :
        AcceptMFA(r, "APIValidateMFA", u, u,
            <<Call("readUser", None), Call("enrolled", None), Call("secondFactor", f)>>)

verifySecondFactor(r) ==
    /\ At(r, "secondFactor")
    /\ LET u == req[r].scope
           f == Arg(r)
           secret == req[r].found.secret
       IN \/ /\ f.totp
             /\ IF secret # 0 /\ f.value = secret THEN Done(r) ELSE Answer(r, "refused")
          \/ /\ ~f.totp
             /\ IF MFARecoveryCodesEnabled /\ \E c \in GetActiveRecoveryCodes(u) : c.id = f.value
                THEN Continue(r, u, req[r].found,
                              <<Call("markUsed", f.value)>> \o Tail(req[r].todo))
                ELSE Answer(r, "refused")
    /\ UNCHANGED mfaTables

\* Whether the code was used in the meantime is not asked.
MarkRecoveryCodeUsed(r) ==
    /\ At(r, "markUsed")
    /\ IF \E c \in recovery : c.id = Arg(r)
       THEN /\ recovery' = {[c EXCEPT !.used = @ \/ c.id = Arg(r)] : c \in recovery}
            /\ accepted' = Append(accepted, Arg(r))
            /\ Done(r)
       ELSE Answer(r, "refused") /\ UNCHANGED <<recovery, accepted>>
    /\ UNCHANGED <<account, invite, sent, nextId, challenged>>

-----------------------------------------------------------------------------
(* Turning the second factor off.                                           *)

APIDisableMFA(r) ==
    \E u \in Registered, p \in Passwords : \E f \in Factors(u) :
        AcceptMFA(r, "APIDisableMFA", u, u,
            <<Call("readUser", None), Call("enrolled", None), Call("hasPassword", p),
              Call("secondFactor", f), Call("clearMFA", None), Call("clearCodes", None)>>)

APIAdminDeleteUserMFA(r) ==
    \E u, v \in Registered :
        /\ account[u].admin
        /\ AcceptMFA(r, "APIAdminDeleteUserMFA", u, v,
                     <<Call("clearMFA", None), Call("clearCodes", None)>>)

\* Mutation: the secret is removed and the account still asks for it.
WithoutSecret(row) == [row EXCEPT !.secret = 0]
WithoutMFA(row) == [row EXCEPT !.secret = 0, !.mfa = FALSE]

\* The first of the two calls of DisableUserMFA: an account that is not enabled
\* is left alone without an error.
DisableUserMFA(r) ==
    /\ At(r, "clearMFA")
    /\ account' = [account EXCEPT ![req[r].scope] = IF @.enabled THEN WithoutMFA(@) ELSE @]
    /\ Done(r)
    /\ UNCHANGED <<invite, sent, accepted, nextId, recovery, challenged>>

-----------------------------------------------------------------------------
MFAInit ==
    /\ AccountsInit
    /\ recovery = SeedRecovery
    /\ challenged = SeedChallenged

MFARequest(r) ==
    /\ MayBegin(r)
    /\ \/ APIEnrollMFA(r) \/ APIActivateMFA(r) \/ GenerateToken(r)
       \/ APIValidateMFA(r) \/ APIDisableMFA(r) \/ APIAdminDeleteUserMFA(r)

MFAStep(r) ==
    \/ MFACheck(r)
    \/ SetUserPendingMFASecret(r) \/ ClearUserRecoveryCodes(r) \/ StoreRecoveryCodes(r)
    \/ ActivateUserMFA(r) \/ LogIn(r) \/ verifySecondFactor(r)
    \/ MarkRecoveryCodeUsed(r) \/ DisableUserMFA(r)

MFANext ==
    \/ AccountsNext /\ UNCHANGED <<recovery, challenged>>
    \/ \E r \in Requests : MFARequest(r) \/ MFAStep(r)

MFASpec == MFAInit /\ [][MFANext]_mfaVars

-----------------------------------------------------------------------------
(* What must hold.                                                          *)

\* Recovery codes are rows of accounts with ids of their own, and only accounts
\* are challenged.
MFATypeOK ==
    /\ AccountsTypeOK
    /\ recovery \subseteq [id: 1..nextId, user: Registered, secret: 1..nextId, used: BOOLEAN]
    /\ \A c, d \in recovery : c.id = d.id => c = d
    /\ challenged \subseteq Registered

\* One request at a time: an account that asks for a second factor has a secret
\* to check it with, whatever part of turning it on or off has failed.
MFAKeepsASecret == \A u \in Users : account[u].mfa => account[u].secret # 0

\* One request at a time: the recovery codes of an account that asks for a
\* second factor came with the secret it has now, so none is left from an
\* enrolment that was removed or never finished.
CodesOfTheSecret ==
    \A c \in recovery : account[c.user].mfa => c.secret = account[c.user].secret

=============================================================================
