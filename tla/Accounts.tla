------------------------------ MODULE Accounts ------------------------------
(***************************************************************************)
(* Accounts: registration with an invite, external login, verification of   *)
(* the e-mail address, changes to an account, password resets, deletion.    *)
(*                                                                          *)
(* UpdateUser, APIChangePassword and APIDeleteUser read a whole row, change *)
(* the copy in memory and Save every column of it; the other updates write  *)
(* single columns of an enabled row.  Only CreateUserWithInviteCode is a    *)
(* transaction.  Of times only the expiry of reset codes is modelled.       *)
(***************************************************************************)
EXTENDS Handling

CONSTANTS
    Users, Invites, Emails, Passwords,
    Subjects,             \* the identities of the external provider
    SMTPEnabled,          \* configuration: mail is sent
    OIDCAutoCreateUsers,  \* configuration: external logins create accounts
    SeedAccount, SeedInvite, SeedSent,
    SeedIds               \* the database and mail at the start, and the codes in them

ASSUME AccountsAssumption ==
    /\ None \notin Users \cup Emails \cup Passwords \cup Subjects
    /\ {SMTPEnabled, OIDCAutoCreateUsers} \subseteq BOOLEAN

VARIABLES
    account,    \* account[u]: its row, or NoAccount
    invite,     \* invite[i]: its row, or NoInvite
    sent,       \* what was mailed or shown: codes and whom they reached
    accepted,   \* history: the single-use codes accepted, in order
    nextId      \* the next fresh code

accountTables == <<account, invite, sent, accepted, nextId>>
accountVars == <<accountTables, req>>

\* Only an account of the external provider has no password.  A code or secret
\* of 0 is none; open: the reset code has not expired.
AccountRow == [enabled: BOOLEAN, email: Emails, password: Passwords \cup {None},
               subject: Subjects \cup {None}, admin: BOOLEAN, verified: BOOLEAN,
               code: Nat, reset: Nat, open: BOOLEAN, mfa: BOOLEAN, secret: Nat]
NoAccount == [enabled |-> FALSE, email |-> None, password |-> None,
              subject |-> None, admin |-> FALSE, verified |-> FALSE,
              code |-> 0, reset |-> 0, open |-> FALSE, mfa |-> FALSE, secret |-> 0]
Registered == {u \in Users : account[u] # NoAccount}

NoInvite == [enabled |-> FALSE, used |-> FALSE, recipient |-> None]
InviteRow == [enabled: BOOLEAN, used: BOOLEAN, recipient: Users \cup {None}]

\* The rows at the start have their columns' types, no two of them one address, a
\* recipient if they are used invites, and codes that were made already.
ASSUME AccountsSeedAssumption ==
    /\ SeedIds \in Nat
    /\ SeedAccount \in [Users -> AccountRow \cup {NoAccount}]
    /\ \A u, v \in Users :
        SeedAccount[u] # NoAccount /\ SeedAccount[u].email = SeedAccount[v].email => u = v
    /\ \A u \in Users :
        {SeedAccount[u].code, SeedAccount[u].reset, SeedAccount[u].secret} \subseteq 0..SeedIds
    /\ SeedInvite \in [Invites -> InviteRow]
    /\ \A i \in Invites :
        IF SeedInvite[i].used THEN \E u \in Users : /\ SeedInvite[i].recipient = u
                                                   /\ SeedAccount[u] # NoAccount
                              ELSE SeedInvite[i].recipient = None
    /\ SeedSent \subseteq [kind: {"verify", "reset"}, code: 1..SeedIds, to: Emails]

Accept(r, op, caller, scope, program) ==
    Begin(r, op, caller, scope, program) /\ UNCHANGED accountTables

-----------------------------------------------------------------------------
(* The queries.                                                             *)

findEnabledUserByEmail(e) ==
    {u \in Users : account[u].enabled /\ account[u].email = e}
\* Mutation: external logins look an account up by its address alone.
NobodyByOIDCSubject(s) == {}
GetUserByOIDCSubject(s) ==
    {u \in Users : account[u].enabled /\ account[u].subject = s}
GetAllUserInformationByResetCode(c) ==
    {u \in Users : account[u].enabled /\ account[u].reset = c}
VerifyUnusedUserInviteCode(i) == invite[i].enabled /\ ~invite[i].used

\* Mutation: the table without its index.
NoEmailIndex(u, e) == TRUE
\* The unique index on addresses covers disabled rows too.
EmailIndexAdmits(u, e) == \A v \in Users \ {u} : account[v].email # e
\* Mutation: the claim in the transaction does not ask that the invite be unused.
MayClaimAnyInvite(i) == invite[i].enabled
MayClaimInvite(i) == VerifyUnusedUserInviteCode(i)

AccountPasses(q, c) ==
    \/ c.do = "inviteUnused" /\ VerifyUnusedUserInviteCode(c.arg)
    \/ c.do = "emailFree"    /\ findEnabledUserByEmail(c.arg) = {}
    \/ c.do = "codeMatches"  /\ account[q.scope].enabled
                             /\ account[q.scope].code = c.arg
    \/ c.do = "knowsPassword" /\ q.found.password \in {None, c.arg}
    \/ c.do = "inviteDeletable" /\ VerifyUnusedUserInviteCode(c.arg)

AccountCheck(r) ==
    /\ Guarded(r, {"inviteUnused", "emailFree", "codeMatches", "knowsPassword",
                   "inviteDeletable"}, AccountPasses)
    /\ UNCHANGED accountTables

\* APIResetPassword answers "ok" whether or not there is such an account, here as
\* in FindToReset.
GetAllUserInformation(r) ==
    /\ At(r, "readUser") \/ At(r, "readQuietly")
    /\ IF account[req[r].scope].enabled
       THEN Remember(r, account[req[r].scope])
       ELSE Answer(r, IF At(r, "readUser") THEN "refused" ELSE "ok")
    /\ UNCHANGED accountTables

\* Writes the columns row differs in to the enabled row of the request's account.
UpdateColumns(r, row) ==
    IF account[req[r].scope].enabled
    THEN account' = [account EXCEPT ![req[r].scope] = row] /\ Done(r)
    ELSE UNCHANGED account /\ Answer(r, "refused")

-----------------------------------------------------------------------------
(* Registration.                                                            *)

RegisterUser(r) ==
    \E e \in Emails, p \in Passwords, i \in Invites :
        Accept(r, "RegisterUser", None, None,
            <<Call("countUsers", None), Call("inviteUnused", i), Call("emailFree", e),
              Call("createUser", [email |-> e, password |-> p, invite |-> i])>>
            \o IF SMTPEnabled THEN <<Call("mailCode", None)>> ELSE <<>>)

GetAmountOfEnabledUsers(r) ==
    /\ At(r, "countUsers")
    /\ Remember(r, [admin |-> \A u \in Users : ~account[u].enabled])
    /\ UNCHANGED accountTables

\* One transaction: both rows are written or, when the invite or the address is
\* taken by now, neither.
CreateUserWithInviteCode(r) ==
    /\ At(r, "createUser")
    /\ LET i == Arg(r).invite
       IN \E u \in Users \ Registered :
            IF MayClaimInvite(i) /\ EmailIndexAdmits(u, Arg(r).email)
            THEN LET row == [NoAccount EXCEPT
                        !.enabled = TRUE, !.email = Arg(r).email,
                        !.password = Arg(r).password, !.admin = req[r].found.admin,
                        !.verified = ~SMTPEnabled,
                        !.code = nextId + 1, !.reset = nextId + 2]
                 IN /\ account' = [account EXCEPT ![u] = row]
                    /\ invite' = [invite EXCEPT ![i].used = TRUE, ![i].recipient = u]
                    /\ nextId' = nextId + 2
                    /\ Continue(r, u, row, Tail(req[r].todo))
            ELSE Answer(r, "refused") /\ UNCHANGED <<account, invite, nextId>>
    /\ UNCHANGED <<sent, accepted>>

\* Mails the code in the row that was read.  A row without one makes it panic.
Mail(r, kind, code) ==
    /\ IF code = 0
       THEN Answer(r, "error") /\ UNCHANGED sent
       ELSE /\ sent' = sent \cup {[kind |-> kind, code |-> code, to |-> req[r].found.email]}
            /\ Done(r)
    /\ UNCHANGED <<account, invite, accepted, nextId>>

SendSMTPVerificationEmail(r) ==
    At(r, "mailCode") /\ Mail(r, "verify", req[r].found.code)

RegisterInvite(r) ==
    \E u \in Users :
        /\ account[u].admin
        /\ Accept(r, "RegisterInvite", u, None, <<Call("createInvite", None)>>)

GenerateRandomInvite(r) ==
    /\ At(r, "createInvite")
    /\ \E i \in Invites :
        /\ invite[i] = NoInvite
        /\ invite' = [invite EXCEPT ![i].enabled = TRUE]
    /\ Done(r)
    /\ UNCHANGED <<account, sent, accepted, nextId>>

APIDeleteInvite(r) ==
    \E u \in Users, i \in Invites :
        /\ account[u].admin
        /\ Accept(r, "APIDeleteInvite", u, None,
                  <<Call("inviteDeletable", i), Call("disableInvite", i)>>)

DeleteInviteByID(r) ==
    /\ At(r, "disableInvite")
    /\ invite' = [invite EXCEPT ![Arg(r)].enabled = FALSE]
    /\ Done(r)
    /\ UNCHANGED <<account, sent, accepted, nextId>>

-----------------------------------------------------------------------------
(* External login: s is who the provider says is there, e the address it    *)
(* has for them and v whether it has verified that address.                 *)

OIDCCallback(r) ==
    \E s \in Subjects, e \in Emails, v \in BOOLEAN :
        Accept(r, "OIDCCallback", None, None,
            <<Call("findSubject", [subject |-> s, email |-> e, verified |-> v])>>)

\* A known identity is logged in; any other is looked for by its address.
FindSubject(r) ==
    /\ At(r, "findSubject")
    /\ LET us == GetUserByOIDCSubject(Arg(r).subject)
       IN IF us = {} THEN Continue(r, None, None, <<Call("findAddress", Arg(r))>>)
          ELSE Answer(r, IF Cardinality(us) = 1 THEN "ok" ELSE "refused")
    /\ UNCHANGED accountTables

\* Linking to an account and creating one both take a verified address.
FindAddress(r) ==
    /\ At(r, "findAddress")
    /\ IF ~Arg(r).verified
       THEN Answer(r, "refused")
       ELSE \/ \E u \in findEnabledUserByEmail(Arg(r).email) :
                 Continue(r, u, None, <<Call("link", Arg(r).subject), Call("readUser", None)>>)
            \/ /\ findEnabledUserByEmail(Arg(r).email) = {}
               /\ IF OIDCAutoCreateUsers
                  THEN Continue(r, None, None, <<Call("countUsers", None),
                                                 Call("createExternal", Arg(r))>>)
                  ELSE Answer(r, "refused")
    /\ UNCHANGED accountTables

linkUserOIDC(r) ==
    /\ At(r, "link")
    /\ UpdateColumns(r, [account[req[r].scope] EXCEPT !.subject = Arg(r)])
    /\ UNCHANGED <<invite, sent, accepted, nextId>>

createOIDCUser(r) ==
    /\ At(r, "createExternal")
    /\ \E u \in Users \ Registered :
        IF EmailIndexAdmits(u, Arg(r).email)
        THEN /\ account' = [account EXCEPT ![u] = [NoAccount EXCEPT
                    !.enabled = TRUE, !.email = Arg(r).email, !.verified = TRUE,
                    !.subject = Arg(r).subject, !.admin = req[r].found.admin]]
             /\ Done(r)
        ELSE UNCHANGED account /\ Answer(r, "refused")
    /\ UNCHANGED <<invite, sent, accepted, nextId>>

-----------------------------------------------------------------------------
(* Verification of the address.                                             *)

\* Someone who logged in enters a code that was mailed.
VerifyUser(r) ==
    \E u \in Registered, m \in sent :
        /\ m.kind = "verify"
        /\ Accept(r, "VerifyUser", u, u,
            <<Call("readUser", None), Call("codeMatches", m.code),
              Call("setVerified", TRUE), Call("readUser", None)>>)

SetUserVerification(r) ==
    /\ At(r, "setVerified")
    /\ UpdateColumns(r, [account[req[r].scope] EXCEPT !.verified = Arg(r)])
    /\ UNCHANGED <<invite, sent, accepted, nextId>>

SendUserVerificationCode(r) ==
    \E u \in Registered :
        Accept(r, "SendUserVerificationCode", u, u,
            <<Call("readUser", None), Call("newCode", None),
              Call("readUser", None), Call("mailCode", None)>>)

\* The new code is also put in the copy of the row the handler mails from.
GenerateRandomVerificationCodeForUser(r) ==
    /\ At(r, "newCode")
    /\ LET u == req[r].scope
       IN IF account[u].enabled
          THEN /\ account' = [account EXCEPT ![u].code = nextId + 1]
               /\ Remember(r, [req[r].found EXCEPT !.code = nextId + 1])
               /\ nextId' = nextId + 1
          ELSE Answer(r, "refused") /\ UNCHANGED <<account, nextId>>
    /\ UNCHANGED <<invite, sent, accepted>>

-----------------------------------------------------------------------------
(* Changes to an account.                                                   *)

UpdateUser(r) ==
    \E u \in Registered, e \in Emails, p \in Passwords, n \in Passwords \cup {None} :
        Accept(r, "UpdateUser", u, u,
            <<Call("readUser", None), Call("knowsPassword", p),
              Call("readToEdit", [email |-> e, password |-> n])>>)

\* Only local accounts, which have a password, change password or address.
MovesAddress(row, a) == row.password # None /\ row.email # a.email

\* Mutation: a new address counts as verified when the old one was.
EditedStillVerified(row, a) ==
    [row EXCEPT !.email = IF MovesAddress(row, a) THEN a.email ELSE @,
                !.password = IF None \in {@, a.password} THEN @ ELSE a.password]

EditedAccount(row, a) ==
    [row EXCEPT !.email = IF MovesAddress(row, a) THEN a.email ELSE @,
                !.verified = @ /\ ~MovesAddress(row, a),
                !.password = IF None \in {@, a.password} THEN @ ELSE a.password]

ReadToEdit(r) ==
    /\ At(r, "readToEdit")
    /\ LET u == req[r].scope
           row == account[u]
       IN IF row.enabled
          THEN Continue(r, u, EditedAccount(row, Arg(r)),
                 (IF MovesAddress(row, Arg(r))
                  THEN <<Call("emailFree", Arg(r).email), Call("setVerified", FALSE)>>
                  ELSE <<>>)
                 \o <<Call("saveUser", None), Call("readEdited", None)>>)
          ELSE Answer(r, "refused")
    /\ UNCHANGED accountTables

\* An account that is not verified any more is mailed a new code.
ReadEdited(r) ==
    /\ At(r, "readEdited")
    /\ LET u == req[r].scope
           row == account[u]
       IN IF row.enabled
          THEN Continue(r, u, row,
                 IF SMTPEnabled /\ ~row.verified
                 THEN <<Call("newCode", None), Call("mailCode", None)>> ELSE <<>>)
          ELSE Answer(r, "refused")
    /\ UNCHANGED accountTables

\* Save writes the whole row in the handler's memory.  A reset code counts as
\* accepted once the password it sets is saved.
UpdateUserInDB(r) ==
    /\ At(r, "saveUser")
    /\ LET u == req[r].scope
           row == req[r].found
       IN IF EmailIndexAdmits(u, row.email)
          THEN /\ account' = [account EXCEPT ![u] = row]
               /\ accepted' = IF req[r].op = "APIChangePassword"
                              THEN Append(accepted, row.reset) ELSE accepted
               /\ Done(r)
          ELSE Answer(r, "refused") /\ UNCHANGED <<account, accepted>>
    /\ UNCHANGED <<invite, sent, nextId>>

\* An administrator disables another account.
APIDeleteUser(r) ==
    \E u, v \in Users :
        /\ u # v
        /\ account[u].admin
        /\ Accept(r, "APIDeleteUser", u, v,
                  <<Call("readToDisable", None), Call("saveUser", None)>>)

ReadToDisable(r) ==
    /\ At(r, "readToDisable")
    /\ LET row == account[req[r].scope]
       IN IF row.enabled THEN Remember(r, [row EXCEPT !.enabled = FALSE])
                         ELSE Answer(r, "refused")
    /\ UNCHANGED accountTables

-----------------------------------------------------------------------------
(* Password resets.                                                         *)

APIResetPassword(r) ==
    \E e \in Emails :
        /\ SMTPEnabled
        /\ Accept(r, "APIResetPassword", None, None, <<Call("findToReset", e)>>)

\* Whoever asks is not told whether there is such an account.
FindToReset(r) ==
    /\ At(r, "findToReset")
    /\ LET us == findEnabledUserByEmail(Arg(r))
       IN \/ us = {} /\ Answer(r, "ok")
          \/ \E u \in us : Continue(r, u, None,
                <<Call("readQuietly", None), Call("newReset", None),
                  Call("setOpen", TRUE), Call("readUser", None), Call("mailReset", None)>>)
    /\ UNCHANGED accountTables

\* GenerateRandomResetCodeForUser writes the code and when it expires one after
\* the other.
NewResetCode(r) ==
    /\ At(r, "newReset")
    /\ UpdateColumns(r, [account[req[r].scope] EXCEPT !.reset = nextId + 1])
    /\ nextId' = nextId + 1
    /\ UNCHANGED <<invite, sent, accepted>>

NewResetExpiration(r) ==
    /\ At(r, "setOpen")
    /\ UpdateColumns(r, [account[req[r].scope] EXCEPT !.open = Arg(r)])
    /\ UNCHANGED <<invite, sent, accepted, nextId>>

SendSMTPResetEmail(r) ==
    At(r, "mailReset") /\ Mail(r, "reset", req[r].found.reset)

\* Mutation: the code that was used is left in the row.
ChangePasswordKeepingCode(code, p) ==
    <<Call("findReset", [code |-> code, password |-> p]), Call("saveUser", None)>>

ChangePasswordCalls(code, p) ==
    <<Call("findReset", [code |-> code, password |-> p]), Call("saveUser", None),
      Call("newReset", None), Call("setOpen", FALSE)>>

APIChangePassword(r) ==
    \E m \in sent, p \in Passwords :
        /\ m.kind = "reset"
        /\ Accept(r, "APIChangePassword", None, None, ChangePasswordCalls(m.code, p))

\* The password of an account that has none cannot be set: the handler panics.
FindReset(r) ==
    /\ At(r, "findReset")
    /\ LET us == {u \in GetAllUserInformationByResetCode(Arg(r).code) : account[u].open}
       IN \/ us = {} /\ Answer(r, "refused")
          \/ \E u \in us :
               IF account[u].password = None THEN Answer(r, "error")
               ELSE Continue(r, u, [account[u] EXCEPT !.password = Arg(r).password],
                             Tail(req[r].todo))
    /\ UNCHANGED accountTables

\* A day passes.
ResetCodeExpires(u) ==
    /\ account[u].open
    /\ account' = [account EXCEPT ![u].open = FALSE]
    /\ UNCHANGED <<invite, sent, accepted, nextId, req>>

\* What earlier calls committed stays.
AccountFail(r) == Abandon(r) /\ UNCHANGED accountTables

-----------------------------------------------------------------------------
AccountsInit ==
    /\ account = SeedAccount
    /\ invite = SeedInvite
    /\ sent = SeedSent
    /\ accepted = <<>>
    /\ nextId = SeedIds
    /\ req = [r \in Requests |-> NoRequest]

AccountsRequest(r) ==
    /\ MayBegin(r)
    /\ \/ RegisterUser(r) \/ RegisterInvite(r) \/ APIDeleteInvite(r)
       \/ OIDCCallback(r) \/ VerifyUser(r) \/ SendUserVerificationCode(r)
       \/ UpdateUser(r) \/ APIDeleteUser(r)
       \/ APIResetPassword(r) \/ APIChangePassword(r)

AccountsStep(r) ==
    \/ AccountCheck(r) \/ AccountFail(r) \/ GetAllUserInformation(r)
    \/ GetAmountOfEnabledUsers(r) \/ CreateUserWithInviteCode(r)
    \/ SendSMTPVerificationEmail(r) \/ GenerateRandomInvite(r) \/ DeleteInviteByID(r)
    \/ FindSubject(r) \/ FindAddress(r) \/ linkUserOIDC(r) \/ createOIDCUser(r)
    \/ SetUserVerification(r) \/ GenerateRandomVerificationCodeForUser(r)
    \/ ReadToEdit(r) \/ ReadEdited(r) \/ UpdateUserInDB(r) \/ ReadToDisable(r)
    \/ FindToReset(r) \/ NewResetCode(r) \/ NewResetExpiration(r)
    \/ SendSMTPResetEmail(r) \/ FindReset(r)

AccountsNext ==
    \/ \E r \in Requests : AccountsRequest(r) \/ AccountsStep(r)
    \/ \E u \in Users : ResetCodeExpires(u)

AccountsSpec == AccountsInit /\ [][AccountsNext]_accountVars

-----------------------------------------------------------------------------
(* What must hold.                                                          *)

\* Every row has its columns' types, every code is below the next fresh one, and
\* what a handler is about to save is a row of an account.
AccountsTypeOK ==
    /\ account \in [Users -> AccountRow \cup {NoAccount}]
    /\ invite \in [Invites -> InviteRow]
    /\ sent \subseteq [kind: {"verify", "reset"}, code: 1..nextId, to: Emails]
    /\ \A u \in Users : {account[u].code, account[u].reset, account[u].secret} \subseteq 0..nextId
    /\ RequestsOK
    /\ \A r \in Requests : At(r, "saveUser") => req[r].found \in AccountRow

\* Registration creates an account exactly when it uses up an invite, however
\* many registrations race for one code: every used invite made one account and
\* every account with a password came from an invite of its own (an account of
\* the seed has none).
InvitesMatchAccounts ==
    /\ \A i \in Invites : invite[i].used <=> invite[i].recipient \in Registered
    /\ \A u \in Registered :
        \/ account[u].password = None
        \/ SeedAccount[u] # NoAccount
        \/ \E i \in Invites : invite[i].recipient = u

\* No two enabled accounts have the same address, however registrations,
\* external logins and changes of address interleave: login, linking and resets
\* find an account by it.
OneAccountPerEmail ==
    \A u, v \in Users :
        account[u].enabled /\ account[v].enabled /\ u # v
            => account[u].email # account[v].email

Quiet == InFlight = {}
Undisturbed == \A r \in Requests : req[r].reply # "error"

\* With mail, between requests, while none failed half-way: a local account counts as
\* verified only with a code that was mailed to the address it has now.
VerifiedMeansReached ==
    SMTPEnabled /\ Quiet /\ Undisturbed =>
        \A u \in Users : account[u].verified /\ account[u].password # None =>
            [kind |-> "verify", code |-> account[u].code, to |-> account[u].email] \in sent

\* One request at a time: an identity of the external provider is linked to one
\* enabled account at most, so that it always logs in to the same one.
OneAccountPerSubject ==
    \A u, v \in Users :
        account[u].enabled /\ account[v].enabled /\ account[u].subject # None
            /\ account[u].subject = account[v].subject => u = v

\* One request at a time, while none failed half-way: no code sets a password a
\* second time, or serves as a recovery code twice.
CodesAreSingleUse == Undisturbed => IsInjective(accepted)

=============================================================================
