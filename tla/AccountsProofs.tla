--------------------------- MODULE AccountsProofs ---------------------------
(***************************************************************************)
(* What holds of accounts for any users, invites, addresses and requests:   *)
(* first with any number of them in flight, then where they come one at a   *)
(* time.                                                                    *)
(*                                                                          *)
(* The invariant of the first part says what each request in flight may     *)
(* still do: which call its next one follows, and what it has in memory     *)
(* when that call writes the row of an account, mails from it or counts on  *)
(* what was counted.  That of the second adds the points a handler passes,  *)
(* each with what the tables say there.                                     *)
(***************************************************************************)
EXTENDS MFA, HandlingProofs

\* An account may have a password: it is one of the seed or came from an invite.
Invited(u) ==
    \/ SeedAccount[u] # NoAccount
    \/ \E i \in Invites : invite[i].recipient = u

Codes(row) == {row.code, row.reset, row.secret}

-----------------------------------------------------------------------------
(* The tables.                                                              *)

TablesFit ==
    /\ nextId \in Nat
    /\ account \in [Users -> AccountRow \cup {NoAccount}]
    /\ \A u \in Users : Codes(account[u]) \subseteq 0..nextId
    /\ sent \subseteq [kind: {"verify", "reset"}, code: 1..nextId, to: Emails]

\* The unique index: disabled accounts count as well.
AddressesDiffer == \A u, v \in Registered : account[u].email = account[v].email => u = v

InvitesFit ==
    /\ invite \in [Invites -> InviteRow]
    /\ \A i \in Invites : IF invite[i].used THEN invite[i].recipient \in Registered
                                            ELSE invite[i].recipient = None
    /\ \A u \in Registered : account[u].password = None \/ Invited(u)

-----------------------------------------------------------------------------
(* The requests.                                                            *)

Identity == [subject: Subjects, email: Emails, verified: BOOLEAN]

\* The calls that use the scope of the request, which is an account.
ScopedCalls == {"readUser", "readQuietly", "readToEdit", "readEdited", "readToDisable",
                "link", "setSecret", "activate", "clearMFA", "storeCodes"}

CallFits(q, c) ==
    /\ c.do \in ScopedCalls => q.scope \in Users
    /\ c.do = "createUser" =>
          c.arg \in [email: Emails, password: Passwords, invite: Invites]
    /\ c.do \in {"findSubject", "findAddress", "createExternal"} => c.arg \in Identity
    /\ c.do = "link" => c.arg \in Subjects
    /\ c.do \in {"setVerified", "setOpen"} => c.arg \in BOOLEAN
    /\ c.do = "readToEdit" =>
          c.arg \in [email: Emails, password: Passwords \cup {None}] /\ q.op = "UpdateUser"
    /\ c.do = "findReset" => c.arg.password \in Passwords

\* The calls that leave the row of the account in memory, those that need it there,
\* those that need what was counted, and those that need a secret in the row.
RowReads == {"readUser", "readQuietly", "readToDisable", "createUser", "findReset"}
RowCalls == {"saveUser", "mailCode", "mailReset", "newCode", "knowsPassword", "codeMatches",
             "setVerified", "newReset", "setOpen", "mayActivate"}
NeedsRow(op, c) == c.do \in RowCalls \/ (op = "UpdateUser" /\ c.do = "emailFree")
KeepsCount(op, c) == op = "RegisterUser" /\ c.do \in {"inviteUnused", "emailFree"}
NeedsCount(op, c) == c.do \in {"createUser", "createExternal"} \/ KeepsCount(op, c)
NeedsSecret(op, c) ==
    c.do = "storeCodes" \/ (op = "APIActivateMFA" /\ c.do = "clearCodes")

\* The call d may come right after c.
Follows(op, c, d) ==
    /\ NeedsRow(op, d) => c.do \in RowReads \/ NeedsRow(op, c)
    /\ NeedsCount(op, d) => c.do = "countUsers" \/ KeepsCount(op, c)
    /\ NeedsSecret(op, d) => c.do = "mayActivate" \/ NeedsSecret(op, c)

\* x was read from the row of the account u, or is to replace it.
RowOf(u, x) ==
    /\ u \in Registered
    /\ x \in AccountRow
    /\ Codes(x) \subseteq 0..nextId
    /\ x.password = None \/ Invited(u)

HeadReady(q, c) ==
    /\ NeedsRow(q.op, c) => RowOf(q.scope, q.found)
    /\ NeedsCount(q.op, c) => q.found.admin \in BOOLEAN
    /\ NeedsSecret(q.op, c) => RowOf(q.scope, q.found) /\ q.found.secret # 0

\* The calls of a request fit, in themselves, one after the other and at the head.
ProgramFits(q, s) ==
    /\ \A i \in DOMAIN s : CallFits(q, s[i])
    /\ \A i \in DOMAIN s \ {1} : Follows(q.op, s[i - 1], s[i])
Ready(q) ==
    /\ ProgramFits(q, q.todo)
    /\ q.todo # <<>> => HeadReady(q, Head(q.todo))

AccountsInv ==
    /\ RequestsFit
    /\ TablesFit /\ AddressesDiffer /\ InvitesFit
    /\ \A r \in Requests : Ready(req[r])

\* What other requests rely on is never taken back.
Grows ==
    /\ Registered \subseteq Registered'
    /\ \A u \in Users : Invited(u) => Invited(u)'
    /\ nextId \in Nat /\ nextId' \in Nat /\ nextId <= nextId'

KeepsInv == AccountsInv' /\ Grows

-----------------------------------------------------------------------------
(* Programs.                                                                *)

\* Two programs one after the other fit when the second may follow the first.
LEMMA ConcatFits ==
    ASSUME NEW q, NEW s, IsProgram(s), NEW t, IsProgram(t),
           ProgramFits(q, s), ProgramFits(q, t),
           s # <<>> /\ t # <<>> => Follows(q.op, s[Len(s)], t[1])
    PROVE  IsProgram(s \o t) /\ ProgramFits(q, s \o t)
<1> DEFINE p == s \o t
<1>1. /\ IsProgram(p) /\ Len(p) = Len(s) + Len(t)
      /\ \A i \in 1..Len(s) + Len(t) : p[i] = IF i <= Len(s) THEN s[i] ELSE t[i - Len(s)]
  BY ProgramConcat
<1>2. /\ Len(s) \in Nat /\ DOMAIN s = 1..Len(s) /\ (Len(s) = 0 => s = <<>>)
      /\ Len(t) \in Nat /\ DOMAIN t = 1..Len(t) /\ (Len(t) = 0 => t = <<>>)
      /\ DOMAIN p = 1..Len(s) + Len(t)
  <2>1. Len(s) \in Nat /\ DOMAIN s = 1..Len(s) /\ Len(t) \in Nat /\ DOMAIN t = 1..Len(t)
    BY ProgramLength
  <2>2. (Len(s) = 0 => s = <<>>) /\ (Len(t) = 0 => t = <<>>)
    BY DEF IsProgram
  <2>3. DOMAIN p = 1..Len(s) + Len(t)
    BY <1>1, ProgramLength
  <2>4. QED
    BY <2>1, <2>2, <2>3
<1> HIDE DEF p
<1>3. ASSUME NEW i \in DOMAIN p PROVE CallFits(q, p[i])
  <2>1. CASE i <= Len(s)
    BY <1>1, <1>2, <2>1 DEF ProgramFits
  <2>2. CASE i > Len(s)
    <3>1. i - Len(s) \in DOMAIN t /\ p[i] = t[i - Len(s)]
      BY <1>1, <1>2, <2>2
    <3>2. QED
      BY <3>1 DEF ProgramFits
  <2>3. QED
    BY <1>2, <2>1, <2>2
<1>4. ASSUME NEW i \in DOMAIN p \ {1} PROVE Follows(q.op, p[i - 1], p[i])
  <2>1. CASE i <= Len(s)
    <3>1. p[i] = s[i] /\ p[i - 1] = s[i - 1] /\ i \in DOMAIN s \ {1}
      BY <1>1, <1>2, <2>1
    <3>2. QED
      BY <3>1 DEF ProgramFits
  <2>2. CASE i = Len(s) + 1
    <3>1. p[i] = t[1] /\ p[i - 1] = s[Len(s)] /\ s # <<>> /\ t # <<>>
      BY <1>1, <1>2, <2>2
    <3>2. QED
      BY <3>1
  <2>3. CASE i > Len(s) + 1
    <3>1. /\ p[i] = t[i - Len(s)] /\ p[i - 1] = t[(i - Len(s)) - 1]
          /\ i - Len(s) \in DOMAIN t \ {1}
      BY <1>1, <1>2, <2>3
    <3>2. QED
      BY <3>1 DEF ProgramFits
  <2>4. QED
    BY <1>2, <2>1, <2>2, <2>3
<1>5. QED
  BY <1>1, <1>3, <1>4 DEF ProgramFits, p

\* What is left of a program fits, and its first call may follow the one that was made.
LEMMA TailFits ==
    ASSUME NEW q, IsProgram(q.todo), q.todo # <<>>, ProgramFits(q, q.todo), Tail(q.todo) # <<>>
    PROVE  /\ ProgramFits(q, Tail(q.todo))
           /\ Head(Tail(q.todo)) = q.todo[2]
           /\ Head(q.todo) = q.todo[1]
           /\ CallFits(q, q.todo[1]) /\ CallFits(q, q.todo[2])
           /\ Follows(q.op, Head(q.todo), q.todo[2])
<1> DEFINE s == q.todo
           t == Tail(s)
<1>1. /\ Len(s) \in Nat \ {0} /\ DOMAIN s = 1..Len(s) /\ Head(s) = s[1]
      /\ IsProgram(t) /\ Len(t) = Len(s) - 1
      /\ \A i \in 1..Len(s) - 1 : t[i] = s[i + 1]
  BY ProgramTail
<1>2. DOMAIN t = 1..Len(s) - 1 /\ Head(t) = t[1] /\ Len(s) > 1
  BY <1>1, ProgramTail
<1>3. \A i \in DOMAIN t : CallFits(q, t[i])
  BY <1>1, <1>2 DEF ProgramFits
<1>4. ASSUME NEW i \in DOMAIN t \ {1} PROVE Follows(q.op, t[i - 1], t[i])
  <2>1. /\ i - 1 \in 1..Len(s) - 1 /\ i \in 1..Len(s) - 1
        /\ (i - 1) + 1 = i /\ (i + 1) - 1 = i /\ i + 1 \in DOMAIN s \ {1}
    BY <1>1, <1>2
  <2>2. t[i - 1] = s[(i + 1) - 1] /\ t[i] = s[i + 1]
    BY <1>1, <2>1
  <2>3. QED
    BY <2>1, <2>2 DEF ProgramFits
<1>5. CallFits(q, s[1]) /\ CallFits(q, s[2]) /\ Follows(q.op, s[1], s[2])
  BY <1>1, <1>2 DEF ProgramFits
<1>6. QED
  BY <1>1, <1>2, <1>3, <1>4, <1>5 DEF ProgramFits

\* Short programs fit when each of their calls fits and follows the one before it.
LEMMA TwoFit ==
    ASSUME NEW q, NEW a, NEW b, CallFits(q, a), CallFits(q, b), Follows(q.op, a, b)
    PROVE  /\ IsProgram(<<a>>) /\ IsProgram(<<a, b>>)
           /\ ProgramFits(q, <<a>>) /\ ProgramFits(q, <<a, b>>)
<1>1. IsProgram(<<a>>) /\ IsProgram(<<a, b>>)
  BY TuplesArePrograms
<1>2. ProgramFits(q, <<a>>) /\ ProgramFits(q, <<a, b>>)
  BY DEF ProgramFits
<1>3. QED
  BY <1>1, <1>2

\* Three calls of a handler, likewise.
LEMMA ThreeFit ==
    ASSUME NEW q, NEW a, NEW b, NEW c, CallFits(q, a), CallFits(q, b), CallFits(q, c),
           Follows(q.op, a, b), Follows(q.op, b, c)
    PROVE  IsProgram(<<a, b, c>>) /\ ProgramFits(q, <<a, b, c>>)
<1> DEFINE s == <<a, b, c>>
<1>1. IsProgram(s)
  BY TuplesArePrograms
<1>2. \A i \in DOMAIN s : CallFits(q, s[i])
  OBVIOUS
<1>3. \A i \in DOMAIN s \ {1} : Follows(q.op, s[i - 1], s[i])
  OBVIOUS
<1>4. QED
  BY <1>1, <1>2, <1>3 DEF ProgramFits

\* Four.
LEMMA FourFit ==
    ASSUME NEW q, NEW a, NEW b, NEW c, NEW d,
           CallFits(q, a), CallFits(q, b), CallFits(q, c), CallFits(q, d),
           Follows(q.op, a, b), Follows(q.op, b, c), Follows(q.op, c, d)
    PROVE  IsProgram(<<a, b, c, d>>) /\ ProgramFits(q, <<a, b, c, d>>)
<1> DEFINE s == <<a, b, c, d>>
<1>1. IsProgram(s)
  BY TuplesArePrograms
<1>2. \A i \in DOMAIN s : CallFits(q, s[i])
  OBVIOUS
<1>3. \A i \in DOMAIN s \ {1} : Follows(q.op, s[i - 1], s[i])
  OBVIOUS
<1>4. QED
  BY <1>1, <1>2, <1>3 DEF ProgramFits

\* Five.
LEMMA FiveFit ==
    ASSUME NEW q, NEW a, NEW b, NEW c, NEW d, NEW e,
           CallFits(q, a), CallFits(q, b), CallFits(q, c), CallFits(q, d), CallFits(q, e),
           Follows(q.op, a, b), Follows(q.op, b, c), Follows(q.op, c, d), Follows(q.op, d, e)
    PROVE  IsProgram(<<a, b, c, d, e>>) /\ ProgramFits(q, <<a, b, c, d, e>>)
<1> DEFINE s == <<a, b, c, d, e>>
<1>1. IsProgram(s)
  BY TuplesArePrograms
<1>2. \A i \in DOMAIN s : CallFits(q, s[i])
  OBVIOUS
<1>3. \A i \in DOMAIN s \ {1} : Follows(q.op, s[i - 1], s[i])
  OBVIOUS
<1>4. QED
  BY <1>1, <1>2, <1>3 DEF ProgramFits

\* Six: the most that a handler lists at once.
LEMMA SixFit ==
    ASSUME NEW q, NEW a, NEW b, NEW c, NEW d, NEW e, NEW f,
           CallFits(q, a), CallFits(q, b), CallFits(q, c), CallFits(q, d), CallFits(q, e),
           CallFits(q, f), Follows(q.op, a, b), Follows(q.op, b, c), Follows(q.op, c, d),
           Follows(q.op, d, e), Follows(q.op, e, f)
    PROVE  IsProgram(<<a, b, c, d, e, f>>) /\ ProgramFits(q, <<a, b, c, d, e, f>>)
<1> DEFINE s == <<a, b, c, d, e, f>>
<1>1. IsProgram(s)
  BY TuplesArePrograms
<1>2. \A i \in DOMAIN s : CallFits(q, s[i])
  OBVIOUS
<1>3. \A i \in DOMAIN s \ {1} : Follows(q.op, s[i - 1], s[i])
  OBVIOUS
<1>4. QED
  BY <1>1, <1>2, <1>3 DEF ProgramFits

-----------------------------------------------------------------------------
(* Requests.                                                                *)

\* A request that was answered, or has not arrived, relies on nothing.
LEMMA OverIsReady ==
    ASSUME NEW r \in Requests, Over(req'[r])
    PROVE  Ready(req[r])'
<1>1. req'[r].todo = <<>>
  BY FinishedFields DEF Over
<1>2. QED
  BY <1>1 DEF Ready, ProgramFits

\* A program that fits one request fits another with the same operation and scope,
\* or with a scope that is an account.
LEMMA FitsAlike ==
    ASSUME NEW p, NEW q, NEW s, ProgramFits(p, s), q.op = p.op,
           q.scope = p.scope \/ q.scope \in Users
    PROVE  ProgramFits(q, s)
BY DEF ProgramFits, CallFits

\* A request that goes on is ready for its next call.
LEMMA GoesOnReady ==
    ASSUME RequestsFit, NEW r \in Requests, Ready(req[r]), Pending(r), NEW s, NEW x,
           s = req[r].scope \/ s \in Users, GoesOn(r, s, x),
           \A d : Follows(req[r].op, Head(req[r].todo), d) => HeadReady(req[r], d)'
    PROVE  Ready(req[r])'
<1> DEFINE q == req[r]
           p == req'[r]
<1>1. IsProgram(q.todo) /\ q.todo # <<>> /\ ProgramFits(q, q.todo)
  BY DEF RequestsFit, RequestsOK, Ready
<1>2. /\ p.op = q.op /\ p.scope = s /\ p.todo = Tail(q.todo) /\ Tail(q.todo) # <<>>
  BY DEF GoesOn, Holds
<1>3. /\ ProgramFits(q, Tail(q.todo)) /\ Head(Tail(q.todo)) = q.todo[2]
      /\ Follows(q.op, Head(q.todo), q.todo[2])
  BY <1>1, <1>2, TailFits
<1>4. ProgramFits(p, p.todo)
  BY <1>2, <1>3, FitsAlike
<1>5. PICK d : d = q.todo[2]
  OBVIOUS
<1>6. HeadReady(req[r], d)' /\ Head(p.todo) = d
  BY <1>2, <1>3, <1>5
<1>7. ProgramFits(req[r], req[r].todo)'
  BY <1>4 DEF ProgramFits, CallFits, Follows, NeedsRow, NeedsCount, NeedsSecret, KeepsCount
<1>8. QED
  BY <1>6, <1>7 DEF Ready

\* What is read of a row stays of use.
LEMMA RowStays ==
    ASSUME Grows, NEW u, NEW x, RowOf(u, x)
    PROVE  RowOf(u, x)'
<1>1. u \in Registered' /\ x \in AccountRow
  BY DEF Grows, RowOf
<1>2. Codes(x) \subseteq 0..nextId'
  BY DEF Grows, RowOf
<1>3. x.password = None \/ Invited(u)'
  BY DEF Grows, RowOf, Registered
<1>4. QED
  BY <1>1, <1>2, <1>3 DEF RowOf, Codes

\* A step of r that lets the tables grow leaves the other requests ready.
LEMMA StepKeepsInv ==
    ASSUME AccountsInv, NEW r \in Requests, OnlyMoves(r), Ready(req[r])', Grows,
           TablesFit', AddressesDiffer', InvitesFit'
    PROVE  KeepsInv
<1>1. ASSUME NEW t \in Requests \ {r} PROVE Ready(req[t])'
  <2>1. Ready(req[t]) /\ req'[t] = req[t]
    BY DEF AccountsInv, OnlyMoves
  <2>2. ProgramFits(req[t], req[t].todo)'
    BY <2>1 DEF Ready, ProgramFits, CallFits, Follows, NeedsRow, NeedsCount, NeedsSecret, KeepsCount
  <2>3. ASSUME req[t].todo # <<>> PROVE HeadReady(req[t], Head(req[t].todo))'
    BY <2>1, <2>3, RowStays DEF Ready, HeadReady, NeedsRow, NeedsCount, NeedsSecret, KeepsCount
  <2>4. QED
    BY <2>1, <2>2, <2>3 DEF Ready
<1>2. QED
  BY <1>1 DEF AccountsInv, OnlyMoves, KeepsInv

\* A step that writes neither accounts nor invites, but may mail and take fresh codes.
LEMMA NoWrite ==
    ASSUME TablesFit, AddressesDiffer, InvitesFit, UNCHANGED <<account, invite>>,
           nextId' \in Nat, nextId <= nextId',
           sent' \subseteq [kind: {"verify", "reset"}, code: 1..nextId', to: Emails]
    PROVE  TablesFit' /\ AddressesDiffer' /\ InvitesFit' /\ Grows
<1>1. TablesFit'
  BY DEF TablesFit, Codes
<1>2. AddressesDiffer' /\ InvitesFit'
  BY DEF AddressesDiffer, InvitesFit, Registered, Invited
<1>3. Grows
  BY DEF TablesFit, Grows, Registered, Invited
<1>4. QED
  BY <1>1, <1>2, <1>3

\* Two ways for a request to end a step: with an answer, or with its next call, for
\* which it needs nothing that it did not need for this one.
LEMMA AnswerReady ==
    ASSUME RequestsFit, NEW r \in Requests, NEW reply \in Replies, Answer(r, reply)
    PROVE  OnlyMoves(r) /\ Ready(req[r])'
BY AnswerStep, OverIsReady

\* A call that leaves nothing new in memory leaves what the next one needs.
LEMMA DoneReady ==
    ASSUME RequestsFit, NEW r \in Requests, Pending(r), Ready(req[r]), Done(r), Grows,
           Head(req[r].todo).do \notin RowReads \cup {"countUsers", "mayActivate"}
    PROVE  OnlyMoves(r) /\ Ready(req[r])'
<1>1. OnlyMoves(r) /\ (Over(req'[r]) \/ GoesOn(r, req[r].scope, req[r].found))
  BY DoneStep
<1>2. HeadReady(req[r], Head(req[r].todo))
  BY DEF Ready, RequestsFit, RequestsOK
<1>3. CASE GoesOn(r, req[r].scope, req[r].found)
  <2>1. ASSUME NEW d, Follows(req[r].op, Head(req[r].todo), d)
        PROVE  HeadReady(req[r], d)'
    <3>1. /\ NeedsRow(req[r].op, d) => NeedsRow(req[r].op, Head(req[r].todo))
          /\ NeedsCount(req[r].op, d) => NeedsCount(req[r].op, Head(req[r].todo))
          /\ NeedsSecret(req[r].op, d) => NeedsSecret(req[r].op, Head(req[r].todo))
      BY <2>1 DEF Follows, NeedsCount
    <3>2. /\ req'[r].op = req[r].op /\ req'[r].scope = req[r].scope
          /\ req'[r].found = req[r].found
      BY <1>3 DEF GoesOn, Holds
    <3>3. QED
      BY <1>2, <3>1, <3>2, RowStays DEF HeadReady, NeedsRow, NeedsCount, NeedsSecret, KeepsCount
  <2>2. QED
    BY <1>1, <1>3, <2>1, GoesOnReady
<1>4. QED
  BY <1>1, <1>3, OverIsReady

\* A request that goes on with the row of its account in memory.
LEMMA RowReady ==
    ASSUME RequestsFit, NEW r \in Requests, Pending(r), Ready(req[r]), NEW u, NEW x,
           u = req[r].scope \/ u \in Users, GoesOn(r, u, x), RowOf(u, x)',
           Head(req[r].todo).do \in RowReads \cup (RowCalls \ {"mayActivate"})
    PROVE  Ready(req[r])'
<1>1. ASSUME NEW d, Follows(req[r].op, Head(req[r].todo), d)
      PROVE  HeadReady(req[r], d)'
  <2>1. ~NeedsCount(req[r].op, d) /\ ~NeedsSecret(req[r].op, d)
    BY <1>1 DEF Follows, NeedsCount, NeedsSecret, KeepsCount, RowReads, RowCalls
  <2>2. req'[r].op = req[r].op /\ req'[r].scope = u /\ req'[r].found = x
    BY DEF GoesOn, Holds
  <2>3. QED
    BY <2>1, <2>2 DEF HeadReady, NeedsRow, NeedsCount, NeedsSecret, KeepsCount
<1>2. QED
  BY <1>1, GoesOnReady

\* A request that branches to calls that fit, the first of which finds what it needs.
LEMMA ContinueReady ==
    ASSUME RequestsFit, NEW r \in Requests, Pending(r), Grows,
           NEW op, op = req[r].op, NEW s, NEW x, NEW program, IsProgram(program),
           ProgramFits([op |-> op, scope |-> s], program),
           program # <<>> =>
             HeadReady([op |-> op, scope |-> s, found |-> x], program[1]),
           Continue(r, s, x, program)
    PROVE  OnlyMoves(r) /\ Ready(req[r])'
<1>1. /\ OnlyMoves(r)
      /\ \/ Over(req'[r])
         \/ program # <<>> /\ Holds(req'[r], req[r].op, req[r].caller, s, x, program)
  BY ContinueStep
<1>2. CASE program # <<>> /\ Holds(req'[r], req[r].op, req[r].caller, s, x, program)
  <2>1. /\ req'[r].op = op /\ req'[r].scope = s /\ req'[r].found = x
        /\ req'[r].todo = program
    BY <1>2 DEF Holds
  <2>2. Head(program) = program[1]
    BY <1>2, ProgramTail
  <2>3. ProgramFits(req[r], req[r].todo)'
    BY <2>1 DEF ProgramFits, CallFits, Follows, NeedsRow, NeedsCount, NeedsSecret, KeepsCount
  <2>4. HeadReady(req[r], Head(req[r].todo))'
    <3>1. HeadReady([op |-> op, scope |-> s, found |-> x], program[1])
      BY <1>2
    <3>2. QED
      BY <2>1, <2>2, <3>1, RowStays DEF HeadReady, NeedsRow, NeedsCount, NeedsSecret, KeepsCount
  <2>5. QED
    BY <1>1, <2>3, <2>4 DEF Ready
<1>3. QED
  BY <1>1, <1>2, OverIsReady

\* A request that arrives with calls that fit, the first of which needs nothing.
LEMMA BeginKeepsInv ==
    ASSUME AccountsInv, NEW r \in Requests, NEW op, NEW caller, NEW scope, NEW program,
           IsProgram(program), program # <<>>,
           ProgramFits([op |-> op, scope |-> scope], program),
           ~NeedsRow(op, program[1]), ~NeedsCount(op, program[1]), ~NeedsSecret(op, program[1]),
           Begin(r, op, caller, scope, program), UNCHANGED <<account, invite, sent, nextId>>
    PROVE  KeepsInv
<1>1. OnlyMoves(r) /\ Holds(req'[r], op, caller, scope, None, program)
  BY BeginStep DEF AccountsInv
<1>2. /\ req'[r].op = op /\ req'[r].scope = scope /\ req'[r].todo = program
      /\ Head(program) = program[1]
  BY <1>1, ProgramTail DEF Holds
<1>3. Ready(req[r])'
  <2>1. ProgramFits(req[r], req[r].todo)'
    BY <1>2 DEF ProgramFits, CallFits, Follows, NeedsRow, NeedsCount, NeedsSecret, KeepsCount
  <2>2. HeadReady(req[r], Head(req[r].todo))'
    BY <1>2 DEF HeadReady, NeedsRow, NeedsCount, NeedsSecret, KeepsCount
  <2>3. QED
    BY <2>1, <2>2 DEF Ready
<1>4. nextId' \in Nat /\ nextId <= nextId'
      /\ sent' \subseteq [kind: {"verify", "reset"}, code: 1..nextId', to: Emails]
  BY DEF AccountsInv, TablesFit
<1>5. QED
  BY <1>1, <1>3, <1>4, NoWrite, StepKeepsInv DEF AccountsInv

-----------------------------------------------------------------------------
(* Writes.                                                                  *)

\* An account that is enabled, or just not absent, has a row.
LEMMA RegisteredRow ==
    ASSUME TablesFit, NEW u \in Users, u \in Registered \/ account[u].enabled
    PROVE  u \in Registered /\ account[u] \in AccountRow
BY DEF TablesFit, Registered, NoAccount, AccountRow

\* What the table has of an account may be read into memory.
LEMMA RowOfAccount ==
    ASSUME TablesFit, InvitesFit, NEW u \in Users, u \in Registered \/ account[u].enabled
    PROVE  RowOf(u, account[u])
BY RegisteredRow DEF TablesFit, InvitesFit, RowOf

\* A row that the index admits may be written.
LEMMA RowPut ==
    ASSUME AccountsInv, NEW u \in Users, NEW row \in AccountRow,
           nextId' \in Nat, nextId <= nextId', Codes(row) \subseteq 0..nextId',
           EmailIndexAdmits(u, row.email),
           account' = [account EXCEPT ![u] = row], UNCHANGED sent
    PROVE  /\ TablesFit' /\ AddressesDiffer'
           /\ Registered' = Registered \cup {u}
           /\ account'[u] = row /\ \A v \in Users \ {u} : account'[v] = account[v]
<1> USE DEF AccountsInv
<1>1. row # NoAccount
  BY AccountsAssumption DEF AccountRow, NoAccount
<1>2. account'[u] = row /\ \A v \in Users \ {u} : account'[v] = account[v]
  BY DEF TablesFit
<1>3. Registered' = Registered \cup {u}
  BY <1>1, <1>2 DEF Registered
<1>4. TablesFit'
  <2>1. account' \in [Users -> AccountRow \cup {NoAccount}]
    BY DEF TablesFit
  <2>2. \A v \in Users : Codes(account'[v]) \subseteq 0..nextId'
    BY <1>2 DEF TablesFit
  <2>3. QED
    BY <2>1, <2>2 DEF TablesFit, Codes
<1>5. AddressesDiffer'
  BY <1>2, <1>3 DEF AddressesDiffer, EmailIndexAdmits, Registered
<1>6. QED
  BY <1>2, <1>3, <1>4, <1>5

\* A row of an account that has no password, or may have one, is saved or created.
LEMMA RowWritten ==
    ASSUME AccountsInv, NEW u \in Users, NEW row \in AccountRow,
           nextId' \in Nat, nextId <= nextId', Codes(row) \subseteq 0..nextId',
           EmailIndexAdmits(u, row.email), row.password = None \/ Invited(u),
           account' = [account EXCEPT ![u] = row], UNCHANGED <<invite, sent>>
    PROVE  TablesFit' /\ AddressesDiffer' /\ InvitesFit' /\ Grows /\ RowOf(u, row)'
<1>1. /\ TablesFit' /\ AddressesDiffer' /\ Registered' = Registered \cup {u}
      /\ account'[u] = row /\ \A v \in Users \ {u} : account'[v] = account[v]
  BY RowPut
<1>2. \A v \in Users : Invited(v) => Invited(v)'
  BY DEF Invited
<1>3. InvitesFit'
  BY <1>1, <1>2 DEF AccountsInv, InvitesFit, Registered
<1>4. Grows
  BY <1>1, <1>2 DEF Grows, AccountsInv, TablesFit
<1>5. RowOf(u, row)'
  BY <1>1, <1>2 DEF RowOf, Codes
<1>6. QED
  BY <1>1, <1>3, <1>4, <1>5

\* A request that writes no table keeps the invariant by staying ready.
LEMMA NoWriteKeepsInv ==
    ASSUME AccountsInv, NEW r \in Requests, OnlyMoves(r), Ready(req[r])',
           UNCHANGED <<account, invite, sent, nextId>>
    PROVE  KeepsInv
<1>1. nextId' \in Nat /\ nextId <= nextId'
      /\ sent' \subseteq [kind: {"verify", "reset"}, code: 1..nextId', to: Emails]
  BY DEF AccountsInv, TablesFit
<1>2. QED
  BY <1>1, NoWrite, StepKeepsInv DEF AccountsInv

-----------------------------------------------------------------------------
(* The requests that arrive.                                                *)

\* Registrations, invites and external logins.
LEMMA RegistrationArrives ==
    ASSUME AccountsInv, NEW r \in Requests,
           RegisterUser(r) \/ RegisterInvite(r) \/ APIDeleteInvite(r) \/ OIDCCallback(r)
    PROVE  KeepsInv
<1> USE DEF CallFits, Follows, NeedsRow, NeedsCount, NeedsSecret, KeepsCount,
            RowCalls, RowReads, ScopedCalls, Call, Accept, accountTables
<1>1. CASE RegisterUser(r)
  <2> DEFINE q == [op |-> "RegisterUser", scope |-> None]
  <2>1. PICK e \in Emails, p \in Passwords, i \in Invites :
           Accept(r, "RegisterUser", None, None,
             <<Call("countUsers", None), Call("inviteUnused", i), Call("emailFree", e),
               Call("createUser", [email |-> e, password |-> p, invite |-> i])>>
               \o IF SMTPEnabled THEN <<Call("mailCode", None)>> ELSE <<>>)
    BY <1>1 DEF RegisterUser
  <2>2. PICK a, b, c, d, m, s, t :
           /\ a = Call("countUsers", None) /\ b = Call("inviteUnused", i)
           /\ c = Call("emailFree", e) /\ m = Call("mailCode", None)
           /\ d = Call("createUser", [email |-> e, password |-> p, invite |-> i])
           /\ s = <<a, b, c, d>> /\ t = IF SMTPEnabled THEN <<m>> ELSE <<>>
    OBVIOUS
  <2>3. /\ CallFits(q, a) /\ CallFits(q, b) /\ CallFits(q, c) /\ CallFits(q, d)
        /\ CallFits(q, m)
    BY <2>2
  <2>4. /\ Follows(q.op, a, b) /\ Follows(q.op, b, c) /\ Follows(q.op, c, d)
        /\ Follows(q.op, d, m)
    BY <2>2
  <2>5. IsProgram(s) /\ ProgramFits(q, s)
    BY <2>2, <2>3, <2>4, FourFit
  <2>6. IsProgram(t) /\ ProgramFits(q, t)
    BY <2>2, <2>3, TuplesArePrograms DEF ProgramFits
  <2>7. Len(s) = 4 /\ s # <<>> /\ s[4] = d /\ s[1] = a /\ (t # <<>> => t[1] = m)
    BY <2>2
  <2>8. IsProgram(s \o t) /\ ProgramFits(q, s \o t)
    BY <2>4, <2>5, <2>6, <2>7, ConcatFits
  <2>9. (s \o t)[1] = a /\ s \o t # <<>>
    BY <2>5, <2>6, <2>7, ConcatHead
  <2>10. Begin(r, "RegisterUser", None, None, s \o t)
         /\ UNCHANGED <<account, invite, sent, nextId>>
    BY <2>1, <2>2
  <2>11. PICK program : program = s \o t
    OBVIOUS
  <2>12. ~NeedsRow("RegisterUser", a) /\ ~NeedsCount("RegisterUser", a)
         /\ ~NeedsSecret("RegisterUser", a)
    BY <2>2
  <2>13. QED
    BY <2>8, <2>9, <2>10, <2>11, <2>12, BeginKeepsInv
<1>2. CASE RegisterInvite(r)
  <2>1. PICK u \in Users : Accept(r, "RegisterInvite", u, None, <<Call("createInvite", None)>>)
    BY <1>2 DEF RegisterInvite
  <2>2. IsProgram(<<Call("createInvite", None)>>)
    BY TuplesArePrograms
  <2>3. ProgramFits([op |-> "RegisterInvite", scope |-> None], <<Call("createInvite", None)>>)
    BY DEF ProgramFits
  <2>4. QED
    BY <2>1, <2>2, <2>3, BeginKeepsInv
<1>3. CASE APIDeleteInvite(r)
  <2> DEFINE s(i) == <<Call("inviteDeletable", i), Call("disableInvite", i)>>
  <2>1. PICK u \in Users, i \in Invites : Accept(r, "APIDeleteInvite", u, None, s(i))
    BY <1>3 DEF APIDeleteInvite
  <2>2. IsProgram(s(i)) /\ ProgramFits([op |-> "APIDeleteInvite", scope |-> None], s(i))
    BY TwoFit
  <2>3. QED
    BY <2>1, <2>2, BeginKeepsInv
<1>4. CASE OIDCCallback(r)
  <2>1. PICK s \in Subjects, e \in Emails, v \in BOOLEAN :
           Accept(r, "OIDCCallback", None, None,
             <<Call("findSubject", [subject |-> s, email |-> e, verified |-> v])>>)
    BY <1>4 DEF OIDCCallback
  <2>2. PICK c : c = Call("findSubject", [subject |-> s, email |-> e, verified |-> v])
    OBVIOUS
  <2>3. c.do = "findSubject" /\ c.arg \in Identity
    BY <2>2 DEF Identity
  <2>4. IsProgram(<<c>>) /\ ProgramFits([op |-> "OIDCCallback", scope |-> None], <<c>>)
    BY <2>3, TuplesArePrograms DEF ProgramFits
  <2>5. QED
    BY <2>1, <2>2, <2>3, <2>4, BeginKeepsInv
<1>5. QED
  BY <1>1, <1>2, <1>3, <1>4

\* Requests about an account there is.
LEMMA AccountRequestArrives ==
    ASSUME AccountsInv, NEW r \in Requests,
           \/ VerifyUser(r) \/ SendUserVerificationCode(r) \/ UpdateUser(r)
           \/ APIDeleteUser(r) \/ APIResetPassword(r) \/ APIChangePassword(r)
    PROVE  KeepsInv
<1> USE DEF CallFits, Follows, NeedsRow, NeedsCount, NeedsSecret, KeepsCount,
            RowCalls, RowReads, ScopedCalls, Call, Accept, accountTables
<1>1. CASE VerifyUser(r)
  <2>1. PICK u \in Users, m \in sent :
           Accept(r, "VerifyUser", u, u,
             <<Call("readUser", None), Call("codeMatches", m.code),
               Call("setVerified", TRUE), Call("readUser", None)>>)
    BY <1>1 DEF VerifyUser, Registered
  <2>2. PICK a, b, c :
           /\ a = Call("readUser", None) /\ b = Call("codeMatches", m.code)
           /\ c = Call("setVerified", TRUE)
    OBVIOUS
  <2> DEFINE q == [op |-> "VerifyUser", scope |-> u]
  <2>3. CallFits(q, a) /\ CallFits(q, b) /\ CallFits(q, c)
    BY <2>2
  <2>4. Follows(q.op, a, b) /\ Follows(q.op, b, c) /\ Follows(q.op, c, a)
    BY <2>2
  <2>5. IsProgram(<<a, b, c, a>>) /\ ProgramFits(q, <<a, b, c, a>>)
    BY <2>3, <2>4, FourFit
  <2>6. QED
    BY <2>1, <2>2, <2>5, BeginKeepsInv
<1>2. CASE SendUserVerificationCode(r)
  <2>1. PICK u \in Users :
           Accept(r, "SendUserVerificationCode", u, u,
             <<Call("readUser", None), Call("newCode", None),
               Call("readUser", None), Call("mailCode", None)>>)
    BY <1>2 DEF SendUserVerificationCode, Registered
  <2>2. PICK a, b, c :
           /\ a = Call("readUser", None) /\ b = Call("newCode", None)
           /\ c = Call("mailCode", None)
    OBVIOUS
  <2>3. /\ IsProgram(<<a, b, a, c>>)
        /\ ProgramFits([op |-> "SendUserVerificationCode", scope |-> u], <<a, b, a, c>>)
    BY <2>2, FourFit
  <2>4. QED
    BY <2>1, <2>2, <2>3, BeginKeepsInv
<1>3. CASE UpdateUser(r)
  <2>1. PICK u \in Users, e \in Emails, p \in Passwords, n \in Passwords \cup {None} :
           Accept(r, "UpdateUser", u, u,
             <<Call("readUser", None), Call("knowsPassword", p),
               Call("readToEdit", [email |-> e, password |-> n])>>)
    BY <1>3 DEF UpdateUser, Registered
  <2>2. PICK a, b, c :
           /\ a = Call("readUser", None) /\ b = Call("knowsPassword", p)
           /\ c = Call("readToEdit", [email |-> e, password |-> n])
    OBVIOUS
  <2>3. IsProgram(<<a, b, c>>) /\ ProgramFits([op |-> "UpdateUser", scope |-> u], <<a, b, c>>)
    BY <2>2, ThreeFit
  <2>4. QED
    BY <2>1, <2>2, <2>3, BeginKeepsInv
<1>4. CASE APIDeleteUser(r)
  <2>1. PICK u \in Users, v \in Users :
           Accept(r, "APIDeleteUser", u, v,
             <<Call("readToDisable", None), Call("saveUser", None)>>)
    BY <1>4 DEF APIDeleteUser
  <2>2. PICK a, b : a = Call("readToDisable", None) /\ b = Call("saveUser", None)
    OBVIOUS
  <2> DEFINE q == [op |-> "APIDeleteUser", scope |-> v]
  <2>3. CallFits(q, a) /\ CallFits(q, b) /\ Follows(q.op, a, b)
    BY <2>2
  <2>4. IsProgram(<<a, b>>) /\ ProgramFits(q, <<a, b>>)
    BY <2>3, TwoFit
  <2>5. QED
    BY <2>1, <2>2, <2>4, BeginKeepsInv
<1>5. CASE APIResetPassword(r)
  <2> DEFINE s(e) == <<Call("findToReset", e)>>
  <2>1. PICK e \in Emails : Accept(r, "APIResetPassword", None, None, s(e))
    BY <1>5 DEF APIResetPassword
  <2>2. IsProgram(s(e))
    BY TuplesArePrograms
  <2>3. ProgramFits([op |-> "APIResetPassword", scope |-> None], s(e))
    BY DEF ProgramFits
  <2>4. QED
    BY <2>1, <2>2, <2>3, BeginKeepsInv
<1>6. CASE APIChangePassword(r)
  <2>1. PICK m \in sent, p \in Passwords :
           Accept(r, "APIChangePassword", None, None,
             <<Call("findReset", [code |-> m.code, password |-> p]), Call("saveUser", None),
               Call("newReset", None), Call("setOpen", FALSE)>>)
    BY <1>6 DEF APIChangePassword, ChangePasswordCalls
  <2>2. PICK a, b, c, d :
           /\ a = Call("findReset", [code |-> m.code, password |-> p])
           /\ b = Call("saveUser", None) /\ c = Call("newReset", None)
           /\ d = Call("setOpen", FALSE)
    OBVIOUS
  <2>3. /\ IsProgram(<<a, b, c, d>>)
        /\ ProgramFits([op |-> "APIChangePassword", scope |-> None], <<a, b, c, d>>)
    BY <2>2, FourFit
  <2>4. QED
    BY <2>1, <2>2, <2>3, BeginKeepsInv
<1>7. QED
  BY <1>1, <1>2, <1>3, <1>4, <1>5, <1>6

-----------------------------------------------------------------------------
(* The steps that write no account.                                         *)

\* A request that is being handled finds what its next call needs.
LEMMA NextCall ==
    ASSUME AccountsInv, NEW r \in Requests, Pending(r)
    PROVE  LET q == req[r]
               c == Head(q.todo)
           IN  /\ q.todo # <<>>
               /\ CallFits(q, c)
               /\ HeadReady(q, c)
               /\ c.do \in ScopedCalls => q.scope \in Users
<1>1. req[r].todo # <<>> /\ IsProgram(req[r].todo) /\ Ready(req[r])
  BY DEF AccountsInv, RequestsFit, RequestsOK
<1>2. Head(req[r].todo) = req[r].todo[1] /\ 1 \in DOMAIN req[r].todo
  BY <1>1, ProgramTail
<1>3. CallFits(req[r], Head(req[r].todo))
  BY <1>1, <1>2 DEF Ready, ProgramFits
<1>4. QED
  BY <1>1, <1>3 DEF Ready, CallFits

\* A request that is answered, or that has made a call which neither read nor wrote.
LEMMA AnswerKeepsInv ==
    ASSUME AccountsInv, NEW r \in Requests, NEW reply \in Replies, Answer(r, reply),
           UNCHANGED <<account, invite, sent, nextId>>
    PROVE  KeepsInv
BY AnswerReady, NoWriteKeepsInv DEF AccountsInv

\* A call that writes nothing leaves every request as ready as it was.
LEMMA DoneKeepsInv ==
    ASSUME AccountsInv, NEW r \in Requests, Pending(r), Done(r),
           Head(req[r].todo).do \notin RowReads \cup {"countUsers", "mayActivate"},
           UNCHANGED <<account, invite, sent, nextId>>
    PROVE  KeepsInv
<1>1. Grows
  BY DEF AccountsInv, TablesFit, Grows, Registered, Invited
<1>2. QED
  BY <1>1, DoneReady, NoWriteKeepsInv DEF AccountsInv

\* The row of its account is read, or changed in memory.
LEMMA RowKeepsInv ==
    ASSUME AccountsInv, NEW r \in Requests, Pending(r), NEW x, Remember(r, x),
           RowOf(req[r].scope, x), Head(req[r].todo).do \in RowReads,
           UNCHANGED <<account, invite, sent, nextId>>
    PROVE  KeepsInv
<1>1. PICK u : u = req[r].scope
  OBVIOUS
<1>2. OnlyMoves(r) /\ (Over(req'[r]) \/ GoesOn(r, u, x))
  BY <1>1, RememberStep DEF AccountsInv
<1>3. RowOf(u, x)'
  BY <1>1 DEF RowOf, Registered, Invited
<1>4. Ready(req[r])'
  <2>1. CASE GoesOn(r, u, x)
    BY <1>1, <1>3, <2>1, RowReady DEF AccountsInv
  <2>2. QED
    BY <1>2, <2>1, OverIsReady
<1>5. QED
  BY <1>2, <1>4, NoWriteKeepsInv

\* The checks.
LEMMA AccountCheckKeepsInv ==
    ASSUME AccountsInv, NEW r \in Requests, AccountCheck(r)
    PROVE  KeepsInv
<1>1. /\ Pending(r)
      /\ Head(req[r].todo).do \in {"inviteUnused", "emailFree", "codeMatches",
                                   "knowsPassword", "inviteDeletable"}
      /\ Done(r) \/ Answer(r, "refused")
  BY DEF AccountCheck, Guarded, Done, Answer
<1>2. UNCHANGED <<account, invite, sent, nextId>>
  BY DEF AccountCheck, accountTables
<1>3. QED
  BY <1>1, <1>2, AnswerKeepsInv, DoneKeepsInv DEF Replies, RowReads

\* GetAllUserInformation and ReadToDisable read a row, GetAmountOfEnabledUsers counts.
LEMMA ReadKeepsInv ==
    ASSUME AccountsInv, NEW r \in Requests,
           GetAllUserInformation(r) \/ ReadToDisable(r) \/ GetAmountOfEnabledUsers(r)
    PROVE  KeepsInv
<1> USE DEF accountTables, Replies
<1>1. CASE GetAllUserInformation(r)
  <2>1. /\ Pending(r) /\ Head(req[r].todo).do \in {"readUser", "readQuietly"}
        /\ UNCHANGED <<account, invite, sent, nextId>>
    BY <1>1 DEF GetAllUserInformation, At
  <2>2. CASE \E reply \in Replies : Answer(r, reply)
    BY <2>1, <2>2, AnswerKeepsInv
  <2>3. CASE account[req[r].scope].enabled /\ Remember(r, account[req[r].scope])
    <3>1. req[r].scope \in Users
      BY <2>1, NextCall DEF ScopedCalls
    <3>2. RowOf(req[r].scope, account[req[r].scope])
      BY <2>3, <3>1, RowOfAccount DEF AccountsInv
    <3>3. QED
      BY <2>1, <2>3, <3>2, RowKeepsInv DEF RowReads
  <2>4. QED
    BY <1>1, <2>2, <2>3 DEF GetAllUserInformation
<1>2. CASE ReadToDisable(r)
  <2> DEFINE u == req[r].scope
             x == [account[u] EXCEPT !.enabled = FALSE]
  <2>1. /\ Pending(r) /\ Head(req[r].todo).do = "readToDisable"
        /\ UNCHANGED <<account, invite, sent, nextId>>
    BY <1>2 DEF ReadToDisable, At
  <2>2. CASE Answer(r, "refused")
    BY <2>1, <2>2, AnswerKeepsInv
  <2>3. CASE account[u].enabled /\ Remember(r, x)
    <3>1. u \in Users
      BY <2>1, NextCall DEF ScopedCalls
    <3>2. RowOf(u, account[u])
      BY <2>3, <3>1, RowOfAccount DEF AccountsInv
    <3>3. RowOf(u, x)
      BY <3>2 DEF RowOf, AccountRow, Codes
    <3>4. QED
      BY <2>1, <2>3, <3>3, RowKeepsInv DEF RowReads
  <2>4. QED
    BY <1>2, <2>2, <2>3 DEF ReadToDisable
<1>3. CASE GetAmountOfEnabledUsers(r)
  <2> DEFINE x == [admin |-> \A u \in Users : ~account[u].enabled]
  <2>1. /\ Pending(r) /\ Head(req[r].todo).do = "countUsers" /\ Remember(r, x)
        /\ UNCHANGED <<account, invite, sent, nextId>>
    BY <1>3 DEF GetAmountOfEnabledUsers, At
  <2>2. PICK s, y : s = req[r].scope /\ y = x
    OBVIOUS
  <2>3. y.admin \in BOOLEAN
    BY <2>2
  <2> HIDE DEF x
  <2>4. OnlyMoves(r) /\ (Over(req'[r]) \/ GoesOn(r, s, y))
    BY <2>1, <2>2, RememberStep DEF AccountsInv
  <2>5. CASE GoesOn(r, s, y)
    <3>1. ASSUME NEW d, Follows(req[r].op, Head(req[r].todo), d)
          PROVE  HeadReady(req[r], d)'
      <4>1. ~NeedsRow(req[r].op, d) /\ ~NeedsSecret(req[r].op, d)
        BY <2>1, <3>1 DEF Follows, NeedsRow, NeedsSecret, RowReads, RowCalls
      <4>2. req'[r].op = req[r].op /\ req'[r].found = y
        BY <2>5 DEF GoesOn, Holds
      <4>3. QED
        BY <2>3, <4>1, <4>2 DEF HeadReady, NeedsRow, NeedsCount, NeedsSecret, KeepsCount
    <3>2. Ready(req[r])'
      BY <2>1, <2>2, <2>5, <3>1, GoesOnReady DEF AccountsInv
    <3>3. QED
      BY <2>1, <2>4, <3>2, NoWriteKeepsInv
  <2>6. QED
    BY <2>1, <2>4, <2>5, OverIsReady, NoWriteKeepsInv
<1>4. QED
  BY <1>1, <1>2, <1>3

\* External logins: a known identity is answered, any other looked for by its address.
LEMMA LoginKeepsInv ==
    ASSUME AccountsInv, NEW r \in Requests, FindSubject(r) \/ FindAddress(r)
    PROVE  KeepsInv
<1> DEFINE x == Arg(r)
           c == Head(req[r].todo)
<1> USE DEF accountTables, Replies
<1>1. /\ Pending(r) /\ c.do \in {"findSubject", "findAddress"}
      /\ UNCHANGED <<account, invite, sent, nextId>>
  BY DEF FindSubject, FindAddress, At
<1>2. x \in Identity
  BY <1>1, NextCall DEF CallFits, Arg
<1>3. Grows
  BY <1>1 DEF AccountsInv, TablesFit, Grows, Registered, Invited
<1>4. PICK op, i : op = req[r].op /\ i = x
  OBVIOUS
<1>5. CASE \E reply \in Replies : Answer(r, reply)
  BY <1>1, <1>5, AnswerKeepsInv
<1> USE DEF CallFits, Follows, NeedsRow, NeedsCount, NeedsSecret, KeepsCount,
            RowCalls, RowReads, ScopedCalls, Call
<1>6. CASE Continue(r, None, None, <<Call("findAddress", x)>>)
  <2>1. PICK a : a = Call("findAddress", i)
    OBVIOUS
  <2>2. IsProgram(<<a>>) /\ ProgramFits([op |-> op, scope |-> None], <<a>>)
    BY <1>2, <1>4, <2>1, TuplesArePrograms DEF ProgramFits
  <2>3. HeadReady([op |-> op, scope |-> None, found |-> None], a)
    BY <2>1 DEF HeadReady
  <2>4. Continue(r, None, None, <<a>>)
    BY <1>4, <1>6, <2>1
  <2>5. OnlyMoves(r) /\ Ready(req[r])'
    BY <1>1, <1>3, <1>4, <2>2, <2>3, <2>4, ContinueReady DEF AccountsInv
  <2>6. QED
    BY <1>1, <2>5, NoWriteKeepsInv
<1>7. CASE \E u \in findEnabledUserByEmail(x.email) :
              Continue(r, u, None, <<Call("link", x.subject), Call("readUser", None)>>)
  <2>1. PICK u \in Users :
           Continue(r, u, None, <<Call("link", x.subject), Call("readUser", None)>>)
    BY <1>7 DEF findEnabledUserByEmail
  <2>2. PICK a, b : a = Call("link", i.subject) /\ b = Call("readUser", None)
    OBVIOUS
  <2> DEFINE q == [op |-> op, scope |-> u]
  <2>3. CallFits(q, a) /\ CallFits(q, b) /\ Follows(q.op, a, b)
    BY <1>2, <1>4, <2>2 DEF Identity
  <2>4. IsProgram(<<a, b>>) /\ ProgramFits(q, <<a, b>>)
    BY <2>3, TwoFit
  <2>5. HeadReady([op |-> op, scope |-> u, found |-> None], a)
    BY <2>2 DEF HeadReady
  <2>6. Continue(r, u, None, <<a, b>>)
    BY <1>4, <2>1, <2>2
  <2>7. OnlyMoves(r) /\ Ready(req[r])'
    BY <1>1, <1>3, <1>4, <2>4, <2>5, <2>6, ContinueReady DEF AccountsInv
  <2>8. QED
    BY <1>1, <2>7, NoWriteKeepsInv
<1>8. CASE Continue(r, None, None, <<Call("countUsers", None), Call("createExternal", x)>>)
  <2>1. PICK a, b : a = Call("countUsers", None) /\ b = Call("createExternal", i)
    OBVIOUS
  <2> DEFINE q == [op |-> op, scope |-> None]
  <2>2. CallFits(q, a) /\ CallFits(q, b) /\ Follows(q.op, a, b)
    BY <1>2, <1>4, <2>1
  <2>3. IsProgram(<<a, b>>) /\ ProgramFits(q, <<a, b>>)
    BY <2>2, TwoFit
  <2>4. HeadReady([op |-> op, scope |-> None, found |-> None], a)
    BY <2>1 DEF HeadReady
  <2>5. Continue(r, None, None, <<a, b>>)
    BY <1>4, <1>8, <2>1
  <2>6. OnlyMoves(r) /\ Ready(req[r])'
    BY <1>1, <1>3, <1>4, <2>3, <2>4, <2>5, ContinueReady DEF AccountsInv
  <2>7. QED
    BY <1>1, <2>6, NoWriteKeepsInv
<1>9. QED
  BY <1>5, <1>6, <1>7, <1>8 DEF FindSubject, FindAddress

\* UpdateUser reads the row it will save, and afterwards the one it has saved.
LEMMA EditKeepsInv ==
    ASSUME AccountsInv, NEW r \in Requests, ReadToEdit(r) \/ ReadEdited(r)
    PROVE  KeepsInv
<1> USE DEF accountTables, Replies
<1>1. /\ Pending(r) /\ Head(req[r].todo).do \in {"readToEdit", "readEdited"}
      /\ UNCHANGED <<account, invite, sent, nextId>>
  BY DEF ReadToEdit, ReadEdited, At
<1>2. Grows
  BY <1>1 DEF AccountsInv, TablesFit, Grows, Registered, Invited
<1>3. PICK op, u, row, x : op = req[r].op /\ u = req[r].scope /\ row = account[u] /\ x = Arg(r)
  OBVIOUS
<1>4. u \in Users
  BY <1>1, <1>3, NextCall DEF ScopedCalls
<1>5. CASE Answer(r, "refused")
  BY <1>1, <1>5, AnswerKeepsInv
<1> USE DEF CallFits, Follows, NeedsRow, NeedsCount, NeedsSecret, KeepsCount,
            RowCalls, RowReads, ScopedCalls, Call
<1>6. CASE ReadToEdit(r) /\ row.enabled
  <2> DEFINE edited == EditedAccount(row, x)
             q == [op |-> op, scope |-> u]
  <2>1. op = "UpdateUser" /\ x \in [email: Emails, password: Passwords \cup {None}]
    BY <1>1, <1>3, <1>6, NextCall DEF ReadToEdit, At, Arg
  <2>2. RowOf(u, row)
    BY <1>3, <1>4, <1>6, RowOfAccount DEF AccountsInv
  <2>3. RowOf(u, edited)
    BY <2>1, <2>2 DEF RowOf, AccountRow, Codes, EditedAccount, MovesAddress
  <2> HIDE DEF edited
  <2>4. PICK a, b, c, d :
           /\ a = Call("emailFree", x.email) /\ b = Call("setVerified", FALSE)
           /\ c = Call("saveUser", None) /\ d = Call("readEdited", None)
    OBVIOUS
  <2>5. CallFits(q, a) /\ CallFits(q, b) /\ CallFits(q, c) /\ CallFits(q, d)
    BY <1>4, <2>4
  <2>6. Follows(q.op, a, b) /\ Follows(q.op, b, c) /\ Follows(q.op, c, d)
    BY <2>1, <2>4
  <2>7. HeadReady([op |-> op, scope |-> u, found |-> edited], a)
    BY <2>1, <2>3, <2>4 DEF HeadReady
  <2>8. HeadReady([op |-> op, scope |-> u, found |-> edited], c)
    BY <2>1, <2>3, <2>4 DEF HeadReady
  <2> HIDE DEF CallFits, Follows, Call
  <2>9. PICK s, t : s = (IF MovesAddress(row, x) THEN <<a, b>> ELSE <<>>) /\ t = <<c, d>>
    OBVIOUS
  <2>10. IsProgram(s) /\ ProgramFits(q, s) /\ (s # <<>> => s[1] = a /\ s[Len(s)] = b)
    <3>1. CASE s = <<a, b>>
      BY <2>5, <2>6, <3>1, TwoFit
    <3>2. CASE s = <<>>
      BY <3>2, TuplesArePrograms DEF ProgramFits
    <3>3. QED
      BY <2>9, <3>1, <3>2
  <2>11. IsProgram(t) /\ ProgramFits(q, t) /\ t # <<>> /\ t[1] = c
    BY <2>5, <2>6, <2>9, TwoFit
  <2>12. IsProgram(s \o t) /\ ProgramFits(q, s \o t)
    BY <2>6, <2>10, <2>11, ConcatFits
  <2>13. (s \o t)[1] \in {a, c}
    BY <2>10, <2>11, ConcatHead
  <2>14. Continue(r, u, edited, s \o t)
    BY <1>3, <1>6, <2>4, <2>9 DEF ReadToEdit, edited
  <2>15. OnlyMoves(r) /\ Ready(req[r])'
    <3>1. PICK program, y : program = s \o t /\ y = edited
      OBVIOUS
    <3>2. HeadReady([op |-> op, scope |-> u, found |-> y], program[1])
      BY <2>7, <2>8, <2>13, <3>1
    <3>3. QED
      BY <1>1, <1>2, <1>3, <2>12, <2>14, <3>1, <3>2, ContinueReady DEF AccountsInv
  <2>16. QED
    BY <1>1, <2>15, NoWriteKeepsInv
<1>7. CASE ReadEdited(r) /\ row.enabled
  <2> DEFINE q == [op |-> op, scope |-> u]
  <2>1. RowOf(u, row)
    BY <1>3, <1>4, <1>7, RowOfAccount DEF AccountsInv
  <2>2. PICK a, b, s :
           /\ a = Call("newCode", None) /\ b = Call("mailCode", None)
           /\ s = IF SMTPEnabled /\ ~row.verified THEN <<a, b>> ELSE <<>>
    OBVIOUS
  <2>3. CallFits(q, a) /\ CallFits(q, b) /\ Follows(q.op, a, b)
    BY <2>2
  <2>4. IsProgram(s) /\ ProgramFits(q, s) /\ (s # <<>> => s[1] = a)
    <3> HIDE DEF CallFits, Follows, Call
    <3>1. CASE s = <<a, b>>
      BY <2>3, <3>1, TwoFit
    <3>2. CASE s = <<>>
      BY <3>2, TuplesArePrograms DEF ProgramFits
    <3>3. QED
      BY <2>2, <3>1, <3>2
  <2>5. HeadReady([op |-> op, scope |-> u, found |-> row], a)
    BY <2>1, <2>2 DEF HeadReady
  <2>6. Continue(r, u, row, s)
    BY <1>3, <1>7, <2>2 DEF ReadEdited
  <2>7. OnlyMoves(r) /\ Ready(req[r])'
    BY <1>1, <1>2, <1>3, <2>4, <2>5, <2>6, ContinueReady DEF AccountsInv
  <2>8. QED
    BY <1>1, <2>7, NoWriteKeepsInv
<1>8. QED
  BY <1>3, <1>5, <1>6, <1>7 DEF ReadToEdit, ReadEdited

\* A password reset finds its account, by the address or by the code.
LEMMA ResetKeepsInv ==
    ASSUME AccountsInv, NEW r \in Requests, FindToReset(r) \/ FindReset(r)
    PROVE  KeepsInv
<1> USE DEF accountTables, Replies
<1>1. /\ Pending(r) /\ Head(req[r].todo).do \in {"findToReset", "findReset"}
      /\ UNCHANGED <<account, invite, sent, nextId>>
  BY DEF FindToReset, FindReset, At
<1>2. Grows
  BY <1>1 DEF AccountsInv, TablesFit, Grows, Registered, Invited
<1>3. CASE \E reply \in Replies : Answer(r, reply)
  BY <1>1, <1>3, AnswerKeepsInv
<1>4. CASE \E u \in findEnabledUserByEmail(Arg(r)) : Continue(r, u, None,
                <<Call("readQuietly", None), Call("newReset", None),
                  Call("setOpen", TRUE), Call("readUser", None), Call("mailReset", None)>>)
  <2> USE DEF CallFits, Follows, NeedsRow, NeedsCount, NeedsSecret, KeepsCount,
              RowCalls, RowReads, ScopedCalls, Call
  <2>1. PICK u \in Users : Continue(r, u, None,
                <<Call("readQuietly", None), Call("newReset", None),
                  Call("setOpen", TRUE), Call("readUser", None), Call("mailReset", None)>>)
    BY <1>4 DEF findEnabledUserByEmail
  <2>2. PICK op, a, b, c, d, e :
           /\ op = req[r].op /\ a = Call("readQuietly", None) /\ b = Call("newReset", None)
           /\ c = Call("setOpen", TRUE) /\ d = Call("readUser", None)
           /\ e = Call("mailReset", None)
    OBVIOUS
  <2> DEFINE q == [op |-> op, scope |-> u]
  <2>3. /\ CallFits(q, a) /\ CallFits(q, b) /\ CallFits(q, c) /\ CallFits(q, d)
        /\ CallFits(q, e)
    BY <2>2
  <2>4. /\ Follows(q.op, a, b) /\ Follows(q.op, b, c) /\ Follows(q.op, c, d)
        /\ Follows(q.op, d, e)
    BY <2>2
  <2>5. IsProgram(<<a, b, c, d, e>>) /\ ProgramFits(q, <<a, b, c, d, e>>)
    BY <2>3, <2>4, FiveFit
  <2>6. HeadReady([op |-> op, scope |-> u, found |-> None], a)
    BY <2>2 DEF HeadReady
  <2>7. Continue(r, u, None, <<a, b, c, d, e>>)
    BY <2>1, <2>2
  <2>8. OnlyMoves(r) /\ Ready(req[r])'
    BY <1>1, <1>2, <2>2, <2>5, <2>6, <2>7, ContinueReady DEF AccountsInv
  <2>9. QED
    BY <1>1, <2>8, NoWriteKeepsInv
<1>5. CASE /\ At(r, "findReset")
           /\ \E u \in Users :
                /\ account[u].enabled /\ account[u].password # None
                /\ Continue(r, u, [account[u] EXCEPT !.password = Arg(r).password],
                            Tail(req[r].todo))
  <2>0. PICK u \in Users :
           /\ account[u].enabled /\ account[u].password # None
           /\ Continue(r, u, [account[u] EXCEPT !.password = Arg(r).password],
                       Tail(req[r].todo))
    BY <1>5
  <2>1. PICK x :
           /\ account[u].enabled /\ account[u].password # None
           /\ x = [account[u] EXCEPT !.password = Arg(r).password]
           /\ Continue(r, u, x, Tail(req[r].todo))
    BY <2>0
  <2>2. Head(req[r].todo).do = "findReset" /\ Arg(r).password \in Passwords
    BY <1>1, <1>5, NextCall DEF CallFits, Arg, At
  <2>3. RowOf(u, account[u])
    BY <2>1, RowOfAccount DEF AccountsInv
  <2>4. RowOf(u, x)
    BY <2>1, <2>2, <2>3 DEF RowOf, AccountRow, Codes
  <2>5. RowOf(u, x)'
    BY <1>2, <2>4, RowStays
  <2>6. OnlyMoves(r) /\ (Over(req'[r]) \/ GoesOn(r, u, x))
    BY <1>1, <2>1, ContinueTailStep DEF AccountsInv
  <2>7. Ready(req[r])'
    BY <1>1, <2>2, <2>5, <2>6, RowReady, OverIsReady DEF AccountsInv, RowReads
  <2>8. QED
    BY <1>1, <2>6, <2>7, NoWriteKeepsInv
<1>6. QED
  BY <1>3, <1>4, <1>5
     DEF FindToReset, FindReset, GetAllUserInformationByResetCode

-----------------------------------------------------------------------------
(* The steps that write.                                                    *)

\* The other columns of a row are written: its address stays its own.
LEMMA ColumnsWritten ==
    ASSUME AccountsInv, NEW u \in Users, account[u].enabled, NEW row \in AccountRow,
           row.email = account[u].email, row.password = account[u].password,
           nextId' \in Nat, nextId <= nextId', Codes(row) \subseteq 0..nextId',
           account' = [account EXCEPT ![u] = row], UNCHANGED <<invite, sent>>
    PROVE  TablesFit' /\ AddressesDiffer' /\ InvitesFit' /\ Grows /\ RowOf(u, row)'
<1>1. RowOf(u, account[u])
  BY RowOfAccount DEF AccountsInv
<1>2. row.password = None \/ Invited(u)
  BY <1>1 DEF RowOf
<1>3. EmailIndexAdmits(u, row.email)
  <2>1. ASSUME NEW v \in Users \ {u} PROVE account[v].email # row.email
    <3>1. CASE v \in Registered
      BY <1>1, <3>1 DEF AccountsInv, AddressesDiffer, RowOf
    <3>2. CASE account[v] = NoAccount
      BY <3>2, AccountsAssumption DEF NoAccount, AccountRow
    <3>3. QED
      BY <3>1, <3>2 DEF Registered
  <2>2. QED
    BY <2>1 DEF EmailIndexAdmits
<1>4. QED
  BY <1>2, <1>3, RowWritten

\* Single columns of an enabled row are written, or the request is refused.
LEMMA ColumnsKeepInv ==
    ASSUME AccountsInv, NEW r \in Requests, Pending(r), NEW row,
           req[r].scope \in Users, UpdateColumns(r, row),
           account[req[r].scope].enabled =>
              /\ row \in AccountRow /\ Codes(row) \subseteq 0..nextId'
              /\ row.email = account[req[r].scope].email
              /\ row.password = account[req[r].scope].password,
           Head(req[r].todo).do \notin RowReads \cup {"countUsers", "mayActivate"},
           nextId' \in Nat, nextId <= nextId', UNCHANGED <<invite, sent>>
    PROVE  KeepsInv
<1>1. PICK u \in Users : u = req[r].scope
  OBVIOUS
<1>2. CASE account[u].enabled
  <2>1. account' = [account EXCEPT ![u] = row] /\ Done(r)
    BY <1>1, <1>2 DEF UpdateColumns
  <2>2. TablesFit' /\ AddressesDiffer' /\ InvitesFit' /\ Grows
    BY <1>1, <1>2, <2>1, ColumnsWritten
  <2>3. OnlyMoves(r) /\ Ready(req[r])'
    BY <2>1, <2>2, DoneReady DEF AccountsInv
  <2>4. QED
    BY <2>2, <2>3, StepKeepsInv
<1>3. CASE ~account[u].enabled
  <2>1. UNCHANGED account /\ Answer(r, "refused")
    BY <1>1, <1>3 DEF UpdateColumns
  <2>2. OnlyMoves(r) /\ Ready(req[r])'
    BY <2>1, AnswerReady DEF AccountsInv, Replies
  <2>3. sent' \subseteq [kind: {"verify", "reset"}, code: 1..nextId', to: Emails]
    BY DEF AccountsInv, TablesFit
  <2>4. TablesFit' /\ AddressesDiffer' /\ InvitesFit' /\ Grows
    BY <2>1, <2>3, NoWrite DEF AccountsInv
  <2>5. QED
    BY <2>2, <2>4, StepKeepsInv
<1>4. QED
  BY <1>2, <1>3

\* The updates of accounts that write single columns.
LEMMA UpdateKeepsInv ==
    ASSUME AccountsInv, NEW r \in Requests,
           \/ linkUserOIDC(r) \/ SetUserVerification(r)
           \/ NewResetCode(r) \/ NewResetExpiration(r)
    PROVE  KeepsInv
<1> DEFINE u == req[r].scope
<1>1. /\ Pending(r)
      /\ Head(req[r].todo).do \in {"link", "setVerified", "newReset", "setOpen"}
  BY DEF linkUserOIDC, SetUserVerification, NewResetCode, NewResetExpiration, At
<1>2. u \in Users
  BY <1>1, NextCall DEF ScopedCalls, HeadReady, NeedsRow, RowCalls, RowOf, Registered
<1>3. account[u].enabled => RowOf(u, account[u])
  BY <1>2, RowOfAccount DEF AccountsInv
<1>4. nextId \in Nat
  BY DEF AccountsInv, TablesFit
<1>5. Head(req[r].todo).do \notin RowReads \cup {"countUsers", "mayActivate"}
  BY <1>1 DEF RowReads
<1>6. CASE linkUserOIDC(r)
  <2> DEFINE row == [account[u] EXCEPT !.subject = Arg(r)]
  <2>1. Arg(r) \in Subjects
    BY <1>1, <1>6, NextCall DEF CallFits, Arg, At, linkUserOIDC
  <2>2. UpdateColumns(r, row) /\ UNCHANGED <<invite, sent, nextId>>
    BY <1>6 DEF linkUserOIDC
  <2>3. account[u].enabled =>
          /\ row \in AccountRow /\ Codes(row) \subseteq 0..nextId'
          /\ row.email = account[u].email /\ row.password = account[u].password
    BY <1>3, <2>1, <2>2 DEF RowOf, AccountRow, Codes
  <2> HIDE DEF row
  <2>4. QED
    BY <1>1, <1>2, <1>4, <1>5, <2>2, <2>3, ColumnsKeepInv
<1>7. CASE SetUserVerification(r)
  <2> DEFINE row == [account[u] EXCEPT !.verified = Arg(r)]
  <2>1. Arg(r) \in BOOLEAN
    BY <1>1, <1>7, NextCall DEF CallFits, Arg, At, SetUserVerification
  <2>2. UpdateColumns(r, row) /\ UNCHANGED <<invite, sent, nextId>>
    BY <1>7 DEF SetUserVerification
  <2>3. account[u].enabled =>
          /\ row \in AccountRow /\ Codes(row) \subseteq 0..nextId'
          /\ row.email = account[u].email /\ row.password = account[u].password
    BY <1>3, <2>1, <2>2 DEF RowOf, AccountRow, Codes
  <2> HIDE DEF row
  <2>4. QED
    BY <1>1, <1>2, <1>4, <1>5, <2>2, <2>3, ColumnsKeepInv
<1>8. CASE NewResetCode(r)
  <2> DEFINE row == [account[u] EXCEPT !.reset = nextId + 1]
  <2>1. nextId' = nextId + 1
    BY <1>8 DEF NewResetCode
  <2>2. account[u].enabled =>
          /\ row \in AccountRow /\ Codes(row) \subseteq 0..nextId'
          /\ row.email = account[u].email /\ row.password = account[u].password
    BY <1>3, <1>4, <2>1 DEF RowOf, AccountRow, Codes
  <2>3. UpdateColumns(r, row) /\ UNCHANGED <<invite, sent>>
    BY <1>8 DEF NewResetCode
  <2> HIDE DEF row
  <2>4. QED
    BY <1>1, <1>2, <1>4, <1>5, <2>1, <2>2, <2>3, ColumnsKeepInv
<1>9. CASE NewResetExpiration(r)
  <2> DEFINE row == [account[u] EXCEPT !.open = Arg(r)]
  <2>1. Arg(r) \in BOOLEAN
    BY <1>1, <1>9, NextCall DEF CallFits, Arg, At, NewResetExpiration
  <2>2. UpdateColumns(r, row) /\ UNCHANGED <<invite, sent, nextId>>
    BY <1>9 DEF NewResetExpiration
  <2>3. account[u].enabled =>
          /\ row \in AccountRow /\ Codes(row) \subseteq 0..nextId'
          /\ row.email = account[u].email /\ row.password = account[u].password
    BY <1>3, <2>1, <2>2 DEF RowOf, AccountRow, Codes
  <2> HIDE DEF row
  <2>4. QED
    BY <1>1, <1>2, <1>4, <1>5, <2>2, <2>3, ColumnsKeepInv
<1>10. QED
  BY <1>6, <1>7, <1>8, <1>9

\* A new code is put in the row and in the copy of it the handler has.
LEMMA NewCodeKeepsInv ==
    ASSUME AccountsInv, NEW r \in Requests, GenerateRandomVerificationCodeForUser(r)
    PROVE  KeepsInv
<1>1. PICK u, n : u = req[r].scope /\ n = nextId + 1
  OBVIOUS
<1>2. Pending(r) /\ Head(req[r].todo).do = "newCode" /\ nextId \in Nat
  BY DEF GenerateRandomVerificationCodeForUser, At, AccountsInv, TablesFit
<1>3. u \in Users /\ RowOf(u, req[r].found)
  BY <1>1, <1>2, NextCall DEF HeadReady, NeedsRow, RowCalls, RowOf, Registered
<1>4. CASE account[u].enabled
  <2>1. PICK x : x = [req[r].found EXCEPT !.code = n]
    OBVIOUS
  <2> DEFINE row == [account[u] EXCEPT !.code = n]
  <2>2. /\ account' = [account EXCEPT ![u] = row] /\ nextId' = n
        /\ UNCHANGED <<invite, sent>> /\ Remember(r, x)
    BY <1>1, <1>4, <2>1 DEF GenerateRandomVerificationCodeForUser
  <2>3. RowOf(u, account[u])
    BY <1>3, <1>4, RowOfAccount DEF AccountsInv
  <2>4. /\ row \in AccountRow /\ Codes(row) \subseteq 0..n
        /\ row.email = account[u].email /\ row.password = account[u].password
    BY <1>1, <1>2, <2>3 DEF RowOf, AccountRow, Codes
  <2> HIDE DEF row
  <2>5. nextId' \in Nat /\ nextId <= nextId' /\ Codes(row) \subseteq 0..nextId'
    BY <1>1, <1>2, <2>2, <2>4
  <2>6. TablesFit' /\ AddressesDiffer' /\ InvitesFit' /\ Grows
    BY <1>3, <1>4, <2>2, <2>4, <2>5, ColumnsWritten
  <2>7. RowOf(u, x)'
    <3>1. u \in Registered' /\ (x.password = None \/ Invited(u)')
      BY <1>3, <2>1, <2>6 DEF RowOf, Grows, Registered, AccountRow
    <3>2. x \in AccountRow /\ Codes(x) \subseteq 0..n
      BY <1>1, <1>2, <1>3, <2>1 DEF RowOf, AccountRow, Codes
    <3>3. QED
      BY <2>2, <3>1, <3>2 DEF RowOf
  <2>8. OnlyMoves(r) /\ (Over(req'[r]) \/ GoesOn(r, u, x))
    BY <1>1, <1>2, <2>2, RememberStep DEF AccountsInv
  <2>9. Ready(req[r])'
    BY <1>1, <1>2, <2>7, <2>8, RowReady, OverIsReady DEF AccountsInv, RowCalls
  <2>10. QED
    BY <2>6, <2>8, <2>9, StepKeepsInv
<1>5. CASE ~account[u].enabled
  BY <1>1, <1>5, AnswerKeepsInv DEF GenerateRandomVerificationCodeForUser, Replies
<1>6. QED
  BY <1>4, <1>5

\* The whole row in the handler's memory is saved.
LEMMA SaveKeepsInv ==
    ASSUME AccountsInv, NEW r \in Requests, UpdateUserInDB(r)
    PROVE  KeepsInv
<1>1. PICK u, row : u = req[r].scope /\ row = req[r].found
  OBVIOUS
<1>2. Pending(r) /\ Head(req[r].todo).do = "saveUser" /\ nextId \in Nat
  BY DEF UpdateUserInDB, At, AccountsInv, TablesFit
<1>3. u \in Users /\ RowOf(u, row)
  BY <1>1, <1>2, NextCall DEF HeadReady, NeedsRow, RowCalls, RowOf, Registered
<1>4. CASE EmailIndexAdmits(u, row.email)
  <2>1. account' = [account EXCEPT ![u] = row] /\ Done(r) /\ UNCHANGED <<invite, sent, nextId>>
    BY <1>1, <1>4 DEF UpdateUserInDB
  <2>2. /\ row \in AccountRow /\ (row.password = None \/ Invited(u))
        /\ nextId' \in Nat /\ nextId <= nextId' /\ Codes(row) \subseteq 0..nextId'
    BY <1>2, <1>3, <2>1 DEF RowOf
  <2>3. TablesFit' /\ AddressesDiffer' /\ InvitesFit' /\ Grows
    BY <1>3, <1>4, <2>1, <2>2, RowWritten
  <2>4. OnlyMoves(r) /\ Ready(req[r])'
    BY <1>2, <2>1, <2>3, DoneReady DEF AccountsInv, RowReads
  <2>5. QED
    BY <2>3, <2>4, StepKeepsInv
<1>5. CASE ~EmailIndexAdmits(u, row.email)
  BY <1>1, <1>5, AnswerKeepsInv DEF UpdateUserInDB, Replies
<1>6. QED
  BY <1>4, <1>5

\* Registration writes the account and uses up the invite, or does neither.
LEMMA RegistrationKeepsInv ==
    ASSUME AccountsInv, NEW r \in Requests, CreateUserWithInviteCode(r)
    PROVE  KeepsInv
<1>1. PICK x, i : x = Arg(r) /\ i = x.invite
  OBVIOUS
<1>2. Pending(r) /\ Head(req[r].todo).do = "createUser" /\ nextId \in Nat
  BY DEF CreateUserWithInviteCode, At, AccountsInv, TablesFit
<1>3. x \in [email: Emails, password: Passwords, invite: Invites] /\ req[r].found.admin \in BOOLEAN
  BY <1>1, <1>2, NextCall DEF CallFits, HeadReady, NeedsCount, Arg
<1>4. CASE Answer(r, "refused") /\ UNCHANGED <<account, invite, sent, nextId>>
  BY <1>4, AnswerKeepsInv DEF Replies
<1>5. ASSUME NEW u \in Users, NEW row,
             MayClaimInvite(i), EmailIndexAdmits(u, x.email),
             row = [NoAccount EXCEPT
                      !.enabled = TRUE, !.email = x.email, !.password = x.password,
                      !.admin = req[r].found.admin, !.verified = ~SMTPEnabled,
                      !.code = nextId + 1, !.reset = nextId + 2],
             account' = [account EXCEPT ![u] = row],
             invite' = [invite EXCEPT ![i].used = TRUE, ![i].recipient = u],
             nextId' = nextId + 2, UNCHANGED sent, Continue(r, u, row, Tail(req[r].todo))
      PROVE  KeepsInv
  <2>1. /\ row \in AccountRow /\ row.email = x.email
        /\ Codes(row) \subseteq 0..nextId' /\ nextId' \in Nat /\ nextId <= nextId'
    <3>1. PICK admin \in BOOLEAN, verified \in BOOLEAN :
             admin = req[r].found.admin /\ verified = ~SMTPEnabled
      BY <1>3, AccountsAssumption
    <3>2. row \in AccountRow /\ row.email = x.email
      <4>1. row = [enabled |-> TRUE, email |-> x.email, password |-> x.password,
                   subject |-> None, admin |-> admin, verified |-> verified,
                   code |-> nextId + 1, reset |-> nextId + 2, open |-> FALSE,
                   mfa |-> FALSE, secret |-> 0]
        BY <1>5, <3>1 DEF NoAccount
      <4>2. QED
        BY <1>2, <1>3, <4>1 DEF AccountRow
    <3>3. Codes(row) \subseteq 0..nextId' /\ nextId' \in Nat /\ nextId <= nextId'
      BY <1>2, <1>5 DEF Codes, NoAccount
    <3>4. QED
      BY <3>2, <3>3
  <2>2. /\ TablesFit' /\ AddressesDiffer' /\ Registered' = Registered \cup {u}
        /\ account'[u] = row /\ \A v \in Users \ {u} : account'[v] = account[v]
    BY <1>5, <2>1, RowPut
  <2>3. i \in Invites /\ invite[i] \in InviteRow /\ ~invite[i].used /\ invite[i].recipient = None
    BY <1>1, <1>3, <1>5
       DEF AccountsInv, InvitesFit, MayClaimInvite, VerifyUnusedUserInviteCode
  <2>4. /\ invite' \in [Invites -> InviteRow]
        /\ invite'[i].used /\ invite'[i].recipient = u
        /\ \A j \in Invites \ {i} : invite'[j] = invite[j]
    BY <1>5, <2>3 DEF AccountsInv, InvitesFit, InviteRow
  <2>5. ASSUME NEW v \in Users, Invited(v) PROVE Invited(v)'
    BY <2>3, <2>4, <2>5, AccountsAssumption DEF Invited
  <2>6. Invited(u)'
    BY <2>3, <2>4 DEF Invited
  <2>7. InvitesFit'
    <3>1. \A j \in Invites : IF invite'[j].used THEN invite'[j].recipient \in Registered'
                                                ELSE invite'[j].recipient = None
      BY <2>2, <2>3, <2>4 DEF AccountsInv, InvitesFit
    <3>2. \A v \in Registered' : account'[v].password = None \/ Invited(v)'
      BY <2>2, <2>5, <2>6 DEF AccountsInv, InvitesFit, Registered
    <3>3. QED
      BY <2>4, <3>1, <3>2 DEF InvitesFit
  <2>8. Grows
    BY <1>2, <2>1, <2>2, <2>5 DEF Grows
  <2>9. RowOf(u, row)'
    BY <2>1, <2>2, <2>6 DEF RowOf, Codes
  <2>10. OnlyMoves(r) /\ (Over(req'[r]) \/ GoesOn(r, u, row))
    BY <1>2, <1>5, ContinueTailStep DEF AccountsInv
  <2>11. Ready(req[r])'
    BY <1>2, <2>9, <2>10, RowReady, OverIsReady DEF AccountsInv, RowReads
  <2>12. QED
    BY <2>2, <2>7, <2>8, <2>10, <2>11, StepKeepsInv
<1>6. QED
  BY <1>1, <1>4, <1>5 DEF CreateUserWithInviteCode

\* An external login creates an account without a password.
LEMMA ExternalKeepsInv ==
    ASSUME AccountsInv, NEW r \in Requests, createOIDCUser(r)
    PROVE  KeepsInv
<1>1. Pending(r) /\ Head(req[r].todo).do = "createExternal" /\ nextId \in Nat
  BY DEF createOIDCUser, At, AccountsInv, TablesFit
<1>2. Arg(r) \in Identity /\ req[r].found.admin \in BOOLEAN
  BY <1>1, NextCall DEF CallFits, HeadReady, NeedsCount, Arg
<1>3. UNCHANGED <<invite, sent, nextId>>
  BY DEF createOIDCUser
<1>4. CASE Answer(r, "refused") /\ UNCHANGED account
  BY <1>3, <1>4, AnswerKeepsInv DEF Replies
<1>5. ASSUME NEW u \in Users, NEW row, EmailIndexAdmits(u, Arg(r).email),
             row = [NoAccount EXCEPT
                      !.enabled = TRUE, !.email = Arg(r).email, !.verified = TRUE,
                      !.subject = Arg(r).subject, !.admin = req[r].found.admin],
             account' = [account EXCEPT ![u] = row], Done(r)
      PROVE  KeepsInv
  <2>1. row \in AccountRow /\ row.email = Arg(r).email /\ row.password = None
    BY <1>2, <1>5 DEF AccountRow, NoAccount, Identity
  <2>2. Codes(row) \subseteq 0..nextId' /\ nextId' \in Nat /\ nextId <= nextId'
    BY <1>1, <1>3, <1>5 DEF Codes, NoAccount
  <2>3. TablesFit' /\ AddressesDiffer' /\ InvitesFit' /\ Grows
    BY <1>3, <1>5, <2>1, <2>2, RowWritten
  <2>4. OnlyMoves(r) /\ Ready(req[r])'
    BY <1>1, <1>5, <2>3, DoneReady DEF AccountsInv, RowReads
  <2>5. QED
    BY <2>3, <2>4, StepKeepsInv
<1>6. QED
  BY <1>4, <1>5 DEF createOIDCUser

\* Mail goes to the address in the row the handler has, with the code in it.
LEMMA MailKeepsInv ==
    ASSUME AccountsInv, NEW r \in Requests,
           SendSMTPVerificationEmail(r) \/ SendSMTPResetEmail(r)
    PROVE  KeepsInv
<1> DEFINE row == req[r].found
<1>1. Pending(r) /\ Head(req[r].todo).do \in {"mailCode", "mailReset"} /\ nextId \in Nat
  BY DEF SendSMTPVerificationEmail, SendSMTPResetEmail, At, AccountsInv, TablesFit
<1>2. PICK kind \in {"verify", "reset"}, code \in {row.code, row.reset} : Mail(r, kind, code)
  BY DEF SendSMTPVerificationEmail, SendSMTPResetEmail
<1>3. RowOf(req[r].scope, row)
  BY <1>1, NextCall DEF HeadReady, NeedsRow, RowCalls
<1>4. UNCHANGED <<account, invite, nextId>>
  BY <1>2 DEF Mail
<1>5. CASE code = 0
  BY <1>2, <1>4, <1>5, AnswerKeepsInv DEF Mail, Replies
<1>6. CASE code # 0
  <2>1. sent' = sent \cup {[kind |-> kind, code |-> code, to |-> row.email]} /\ Done(r)
    BY <1>2, <1>6 DEF Mail
  <2>2. code \in 1..nextId /\ row.email \in Emails
    BY <1>1, <1>2, <1>3, <1>6 DEF RowOf, AccountRow, Codes
  <2>3. sent' \subseteq [kind: {"verify", "reset"}, code: 1..nextId', to: Emails]
    BY <1>4, <2>1, <2>2 DEF AccountsInv, TablesFit
  <2>4. TablesFit' /\ AddressesDiffer' /\ InvitesFit' /\ Grows
    BY <1>1, <1>4, <2>3, NoWrite DEF AccountsInv
  <2>5. OnlyMoves(r) /\ Ready(req[r])'
    BY <1>1, <2>1, <2>4, DoneReady DEF AccountsInv, RowReads
  <2>6. QED
    BY <2>4, <2>5, StepKeepsInv
<1>7. QED
  BY <1>5, <1>6

\* Invites are made and withdrawn, neither of which uses one.
LEMMA InviteKeepsInv ==
    ASSUME AccountsInv, NEW r \in Requests, GenerateRandomInvite(r) \/ DeleteInviteByID(r)
    PROVE  KeepsInv
<1>1. /\ Pending(r) /\ Head(req[r].todo).do \in {"createInvite", "disableInvite"}
      /\ Done(r) /\ UNCHANGED <<account, sent, nextId>>
  BY DEF GenerateRandomInvite, DeleteInviteByID, At
<1>2. PICK b \in BOOLEAN : \E i : invite' = [invite EXCEPT ![i].enabled = b]
  <2>1. CASE GenerateRandomInvite(r)
    <3>1. \E i \in Invites : invite' = [invite EXCEPT ![i].enabled = TRUE]
      BY <2>1 DEF GenerateRandomInvite
    <3>2. QED
      BY <3>1
  <2>2. CASE DeleteInviteByID(r)
    <3>1. invite' = [invite EXCEPT ![Arg(r)].enabled = FALSE]
      BY <2>2 DEF DeleteInviteByID
    <3>2. QED
      BY <3>1
  <2>3. QED
    BY <2>1, <2>2
<1>3. PICK i : invite' = [invite EXCEPT ![i].enabled = b]
  BY <1>2
<1>4. /\ invite' \in [Invites -> InviteRow]
      /\ \A j \in Invites : /\ invite'[j].used = invite[j].used
                            /\ invite'[j].recipient = invite[j].recipient
  <2>1. ASSUME NEW j \in Invites
        PROVE  /\ invite'[j] \in InviteRow
               /\ invite'[j].used = invite[j].used
               /\ invite'[j].recipient = invite[j].recipient
    <3>1. invite'[j] = IF j = i THEN [invite[j] EXCEPT !.enabled = b] ELSE invite[j]
      BY <1>3 DEF AccountsInv, InvitesFit
    <3>2. invite[j] \in InviteRow
      BY DEF AccountsInv, InvitesFit
    <3>3. QED
      BY <3>1, <3>2 DEF InviteRow
  <2>2. invite' = [j \in Invites |-> invite'[j]]
    BY <1>3 DEF AccountsInv, InvitesFit
  <2>3. QED
    BY <2>1, <2>2
<1>5. \A u \in Users : Invited(u) => Invited(u)'
  BY <1>4 DEF Invited
<1>6. TablesFit' /\ AddressesDiffer' /\ InvitesFit'
  <2>1. TablesFit' /\ AddressesDiffer'
    BY <1>1 DEF AccountsInv, TablesFit, AddressesDiffer, Registered
  <2>2. InvitesFit'
    BY <1>1, <1>4, <1>5 DEF AccountsInv, InvitesFit, Registered
  <2>3. QED
    BY <2>1, <2>2
<1>7. Grows
  BY <1>1, <1>5 DEF Grows, AccountsInv, TablesFit, Registered
<1>8. OnlyMoves(r) /\ Ready(req[r])'
  BY <1>1, <1>7, DoneReady DEF AccountsInv, RowReads
<1>9. QED
  BY <1>6, <1>7, <1>8, StepKeepsInv

\* A day passes: no request makes this step.
LEMMA ExpiryKeepsInv ==
    ASSUME AccountsInv, NEW u \in Users, ResetCodeExpires(u)
    PROVE  KeepsInv
<1> DEFINE row == [account[u] EXCEPT !.open = FALSE]
<1>1. account[u].enabled \/ account[u] # NoAccount
  BY DEF ResetCodeExpires, NoAccount
<1>2. RowOf(u, account[u])
  BY <1>1, RowOfAccount DEF AccountsInv, Registered
<1>3. account' = [account EXCEPT ![u] = row] /\ UNCHANGED <<invite, sent, nextId, req>>
  BY DEF ResetCodeExpires, AccountsInv, TablesFit
<1>4. row \in AccountRow /\ row.email = account[u].email /\ row.password = account[u].password
  BY <1>2 DEF RowOf, AccountRow
<1>5. Codes(row) \subseteq 0..nextId' /\ nextId' \in Nat /\ nextId <= nextId'
  BY <1>2, <1>3 DEF RowOf, AccountRow, Codes, AccountsInv, TablesFit
<1>6. EmailIndexAdmits(u, row.email)
  <2>1. ASSUME NEW v \in Users \ {u} PROVE account[v].email # row.email
    <3>1. CASE v \in Registered
      BY <1>2, <1>4, <3>1 DEF AccountsInv, AddressesDiffer, RowOf
    <3>2. CASE account[v] = NoAccount
      BY <1>4, <3>2, AccountsAssumption DEF NoAccount, AccountRow
    <3>3. QED
      BY <3>1, <3>2 DEF Registered
  <2>2. QED
    BY <2>1 DEF EmailIndexAdmits
<1>7. TablesFit' /\ AddressesDiffer' /\ InvitesFit' /\ Grows
  <2>1. row.password = None \/ Invited(u)
    BY <1>2, <1>4 DEF RowOf
  <2> HIDE DEF row
  <2>2. QED
    BY <1>3, <1>4, <1>5, <1>6, <2>1, RowWritten
<1>8. ASSUME NEW r \in Requests PROVE Ready(req[r])'
  <2>1. Ready(req[r]) /\ req' = req
    BY <1>3 DEF AccountsInv
  <2>2. QED
    BY <1>7, <2>1, RowStays
       DEF Ready, ProgramFits, CallFits, Follows, HeadReady,
           NeedsRow, NeedsCount, NeedsSecret, KeepsCount
<1>9. RequestsFit'
  BY <1>3 DEF AccountsInv, RequestsFit, RequestsOK, Pending
<1>10. QED
  BY <1>7, <1>8, <1>9 DEF AccountsInv, KeepsInv

-----------------------------------------------------------------------------
(* Accounts.                                                                *)

\* Every step of a handler, and the lapse of a reset code, keeps the invariant.
LEMMA AccountsNextKeepsInv ==
    ASSUME AccountsInv, AccountsNext
    PROVE  KeepsInv
<1>1. ASSUME NEW r \in Requests, AccountsRequest(r)
      PROVE  KeepsInv
  BY <1>1, RegistrationArrives, AccountRequestArrives DEF AccountsRequest
<1>2. ASSUME NEW r \in Requests, AccountFail(r)
      PROVE  KeepsInv
  BY <1>2, AnswerKeepsInv DEF AccountFail, Abandon, Replies, accountTables
<1>3. ASSUME NEW r \in Requests, AccountsStep(r)
      PROVE  KeepsInv
  BY <1>2, <1>3, AccountCheckKeepsInv, ReadKeepsInv, LoginKeepsInv, EditKeepsInv,
     ResetKeepsInv, UpdateKeepsInv, NewCodeKeepsInv, SaveKeepsInv,
     RegistrationKeepsInv, ExternalKeepsInv, MailKeepsInv, InviteKeepsInv
     DEF AccountsStep
<1>4. QED
  BY <1>1, <1>3, ExpiryKeepsInv DEF AccountsNext

\* Nothing that is not part of accounts disturbs it.
LEMMA StutterKeepsInv ==
    ASSUME AccountsInv, UNCHANGED accountVars
    PROVE  KeepsInv
<1>1. AccountsInv'
  BY DEF accountVars, accountTables, AccountsInv, RequestsFit, RequestsOK, Pending,
         TablesFit, AddressesDiffer, InvitesFit, Registered, Invited,
         Ready, ProgramFits, CallFits, Follows, HeadReady, RowOf,
         NeedsRow, NeedsCount, NeedsSecret, KeepsCount
<1>2. Grows
  BY DEF accountVars, accountTables, AccountsInv, TablesFit, Grows, Registered, Invited
<1>3. QED
  BY <1>1, <1>2 DEF KeepsInv

\* The seed satisfies it, and no request is there yet.
LEMMA AccountsInitInv ==
    ASSUME AccountsInit
    PROVE  AccountsInv
<1> USE AccountsSeedAssumption DEF AccountsInit
<1>1. RequestsFit /\ \A r \in Requests : req[r] = NoRequest
  BY InitialRequests
<1>2. \A r \in Requests : Ready(req[r])
  BY <1>1 DEF Ready, ProgramFits, NoRequest
<1>3. TablesFit /\ AddressesDiffer
  BY DEF TablesFit, AddressesDiffer, Registered, Codes
<1>4. InvitesFit
  BY DEF InvitesFit, Invited, Registered
<1>5. QED
  BY <1>1, <1>2, <1>3, <1>4 DEF AccountsInv

\* What the invariant gives.
LEMMA InvGivesTypeOK ==
    ASSUME AccountsInv
    PROVE  AccountsTypeOK
<1>1. \A u \in Users : {account[u].code, account[u].reset, account[u].secret} \subseteq 0..nextId
  BY DEF AccountsInv, TablesFit, Codes
<1>2. ASSUME NEW r \in Requests, At(r, "saveUser")
      PROVE  req[r].found \in AccountRow
  BY <1>2, NextCall DEF At, HeadReady, NeedsRow, RowCalls, RowOf
<1>3. QED
  BY <1>1, <1>2 DEF AccountsInv, AccountsTypeOK, TablesFit, InvitesFit, RequestsFit

\* The unique index keeps addresses apart.
LEMMA InvGivesOneAccount ==
    ASSUME AccountsInv
    PROVE  OneAccountPerEmail
BY RegisteredRow DEF AccountsInv, AddressesDiffer, OneAccountPerEmail

\* An invite that was used names the account it made, and the account is there.
LEMMA InvGivesInvitesMatch ==
    ASSUME AccountsInv
    PROVE  InvitesMatchAccounts
<1>1. \A i \in Invites : invite[i].used \in BOOLEAN
  BY DEF AccountsInv, InvitesFit, InviteRow
<1>2. None \notin Registered
  BY AccountsAssumption DEF Registered
<1>3. QED
  BY <1>1, <1>2 DEF AccountsInv, InvitesFit, InvitesMatchAccounts, Invited

\* However requests interleave and wherever they fail, each has in memory what its
\* next call needs: the handlers of accounts write rows that fit the tables.
THEOREM AccountsInvariant == AccountsSpec => []AccountsInv
<1>1. AccountsInit => AccountsInv
  BY AccountsInitInv
<1>2. AccountsInv /\ [AccountsNext]_accountVars => AccountsInv'
  BY AccountsNextKeepsInv, StutterKeepsInv DEF KeepsInv
<1>3. QED
  BY <1>1, <1>2, PTL DEF AccountsSpec

\* Rows keep their types, codes are fresh, and what a handler saves is a row of an
\* account, however requests, expiries and failures interleave.
THEOREM AccountsTypes == AccountsSpec => []AccountsTypeOK
BY AccountsInvariant, InvGivesTypeOK, PTL

\* No two enabled accounts come to have one address: not by registrations, external
\* logins and saved rows that raced.
THEOREM AccountsHaveOneAddress == AccountsSpec => []OneAccountPerEmail
BY AccountsInvariant, InvGivesOneAccount, PTL

\* A used invite has made one account, and an account with a password came from an
\* invite, however many registrations raced for it and wherever they failed.
THEOREM InvitesMakeAccounts == AccountsSpec => []InvitesMatchAccounts
BY AccountsInvariant, InvGivesInvitesMatch, PTL

-----------------------------------------------------------------------------
(* The second factor.                                                       *)

RecoveryFits ==
    /\ recovery \subseteq [id: 1..nextId, user: Registered, secret: 1..nextId, used: BOOLEAN]
    /\ \A c, d \in recovery : c.id = d.id => c = d
    /\ challenged \subseteq Registered

MFAInv == AccountsInv /\ RecoveryFits

\* A step that leaves the recovery codes and the challenges alone.
LEMMA RecoveryStays ==
    ASSUME RecoveryFits, Grows, UNCHANGED <<recovery, challenged>>
    PROVE  RecoveryFits'
BY DEF RecoveryFits, Grows

\* The requests about the second factor arrive.
LEMMA EnrolmentArrives ==
    ASSUME MFAInv, NEW r \in Requests, APIEnrollMFA(r) \/ APIActivateMFA(r)
    PROVE  KeepsInv
<1> USE DEF CallFits, Follows, NeedsRow, NeedsCount, NeedsSecret, KeepsCount,
            RowCalls, RowReads, ScopedCalls, Call
<1>1. CASE APIEnrollMFA(r)
  <2>1. PICK u \in Users :
           AcceptMFA(r, "APIEnrollMFA", u, u,
             <<Call("readUser", None), Call("mayEnrol", None), Call("setSecret", None)>>)
    BY <1>1 DEF APIEnrollMFA, Registered
  <2>2. PICK a, b, c :
           /\ a = Call("readUser", None) /\ b = Call("mayEnrol", None)
           /\ c = Call("setSecret", None)
    OBVIOUS
  <2>3. IsProgram(<<a, b, c>>) /\ ProgramFits([op |-> "APIEnrollMFA", scope |-> u], <<a, b, c>>)
    BY <2>2, ThreeFit
  <2>4. QED
    BY <2>1, <2>2, <2>3, BeginKeepsInv
       DEF MFAInv, AcceptMFA, mfaTables, accountTables
<1>2. CASE APIActivateMFA(r)
  <2>0. PICK u \in Users : \E t : AcceptMFA(r, "APIActivateMFA", u, u, ActivationCalls(t))
    BY <1>2 DEF APIActivateMFA, Registered
  <2>1. PICK t : AcceptMFA(r, "APIActivateMFA", u, u, ActivationCalls(t))
    BY <2>0
  <2>2. PICK a, b, c, d, e :
           /\ a = Call("readUser", None) /\ b = Call("mayActivate", t)
           /\ c = Call("clearCodes", None) /\ d = Call("storeCodes", None)
           /\ e = Call("activate", None)
    OBVIOUS
  <2> DEFINE q == [op |-> "APIActivateMFA", scope |-> u]
  <2>3. CallFits(q, a) /\ CallFits(q, b) /\ CallFits(q, c) /\ CallFits(q, d) /\ CallFits(q, e)
    BY <2>2
  <2>4. /\ Follows(q.op, a, b) /\ Follows(q.op, b, c) /\ Follows(q.op, c, d)
        /\ Follows(q.op, c, e) /\ Follows(q.op, d, e)
    BY <2>2
  <2>5. ~NeedsRow(q.op, a) /\ ~NeedsCount(q.op, a) /\ ~NeedsSecret(q.op, a)
    BY <2>2
  <2>6. PICK w, x, y : w = <<a, b, c>> /\ x = RecoveryCalls /\ y = <<e>>
    OBVIOUS
  <2>7. x \in {<<d>>, <<>>}
    BY <2>2, <2>6 DEF RecoveryCalls
  <2>8. ActivationCalls(t) = (w \o x) \o y
    BY <2>2, <2>6 DEF ActivationCalls
  <2> HIDE DEF CallFits, Follows, Call, NeedsRow, NeedsCount, NeedsSecret
  <2>9. IsProgram(w) /\ ProgramFits(q, w) /\ w # <<>> /\ w[1] = a /\ Len(w) = 3 /\ w[3] = c
    BY <2>3, <2>4, <2>6, ThreeFit
  <2>10. IsProgram(y) /\ ProgramFits(q, y) /\ y # <<>> /\ y[1] = e
    BY <2>3, <2>6, TuplesArePrograms DEF ProgramFits
  <2>11. IsProgram(x) /\ ProgramFits(q, x)
    <3>1. CASE x = <<d>>
      BY <2>3, <3>1, TuplesArePrograms DEF ProgramFits
    <3>2. CASE x = <<>>
      BY <3>2, TuplesArePrograms DEF ProgramFits
    <3>3. QED
      BY <2>7, <3>1, <3>2
  <2>12. IsProgram(w \o x) /\ ProgramFits(q, w \o x)
    <3>1. x # <<>> => x[1] = d
      BY <2>7
    <3>2. QED
      BY <2>4, <2>9, <2>11, <3>1, ConcatFits
  <2>13. w \o x # <<>> /\ (w \o x)[1] = a
    BY <2>9, <2>11, ConcatHead
  <2>14. (w \o x)[Len(w \o x)] \in {c, d}
    <3>1. /\ Len(w \o x) = Len(w) + Len(x)
          /\ \A i \in 1..Len(w) + Len(x) :
                (w \o x)[i] = IF i <= Len(w) THEN w[i] ELSE x[i - Len(w)]
      BY <2>9, <2>11, ProgramConcat
    <3>2. CASE x = <<d>>
      <4>1. Len(x) = 1 /\ x[1] = d
        BY <3>2
      <4>2. QED
        BY <2>9, <3>1, <4>1
    <3>3. CASE x = <<>>
      <4>1. Len(x) = 0
        BY <3>3
      <4>2. QED
        BY <2>9, <3>1, <4>1
    <3>4. QED
      BY <2>7, <3>2, <3>3
  <2>15. PICK v : v = w \o x
    OBVIOUS
  <2>16. IsProgram(v \o y) /\ ProgramFits(q, v \o y)
    BY <2>4, <2>10, <2>12, <2>14, <2>15, ConcatFits
  <2>17. v \o y # <<>> /\ (v \o y)[1] = a
    BY <2>10, <2>12, <2>13, <2>15, ConcatHead
  <2>18. PICK program : program = v \o y
    OBVIOUS
  <2>19. Begin(r, "APIActivateMFA", u, u, program) /\ UNCHANGED <<account, invite, sent, nextId>>
    BY <2>1, <2>8, <2>15, <2>18 DEF AcceptMFA, mfaTables, accountTables
  <2>20. QED
    BY <2>5, <2>16, <2>17, <2>18, <2>19, BeginKeepsInv DEF MFAInv
<1>3. QED
  BY <1>1, <1>2

\* A request to log in or to remove the second factor is ready when it arrives.
LEMMA FactorRequestArrives ==
    ASSUME MFAInv, NEW r \in Requests,
           \/ GenerateToken(r) \/ APIValidateMFA(r)
           \/ APIDisableMFA(r) \/ APIAdminDeleteUserMFA(r)
    PROVE  KeepsInv
<1> USE DEF CallFits, Follows, NeedsRow, NeedsCount, NeedsSecret, KeepsCount,
            RowCalls, RowReads, ScopedCalls, Call,
            MFAInv, AcceptMFA, mfaTables, accountTables
<1>1. CASE GenerateToken(r)
  <2>1. PICK x : AcceptMFA(r, "GenerateToken", None, None, <<Call("logIn", x)>>)
    BY <1>1 DEF GenerateToken
  <2>2. PICK a : a = Call("logIn", x)
    OBVIOUS
  <2>3. IsProgram(<<a>>) /\ ProgramFits([op |-> "GenerateToken", scope |-> None], <<a>>)
    BY <2>2, TuplesArePrograms DEF ProgramFits
  <2>4. QED
    BY <2>1, <2>2, <2>3, BeginKeepsInv
<1>2. CASE APIValidateMFA(r)
  <2>0. PICK u \in Users : \E f :
           AcceptMFA(r, "APIValidateMFA", u, u,
             <<Call("readUser", None), Call("enrolled", None), Call("secondFactor", f)>>)
    BY <1>2 DEF APIValidateMFA, RecoveryFits, Registered
  <2>1. PICK f :
           AcceptMFA(r, "APIValidateMFA", u, u,
             <<Call("readUser", None), Call("enrolled", None), Call("secondFactor", f)>>)
    BY <2>0
  <2>2. PICK a, b, c :
           /\ a = Call("readUser", None) /\ b = Call("enrolled", None)
           /\ c = Call("secondFactor", f)
    OBVIOUS
  <2>3. IsProgram(<<a, b, c>>) /\ ProgramFits([op |-> "APIValidateMFA", scope |-> u], <<a, b, c>>)
    BY <2>2, ThreeFit
  <2>4. QED
    BY <2>1, <2>2, <2>3, BeginKeepsInv
<1>3. CASE APIDisableMFA(r)
  <2>0. PICK u \in Users, p \in Passwords : \E x :
           AcceptMFA(r, "APIDisableMFA", u, u,
             <<Call("readUser", None), Call("enrolled", None), Call("hasPassword", p),
               Call("secondFactor", x), Call("clearMFA", None), Call("clearCodes", None)>>)
    BY <1>3 DEF APIDisableMFA, Registered
  <2>1. PICK x :
           AcceptMFA(r, "APIDisableMFA", u, u,
             <<Call("readUser", None), Call("enrolled", None), Call("hasPassword", p),
               Call("secondFactor", x), Call("clearMFA", None), Call("clearCodes", None)>>)
    BY <2>0
  <2>2. PICK a, b, c, d, e, f :
           /\ a = Call("readUser", None) /\ b = Call("enrolled", None)
           /\ c = Call("hasPassword", p) /\ d = Call("secondFactor", x)
           /\ e = Call("clearMFA", None) /\ f = Call("clearCodes", None)
    OBVIOUS
  <2> DEFINE q == [op |-> "APIDisableMFA", scope |-> u]
  <2>3. /\ CallFits(q, a) /\ CallFits(q, b) /\ CallFits(q, c) /\ CallFits(q, d)
        /\ CallFits(q, e) /\ CallFits(q, f)
    BY <2>2
  <2>4. /\ Follows(q.op, a, b) /\ Follows(q.op, b, c) /\ Follows(q.op, c, d)
        /\ Follows(q.op, d, e) /\ Follows(q.op, e, f)
    BY <2>2
  <2>5. IsProgram(<<a, b, c, d, e, f>>) /\ ProgramFits(q, <<a, b, c, d, e, f>>)
    BY <2>3, <2>4, SixFit
  <2>6. QED
    BY <2>1, <2>2, <2>5, BeginKeepsInv
<1>4. CASE APIAdminDeleteUserMFA(r)
  <2>1. PICK u \in Users, v \in Users :
           AcceptMFA(r, "APIAdminDeleteUserMFA", u, v,
             <<Call("clearMFA", None), Call("clearCodes", None)>>)
    BY <1>4 DEF APIAdminDeleteUserMFA, Registered
  <2>2. PICK a, b : a = Call("clearMFA", None) /\ b = Call("clearCodes", None)
    OBVIOUS
  <2> DEFINE q == [op |-> "APIAdminDeleteUserMFA", scope |-> v]
  <2>3. CallFits(q, a) /\ CallFits(q, b) /\ Follows(q.op, a, b)
    BY <2>2
  <2>4. IsProgram(<<a, b>>) /\ ProgramFits(q, <<a, b>>)
    BY <2>3, TwoFit
  <2>5. QED
    BY <2>1, <2>2, <2>4, BeginKeepsInv
<1>5. QED
  BY <1>1, <1>2, <1>3, <1>4

\* The checks of an enrolment and of a login, and the confirmation of a secret.
LEMMA MFACheckKeepsInv ==
    ASSUME AccountsInv, NEW r \in Requests, MFACheck(r)
    PROVE  KeepsInv
<1> DEFINE q == req[r]
           c == Head(q.todo)
<1>1. /\ Pending(r) /\ c.do \in {"mayEnrol", "mayActivate", "enrolled", "hasPassword"}
      /\ UNCHANGED <<account, invite, sent, nextId>>
  BY DEF MFACheck, Guarded, mfaTables, accountTables
<1>2. Answer(r, "refused") \/ (Done(r) /\ (c.do = "mayActivate" => q.found.secret # 0))
  BY DEF MFACheck, Guarded, MFAPasses, Done, Answer
<1>3. CASE Answer(r, "refused")
  BY <1>1, <1>3, AnswerKeepsInv DEF Replies
<1>4. CASE Done(r) /\ c.do # "mayActivate"
  BY <1>1, <1>4, DoneKeepsInv DEF RowReads
<1>5. CASE Done(r) /\ c.do = "mayActivate" /\ q.found.secret # 0
  <2>1. PICK u, x : u = q.scope /\ x = q.found
    OBVIOUS
  <2>2. RowOf(u, x) /\ x.secret # 0
    BY <1>1, <1>5, <2>1, NextCall DEF HeadReady, NeedsRow, RowCalls
  <2>3. Grows
    BY <1>1 DEF AccountsInv, TablesFit, Grows, Registered, Invited
  <2>4. RowOf(u, x)'
    BY <2>2, <2>3, RowStays
  <2>5. OnlyMoves(r) /\ (Over(req'[r]) \/ GoesOn(r, u, x))
    BY <1>1, <1>5, <2>1, DoneStep DEF AccountsInv
  <2>6. CASE GoesOn(r, u, x)
    <3>1. ASSUME NEW d, Follows(q.op, c, d)
          PROVE  HeadReady(req[r], d)'
      <4>1. ~NeedsCount(q.op, d)
        BY <1>5, <3>1 DEF Follows, NeedsCount, KeepsCount
      <4>2. req'[r].op = q.op /\ req'[r].scope = u /\ req'[r].found = x
        BY <2>6 DEF GoesOn, Holds
      <4>3. QED
        BY <2>2, <2>4, <4>1, <4>2
           DEF HeadReady, NeedsRow, NeedsCount, NeedsSecret, KeepsCount
    <3>2. Ready(req[r])'
      BY <1>1, <2>1, <2>6, <3>1, GoesOnReady DEF AccountsInv
    <3>3. QED
      BY <1>1, <2>5, <3>2, NoWriteKeepsInv
  <2>7. QED
    BY <1>1, <2>5, <2>6, OverIsReady, NoWriteKeepsInv
<1>6. QED
  BY <1>2, <1>3, <1>4, <1>5

\* A row with other columns of the second factor.
WithFactor(x, secret, mfa) == [x EXCEPT !.secret = secret, !.mfa = mfa]

\* Such a row is a row of an account.
LEMMA FactorColumns ==
    ASSUME NEW x \in AccountRow, NEW n \in Nat, Codes(x) \subseteq 0..n,
           NEW secret \in 0..n, NEW mfa \in BOOLEAN
    PROVE  LET y == WithFactor(x, secret, mfa)
           IN  /\ y \in AccountRow /\ Codes(y) \subseteq 0..n
               /\ y.email = x.email /\ y.password = x.password
<1>1. PICK y : y = [x EXCEPT !.secret = secret, !.mfa = mfa]
  OBVIOUS
<1>2. y = [enabled |-> x.enabled, email |-> x.email, password |-> x.password,
           subject |-> x.subject, admin |-> x.admin, verified |-> x.verified,
           code |-> x.code, reset |-> x.reset, open |-> x.open,
           mfa |-> mfa, secret |-> secret]
  BY <1>1 DEF AccountRow
<1>3. y \in AccountRow /\ y.email = x.email /\ y.password = x.password
  BY <1>2 DEF AccountRow
<1>4. Codes(y) \subseteq 0..n
  BY <1>2 DEF Codes
<1>5. QED
  BY <1>1, <1>3, <1>4 DEF WithFactor

\* The columns of the second factor are written.
LEMMA FactorWriteKeepsInv ==
    ASSUME AccountsInv, NEW r \in Requests,
           SetUserPendingMFASecret(r) \/ ActivateUserMFA(r) \/ DisableUserMFA(r)
    PROVE  KeepsInv
<1> DEFINE u == req[r].scope
<1>1. /\ Pending(r) /\ Head(req[r].todo).do \in {"setSecret", "activate", "clearMFA"}
      /\ nextId \in Nat
  BY DEF SetUserPendingMFASecret, ActivateUserMFA, DisableUserMFA, At, AccountsInv, TablesFit
<1>2. u \in Users
  BY <1>1, NextCall DEF ScopedCalls
<1>3. account[u].enabled => RowOf(u, account[u])
  BY <1>2, RowOfAccount DEF AccountsInv
<1>4. Head(req[r].todo).do \notin RowReads \cup {"countUsers", "mayActivate"}
  BY <1>1 DEF RowReads
<1>5. CASE SetUserPendingMFASecret(r)
  <2> DEFINE row == [account[u] EXCEPT !.secret = nextId + 1, !.mfa = FALSE]
  <2>1. UpdateColumns(r, row) /\ nextId' = nextId + 1 /\ UNCHANGED <<invite, sent>>
    BY <1>5 DEF SetUserPendingMFASecret
  <2>2. account[u].enabled =>
          /\ row \in AccountRow /\ Codes(row) \subseteq 0..nextId'
          /\ row.email = account[u].email /\ row.password = account[u].password
    <3>1. PICK n, secret, x, y : n = nextId' /\ secret = nextId + 1 /\ x = account[u] /\ y = row
      OBVIOUS
    <3>2. n \in Nat /\ secret \in 0..n /\ FALSE \in BOOLEAN
      BY <1>1, <2>1, <3>1
    <3>3. account[u].enabled => x \in AccountRow /\ Codes(x) \subseteq 0..n
      BY <1>1, <1>3, <2>1, <3>1 DEF RowOf
    <3>4. y = WithFactor(x, secret, FALSE)
      BY <3>1 DEF WithFactor
    <3>5. account[u].enabled => /\ y \in AccountRow /\ Codes(y) \subseteq 0..n
                                /\ y.email = x.email /\ y.password = x.password
      BY <3>2, <3>3, <3>4, FactorColumns
    <3>6. QED
      BY <3>1, <3>5
  <2> HIDE DEF row
  <2>3. QED
    BY <1>1, <1>2, <1>4, <2>1, <2>2, ColumnsKeepInv
<1>6. CASE ActivateUserMFA(r)
  <2> DEFINE row == [account[u] EXCEPT !.mfa = TRUE]
  <2>1. UpdateColumns(r, row) /\ UNCHANGED <<invite, sent, nextId>>
    BY <1>6 DEF ActivateUserMFA
  <2>2. account[u].enabled =>
          /\ row \in AccountRow /\ Codes(row) \subseteq 0..nextId'
          /\ row.email = account[u].email /\ row.password = account[u].password
    BY <1>1, <1>3, <2>1 DEF RowOf, AccountRow, Codes
  <2> HIDE DEF row
  <2>3. QED
    BY <1>1, <1>2, <1>4, <2>1, <2>2, ColumnsKeepInv
<1>7. CASE DisableUserMFA(r)
  <2> DEFINE row == WithoutMFA(account[u])
  <2>1. /\ account' = [account EXCEPT ![u] = IF account[u].enabled THEN row ELSE account[u]]
        /\ Done(r) /\ UNCHANGED <<invite, sent, nextId>>
    BY <1>7 DEF DisableUserMFA
  <2>2. CASE account[u].enabled
    <3>1. /\ row \in AccountRow /\ Codes(row) \subseteq 0..nextId'
          /\ row.email = account[u].email /\ row.password = account[u].password
      <4>1. PICK n, x, y : n = nextId' /\ x = account[u] /\ y = row
        OBVIOUS
      <4>2. n \in Nat /\ 0 \in 0..n /\ FALSE \in BOOLEAN
        BY <1>1, <2>1, <4>1
      <4>3. x \in AccountRow /\ Codes(x) \subseteq 0..n
        BY <1>1, <1>3, <2>1, <2>2, <4>1 DEF RowOf
      <4>4. y = WithFactor(x, 0, FALSE)
        BY <4>1 DEF WithoutMFA, WithFactor
      <4>5. /\ y \in AccountRow /\ Codes(y) \subseteq 0..n
            /\ y.email = x.email /\ y.password = x.password
        BY <4>2, <4>3, <4>4, FactorColumns
      <4>6. QED
        BY <4>1, <4>5
    <3>2. account' = [account EXCEPT ![u] = row]
      BY <2>1, <2>2
    <3> HIDE DEF row
    <3>3. TablesFit' /\ AddressesDiffer' /\ InvitesFit' /\ Grows
      <4>1. nextId' \in Nat /\ nextId <= nextId'
        BY <1>1, <2>1
      <4>2. QED
        BY <1>2, <2>1, <2>2, <3>1, <3>2, <4>1, ColumnsWritten
    <3>4. OnlyMoves(r) /\ Ready(req[r])'
      BY <1>1, <1>4, <2>1, <3>3, DoneReady DEF AccountsInv
    <3>5. QED
      BY <3>3, <3>4, StepKeepsInv
  <2>3. CASE ~account[u].enabled
    <3>1. account' = account
      BY <2>1, <2>3 DEF AccountsInv, TablesFit
    <3>2. QED
      BY <1>1, <1>4, <2>1, <3>1, DoneKeepsInv
  <2>4. QED
    BY <2>2, <2>3
<1>8. QED
  BY <1>5, <1>6, <1>7

\* A second factor is checked; a recovery code is to be marked before the other calls.
LEMMA SecondFactorKeepsInv ==
    ASSUME AccountsInv, NEW r \in Requests, verifySecondFactor(r)
    PROVE  KeepsInv
<1> DEFINE s == req[r].todo
<1>1. /\ Pending(r) /\ Head(s).do = "secondFactor"
      /\ UNCHANGED <<account, invite, sent, nextId>>
  BY DEF verifySecondFactor, At, mfaTables, accountTables
<1>2. CASE Answer(r, "refused")
  BY <1>1, <1>2, AnswerKeepsInv DEF Replies
<1>3. CASE Done(r)
  BY <1>1, <1>3, DoneKeepsInv DEF RowReads
<1>4. CASE \E x : Continue(r, req[r].scope, req[r].found, <<Call("markUsed", x)>> \o Tail(s))
  <2>1. PICK a, t, op, u, x :
           /\ a.do = "markUsed" /\ t = Tail(s) /\ op = req[r].op
           /\ u = req[r].scope /\ x = req[r].found
           /\ Continue(r, u, x, <<a>> \o t)
    BY <1>4 DEF Call
  <2> DEFINE q == [op |-> op, scope |-> u]
  <2>2. IsProgram(s) /\ s # <<>> /\ ProgramFits(req[r], s)
    BY <1>1 DEF AccountsInv, RequestsFit, RequestsOK, Ready
  <2>3. /\ IsProgram(t)
        /\ t # <<>> => /\ ProgramFits(req[r], t) /\ Head(t) = s[2]
                       /\ Follows(op, Head(s), s[2]) /\ t[1] = Head(t)
    BY <2>1, <2>2, TailFits, ProgramTail
  <2>4. ProgramFits(q, t)
    <3>1. CASE t = <<>>
      BY <3>1 DEF ProgramFits
    <3>2. CASE t # <<>>
      <4>1. q.op = req[r].op /\ q.scope = req[r].scope /\ ProgramFits(req[r], t)
        BY <2>1, <2>3, <3>2
      <4>2. QED
        BY <4>1, FitsAlike
    <3>3. QED
      BY <3>1, <3>2
  <2>5. IsProgram(<<a>>) /\ ProgramFits(q, <<a>>)
    <3>1. CallFits(q, a)
      BY <2>1 DEF CallFits, ScopedCalls
    <3>2. QED
      BY <3>1, TuplesArePrograms DEF ProgramFits
  <2>6. t # <<>> => Follows(op, a, t[1])
    <3>1. ~NeedsRow(op, Head(s)) /\ ~NeedsCount(op, Head(s)) /\ ~NeedsSecret(op, Head(s))
      BY <1>1 DEF NeedsRow, NeedsCount, NeedsSecret, KeepsCount, RowCalls
    <3>2. t # <<>> => /\ ~NeedsRow(op, t[1]) /\ ~NeedsCount(op, t[1]) /\ ~NeedsSecret(op, t[1])
      BY <1>1, <2>3, <3>1 DEF Follows, RowReads, NeedsCount
    <3>3. QED
      BY <3>2 DEF Follows
  <2>7. IsProgram(<<a>> \o t) /\ ProgramFits(q, <<a>> \o t)
    <3>1. Len(<<a>>) = 1 /\ <<a>>[1] = a
      OBVIOUS
    <3>2. QED
      BY <2>3, <2>4, <2>5, <2>6, <3>1, ConcatFits
  <2>8. (<<a>> \o t)[1] = a
    <3>1. <<a>> # <<>> /\ <<a>>[1] = a
      OBVIOUS
    <3>2. QED
      BY <2>3, <2>5, <3>1, ConcatHead
  <2>9. PICK program : program = <<a>> \o t
    OBVIOUS
  <2>10. HeadReady([op |-> op, scope |-> u, found |-> x], program[1])
    BY <2>1, <2>8, <2>9
       DEF HeadReady, NeedsRow, NeedsCount, NeedsSecret, KeepsCount, RowCalls
  <2>11. Grows
    BY <1>1 DEF AccountsInv, TablesFit, Grows, Registered, Invited
  <2>12. OnlyMoves(r) /\ Ready(req[r])'
    BY <1>1, <2>1, <2>7, <2>9, <2>10, <2>11, ContinueReady DEF AccountsInv
  <2>13. QED
    BY <1>1, <2>12, NoWriteKeepsInv
<1>5. QED
  BY <1>2, <1>3, <1>4 DEF verifySecondFactor

\* Recovery codes are made, used up and removed, and challenges are made.
LEMMA RecoveryStep ==
    ASSUME MFAInv, NEW r \in Requests,
           \/ ClearUserRecoveryCodes(r) \/ StoreRecoveryCodes(r)
           \/ LogIn(r) \/ MarkRecoveryCodeUsed(r)
    PROVE  KeepsInv /\ RecoveryFits'
<1> USE DEF MFAInv, mfaTables, accountTables, Replies, RowReads
<1>1. CASE ClearUserRecoveryCodes(r)
  <2>1. KeepsInv
    BY <1>1, DoneKeepsInv DEF ClearUserRecoveryCodes, At
  <2>2. recovery' \subseteq recovery /\ UNCHANGED challenged
    BY <1>1 DEF ClearUserRecoveryCodes
  <2>3. QED
    BY <2>1, <2>2 DEF RecoveryFits, KeepsInv, Grows
<1>2. CASE StoreRecoveryCodes(r)
  <2>1. Pending(r) /\ Head(req[r].todo).do = "storeCodes" /\ Done(r) /\ nextId \in Nat
    BY <1>2 DEF StoreRecoveryCodes, At, AccountsInv, TablesFit
  <2>2. /\ nextId' = nextId + RecoveryCodeCount
        /\ UNCHANGED <<account, invite, sent, challenged>>
        /\ nextId' \in Nat /\ nextId <= nextId'
    BY <1>2, <2>1, MFAAssumption DEF StoreRecoveryCodes
  <2>3. sent' \subseteq [kind: {"verify", "reset"}, code: 1..nextId', to: Emails]
    BY <2>1, <2>2 DEF AccountsInv, TablesFit
  <2>4. TablesFit' /\ AddressesDiffer' /\ InvitesFit' /\ Grows
    BY <2>2, <2>3, NoWrite DEF AccountsInv
  <2>5. OnlyMoves(r) /\ Ready(req[r])'
    BY <2>1, <2>4, DoneReady DEF AccountsInv
  <2>6. KeepsInv
    BY <2>4, <2>5, StepKeepsInv
  <2>7. PICK u, secret : u = req[r].scope /\ secret = req[r].found.secret
    OBVIOUS
  <2>8. u \in Registered /\ secret \in 1..nextId
    BY <2>1, <2>7, NextCall DEF HeadReady, NeedsSecret, RowOf, Codes
  <2>9. recovery' = recovery \cup
           {[id |-> nextId + i, user |-> u, secret |-> secret, used |-> FALSE] :
              i \in 1..RecoveryCodeCount}
    BY <1>2, <2>7 DEF StoreRecoveryCodes
  <2>10. \A i \in 1..RecoveryCodeCount : nextId + i \in 1..nextId' /\ nextId + i > nextId
    BY <2>1, <2>2, MFAAssumption
  <2>11. Registered' = Registered
    BY <2>2 DEF Registered
  <2>12. recovery' \subseteq
            [id: 1..nextId', user: Registered', secret: 1..nextId', used: BOOLEAN]
    <3>1. ASSUME NEW c \in recovery
          PROVE  c \in [id: 1..nextId', user: Registered', secret: 1..nextId', used: BOOLEAN]
      BY <2>1, <2>2, <2>11 DEF RecoveryFits
    <3>2. ASSUME NEW i \in 1..RecoveryCodeCount
          PROVE  [id |-> nextId + i, user |-> u, secret |-> secret, used |-> FALSE] \in
                    [id: 1..nextId', user: Registered', secret: 1..nextId', used: BOOLEAN]
      BY <2>1, <2>2, <2>8, <2>10, <2>11
    <3>3. QED
      BY <2>9, <3>1, <3>2
  <2>13. ASSUME NEW c \in recovery', NEW d \in recovery', c.id = d.id
         PROVE  c = d
    <3>1. ASSUME NEW e \in recovery PROVE e.id \in 1..nextId
      BY DEF RecoveryFits
    <3>2. CASE c \in recovery /\ d \in recovery
      BY <2>13, <3>2 DEF RecoveryFits
    <3>3. CASE c \notin recovery /\ d \notin recovery
      <4>1. PICK i \in 1..RecoveryCodeCount :
               c = [id |-> nextId + i, user |-> u, secret |-> secret, used |-> FALSE]
        BY <2>9, <3>3
      <4>2. PICK j \in 1..RecoveryCodeCount :
               d = [id |-> nextId + j, user |-> u, secret |-> secret, used |-> FALSE]
        BY <2>9, <3>3
      <4>3. i = j
        BY <2>1, <2>13, <4>1, <4>2, MFAAssumption
      <4>4. QED
        BY <4>1, <4>2, <4>3
    <3>4. CASE c \in recovery /\ d \notin recovery
      BY <2>1, <2>9, <2>10, <2>13, <3>1, <3>4
    <3>5. CASE c \notin recovery /\ d \in recovery
      BY <2>1, <2>9, <2>10, <2>13, <3>1, <3>5
    <3>6. QED
      BY <3>2, <3>3, <3>4, <3>5
  <2>14. QED
    BY <2>2, <2>6, <2>11, <2>12, <2>13 DEF RecoveryFits
<1>3. CASE LogIn(r)
  <2>1. \E reply \in Replies : Answer(r, reply)
    BY <1>3 DEF LogIn
  <2>2. KeepsInv
    BY <1>3, <2>1, AnswerKeepsInv DEF LogIn
  <2>3. Registered' = Registered /\ UNCHANGED <<recovery, nextId>>
    BY <1>3 DEF LogIn, Registered
  <2>4. challenged' \subseteq challenged \cup {u \in Users : account[u].enabled}
    BY <1>3 DEF LogIn, findEnabledUserByEmail
  <2>5. challenged' \subseteq Registered
    BY <2>4, RegisteredRow DEF AccountsInv, RecoveryFits
  <2>6. QED
    BY <2>2, <2>3, <2>5 DEF RecoveryFits
<1>4. CASE MarkRecoveryCodeUsed(r)
  <2>1. /\ Pending(r) /\ Head(req[r].todo).do = "markUsed"
        /\ UNCHANGED <<account, invite, sent, nextId, challenged>>
    BY <1>4 DEF MarkRecoveryCodeUsed, At
  <2>2. CASE Answer(r, "refused") /\ UNCHANGED recovery
    <3>1. KeepsInv
      BY <2>1, <2>2, AnswerKeepsInv
    <3>2. QED
      BY <2>1, <2>2, <3>1, RecoveryStays DEF KeepsInv
  <2>3. CASE Done(r) /\ recovery' = {[c EXCEPT !.used = @ \/ c.id = Arg(r)] : c \in recovery}
    <3>1. KeepsInv
      BY <2>1, <2>3, DoneKeepsInv
    <3>2. Registered' = Registered
      BY <2>1 DEF Registered
    <3>3. PICK x : x = Arg(r)
      OBVIOUS
    <3>4. ASSUME NEW c \in recovery'
          PROVE  /\ c \in [id: 1..nextId, user: Registered, secret: 1..nextId, used: BOOLEAN]
                 /\ \E d \in recovery : d.id = c.id /\ c = [d EXCEPT !.used = @ \/ d.id = x]
      <4>1. PICK d \in recovery : c = [d EXCEPT !.used = @ \/ d.id = x]
        BY <2>3, <3>3
      <4>2. d \in [id: 1..nextId, user: Registered, secret: 1..nextId, used: BOOLEAN]
        BY DEF RecoveryFits
      <4>3. PICK b \in BOOLEAN : b = (d.used \/ d.id = x)
        BY <4>2
      <4>4. c = [d EXCEPT !.used = b]
        BY <4>1, <4>3
      <4>5. QED
        BY <4>1, <4>2, <4>4
    <3>5. \A c, d \in recovery' : c.id = d.id => c = d
      BY <3>4 DEF RecoveryFits
    <3>6. QED
      BY <2>1, <3>1, <3>2, <3>4, <3>5 DEF RecoveryFits
  <2>4. QED
    BY <1>4, <2>2, <2>3 DEF MarkRecoveryCodeUsed
<1>5. QED
  BY <1>1, <1>2, <1>3, <1>4

\* Every step of logging in and of the second factor keeps the invariant.
LEMMA MFANextKeepsInv ==
    ASSUME MFAInv, MFANext
    PROVE  MFAInv'
<1>1. CASE AccountsNext /\ UNCHANGED <<recovery, challenged>>
  BY <1>1, AccountsNextKeepsInv, RecoveryStays DEF MFAInv, KeepsInv
<1>2. ASSUME NEW r \in Requests, MFARequest(r)
      PROVE  MFAInv'
  <2>1. KeepsInv
    BY <1>2, EnrolmentArrives, FactorRequestArrives DEF MFARequest
  <2>2. UNCHANGED <<recovery, challenged>>
    BY <1>2 DEF MFARequest, APIEnrollMFA, APIActivateMFA, GenerateToken, APIValidateMFA,
         APIDisableMFA, APIAdminDeleteUserMFA, AcceptMFA, mfaTables
  <2>3. QED
    BY <2>1, <2>2, RecoveryStays DEF MFAInv, KeepsInv
<1>3. ASSUME NEW r \in Requests, MFAStep(r)
      PROVE  MFAInv'
  <2>1. CASE \/ MFACheck(r) \/ SetUserPendingMFASecret(r) \/ ActivateUserMFA(r)
             \/ DisableUserMFA(r) \/ verifySecondFactor(r)
    <3>1. KeepsInv
      BY <2>1, MFACheckKeepsInv, FactorWriteKeepsInv, SecondFactorKeepsInv DEF MFAInv
    <3>2. UNCHANGED <<recovery, challenged>>
      BY <2>1 DEF MFACheck, SetUserPendingMFASecret, ActivateUserMFA, DisableUserMFA,
           verifySecondFactor, mfaTables
    <3>3. QED
      BY <3>1, <3>2, RecoveryStays DEF MFAInv, KeepsInv
  <2>2. CASE \/ ClearUserRecoveryCodes(r) \/ StoreRecoveryCodes(r)
             \/ LogIn(r) \/ MarkRecoveryCodeUsed(r)
    BY <2>2, RecoveryStep DEF MFAInv, KeepsInv
  <2>3. QED
    BY <1>3, <2>1, <2>2 DEF MFAStep
<1>4. QED
  BY <1>1, <1>2, <1>3 DEF MFANext

\* The invariant of accounts holds as well beside logins and the second factor,
\* with that of recovery codes and challenges.
THEOREM MFAInvariant == MFASpec => []MFAInv
<1>1. MFAInit => MFAInv
  <2> SUFFICES ASSUME MFAInit PROVE MFAInv
    OBVIOUS
  <2>1. AccountsInit
    BY DEF MFAInit
  <2>2. AccountsInv /\ account = SeedAccount /\ nextId = SeedIds
    BY <2>1, AccountsInitInv DEF AccountsInit
  <2>3. RecoveryFits
    BY <2>2, MFASeedAssumption DEF MFAInit, RecoveryFits, Registered
  <2>4. QED
    BY <2>2, <2>3 DEF MFAInv
<1>2. MFAInv /\ [MFANext]_mfaVars => MFAInv'
  <2>1. ASSUME MFAInv, UNCHANGED mfaVars
        PROVE  MFAInv'
    <3>1. KeepsInv
      BY <2>1, StutterKeepsInv DEF MFAInv, mfaVars, mfaTables, accountVars
    <3>2. UNCHANGED <<recovery, challenged>>
      BY <2>1 DEF mfaVars, mfaTables
    <3>3. QED
      BY <2>1, <3>1, <3>2, RecoveryStays DEF MFAInv, KeepsInv
  <2>2. QED
    BY <2>1, MFANextKeepsInv
<1>3. QED
  BY <1>1, <1>2, PTL DEF MFASpec

\* The invariant says of every table what the type invariant does.
LEMMA InvGivesMFATypeOK ==
    ASSUME MFAInv
    PROVE  MFATypeOK
BY InvGivesTypeOK DEF MFAInv, RecoveryFits, MFATypeOK

\* Recovery codes and challenges are those of accounts, and no two codes are one,
\* however enrolments, logins and the ways of turning the factor off interleave.
THEOREM MFATypes == MFASpec => []MFATypeOK
BY MFAInvariant, InvGivesMFATypeOK, PTL

\* The second factor leaves the addresses of accounts and the use of invites alone.
THEOREM MFAKeepsAccounts == MFASpec => [](OneAccountPerEmail /\ InvitesMatchAccounts)
<1>1. MFAInv => OneAccountPerEmail /\ InvitesMatchAccounts
  BY InvGivesOneAccount, InvGivesInvitesMatch DEF MFAInv
<1>2. QED
  BY <1>1, MFAInvariant, PTL

-----------------------------------------------------------------------------
(* One request at a time.  The tables then say more between two requests,   *)
(* and the points of a handler at which they do not yet, or again, are few. *)

Mailed(row) == [kind |-> "verify", code |-> row.code, to |-> row.email] \in sent

\* The row x, to be saved, leaves these columns of the account as they are.
Copies(x, row) ==
    /\ x.subject = row.subject
    /\ x.code = row.code /\ x.reset = row.reset
    /\ x.mfa = row.mfa /\ x.secret = row.secret

\* What is so at every point of every handler.
CodesDiffer ==
    /\ \A u, v \in Users : account[u].code = account[v].code /\ account[u].code # 0 => u = v
    /\ \A u, v \in Users : account[u].reset = account[v].reset /\ account[u].reset # 0 => u = v
    /\ \A u \in Users, c \in recovery : account[u].reset # c.id

\* What is so while no request has failed half-way, but for the accounts of spent whose
\* code has been accepted and is to be replaced, those of unmailed whose new code has yet
\* to be mailed and those of moved whose code was mailed to an earlier address.
NoneTwice(spent) ==
    /\ IsInjective(accepted)
    /\ \A u \in Users \ spent : account[u].reset = 0 \/ account[u].reset \notin Range(accepted)
    /\ \A c \in recovery : c.used \/ c.id \notin Range(accepted)
CodesReached(unmailed, moved) ==
    /\ \A u \in Users \ unmailed :
        account[u].verified /\ account[u].password # None => Mailed(account[u])
    /\ \A u \in Users \ moved, m \in sent :
        m.kind = "verify" /\ m.code = account[u].code => m.to = account[u].email

Facts(unmailed, moved, spent) ==
    /\ accepted \in Seq(1..nextId)
    /\ OneAccountPerSubject /\ MFAKeepsASecret /\ CodesOfTheSecret /\ CodesDiffer
    /\ Undisturbed => NoneTwice(spent)
    /\ Undisturbed /\ SMTPEnabled => CodesReached(unmailed, moved)

\* The calls that find what they need in the tables.
PlainCalls ==
    {"readUser", "readQuietly", "knowsPassword", "readToEdit", "findToReset",
     "newReset", "setOpen", "mailReset", "countUsers", "inviteUnused", "emailFree",
     "createUser", "createInvite", "inviteDeletable", "disableInvite", "mayEnrol",
     "setSecret", "logIn", "enrolled", "hasPassword", "secondFactor", "clearMFA", "clearCodes"}
Plain(s) == \A i \in DOMAIN s : s[i].do \in PlainCalls

PlainPoint(q) == Plain(q.todo) /\ Facts({}, {}, {})

\* The calls that are to be made, one by one.
One(s, a) == s = <<a>>
Two(s, a, b) == s = <<a, b>>
Three(s, a, b, c) == s = <<a, b, c>>
Four(s, a, b, c, d) == s = <<a, b, c, d>>
Five(s, a, b, c, d, e) == s = <<a, b, c, d, e>>

VerifyIt == Call("setVerified", TRUE)
UnverifyIt == Call("setVerified", FALSE)
CloseIt == Call("setOpen", FALSE)

\* An unused recovery code is about to be used.
MarkPoint(q) ==
    /\ Facts({}, {}, {})
    /\ Head(q.todo).do = "markUsed" /\ Plain(Tail(q.todo))
    /\ \E c \in recovery : c.id = Head(q.todo).arg /\ ~c.used

\* A code is made for an account and mailed to its address.
MailPoint(q) ==
    /\ One(q.todo, Call("mailCode", None))
    /\ q.found.code = account[q.scope].code /\ q.found.email = account[q.scope].email
    /\ Facts({q.scope}, {}, {})
RegisterPoint(q) ==
    /\ Facts({}, {}, {})
    /\ \E i \in Invites, e \in Emails, a \in [email: Emails, password: Passwords, invite: Invites] :
        \/ Five(q.todo, Call("countUsers", None), Call("inviteUnused", i), Call("emailFree", e),
                Call("createUser", a), Call("mailCode", None))
        \/ Four(q.todo, Call("inviteUnused", i), Call("emailFree", e),
                Call("createUser", a), Call("mailCode", None))
        \/ Three(q.todo, Call("emailFree", e), Call("createUser", a), Call("mailCode", None))
        \/ Two(q.todo, Call("createUser", a), Call("mailCode", None))
SendPoint(q) ==
    \/ /\ \/ Four(q.todo, Call("readUser", None), Call("newCode", None),
                  Call("readUser", None), Call("mailCode", None))
          \/ Three(q.todo, Call("newCode", None), Call("readUser", None), Call("mailCode", None))
       /\ Facts({}, {}, {})
    \/ /\ Two(q.todo, Call("readUser", None), Call("mailCode", None))
       /\ account[q.scope].enabled
       /\ Facts({q.scope}, {}, {})

\* A code that was mailed to an address of the account is compared and verifies it.
WasMailed(c) == \E m \in sent : m.kind = "verify" /\ m.code = c
VerifyPoint(q) ==
    /\ Facts({}, {}, {})
    /\ \/ \E c \in 1..nextId :
            /\ WasMailed(c)
            /\ \/ Four(q.todo, Call("readUser", None), Call("codeMatches", c),
                       VerifyIt, Call("readUser", None))
               \/ Three(q.todo, Call("codeMatches", c),
                        VerifyIt, Call("readUser", None))
       \/ /\ Two(q.todo, VerifyIt, Call("readUser", None))
          /\ WasMailed(account[q.scope].code)

\* The row to be saved is the account's with changes of the handler's own.
EditOf(x, row) ==
    /\ Copies(x, row)
    /\ x.enabled /\ row.enabled
    /\ x.password = None <=> row.password = None
    /\ x.verified => row.verified /\ x.email = row.email
DisableOf(x, row) ==
    /\ Copies(x, row)
    /\ ~x.enabled
    /\ x.email = row.email /\ x.verified = row.verified /\ x.password = row.password
ResetOf(x, row) ==
    /\ Copies(x, row)
    /\ x.enabled /\ row.enabled
    /\ x.email = row.email /\ x.verified = row.verified
    /\ x.password # None /\ row.password # None
    /\ row.reset # 0
EditPoint(q) ==
    LET row == account[q.scope]
    IN  \/ /\ q.op = "UpdateUser"
           /\ \/ Two(q.todo, Call("saveUser", None), Call("readEdited", None))
              \/ /\ \E e \in Emails :
                      \/ Four(q.todo, Call("emailFree", e), UnverifyIt,
                              Call("saveUser", None), Call("readEdited", None))
                      \/ Three(q.todo, UnverifyIt,
                               Call("saveUser", None), Call("readEdited", None))
                 /\ ~q.found.verified
           /\ EditOf(q.found, row)
           /\ Facts({}, {}, {})
        \/ /\ One(q.todo, Call("readEdited", None))
           /\ row.enabled
           /\ Facts({}, {}, {}) \/ (~row.verified /\ Facts({}, {q.scope}, {}))
        \/ /\ Two(q.todo, Call("newCode", None), Call("mailCode", None))
           /\ row.enabled /\ ~row.verified /\ q.found.email = row.email
           /\ Facts({}, {q.scope}, {})

DisablePoint(q) ==
    /\ Facts({}, {}, {})
    /\ \/ Two(q.todo, Call("readToDisable", None), Call("saveUser", None))
       \/ /\ One(q.todo, Call("saveUser", None))
          /\ DisableOf(q.found, account[q.scope])
    /\ q.op = "APIDeleteUser"

\* The code that lets a password be set is replaced right after.
ResetPoint(q) ==
    LET row == account[q.scope]
    IN  \/ /\ \E a : /\ a.password \in Passwords /\ a.code # 0
                     /\ Four(q.todo, Call("findReset", a), Call("saveUser", None),
                             Call("newReset", None), CloseIt)
           /\ q.op = "APIChangePassword"
           /\ Facts({}, {}, {})
        \/ /\ Three(q.todo, Call("saveUser", None), Call("newReset", None), CloseIt)
           /\ q.op = "APIChangePassword"
           /\ ResetOf(q.found, row)
           /\ Facts({}, {}, {})
        \/ /\ Two(q.todo, Call("newReset", None), CloseIt)
           /\ row.enabled
           /\ Facts({}, {}, {q.scope})

\* The secret is confirmed and the codes of an earlier one are gone before the
\* factor counts.
ActivatePoint(q) ==
    LET row == account[q.scope]
        cleared == \A c \in recovery : c.user # q.scope
    IN  /\ Facts({}, {}, {})
        /\ \/ \E t :
                \/ Five(q.todo, Call("readUser", None), Call("mayActivate", t),
                        Call("clearCodes", None), Call("storeCodes", None), Call("activate", None))
                \/ Four(q.todo, Call("readUser", None), Call("mayActivate", t),
                        Call("clearCodes", None), Call("activate", None))
           \/ /\ \E t :
                   \/ Four(q.todo, Call("mayActivate", t),
                           Call("clearCodes", None), Call("storeCodes", None), Call("activate", None))
                   \/ Three(q.todo, Call("mayActivate", t),
                            Call("clearCodes", None), Call("activate", None))
              /\ q.found.mfa = row.mfa /\ q.found.secret = row.secret
           \/ /\ \/ Three(q.todo, Call("clearCodes", None), Call("storeCodes", None), Call("activate", None))
                 \/ Two(q.todo, Call("clearCodes", None), Call("activate", None))
                 \/ Two(q.todo, Call("storeCodes", None), Call("activate", None)) /\ cleared
              /\ row.secret # 0 /\ ~row.mfa /\ q.found.secret = row.secret
           \/ /\ One(q.todo, Call("activate", None))
              /\ row.secret # 0
              /\ \A c \in recovery : c.user = q.scope => c.secret = row.secret

\* An external identity that no account has yet is given to one.
Unheld(s) == \A u \in Users : account[u].enabled => account[u].subject # s
LoginPoint(q) ==
    /\ Facts({}, {}, {})
    /\ \/ \E a \in Identity : One(q.todo, Call("findSubject", a))
       \/ \E a \in Identity :
            /\ Unheld(a.subject)
            /\ \/ One(q.todo, Call("findAddress", a))
               \/ Two(q.todo, Call("link", a.subject), Call("readUser", None))
               \/ Two(q.todo, Call("countUsers", None), Call("createExternal", a))
               \/ One(q.todo, Call("createExternal", a))

Point(q) ==
    \/ PlainPoint(q) \/ MarkPoint(q) \/ MailPoint(q) \/ RegisterPoint(q) \/ SendPoint(q)
    \/ VerifyPoint(q) \/ EditPoint(q) \/ DisablePoint(q) \/ ResetPoint(q)
    \/ ActivatePoint(q) \/ LoginPoint(q)

\* Where a request is at one of its points, or nobody is anywhere.
Orderly ==
    /\ InFlight = {} => Facts({}, {}, {})
    /\ \A r \in Requests : Pending(r) => Point(req[r])

-----------------------------------------------------------------------------
(* What each kind of write keeps.                                           *)

\* A request that failed half-way stays so.
LEMMA DisturbedStays ==
    ASSUME NEW r \in Requests, OnlyMoves(r), req[r].reply # "error"
    PROVE  Undisturbed' => Undisturbed
BY DEF Undisturbed, OnlyMoves

\* The row can belong to the account u: nobody else is the same person to the
\* provider, its second factor is complete and its codes are its own.
RowFits(u, row) ==
    /\ row.enabled /\ row.subject # None =>
          \A v \in Users \ {u} : account[v].enabled => account[v].subject # row.subject
    /\ row.mfa => /\ row.secret # 0
                  /\ \A c \in recovery : c.user = u => c.secret = row.secret
    /\ \A v \in Users \ {u} : row.code = account[v].code => row.code = 0
    /\ \A v \in Users \ {u} : row.reset = account[v].reset => row.reset = 0
    /\ \A c \in recovery : row.reset # c.id

\* The mail about the row's code went to the row's address, or there is none.
ReachedOnly(row) == \A m \in sent : m.kind = "verify" /\ m.code = row.code => m.to = row.email
Verifies(row) == row.verified /\ row.password # None => Mailed(row)

\* One row is written, and no account but its own was or is an exception.
LEMMA RowFacts ==
    ASSUME MFAInv, MFAInv', NEW u \in Users, NEW row, RowFits(u, row),
           NEW A, NEW B, NEW C, Facts(A, B, C), A \subseteq {u}, B \subseteq {u}, C \subseteq {u},
           NEW X, NEW Y, NEW Z,
           Undisturbed /\ SMTPEnabled => u \in X \/ Verifies(row),
           Undisturbed /\ SMTPEnabled => u \in Y \/ ReachedOnly(row),
           u \in Z \/ row.reset = 0 \/ (Undisturbed => row.reset \notin Range(accepted)),
           account' = [account EXCEPT ![u] = row], nextId <= nextId',
           UNCHANGED <<sent, accepted, recovery>>, Undisturbed' => Undisturbed
    PROVE  Facts(X, Y, Z)'
<1>1. account'[u] = row /\ \A v \in Users \ {u} : account'[v] = account[v]
  BY DEF MFAInv, AccountsInv, TablesFit
<1>2. nextId \in Nat /\ nextId' \in Nat
  BY DEF MFAInv, AccountsInv, TablesFit
<1>3. accepted' \in Seq(1..nextId')
  <2>1. 1..nextId \subseteq 1..nextId'
    BY <1>2
  <2>2. QED
    BY <2>1, SeqMonotonic DEF Facts
<1>4. OneAccountPerSubject'
  BY <1>1 DEF Facts, OneAccountPerSubject, RowFits
<1>5. MFAKeepsASecret'
  BY <1>1 DEF Facts, MFAKeepsASecret, RowFits
<1>6. CodesOfTheSecret'
  BY <1>1 DEF Facts, CodesOfTheSecret, RowFits, MFAInv, RecoveryFits, Registered
<1>7. CodesDiffer'
  BY <1>1 DEF Facts, CodesDiffer, RowFits
<1>8. ASSUME Undisturbed'
      PROVE  NoneTwice(Z)'
  BY <1>1, <1>8 DEF Facts, NoneTwice
<1>9. ASSUME Undisturbed', SMTPEnabled
      PROVE  CodesReached(X, Y)'
  BY <1>1, <1>9 DEF Facts, CodesReached, Verifies, ReachedOnly, Mailed
<1>10. QED
  BY <1>3, <1>4, <1>5, <1>6, <1>7, <1>8, <1>9 DEF Facts

\* A step that writes none of these tables.
LEMMA SameFacts ==
    ASSUME MFAInv, MFAInv', NEW A, NEW B, NEW C, Facts(A, B, C),
           nextId <= nextId', UNCHANGED <<account, sent, accepted, recovery>>,
           Undisturbed' => Undisturbed
    PROVE  Facts(A, B, C)'
<1>1. nextId \in Nat /\ nextId' \in Nat
  BY DEF MFAInv, AccountsInv, TablesFit
<1>2. accepted' \in Seq(1..nextId')
  <2>1. 1..nextId \subseteq 1..nextId'
    BY <1>1
  <2>2. QED
    BY <2>1, SeqMonotonic DEF Facts
<1>3. /\ OneAccountPerSubject' /\ MFAKeepsASecret' /\ CodesOfTheSecret' /\ CodesDiffer'
  BY DEF Facts, OneAccountPerSubject, MFAKeepsASecret, CodesOfTheSecret, CodesDiffer
<1>4. /\ Undisturbed' => NoneTwice(C)'
      /\ Undisturbed' /\ SMTPEnabled => CodesReached(A, B)'
  BY DEF Facts, NoneTwice, CodesReached, Mailed
<1>5. QED
  BY <1>2, <1>3, <1>4 DEF Facts

\* Mail reaches an address of the account whose code it is.
LEMMA MailFacts ==
    ASSUME MFAInv, MFAInv', NEW u \in Users, NEW A, A \subseteq {u}, Facts(A, {}, {}),
           NEW m, m = [kind |-> "verify", code |-> account[u].code, to |-> account[u].email],
           account[u].code # 0, sent' = sent \cup {m},
           UNCHANGED <<account, nextId, accepted, recovery>>, Undisturbed' => Undisturbed
    PROVE  Facts({}, {}, {})'
<1>1. accepted' \in Seq(1..nextId')
  BY DEF Facts
<1>2. /\ OneAccountPerSubject' /\ MFAKeepsASecret' /\ CodesOfTheSecret' /\ CodesDiffer'
  BY DEF Facts, OneAccountPerSubject, MFAKeepsASecret, CodesOfTheSecret, CodesDiffer
<1>3. Undisturbed' => NoneTwice({})'
  BY DEF Facts, NoneTwice
<1>4. ASSUME Undisturbed', SMTPEnabled
      PROVE  CodesReached({}, {})'
  <2>1. CodesReached(A, {})
    BY <1>4 DEF Facts
  <2>2. ASSUME NEW v \in Users, account[v].verified, account[v].password # None
        PROVE  Mailed(account[v])'
    BY <2>1, <2>2 DEF CodesReached, Mailed
  <2>3. ASSUME NEW v \in Users, NEW n \in sent', n.kind = "verify", n.code = account[v].code
        PROVE  n.to = account[v].email
    <3>1. CASE n \in sent
      BY <2>1, <2>3, <3>1 DEF CodesReached
    <3>2. CASE n = m
      <4>1. v = u
        BY <2>3, <3>2 DEF Facts, CodesDiffer
      <4>2. QED
        BY <3>2, <4>1
    <3>3. QED
      BY <2>3, <3>1, <3>2
  <2>4. QED
    BY <2>2, <2>3 DEF CodesReached
<1>5. QED
  BY <1>1, <1>2, <1>3, <1>4 DEF Facts

\* So does mail about resets, which says nothing of the address.
LEMMA ResetMailFacts ==
    ASSUME MFAInv, MFAInv', Facts({}, {}, {}),
           NEW m, m.kind = "reset", sent' = sent \cup {m},
           UNCHANGED <<account, nextId, accepted, recovery>>, Undisturbed' => Undisturbed
    PROVE  Facts({}, {}, {})'
<1>1. accepted' \in Seq(1..nextId')
  BY DEF Facts
<1>2. /\ OneAccountPerSubject' /\ MFAKeepsASecret' /\ CodesOfTheSecret' /\ CodesDiffer'
  BY DEF Facts, OneAccountPerSubject, MFAKeepsASecret, CodesOfTheSecret, CodesDiffer
<1>3. Undisturbed' => NoneTwice({})'
  BY DEF Facts, NoneTwice
<1>4. Undisturbed' /\ SMTPEnabled => CodesReached({}, {})'
  BY DEF Facts, CodesReached, Mailed
<1>5. QED
  BY <1>1, <1>2, <1>3, <1>4 DEF Facts

\* Codes that are fresh may join those of an account whose factor does not count yet,
\* and any may go.
LEMMA RecoveryFacts ==
    ASSUME MFAInv, MFAInv', Facts({}, {}, {}), NEW u \in Users, NEW fresh,
           recovery' \subseteq recovery \cup fresh,
           \A c \in fresh : c.id \in nextId + 1..nextId',
           \A c \in fresh : c.user = u, fresh # {} => ~account[u].mfa, nextId <= nextId',
           UNCHANGED <<account, sent, accepted>>, Undisturbed' => Undisturbed
    PROVE  Facts({}, {}, {})'
<1>1. /\ nextId \in Nat /\ nextId' \in Nat /\ recovery' \subseteq [id: 1..nextId', user: Registered', secret: 1..nextId', used: BOOLEAN]
      /\ \A v \in Users : account[v].reset \in 0..nextId
  BY DEF MFAInv, AccountsInv, TablesFit, RecoveryFits, Codes
<1>2. accepted' \in Seq(1..nextId')
  <2>1. 1..nextId \subseteq 1..nextId'
    BY <1>1
  <2>2. QED
    BY <2>1, SeqMonotonic DEF Facts
<1>3. OneAccountPerSubject' /\ MFAKeepsASecret'
  BY DEF Facts, OneAccountPerSubject, MFAKeepsASecret
<1>4. CodesOfTheSecret'
  BY <1>1 DEF Facts, CodesOfTheSecret
<1>5. CodesDiffer'
  <2>1. ASSUME NEW v \in Users, NEW c \in recovery'
        PROVE  account[v].reset # c.id
    <3>1. CASE c \in recovery
      BY <3>1 DEF Facts, CodesDiffer
    <3>2. CASE c \in fresh
      <4>1. c.id \in nextId + 1..nextId'
        BY <3>2
      <4>2. QED
        BY <1>1, <4>1
    <3>3. QED
      BY <3>1, <3>2
  <2>2. QED
    BY <2>1 DEF Facts, CodesDiffer
<1>6. ASSUME Undisturbed'
      PROVE  NoneTwice({})'
  <2>1. NoneTwice({}) /\ accepted \in Seq(1..nextId)
    BY <1>6 DEF Facts
  <2>2. \A i \in DOMAIN accepted : accepted[i] \in 1..nextId
    BY <2>1, LenProperties
  <2>3. ASSUME NEW c \in fresh
        PROVE  c.id \notin Range(accepted)
    <3>1. c.id \in nextId + 1..nextId'
      OBVIOUS
    <3>2. QED
      BY <1>1, <2>2, <3>1 DEF Range
  <2>4. QED
    BY <2>1, <2>3 DEF NoneTwice
<1>7. Undisturbed' /\ SMTPEnabled => CodesReached({}, {})'
  BY DEF Facts, CodesReached, Mailed
<1>8. QED
  BY <1>2, <1>3, <1>4, <1>5, <1>6, <1>7 DEF Facts

\* Accepting one more code: what has been accepted, and that no two are one.
LEMMA AcceptedAppend ==
    ASSUME NEW n \in Nat, NEW s \in Seq(1..n), NEW v \in 1..n
    PROVE  /\ Append(s, v) \in Seq(1..n)
           /\ Range(Append(s, v)) = Range(s) \cup {v}
           /\ IsInjective(s) /\ v \notin Range(s) => IsInjective(Append(s, v))
<1> DEFINE t == Append(s, v)
<1>1. /\ t \in Seq(1..n) /\ Len(t) = Len(s) + 1 /\ Len(s) \in Nat
      /\ \A i \in 1..Len(s) : t[i] = s[i]
      /\ t[Len(s) + 1] = v
      /\ DOMAIN t = 1..Len(s) + 1 /\ DOMAIN s = 1..Len(s)
  BY AppendProperties
<1> HIDE DEF t
<1>2. Range(t) = Range(s) \cup {v}
  <2>1. ASSUME NEW x \in Range(t) PROVE x \in Range(s) \cup {v}
    BY <1>1 DEF Range
  <2>2. v \in Range(t)
    BY <1>1 DEF Range
  <2>3. Range(s) \subseteq Range(t)
    BY <1>1 DEF Range
  <2>4. QED
    BY <2>1, <2>2, <2>3
<1>3. ASSUME IsInjective(s), v \notin Range(s)
      PROVE  IsInjective(t)
  <2>1. \A i \in 1..Len(s) : s[i] # v
    BY <1>1, <1>3 DEF Range
  <2>2. ASSUME NEW i \in 1..Len(s) + 1, NEW j \in 1..Len(s) + 1, t[i] = t[j]
        PROVE  i = j
    <3>1. CASE i \in 1..Len(s) /\ j \in 1..Len(s)
      BY <1>1, <1>3, <2>2, <3>1 DEF IsInjective
    <3>2. CASE i = Len(s) + 1 \/ j = Len(s) + 1
      BY <1>1, <2>1, <2>2, <3>2
    <3>3. QED
      BY <1>1, <3>1, <3>2
  <2>3. QED
    BY <1>1, <2>2 DEF IsInjective
<1>4. QED
  BY <1>1, <1>2, <1>3 DEF t

\* A recovery code is used once: it is spent when it is accepted.
LEMMA UsedFacts ==
    ASSUME MFAInv, MFAInv', Facts({}, {}, {}), NEW v,
           \E c \in recovery : c.id = v /\ ~c.used,
           recovery' = {[c EXCEPT !.used = c.used \/ c.id = v] : c \in recovery},
           accepted' = Append(accepted, v),
           UNCHANGED <<account, sent, nextId>>, Undisturbed' => Undisturbed
    PROVE  Facts({}, {}, {})'
<1>1. /\ nextId \in Nat
      /\ recovery \subseteq [id: 1..nextId, user: Registered, secret: 1..nextId, used: BOOLEAN]
      /\ \A c, d \in recovery : c.id = d.id => c = d
  BY DEF MFAInv, AccountsInv, TablesFit, RecoveryFits
<1>2. v \in 1..nextId /\ accepted \in Seq(1..nextId)
  BY <1>1 DEF Facts
<1>3. /\ accepted' \in Seq(1..nextId) /\ Range(accepted') = Range(accepted) \cup {v}
      /\ IsInjective(accepted) /\ v \notin Range(accepted) => IsInjective(accepted')
  BY <1>1, <1>2, AcceptedAppend
<1>4. ASSUME NEW d \in recovery'
      PROVE  \E c \in recovery : /\ d.id = c.id /\ d.user = c.user /\ d.secret = c.secret
                                 /\ ~d.used => ~c.used /\ c.id # v
  <2>1. PICK c \in recovery : d = [c EXCEPT !.used = c.used \/ c.id = v]
    OBVIOUS
  <2>2. QED
    BY <1>1, <2>1
<1>5. OneAccountPerSubject' /\ MFAKeepsASecret'
  BY DEF Facts, OneAccountPerSubject, MFAKeepsASecret
<1>6. CodesOfTheSecret' /\ CodesDiffer'
  BY <1>4 DEF Facts, CodesOfTheSecret, CodesDiffer
<1>7. ASSUME Undisturbed'
      PROVE  NoneTwice({})'
  <2>1. NoneTwice({}) /\ CodesDiffer
    BY <1>7 DEF Facts
  <2>2. v \notin Range(accepted)
    BY <1>1, <2>1 DEF NoneTwice
  <2>3. \A u \in Users : account[u].reset # v
    BY <2>1 DEF CodesDiffer
  <2>4. QED
    BY <1>3, <1>4, <2>1, <2>2, <2>3 DEF NoneTwice
<1>8. Undisturbed' /\ SMTPEnabled => CodesReached({}, {})'
  BY DEF Facts, CodesReached, Mailed
<1>9. QED
  BY <1>2, <1>3, <1>5, <1>6, <1>7, <1>8 DEF Facts

\* A reset code is accepted: until it is replaced the account is an exception.
LEMMA ResetFacts ==
    ASSUME MFAInv, MFAInv', Facts({}, {}, {}), NEW u \in Users, NEW row,
           ResetOf(row, account[u]),
           account' = [account EXCEPT ![u] = row],
           accepted' = Append(accepted, row.reset),
           UNCHANGED <<sent, nextId, recovery>>, Undisturbed' => Undisturbed
    PROVE  Facts({}, {}, {u})'
<1> DEFINE v == row.reset
<1>1. account'[u] = row /\ \A w \in Users \ {u} : account'[w] = account[w]
  BY DEF MFAInv, AccountsInv, TablesFit
<1>2. /\ nextId \in Nat /\ account[u].reset \in 0..nextId
  BY DEF MFAInv, AccountsInv, TablesFit, Codes
<1>3. v = account[u].reset /\ v \in 1..nextId /\ accepted \in Seq(1..nextId)
  BY <1>2 DEF Facts, ResetOf, Copies
<1>4. /\ accepted' \in Seq(1..nextId) /\ Range(accepted') = Range(accepted) \cup {v}
      /\ IsInjective(accepted) /\ v \notin Range(accepted) => IsInjective(accepted')
  BY <1>2, <1>3, AcceptedAppend
<1>5. OneAccountPerSubject'
  BY <1>1 DEF Facts, OneAccountPerSubject, ResetOf, Copies
<1>6. MFAKeepsASecret' /\ CodesDiffer'
  BY <1>1 DEF Facts, MFAKeepsASecret, CodesDiffer, ResetOf, Copies
<1>7. CodesOfTheSecret'
  BY <1>1 DEF Facts, CodesOfTheSecret, ResetOf, Copies, MFAInv, RecoveryFits, Registered
<1>8. ASSUME Undisturbed'
      PROVE  NoneTwice({u})'
  <2>1. NoneTwice({}) /\ CodesDiffer
    BY <1>8 DEF Facts
  <2>2. v \notin Range(accepted)
    BY <1>2, <1>3, <2>1 DEF NoneTwice
  <2>3. /\ \A w \in Users \ {u} : account[w].reset # v \/ account[w].reset = 0
        /\ \A c \in recovery : c.id # v
    BY <1>3, <2>1 DEF CodesDiffer
  <2>4. QED
    BY <1>1, <1>4, <2>1, <2>2, <2>3 DEF NoneTwice
<1>9. ASSUME Undisturbed', SMTPEnabled
      PROVE  CodesReached({}, {})'
  <2>1. CodesReached({}, {})
    BY <1>9 DEF Facts
  <2>2. /\ row.code = account[u].code /\ row.email = account[u].email
        /\ row.verified = account[u].verified /\ account[u].password # None
    BY DEF ResetOf, Copies
  <2>3. QED
    BY <1>1, <2>1, <2>2 DEF CodesReached, Mailed
<1>10. QED
  BY <1>3, <1>4, <1>5, <1>6, <1>7, <1>8, <1>9 DEF Facts

-----------------------------------------------------------------------------
(* Where a request may be when it makes a call of some name.                *)

\* The calls of a plain program are plain, the first and the rest.
LEMMA PlainParts ==
    ASSUME NEW s, IsProgram(s), s # <<>>, Plain(s)
    PROVE  Head(s).do \in PlainCalls /\ Plain(Tail(s))
<1>1. /\ Head(s) = s[1] /\ DOMAIN s = 1..Len(s) /\ Len(s) \in Nat \ {0}
      /\ IsProgram(Tail(s)) /\ Len(Tail(s)) = Len(s) - 1
      /\ \A i \in 1..Len(s) - 1 : Tail(s)[i] = s[i + 1]
  BY ProgramTail
<1>2. DOMAIN Tail(s) = 1..Len(s) - 1
  BY <1>1, ProgramLength
<1>3. QED
  BY <1>1, <1>2 DEF Plain

\* Three calls and one more.
LEMMA ThreeAndOne ==
    ASSUME NEW a, NEW b, NEW c, NEW d
    PROVE  <<a, b, c>> \o <<d>> = <<a, b, c, d>>
<1>1. PICK s : s = <<a, b, c>> \o <<d>>
  OBVIOUS
<1>2. IsProgram(<<a, b, c>>) /\ IsProgram(<<d>>)
  BY TuplesArePrograms
<1>3. IsProgram(s) /\ Len(s) = 4 /\ s[1] = a /\ s[2] = b /\ s[3] = c /\ s[4] = d
  <2>1. PICK p, t : p = <<a, b, c>> /\ t = <<d>>
    OBVIOUS
  <2>2. /\ Len(p) = 3 /\ p[1] = a /\ p[2] = b /\ p[3] = c
        /\ Len(t) = 1 /\ t[1] = d
    BY <2>1
  <2>3. /\ IsProgram(s) /\ Len(s) = Len(p) + Len(t)
        /\ \A i \in 1..Len(p) + Len(t) : s[i] = IF i <= Len(p) THEN p[i] ELSE t[i - Len(p)]
    BY <1>1, <1>2, <2>1, ProgramConcat
  <2>4. QED
    BY <2>2, <2>3
<1>4. s = <<a, b, c, d>>
  BY <1>3 DEF IsProgram
<1>5. QED
  BY <1>1, <1>4

\* Three calls and none.
LEMMA ThreeAndNone ==
    ASSUME NEW a, NEW b, NEW c
    PROVE  <<a, b, c>> \o <<>> = <<a, b, c>>
<1>1. PICK s : s = <<a, b, c>> \o <<>>
  OBVIOUS
<1>2. IsProgram(<<a, b, c>>) /\ IsProgram(<<>>)
  BY TuplesArePrograms
<1>3. IsProgram(s) /\ Len(s) = 3 /\ s[1] = a /\ s[2] = b /\ s[3] = c
  BY <1>1, <1>2, ProgramConcat
<1>4. s = <<a, b, c>>
  BY <1>3 DEF IsProgram
<1>5. QED
  BY <1>1, <1>4

\* Programs with the same calls are one.
LEMMA ProgramsAlike ==
    ASSUME NEW s, IsProgram(s), NEW t, IsProgram(t), Len(s) = Len(t),
           \A i \in 1..Len(s) : s[i] = t[i]
    PROVE  s = t
<1> DEFINE S == {s[i] : i \in DOMAIN s} \cup {t[i] : i \in DOMAIN t}
<1>1. s \in Seq(S) /\ t \in Seq(S)
  BY SeqMonotonic DEF IsProgram
<1>2. QED
  BY <1>1, SeqEqual

\* Two calls after two, or after none.
LEMMA TwoMore ==
    ASSUME NEW a, NEW b, NEW c, NEW d
    PROVE  <<a, b>> \o <<c, d>> = <<a, b, c, d>> /\ <<>> \o <<c, d>> = <<c, d>>
<1>1. PICK s, t, p, n, e : /\ p = <<a, b>> /\ t = <<c, d>> /\ n = <<>>
                           /\ s = p \o t /\ e = n \o t
  OBVIOUS
<1>2. /\ Len(p) = 2 /\ p[1] = a /\ p[2] = b
      /\ Len(t) = 2 /\ t[1] = c /\ t[2] = d /\ Len(n) = 0
  BY <1>1
<1>3. IsProgram(p) /\ IsProgram(t) /\ IsProgram(n)
  BY <1>1, TuplesArePrograms
<1>4. /\ IsProgram(s) /\ Len(s) = Len(p) + Len(t)
      /\ \A i \in 1..Len(p) + Len(t) : s[i] = IF i <= Len(p) THEN p[i] ELSE t[i - Len(p)]
  BY <1>1, <1>3, ProgramConcat
<1>5. /\ IsProgram(e) /\ Len(e) = Len(n) + Len(t)
      /\ \A i \in 1..Len(n) + Len(t) : e[i] = IF i <= Len(n) THEN n[i] ELSE t[i - Len(n)]
  BY <1>1, <1>3, ProgramConcat
<1>6. IsProgram(s) /\ Len(s) = 4 /\ s[1] = a /\ s[2] = b /\ s[3] = c /\ s[4] = d
  BY <1>2, <1>4
<1>7. IsProgram(e) /\ Len(e) = 2 /\ e[1] = c /\ e[2] = d
  BY <1>2, <1>5
<1>8. s = <<a, b, c, d>>
  BY <1>6 DEF IsProgram
<1>9. e = <<c, d>>
  BY <1>7 DEF IsProgram
<1>10. QED
  BY <1>1, <1>8, <1>9

\* The programs of an activation.
LEMMA ActivationPrograms ==
    ASSUME NEW t
    PROVE  \/ ActivationCalls(t) =
                <<Call("readUser", None), Call("mayActivate", t), Call("clearCodes", None),
                  Call("storeCodes", None), Call("activate", None)>>
           \/ ActivationCalls(t) =
                <<Call("readUser", None), Call("mayActivate", t), Call("clearCodes", None),
                  Call("activate", None)>>
<1>1. PICK a, b, c, d, e : /\ a = Call("readUser", None) /\ b = Call("mayActivate", t)
                           /\ c = Call("clearCodes", None) /\ d = Call("storeCodes", None)
                           /\ e = Call("activate", None)
  OBVIOUS
<1>2. PICK f, g : f = <<a, b, c>> \o <<d>> /\ g = <<a, b, c>> \o <<>>
  OBVIOUS
<1>3. f \o <<e>> = <<a, b, c, d, e>>
  <2>1. f = <<a, b, c, d>>
    BY <1>2, ThreeAndOne
  <2>2. QED
    BY <2>1, FourAndOne
<1>4. g \o <<e>> = <<a, b, c, e>>
  <2>1. g = <<a, b, c>>
    BY <1>2, ThreeAndNone
  <2>2. QED
    BY <2>1, ThreeAndOne
<1>5. RecoveryCalls = <<d>> \/ RecoveryCalls = <<>>
  BY <1>1 DEF RecoveryCalls
<1>6. ActivationCalls(t) = (<<a, b, c>> \o RecoveryCalls) \o <<e>>
  BY <1>1 DEF ActivationCalls
<1>7. ActivationCalls(t) = f \o <<e>> \/ ActivationCalls(t) = g \o <<e>>
  BY <1>2, <1>5, <1>6
<1>8. QED
  BY <1>1, <1>3, <1>4, <1>7

\* A call has a name and an argument.
LEMMA CallFields ==
    /\ \A n, x : Call(n, x).do = n /\ Call(n, x).arg = x
    /\ VerifyIt.do = "setVerified" /\ UnverifyIt.do = "setVerified" /\ CloseIt.do = "setOpen"
    /\ VerifyIt.arg = TRUE /\ UnverifyIt.arg = FALSE /\ CloseIt.arg = FALSE
BY DEF Call, VerifyIt, UnverifyIt, CloseIt

\* The first of the calls that are to be made, and the rest.
LEMMA CallParts ==
    ASSUME NEW s
    PROVE  /\ \A a : One(s, a) => s # <<>> /\ Head(s) = a /\ Tail(s) = <<>>
           /\ \A a, b : Two(s, a, b) => /\ s # <<>> /\ Head(s) = a
                                        /\ Tail(s) # <<>> /\ One(Tail(s), b)
           /\ \A a, b, c : Three(s, a, b, c) => /\ s # <<>> /\ Head(s) = a
                                                /\ Tail(s) # <<>> /\ Two(Tail(s), b, c)
           /\ \A a, b, c, d : Four(s, a, b, c, d) => /\ s # <<>> /\ Head(s) = a
                                                     /\ Tail(s) # <<>> /\ Three(Tail(s), b, c, d)
           /\ \A a, b, c, d, e : Five(s, a, b, c, d, e) =>
                /\ s # <<>> /\ Head(s) = a
                /\ Tail(s) # <<>> /\ Four(Tail(s), b, c, d, e)
<1>1. ASSUME NEW a, NEW b, NEW c, NEW d, NEW e
      PROVE  /\ <<a>> # <<>> /\ Head(<<a>>) = a /\ Tail(<<a>>) = <<>>
             /\ <<a, b>> # <<>> /\ Head(<<a, b>>) = a /\ Tail(<<a, b>>) = <<b>>
             /\ <<a, b, c>> # <<>> /\ Head(<<a, b, c>>) = a /\ Tail(<<a, b, c>>) = <<b, c>>
             /\ <<a, b, c, d>> # <<>> /\ Head(<<a, b, c, d>>) = a
             /\ Tail(<<a, b, c, d>>) = <<b, c, d>>
             /\ <<a, b, c, d, e>> # <<>> /\ Head(<<a, b, c, d, e>>) = a
             /\ Tail(<<a, b, c, d, e>>) = <<b, c, d, e>>
  OBVIOUS
<1>2. ASSUME NEW a, One(s, a)
      PROVE  s # <<>> /\ Head(s) = a /\ Tail(s) = <<>>
  BY <1>1, <1>2 DEF One
<1>3. ASSUME NEW a, NEW b, Two(s, a, b)
      PROVE  s # <<>> /\ Head(s) = a /\ Tail(s) # <<>> /\ One(Tail(s), b)
  BY <1>1, <1>3 DEF One, Two
<1>4. ASSUME NEW a, NEW b, NEW c, Three(s, a, b, c)
      PROVE  s # <<>> /\ Head(s) = a /\ Tail(s) # <<>> /\ Two(Tail(s), b, c)
  BY <1>1, <1>4 DEF Two, Three
<1>5. ASSUME NEW a, NEW b, NEW c, NEW d, Four(s, a, b, c, d)
      PROVE  s # <<>> /\ Head(s) = a /\ Tail(s) # <<>> /\ Three(Tail(s), b, c, d)
  BY <1>1, <1>5 DEF Three, Four
<1>6. ASSUME NEW a, NEW b, NEW c, NEW d, NEW e, Five(s, a, b, c, d, e)
      PROVE  s # <<>> /\ Head(s) = a /\ Tail(s) # <<>> /\ Four(Tail(s), b, c, d, e)
  BY <1>1, <1>6 DEF Four, Five
<1>7. QED
  BY <1>2, <1>3, <1>4, <1>5, <1>6

\* The calls a request can make at each kind of point.
LEMMA PointHeads ==
    ASSUME NEW q, IsProgram(q.todo), q.todo # <<>>
    PROVE  /\ PlainPoint(q) => Head(q.todo).do \in PlainCalls
           /\ MarkPoint(q) => Head(q.todo).do = "markUsed"
           /\ MailPoint(q) => Head(q.todo).do = "mailCode"
           /\ RegisterPoint(q) =>
                Head(q.todo).do \in {"countUsers", "inviteUnused", "emailFree", "createUser"}
           /\ SendPoint(q) => Head(q.todo).do \in {"readUser", "newCode"}
           /\ VerifyPoint(q) => Head(q.todo).do \in {"readUser", "codeMatches", "setVerified"}
           /\ EditPoint(q) => Head(q.todo).do \in
                {"emailFree", "setVerified", "saveUser", "readEdited", "newCode"}
           /\ DisablePoint(q) => Head(q.todo).do \in {"readToDisable", "saveUser"}
           /\ ResetPoint(q) => Head(q.todo).do \in {"findReset", "saveUser", "newReset"}
           /\ ActivatePoint(q) => Head(q.todo).do \in
                {"readUser", "mayActivate", "clearCodes", "storeCodes", "activate"}
           /\ LoginPoint(q) => Head(q.todo).do \in
                {"findSubject", "findAddress", "link", "countUsers", "createExternal"}
<1>1. PlainPoint(q) => Head(q.todo).do \in PlainCalls
  BY PlainParts DEF PlainPoint
<1>2. /\ MarkPoint(q) => Head(q.todo).do = "markUsed"
      /\ MailPoint(q) => Head(q.todo).do = "mailCode"
  BY CallParts, CallFields DEF MarkPoint, MailPoint
<1>3. RegisterPoint(q) =>
        Head(q.todo).do \in {"countUsers", "inviteUnused", "emailFree", "createUser"}
  BY CallParts, CallFields DEF RegisterPoint
<1>4. SendPoint(q) => Head(q.todo).do \in {"readUser", "newCode"}
  BY CallParts, CallFields DEF SendPoint
<1>5. VerifyPoint(q) => Head(q.todo).do \in {"readUser", "codeMatches", "setVerified"}
  BY CallParts, CallFields DEF VerifyPoint
<1>6. EditPoint(q) => Head(q.todo).do \in
        {"emailFree", "setVerified", "saveUser", "readEdited", "newCode"}
  BY CallParts, CallFields DEF EditPoint
<1>7. DisablePoint(q) => Head(q.todo).do \in {"readToDisable", "saveUser"}
  BY CallParts, CallFields DEF DisablePoint
<1>8. ResetPoint(q) => Head(q.todo).do \in {"findReset", "saveUser", "newReset"}
  BY CallParts, CallFields DEF ResetPoint
<1>9. ActivatePoint(q) => Head(q.todo).do \in
        {"readUser", "mayActivate", "clearCodes", "storeCodes", "activate"}
  BY CallParts, CallFields DEF ActivatePoint
<1>10. LoginPoint(q) => Head(q.todo).do \in
        {"findSubject", "findAddress", "link", "countUsers", "createExternal"}
  BY CallParts, CallFields DEF LoginPoint
<1>11. QED
  BY <1>1, <1>2, <1>3, <1>4, <1>5, <1>6, <1>7, <1>8, <1>9, <1>10

-----------------------------------------------------------------------------
(* How a step leaves the request that makes it, and the tables.             *)

\* r is handled where the code expects it to be, and nobody else is.
Handled(r) ==
    /\ MFAInv /\ MFAInv'
    /\ Pending(r) /\ OnlyMoves(r)
    /\ Point(req[r])

\* The request is at a point again, or the tables are as between requests.
Settled(r) == IF Pending(r)' THEN Point(req[r])' ELSE Facts({}, {}, {})'

\* What is so of every request that is handled.
LEMMA HandledFacts ==
    ASSUME NEW r \in Requests, Handled(r)
    PROVE  /\ MFAInv /\ MFAInv' /\ RequestsFit
           /\ req[r].todo # <<>> /\ IsProgram(req[r].todo)
           /\ Undisturbed' => Undisturbed
           /\ nextId \in Nat /\ nextId' \in Nat
<1>1. RequestsFit /\ RequestsOK /\ nextId \in Nat /\ nextId' \in Nat
  BY DEF Handled, MFAInv, AccountsInv, RequestsFit, TablesFit
<1>2. req[r].todo # <<>> /\ IsProgram(req[r].todo) /\ req[r].reply # "error"
  BY <1>1 DEF Handled, RequestsOK, Pending, RequestsFit
<1>3. QED
  BY <1>1, <1>2, DisturbedStays DEF Handled

\* A request that has been answered is not handled any more.
LEMMA OverSettles ==
    ASSUME NEW r, Over(req'[r]), Facts({}, {}, {})'
    PROVE  Settled(r)
BY FinishedFields DEF Over, Settled, Pending, Replies

\* Of every point something is known of the tables.
LEMMA PointFacts ==
    ASSUME NEW q, Point(q)
    PROVE  \E A, B, C : Facts(A, B, C)
BY DEF Point, PlainPoint, MarkPoint, MailPoint, RegisterPoint, SendPoint, VerifyPoint,
       EditPoint, DisablePoint, ResetPoint, ActivatePoint, LoginPoint

\* A request that fails leaves the tables with the half of its work that is done.
LEMMA FailureSettles ==
    ASSUME NEW r \in Requests, Handled(r), Answer(r, "error"),
           UNCHANGED <<account, sent, accepted, recovery, nextId>>
    PROVE  Settled(r)
<1>1. Over(req'[r]) /\ req'[r].reply = "error"
  <2>1. OnlyMoves(r) /\ Over(req'[r])
    BY HandledFacts, AnswerStep DEF Replies
  <2>2. req'[r] = Finished("error")
    BY HandledFacts DEF Answer, RequestsFit
  <2>3. QED
    BY <2>1, <2>2, FinishedFields
<1>2. ~Undisturbed'
  BY <1>1 DEF Undisturbed
<1>3. PICK A, B, C : Facts(A, B, C)
  BY PointFacts DEF Handled
<1>4. Facts(A, B, C)'
  BY <1>3, HandledFacts, SameFacts
<1>5. Facts({}, {}, {})'
  BY <1>2, <1>4 DEF Facts
<1>6. QED
  BY <1>1, <1>5, OverSettles

\* These tables are as they were.
Calm == UNCHANGED <<account, sent, accepted, recovery, nextId>>

\* What was so of them is so.
LEMMA CalmFacts ==
    ASSUME NEW r \in Requests, Handled(r), Calm, NEW A, NEW B, NEW C, Facts(A, B, C)
    PROVE  Facts(A, B, C)'
<1>1. MFAInv /\ MFAInv' /\ (Undisturbed' => Undisturbed) /\ nextId <= nextId'
  BY HandledFacts DEF Calm
<1>2. QED
  BY <1>1, SameFacts DEF Calm

\* A request is answered where nothing is half done.
LEMMA AnswerSettles ==
    ASSUME NEW r \in Requests, Handled(r), NEW reply \in Replies, Answer(r, reply),
           Facts({}, {}, {})'
    PROVE  Settled(r)
<1>1. Over(req'[r])
  BY HandledFacts, AnswerStep
<1>2. QED
  BY <1>1, OverSettles

\* A request that has made a call and not been answered: this was its last, or it goes
\* on with the next.
LEMMA CallMade ==
    ASSUME NEW r \in Requests, Handled(r), NEW x,
           (Done(r) /\ x = req[r].found) \/ Remember(r, x)
    PROVE  /\ Tail(req[r].todo) = <<>> => Over(req'[r])
           /\ Tail(req[r].todo) # <<>> =>
                /\ Pending(r)' /\ req'[r].op = req[r].op /\ req'[r].scope = req[r].scope
                /\ req'[r].found = x /\ req'[r].todo = Tail(req[r].todo)
<1> DEFINE q == [req[r] EXCEPT !.found = x]
           p == [q EXCEPT !.todo = Tail(req[r].todo)]
<1>1. /\ RequestsFit /\ IsRequest(req[r]) /\ req[r].todo # <<>> /\ req[r].reply = "pending"
      /\ Len(req[r].todo) = 1 <=> Tail(req[r].todo) = <<>>
  BY HandledFacts, ProgramTail DEF Handled, RequestsFit, Pending
<1>2. req[r] = [req[r] EXCEPT !.found = req[r].found] /\ q.todo = req[r].todo
  BY <1>1 DEF IsRequest, RequestFields
<1>3. req'[r] = IF Len(q.todo) = 1 THEN Finished("ok") ELSE [q EXCEPT !.todo = Tail(q.todo)]
  BY <1>1, <1>2 DEF Done, Remember, Advance, RequestsFit
<1>4. CASE Tail(req[r].todo) = <<>>
  BY <1>1, <1>2, <1>3, <1>4 DEF Over, Replies
<1>5. CASE Tail(req[r].todo) # <<>>
  <2>1. req'[r] = p
    BY <1>1, <1>2, <1>3, <1>5
  <2>2. /\ p.op = req[r].op /\ p.scope = req[r].scope /\ p.found = x
        /\ p.todo = Tail(req[r].todo) /\ p.reply = "pending"
    BY <1>1 DEF IsRequest, RequestFields
  <2>3. QED
    BY <1>5, <2>1, <2>2 DEF Pending
<1>6. QED
  BY <1>4, <1>5

\* A request that branches to other calls.
LEMMA Branched ==
    ASSUME NEW r \in Requests, Handled(r), NEW s, NEW x, NEW program, program # <<>>,
           Continue(r, s, x, program)
    PROVE  /\ Pending(r)' /\ req'[r].op = req[r].op /\ req'[r].scope = s
           /\ req'[r].found = x /\ req'[r].todo = program
<1> DEFINE q == [req[r] EXCEPT !.scope = s, !.found = x, !.todo = program]
<1>1. RequestsFit /\ IsRequest(req[r]) /\ req[r].reply = "pending"
  BY HandledFacts DEF Handled, RequestsFit, Pending
<1>2. req'[r] = q
  BY <1>1 DEF Continue, RequestsFit
<1>3. /\ q.op = req[r].op /\ q.scope = s /\ q.found = x /\ q.todo = program
      /\ q.reply = "pending"
  BY <1>1 DEF IsRequest, RequestFields
<1>4. QED
  BY <1>2, <1>3 DEF Pending

\* A call of a plain program.
LEMMA PlainCall ==
    ASSUME NEW r \in Requests, Handled(r), PlainPoint(req[r]), Facts({}, {}, {})', NEW x,
           Done(r) \/ Remember(r, x) \/ \E reply \in Replies : Answer(r, reply)
    PROVE  Settled(r)
<1>1. CASE \E reply \in Replies : Answer(r, reply)
  BY <1>1, AnswerSettles
<1>2. ASSUME NEW y, (Done(r) /\ y = req[r].found) \/ Remember(r, y)
      PROVE  Settled(r)
  <2>1. /\ Tail(req[r].todo) = <<>> => Over(req'[r])
        /\ Tail(req[r].todo) # <<>> => Pending(r)' /\ req'[r].todo = Tail(req[r].todo)
    BY <1>2, CallMade
  <2>2. CASE Tail(req[r].todo) = <<>>
    BY <2>1, <2>2, OverSettles
  <2>3. CASE Tail(req[r].todo) # <<>>
    <3>1. Plain(Tail(req[r].todo))
      BY HandledFacts, PlainParts DEF PlainPoint
    <3>2. PlainPoint(req[r])'
      BY <2>1, <2>3, <3>1 DEF PlainPoint, Plain
    <3>3. QED
      BY <2>1, <2>3, <3>2 DEF Settled, Point
  <2>4. QED
    BY <2>2, <2>3
<1>3. QED
  BY <1>1, <1>2

-----------------------------------------------------------------------------
(* The checks and the reads.                                                *)

\* The checks of accounts.
LEMMA AccountCheckSettles ==
    ASSUME NEW r \in Requests, Handled(r), AccountCheck(r), UNCHANGED recovery
    PROVE  Settled(r)
<1> DEFINE q == req[r]
           c == Head(q.todo)
<1>1. /\ c.do \in {"inviteUnused", "emailFree", "codeMatches", "knowsPassword", "inviteDeletable"}
      /\ Calm
      /\ Answer(r, "refused") \/ (Done(r) /\ AccountPasses(q, c))
  BY DEF AccountCheck, Guarded, Done, Answer, accountTables, Calm
<1>2. \/ PlainPoint(q)
      \/ RegisterPoint(q) /\ c.do \in {"inviteUnused", "emailFree"}
      \/ VerifyPoint(q) /\ c.do = "codeMatches"
      \/ EditPoint(q) /\ c.do = "emailFree"
  BY <1>1, HandledFacts, PointHeads DEF Handled, Point
<1>3. Facts({}, {}, {})'
  <2>1. Facts({}, {}, {})
    <3>1. EditPoint(q) /\ c.do = "emailFree" => Facts({}, {}, {})
      BY CallParts, CallFields DEF EditPoint
    <3>2. QED
      BY <1>2, <3>1 DEF PlainPoint, RegisterPoint, VerifyPoint
  <2>2. QED
    BY <1>1, <2>1, CalmFacts
<1>4. CASE Answer(r, "refused")
  BY <1>3, <1>4, AnswerSettles DEF Replies
<1>5. CASE PlainPoint(q)
  BY <1>1, <1>3, <1>5, PlainCall DEF Replies
<1>6. ASSUME Done(r), Tail(q.todo) # <<>>
      PROVE  /\ Pending(r)' /\ req'[r].op = q.op /\ req'[r].scope = q.scope
             /\ req'[r].found = q.found /\ req'[r].todo = Tail(q.todo)
  BY <1>6, CallMade
<1>7. CASE Done(r) /\ RegisterPoint(q) /\ c.do \in {"inviteUnused", "emailFree"}
  <2>1. PICK i \in Invites, e \in Emails,
             a \in [email: Emails, password: Passwords, invite: Invites] :
           \/ Four(q.todo, Call("inviteUnused", i), Call("emailFree", e),
                   Call("createUser", a), Call("mailCode", None))
           \/ Three(q.todo, Call("emailFree", e), Call("createUser", a), Call("mailCode", None))
    BY <1>7, CallParts, CallFields DEF RegisterPoint
  <2>2. /\ Tail(q.todo) # <<>>
        /\ \/ Three(Tail(q.todo), Call("emailFree", e), Call("createUser", a), Call("mailCode", None))
           \/ Two(Tail(q.todo), Call("createUser", a), Call("mailCode", None))
    BY <2>1, CallParts
  <2>3. RegisterPoint(req[r])'
    BY <1>3, <1>6, <1>7, <2>2 DEF RegisterPoint
  <2>4. QED
    BY <1>6, <1>7, <2>2, <2>3 DEF Settled, Point
<1>8. CASE Done(r) /\ AccountPasses(q, c) /\ VerifyPoint(q) /\ c.do = "codeMatches"
  <2>1. PICK d : /\ WasMailed(d)
                 /\ Three(q.todo, Call("codeMatches", d),
                          VerifyIt, Call("readUser", None))
    BY <1>8, CallParts, CallFields DEF VerifyPoint
  <2>2. /\ Tail(q.todo) # <<>>
        /\ Two(Tail(q.todo), VerifyIt, Call("readUser", None))
        /\ c.arg = d
    BY <2>1, CallParts, CallFields
  <2>3. account[q.scope].code = d
    BY <1>8, <2>2 DEF AccountPasses
  <2>4. VerifyPoint(req[r])'
    BY <1>1, <1>3, <1>6, <1>8, <2>1, <2>2, <2>3 DEF VerifyPoint, WasMailed, Calm
  <2>5. QED
    BY <1>6, <1>8, <2>2, <2>4 DEF Settled, Point
<1>9. CASE Done(r) /\ EditPoint(q) /\ c.do = "emailFree"
  <2>1. PICK e \in Emails :
          /\ Four(q.todo, Call("emailFree", e), UnverifyIt,
                  Call("saveUser", None), Call("readEdited", None))
          /\ q.op = "UpdateUser" /\ ~q.found.verified
          /\ EditOf(q.found, account[q.scope])
    BY <1>9, CallParts, CallFields DEF EditPoint
  <2>2. /\ Tail(q.todo) # <<>>
        /\ Three(Tail(q.todo), UnverifyIt,
                 Call("saveUser", None), Call("readEdited", None))
    BY <2>1, CallParts
  <2>3. EditPoint(req[r])'
    BY <1>1, <1>3, <1>6, <1>9, <2>1, <2>2 DEF EditPoint, Calm, EditOf, Copies
  <2>4. QED
    BY <1>6, <1>9, <2>2, <2>3 DEF Settled, Point
<1>10. QED
  BY <1>1, <1>2, <1>4, <1>5, <1>7, <1>8, <1>9

\* Exceptions may be allowed for that there are none of.
LEMMA FactsWeaken ==
    ASSUME NEW A, NEW B, NEW C, Facts({}, {}, {})
    PROVE  Facts(A, B, C)
BY DEF Facts, NoneTwice, CodesReached

\* Without mail nobody is owed a code.
LEMMA FactsUnmailed ==
    ASSUME NEW A, NEW B, Facts(A, B, {}), ~SMTPEnabled
    PROVE  Facts({}, {}, {})
BY DEF Facts

\* GetAllUserInformation reads the row of the account.
LEMMA ReadSettles ==
    ASSUME NEW r \in Requests, Handled(r), GetAllUserInformation(r), UNCHANGED recovery
    PROVE  Settled(r)
<1> DEFINE q == req[r]
           c == Head(q.todo)
           u == q.scope
<1>1. c.do \in {"readUser", "readQuietly"} /\ Calm
  BY DEF GetAllUserInformation, At, accountTables, Calm
<1>2. IF account[u].enabled THEN Remember(r, account[u])
                            ELSE \E reply \in Replies : Answer(r, reply)
  BY DEF GetAllUserInformation, Replies
<1>3. \/ PlainPoint(q)
      \/ c.do = "readUser" /\ (SendPoint(q) \/ VerifyPoint(q) \/ ActivatePoint(q))
  BY <1>1, HandledFacts, PointHeads DEF Handled, Point
<1>4. CASE PlainPoint(q)
  <2>1. Facts({}, {}, {})'
    BY <1>1, <1>4, CalmFacts DEF PlainPoint
  <2>2. QED
    BY <1>2, <1>4, <2>1, PlainCall
<1>5. ASSUME Remember(r, account[u]), Tail(q.todo) # <<>>
      PROVE  /\ Pending(r)' /\ req'[r].op = q.op /\ req'[r].scope = u
             /\ req'[r].found = account[u] /\ req'[r].todo = Tail(q.todo)
  BY <1>5, CallMade
<1>6. CASE SendPoint(q) /\ c.do = "readUser"
  <2>1. CASE /\ Four(q.todo, Call("readUser", None), Call("newCode", None),
                     Call("readUser", None), Call("mailCode", None))
             /\ Facts({}, {}, {})
    <3>1. Facts({}, {}, {})'
      BY <1>1, <2>1, CalmFacts
    <3>2. CASE account[u].enabled
      <4>1. /\ Tail(q.todo) # <<>>
            /\ Three(Tail(q.todo), Call("newCode", None), Call("readUser", None), Call("mailCode", None))
        BY <2>1, CallParts
      <4>2. SendPoint(req[r])'
        BY <1>2, <1>5, <3>1, <3>2, <4>1 DEF SendPoint
      <4>3. QED
        BY <1>2, <1>5, <3>2, <4>1, <4>2 DEF Settled, Point
    <3>3. QED
      BY <1>2, <3>1, <3>2, AnswerSettles
  <2>2. CASE /\ Two(q.todo, Call("readUser", None), Call("mailCode", None))
             /\ account[u].enabled /\ Facts({u}, {}, {})
    <3>1. Tail(q.todo) # <<>> /\ One(Tail(q.todo), Call("mailCode", None))
      BY <2>2, CallParts
    <3>2. PICK v : v = u
      OBVIOUS
    <3>3. Facts({v}, {}, {})'
      BY <1>1, <2>2, <3>2, CalmFacts
    <3>4. MailPoint(req[r])'
      BY <1>1, <1>2, <1>5, <2>2, <3>1, <3>2, <3>3 DEF MailPoint, Calm, Facts, NoneTwice, CodesReached
    <3>5. QED
      BY <1>2, <1>5, <2>2, <3>1, <3>4 DEF Settled, Point
  <2>3. QED
    BY <1>6, <2>1, <2>2, CallParts, CallFields DEF SendPoint
<1>7. CASE VerifyPoint(q) /\ c.do = "readUser"
  <2>1. PICK d \in 1..nextId :
           /\ WasMailed(d)
           /\ Four(q.todo, Call("readUser", None), Call("codeMatches", d),
                   VerifyIt, Call("readUser", None))
    BY <1>7, CallParts, CallFields DEF VerifyPoint
  <2>2. Facts({}, {}, {})'
    BY <1>1, <1>7, CalmFacts DEF VerifyPoint
  <2>3. CASE account[u].enabled
    <3>1. /\ Tail(q.todo) # <<>>
          /\ Three(Tail(q.todo), Call("codeMatches", d), VerifyIt, Call("readUser", None))
      BY <2>1, CallParts
    <3>2. d \in 1..nextId' /\ WasMailed(d)'
      BY <1>1, <2>1 DEF Calm, WasMailed
    <3>3. VerifyPoint(req[r])'
      BY <1>2, <1>5, <2>2, <2>3, <3>1, <3>2 DEF VerifyPoint
    <3>4. QED
      BY <1>2, <1>5, <2>3, <3>1, <3>3 DEF Settled, Point
  <2>4. QED
    BY <1>2, <2>2, <2>3, AnswerSettles
<1>8. CASE ActivatePoint(q) /\ c.do = "readUser"
  <2>1. PICK t : \/ Five(q.todo, Call("readUser", None), Call("mayActivate", t),
                         Call("clearCodes", None), Call("storeCodes", None), Call("activate", None))
                 \/ Four(q.todo, Call("readUser", None), Call("mayActivate", t),
                         Call("clearCodes", None), Call("activate", None))
    BY <1>8, CallParts, CallFields DEF ActivatePoint
  <2>2. Facts({}, {}, {})'
    BY <1>1, <1>8, CalmFacts DEF ActivatePoint
  <2>3. CASE account[u].enabled
    <3>1. /\ Tail(q.todo) # <<>>
          /\ \/ Four(Tail(q.todo), Call("mayActivate", t),
                     Call("clearCodes", None), Call("storeCodes", None), Call("activate", None))
             \/ Three(Tail(q.todo), Call("mayActivate", t),
                      Call("clearCodes", None), Call("activate", None))
      BY <2>1, CallParts
    <3>2. req'[r].found = account'[req'[r].scope]
      BY <1>1, <1>2, <1>5, <2>3, <3>1 DEF Calm
    <3>3. ActivatePoint(req[r])'
      BY <1>2, <1>5, <2>2, <2>3, <3>1, <3>2 DEF ActivatePoint
    <3>4. QED
      BY <1>2, <1>5, <2>3, <3>1, <3>3 DEF Settled, Point
  <2>4. QED
    BY <1>2, <2>2, <2>3, AnswerSettles
<1>9. QED
  BY <1>3, <1>4, <1>6, <1>7, <1>8

\* GetAmountOfEnabledUsers counts.
LEMMA CountSettles ==
    ASSUME NEW r \in Requests, Handled(r), GetAmountOfEnabledUsers(r), UNCHANGED recovery
    PROVE  Settled(r)
<1> DEFINE q == req[r]
<1>1. PICK x : Remember(r, x)
  BY DEF GetAmountOfEnabledUsers
<1>2. Head(q.todo).do = "countUsers" /\ Calm
  BY DEF GetAmountOfEnabledUsers, At, accountTables, Calm
<1>3. PlainPoint(q) \/ RegisterPoint(q) \/ LoginPoint(q)
  BY <1>2, HandledFacts, PointHeads DEF Handled, Point
<1>4. Facts({}, {}, {})'
  BY <1>2, <1>3, CalmFacts DEF PlainPoint, RegisterPoint, LoginPoint
<1>5. ASSUME Tail(q.todo) # <<>>
      PROVE  Pending(r)' /\ req'[r].todo = Tail(q.todo)
  BY <1>1, <1>5, CallMade
<1>6. CASE PlainPoint(q)
  BY <1>1, <1>4, <1>6, PlainCall
<1>7. CASE RegisterPoint(q)
  <2>1. PICK i \in Invites, e \in Emails,
             a \in [email: Emails, password: Passwords, invite: Invites] :
           Five(q.todo, Call("countUsers", None), Call("inviteUnused", i), Call("emailFree", e),
                Call("createUser", a), Call("mailCode", None))
    BY <1>2, <1>7, CallParts, CallFields DEF RegisterPoint
  <2>2. /\ Tail(q.todo) # <<>>
        /\ Four(Tail(q.todo), Call("inviteUnused", i), Call("emailFree", e),
                Call("createUser", a), Call("mailCode", None))
    BY <2>1, CallParts
  <2>3. RegisterPoint(req[r])'
    BY <1>4, <1>5, <2>2 DEF RegisterPoint
  <2>4. QED
    BY <1>5, <2>2, <2>3 DEF Settled, Point
<1>8. CASE LoginPoint(q)
  <2>1. PICK a \in Identity : /\ Unheld(a.subject)
                              /\ Two(q.todo, Call("countUsers", None), Call("createExternal", a))
    BY <1>2, <1>8, CallParts, CallFields DEF LoginPoint
  <2>2. Tail(q.todo) # <<>> /\ One(Tail(q.todo), Call("createExternal", a))
    BY <2>1, CallParts
  <2>3. Unheld(a.subject)'
    BY <1>2, <2>1 DEF Unheld, Calm
  <2>4. LoginPoint(req[r])'
    BY <1>4, <1>5, <2>2, <2>3 DEF LoginPoint
  <2>5. QED
    BY <1>5, <2>2, <2>4 DEF Settled, Point
<1>9. QED
  BY <1>3, <1>6, <1>7, <1>8

\* ReadToDisable reads the row that is to be saved.
LEMMA ReadToDisableSettles ==
    ASSUME NEW r \in Requests, Handled(r), ReadToDisable(r), UNCHANGED recovery
    PROVE  Settled(r)
<1> DEFINE q == req[r]
           u == q.scope
           row == account[u]
<1>1. /\ Head(q.todo).do = "readToDisable" /\ Calm
      /\ IF row.enabled THEN Remember(r, [row EXCEPT !.enabled = FALSE]) ELSE Answer(r, "refused")
  BY DEF ReadToDisable, At, accountTables, Calm
<1>2. DisablePoint(q)
  BY <1>1, HandledFacts, PointHeads DEF Handled, Point, PlainCalls
<1>3. /\ Two(q.todo, Call("readToDisable", None), Call("saveUser", None))
      /\ q.op = "APIDeleteUser"
  BY <1>1, <1>2, CallParts, CallFields DEF DisablePoint
<1>4. Facts({}, {}, {})'
  BY <1>1, <1>2, CalmFacts DEF DisablePoint
<1>5. CASE row.enabled
  <2>1. PICK x : x = [row EXCEPT !.enabled = FALSE]
    OBVIOUS
  <2>2. Tail(q.todo) # <<>> /\ One(Tail(q.todo), Call("saveUser", None))
    BY <1>3, CallParts
  <2>3. /\ Pending(r)' /\ req'[r].op = q.op /\ req'[r].scope = u
        /\ req'[r].found = x /\ req'[r].todo = Tail(q.todo)
    BY <1>1, <1>5, <2>1, <2>2, CallMade
  <2>4. u \in Users
    BY <1>1, NextCall DEF Handled, MFAInv, ScopedCalls
  <2>5. row \in AccountRow
    BY <1>5, <2>4, RegisteredRow DEF Handled, MFAInv, AccountsInv
  <2>6. DisableOf(x, row)
    BY <2>1, <2>5 DEF DisableOf, Copies, AccountRow
  <2>7. DisablePoint(req[r])'
    BY <1>1, <1>3, <1>4, <2>2, <2>3, <2>6 DEF DisablePoint, Calm, DisableOf, Copies
  <2>8. QED
    BY <2>3, <2>7 DEF Settled, Point
<1>6. QED
  BY <1>1, <1>4, <1>5, AnswerSettles DEF Replies

\* Whether an external identity is known, and whether its address is.
LEMMA LookupSettles ==
    ASSUME NEW r \in Requests, Handled(r), FindSubject(r) \/ FindAddress(r), UNCHANGED recovery
    PROVE  Settled(r)
<1> DEFINE q == req[r]
<1>1. Head(q.todo).do \in {"findSubject", "findAddress"} /\ Calm
  BY DEF FindSubject, FindAddress, At, accountTables, Calm
<1>2. LoginPoint(q)
  BY <1>1, HandledFacts, PointHeads DEF Handled, Point, PlainCalls
<1>3. Facts({}, {}, {})'
  BY <1>1, <1>2, CalmFacts DEF LoginPoint
<1>4. CASE \E reply \in Replies : Answer(r, reply)
  BY <1>3, <1>4, AnswerSettles
<1>5. CASE FindSubject(r) /\ GetUserByOIDCSubject(Arg(r).subject) = {}
  <2>1. PICK a \in Identity : One(q.todo, Call("findSubject", a))
    BY <1>2, <1>5, CallParts, CallFields DEF LoginPoint, FindSubject, At
  <2>2. Arg(r) = a
    BY <2>1, CallParts, CallFields DEF Arg
  <2>3. PICK p : p = <<Call("findAddress", a)>>
    OBVIOUS
  <2>4. One(p, Call("findAddress", a))
    BY <2>3 DEF One
  <2>5. p # <<>>
    BY <2>4, CallParts
  <2>6. Continue(r, None, None, p)
    BY <1>5, <2>2, <2>3 DEF FindSubject
  <2>7. Pending(r)' /\ req'[r].todo = p
    BY <2>5, <2>6, Branched
  <2>8. Unheld(a.subject)'
    BY <1>1, <1>5, <2>2 DEF GetUserByOIDCSubject, Unheld, Calm
  <2>9. LoginPoint(req[r])'
    BY <1>3, <2>1, <2>4, <2>7, <2>8 DEF LoginPoint
  <2>10. QED
    BY <2>7, <2>9 DEF Settled, Point
<1>6. CASE FindAddress(r)
  <2>1. PICK a \in Identity : Unheld(a.subject) /\ One(q.todo, Call("findAddress", a))
    BY <1>2, <1>6, CallParts, CallFields DEF LoginPoint, FindAddress, At
  <2>2. Arg(r) = a
    BY <2>1, CallParts, CallFields DEF Arg
  <2>3. PICK p1, p2 : /\ p1 = <<Call("link", a.subject), Call("readUser", None)>>
                      /\ p2 = <<Call("countUsers", None), Call("createExternal", a)>>
    OBVIOUS
  <2>4. /\ Two(p1, Call("link", a.subject), Call("readUser", None))
        /\ Two(p2, Call("countUsers", None), Call("createExternal", a))
    BY <2>3 DEF Two
  <2>5. p1 # <<>> /\ p2 # <<>>
    BY <2>4, CallParts
  <2>6. Unheld(a.subject)'
    BY <1>1, <2>1 DEF Unheld, Calm
  <2>7. \/ \E reply \in Replies : Answer(r, reply)
        \/ \E u : Continue(r, u, None, p1)
        \/ Continue(r, None, None, p2)
    BY <1>6, <2>2, <2>3 DEF FindAddress, Replies
  <2>8. ASSUME NEW u, NEW p, p \in {p1, p2}, Continue(r, u, None, p)
        PROVE  Settled(r)
    <3>1. Pending(r)' /\ req'[r].todo = p
      BY <2>5, <2>8, Branched
    <3>2. LoginPoint(req[r])'
      BY <1>3, <2>1, <2>4, <2>6, <2>8, <3>1 DEF LoginPoint
    <3>3. QED
      BY <3>1, <3>2 DEF Settled, Point
  <2>9. QED
    BY <1>4, <2>7, <2>8
<1>7. QED
  BY <1>4, <1>5, <1>6 DEF FindSubject, Replies

\* The row that is to be saved has another address only if it is not verified.
LEMMA EditedRow ==
    ASSUME NEW row \in AccountRow, row.enabled,
           NEW a \in [email: Emails, password: Passwords \cup {None}]
    PROVE  LET x == EditedAccount(row, a)
           IN  EditOf(x, row) /\ (MovesAddress(row, a) => ~x.verified)
<1>1. PICK x : x = EditedAccount(row, a)
  OBVIOUS
<1>2. /\ x.email = IF MovesAddress(row, a) THEN a.email ELSE row.email
      /\ x.verified = (row.verified /\ ~MovesAddress(row, a))
      /\ x.password = IF None \in {row.password, a.password} THEN row.password ELSE a.password
      /\ x.enabled = row.enabled /\ x.subject = row.subject /\ x.code = row.code
      /\ x.reset = row.reset /\ x.mfa = row.mfa /\ x.secret = row.secret
  BY <1>1 DEF EditedAccount, AccountRow
<1>3. EditOf(x, row)
  BY <1>2 DEF EditOf, Copies
<1>4. QED
  BY <1>1, <1>2, <1>3

\* ReadToEdit reads the row, changes it in memory and goes on to save it.
LEMMA ReadToEditSettles ==
    ASSUME NEW r \in Requests, Handled(r), ReadToEdit(r), UNCHANGED recovery
    PROVE  Settled(r)
<1> DEFINE q == req[r]
           u == q.scope
           row == account[u]
<1>1. Head(q.todo).do = "readToEdit" /\ Calm
  BY DEF ReadToEdit, At, accountTables, Calm
<1>2. PlainPoint(q)
  BY <1>1, HandledFacts, PointHeads DEF Handled, Point
<1>3. Facts({}, {}, {})'
  BY <1>1, <1>2, CalmFacts DEF PlainPoint
<1>4. CASE ~row.enabled
  <2>1. Answer(r, "refused")
    BY <1>4 DEF ReadToEdit
  <2>2. QED
    BY <1>3, <2>1, AnswerSettles DEF Replies
<1>5. CASE row.enabled
  <2>1. /\ u \in Users /\ q.op = "UpdateUser"
        /\ Arg(r) \in [email: Emails, password: Passwords \cup {None}]
    BY <1>1, NextCall DEF Handled, MFAInv, CallFits, ScopedCalls, Arg
  <2>2. row \in AccountRow
    BY <1>5, <2>1, RegisteredRow DEF Handled, MFAInv, AccountsInv
  <2>3. PICK a, x : a = Arg(r) /\ x = EditedAccount(row, a)
    OBVIOUS
  <2>4. EditOf(x, row) /\ (MovesAddress(row, a) => ~x.verified) /\ a.email \in Emails
    BY <1>5, <2>1, <2>2, <2>3, EditedRow
  <2>5. PICK p : p = IF MovesAddress(row, a)
                     THEN <<Call("emailFree", a.email), UnverifyIt,
                            Call("saveUser", None), Call("readEdited", None)>>
                     ELSE <<Call("saveUser", None), Call("readEdited", None)>>
    OBVIOUS
  <2>6. Continue(r, u, x, p)
    <3>1. PICK b, c, d, e : /\ b = Call("emailFree", a.email) /\ c = UnverifyIt
                            /\ d = Call("saveUser", None) /\ e = Call("readEdited", None)
      OBVIOUS
    <3>2. /\ <<b, c>> \o <<d, e>> = <<b, c, d, e>>
          /\ <<>> \o <<d, e>> = <<d, e>>
      BY TwoMore
    <3>3. Continue(r, u, x, (IF MovesAddress(row, a) THEN <<b, c>> ELSE <<>>) \o <<d, e>>)
      BY <1>5, <2>3, <3>1 DEF ReadToEdit, UnverifyIt
    <3>4. p = IF MovesAddress(row, a) THEN <<b, c, d, e>> ELSE <<d, e>>
      BY <2>5, <3>1
    <3>5. p = (IF MovesAddress(row, a) THEN <<b, c>> ELSE <<>>) \o <<d, e>>
      BY <3>2, <3>4
    <3>6. QED
      BY <3>3, <3>5
  <2>7. IF MovesAddress(row, a)
        THEN Four(p, Call("emailFree", a.email), UnverifyIt,
                  Call("saveUser", None), Call("readEdited", None))
        ELSE Two(p, Call("saveUser", None), Call("readEdited", None))
    BY <2>5 DEF Four, Two
  <2>8. p # <<>>
    BY <2>7, CallParts
  <2>9. /\ Pending(r)' /\ req'[r].op = q.op /\ req'[r].scope = u /\ req'[r].found = x
        /\ req'[r].todo = p
    BY <2>6, <2>8, Branched
  <2>10. EditOf(req'[r].found, account'[req'[r].scope])
    BY <1>1, <2>4, <2>9 DEF Calm
  <2>11. EditPoint(req[r])'
    <3>1. EditOf(req[r].found, account[req[r].scope])'
      BY <2>10 DEF EditOf, Copies
    <3>2. QED
      BY <1>3, <2>1, <2>4, <2>7, <2>9, <3>1 DEF EditPoint
  <2>12. QED
    BY <2>9, <2>11 DEF Settled, Point
<1>6. QED
  BY <1>4, <1>5

\* ReadEdited finds whether the account is owed a new code.
LEMMA ReadEditedSettles ==
    ASSUME NEW r \in Requests, Handled(r), ReadEdited(r), UNCHANGED recovery
    PROVE  Settled(r)
<1> DEFINE q == req[r]
           u == q.scope
           row == account[u]
<1>1. Head(q.todo).do = "readEdited" /\ Calm
  BY DEF ReadEdited, At, accountTables, Calm
<1>2. EditPoint(q)
  BY <1>1, HandledFacts, PointHeads DEF Handled, Point, PlainCalls
<1>3. row.enabled /\ (Facts({}, {}, {}) \/ (~row.verified /\ Facts({}, {u}, {})))
  BY <1>1, <1>2, CallParts, CallFields DEF EditPoint
<1>4. PICK v : v = u
  OBVIOUS
<1>5. CASE SMTPEnabled /\ ~row.verified
  <2>1. PICK p : p = <<Call("newCode", None), Call("mailCode", None)>>
    OBVIOUS
  <2>2. Two(p, Call("newCode", None), Call("mailCode", None))
    BY <2>1 DEF Two
  <2>3. p # <<>>
    BY <2>2, CallParts
  <2>4. Continue(r, u, row, p)
    BY <1>3, <1>5, <2>1 DEF ReadEdited
  <2>5. Pending(r)' /\ req'[r].scope = v /\ req'[r].found = row /\ req'[r].todo = p
    BY <1>4, <2>3, <2>4, Branched
  <2>6. Facts({}, {v}, {})'
    BY <1>1, <1>3, <1>4, FactsWeaken, CalmFacts
  <2>7. EditPoint(req[r])'
    BY <1>1, <1>3, <1>4, <1>5, <2>2, <2>5, <2>6 DEF EditPoint, Calm
  <2>8. QED
    BY <2>5, <2>7 DEF Settled, Point
<1>6. CASE ~(SMTPEnabled /\ ~row.verified)
  <2>1. Answer(r, "ok")
    BY <1>3, <1>6 DEF ReadEdited, Continue
  <2>2. Facts({}, {}, {})
    BY <1>3, <1>6, FactsUnmailed
  <2>3. Facts({}, {}, {})'
    BY <1>1, <2>2, CalmFacts
  <2>4. QED
    BY <2>1, <2>3, AnswerSettles DEF Replies
<1>7. QED
  BY <1>5, <1>6

\* Five calls each of which is plain.
LEMMA FivePlain ==
    ASSUME NEW a, NEW b, NEW c, NEW d, NEW e,
           a.do \in PlainCalls, b.do \in PlainCalls, c.do \in PlainCalls, d.do \in PlainCalls,
           e.do \in PlainCalls
    PROVE  Plain(<<a, b, c, d, e>>)
<1>1. PICK s : s = <<a, b, c, d, e>>
  OBVIOUS
<1>2. DOMAIN s = 1..5 /\ s[1] = a /\ s[2] = b /\ s[3] = c /\ s[4] = d /\ s[5] = e
  BY <1>1
<1>3. QED
  BY <1>1, <1>2 DEF Plain

\* FindToReset goes on to make a code, or answers as if it did.
LEMMA FindToResetSettles ==
    ASSUME NEW r \in Requests, Handled(r), FindToReset(r), UNCHANGED recovery
    PROVE  Settled(r)
<1> DEFINE q == req[r]
<1>1. Head(q.todo).do = "findToReset" /\ Calm
  BY DEF FindToReset, At, accountTables, Calm
<1>2. PlainPoint(q)
  BY <1>1, HandledFacts, PointHeads DEF Handled, Point, PlainCalls
<1>3. Facts({}, {}, {})'
  BY <1>1, <1>2, CalmFacts DEF PlainPoint
<1>4. PICK a, b, c, d, e :
        /\ a = Call("readQuietly", None) /\ b = Call("newReset", None)
        /\ c = Call("setOpen", TRUE) /\ d = Call("readUser", None) /\ e = Call("mailReset", None)
  OBVIOUS
<1>5. Answer(r, "ok") \/ \E u : Continue(r, u, None, <<a, b, c, d, e>>)
  BY <1>4 DEF FindToReset
<1>6. ASSUME NEW u, Continue(r, u, None, <<a, b, c, d, e>>)
      PROVE  Settled(r)
  <2>1. PICK p : p = <<a, b, c, d, e>>
    OBVIOUS
  <2>2. p # <<>>
    BY <2>1
  <2>3. /\ a.do = "readQuietly" /\ b.do = "newReset" /\ d.do = "readUser" /\ e.do = "mailReset"
    BY <1>4, CallFields
  <2>4. c.do = "setOpen"
    BY <1>4 DEF Call
  <2>5. Plain(p)
    BY <2>1, <2>3, <2>4, FivePlain DEF PlainCalls
  <2>6. Pending(r)' /\ req'[r].todo = p
    BY <1>6, <2>1, <2>2, Branched
  <2>7. PlainPoint(req[r])'
    BY <1>3, <2>5, <2>6 DEF PlainPoint, Plain
  <2>8. QED
    BY <2>6, <2>7 DEF Settled, Point
<1>7. QED
  BY <1>3, <1>5, <1>6, AnswerSettles DEF Replies

\* FindReset finds the account whose code it is.
LEMMA FindResetSettles ==
    ASSUME NEW r \in Requests, Handled(r), FindReset(r), UNCHANGED recovery
    PROVE  Settled(r)
<1> DEFINE q == req[r]
<1>1. Head(q.todo).do = "findReset" /\ Calm
  BY DEF FindReset, At, accountTables, Calm
<1>2. ResetPoint(q)
  BY <1>1, HandledFacts, PointHeads DEF Handled, Point, PlainCalls
<1>3. PICK a : /\ a.password \in Passwords /\ a.code # 0
               /\ Four(q.todo, Call("findReset", a), Call("saveUser", None),
                       Call("newReset", None), CloseIt)
               /\ q.op = "APIChangePassword" /\ Facts({}, {}, {})
  BY <1>1, <1>2, CallParts, CallFields DEF ResetPoint
<1>4. Facts({}, {}, {})'
  BY <1>1, <1>3, CalmFacts
<1>5. Arg(r) = a
  BY <1>3, CallParts, CallFields DEF Arg
<1>6. \/ Answer(r, "refused") \/ Answer(r, "error")
      \/ \E u \in Users : /\ account[u].enabled /\ account[u].reset = a.code
                          /\ account[u].password # None
                          /\ Continue(r, u, [account[u] EXCEPT !.password = a.password], Tail(q.todo))
  BY <1>5 DEF FindReset, GetAllUserInformationByResetCode
<1>7. ASSUME NEW u \in Users, account[u].enabled, account[u].reset = a.code,
             account[u].password # None,
             Continue(r, u, [account[u] EXCEPT !.password = a.password], Tail(q.todo))
      PROVE  Settled(r)
  <2>1. PICK x, p : x = [account[u] EXCEPT !.password = a.password] /\ p = Tail(q.todo)
    OBVIOUS
  <2>2. p # <<>> /\ Three(p, Call("saveUser", None), Call("newReset", None), CloseIt)
    BY <1>3, <2>1, CallParts
  <2>3. /\ Pending(r)' /\ req'[r].op = q.op /\ req'[r].scope = u /\ req'[r].found = x
        /\ req'[r].todo = p
    BY <1>7, <2>1, <2>2, Branched
  <2>4. account[u] \in AccountRow
    BY <1>7, RegisteredRow DEF Handled, MFAInv, AccountsInv
  <2>5. ResetOf(x, account[u])
    BY <1>3, <1>7, <2>1, <2>4, AccountsAssumption DEF ResetOf, Copies, AccountRow
  <2>6. ResetOf(req[r].found, account[req[r].scope])'
    BY <1>1, <2>3, <2>5 DEF ResetOf, Copies, Calm
  <2>7. ResetPoint(req[r])'
    BY <1>3, <1>4, <2>2, <2>3, <2>6 DEF ResetPoint
  <2>8. QED
    BY <2>3, <2>7 DEF Settled, Point
<1>8. CASE Answer(r, "error")
  BY <1>1, <1>8, FailureSettles DEF Calm
<1>9. QED
  BY <1>4, <1>6, <1>7, <1>8, AnswerSettles DEF Replies

\* A password is given.
LEMMA LogInSettles ==
    ASSUME NEW r \in Requests, Handled(r), LogIn(r)
    PROVE  Settled(r)
<1>1. /\ Head(req[r].todo).do = "logIn" /\ Calm
      /\ \E reply \in Replies : Answer(r, reply)
  BY DEF LogIn, At, accountTables, Calm, Replies
<1>2. PlainPoint(req[r])
  BY <1>1, HandledFacts, PointHeads DEF Handled, Point, PlainCalls
<1>3. Facts({}, {}, {})'
  BY <1>1, <1>2, CalmFacts DEF PlainPoint
<1>4. QED
  BY <1>1, <1>3, AnswerSettles

\* A one-time password, or a recovery code that has not been used.
LEMMA SecondFactorSettles ==
    ASSUME NEW r \in Requests, Handled(r), verifySecondFactor(r)
    PROVE  Settled(r)
<1> DEFINE q == req[r]
<1>1. Head(q.todo).do = "secondFactor" /\ Calm
  BY DEF verifySecondFactor, At, mfaTables, accountTables, Calm
<1>2. PlainPoint(q)
  BY <1>1, HandledFacts, PointHeads DEF Handled, Point, PlainCalls
<1>3. Facts({}, {}, {})'
  BY <1>1, <1>2, CalmFacts DEF PlainPoint
<1>4. CASE Answer(r, "refused") \/ Done(r)
  BY <1>2, <1>3, <1>4, PlainCall DEF Replies
<1>5. ASSUME NEW c \in recovery, ~c.used,
             Continue(r, q.scope, q.found, <<Call("markUsed", c.id)>> \o Tail(q.todo))
      PROVE  Settled(r)
  <2>1. PICK a, t, p, u, x : /\ a = Call("markUsed", c.id) /\ t = Tail(q.todo) /\ p = <<a>> \o t
                             /\ u = q.scope /\ x = q.found
    OBVIOUS
  <2>2. IsProgram(q.todo) /\ q.todo # <<>>
    BY HandledFacts
  <2>3. IsProgram(t) /\ Plain(t) /\ IsProgram(<<a>>)
    BY <1>2, <2>1, <2>2, ProgramTail, PlainParts, TuplesArePrograms DEF PlainPoint
  <2>4. p # <<>> /\ Head(p) = a /\ Tail(p) = t
    <3>1. Len(<<a>>) = 1 /\ <<a>>[1] = a
      OBVIOUS
    <3>2. /\ IsProgram(p) /\ Len(p) = 1 + Len(t)
          /\ \A i \in 1..1 + Len(t) : p[i] = IF i <= 1 THEN a ELSE t[i - 1]
      BY <2>1, <2>3, <3>1, ProgramConcat
    <3>3. Len(t) \in Nat /\ DOMAIN t = 1..Len(t)
      BY <2>3, ProgramLength
    <3>4. p # <<>>
      BY <3>2, <3>3
    <3>5. /\ Head(p) = p[1] /\ IsProgram(Tail(p)) /\ Len(Tail(p)) = Len(p) - 1
          /\ \A i \in 1..Len(p) - 1 : Tail(p)[i] = p[i + 1]
      BY <3>2, <3>4, ProgramTail
    <3>6. Len(Tail(p)) = Len(t) /\ \A i \in 1..Len(t) : Tail(p)[i] = t[i]
      BY <3>2, <3>3, <3>5
    <3>7. Tail(p) = t
      BY <2>3, <3>5, <3>6, ProgramsAlike
    <3>8. QED
      BY <3>2, <3>3, <3>4, <3>5, <3>7
  <2>5. Pending(r)' /\ req'[r].todo = p
    <3>1. Continue(r, u, x, p)
      BY <1>5, <2>1
    <3>2. QED
      BY <2>4, <3>1, Branched
  <2>6. a.do = "markUsed" /\ a.arg = c.id
    BY <2>1, CallFields
  <2>7. MarkPoint(req[r])'
    BY <1>1, <1>3, <1>5, <2>3, <2>4, <2>5, <2>6 DEF MarkPoint, Plain, Calm
  <2>8. QED
    BY <2>5, <2>7 DEF Settled, Point
<1>6. PICK v : v = Arg(r).value
  OBVIOUS
<1>7. \/ Answer(r, "refused") \/ Done(r)
      \/ /\ \E c \in recovery : c.id = v /\ ~c.used
         /\ Continue(r, q.scope, q.found, <<Call("markUsed", v)>> \o Tail(q.todo))
  BY <1>6 DEF verifySecondFactor, GetActiveRecoveryCodes
<1>8. QED
  BY <1>4, <1>5, <1>7

\* The checks of the second factor.
LEMMA MFACheckSettles ==
    ASSUME NEW r \in Requests, Handled(r), MFACheck(r)
    PROVE  Settled(r)
<1> DEFINE q == req[r]
           c == Head(q.todo)
           row == account[q.scope]
<1>1. /\ c.do \in {"mayEnrol", "mayActivate", "enrolled", "hasPassword"}
      /\ Calm
      /\ Answer(r, "refused") \/ (Done(r) /\ MFAPasses(q, c))
  BY DEF MFACheck, Guarded, Done, Answer, mfaTables, accountTables, Calm
<1>2. PlainPoint(q) \/ (ActivatePoint(q) /\ c.do = "mayActivate")
  BY <1>1, HandledFacts, PointHeads DEF Handled, Point, PlainCalls
<1>3. Facts({}, {}, {})'
  BY <1>1, <1>2, CalmFacts DEF PlainPoint, ActivatePoint
<1>4. CASE PlainPoint(q)
  BY <1>1, <1>3, <1>4, PlainCall DEF Replies
<1>5. CASE ActivatePoint(q) /\ Done(r) /\ MFAPasses(q, c) /\ c.do = "mayActivate"
  <2>1. /\ \E t : \/ Four(q.todo, Call("mayActivate", t),
                          Call("clearCodes", None), Call("storeCodes", None), Call("activate", None))
                  \/ Three(q.todo, Call("mayActivate", t),
                           Call("clearCodes", None), Call("activate", None))
        /\ q.found.mfa = row.mfa /\ q.found.secret = row.secret
    BY <1>5, CallParts, CallFields DEF ActivatePoint
  <2>2. /\ Tail(q.todo) # <<>>
        /\ \/ Three(Tail(q.todo), Call("clearCodes", None), Call("storeCodes", None), Call("activate", None))
           \/ Two(Tail(q.todo), Call("clearCodes", None), Call("activate", None))
    BY <2>1, CallParts
  <2>3. ~row.mfa /\ row.secret # 0
    BY <1>5, <2>1 DEF MFAPasses
  <2>4. /\ Pending(r)' /\ req'[r].scope = q.scope /\ req'[r].found = q.found
        /\ req'[r].todo = Tail(q.todo)
    BY <1>5, <2>2, CallMade
  <2>5. ActivatePoint(req[r])'
    BY <1>1, <1>3, <2>1, <2>2, <2>3, <2>4 DEF ActivatePoint, Calm
  <2>6. QED
    BY <2>4, <2>5 DEF Settled, Point
<1>6. QED
  BY <1>1, <1>2, <1>3, <1>4, <1>5, AnswerSettles DEF Replies

-----------------------------------------------------------------------------
(* The writes.                                                              *)

\* A code that has not been given out is nowhere.
LEMMA FreshCode ==
    ASSUME MFAInv, NEW A, NEW B, NEW C, Facts(A, B, C), NEW n \in Nat, nextId < n
    PROVE  /\ n # 0
           /\ \A v \in Users : account[v].code # n /\ account[v].reset # n
           /\ \A c \in recovery : c.id # n
           /\ \A m \in sent : m.code # n
           /\ n \notin Range(accepted)
<1>1. nextId \in Nat
  BY DEF MFAInv, AccountsInv, TablesFit
<1>2. \A v \in Users : account[v].code \in 0..nextId /\ account[v].reset \in 0..nextId
  BY DEF MFAInv, AccountsInv, TablesFit, Codes
<1>3. /\ \A c \in recovery : c.id \in 1..nextId
      /\ \A m \in sent : m.code \in 1..nextId
  BY DEF MFAInv, AccountsInv, TablesFit, RecoveryFits
<1>4. n \notin Range(accepted)
  <2>1. accepted \in Seq(1..nextId)
    BY DEF Facts
  <2>2. \A i \in DOMAIN accepted : accepted[i] \in 1..nextId
    BY <2>1, LenProperties
  <2>3. QED
    BY <1>1, <2>2 DEF Range
<1>5. QED
  BY <1>1, <1>2, <1>3, <1>4

\* A row with the codes and the factor of the account's, for the same person as the
\* account or for one whom no account has.
LEMMA AlikeRow ==
    ASSUME NEW A, NEW B, NEW C, Facts(A, B, C), NEW u \in Users, NEW row,
           row.code = account[u].code, row.reset = account[u].reset,
           row.mfa = account[u].mfa, row.secret = account[u].secret,
           \/ row.subject = account[u].subject /\ (row.enabled => account[u].enabled)
           \/ Unheld(row.subject)
    PROVE  RowFits(u, row)
<1>1. row.enabled /\ row.subject # None =>
        \A v \in Users \ {u} : account[v].enabled => account[v].subject # row.subject
  BY DEF Facts, OneAccountPerSubject, Unheld
<1>2. row.mfa => /\ row.secret # 0
                 /\ \A c \in recovery : c.user = u => c.secret = row.secret
  BY DEF Facts, MFAKeepsASecret, CodesOfTheSecret
<1>3. /\ \A v \in Users \ {u} : row.code = account[v].code => row.code = 0
      /\ \A v \in Users \ {u} : row.reset = account[v].reset => row.reset = 0
      /\ \A c \in recovery : row.reset # c.id
  BY DEF Facts, CodesDiffer
<1>4. QED
  BY <1>1, <1>2, <1>3 DEF RowFits

\* What else is known of such a row while nobody is an exception.
LEMMA AlikeReached ==
    ASSUME Facts({}, {}, {}), NEW u \in Users, NEW row,
           row.code = account[u].code, row.reset = account[u].reset,
           row.email = account[u].email
    PROVE  /\ Undisturbed /\ SMTPEnabled => ReachedOnly(row)
           /\ Undisturbed /\ SMTPEnabled /\ row.verified = account[u].verified
                /\ (row.password = None <=> account[u].password = None) => Verifies(row)
           /\ row.reset = 0 \/ (Undisturbed => row.reset \notin Range(accepted))
BY DEF Facts, CodesReached, NoneTwice, ReachedOnly, Verifies, Mailed

\* A row is saved where nobody is an exception, and none is after it.
LEMMA RowSaved ==
    ASSUME NEW r \in Requests, Handled(r), NEW u \in Users, NEW row, RowFits(u, row),
           Facts({}, {}, {}),
           Undisturbed /\ SMTPEnabled => Verifies(row) /\ ReachedOnly(row),
           row.reset = 0 \/ (Undisturbed => row.reset \notin Range(accepted)),
           account' = [account EXCEPT ![u] = row], nextId <= nextId',
           UNCHANGED <<sent, accepted, recovery>>
    PROVE  Facts({}, {}, {})'
<1>1. MFAInv /\ MFAInv' /\ (Undisturbed' => Undisturbed)
  BY HandledFacts
<1>2. PICK X : X = {}
  OBVIOUS
<1>3. Facts(X, X, X) /\ X \subseteq {u}
  BY <1>2
<1>4. Facts(X, X, X)'
  BY <1>1, <1>3, RowFacts
<1>5. QED
  BY <1>2, <1>4 DEF Facts

\* An invite or mail about a reset is nothing the tables of accounts depend on.
LEMMA InviteSettles ==
    ASSUME NEW r \in Requests, Handled(r), GenerateRandomInvite(r) \/ DeleteInviteByID(r),
           UNCHANGED recovery
    PROVE  Settled(r)
<1>1. Head(req[r].todo).do \in {"createInvite", "disableInvite"} /\ Calm /\ Done(r)
  BY DEF GenerateRandomInvite, DeleteInviteByID, At, Calm
<1>2. PlainPoint(req[r])
  BY <1>1, HandledFacts, PointHeads DEF Handled, Point, PlainCalls
<1>3. Facts({}, {}, {})'
  BY <1>1, <1>2, CalmFacts DEF PlainPoint
<1>4. QED
  BY <1>1, <1>2, <1>3, PlainCall

\* Mail reaches the address the code was made for.
LEMMA MailSettles ==
    ASSUME NEW r \in Requests, Handled(r),
           SendSMTPVerificationEmail(r) \/ SendSMTPResetEmail(r), UNCHANGED recovery
    PROVE  Settled(r)
<1> DEFINE q == req[r]
<1>1. CASE SendSMTPVerificationEmail(r)
  <2>1. Head(q.todo).do = "mailCode" /\ Mail(r, "verify", q.found.code)
    BY <1>1 DEF SendSMTPVerificationEmail, At
  <2>2. MailPoint(q)
    BY <2>1, HandledFacts, PointHeads DEF Handled, Point, PlainCalls
  <2>3. CASE q.found.code = 0
    BY <2>1, <2>3, FailureSettles DEF Mail
  <2>4. CASE q.found.code # 0
    <3>1. PICK u, m : u = q.scope /\ m = [kind |-> "verify", code |-> q.found.code, to |-> q.found.email]
      OBVIOUS
    <3>2. u \in Users
      BY <2>1, <3>1, NextCall
         DEF Handled, MFAInv, HeadReady, NeedsRow, RowCalls, RowOf, Registered
    <3>3. /\ sent' = sent \cup {m} /\ Done(r)
          /\ UNCHANGED <<account, nextId, accepted, recovery>>
      BY <2>1, <2>4, <3>1 DEF Mail
    <3>4. /\ m = [kind |-> "verify", code |-> account[u].code, to |-> account[u].email]
          /\ account[u].code # 0 /\ Facts({u}, {}, {})
      BY <2>2, <2>4, <3>1 DEF MailPoint
    <3>5. MFAInv /\ MFAInv' /\ (Undisturbed' => Undisturbed)
      BY HandledFacts
    <3>6. Facts({}, {}, {})'
      BY <3>2, <3>3, <3>4, <3>5, MailFacts
    <3>7. Tail(q.todo) = <<>>
      BY <2>2, CallParts DEF MailPoint
    <3>8. Over(req'[r])
      BY <3>3, <3>7, CallMade
    <3>9. QED
      BY <3>6, <3>8, OverSettles
  <2>5. QED
    BY <2>3, <2>4
<1>2. CASE SendSMTPResetEmail(r)
  <2>1. Head(q.todo).do = "mailReset" /\ Mail(r, "reset", q.found.reset)
    BY <1>2 DEF SendSMTPResetEmail, At
  <2>2. PlainPoint(q)
    BY <2>1, HandledFacts, PointHeads DEF Handled, Point, PlainCalls
  <2>3. CASE q.found.reset = 0
    BY <2>1, <2>3, FailureSettles DEF Mail
  <2>4. CASE q.found.reset # 0
    <3>1. PICK m : m = [kind |-> "reset", code |-> q.found.reset, to |-> q.found.email]
      OBVIOUS
    <3>2. /\ sent' = sent \cup {m} /\ m.kind = "reset" /\ Done(r)
          /\ UNCHANGED <<account, nextId, accepted, recovery>>
      BY <2>1, <2>4, <3>1 DEF Mail
    <3>3. MFAInv /\ MFAInv' /\ (Undisturbed' => Undisturbed) /\ Facts({}, {}, {})
      BY <2>2, HandledFacts DEF PlainPoint
    <3>4. Facts({}, {}, {})'
      BY <3>2, <3>3, ResetMailFacts
    <3>5. QED
      BY <2>2, <3>2, <3>4, PlainCall
  <2>5. QED
    BY <2>3, <2>4
<1>3. QED
  BY <1>1, <1>2

\* CreateUserWithInviteCode makes an account with codes of its own.
LEMMA CreateSettles ==
    ASSUME NEW r \in Requests, Handled(r), CreateUserWithInviteCode(r), UNCHANGED recovery
    PROVE  Settled(r)
<1> DEFINE q == req[r]
<1>1. Head(q.todo).do = "createUser" /\ UNCHANGED <<sent, accepted, recovery>>
  BY DEF CreateUserWithInviteCode, At
<1>2. PlainPoint(q) \/ RegisterPoint(q)
  BY <1>1, HandledFacts, PointHeads DEF Handled, Point
<1>3. Facts({}, {}, {})
  BY <1>2 DEF PlainPoint, RegisterPoint
<1>4. PICK a, x : a = Arg(r) /\ x = q.found.admin
  OBVIOUS
<1>5. CASE Answer(r, "refused") /\ UNCHANGED <<account, nextId>>
  <2>1. Facts({}, {}, {})'
    BY <1>1, <1>3, <1>5, CalmFacts DEF Calm
  <2>2. QED
    BY <1>5, <2>1, AnswerSettles DEF Replies
<1>6. ASSUME NEW u \in Users, NEW row,
             row = [NoAccount EXCEPT
                        !.enabled = TRUE, !.email = a.email, !.password = a.password,
                        !.admin = x, !.verified = ~SMTPEnabled,
                        !.code = nextId + 1, !.reset = nextId + 2],
             account' = [account EXCEPT ![u] = row], nextId' = nextId + 2,
             Continue(r, u, row, Tail(q.todo))
      PROVE  Settled(r)
  <2>1. /\ MFAInv /\ MFAInv' /\ (Undisturbed' => Undisturbed) /\ nextId \in Nat
    BY HandledFacts
  <2>2. /\ row.subject = None /\ row.mfa = FALSE /\ row.code = nextId + 1
        /\ row.reset = nextId + 2 /\ row.email = a.email /\ row.verified = ~SMTPEnabled
    BY <1>6 DEF NoAccount
  <2>3. PICK m, n : m = nextId + 1 /\ n = nextId + 2
    OBVIOUS
  <2>4. m \in Nat /\ n \in Nat /\ nextId < m /\ nextId < n
    BY <2>1, <2>3
  <2>5. /\ \A v \in Users : account[v].code # m /\ account[v].reset # n
        /\ \A c \in recovery : c.id # n
        /\ \A k \in sent : k.code # m
        /\ n \notin Range(accepted)
    BY <1>3, <2>1, <2>4, FreshCode
  <2>6. RowFits(u, row)
    BY <2>2, <2>3, <2>5 DEF RowFits
  <2>7. ReachedOnly(row) /\ row.reset \notin Range(accepted)
    BY <2>2, <2>3, <2>5 DEF ReachedOnly
  <2>8. SMTPEnabled => Verifies(row)
    BY <2>2 DEF Verifies
  <2>9. nextId <= nextId' /\ UNCHANGED <<sent, accepted, recovery>>
    BY <1>1, <1>6, <2>1
  <2>10. Facts({}, {}, {})'
    <3>1. account' = [account EXCEPT ![u] = row]
      BY <1>6
    <3>2. QED
      BY <1>3, <2>6, <2>7, <2>8, <2>9, <3>1, RowSaved
  <2>11. CASE Tail(q.todo) = <<>>
    <3>1. Answer(r, "ok")
      BY <1>6, <2>11 DEF Continue
    <3>2. QED
      BY <2>10, <3>1, AnswerSettles DEF Replies
  <2>12. CASE Tail(q.todo) # <<>>
    <3>1. PICK p : p = Tail(q.todo)
      OBVIOUS
    <3>2. Pending(r)' /\ req'[r].scope = u /\ req'[r].found = row /\ req'[r].todo = p
      <4>1. Continue(r, u, row, p) /\ p # <<>>
        BY <1>6, <2>12, <3>1
      <4>2. QED
        BY <4>1, Branched
    <3>3. CASE PlainPoint(q)
      <4>1. Plain(p)
        BY <3>1, <3>3, HandledFacts, PlainParts DEF PlainPoint
      <4>2. PlainPoint(req[r])'
        BY <2>10, <3>2, <4>1 DEF PlainPoint, Plain
      <4>3. QED
        BY <3>2, <4>2 DEF Settled, Point
    <3>4. CASE RegisterPoint(q)
      <4>1. One(p, Call("mailCode", None))
        BY <1>1, <3>1, <3>4, CallParts, CallFields DEF RegisterPoint
      <4>2. account'[u] = row
        BY <1>6, <2>1 DEF MFAInv, AccountsInv, TablesFit
      <4>3. Facts({u}, {}, {})'
        BY <2>10 DEF Facts, CodesReached
      <4>4. MailPoint(req[r])'
        BY <3>2, <4>1, <4>2, <4>3 DEF MailPoint
      <4>5. QED
        BY <3>2, <4>4 DEF Settled, Point
    <3>5. QED
      BY <1>2, <3>3, <3>4
  <2>13. QED
    BY <2>11, <2>12
<1>7. \/ Answer(r, "refused") /\ UNCHANGED <<account, nextId>>
      \/ \E u \in Users :
           LET row == [NoAccount EXCEPT
                        !.enabled = TRUE, !.email = a.email, !.password = a.password,
                        !.admin = x, !.verified = ~SMTPEnabled,
                        !.code = nextId + 1, !.reset = nextId + 2]
           IN  /\ account' = [account EXCEPT ![u] = row] /\ nextId' = nextId + 2
               /\ Continue(r, u, row, Tail(q.todo))
  BY <1>4 DEF CreateUserWithInviteCode
<1>8. QED
  BY <1>5, <1>6, <1>7

\* One call that is plain.
LEMMA OnePlain ==
    ASSUME NEW a, a.do \in PlainCalls, NEW s, One(s, a)
    PROVE  Plain(s)
<1>1. s = <<a>>
  BY DEF One
<1>2. DOMAIN s = 1..1 /\ s[1] = a
  BY <1>1
<1>3. QED
  BY <1>2 DEF Plain

\* An identity that no account has is linked to one.
LEMMA LinkSettles ==
    ASSUME NEW r \in Requests, Handled(r), linkUserOIDC(r), UNCHANGED recovery
    PROVE  Settled(r)
<1> DEFINE q == req[r]
<1>1. Head(q.todo).do = "link" /\ UNCHANGED <<sent, accepted, nextId, recovery>>
  BY DEF linkUserOIDC, At
<1>2. LoginPoint(q)
  BY <1>1, HandledFacts, PointHeads DEF Handled, Point, PlainCalls
<1>3. PICK a \in Identity : /\ Unheld(a.subject)
                            /\ Two(q.todo, Call("link", a.subject), Call("readUser", None))
  BY <1>1, <1>2, CallParts, CallFields DEF LoginPoint
<1>4. Facts({}, {}, {}) /\ Arg(r) = a.subject
  BY <1>2, <1>3, CallParts, CallFields DEF LoginPoint, Arg
<1>5. PICK u, row : u = q.scope /\ row = [account[u] EXCEPT !.subject = a.subject]
  OBVIOUS
<1>6. UpdateColumns(r, row)
  BY <1>4, <1>5 DEF linkUserOIDC
<1>7. CASE ~account[u].enabled
  <2>1. Answer(r, "refused") /\ Calm
    BY <1>1, <1>5, <1>6, <1>7 DEF UpdateColumns, Calm
  <2>2. Facts({}, {}, {})'
    BY <1>4, <2>1, CalmFacts
  <2>3. QED
    BY <2>1, <2>2, AnswerSettles DEF Replies
<1>8. CASE account[u].enabled
  <2>1. account' = [account EXCEPT ![u] = row] /\ Done(r)
    BY <1>5, <1>6, <1>8 DEF UpdateColumns
  <2>2. u \in Users /\ nextId <= nextId'
    BY <1>1, <1>5, NextCall, HandledFacts DEF Handled, MFAInv, ScopedCalls
  <2>3. account[u] \in AccountRow
    BY <1>8, <2>2, RegisteredRow DEF Handled, MFAInv, AccountsInv
  <2>4. /\ row.subject = a.subject /\ row.enabled = account[u].enabled
        /\ row.code = account[u].code /\ row.reset = account[u].reset
        /\ row.mfa = account[u].mfa /\ row.secret = account[u].secret
        /\ row.email = account[u].email /\ row.verified = account[u].verified
        /\ row.password = account[u].password
    BY <1>5, <2>3 DEF AccountRow
  <2>5. RowFits(u, row)
    BY <1>3, <1>4, <2>2, <2>4, AlikeRow
  <2>6. /\ Undisturbed /\ SMTPEnabled => Verifies(row) /\ ReachedOnly(row)
        /\ row.reset = 0 \/ (Undisturbed => row.reset \notin Range(accepted))
    BY <1>4, <2>2, <2>4, AlikeReached
  <2>7. Facts({}, {}, {})'
    BY <1>1, <1>4, <2>1, <2>2, <2>5, <2>6, RowSaved
  <2>8. Tail(q.todo) # <<>> /\ One(Tail(q.todo), Call("readUser", None))
    BY <1>3, CallParts
  <2>9. Pending(r)' /\ req'[r].todo = Tail(q.todo)
    BY <2>1, <2>8, CallMade
  <2>10. Plain(req'[r].todo)
    BY <2>8, <2>9, OnePlain, CallFields DEF PlainCalls
  <2>11. PlainPoint(req[r])'
    BY <2>7, <2>10 DEF PlainPoint, Plain
  <2>12. QED
    BY <2>9, <2>11 DEF Settled, Point
<1>9. QED
  BY <1>7, <1>8

\* An account is made for it.
LEMMA ExternalSettles ==
    ASSUME NEW r \in Requests, Handled(r), createOIDCUser(r), UNCHANGED recovery
    PROVE  Settled(r)
<1> DEFINE q == req[r]
<1>1. Head(q.todo).do = "createExternal" /\ UNCHANGED <<sent, accepted, nextId, recovery>>
  BY DEF createOIDCUser, At
<1>2. LoginPoint(q)
  BY <1>1, HandledFacts, PointHeads DEF Handled, Point, PlainCalls
<1>3. PICK a \in Identity : Unheld(a.subject) /\ One(q.todo, Call("createExternal", a))
  BY <1>1, <1>2, CallParts, CallFields DEF LoginPoint
<1>4. Facts({}, {}, {}) /\ Arg(r) = a
  BY <1>2, <1>3, CallParts, CallFields DEF LoginPoint, Arg
<1>5. CASE Answer(r, "refused") /\ UNCHANGED account
  <2>1. Facts({}, {}, {})'
    BY <1>1, <1>4, <1>5, CalmFacts DEF Calm
  <2>2. QED
    BY <1>5, <2>1, AnswerSettles DEF Replies
<1>6. ASSUME NEW u \in Users, NEW row, NEW x,
             row = [NoAccount EXCEPT
                    !.enabled = TRUE, !.email = a.email, !.verified = TRUE,
                    !.subject = a.subject, !.admin = x],
             account' = [account EXCEPT ![u] = row], Done(r)
      PROVE  Settled(r)
  <2>1. /\ row.subject = a.subject /\ row.mfa = FALSE /\ row.code = 0
        /\ row.reset = 0 /\ row.password = None
    BY <1>6 DEF NoAccount
  <2>2. \A m \in sent : m.code # 0
    BY DEF Handled, MFAInv, AccountsInv, TablesFit
  <2>3. \A c \in recovery : c.id # 0
    BY DEF Handled, MFAInv, RecoveryFits
  <2>4. RowFits(u, row)
    BY <1>3, <2>1, <2>3 DEF RowFits, Unheld
  <2>5. Verifies(row) /\ ReachedOnly(row)
    BY <2>1, <2>2 DEF Verifies, ReachedOnly
  <2>6. account' = [account EXCEPT ![u] = row] /\ nextId <= nextId'
    BY <1>1, <1>6, HandledFacts
  <2>7. Facts({}, {}, {})'
    BY <1>1, <1>4, <2>1, <2>4, <2>5, <2>6, RowSaved
  <2>8. Over(req'[r])
    BY <1>3, <1>6, CallParts, CallMade
  <2>9. QED
    BY <2>7, <2>8, OverSettles
<1>7. PICK x : x = q.found.admin
  OBVIOUS
<1>8. \/ Answer(r, "refused") /\ UNCHANGED account
      \/ \E u \in Users :
           /\ account' = [account EXCEPT ![u] = [NoAccount EXCEPT
                    !.enabled = TRUE, !.email = a.email, !.verified = TRUE,
                    !.subject = a.subject, !.admin = x]]
           /\ Done(r)
  BY <1>4, <1>7 DEF createOIDCUser
<1>9. QED
  BY <1>5, <1>6, <1>8

\* An account is verified by the code that was mailed to its address, or is not any more.
LEMMA VerificationSettles ==
    ASSUME NEW r \in Requests, Handled(r), SetUserVerification(r), UNCHANGED recovery
    PROVE  Settled(r)
<1> DEFINE q == req[r]
<1>1. Head(q.todo).do = "setVerified" /\ UNCHANGED <<sent, accepted, nextId, recovery>>
  BY DEF SetUserVerification, At
<1>2. \/ /\ VerifyPoint(q) /\ Two(q.todo, VerifyIt, Call("readUser", None))
         /\ WasMailed(account[q.scope].code)
      \/ /\ EditPoint(q)
         /\ Three(q.todo, UnverifyIt, Call("saveUser", None), Call("readEdited", None))
         /\ q.op = "UpdateUser" /\ ~q.found.verified /\ EditOf(q.found, account[q.scope])
  <2>1. VerifyPoint(q) \/ EditPoint(q)
    BY <1>1, HandledFacts, PointHeads DEF Handled, Point, PlainCalls
  <2>2. CASE VerifyPoint(q)
    BY <1>1, <2>2, CallParts, CallFields DEF VerifyPoint
  <2>3. CASE EditPoint(q)
    BY <1>1, <2>3, CallParts, CallFields DEF EditPoint
  <2>4. QED
    BY <2>1, <2>2, <2>3
<1>3. Facts({}, {}, {})
  <2>1. CASE EditPoint(q)
    BY <1>1, <2>1, CallParts, CallFields DEF EditPoint
  <2>2. QED
    BY <1>2, <2>1 DEF VerifyPoint
<1>4. PICK u : u = q.scope
  OBVIOUS
<1>5. u \in Users /\ nextId <= nextId'
  BY <1>1, <1>4, NextCall, HandledFacts
     DEF Handled, MFAInv, HeadReady, NeedsRow, RowCalls, RowOf, Registered
<1>6. CASE ~account[u].enabled
  <2>1. Answer(r, "refused") /\ Calm
    BY <1>1, <1>4, <1>6 DEF SetUserVerification, UpdateColumns, Calm
  <2>2. Facts({}, {}, {})'
    BY <1>3, <2>1, CalmFacts
  <2>3. QED
    BY <2>1, <2>2, AnswerSettles DEF Replies
<1>7. ASSUME account[u].enabled, NEW v \in BOOLEAN, v = Arg(r)
      PROVE  LET row == [account[u] EXCEPT !.verified = v]
             IN  /\ account' = [account EXCEPT ![u] = row] /\ Done(r)
                 /\ RowFits(u, row) /\ row.verified = v
                 /\ row.subject = account[u].subject /\ row.enabled = account[u].enabled
                 /\ row.code = account[u].code /\ row.reset = account[u].reset
                 /\ row.mfa = account[u].mfa /\ row.secret = account[u].secret
                 /\ row.email = account[u].email /\ row.password = account[u].password
                 /\ Undisturbed /\ SMTPEnabled => ReachedOnly(row)
                 /\ row.reset = 0 \/ (Undisturbed => row.reset \notin Range(accepted))
  <2>1. PICK row : row = [account[u] EXCEPT !.verified = v]
    OBVIOUS
  <2>2. account' = [account EXCEPT ![u] = row] /\ Done(r)
    BY <1>4, <1>7, <2>1 DEF SetUserVerification, UpdateColumns
  <2>3. account[u] \in AccountRow
    BY <1>5, <1>7, RegisteredRow DEF Handled, MFAInv, AccountsInv
  <2>4. /\ row.verified = v
        /\ row.subject = account[u].subject /\ row.enabled = account[u].enabled
        /\ row.code = account[u].code /\ row.reset = account[u].reset
        /\ row.mfa = account[u].mfa /\ row.secret = account[u].secret
        /\ row.email = account[u].email /\ row.password = account[u].password
    BY <2>1, <2>3 DEF AccountRow
  <2>5. RowFits(u, row)
    BY <1>3, <1>5, <2>4, AlikeRow
  <2>6. /\ Undisturbed /\ SMTPEnabled => ReachedOnly(row)
        /\ row.reset = 0 \/ (Undisturbed => row.reset \notin Range(accepted))
    BY <1>3, <1>5, <2>4, AlikeReached
  <2>7. QED
    BY <2>1, <2>2, <2>4, <2>5, <2>6
<1>8. CASE account[u].enabled /\ VerifyPoint(q) /\ Two(q.todo, VerifyIt, Call("readUser", None))
           /\ WasMailed(account[q.scope].code)
  <2>1. Arg(r) = TRUE
    BY <1>8, CallParts, CallFields DEF Arg
  <2>2. PICK row : /\ account' = [account EXCEPT ![u] = row] /\ Done(r)
                   /\ RowFits(u, row) /\ row.code = account[u].code /\ row.email = account[u].email
                   /\ Undisturbed /\ SMTPEnabled => ReachedOnly(row)
                   /\ row.reset = 0 \/ (Undisturbed => row.reset \notin Range(accepted))
    BY <1>7, <1>8, <2>1
  <2>3. ASSUME ReachedOnly(row)
        PROVE  Verifies(row)
    <3>1. PICK m \in sent : m.kind = "verify" /\ m.code = row.code
      BY <1>4, <1>8, <2>2 DEF WasMailed
    <3>2. m.to = row.email
      BY <2>3, <3>1 DEF ReachedOnly
    <3>3. m = [kind |-> "verify", code |-> row.code, to |-> row.email]
      BY <3>1, <3>2 DEF Handled, MFAInv, AccountsInv, TablesFit
    <3>4. QED
      BY <3>1, <3>3 DEF Verifies, Mailed
  <2>4. Facts({}, {}, {})'
    BY <1>1, <1>3, <1>5, <2>2, <2>3, RowSaved
  <2>5. Tail(q.todo) # <<>> /\ One(Tail(q.todo), Call("readUser", None))
    BY <1>8, CallParts
  <2>6. Pending(r)' /\ req'[r].todo = Tail(q.todo)
    BY <2>2, <2>5, CallMade
  <2>7. Plain(req'[r].todo)
    BY <2>5, <2>6, OnePlain, CallFields DEF PlainCalls
  <2>8. PlainPoint(req[r])'
    BY <2>4, <2>7 DEF PlainPoint, Plain
  <2>9. QED
    BY <2>6, <2>8 DEF Settled, Point
<1>9. CASE /\ EditPoint(q)
           /\ Three(q.todo, UnverifyIt, Call("saveUser", None), Call("readEdited", None))
           /\ q.op = "UpdateUser" /\ ~q.found.verified /\ EditOf(q.found, account[q.scope])
  <2>1. Arg(r) = FALSE /\ account[u].enabled
    BY <1>4, <1>9, CallParts, CallFields DEF Arg, EditOf
  <2>2. PICK row : /\ account' = [account EXCEPT ![u] = row] /\ Done(r)
                   /\ RowFits(u, row) /\ ~row.verified
                   /\ row.subject = account[u].subject /\ row.enabled = account[u].enabled
                   /\ row.code = account[u].code /\ row.reset = account[u].reset
                   /\ row.mfa = account[u].mfa /\ row.secret = account[u].secret
                   /\ row.email = account[u].email /\ row.password = account[u].password
                   /\ Undisturbed /\ SMTPEnabled => ReachedOnly(row)
                   /\ row.reset = 0 \/ (Undisturbed => row.reset \notin Range(accepted))
    BY <1>7, <2>1
  <2>3. Facts({}, {}, {})'
    <3>1. Verifies(row)
      BY <2>2 DEF Verifies
    <3>2. QED
      BY <1>1, <1>3, <1>5, <2>2, <3>1, RowSaved
  <2>4. /\ Tail(q.todo) # <<>>
        /\ Two(Tail(q.todo), Call("saveUser", None), Call("readEdited", None))
    BY <1>9, CallParts
  <2>5. /\ Pending(r)' /\ req'[r].op = q.op /\ req'[r].scope = q.scope
        /\ req'[r].found = q.found /\ req'[r].todo = Tail(q.todo)
    BY <2>2, <2>4, CallMade
  <2>6. account'[u] = row
    BY <1>5, <2>2 DEF Handled, MFAInv, AccountsInv, TablesFit
  <2>7. EditOf(q.found, row)
    BY <1>4, <1>9, <2>2 DEF EditOf, Copies
  <2>8. EditOf(req[r].found, account[req[r].scope])'
    BY <1>4, <2>5, <2>6, <2>7 DEF EditOf, Copies
  <2>9. EditPoint(req[r])'
    BY <1>9, <2>3, <2>4, <2>5, <2>8 DEF EditPoint
  <2>10. QED
    BY <2>5, <2>9 DEF Settled, Point
<1>10. QED
  BY <1>2, <1>6, <1>8, <1>9

\* A new code is made for the account, which is owed mail about it.
LEMMA NewCodeSettles ==
    ASSUME NEW r \in Requests, Handled(r), GenerateRandomVerificationCodeForUser(r),
           UNCHANGED recovery
    PROVE  Settled(r)
<1> DEFINE q == req[r]
<1>1. Head(q.todo).do = "newCode" /\ UNCHANGED <<sent, accepted, recovery>>
  BY DEF GenerateRandomVerificationCodeForUser, At
<1>2. PICK u, y : u = q.scope /\ y = q.found
  OBVIOUS
<1>3. \/ /\ Three(q.todo, Call("newCode", None), Call("readUser", None), Call("mailCode", None))
         /\ SendPoint(q) /\ Facts({}, {}, {})
      \/ /\ Two(q.todo, Call("newCode", None), Call("mailCode", None))
         /\ account[u].enabled /\ y.email = account[u].email /\ Facts({}, {u}, {})
  <2>1. SendPoint(q) \/ EditPoint(q)
    BY <1>1, HandledFacts, PointHeads DEF Handled, Point, PlainCalls
  <2>2. CASE SendPoint(q)
    BY <1>1, <2>2, CallParts, CallFields DEF SendPoint
  <2>3. CASE EditPoint(q)
    BY <1>1, <1>2, <2>3, CallParts, CallFields DEF EditPoint
  <2>4. QED
    BY <2>1, <2>2, <2>3
<1>4. u \in Users /\ y \in AccountRow
  BY <1>1, <1>2, NextCall
     DEF Handled, MFAInv, HeadReady, NeedsRow, RowCalls, RowOf, Registered
<1>5. CASE ~account[u].enabled
  <2>1. Answer(r, "refused") /\ Calm
    BY <1>1, <1>2, <1>5 DEF GenerateRandomVerificationCodeForUser, Calm
  <2>2. Facts({}, {}, {})'
    BY <1>3, <1>5, <2>1, CalmFacts
  <2>3. QED
    BY <2>1, <2>2, AnswerSettles DEF Replies
<1>6. CASE account[u].enabled
  <2>1. PICK row, x : /\ row = [account[u] EXCEPT !.code = nextId + 1]
                      /\ x = [y EXCEPT !.code = nextId + 1]
    OBVIOUS
  <2>2. /\ account' = [account EXCEPT ![u] = row] /\ Remember(r, x) /\ nextId' = nextId + 1
    BY <1>2, <1>6, <2>1 DEF GenerateRandomVerificationCodeForUser
  <2>3. MFAInv /\ MFAInv' /\ (Undisturbed' => Undisturbed) /\ nextId \in Nat
    BY HandledFacts
  <2>4. account[u] \in AccountRow
    BY <1>4, <1>6, RegisteredRow DEF Handled, MFAInv, AccountsInv
  <2>5. PICK n : n = nextId + 1
    OBVIOUS
  <2>6. /\ row.code = n
        /\ row.subject = account[u].subject /\ row.enabled = account[u].enabled
        /\ row.reset = account[u].reset
        /\ row.mfa = account[u].mfa /\ row.secret = account[u].secret
        /\ row.email = account[u].email
        /\ x.code = n /\ x.email = y.email
    BY <1>4, <2>1, <2>4, <2>5 DEF AccountRow
  <2>7. PICK B : Facts({}, B, {}) /\ B \subseteq {u}
    BY <1>3
  <2>8. n \in Nat /\ nextId < n /\ nextId <= nextId'
    BY <2>2, <2>3, <2>5
  <2>9. /\ \A v \in Users : account[v].code # n
        /\ \A m \in sent : m.code # n
    BY <2>3, <2>7, <2>8, FreshCode
  <2>10. RowFits(u, row)
    BY <1>4, <2>6, <2>7, <2>9
       DEF RowFits, Facts, OneAccountPerSubject, MFAKeepsASecret, CodesOfTheSecret, CodesDiffer
  <2>11. ReachedOnly(row)
    BY <2>6, <2>9 DEF ReachedOnly
  <2>12. row.reset = 0 \/ (Undisturbed => row.reset \notin Range(accepted))
    BY <1>4, <2>6, <2>7 DEF Facts, NoneTwice
  <2>13. Facts({u}, {}, {})'
    <3>1. PICK A, X : A = {} /\ X = {u}
      OBVIOUS
    <3>2. Facts(A, B, A) /\ A \subseteq {u} /\ B \subseteq {u} /\ u \in X
      BY <2>7, <3>1
    <3>3. account' = [account EXCEPT ![u] = row]
      BY <2>2
    <3>4. Facts(X, A, A)'
      BY <1>1, <1>4, <2>3, <2>8, <2>10, <2>11, <2>12, <3>2, <3>3, RowFacts
    <3>5. QED
      BY <3>1, <3>4 DEF Facts
  <2>14. account'[u] = row
    BY <1>4, <2>2 DEF Handled, MFAInv, AccountsInv, TablesFit
  <2>15. ASSUME Tail(q.todo) # <<>>
         PROVE  /\ Pending(r)' /\ req'[r].scope = u /\ req'[r].found = x
                /\ req'[r].todo = Tail(q.todo)
    BY <1>2, <2>2, <2>15, CallMade
  <2>16. CASE Three(q.todo, Call("newCode", None), Call("readUser", None), Call("mailCode", None))
    <3>1. Tail(q.todo) # <<>> /\ Two(Tail(q.todo), Call("readUser", None), Call("mailCode", None))
      BY <2>16, CallParts
    <3>2. SendPoint(req[r])'
      BY <1>6, <2>6, <2>13, <2>14, <2>15, <3>1 DEF SendPoint
    <3>3. QED
      BY <2>15, <3>1, <3>2 DEF Settled, Point
  <2>17. CASE /\ Two(q.todo, Call("newCode", None), Call("mailCode", None))
              /\ y.email = account[u].email
    <3>1. Tail(q.todo) # <<>> /\ One(Tail(q.todo), Call("mailCode", None))
      BY <2>17, CallParts
    <3>2. MailPoint(req[r])'
      BY <2>6, <2>13, <2>14, <2>15, <2>17, <3>1 DEF MailPoint
    <3>3. QED
      BY <2>15, <3>1, <3>2 DEF Settled, Point
  <2>18. QED
    BY <1>3, <2>16, <2>17
<1>7. QED
  BY <1>5, <1>6

\* A new reset code is made, before a reset and after one.
LEMMA NewResetSettles ==
    ASSUME NEW r \in Requests, Handled(r), NewResetCode(r), UNCHANGED recovery
    PROVE  Settled(r)
<1> DEFINE q == req[r]
<1>1. /\ Head(q.todo).do = "newReset" /\ UNCHANGED <<sent, accepted, recovery>>
      /\ nextId' = nextId + 1
  BY DEF NewResetCode, At
<1>2. PICK u : u = q.scope
  OBVIOUS
<1>3. \/ PlainPoint(q)
      \/ /\ Two(q.todo, Call("newReset", None), CloseIt)
         /\ account[u].enabled /\ Facts({}, {}, {u})
  <2>1. PlainPoint(q) \/ ResetPoint(q)
    BY <1>1, HandledFacts, PointHeads DEF Handled, Point
  <2>2. CASE ResetPoint(q)
    BY <1>1, <1>2, <2>2, CallParts, CallFields DEF ResetPoint
  <2>3. QED
    BY <2>1, <2>2
<1>4. u \in Users
  BY <1>1, <1>2, NextCall
     DEF Handled, MFAInv, HeadReady, NeedsRow, RowCalls, RowOf, Registered
<1>5. /\ MFAInv /\ MFAInv' /\ (Undisturbed' => Undisturbed) /\ nextId \in Nat /\ nextId <= nextId'
  BY <1>1, HandledFacts
<1>6. PICK row : row = [account[u] EXCEPT !.reset = nextId + 1]
  OBVIOUS
<1>7. UpdateColumns(r, row)
  BY <1>2, <1>6 DEF NewResetCode
<1>8. CASE ~account[u].enabled
  <2>1. Answer(r, "refused") /\ UNCHANGED account
    BY <1>2, <1>7, <1>8 DEF UpdateColumns
  <2>2. Facts({}, {}, {})
    BY <1>3, <1>8 DEF PlainPoint
  <2>3. Facts({}, {}, {})'
    BY <1>1, <1>5, <2>1, <2>2, SameFacts
  <2>4. QED
    BY <2>1, <2>3, AnswerSettles DEF Replies
<1>9. CASE account[u].enabled
  <2>1. account' = [account EXCEPT ![u] = row] /\ Done(r)
    BY <1>2, <1>7, <1>9 DEF UpdateColumns
  <2>2. account[u] \in AccountRow
    BY <1>4, <1>9, RegisteredRow DEF Handled, MFAInv, AccountsInv
  <2>3. PICK n : n = nextId + 1
    OBVIOUS
  <2>4. /\ row.reset = n
        /\ row.subject = account[u].subject /\ row.enabled = account[u].enabled
        /\ row.code = account[u].code
        /\ row.mfa = account[u].mfa /\ row.secret = account[u].secret
        /\ row.email = account[u].email /\ row.verified = account[u].verified
        /\ row.password = account[u].password
    BY <1>6, <2>2, <2>3 DEF AccountRow
  <2>5. PICK C : Facts({}, {}, C) /\ C \subseteq {u}
    BY <1>3 DEF PlainPoint
  <2>6. n \in Nat /\ nextId < n
    BY <1>5, <2>3
  <2>7. /\ \A v \in Users : account[v].reset # n
        /\ \A c \in recovery : c.id # n
        /\ n \notin Range(accepted)
    BY <1>5, <2>5, <2>6, FreshCode
  <2>8. RowFits(u, row)
    BY <1>4, <2>4, <2>5, <2>7
       DEF RowFits, Facts, OneAccountPerSubject, MFAKeepsASecret, CodesOfTheSecret, CodesDiffer
  <2>9. Undisturbed /\ SMTPEnabled => Verifies(row) /\ ReachedOnly(row)
    BY <1>4, <2>4, <2>5 DEF Facts, CodesReached, Verifies, ReachedOnly, Mailed
  <2>10. Facts({}, {}, {})'
    <3>1. PICK A : A = {}
      OBVIOUS
    <3>2. Facts(A, A, C) /\ A \subseteq {u} /\ C \subseteq {u}
      BY <2>5, <3>1
    <3>3. account' = [account EXCEPT ![u] = row] /\ row.reset \notin Range(accepted)
      BY <2>1, <2>4, <2>7
    <3>4. Facts(A, A, A)'
      BY <1>1, <1>4, <1>5, <2>8, <2>9, <3>2, <3>3, RowFacts
    <3>5. QED
      BY <3>1, <3>4 DEF Facts
  <2>11. CASE PlainPoint(q)
    BY <2>1, <2>10, <2>11, PlainCall
  <2>12. CASE Two(q.todo, Call("newReset", None), CloseIt)
    <3>1. Tail(q.todo) # <<>> /\ One(Tail(q.todo), CloseIt)
      BY <2>12, CallParts
    <3>2. Pending(r)' /\ req'[r].todo = Tail(q.todo)
      BY <2>1, <3>1, CallMade
    <3>3. Plain(req'[r].todo)
      BY <3>1, <3>2, OnePlain, CallFields DEF PlainCalls
    <3>4. PlainPoint(req[r])'
      BY <2>10, <3>3 DEF PlainPoint, Plain
    <3>5. QED
      BY <3>2, <3>4 DEF Settled, Point
  <2>13. QED
    BY <1>3, <2>11, <2>12
<1>10. QED
  BY <1>8, <1>9

\* When a reset code expires is written.
LEMMA ExpirationSettles ==
    ASSUME NEW r \in Requests, Handled(r), NewResetExpiration(r), UNCHANGED recovery
    PROVE  Settled(r)
<1> DEFINE q == req[r]
<1>1. Head(q.todo).do = "setOpen" /\ UNCHANGED <<sent, accepted, recovery, nextId>>
  BY DEF NewResetExpiration, At
<1>2. PICK u, row : u = q.scope /\ row = [account[u] EXCEPT !.open = Arg(r)]
  OBVIOUS
<1>3. PlainPoint(q)
  BY <1>1, HandledFacts, PointHeads DEF Handled, Point, PlainCalls
<1>4. u \in Users
  BY <1>1, <1>2, NextCall
     DEF Handled, MFAInv, HeadReady, NeedsRow, RowCalls, RowOf, Registered
<1>5. UpdateColumns(r, row) /\ Facts({}, {}, {}) /\ nextId <= nextId'
  BY <1>1, <1>2, <1>3, HandledFacts DEF NewResetExpiration, PlainPoint
<1>6. CASE ~account[u].enabled
  <2>1. Answer(r, "refused") /\ Calm
    BY <1>1, <1>2, <1>5, <1>6 DEF UpdateColumns, Calm
  <2>2. Facts({}, {}, {})'
    BY <1>5, <2>1, CalmFacts
  <2>3. QED
    BY <2>1, <2>2, AnswerSettles DEF Replies
<1>7. CASE account[u].enabled
  <2>1. account' = [account EXCEPT ![u] = row] /\ Done(r)
    BY <1>2, <1>5, <1>7 DEF UpdateColumns
  <2>2. account[u] \in AccountRow
    BY <1>4, <1>7, RegisteredRow DEF Handled, MFAInv, AccountsInv
  <2>3. /\ row.subject = account[u].subject /\ row.enabled = account[u].enabled
        /\ row.code = account[u].code /\ row.reset = account[u].reset
        /\ row.mfa = account[u].mfa /\ row.secret = account[u].secret
        /\ row.email = account[u].email /\ row.verified = account[u].verified
        /\ row.password = account[u].password
    BY <1>2, <2>2 DEF AccountRow
  <2>4. RowFits(u, row)
    BY <1>4, <1>5, <2>3, AlikeRow
  <2>5. /\ Undisturbed /\ SMTPEnabled => Verifies(row) /\ ReachedOnly(row)
        /\ row.reset = 0 \/ (Undisturbed => row.reset \notin Range(accepted))
    BY <1>4, <1>5, <2>3, AlikeReached
  <2>6. Facts({}, {}, {})'
    BY <1>1, <1>4, <1>5, <2>1, <2>4, <2>5, RowSaved
  <2>7. QED
    BY <1>3, <2>1, <2>6, PlainCall
<1>8. QED
  BY <1>6, <1>7

\* Save writes the row the handler has changed.
LEMMA SaveSettles ==
    ASSUME NEW r \in Requests, Handled(r), UpdateUserInDB(r), UNCHANGED recovery
    PROVE  Settled(r)
<1> DEFINE q == req[r]
<1>1. Head(q.todo).do = "saveUser" /\ UNCHANGED <<sent, nextId, recovery>>
  BY DEF UpdateUserInDB, At
<1>2. PICK u, x : u = q.scope /\ x = q.found
  OBVIOUS
<1>3. /\ Facts({}, {}, {})
      /\ \/ /\ Two(q.todo, Call("saveUser", None), Call("readEdited", None))
            /\ q.op = "UpdateUser" /\ EditOf(x, account[u])
         \/ /\ One(q.todo, Call("saveUser", None))
            /\ q.op = "APIDeleteUser" /\ DisableOf(x, account[u])
         \/ /\ Three(q.todo, Call("saveUser", None), Call("newReset", None), CloseIt)
            /\ q.op = "APIChangePassword" /\ ResetOf(x, account[u])
  <2>1. EditPoint(q) \/ DisablePoint(q) \/ ResetPoint(q)
    BY <1>1, HandledFacts, PointHeads DEF Handled, Point, PlainCalls
  <2>2. CASE EditPoint(q)
    BY <1>1, <1>2, <2>2, CallParts, CallFields DEF EditPoint
  <2>3. CASE DisablePoint(q)
    BY <1>1, <1>2, <2>3, CallParts, CallFields DEF DisablePoint
  <2>4. CASE ResetPoint(q)
    BY <1>1, <1>2, <2>4, CallParts, CallFields DEF ResetPoint
  <2>5. QED
    BY <2>1, <2>2, <2>3, <2>4
<1>4. /\ u \in Users /\ nextId <= nextId'
      /\ MFAInv /\ MFAInv' /\ (Undisturbed' => Undisturbed)
  BY <1>1, <1>2, NextCall, HandledFacts
     DEF Handled, MFAInv, HeadReady, NeedsRow, RowCalls, RowOf, Registered
<1>5. CASE Answer(r, "refused") /\ UNCHANGED <<account, accepted>>
  <2>1. Facts({}, {}, {})'
    BY <1>1, <1>3, <1>5, CalmFacts DEF Calm
  <2>2. QED
    BY <1>5, <2>1, AnswerSettles DEF Replies
<1>6. CASE account' = [account EXCEPT ![u] = x] /\ Done(r)
           /\ accepted' = IF q.op = "APIChangePassword" THEN Append(accepted, x.reset) ELSE accepted
  <2>1. account' = [account EXCEPT ![u] = x] /\ account'[u] = x
    BY <1>4, <1>6 DEF MFAInv, AccountsInv, TablesFit
  <2>2. ASSUME Tail(q.todo) # <<>>
        PROVE  /\ Pending(r)' /\ req'[r].op = q.op /\ req'[r].scope = u
               /\ req'[r].found = x /\ req'[r].todo = Tail(q.todo)
    BY <1>2, <1>6, <2>2, CallMade
  <2>3. CASE /\ Two(q.todo, Call("saveUser", None), Call("readEdited", None))
             /\ q.op = "UpdateUser" /\ EditOf(x, account[u])
    <3>1. UNCHANGED accepted
      BY <1>6, <2>3
    <3>2. RowFits(u, x)
      BY <1>3, <1>4, <2>3, AlikeRow DEF EditOf, Copies
    <3>3. /\ Undisturbed /\ SMTPEnabled /\ x.email = account[u].email => ReachedOnly(x)
          /\ x.reset = 0 \/ (Undisturbed => x.reset \notin Range(accepted))
      BY <1>3, <1>4, <2>3
         DEF EditOf, Copies, Facts, CodesReached, NoneTwice, ReachedOnly
    <3>4. Undisturbed /\ SMTPEnabled => Verifies(x)
      BY <1>3, <1>4, <2>3 DEF EditOf, Copies, Facts, CodesReached, Verifies, Mailed
    <3>5. PICK A, Y : A = {} /\ Y = IF x.email = account[u].email THEN {} ELSE {u}
      OBVIOUS
    <3>6. Facts(A, A, A) /\ A \subseteq {u}
      BY <1>3, <3>5
    <3>7. Undisturbed /\ SMTPEnabled => u \in Y \/ ReachedOnly(x)
      BY <3>3, <3>5
    <3>8. Facts(A, Y, A)'
      BY <1>1, <1>4, <2>1, <3>1, <3>2, <3>3, <3>4, <3>6, <3>7, RowFacts
    <3>9. Facts({}, {}, {})' \/ (~x.verified /\ Facts({}, {u}, {})')
      BY <2>3, <3>5, <3>8 DEF EditOf, Facts
    <3>10. Tail(q.todo) # <<>> /\ One(Tail(q.todo), Call("readEdited", None))
      BY <2>3, CallParts
    <3>11. account'[req'[r].scope] = x /\ x.enabled
      BY <2>1, <2>2, <2>3, <3>10 DEF EditOf
    <3>12. EditPoint(req[r])'
      BY <2>2, <3>9, <3>10, <3>11 DEF EditPoint
    <3>13. QED
      BY <2>2, <3>10, <3>12 DEF Settled, Point
  <2>4. CASE /\ One(q.todo, Call("saveUser", None))
             /\ q.op = "APIDeleteUser" /\ DisableOf(x, account[u])
    <3>1. UNCHANGED accepted
      BY <1>6, <2>4
    <3>2. RowFits(u, x)
      BY <1>3, <1>4, <2>4, AlikeRow DEF DisableOf, Copies
    <3>3. /\ Undisturbed /\ SMTPEnabled => Verifies(x) /\ ReachedOnly(x)
          /\ x.reset = 0 \/ (Undisturbed => x.reset \notin Range(accepted))
      BY <1>3, <1>4, <2>4, AlikeReached DEF DisableOf, Copies
    <3>4. Facts({}, {}, {})'
      BY <1>1, <1>3, <1>4, <2>1, <3>1, <3>2, <3>3, RowSaved
    <3>5. Over(req'[r])
      BY <1>6, <2>4, CallParts, CallMade
    <3>6. QED
      BY <3>4, <3>5, OverSettles
  <2>5. CASE /\ Three(q.todo, Call("saveUser", None), Call("newReset", None), CloseIt)
             /\ q.op = "APIChangePassword" /\ ResetOf(x, account[u])
    <3>1. accepted' = Append(accepted, x.reset)
      BY <1>6, <2>5
    <3>2. Facts({}, {}, {u})'
      BY <1>1, <1>3, <1>4, <2>1, <2>5, <3>1, ResetFacts
    <3>3. Tail(q.todo) # <<>> /\ Two(Tail(q.todo), Call("newReset", None), CloseIt)
      BY <2>5, CallParts
    <3>4. account'[req'[r].scope] = x /\ x.enabled
      BY <2>1, <2>2, <2>5, <3>3 DEF ResetOf
    <3>5. ResetPoint(req[r])'
      BY <2>2, <3>2, <3>3, <3>4 DEF ResetPoint
    <3>6. QED
      BY <2>2, <3>3, <3>5 DEF Settled, Point
  <2>6. QED
    BY <1>3, <2>3, <2>4, <2>5
<1>7. QED
  BY <1>2, <1>5, <1>6 DEF UpdateUserInDB

\* A row with another secret and no second factor, or with none at all, fits.
LEMMA FactorlessFits ==
    ASSUME NEW A, NEW B, NEW C, Facts(A, B, C), NEW u \in Users, NEW row, ~row.mfa,
           row.enabled = account[u].enabled, row.subject = account[u].subject,
           row.code = account[u].code, row.reset = account[u].reset
    PROVE  RowFits(u, row)
<1>1. row.enabled /\ row.subject # None =>
        \A v \in Users \ {u} : account[v].enabled => account[v].subject # row.subject
  BY DEF Facts, OneAccountPerSubject
<1>2. /\ \A v \in Users \ {u} : row.code = account[v].code => row.code = 0
      /\ \A v \in Users \ {u} : row.reset = account[v].reset => row.reset = 0
      /\ \A c \in recovery : row.reset # c.id
  BY DEF Facts, CodesDiffer
<1>3. QED
  BY <1>1, <1>2 DEF RowFits

\* The columns of the second factor are written where nobody is an exception.
LEMMA FactorSaved ==
    ASSUME NEW r \in Requests, Handled(r), Facts({}, {}, {}), NEW u \in Users,
           account[u].enabled, NEW secret, NEW mfa,
           LET row == WithFactor(account[u], secret, mfa)
           IN  account' = [account EXCEPT ![u] = row] /\ (~mfa \/ RowFits(u, row)),
           nextId <= nextId', UNCHANGED <<sent, accepted, recovery>>
    PROVE  Facts({}, {}, {})'
<1>1. PICK row : row = WithFactor(account[u], secret, mfa)
  OBVIOUS
<1>2. account[u] \in AccountRow
  BY RegisteredRow DEF Handled, MFAInv, AccountsInv
<1>3. /\ row.subject = account[u].subject /\ row.enabled = account[u].enabled
      /\ row.code = account[u].code /\ row.reset = account[u].reset
      /\ row.mfa = mfa /\ row.secret = secret
      /\ row.email = account[u].email /\ row.verified = account[u].verified
      /\ row.password = account[u].password
  BY <1>1, <1>2 DEF WithFactor, AccountRow
<1>4. account' = [account EXCEPT ![u] = row] /\ (~mfa \/ RowFits(u, row))
  BY <1>1
<1>5. RowFits(u, row)
  BY <1>3, <1>4, FactorlessFits
<1>6. /\ Undisturbed /\ SMTPEnabled => Verifies(row) /\ ReachedOnly(row)
      /\ row.reset = 0 \/ (Undisturbed => row.reset \notin Range(accepted))
  BY <1>3, AlikeReached
<1>7. QED
  BY <1>4, <1>5, <1>6, RowSaved

\* A new secret is pending, and the factor off, or both are removed.
LEMMA FactorOffSettles ==
    ASSUME NEW r \in Requests, Handled(r), SetUserPendingMFASecret(r) \/ DisableUserMFA(r)
    PROVE  Settled(r)
<1> DEFINE q == req[r]
<1>1. /\ Head(q.todo).do \in {"setSecret", "clearMFA"}
      /\ UNCHANGED <<sent, accepted, recovery>>
  BY DEF SetUserPendingMFASecret, DisableUserMFA, At
<1>2. PlainPoint(q)
  BY <1>1, HandledFacts, PointHeads DEF Handled, Point
<1>3. PICK u : u = q.scope
  OBVIOUS
<1>4. u \in Users
  BY <1>1, <1>3, NextCall DEF Handled, MFAInv, ScopedCalls
<1>5. /\ Facts({}, {}, {}) /\ MFAInv /\ MFAInv' /\ (Undisturbed' => Undisturbed)
      /\ nextId \in Nat
  BY <1>2, HandledFacts DEF PlainPoint
<1>6. CASE SetUserPendingMFASecret(r)
  <2>1. PICK n, row : n = nextId + 1 /\ row = WithFactor(account[u], n, FALSE)
    OBVIOUS
  <2>2. UpdateColumns(r, row) /\ nextId' = n
    BY <1>3, <1>6, <2>1 DEF SetUserPendingMFASecret, WithFactor
  <2>3. nextId <= nextId'
    BY <1>5, <2>1, <2>2
  <2>4. CASE ~account[u].enabled
    <3>1. Answer(r, "refused") /\ UNCHANGED account
      BY <1>3, <2>2, <2>4 DEF UpdateColumns
    <3>2. Facts({}, {}, {})'
      BY <1>1, <1>5, <2>3, <3>1, SameFacts
    <3>3. QED
      BY <3>1, <3>2, AnswerSettles DEF Replies
  <2>5. CASE account[u].enabled
    <3>1. account' = [account EXCEPT ![u] = row] /\ Done(r)
      BY <1>3, <2>2, <2>5 DEF UpdateColumns
    <3>2. Facts({}, {}, {})'
      BY <1>1, <1>4, <1>5, <2>1, <2>3, <2>5, <3>1, FactorSaved
    <3>3. QED
      BY <1>2, <3>1, <3>2, PlainCall
  <2>6. QED
    BY <2>4, <2>5
<1>7. CASE DisableUserMFA(r)
  <2>1. PICK row : row = WithFactor(account[u], 0, FALSE)
    OBVIOUS
  <2>2. /\ account' = [account EXCEPT ![u] = IF account[u].enabled THEN row ELSE account[u]]
        /\ Done(r) /\ nextId' = nextId /\ nextId <= nextId'
    BY <1>3, <1>5, <1>7, <2>1 DEF DisableUserMFA, WithoutMFA, WithFactor
  <2>3. Facts({}, {}, {})'
    <3>1. CASE account[u].enabled
      BY <1>1, <1>4, <1>5, <2>1, <2>2, <3>1, FactorSaved
    <3>2. CASE ~account[u].enabled
      <4>1. account' = account
        BY <1>4, <2>2, <3>2 DEF Handled, MFAInv, AccountsInv, TablesFit
      <4>2. QED
        BY <1>1, <1>5, <2>2, <4>1, SameFacts
    <3>3. QED
      BY <3>1, <3>2
  <2>4. QED
    BY <1>2, <2>2, <2>3, PlainCall
<1>8. QED
  BY <1>6, <1>7

\* Recovery codes may go where nobody is an exception.
LEMMA CodesGo ==
    ASSUME NEW r \in Requests, Handled(r), Facts({}, {}, {}), recovery' \subseteq recovery,
           UNCHANGED <<account, sent, accepted, nextId>>
    PROVE  Facts({}, {}, {})'
<1>1. MFAInv /\ MFAInv' /\ (Undisturbed' => Undisturbed) /\ nextId \in Nat /\ nextId <= nextId'
  BY HandledFacts
<1>2. CASE recovery = {}
  BY <1>1, <1>2, SameFacts
<1>3. ASSUME NEW c \in recovery
      PROVE  Facts({}, {}, {})'
  <2>1. c.user \in Users
    BY DEF Handled, MFAInv, RecoveryFits, Registered
  <2>2. PICK X : X = {}
    OBVIOUS
  <2>3. /\ recovery' \subseteq recovery \cup X
        /\ \A d \in X : d.id \in nextId + 1..nextId' /\ d.user = c.user
        /\ X # {} => ~account[c.user].mfa
    BY <1>1, <2>2
  <2>4. QED
    BY <1>1, <2>1, <2>3, RecoveryFacts
<1>4. QED
  BY <1>2, <1>3

\* The codes of an earlier secret are removed.
LEMMA ClearSettles ==
    ASSUME NEW r \in Requests, Handled(r), ClearUserRecoveryCodes(r)
    PROVE  Settled(r)
<1> DEFINE q == req[r]
<1>1. /\ Head(q.todo).do = "clearCodes" /\ Done(r)
      /\ UNCHANGED <<account, sent, accepted, nextId>>
      /\ recovery' = {c \in recovery : c.user # q.scope}
  BY DEF ClearUserRecoveryCodes, At, accountTables
<1>2. PlainPoint(q) \/ ActivatePoint(q)
  BY <1>1, HandledFacts, PointHeads DEF Handled, Point
<1>3. Facts({}, {}, {})'
  BY <1>1, <1>2, CodesGo DEF PlainPoint, ActivatePoint
<1>4. CASE PlainPoint(q)
  BY <1>1, <1>3, <1>4, PlainCall
<1>5. CASE ActivatePoint(q)
  <2>1. /\ \/ Three(q.todo, Call("clearCodes", None), Call("storeCodes", None), Call("activate", None))
           \/ Two(q.todo, Call("clearCodes", None), Call("activate", None))
        /\ account[q.scope].secret # 0 /\ ~account[q.scope].mfa
        /\ q.found.secret = account[q.scope].secret
    BY <1>1, <1>5, CallParts, CallFields DEF ActivatePoint
  <2>2. /\ Tail(q.todo) # <<>>
        /\ \/ Two(Tail(q.todo), Call("storeCodes", None), Call("activate", None))
           \/ One(Tail(q.todo), Call("activate", None))
    BY <2>1, CallParts
  <2>3. /\ Pending(r)' /\ req'[r].op = q.op /\ req'[r].scope = q.scope
        /\ req'[r].found = q.found /\ req'[r].todo = Tail(q.todo)
    BY <1>1, <2>2, CallMade
  <2>4. \A c \in recovery' : c.user # q.scope
    BY <1>1
  <2>5. ActivatePoint(req[r])'
    BY <1>1, <1>3, <2>1, <2>2, <2>3, <2>4 DEF ActivatePoint
  <2>6. QED
    BY <2>3, <2>5 DEF Settled, Point
<1>6. QED
  BY <1>2, <1>4, <1>5

\* The codes of the secret are made before the factor counts.
LEMMA StoreSettles ==
    ASSUME NEW r \in Requests, Handled(r), StoreRecoveryCodes(r)
    PROVE  Settled(r)
<1> DEFINE q == req[r]
<1>1. /\ Head(q.todo).do = "storeCodes" /\ Done(r)
      /\ UNCHANGED <<account, sent, accepted>> /\ nextId' = nextId + RecoveryCodeCount
  BY DEF StoreRecoveryCodes, At
<1>2. PICK u, secret : u = q.scope /\ secret = q.found.secret
  OBVIOUS
<1>3. /\ Two(q.todo, Call("storeCodes", None), Call("activate", None))
      /\ \A c \in recovery : c.user # u
      /\ account[u].secret # 0 /\ ~account[u].mfa /\ secret = account[u].secret
      /\ Facts({}, {}, {})
  <2>1. ActivatePoint(q)
    BY <1>1, HandledFacts, PointHeads DEF Handled, Point, PlainCalls
  <2>2. QED
    BY <1>1, <1>2, <2>1, CallParts, CallFields DEF ActivatePoint
<1>4. PICK fresh :
        fresh = {[id |-> nextId + i, user |-> u, secret |-> secret, used |-> FALSE] :
                    i \in 1..RecoveryCodeCount}
  OBVIOUS
<1>5. recovery' = recovery \cup fresh
  BY <1>2, <1>4 DEF StoreRecoveryCodes
<1>6. /\ u \in Users /\ nextId \in Nat /\ nextId <= nextId'
      /\ MFAInv /\ MFAInv' /\ (Undisturbed' => Undisturbed)
  BY <1>1, <1>2, NextCall, HandledFacts, MFAAssumption DEF Handled, MFAInv, ScopedCalls
<1>7. ASSUME NEW c \in fresh
      PROVE  c.id \in nextId + 1..nextId' /\ c.user = u /\ c.secret = secret
  <2>1. PICK i \in 1..RecoveryCodeCount :
           c = [id |-> nextId + i, user |-> u, secret |-> secret, used |-> FALSE]
    BY <1>4
  <2>2. nextId + i \in nextId + 1..nextId'
    BY <1>1, <1>6, MFAAssumption
  <2>3. QED
    BY <2>1, <2>2
<1>8. Facts({}, {}, {})'
  BY <1>1, <1>3, <1>5, <1>6, <1>7, RecoveryFacts
<1>9. Tail(q.todo) # <<>> /\ One(Tail(q.todo), Call("activate", None))
  BY <1>3, CallParts
<1>10. Pending(r)' /\ req'[r].scope = u /\ req'[r].todo = Tail(q.todo)
  BY <1>1, <1>2, <1>9, CallMade
<1>11. \A c \in recovery' : c.user = u => c.secret = account[u].secret
  BY <1>3, <1>5, <1>7
<1>12. ActivatePoint(req[r])'
  BY <1>1, <1>3, <1>8, <1>9, <1>10, <1>11 DEF ActivatePoint
<1>13. QED
  BY <1>10, <1>12 DEF Settled, Point

\* The factor counts from now on: its secret and codes are there.
LEMMA ActivateSettles ==
    ASSUME NEW r \in Requests, Handled(r), ActivateUserMFA(r)
    PROVE  Settled(r)
<1> DEFINE q == req[r]
<1>1. Head(q.todo).do = "activate" /\ UNCHANGED <<sent, accepted, nextId, recovery>>
  BY DEF ActivateUserMFA, At
<1>2. PICK u : u = q.scope
  OBVIOUS
<1>3. /\ One(q.todo, Call("activate", None)) /\ account[u].secret # 0
      /\ \A c \in recovery : c.user = u => c.secret = account[u].secret
      /\ Facts({}, {}, {})
  <2>1. ActivatePoint(q)
    BY <1>1, HandledFacts, PointHeads DEF Handled, Point, PlainCalls
  <2>2. QED
    BY <1>1, <1>2, <2>1, CallParts, CallFields DEF ActivatePoint
<1>4. u \in Users /\ nextId <= nextId'
  BY <1>1, <1>2, NextCall, HandledFacts DEF Handled, MFAInv, ScopedCalls
<1>5. CASE ~account[u].enabled
  <2>1. Answer(r, "refused") /\ Calm
    BY <1>1, <1>2, <1>5 DEF ActivateUserMFA, UpdateColumns, Calm
  <2>2. Facts({}, {}, {})'
    BY <1>3, <2>1, CalmFacts
  <2>3. QED
    BY <2>1, <2>2, AnswerSettles DEF Replies
<1>6. CASE account[u].enabled
  <2>1. account[u] \in AccountRow
    BY <1>4, <1>6, RegisteredRow DEF Handled, MFAInv, AccountsInv
  <2>2. PICK secret, row : /\ secret = account[u].secret
                           /\ row = WithFactor(account[u], secret, TRUE)
    OBVIOUS
  <2>3. /\ row.subject = account[u].subject /\ row.enabled = account[u].enabled
        /\ row.code = account[u].code /\ row.reset = account[u].reset
        /\ row.secret = account[u].secret
    BY <2>1, <2>2 DEF WithFactor, AccountRow
  <2>4. RowFits(u, row)
    <3>1. row.enabled /\ row.subject # None =>
            \A v \in Users \ {u} : account[v].enabled => account[v].subject # row.subject
      BY <1>3, <1>4, <2>3 DEF Facts, OneAccountPerSubject
    <3>2. /\ \A v \in Users \ {u} : row.code = account[v].code => row.code = 0
          /\ \A v \in Users \ {u} : row.reset = account[v].reset => row.reset = 0
          /\ \A c \in recovery : row.reset # c.id
      BY <1>3, <1>4, <2>3 DEF Facts, CodesDiffer
    <3>3. QED
      BY <1>3, <2>3, <3>1, <3>2 DEF RowFits
  <2>5. row = [account[u] EXCEPT !.mfa = TRUE]
    BY <2>1, <2>2 DEF WithFactor, AccountRow
  <2>6. account' = [account EXCEPT ![u] = row] /\ Done(r)
    BY <1>2, <1>6, <2>5 DEF ActivateUserMFA, UpdateColumns
  <2>7. Facts({}, {}, {})'
    BY <1>1, <1>3, <1>4, <1>6, <2>2, <2>4, <2>6, FactorSaved
  <2>8. Over(req'[r])
    BY <1>3, <2>6, CallParts, CallMade
  <2>9. QED
    BY <2>7, <2>8, OverSettles
<1>7. QED
  BY <1>5, <1>6

\* A recovery code is marked that nobody has used in the meantime.
LEMMA MarkSettles ==
    ASSUME NEW r \in Requests, Handled(r), MarkRecoveryCodeUsed(r)
    PROVE  Settled(r)
<1> DEFINE q == req[r]
<1>1. Head(q.todo).do = "markUsed" /\ UNCHANGED <<account, sent, nextId>>
  BY DEF MarkRecoveryCodeUsed, At
<1>2. MarkPoint(q)
  BY <1>1, HandledFacts, PointHeads DEF Handled, Point, PlainCalls
<1>3. PICK v : v = Arg(r)
  OBVIOUS
<1>4. Facts({}, {}, {}) /\ Plain(Tail(q.todo)) /\ \E c \in recovery : c.id = v /\ ~c.used
  BY <1>2, <1>3 DEF MarkPoint, Arg
<1>5. /\ recovery' = {[c EXCEPT !.used = c.used \/ c.id = v] : c \in recovery}
      /\ accepted' = Append(accepted, v) /\ Done(r)
  BY <1>3, <1>4 DEF MarkRecoveryCodeUsed
<1>6. MFAInv /\ MFAInv' /\ (Undisturbed' => Undisturbed)
  BY HandledFacts
<1>7. Facts({}, {}, {})'
  BY <1>1, <1>4, <1>5, <1>6, UsedFacts
<1>8. CASE Tail(q.todo) = <<>>
  <2>1. Over(req'[r])
    BY <1>5, <1>8, CallMade
  <2>2. QED
    BY <1>7, <2>1, OverSettles
<1>9. CASE Tail(q.todo) # <<>>
  <2>1. Pending(r)' /\ req'[r].todo = Tail(q.todo)
    BY <1>5, <1>9, CallMade
  <2>2. PlainPoint(req[r])'
    BY <1>4, <1>7, <2>1 DEF PlainPoint, Plain
  <2>3. QED
    BY <2>1, <2>2 DEF Settled, Point
<1>10. QED
  BY <1>8, <1>9

-----------------------------------------------------------------------------
(* Requests that arrive.                                                    *)

\* r may arrive, and nothing is half done.
Arrives(r) == MFAInv /\ MFAInv' /\ Facts({}, {}, {}) /\ Calm

\* A request that has arrived.
LEMMA Arrived ==
    ASSUME NEW r \in Requests, Arrives(r), NEW op, NEW caller, NEW scope, NEW program,
           IsProgram(program), program # <<>>, Begin(r, op, caller, scope, program)
    PROVE  /\ OnlyMoves(r) /\ Pending(r)' /\ Facts({}, {}, {})'
           /\ req'[r].op = op /\ req'[r].scope = scope /\ req'[r].todo = program
<1>1. OnlyMoves(r) /\ req[r] = NoRequest /\ Holds(req'[r], op, caller, scope, None, program)
  BY BeginStep DEF Arrives, MFAInv, AccountsInv
<1>2. Undisturbed' => Undisturbed
  BY <1>1, DisturbedStays DEF NoRequest
<1>3. PICK A : A = {}
  OBVIOUS
<1>4. Facts(A, A, A) /\ nextId <= nextId'
  BY <1>3 DEF Arrives, Calm, MFAInv, AccountsInv, TablesFit
<1>5. Facts(A, A, A)'
  BY <1>2, <1>4, SameFacts DEF Arrives, Calm
<1>6. QED
  BY <1>1, <1>3, <1>5 DEF Holds, Pending, Facts

\* Short programs of plain calls.
LEMMA ShortPlain ==
    /\ \A a : a.do \in PlainCalls => Plain(<<a>>)
    /\ \A a, b : a.do \in PlainCalls /\ b.do \in PlainCalls => Plain(<<a, b>>)
    /\ \A a, b, c : a.do \in PlainCalls /\ b.do \in PlainCalls /\ c.do \in PlainCalls
          => Plain(<<a, b, c>>)
<1>1. ASSUME NEW a, a.do \in PlainCalls
      PROVE  Plain(<<a>>)
  BY <1>1 DEF Plain
<1>2. ASSUME NEW a, NEW b, a.do \in PlainCalls, b.do \in PlainCalls
      PROVE  Plain(<<a, b>>)
  BY <1>2 DEF Plain
<1>3. ASSUME NEW a, NEW b, NEW c, a.do \in PlainCalls, b.do \in PlainCalls, c.do \in PlainCalls
      PROVE  Plain(<<a, b, c>>)
  BY <1>3 DEF Plain
<1>4. QED
  BY <1>1, <1>2, <1>3

\* Longer ones.
LEMMA LongPlain ==
    ASSUME NEW a, NEW b, NEW c, NEW d, a.do \in PlainCalls, b.do \in PlainCalls,
           c.do \in PlainCalls, d.do \in PlainCalls
    PROVE  /\ Plain(<<a, b, c, d>>)
           /\ \A e, f : e.do \in PlainCalls /\ f.do \in PlainCalls => Plain(<<a, b, c, d, e, f>>)
<1>1. Plain(<<a, b, c, d>>)
  <2>1. PICK s : s = <<a, b, c, d>>
    OBVIOUS
  <2>2. DOMAIN s = 1..4 /\ s[1] = a /\ s[2] = b /\ s[3] = c /\ s[4] = d
    BY <2>1
  <2>3. QED
    BY <2>1, <2>2 DEF Plain
<1>2. ASSUME NEW e, NEW f, e.do \in PlainCalls, f.do \in PlainCalls
      PROVE  Plain(<<a, b, c, d, e, f>>)
  <2>1. PICK s : s = <<a, b, c, d, e, f>>
    OBVIOUS
  <2>2. /\ DOMAIN s = 1..6 /\ s[1] = a /\ s[2] = b /\ s[3] = c /\ s[4] = d
        /\ s[5] = e /\ s[6] = f
    BY <2>1
  <2>3. QED
    BY <1>2, <2>1, <2>2 DEF Plain
<1>3. QED
  BY <1>1, <1>2

\* One that makes plain calls only.
LEMMA PlainArrives ==
    ASSUME NEW r \in Requests, Arrives(r), NEW op, NEW caller, NEW scope, NEW program,
           IsProgram(program), program # <<>>, Plain(program),
           Begin(r, op, caller, scope, program)
    PROVE  OnlyMoves(r) /\ Settled(r)
<1>1. /\ OnlyMoves(r) /\ Pending(r)' /\ Facts({}, {}, {})'
      /\ req'[r].todo = program
  BY Arrived
<1>2. PlainPoint(req[r])'
  BY <1>1 DEF PlainPoint, Plain
<1>3. QED
  BY <1>1, <1>2 DEF Settled, Point

\* Registrations, invites and external logins.
LEMMA RegistrationSettles ==
    ASSUME NEW r \in Requests, Arrives(r),
           RegisterUser(r) \/ RegisterInvite(r) \/ APIDeleteInvite(r) \/ OIDCCallback(r)
    PROVE  OnlyMoves(r) /\ Settled(r)
<1>1. CASE RegisterUser(r)
  <2>1. PICK e \in Emails, p \in Passwords, i \in Invites :
           Begin(r, "RegisterUser", None, None,
             <<Call("countUsers", None), Call("inviteUnused", i), Call("emailFree", e),
               Call("createUser", [email |-> e, password |-> p, invite |-> i])>>
               \o IF SMTPEnabled THEN <<Call("mailCode", None)>> ELSE <<>>)
    BY <1>1 DEF RegisterUser, Accept
  <2>2. PICK x, a, b, c, d, m :
           /\ x = [email |-> e, password |-> p, invite |-> i]
           /\ a = Call("countUsers", None) /\ b = Call("inviteUnused", i)
           /\ c = Call("emailFree", e) /\ m = Call("mailCode", None) /\ d = Call("createUser", x)
    OBVIOUS
  <2>3. PICK s, t : s = <<a, b, c, d>> \o <<m>> /\ t = <<a, b, c, d>> \o <<>>
    OBVIOUS
  <2>4. Begin(r, "RegisterUser", None, None, IF SMTPEnabled THEN s ELSE t)
    BY <2>1, <2>2, <2>3
  <2>5. CASE SMTPEnabled
    <3>1. s = <<a, b, c, d, m>>
      BY <2>3, FourAndOne
    <3>2. IsProgram(s) /\ Five(s, a, b, c, d, m) /\ s # <<>>
      BY <3>1, TuplesArePrograms DEF Five
    <3>3. /\ OnlyMoves(r) /\ Pending(r)' /\ Facts({}, {}, {})'
          /\ req'[r].todo = s
      BY <2>4, <2>5, <3>2, Arrived
    <3>4. x \in [email: Emails, password: Passwords, invite: Invites]
      BY <2>2
    <3>5. RegisterPoint(req[r])'
      BY <2>2, <3>2, <3>3, <3>4 DEF RegisterPoint
    <3>6. QED
      BY <3>3, <3>5 DEF Settled, Point
  <2>6. CASE ~SMTPEnabled
    <3>1. t = <<a, b, c, d>>
      <4>1. IsProgram(<<a, b, c, d>>) /\ IsProgram(<<>>)
        BY TuplesArePrograms
      <4>2. IsProgram(t) /\ Len(t) = 4 /\ t[1] = a /\ t[2] = b /\ t[3] = c /\ t[4] = d
        BY <2>3, <4>1, ProgramConcat
      <4>3. QED
        BY <4>2 DEF IsProgram
    <3>2. /\ a.do \in PlainCalls /\ b.do \in PlainCalls
          /\ c.do \in PlainCalls /\ d.do \in PlainCalls
      BY <2>2, CallFields DEF PlainCalls
    <3>3. IsProgram(t) /\ Plain(t) /\ t # <<>>
      BY <3>1, <3>2, TuplesArePrograms, LongPlain
    <3>4. QED
      BY <2>4, <2>6, <3>3, PlainArrives
  <2>7. QED
    BY <2>5, <2>6
<1>2. CASE RegisterInvite(r)
  <2>1. PICK u, a : /\ a = Call("createInvite", None)
                    /\ Begin(r, "RegisterInvite", u, None, <<a>>)
    BY <1>2 DEF RegisterInvite, Accept
  <2>2. IsProgram(<<a>>) /\ Plain(<<a>>) /\ <<a>> # <<>>
    BY <2>1, TuplesArePrograms, ShortPlain, CallFields DEF PlainCalls
  <2>3. QED
    BY <2>1, <2>2, PlainArrives
<1>3. CASE APIDeleteInvite(r)
  <2>1. PICK u, a, b : /\ a.do = "inviteDeletable" /\ b.do = "disableInvite"
                       /\ Begin(r, "APIDeleteInvite", u, None, <<a, b>>)
    BY <1>3, CallFields DEF APIDeleteInvite, Accept
  <2>2. IsProgram(<<a, b>>) /\ Plain(<<a, b>>) /\ <<a, b>> # <<>>
    BY <2>1, TuplesArePrograms, ShortPlain DEF PlainCalls
  <2>3. QED
    BY <2>1, <2>2, PlainArrives
<1>4. CASE OIDCCallback(r)
  <2>1. PICK x \in Identity : Begin(r, "OIDCCallback", None, None, <<Call("findSubject", x)>>)
    BY <1>4 DEF OIDCCallback, Accept, Identity
  <2>2. PICK s : s = <<Call("findSubject", x)>>
    OBVIOUS
  <2>3. IsProgram(s) /\ s # <<>> /\ One(s, Call("findSubject", x))
    BY <2>2, TuplesArePrograms DEF One
  <2>4. /\ OnlyMoves(r) /\ Pending(r)' /\ Facts({}, {}, {})'
        /\ req'[r].todo = s
    BY <2>1, <2>2, <2>3, Arrived
  <2>5. LoginPoint(req[r])'
    BY <2>3, <2>4 DEF LoginPoint
  <2>6. QED
    BY <2>4, <2>5 DEF Settled, Point
<1>5. QED
  BY <1>1, <1>2, <1>3, <1>4

\* Requests about an account there is.
LEMMA AccountRequestSettles ==
    ASSUME NEW r \in Requests, Arrives(r),
           \/ VerifyUser(r) \/ SendUserVerificationCode(r) \/ UpdateUser(r)
           \/ APIDeleteUser(r) \/ APIResetPassword(r) \/ APIChangePassword(r)
    PROVE  OnlyMoves(r) /\ Settled(r)
<1>1. CASE VerifyUser(r)
  <2>1. PICK u \in Users, m \in sent :
           /\ m.kind = "verify"
           /\ Begin(r, "VerifyUser", u, u,
                <<Call("readUser", None), Call("codeMatches", m.code),
                  VerifyIt, Call("readUser", None)>>)
    BY <1>1 DEF VerifyUser, Accept, VerifyIt, Registered
  <2>2. PICK d, s : /\ d = m.code
                    /\ s = <<Call("readUser", None), Call("codeMatches", d),
                             VerifyIt, Call("readUser", None)>>
                    /\ Begin(r, "VerifyUser", u, u, s)
    BY <2>1
  <2>3. /\ IsProgram(s) /\ s # <<>>
        /\ Four(s, Call("readUser", None), Call("codeMatches", d), VerifyIt, Call("readUser", None))
    BY <2>2, TuplesArePrograms DEF Four
  <2>4. OnlyMoves(r) /\ Pending(r)' /\ Facts({}, {}, {})' /\ req'[r].todo = s
    <3>1. Begin(r, "VerifyUser", u, u, s)
      BY <2>2
    <3>2. IsProgram(s) /\ s # <<>>
      BY <2>3
    <3>3. QED
      BY <3>1, <3>2, Arrived
  <2>5. d \in 1..nextId' /\ WasMailed(d)'
    BY <2>1, <2>2 DEF WasMailed, Arrives, Calm, MFAInv, AccountsInv, TablesFit
  <2>6. VerifyPoint(req[r])'
    BY <2>3, <2>4, <2>5 DEF VerifyPoint
  <2>7. QED
    BY <2>4, <2>6 DEF Settled, Point
<1>2. CASE SendUserVerificationCode(r)
  <2>1. PICK u, s :
           /\ s = <<Call("readUser", None), Call("newCode", None),
                    Call("readUser", None), Call("mailCode", None)>>
           /\ Begin(r, "SendUserVerificationCode", u, u, s)
    BY <1>2 DEF SendUserVerificationCode, Accept
  <2>2. /\ IsProgram(s) /\ s # <<>>
        /\ Four(s, Call("readUser", None), Call("newCode", None),
                Call("readUser", None), Call("mailCode", None))
    BY <2>1, TuplesArePrograms DEF Four
  <2>3. OnlyMoves(r) /\ Pending(r)' /\ Facts({}, {}, {})' /\ req'[r].todo = s
    BY <2>1, <2>2, Arrived
  <2>4. SendPoint(req[r])'
    BY <2>2, <2>3 DEF SendPoint
  <2>5. QED
    BY <2>3, <2>4 DEF Settled, Point
<1>3. CASE UpdateUser(r)
  <2>1. PICK u, a, b, c : /\ a.do = "readUser" /\ b.do = "knowsPassword" /\ c.do = "readToEdit"
                          /\ Begin(r, "UpdateUser", u, u, <<a, b, c>>)
    BY <1>3, CallFields DEF UpdateUser, Accept
  <2>2. IsProgram(<<a, b, c>>) /\ Plain(<<a, b, c>>) /\ <<a, b, c>> # <<>>
    BY <2>1, TuplesArePrograms, ShortPlain DEF PlainCalls
  <2>3. QED
    BY <2>1, <2>2, PlainArrives
<1>4. CASE APIDeleteUser(r)
  <2>1. PICK u, v, s : /\ s = <<Call("readToDisable", None), Call("saveUser", None)>>
                       /\ Begin(r, "APIDeleteUser", u, v, s)
    BY <1>4 DEF APIDeleteUser, Accept
  <2>2. /\ IsProgram(s) /\ s # <<>>
        /\ Two(s, Call("readToDisable", None), Call("saveUser", None))
    BY <2>1, TuplesArePrograms DEF Two
  <2>3. /\ OnlyMoves(r) /\ Pending(r)' /\ Facts({}, {}, {})' /\ req'[r].todo = s
        /\ req'[r].op = "APIDeleteUser"
    BY <2>1, <2>2, Arrived
  <2>4. DisablePoint(req[r])'
    BY <2>2, <2>3 DEF DisablePoint
  <2>5. QED
    BY <2>3, <2>4 DEF Settled, Point
<1>5. CASE APIResetPassword(r)
  <2>1. PICK a : a.do = "findToReset" /\ Begin(r, "APIResetPassword", None, None, <<a>>)
    BY <1>5, CallFields DEF APIResetPassword, Accept
  <2>2. IsProgram(<<a>>) /\ Plain(<<a>>) /\ <<a>> # <<>>
    BY <2>1, TuplesArePrograms, ShortPlain DEF PlainCalls
  <2>3. QED
    BY <2>1, <2>2, PlainArrives
<1>6. CASE APIChangePassword(r)
  <2>1. PICK m \in sent, p \in Passwords :
           Begin(r, "APIChangePassword", None, None,
             <<Call("findReset", [code |-> m.code, password |-> p]), Call("saveUser", None),
               Call("newReset", None), CloseIt>>)
    BY <1>6 DEF APIChangePassword, ChangePasswordCalls, Accept, CloseIt
  <2>2. PICK a, s : /\ a = [code |-> m.code, password |-> p]
                    /\ s = <<Call("findReset", a), Call("saveUser", None),
                             Call("newReset", None), CloseIt>>
    OBVIOUS
  <2>3. m.code # 0
    BY DEF Arrives, MFAInv, AccountsInv, TablesFit
  <2>4. a.password \in Passwords /\ a.code # 0
    BY <2>2, <2>3
  <2>5. /\ IsProgram(s) /\ s # <<>>
        /\ Four(s, Call("findReset", a), Call("saveUser", None), Call("newReset", None), CloseIt)
    BY <2>2, TuplesArePrograms DEF Four
  <2>6. /\ OnlyMoves(r) /\ Pending(r)' /\ Facts({}, {}, {})' /\ req'[r].todo = s
        /\ req'[r].op = "APIChangePassword"
    BY <2>1, <2>2, <2>5, Arrived
  <2>7. ResetPoint(req[r])'
    BY <2>4, <2>5, <2>6 DEF ResetPoint
  <2>8. QED
    BY <2>6, <2>7 DEF Settled, Point
<1>7. QED
  BY <1>1, <1>2, <1>3, <1>4, <1>5, <1>6

\* Requests about the second factor, and logins.
LEMMA FactorRequestSettles ==
    ASSUME NEW r \in Requests, Arrives(r),
           \/ APIEnrollMFA(r) \/ APIActivateMFA(r) \/ GenerateToken(r)
           \/ APIValidateMFA(r) \/ APIDisableMFA(r) \/ APIAdminDeleteUserMFA(r)
    PROVE  OnlyMoves(r) /\ Settled(r)
<1>1. CASE APIEnrollMFA(r)
  <2>1. PICK u, a, b, c : /\ a.do = "readUser" /\ b.do = "mayEnrol" /\ c.do = "setSecret"
                          /\ Begin(r, "APIEnrollMFA", u, u, <<a, b, c>>)
    BY <1>1, CallFields DEF APIEnrollMFA, AcceptMFA
  <2>2. IsProgram(<<a, b, c>>) /\ Plain(<<a, b, c>>) /\ <<a, b, c>> # <<>>
    BY <2>1, TuplesArePrograms, ShortPlain DEF PlainCalls
  <2>3. QED
    BY <2>1, <2>2, PlainArrives
<1>2. CASE APIActivateMFA(r)
  <2>1. PICK u, t : Begin(r, "APIActivateMFA", u, u, ActivationCalls(t))
    BY <1>2 DEF APIActivateMFA, AcceptMFA
  <2>2. PICK s : s = ActivationCalls(t)
    OBVIOUS
  <2>3. /\ IsProgram(s) /\ s # <<>>
        /\ \/ Five(s, Call("readUser", None), Call("mayActivate", t),
                   Call("clearCodes", None), Call("storeCodes", None), Call("activate", None))
           \/ Four(s, Call("readUser", None), Call("mayActivate", t),
                   Call("clearCodes", None), Call("activate", None))
    BY <2>2, ActivationPrograms, TuplesArePrograms DEF Four, Five
  <2>4. OnlyMoves(r) /\ Pending(r)' /\ Facts({}, {}, {})' /\ req'[r].todo = s
    BY <2>1, <2>2, <2>3, Arrived
  <2>5. ActivatePoint(req[r])'
    BY <2>3, <2>4 DEF ActivatePoint
  <2>6. QED
    BY <2>4, <2>5 DEF Settled, Point
<1>3. CASE GenerateToken(r)
  <2>1. PICK a : a.do = "logIn" /\ Begin(r, "GenerateToken", None, None, <<a>>)
    BY <1>3, CallFields DEF GenerateToken, AcceptMFA
  <2>2. IsProgram(<<a>>) /\ Plain(<<a>>) /\ <<a>> # <<>>
    BY <2>1, TuplesArePrograms, ShortPlain DEF PlainCalls
  <2>3. QED
    BY <2>1, <2>2, PlainArrives
<1>4. CASE APIValidateMFA(r)
  <2>1. PICK u, a, b, c : /\ a.do = "readUser" /\ b.do = "enrolled" /\ c.do = "secondFactor"
                          /\ Begin(r, "APIValidateMFA", u, u, <<a, b, c>>)
    BY <1>4, CallFields DEF APIValidateMFA, AcceptMFA
  <2>2. IsProgram(<<a, b, c>>) /\ Plain(<<a, b, c>>) /\ <<a, b, c>> # <<>>
    BY <2>1, TuplesArePrograms, ShortPlain DEF PlainCalls
  <2>3. QED
    BY <2>1, <2>2, PlainArrives
<1>5. CASE APIDisableMFA(r)
  <2>1. PICK u, a, b, c, d, e, f :
           /\ a.do = "readUser" /\ b.do = "enrolled" /\ c.do = "hasPassword"
           /\ d.do = "secondFactor" /\ e.do = "clearMFA" /\ f.do = "clearCodes"
           /\ Begin(r, "APIDisableMFA", u, u, <<a, b, c, d, e, f>>)
    BY <1>5, CallFields DEF APIDisableMFA, AcceptMFA
  <2>2. PICK s : s = <<a, b, c, d, e, f>>
    OBVIOUS
  <2>3. IsProgram(s) /\ Plain(s) /\ s # <<>>
    <3>1. /\ a.do \in PlainCalls /\ b.do \in PlainCalls /\ c.do \in PlainCalls
          /\ d.do \in PlainCalls /\ e.do \in PlainCalls /\ f.do \in PlainCalls
      BY <2>1 DEF PlainCalls
    <3>2. Plain(s)
      BY <2>2, <3>1, LongPlain
    <3>3. IsProgram(s) /\ s # <<>>
      BY <2>2, TuplesArePrograms
    <3>4. QED
      BY <3>2, <3>3
  <2>4. QED
    BY <2>1, <2>2, <2>3, PlainArrives
<1>6. CASE APIAdminDeleteUserMFA(r)
  <2>1. PICK u, v, a, b : /\ a.do = "clearMFA" /\ b.do = "clearCodes"
                          /\ Begin(r, "APIAdminDeleteUserMFA", u, v, <<a, b>>)
    BY <1>6, CallFields DEF APIAdminDeleteUserMFA, AcceptMFA
  <2>2. IsProgram(<<a, b>>) /\ Plain(<<a, b>>) /\ <<a, b>> # <<>>
    BY <2>1, TuplesArePrograms, ShortPlain DEF PlainCalls
  <2>3. QED
    BY <2>1, <2>2, PlainArrives
<1>7. QED
  BY <1>1, <1>2, <1>3, <1>4, <1>5, <1>6

-----------------------------------------------------------------------------
(* Every step.                                                              *)

\* A step of a handler: it makes a call, branches or answers.
Moves(r) ==
    \/ Done(r) \/ (\E x : Remember(r, x)) \/ (\E reply : Answer(r, reply))
    \/ \E s, x, program : Continue(r, s, x, program)

\* No other request notices.
LEMMA OthersStay ==
    ASSUME RequestsFit, RequestsFit', NEW r \in Requests, Moves(r)
    PROVE  OnlyMoves(r)
<1>1. ASSUME NEW q, req' = [req EXCEPT ![r] = q]
      PROVE  OnlyMoves(r)
  BY <1>1 DEF RequestsFit, OnlyMoves
<1>2. CASE Done(r) \/ (\E x : Remember(r, x)) \/ (\E reply : Answer(r, reply))
  BY <1>1, <1>2 DEF Done, Remember, Answer
<1>3. ASSUME NEW s, NEW x, NEW program, Continue(r, s, x, program)
      PROVE  OnlyMoves(r)
  <2>1. CASE program = <<>>
    BY <1>1, <1>3, <2>1 DEF Continue, Answer
  <2>2. CASE program # <<>>
    <3>1. PICK q : q = [req[r] EXCEPT !.scope = s, !.found = x, !.todo = program]
      OBVIOUS
    <3>2. req' = [req EXCEPT ![r] = q]
      BY <1>3, <2>2, <3>1 DEF Continue
    <3>3. QED
      BY <1>1, <3>2
  <2>3. QED
    BY <2>1, <2>2
<1>4. QED
  BY <1>2, <1>3 DEF Moves

\* The steps of accounts are such steps.
LEMMA AccountsStepMoves ==
    ASSUME NEW r \in Requests, AccountsStep(r)
    PROVE  Pending(r) /\ Moves(r)
<1>1. CASE AccountCheck(r)
  BY <1>1 DEF AccountCheck, Guarded, Done, Answer, Moves
<1>2. CASE \/ AccountFail(r) \/ GetAllUserInformation(r) \/ GetAmountOfEnabledUsers(r)
           \/ ReadToDisable(r) \/ GenerateRandomInvite(r) \/ DeleteInviteByID(r)
  BY <1>2 DEF AccountFail, Abandon, GetAllUserInformation, GetAmountOfEnabledUsers,
              ReadToDisable, GenerateRandomInvite, DeleteInviteByID, At, Moves
<1>3. CASE SendSMTPVerificationEmail(r) \/ SendSMTPResetEmail(r)
  BY <1>3 DEF SendSMTPVerificationEmail, SendSMTPResetEmail, Mail, At, Moves
<1>4. CASE \/ linkUserOIDC(r) \/ SetUserVerification(r) \/ NewResetCode(r)
           \/ NewResetExpiration(r)
  BY <1>4 DEF linkUserOIDC, SetUserVerification, NewResetCode, NewResetExpiration,
              UpdateColumns, At, Moves
<1>5. CASE createOIDCUser(r) \/ GenerateRandomVerificationCodeForUser(r) \/ UpdateUserInDB(r)
  BY <1>5 DEF createOIDCUser, GenerateRandomVerificationCodeForUser, UpdateUserInDB, At, Moves
<1>6. CASE CreateUserWithInviteCode(r)
  <2>1. Pending(r)
    BY <1>6 DEF CreateUserWithInviteCode, At
  <2>2. Answer(r, "refused") \/ \E u, x : Continue(r, u, x, Tail(req[r].todo))
    BY <1>6 DEF CreateUserWithInviteCode
  <2>3. QED
    BY <2>1, <2>2 DEF Moves
<1>7. CASE FindSubject(r) \/ FindAddress(r)
  BY <1>7 DEF FindSubject, FindAddress, At, Moves
<1>8. CASE ReadToEdit(r) \/ ReadEdited(r)
  BY <1>8 DEF ReadToEdit, ReadEdited, At, Moves
<1>9. CASE FindToReset(r) \/ FindReset(r)
  BY <1>9 DEF FindToReset, FindReset, At, Moves
<1>10. QED
  BY <1>1, <1>2, <1>3, <1>4, <1>5, <1>6, <1>7, <1>8, <1>9 DEF AccountsStep

\* So are those of the second factor.
LEMMA MFAStepMoves ==
    ASSUME NEW r \in Requests, MFAStep(r)
    PROVE  Pending(r) /\ Moves(r)
<1>1. CASE MFACheck(r)
  BY <1>1 DEF MFACheck, Guarded, Done, Answer, Moves
<1>2. CASE \/ SetUserPendingMFASecret(r) \/ ActivateUserMFA(r) \/ DisableUserMFA(r)
           \/ ClearUserRecoveryCodes(r) \/ StoreRecoveryCodes(r)
  BY <1>2 DEF SetUserPendingMFASecret, ActivateUserMFA, DisableUserMFA,
              ClearUserRecoveryCodes, StoreRecoveryCodes, UpdateColumns, At, Moves
<1>3. CASE LogIn(r) \/ MarkRecoveryCodeUsed(r) \/ verifySecondFactor(r)
  BY <1>3 DEF LogIn, MarkRecoveryCodeUsed, verifySecondFactor, At, Moves
<1>4. QED
  BY <1>1, <1>2, <1>3 DEF MFAStep

\* Each step of a handler leaves it at a point again, or the tables in order.
LEMMA AccountsStepSettles ==
    ASSUME NEW r \in Requests, Handled(r), AccountsStep(r), UNCHANGED recovery
    PROVE  Settled(r)
<1>1. CASE \/ AccountCheck(r) \/ GetAllUserInformation(r) \/ GetAmountOfEnabledUsers(r)
           \/ CreateUserWithInviteCode(r) \/ SendSMTPVerificationEmail(r)
           \/ GenerateRandomInvite(r) \/ DeleteInviteByID(r) \/ SendSMTPResetEmail(r)
  BY <1>1, AccountCheckSettles, ReadSettles, CountSettles, CreateSettles, MailSettles,
     InviteSettles
<1>2. CASE AccountFail(r)
  BY <1>2, FailureSettles DEF AccountFail, Abandon, accountTables
<1>3. CASE \/ FindSubject(r) \/ FindAddress(r) \/ linkUserOIDC(r) \/ createOIDCUser(r)
           \/ SetUserVerification(r) \/ GenerateRandomVerificationCodeForUser(r)
  BY <1>3, LookupSettles, LinkSettles, ExternalSettles, VerificationSettles, NewCodeSettles
<1>4. CASE \/ ReadToEdit(r) \/ ReadEdited(r) \/ UpdateUserInDB(r) \/ ReadToDisable(r)
           \/ FindToReset(r) \/ NewResetCode(r) \/ NewResetExpiration(r) \/ FindReset(r)
  BY <1>4, ReadToEditSettles, ReadEditedSettles, SaveSettles, ReadToDisableSettles,
     FindToResetSettles, NewResetSettles, ExpirationSettles, FindResetSettles
<1>5. QED
  BY <1>1, <1>2, <1>3, <1>4 DEF AccountsStep

\* So does each step of the second factor.
LEMMA MFAStepSettles ==
    ASSUME NEW r \in Requests, Handled(r), MFAStep(r)
    PROVE  Settled(r)
BY MFACheckSettles, FactorOffSettles, ClearSettles, StoreSettles, ActivateSettles,
   LogInSettles, SecondFactorSettles, MarkSettles DEF MFAStep

-----------------------------------------------------------------------------
(* A day passes.                                                            *)

\* The rows differ in nothing but whether a reset code has expired.
RowsAlike ==
    \A v \in Users :
        /\ account'[v].enabled = account[v].enabled /\ account'[v].email = account[v].email
        /\ account'[v].password = account[v].password /\ account'[v].subject = account[v].subject
        /\ account'[v].verified = account[v].verified /\ account'[v].code = account[v].code
        /\ account'[v].reset = account[v].reset /\ account'[v].mfa = account[v].mfa
        /\ account'[v].secret = account[v].secret

\* A day that passes does that.
LEMMA ExpiryAlike ==
    ASSUME MFAInv, NEW u \in Users, ResetCodeExpires(u)
    PROVE  RowsAlike
<1>1. account[u] \in AccountRow
  BY RegisteredRow DEF ResetCodeExpires, MFAInv, AccountsInv, Registered, NoAccount
<1>2. PICK row : row = [account[u] EXCEPT !.open = FALSE]
  OBVIOUS
<1>3. account'[u] = row /\ \A v \in Users \ {u} : account'[v] = account[v]
  BY <1>2 DEF ResetCodeExpires, MFAInv, AccountsInv, TablesFit
<1>4. /\ row.enabled = account[u].enabled /\ row.email = account[u].email
      /\ row.password = account[u].password /\ row.subject = account[u].subject
      /\ row.verified = account[u].verified /\ row.code = account[u].code
      /\ row.reset = account[u].reset /\ row.mfa = account[u].mfa
      /\ row.secret = account[u].secret
  BY <1>1, <1>2 DEF AccountRow
<1>5. QED
  BY <1>3, <1>4 DEF RowsAlike

\* What is so of the tables is so of rows that differ in nothing else.
LEMMA AlikeFacts ==
    ASSUME MFAInv, RowsAlike, UNCHANGED <<sent, accepted, nextId, req, recovery>>,
           NEW A, NEW B, NEW C, Facts(A, B, C)
    PROVE  Facts(A, B, C)'
<1>1. /\ OneAccountPerSubject' /\ MFAKeepsASecret' /\ CodesDiffer'
  BY DEF Facts, RowsAlike, OneAccountPerSubject, MFAKeepsASecret, CodesDiffer
<1>2. CodesOfTheSecret'
  BY DEF Facts, RowsAlike, CodesOfTheSecret, MFAInv, RecoveryFits, Registered
<1>3. Undisturbed' = Undisturbed
  BY DEF Undisturbed
<1>4. NoneTwice(C) => NoneTwice(C)'
  BY DEF RowsAlike, NoneTwice
<1>5. CodesReached(A, B) => CodesReached(A, B)'
  BY DEF RowsAlike, CodesReached, Mailed
<1>6. QED
  BY <1>1, <1>2, <1>3, <1>4, <1>5 DEF Facts

\* A request at a point that says something of an account is about one.
LEMMA PointScope ==
    ASSUME MFAInv, NEW r \in Requests, Pending(r),
           \/ Head(req[r].todo).do \in RowCalls \cup ScopedCalls
           \/ EditPoint(req[r]) \/ ActivatePoint(req[r])
    PROVE  req[r].scope \in Users
<1> DEFINE q == req[r]
           c == Head(q.todo)
<1>1. /\ q.todo # <<>> /\ IsProgram(q.todo) /\ ProgramFits(q, q.todo)
      /\ CallFits(q, c) /\ HeadReady(q, c)
  BY NextCall DEF MFAInv, AccountsInv, RequestsFit, Ready
<1>2. CASE c.do \in RowCalls \cup ScopedCalls
  BY <1>1, <1>2 DEF CallFits, HeadReady, NeedsRow, RowOf, Registered
<1>3. CASE EditPoint(q)
  <2>1. c.do \in RowCalls \cup ScopedCalls \/ (c.do = "emailFree" /\ q.op = "UpdateUser")
    BY <1>3, CallParts, CallFields DEF EditPoint, RowCalls, ScopedCalls
  <2>2. QED
    BY <1>1, <1>2, <2>1 DEF HeadReady, NeedsRow, RowOf, Registered
<1>4. CASE ActivatePoint(q)
  <2>1. ASSUME NEW a, Two(q.todo, Call("clearCodes", None), a) \/ Three(q.todo, Call("clearCodes", None), a, Call("activate", None)),
               a.do \in {"activate", "storeCodes"}
        PROVE  q.scope \in Users
    <3>1. Tail(q.todo) # <<>> /\ Head(Tail(q.todo)) = a
      BY <2>1, CallParts
    <3>2. CallFits(q, a)
      BY <1>1, <3>1, TailFits
    <3>3. QED
      BY <2>1, <3>2 DEF CallFits, ScopedCalls
  <2>2. \/ c.do \in {"readUser", "mayActivate", "storeCodes", "activate"}
        \/ Three(q.todo, Call("clearCodes", None), Call("storeCodes", None), Call("activate", None))
        \/ Two(q.todo, Call("clearCodes", None), Call("activate", None))
    BY <1>4, CallParts, CallFields DEF ActivatePoint
  <2>3. QED
    BY <1>2, <2>1, <2>2, CallFields DEF RowCalls, ScopedCalls
<1>5. QED
  BY <1>2, <1>3, <1>4

\* A request is where it was.
LEMMA AlikePoint ==
    ASSUME MFAInv, RowsAlike, UNCHANGED <<sent, accepted, nextId, req, recovery>>,
           NEW r \in Requests, Pending(r), Point(req[r])
    PROVE  Point(req[r])'
<1> DEFINE q == req[r]
           s == q.scope
<1>1. \A A, B, C : Facts(A, B, C) => Facts(A, B, C)'
  BY AlikeFacts
<1>2. /\ q.todo # <<>> /\ IsProgram(q.todo)
  BY DEF MFAInv, AccountsInv, RequestsFit, RequestsOK
<1>3. CASE PlainPoint(q) \/ MarkPoint(q) \/ RegisterPoint(q)
  BY <1>1, <1>3 DEF PlainPoint, MarkPoint, RegisterPoint, Plain, Point
<1>4. CASE MailPoint(q)
  <2>1. s \in Users
    BY <1>4, PointScope, CallParts, CallFields DEF MailPoint, RowCalls
  <2>2. MailPoint(req[r])'
    BY <1>1, <1>4, <2>1 DEF MailPoint, RowsAlike
  <2>3. QED
    BY <2>2 DEF Point
<1>5. CASE SendPoint(q)
  <2>1. s \in Users
    BY <1>2, <1>5, PointScope, PointHeads DEF RowCalls, ScopedCalls
  <2>2. SendPoint(req[r])'
    BY <1>1, <1>5, <2>1 DEF SendPoint, RowsAlike
  <2>3. QED
    BY <2>2 DEF Point
<1>6. CASE VerifyPoint(q)
  <2>1. s \in Users
    BY <1>2, <1>6, PointScope, PointHeads DEF RowCalls, ScopedCalls
  <2>2. VerifyPoint(req[r])'
    BY <1>1, <1>6, <2>1 DEF VerifyPoint, WasMailed, RowsAlike
  <2>3. QED
    BY <2>2 DEF Point
<1>7. CASE EditPoint(q)
  <2>1. s \in Users
    BY <1>7, PointScope
  <2>2. EditOf(q.found, account[s]) => EditOf(q.found, account[s])'
    BY <2>1 DEF EditOf, Copies, RowsAlike
  <2>3. account'[s].enabled = account[s].enabled /\ account'[s].verified = account[s].verified
        /\ account'[s].email = account[s].email
    BY <2>1 DEF RowsAlike
  <2>4. EditPoint(req[r])'
    BY <1>1, <1>7, <2>2, <2>3 DEF EditPoint
  <2>5. QED
    BY <2>4 DEF Point
<1>8. CASE DisablePoint(q)
  <2>1. s \in Users
    BY <1>2, <1>8, PointScope, PointHeads DEF RowCalls, ScopedCalls
  <2>2. DisableOf(q.found, account[s]) => DisableOf(q.found, account[s])'
    BY <2>1 DEF DisableOf, Copies, RowsAlike
  <2>3. DisablePoint(req[r])'
    BY <1>1, <1>8, <2>2 DEF DisablePoint
  <2>4. QED
    BY <2>3 DEF Point
<1>9. CASE ResetPoint(q)
  <2>1. CASE Head(q.todo).do = "findReset"
    <3>1. ResetPoint(req[r])'
      BY <1>1, <1>9, <2>1, CallParts, CallFields DEF ResetPoint
    <3>2. QED
      BY <3>1 DEF Point
  <2>2. CASE Head(q.todo).do \in {"saveUser", "newReset"}
    <3>1. s \in Users
      BY <2>2, PointScope DEF RowCalls
    <3>2. ResetOf(q.found, account[s]) => ResetOf(q.found, account[s])'
      BY <3>1 DEF ResetOf, Copies, RowsAlike
    <3>3. account'[s].enabled = account[s].enabled
      BY <3>1 DEF RowsAlike
    <3>4. ResetPoint(req[r])'
      BY <1>1, <1>9, <3>2, <3>3 DEF ResetPoint
    <3>5. QED
      BY <3>4 DEF Point
  <2>3. QED
    BY <1>2, <1>9, <2>1, <2>2, PointHeads
<1>10. CASE ActivatePoint(q)
  <2>1. s \in Users
    BY <1>10, PointScope
  <2>2. account'[s].secret = account[s].secret /\ account'[s].mfa = account[s].mfa
    BY <2>1 DEF RowsAlike
  <2>3. ActivatePoint(req[r])'
    BY <1>1, <1>10, <2>2 DEF ActivatePoint
  <2>4. QED
    BY <2>3 DEF Point
<1>11. CASE LoginPoint(q)
  <2>1. \A x : Unheld(x) => Unheld(x)'
    BY DEF Unheld, RowsAlike
  <2>2. LoginPoint(req[r])'
    BY <1>1, <1>11, <2>1 DEF LoginPoint
  <2>3. QED
    BY <2>2 DEF Point
<1>12. QED
  BY <1>3, <1>4, <1>5, <1>6, <1>7, <1>8, <1>9, <1>10, <1>11 DEF Point

-----------------------------------------------------------------------------
(* One request at a time, from the start and through every step.            *)

\* What is so at every moment.
SerialInv == MFAInv /\ Alone /\ Orderly

\* A request is the only one before and after its step, and settles.
LEMMA OneSettles ==
    ASSUME MaxInFlight = 1, Alone, NEW r \in Requests, OnlyMoves(r),
           Pending(r) \/ MayBegin(r), Settled(r)
    PROVE  Alone' /\ Orderly'
<1>1. Alone' /\ \A s \in Requests \ {r} : ~Pending(s)'
  BY AloneKept
<1>2. ASSUME InFlight' = {}
      PROVE  Facts({}, {}, {})'
  <2>1. ~Pending(r)'
    BY <1>2 DEF InFlight
  <2>2. QED
    BY <2>1 DEF Settled
<1>3. ASSUME NEW s \in Requests, Pending(s)'
      PROVE  Point(req[s])'
  <2>1. s = r
    BY <1>1, <1>3
  <2>2. QED
    BY <1>3, <2>1 DEF Settled
<1>4. QED
  BY <1>1, <1>2, <1>3 DEF Orderly

\* A request that arrives finds the tables in order.
LEMMA RequestArrives ==
    ASSUME MaxInFlight = 1, SerialInv, MFAInv', NEW r \in Requests, MayBegin(r), Calm
    PROVE  Arrives(r)
<1>1. InFlight = {}
  <2>1. Cardinality(InFlight) < 1
    BY DEF MayBegin
  <2>2. QED
    BY <2>1, FS_CardinalityType, FS_EmptySet DEF SerialInv, Alone
<1>2. QED
  BY <1>1 DEF SerialInv, Orderly, Arrives

\* It keeps the order.
LEMMA RequestOrderly ==
    ASSUME MaxInFlight = 1, SerialInv, MFAInv', NEW r \in Requests,
           (AccountsRequest(r) /\ UNCHANGED recovery) \/ MFARequest(r)
    PROVE  Alone' /\ Orderly'
<1>1. MayBegin(r)
  BY DEF AccountsRequest, MFARequest
<1>2. CASE AccountsRequest(r) /\ UNCHANGED recovery
  <2>1. Calm
    BY <1>2 DEF AccountsRequest, RegisterUser, RegisterInvite, APIDeleteInvite, OIDCCallback,
         VerifyUser, SendUserVerificationCode, UpdateUser, APIDeleteUser, APIResetPassword,
         APIChangePassword, Accept, accountTables, Calm
  <2>2. OnlyMoves(r) /\ Settled(r)
    <3>1. Arrives(r)
      BY <1>1, <2>1, RequestArrives
    <3>2. QED
      BY <1>2, <3>1, RegistrationSettles, AccountRequestSettles DEF AccountsRequest
  <2>3. QED
    BY <1>1, <2>2, OneSettles DEF SerialInv
<1>3. CASE MFARequest(r)
  <2>1. Calm
    BY <1>3 DEF MFARequest, APIEnrollMFA, APIActivateMFA, GenerateToken, APIValidateMFA,
         APIDisableMFA, APIAdminDeleteUserMFA, AcceptMFA, mfaTables, accountTables, Calm
  <2>2. OnlyMoves(r) /\ Settled(r)
    <3>1. Arrives(r)
      BY <1>1, <2>1, RequestArrives
    <3>2. QED
      BY <1>3, <3>1, FactorRequestSettles DEF MFARequest
  <2>3. QED
    BY <1>1, <2>2, OneSettles DEF SerialInv
<1>4. QED
  BY <1>2, <1>3

\* So does each of its steps.
LEMMA StepOrderly ==
    ASSUME MaxInFlight = 1, SerialInv, MFAInv', NEW r \in Requests,
           (AccountsStep(r) /\ UNCHANGED recovery) \/ MFAStep(r)
    PROVE  Alone' /\ Orderly'
<1>1. Pending(r) /\ Moves(r)
  BY AccountsStepMoves, MFAStepMoves
<1>2. OnlyMoves(r)
  BY <1>1, OthersStay DEF SerialInv, MFAInv, AccountsInv
<1>3. Handled(r)
  BY <1>1, <1>2 DEF Handled, SerialInv, Orderly
<1>4. Settled(r)
  BY <1>3, AccountsStepSettles, MFAStepSettles
<1>5. QED
  BY <1>1, <1>2, <1>4, OneSettles DEF SerialInv

\* The day that passes keeps it too, and so does nothing at all.
LEMMA AlikeOrderly ==
    ASSUME SerialInv, RowsAlike, UNCHANGED <<sent, accepted, nextId, req, recovery>>
    PROVE  Alone' /\ Orderly'
<1>1. Alone'
  BY DEF SerialInv, Alone, InFlight, Pending
<1>2. ASSUME InFlight' = {}
      PROVE  Facts({}, {}, {})'
  <2>1. InFlight = {}
    BY <1>2 DEF InFlight, Pending
  <2>2. PICK A : A = {}
    OBVIOUS
  <2>3. Facts(A, A, A)
    BY <2>1, <2>2 DEF SerialInv, Orderly
  <2>4. Facts(A, A, A)'
    BY <2>3, AlikeFacts DEF SerialInv
  <2>5. QED
    BY <2>2, <2>4 DEF Facts
<1>3. ASSUME NEW r \in Requests, Pending(r)'
      PROVE  Point(req[r])'
  <2>1. Pending(r)
    BY <1>3 DEF Pending
  <2>2. Point(req[r])
    BY <2>1 DEF SerialInv, Orderly
  <2>3. QED
    BY <2>1, <2>2, AlikePoint DEF SerialInv
<1>4. QED
  BY <1>1, <1>2, <1>3 DEF Orderly

\* Every step keeps the invariant of requests one at a time.
LEMMA SerialNextKeepsInv ==
    ASSUME MaxInFlight = 1, SerialInv, [MFANext]_mfaVars, MFAInv'
    PROVE  SerialInv'
<1>1. ASSUME NEW u \in Users, ResetCodeExpires(u), UNCHANGED recovery
      PROVE  Alone' /\ Orderly'
  <2>1. RowsAlike
    BY <1>1, ExpiryAlike DEF SerialInv
  <2>2. UNCHANGED <<sent, accepted, nextId, req, recovery>>
    BY <1>1 DEF ResetCodeExpires
  <2>3. QED
    BY <2>1, <2>2, AlikeOrderly
<1>2. CASE AccountsNext /\ UNCHANGED <<recovery, challenged>>
  BY <1>1, <1>2, RequestOrderly, StepOrderly DEF AccountsNext, SerialInv
<1>3. CASE \E r \in Requests : MFARequest(r) \/ MFAStep(r)
  BY <1>3, RequestOrderly, StepOrderly DEF SerialInv
<1>4. CASE UNCHANGED mfaVars
  <2>1. RowsAlike /\ UNCHANGED <<sent, accepted, nextId, req, recovery>>
    BY <1>4 DEF mfaVars, mfaTables, accountTables, RowsAlike
  <2>2. QED
    BY <2>1, AlikeOrderly DEF SerialInv
<1>5. QED
  BY <1>2, <1>3, <1>4 DEF MFANext, SerialInv

\* It holds at the start.
LEMMA SerialInitInv ==
    ASSUME MFAInit, MFAInv
    PROVE  SerialInv
<1>1. /\ account = SeedAccount /\ sent = SeedSent /\ accepted = <<>> /\ nextId = SeedIds
      /\ recovery = SeedRecovery /\ req = [r \in Requests |-> NoRequest]
  BY DEF MFAInit, AccountsInit
<1>2. Alone /\ InFlight = {} /\ \A r \in Requests : ~Pending(r)
  BY <1>1, InitialRequests, AloneAtFirst
<1>3. accepted \in Seq(1..nextId) /\ IsInjective(accepted) /\ Range(accepted) = {}
  <2>1. accepted \in Seq(1..nextId) /\ DOMAIN accepted = {}
    BY <1>1
  <2>2. QED
    BY <2>1 DEF IsInjective, Range
<1>4. OneAccountPerSubject /\ MFAKeepsASecret /\ CodesOfTheSecret /\ CodesDiffer
  BY <1>1, MFASeedInOrder DEF OneAccountPerSubject, MFAKeepsASecret, CodesOfTheSecret, CodesDiffer
<1>5. NoneTwice({})
  BY <1>3 DEF NoneTwice
<1>6. SMTPEnabled => CodesReached({}, {})
  BY <1>1, MFASeedInOrder DEF CodesReached, Mailed
<1>7. QED
  BY <1>2, <1>3, <1>4, <1>5, <1>6 DEF SerialInv, Orderly, Facts

\* Requests to accounts and their second factor that come one at a time: each of
\* them is always at one of the points its handler passes, and between two of them,
\* or after one that failed half-way, the tables are in order.
THEOREM SerialInvariant ==
    ASSUME MaxInFlight = 1
    PROVE  MFASpec => []SerialInv
<1>1. MFAInit /\ MFAInv => SerialInv
  BY SerialInitInv
<1>2. SerialInv /\ [MFANext]_mfaVars /\ MFAInv' => SerialInv'
  BY SerialNextKeepsInv
<1>3. MFASpec => []MFAInv
  BY MFAInvariant
<1>4. QED
  BY <1>1, <1>2, <1>3, PTL DEF MFASpec

\* At every point something is so of the tables.
LEMMA SomeFacts ==
    ASSUME SerialInv
    PROVE  \E A, B, C : Facts(A, B, C)
<1>1. CASE InFlight = {}
  BY <1>1 DEF SerialInv, Orderly
<1>2. ASSUME NEW r \in Requests, Pending(r)
      PROVE  \E A, B, C : Facts(A, B, C)
  <2>1. Point(req[r])
    BY <1>2 DEF SerialInv, Orderly
  <2>2. QED
    BY <2>1, PointFacts
<1>3. QED
  BY <1>1, <1>2 DEF InFlight

\* Where requests come one at a time, none of them half done or failed half-way, an
\* address that counts as verified is one that the account's code was mailed to.
THEOREM VerifiedAddressesWereReached ==
    ASSUME MaxInFlight = 1
    PROVE  MFASpec => []VerifiedMeansReached
<1>1. SerialInv => VerifiedMeansReached
  <2> SUFFICES ASSUME SerialInv, SMTPEnabled, Quiet, Undisturbed
               PROVE  VerifiedMeansReached
    BY DEF VerifiedMeansReached
  <2>1. CodesReached({}, {})
    BY DEF SerialInv, Orderly, Quiet, Facts
  <2>2. QED
    BY <2>1 DEF CodesReached, Mailed, VerifiedMeansReached
<1>2. QED
  BY <1>1, SerialInvariant, PTL

\* So is it that no two accounts are one identity to the external provider.
THEOREM IdentitiesAreOnes ==
    ASSUME MaxInFlight = 1
    PROVE  MFASpec => []OneAccountPerSubject
<1>1. SerialInv => OneAccountPerSubject
  BY SomeFacts DEF Facts
<1>2. QED
  BY <1>1, SerialInvariant, PTL

\* No single-use code is taken twice, by whichever handler takes it.
THEOREM CodesWorkOnce ==
    ASSUME MaxInFlight = 1
    PROVE  MFASpec => []CodesAreSingleUse
<1>1. SerialInv => CodesAreSingleUse
  BY SomeFacts DEF Facts, NoneTwice, CodesAreSingleUse
<1>2. QED
  BY <1>1, SerialInvariant, PTL

\* An account that asks for a second factor has a secret to check it against, and
\* its recovery codes are those that came with it, also after requests that failed.
THEOREM FactorsAreComplete ==
    ASSUME MaxInFlight = 1
    PROVE  MFASpec => []MFAKeepsASecret
<1>1. SerialInv => MFAKeepsASecret
  BY SomeFacts DEF Facts
<1>2. QED
  BY <1>1, SerialInvariant, PTL

\* The recovery codes of such an account came with the secret it has now.
THEOREM RecoveryCodesAreCurrent ==
    ASSUME MaxInFlight = 1
    PROVE  MFASpec => []CodesOfTheSecret
<1>1. SerialInv => CodesOfTheSecret
  BY SomeFacts DEF Facts
<1>2. QED
  BY <1>1, SerialInvariant, PTL

=============================================================================
