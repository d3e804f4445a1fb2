--------------------------- MODULE HandlingProofs ---------------------------
(***************************************************************************)
(* What the handlers of every component share, proved once: a request that  *)
(* moves on keeps the rest of its calls in their order, one that is         *)
(* answered has none left, and nothing else happens to a request.           *)
(***************************************************************************)
EXTENDS Handling, TLAPS, SequenceTheorems, FiniteSetTheorems

\* A finite sequence of calls, whatever their arguments.
IsProgram(s) == s \in Seq({s[i] : i \in DOMAIN s})

\* A record of a request, whatever is in it.
RequestFields == {"op", "caller", "scope", "todo", "found", "reply"}
IsRequest(q) == q = [f \in RequestFields |-> q[f]]

\* q is being handled: it is about s, has found x and has the calls of program to make.
Holds(q, op, caller, s, x, program) ==
    /\ q.op = op
    /\ q.caller = caller
    /\ q.scope = s
    /\ q.found = x
    /\ q.todo = program
    /\ q.reply = "pending"

Replies == {"ok", "refused", "error"}

\* Every request is a record whose calls are a sequence, and is pending exactly
\* while it has calls to make.
RequestsFit ==
    /\ req = [r \in Requests |-> req[r]]
    /\ \A r \in Requests : IsRequest(req[r]) /\ IsProgram(req[r].todo)
    /\ RequestsOK

-----------------------------------------------------------------------------
(* Sequences of calls.                                                      *)

\* Every finite sequence is one, and so is what follows one of another.
LEMMA SeqIsProgram ==
    ASSUME NEW S, NEW s \in Seq(S)
    PROVE  IsProgram(s)
<1> DEFINE T == {s[i] : i \in DOMAIN s}
<1>1. Len(s) \in Nat /\ s \in [1..Len(s) -> S] /\ DOMAIN s = 1..Len(s)
  BY LenProperties
<1>2. s \in [1..Len(s) -> T]
  BY <1>1
<1>3. s \in Seq(T)
  BY <1>1, <1>2, SeqDef
<1>4. QED
  BY <1>3 DEF IsProgram

\* The calls a handler lists one by one are such a sequence.
LEMMA TuplesArePrograms ==
    /\ IsProgram(<<>>)
    /\ \A a : IsProgram(<<a>>)
    /\ \A a, b : IsProgram(<<a, b>>)
    /\ \A a, b, c : IsProgram(<<a, b, c>>)
    /\ \A a, b, c, d : IsProgram(<<a, b, c, d>>)
    /\ \A a, b, c, d, e : IsProgram(<<a, b, c, d, e>>)
    /\ \A a, b, c, d, e, f : IsProgram(<<a, b, c, d, e, f>>)
<1>1. IsProgram(<<>>)
  BY DEF IsProgram
<1>2. ASSUME NEW a, NEW b, NEW c, NEW d, NEW e, NEW f
      PROVE  /\ IsProgram(<<a>>) /\ IsProgram(<<a, b>>) /\ IsProgram(<<a, b, c>>)
             /\ IsProgram(<<a, b, c, d>>) /\ IsProgram(<<a, b, c, d, e>>)
             /\ IsProgram(<<a, b, c, d, e, f>>)
  <2> DEFINE S == {a, b, c, d, e, f}
  <2>1. /\ <<a>> \in Seq(S) /\ <<a, b>> \in Seq(S) /\ <<a, b, c>> \in Seq(S)
        /\ <<a, b, c, d>> \in Seq(S) /\ <<a, b, c, d, e>> \in Seq(S)
        /\ <<a, b, c, d, e, f>> \in Seq(S)
    OBVIOUS
  <2>2. QED
    BY <2>1, SeqIsProgram
<1>3. QED
  BY <1>1, <1>2

\* The calls of a program are numbered from one.
LEMMA ProgramLength ==
    ASSUME NEW s, IsProgram(s)
    PROVE  Len(s) \in Nat /\ DOMAIN s = 1..Len(s)
BY DEF IsProgram

\* One program after another is a program, which makes the calls of each in turn.
LEMMA ProgramConcat ==
    ASSUME NEW s, IsProgram(s), NEW t, IsProgram(t)
    PROVE  /\ IsProgram(s \o t)
           /\ Len(s \o t) = Len(s) + Len(t)
           /\ \A i \in 1..Len(s) + Len(t) :
                (s \o t)[i] = IF i <= Len(s) THEN s[i] ELSE t[i - Len(s)]
<1> DEFINE S == {s[i] : i \in DOMAIN s} \cup {t[i] : i \in DOMAIN t}
<1>1. s \in Seq(S) /\ t \in Seq(S)
  BY SeqMonotonic DEF IsProgram
<1>2. /\ s \o t \in Seq(S)
      /\ Len(s \o t) = Len(s) + Len(t)
      /\ \A i \in 1..Len(s) + Len(t) :
            (s \o t)[i] = IF i <= Len(s) THEN s[i] ELSE t[i - Len(s)]
  BY <1>1, ConcatProperties
<1>3. QED
  BY <1>2, SeqIsProgram

\* The first of two programs has the first call, unless it is empty.
LEMMA ConcatHead ==
    ASSUME NEW s, IsProgram(s), NEW t, IsProgram(t), s # <<>> \/ t # <<>>
    PROVE  s \o t # <<>> /\ (s \o t)[1] = IF s = <<>> THEN t[1] ELSE s[1]
<1>1. /\ IsProgram(s \o t) /\ Len(s \o t) = Len(s) + Len(t)
      /\ \A i \in 1..Len(s) + Len(t) :
            (s \o t)[i] = IF i <= Len(s) THEN s[i] ELSE t[i - Len(s)]
  BY ProgramConcat
<1>2. Len(s) \in Nat /\ Len(t) \in Nat
  BY ProgramLength
<1>3. (Len(s) = 0 <=> s = <<>>) /\ (Len(t) = 0 <=> t = <<>>)
  BY DEF IsProgram
<1>4. Len(s \o t) # 0 /\ (s \o t)[1] = IF s = <<>> THEN t[1] ELSE s[1]
  BY <1>1, <1>2, <1>3
<1>5. QED
  BY <1>4

\* Four calls and one more.
LEMMA FourAndOne ==
    ASSUME NEW a, NEW b, NEW c, NEW d, NEW e
    PROVE  <<a, b, c, d>> \o <<e>> = <<a, b, c, d, e>>
<1>1. PICK s : s = <<a, b, c, d>> \o <<e>>
  OBVIOUS
<1>2. IsProgram(<<a, b, c, d>>) /\ IsProgram(<<e>>)
  BY TuplesArePrograms
<1>3. /\ IsProgram(s) /\ Len(s) = 5
      /\ s[1] = a /\ s[2] = b /\ s[3] = c /\ s[4] = d /\ s[5] = e
  BY <1>1, <1>2, ProgramConcat
<1>4. s = <<a, b, c, d, e>>
  BY <1>3 DEF IsProgram
<1>5. QED
  BY <1>1, <1>4

\* The first call of a program is its head and the others follow it in the tail.
LEMMA ProgramTail ==
    ASSUME NEW s, IsProgram(s), s # <<>>
    PROVE  /\ Len(s) \in Nat \ {0}
           /\ DOMAIN s = 1..Len(s)
           /\ Head(s) = s[1]
           /\ IsProgram(Tail(s))
           /\ Len(Tail(s)) = Len(s) - 1
           /\ \A i \in 1..Len(s) - 1 : Tail(s)[i] = s[i + 1]
           /\ Len(s) = 1 <=> Tail(s) = <<>>
<1> DEFINE S == {s[i] : i \in DOMAIN s}
<1>1. s \in Seq(S)
  BY DEF IsProgram
<1>2. Len(s) \in Nat \ {0} /\ DOMAIN s = 1..Len(s) /\ Head(s) = s[1]
  BY <1>1
<1>3. /\ Tail(s) \in Seq(S) /\ Len(Tail(s)) = Len(s) - 1
      /\ \A i \in 1..Len(s) - 1 : Tail(s)[i] = s[i + 1]
  BY <1>1
<1>4. IsProgram(Tail(s))
  BY <1>3, SeqIsProgram
<1>5. Len(s) = 1 <=> Tail(s) = <<>>
  BY <1>2, <1>3
<1>6. QED
  BY <1>2, <1>3, <1>4, <1>5

\* A function on 1..n is a program of n calls: what a loop over n elements makes.
LEMMA FunctionIsProgram ==
    ASSUME NEW n \in Nat, NEW f, f = [i \in 1..n |-> f[i]]
    PROVE  IsProgram(f) /\ Len(f) = n /\ DOMAIN f = 1..n
<1> DEFINE S == {f[i] : i \in DOMAIN f}
<1>1. f \in [1..n -> S]
  OBVIOUS
<1>2. f \in Seq(S) /\ Len(f) = n
  BY <1>1
<1>3. QED
  BY <1>2, SeqIsProgram

\* A loop over n elements that makes one call for each: the i-th is that for the
\* i-th of them.
LEMMA LoopsOfOne ==
    \A n \in Nat : \A i \in 1..1 * n :
        i \in 1..n /\ ((i - 1) \div 1) + 1 = i /\ ((i - 1) % 1) + 1 = 1
OBVIOUS

\* Two calls for each: every call is one of those for the k-th, and which.
LEMMA LoopsOfTwo ==
    ASSUME NEW n \in Nat
    PROVE  /\ \A i \in 1..2 * n : \E k \in 1..n : i \in {2 * k - 1, 2 * k}
           /\ \A k \in 1..n :
                /\ {2 * k - 1, 2 * k} \subseteq 1..2 * n
                /\ ((2 * k - 1 - 1) \div 2) + 1 = k /\ ((2 * k - 1 - 1) % 2) + 1 = 1
                /\ ((2 * k - 1) \div 2) + 1 = k /\ ((2 * k - 1) % 2) + 1 = 2
<1>1. ASSUME NEW i \in 1..2 * n
      PROVE  \E k \in 1..n : i \in {2 * k - 1, 2 * k}
  <2>1. PICK k \in Int : k = ((i - 1) \div 2) + 1
    OBVIOUS
  <2>2. k \in 1..n
    BY <2>1
  <2>3. QED
    BY <2>1, <2>2
<1>2. QED
  BY <1>1

\* Three calls for each: every call is one of those for the k-th, and which.
LEMMA LoopsOfThree ==
    ASSUME NEW n \in Nat
    PROVE  /\ \A i \in 1..3 * n : \E k \in 1..n : i \in {3 * k - 2, 3 * k - 1, 3 * k}
           /\ \A k \in 1..n :
                /\ {3 * k - 2, 3 * k - 1, 3 * k} \subseteq 1..3 * n
                /\ ((3 * k - 2 - 1) \div 3) + 1 = k /\ ((3 * k - 2 - 1) % 3) + 1 = 1
                /\ ((3 * k - 1 - 1) \div 3) + 1 = k /\ ((3 * k - 1 - 1) % 3) + 1 = 2
                /\ ((3 * k - 1) \div 3) + 1 = k /\ ((3 * k - 1) % 3) + 1 = 3
<1>1. ASSUME NEW i \in 1..3 * n
      PROVE  \E k \in 1..n : i \in {3 * k - 2, 3 * k - 1, 3 * k}
  <2>1. PICK k \in Int : k = ((i - 1) \div 3) + 1
    OBVIOUS
  <2>2. k \in 1..n
    BY <2>1
  <2>3. QED
    BY <2>1, <2>2
<1>2. QED
  BY <1>1

\* Four.
LEMMA LoopsOfFour ==
    ASSUME NEW n \in Nat
    PROVE  /\ \A i \in 1..4 * n : \E k \in 1..n : i \in {4 * k - 3, 4 * k - 2, 4 * k - 1, 4 * k}
           /\ \A k \in 1..n :
                /\ {4 * k - 3, 4 * k - 2, 4 * k - 1, 4 * k} \subseteq 1..4 * n
                /\ ((4 * k - 3 - 1) \div 4) + 1 = k /\ ((4 * k - 3 - 1) % 4) + 1 = 1
                /\ ((4 * k - 2 - 1) \div 4) + 1 = k /\ ((4 * k - 2 - 1) % 4) + 1 = 2
                /\ ((4 * k - 1 - 1) \div 4) + 1 = k /\ ((4 * k - 1 - 1) % 4) + 1 = 3
                /\ ((4 * k - 1) \div 4) + 1 = k /\ ((4 * k - 1) % 4) + 1 = 4
<1>1. ASSUME NEW i \in 1..4 * n
      PROVE  \E k \in 1..n : i \in {4 * k - 3, 4 * k - 2, 4 * k - 1, 4 * k}
  <2>1. PICK k \in Int : k = ((i - 1) \div 4) + 1
    OBVIOUS
  <2>2. k \in 1..n
    BY <2>1
  <2>3. QED
    BY <2>1, <2>2
<1>2. QED
  BY <1>1

-----------------------------------------------------------------------------
(* What a step does to the request that makes it, and to the others.        *)

\* The request has been answered.
Over(q) == \E reply \in Replies : q = Finished(reply)

\* r, having made its first call, goes on about the entity s, having found x.
GoesOn(r, s, x) ==
    /\ Holds(req'[r], req[r].op, req[r].caller, s, x, Tail(req[r].todo))
    /\ req'[r].todo # <<>>

OnlyMoves(r) ==
    /\ RequestsFit'
    /\ \A s \in Requests \ {r} : req'[s] = req[s]

\* A record that fits may take the place of a request.
LEMMA Replaced ==
    ASSUME RequestsFit, NEW r \in Requests, NEW q,
           IsRequest(q), IsProgram(q.todo), q.reply \in {"none", "pending"} \cup Replies,
           q.reply = "pending" <=> q.todo # <<>>,
           req' = [req EXCEPT ![r] = q]
    PROVE  OnlyMoves(r) /\ req'[r] = q
<1>1. req'[r] = q /\ \A s \in Requests \ {r} : req'[s] = req[s]
  BY DEF RequestsFit
<1>2. req' = [s \in Requests |-> req'[s]]
  BY DEF RequestsFit
<1>3. \A s \in Requests : IsRequest(req'[s]) /\ IsProgram(req'[s].todo)
  BY <1>1 DEF RequestsFit
<1>4. RequestsOK'
  BY <1>1 DEF RequestsFit, RequestsOK, Pending, Replies
<1>5. QED
  BY <1>1, <1>2, <1>3, <1>4 DEF OnlyMoves, RequestsFit

\* The fields of a request that was answered.
LEMMA FinishedFields ==
    ASSUME NEW reply
    PROVE  LET q == Finished(reply)
           IN  /\ IsRequest(q)
               /\ q.op = "none" /\ q.caller = None /\ q.scope = None /\ q.found = None
               /\ q.todo = <<>> /\ q.reply = reply
BY DEF Finished, NoRequest, IsRequest, RequestFields

\* An answer ends the request.
LEMMA AnswerStep ==
    ASSUME RequestsFit, NEW r \in Requests, NEW reply \in Replies, Answer(r, reply)
    PROVE  OnlyMoves(r) /\ Over(req'[r])
<1> DEFINE q == Finished(reply)
<1>1. IsRequest(q) /\ q.todo = <<>> /\ q.reply = reply
  BY FinishedFields
<1>2. IsProgram(q.todo)
  BY <1>1 DEF IsProgram
<1>3. OnlyMoves(r) /\ req'[r] = q
  BY <1>1, <1>2, Replaced DEF Answer, Replies
<1>4. QED
  BY <1>3 DEF Over

\* A call that succeeds ends the request or leaves it the calls after this one.
LEMMA AdvanceStep ==
    ASSUME RequestsFit, NEW r \in Requests, Pending(r), NEW s, NEW x,
           req' = [req EXCEPT ![r] = Advance([req[r] EXCEPT !.scope = s, !.found = x])]
    PROVE  OnlyMoves(r) /\ (Over(req'[r]) \/ GoesOn(r, s, x))
<1> DEFINE q == [req[r] EXCEPT !.scope = s, !.found = x]
<1>1. req[r].todo # <<>> /\ req[r].reply = "pending" /\ IsRequest(req[r]) /\ IsProgram(req[r].todo)
  BY DEF RequestsFit, RequestsOK, Pending
<1>2. IsRequest(q) /\ Holds(q, req[r].op, req[r].caller, s, x, req[r].todo)
  BY <1>1 DEF IsRequest, RequestFields, Holds
<1> HIDE DEF q
<1>3. CASE Len(q.todo) = 1
  BY <1>3, AnswerStep DEF Advance, Answer, q, Replies
<1>4. CASE Len(q.todo) # 1
  <2> DEFINE p == [q EXCEPT !.todo = Tail(q.todo)]
  <2>1. IsRequest(p) /\ Holds(p, req[r].op, req[r].caller, s, x, Tail(req[r].todo))
    BY <1>2 DEF IsRequest, RequestFields, Holds
  <2>2. IsProgram(Tail(req[r].todo)) /\ Tail(req[r].todo) # <<>>
    BY <1>1, <1>2, <1>4, ProgramTail DEF Holds
  <2>3. req' = [req EXCEPT ![r] = p]
    BY <1>4 DEF Advance, q
  <2> HIDE DEF p
  <2>4. IsProgram(p.todo) /\ p.todo # <<>> /\ p.reply = "pending"
    BY <2>1, <2>2 DEF Holds
  <2>5. OnlyMoves(r) /\ req'[r] = p
    BY <2>1, <2>3, <2>4, Replaced
  <2>6. QED
    BY <2>1, <2>2, <2>5 DEF GoesOn, Holds
<1>5. QED
  BY <1>3, <1>4

\* The two ways of making a call: with nothing to remember, and with something.
LEMMA DoneStep ==
    ASSUME RequestsFit, NEW r \in Requests, Pending(r), Done(r)
    PROVE  OnlyMoves(r) /\ (Over(req'[r]) \/ GoesOn(r, req[r].scope, req[r].found))
<1>1. req[r] = [req[r] EXCEPT !.scope = req[r].scope, !.found = req[r].found]
  BY DEF RequestsFit, IsRequest, RequestFields
<1>2. QED
  BY <1>1, AdvanceStep DEF Done

\* A call that reads leaves what it found in memory and the calls after it.
LEMMA RememberStep ==
    ASSUME RequestsFit, NEW r \in Requests, Pending(r), NEW x, Remember(r, x)
    PROVE  OnlyMoves(r) /\ (Over(req'[r]) \/ GoesOn(r, req[r].scope, x))
<1>1. [req[r] EXCEPT !.found = x] = [req[r] EXCEPT !.scope = req[r].scope, !.found = x]
  BY DEF RequestsFit, IsRequest, RequestFields
<1>2. QED
  BY <1>1, AdvanceStep DEF Remember

\* A branch ends the request or gives it the calls of the branch.
LEMMA ContinueStep ==
    ASSUME RequestsFit, NEW r \in Requests, Pending(r), NEW s, NEW x, NEW program,
           IsProgram(program), Continue(r, s, x, program)
    PROVE  /\ OnlyMoves(r)
           /\ \/ Over(req'[r])
              \/ program # <<>> /\ Holds(req'[r], req[r].op, req[r].caller, s, x, program)
<1>1. CASE program = <<>>
  BY <1>1, AnswerStep DEF Continue, Replies
<1>2. CASE program # <<>>
  <2> DEFINE q == [req[r] EXCEPT !.scope = s, !.found = x, !.todo = program]
  <2>1. IsRequest(q) /\ Holds(q, req[r].op, req[r].caller, s, x, program)
    BY DEF RequestsFit, IsRequest, RequestFields, Pending, Holds
  <2>2. req' = [req EXCEPT ![r] = q]
    BY <1>2 DEF Continue
  <2> HIDE DEF q
  <2>3. OnlyMoves(r) /\ req'[r] = q
    BY <1>2, <2>1, <2>2, Replaced DEF Holds
  <2>4. QED
    BY <1>2, <2>1, <2>3
<1>3. QED
  BY <1>1, <1>2

\* A branch may also end the request or leave it the rest of its calls.
LEMMA ContinueTailStep ==
    ASSUME RequestsFit, NEW r \in Requests, Pending(r), NEW s, NEW x,
           Continue(r, s, x, Tail(req[r].todo))
    PROVE  OnlyMoves(r) /\ (Over(req'[r]) \/ GoesOn(r, s, x))
<1>1. IsProgram(Tail(req[r].todo))
  BY ProgramTail DEF RequestsFit, RequestsOK
<1>2. QED
  BY <1>1, ContinueStep DEF GoesOn, Holds

\* A request that arrives has all its calls to make.
LEMMA BeginStep ==
    ASSUME RequestsFit, NEW r \in Requests, NEW op, NEW caller, NEW scope, NEW program,
           IsProgram(program), program # <<>>, Begin(r, op, caller, scope, program)
    PROVE  /\ OnlyMoves(r)
           /\ req[r] = NoRequest
           /\ Holds(req'[r], op, caller, scope, None, program)
<1> DEFINE q == [NoRequest EXCEPT !.op = op, !.caller = caller, !.scope = scope,
                                  !.todo = program, !.reply = "pending"]
<1>1. IsRequest(q) /\ Holds(q, op, caller, scope, None, program)
  BY DEF NoRequest, IsRequest, RequestFields, Holds
<1>2. req' = [req EXCEPT ![r] = q] /\ req[r] = NoRequest
  BY DEF Begin, MayBegin
<1> HIDE DEF q
<1>3. QED
  BY <1>1, <1>2, Replaced DEF Holds

\* At the start no request has arrived.
LEMMA InitialRequests ==
    ASSUME req = [r \in Requests |-> NoRequest]
    PROVE  RequestsFit /\ \A r \in Requests : req[r] = NoRequest /\ ~Pending(r)
<1>1. \A r \in Requests : req[r] = NoRequest
  OBVIOUS
<1>2. IsRequest(NoRequest) /\ NoRequest.todo = <<>> /\ NoRequest.reply = "none"
  BY DEF IsRequest, RequestFields, NoRequest
<1>3. IsProgram(NoRequest.todo)
  BY <1>2 DEF IsProgram
<1>4. QED
  BY <1>1, <1>2, <1>3 DEF RequestsFit, RequestsOK, Pending

-----------------------------------------------------------------------------
(* One request at a time.                                                   *)

Alone ==
    /\ IsFiniteSet(InFlight)
    /\ \A r, s \in Requests : Pending(r) /\ Pending(s) => r = s

\* Where requests come one at a time, whoever makes a step is the only one there is.
LEMMA AloneKept ==
    ASSUME MaxInFlight = 1, Alone, NEW r \in Requests, OnlyMoves(r), Pending(r) \/ MayBegin(r)
    PROVE  /\ Alone'
           /\ \A s \in Requests \ {r} : ~Pending(s) /\ ~Pending(s)'
<1>1. \A s \in Requests \ {r} : ~Pending(s)
  <2>1. CASE Pending(r)
    BY <2>1 DEF Alone
  <2>2. CASE Cardinality(InFlight) < 1
    <3>1. InFlight = {}
      BY <2>2, FS_CardinalityType, FS_EmptySet DEF Alone
    <3>2. QED
      BY <3>1 DEF InFlight
  <2>3. QED
    BY <2>1, <2>2 DEF MayBegin
<1>2. \A s \in Requests \ {r} : ~Pending(s)'
  BY <1>1 DEF OnlyMoves, Pending
<1>3. InFlight' \subseteq {r}
  BY <1>2 DEF InFlight
<1>4. IsFiniteSet(InFlight)'
  BY <1>3, FS_Singleton, FS_Subset
<1>5. QED
  BY <1>1, <1>2, <1>4 DEF Alone

\* Nor is there anybody when there is no request yet.
LEMMA AloneAtFirst ==
    ASSUME \A r \in Requests : ~Pending(r)
    PROVE  Alone /\ InFlight = {}
<1>1. InFlight = {}
  BY DEF InFlight
<1>2. QED
  BY <1>1, FS_EmptySet DEF Alone

=============================================================================
