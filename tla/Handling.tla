------------------------------ MODULE Handling ------------------------------
(***************************************************************************)
(* How the server handles HTTP requests.  Every request runs in a goroutine *)
(* of its own and is the straight-line program of the database calls its    *)
(* handler makes.  A call is a record: what it does and its argument.       *)
(***************************************************************************)
EXTENDS Naturals, SequencesExt

CONSTANTS
    Requests,        \* the HTTP requests of a behaviour, each handled once
    MaxInFlight,     \* bound: requests being handled at the same time
    Handlers,        \* the handlers a behaviour exercises
    None

ASSUME HandlingAssumption == MaxInFlight \in Nat \ {0}

VARIABLE req         \* req[r]: the request r as its handler sees it

(***************************************************************************)
(* A request: its caller, the entity it is about, the calls still to be     *)
(* made, what an earlier call read and the reply.                           *)
(***************************************************************************)
NoRequest == [op |-> "none", caller |-> None, scope |-> None, todo |-> <<>>,
              found |-> None, reply |-> "none"]

Call(name, arg) == [do |-> name, arg |-> arg]

Pending(r) == req[r].reply = "pending"
InFlight == {r \in Requests : Pending(r)}
At(r, name) == Pending(r) /\ Head(req[r].todo).do = name
Arg(r) == Head(req[r].todo).arg

\* A request that has been answered: only the reply is left of it.
Finished(reply) == [NoRequest EXCEPT !.reply = reply]
Answer(r, reply) == req' = [req EXCEPT ![r] = Finished(reply)]

\* q after its current call succeeded; the last call ends the request.
Advance(q) ==
    IF Len(q.todo) = 1 THEN Finished("ok") ELSE [q EXCEPT !.todo = Tail(@)]

Done(r) == req' = [req EXCEPT ![r] = Advance(@)]
Remember(r, x) == req' = [req EXCEPT ![r] = Advance([@ EXCEPT !.found = x])]

\* Mutation: a branch that has nothing left to do does not answer.
ContinueUnanswered(r, s, x, program) ==
    req' = [req EXCEPT ![r].scope = s, ![r].found = x, ![r].todo = program]

\* The handler branches: it goes on about the entity s, of which it read x,
\* with the given calls, if there are any.
Continue(r, s, x, program) ==
    IF program = <<>> THEN Answer(r, "ok")
    ELSE req' = [req EXCEPT ![r].scope = s, ![r].found = x, ![r].todo = program]

\* r may arrive, whatever it asks.  The next-state relations say so before they
\* choose a caller and a request, of which there are many.
MayBegin(r) == req[r] = NoRequest /\ Cardinality(InFlight) < MaxInFlight

\* A request arrives.
Begin(r, op, caller, scope, program) ==
    /\ op \in Handlers
    /\ MayBegin(r)
    /\ req' = [req EXCEPT ![r] =
                  [NoRequest EXCEPT !.op = op, !.caller = caller,
                                    !.scope = scope, !.todo = program,
                                    !.reply = "pending"]]

\* The next call of r is a check among names: the request goes on or is refused.
Guarded(r, names, Allows(_, _)) ==
    /\ Pending(r)
    /\ Head(req[r].todo).do \in names
    /\ req' = [req EXCEPT ![r] =
                  IF Allows(@, Head(@.todo)) THEN Advance(@) ELSE Finished("refused")]

\* A database call fails, or the process dies with the request in it.
Abandon(r) == Pending(r) /\ Answer(r, "error")

\* The n calls a loop makes for each element of s, one element after the other.
ForEach(s, n, Calls(_)) ==
    [i \in 1..n * Len(s) |-> Calls(s[((i - 1) \div n) + 1])[((i - 1) % n) + 1]]

\* A request is pending exactly while it has calls to make.
RequestsOK ==
    \A r \in Requests :
        /\ req[r].reply \in {"none", "pending", "ok", "refused", "error"}
        /\ Pending(r) <=> req[r].todo # <<>>

=============================================================================
