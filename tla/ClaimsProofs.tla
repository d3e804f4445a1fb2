---------------------------- MODULE ClaimsProofs ----------------------------
(***************************************************************************)
(* What holds of wishes and claims for any users, wishlists, wishes and     *)
(* requests, any number of them in flight.                                  *)
(*                                                                          *)
(* The requests about groups and wishlists keep what SharingProofs says of  *)
(* them; those about wishes touch none of their tables.  Of a request about *)
(* a wish the invariant says which wish it is about, what it has read of    *)
(* it, and which of its checks still mean something when the next call runs. *)
(*                                                                          *)
(* The order of the categories is kept where requests come one at a time:   *)
(* there the invariant also says what a request owes the categories before  *)
(* its next call.  Last, claims and the public page, one request at a time:  *)
(* what a request has read or checked is so when it makes the next call.     *)
(***************************************************************************)
EXTENDS WishClaims, SharingProofs

WishCalls ==
    WishChecks \cup ClaimChecks \cup
    {"readWish", "readEditor", "selectCategory", "findCategory", "createCategory", "createWish",
     "saveWish", "disableWish", "countWishes", "clearCategory", "disableCategory",
     "readOwnership", "createClaim", "dropClaim", "pickWish", "readClaims", "showWish"}

\* The calls that give a wish its category, those that look after the one it had, and
\* those after which a request is not over.
Choosing == {"createCategory", "createWish", "saveWish"}
Cleaning == {"countWishes", "clearCategory", "disableCategory"}
Midway == {"createCategory", "saveWish", "disableWish", "countWishes", "clearCategory"}

-----------------------------------------------------------------------------
(* The tables.                                                              *)

\* Claims are of wishes that were created; a wish that is not in force was deleted.
ClaimsFit ==
    /\ claim \subseteq [id: 1..nextId, wish: Wishes, user: Users]
    /\ \A c \in claim : wish[c.wish] # NoWish
    /\ \A w \in Wishes : wish[w] # NoWish /\ ~wish[w].enabled => w \in deleted

\* What a request found when it began had ids that had been given out.
BeforeFits ==
    \A r \in Requests :
        \A c \in before[r].claims \cup before[r].collaborators : c.id \in 1..nextId

-----------------------------------------------------------------------------
(* The requests.                                                            *)

\* The request is about a wishlist and not yet, or never, about a wish.
OnList(op, c) ==
    \/ op = "RegisterWish"
    \/ c.do \in {"publicList", "pickWish"}
    \/ op = "GetWishesFromWishlist" /\ c.do \in {"readOwnership", "mayView"}

\* The calls that need a draft of the wish in memory, and those that need its row.
NeedsDraft(op, c) == op = "RegisterWish" /\ c.do # "readEditor"
NeedsWish(op, c) == ~OnList(op, c) /\ c.do # "readWish"

\* Only the public page has no caller.
WishCallFits(q, c) ==
    /\ c.do \in WishCalls
    /\ \/ q.caller \in Users
       \/ c.do \in {"publicList", "pickWish", "creatorExists", "readClaims", "listExists",
                    "listOwnerExists", "showWish"}
    /\ c.do = "selectCategory" => c.arg \in Categories
    /\ c.do = "createCategory" => c.arg \in CategoryNames
    /\ c.do = "createWish" => q.op = "RegisterWish"
    /\ q.op = "RegisterWish" => c.do \in {"readEditor", "mayEditWish", "selectCategory",
                                          "findCategory", "createCategory", "createWish"}

\* The call d may come right after c.
WishFollows(op, c, d) ==
    /\ OnList(op, d) <=> OnList(op, c) /\ c.do # "pickWish"
    /\ d.do = "notOwnWish" => c.do = "notInsider"
    /\ d.do = "notClaimed" => c.do = "notOwnWish"
    /\ d.do = "createClaim" => c.do = "notClaimed"
    /\ c.do = "findCategory" <=> d.do = "createCategory"
    /\ c.do = "findCategory" => d.arg = c.arg
    /\ c.do \in {"selectCategory", "createCategory"} => d.do \in {"createWish", "saveWish"}
    /\ d.do \in {"createWish", "saveWish"} =>
          c.do \in {"mayEditWish", "selectCategory", "createCategory"}
    /\ c.do \in {"saveWish", "disableWish"} <=> d.do = "countWishes"
    /\ c.do = "countWishes" <=> d.do = "clearCategory"
    /\ c.do = "clearCategory" <=> d.do = "disableCategory"
    /\ c.do \notin {"createWish", "disableCategory", "dropClaim"}

\* x is about the wish w, whoever may have edited it since.
RowIs(w, x) ==
    /\ x \in Drafts
    /\ wish[w] # NoWish
    /\ x.row.owner = wish[w].owner /\ x.row.list = wish[w].list

\* What is left of the checks of RegisterWishClaim once they have let q through,
\* which found b when it began.
NotInsider(q, b) ==
    \A c \in collaborator \cap b.collaborators :
        c.list = wish[q.scope].list /\ c.user = q.caller => ~user[c.user]
NotOwn(q) == wish[q.scope].owner = q.caller => q.scope \in deleted
NotClaimed(q, b) == LiveClaims(q.scope) \cap b.claims = {}

WishHeadReady(q, b, c) ==
    /\ q.found \in Drafts \cup {None}
    /\ q.scope \in IF OnList(q.op, c) THEN Lists ELSE Wishes
    /\ NeedsDraft(q.op, c) => q.found \in Drafts
    /\ NeedsWish(q.op, c) => RowIs(q.scope, q.found)
    /\ c.do \in {"notOwnWish", "notClaimed"} => NotInsider(q, b)
    /\ c.do \in {"notClaimed", "createClaim"} => NotOwn(q)
    /\ c.do = "createClaim" => NotClaimed(q, b)

\* The calls of a request about wishes fit, in themselves, one after the other, at the
\* head and at the end.
WishProgramFits(q, s) ==
    /\ \A i \in DOMAIN s : WishCallFits(q, s[i])
    /\ \A i \in DOMAIN s \ {1} : WishFollows(q.op, s[i - 1], s[i])
Ends(s) == s[Len(s)].do \notin Midway
WishReady(q, b) ==
    q.op \notin SharingOps =>
        /\ WishProgramFits(q, q.todo)
        /\ q.todo # <<>> => WishHeadReady(q, b, Head(q.todo)) /\ Ends(q.todo)

ClaimsInv ==
    /\ SharingInv
    /\ WishesTypeOK /\ ClaimsFit /\ BeforeFits
    /\ NoOwnWishClaimed
    /\ \A r \in Requests : WishReady(req[r], before[r])

\* What other requests rely on is never taken back: a wish keeps its owner and its
\* list, users only leave, and what is new has a fresh id.
ClaimsGrow ==
    /\ Grows
    /\ \A u \in Users : user'[u] => user[u]
    /\ \A c \in collaborator' \ collaborator : c.id \in 1..nextId' /\ c.id > nextId
    /\ \A w \in Wishes :
          IF wish[w] # NoWish
          THEN wish'[w] # NoWish /\ wish'[w].owner = wish[w].owner /\ wish'[w].list = wish[w].list
          ELSE wish'[w] = NoWish \/ wish'[w].enabled
    /\ \A c \in claim' \ claim :
          /\ c \in [id: 1..nextId', wish: Wishes, user: Users] /\ c.id > nextId
          /\ wish[c.wish] # NoWish
          /\ wish[c.wish].owner = c.user => c.wish \in deleted
    /\ deleted \subseteq deleted'

-----------------------------------------------------------------------------
(* Requests about wishes and the tables of SharingProofs.                   *)

\* A request that makes no call of those is ready for what SharingProofs asks.
LEMMA OthersAreReady ==
    ASSUME NEW q, q.op \notin SharingOps, IsProgram(q.todo),
           \A i \in DOMAIN q.todo : q.todo[i].do \notin SharingCalls
    PROVE  Ready(q) /\ Ready(q)'
<1>1. ASSUME NEW c, c.do \notin SharingCalls
      PROVE  /\ CallFits(q, c) /\ ~NeedsRow(q.op, c) /\ c.do \notin {"dropMember", "saveList"}
             /\ \A n : ~RestsOn(q, c, n)
  <2>1. CallFits(q, c)
    BY <1>1 DEF CallFits, SharingCalls, SharingOps, Checks, GroupCalls, ListCalls
  <2>2. ~NeedsRow(q.op, c) /\ c.do \notin {"dropMember", "saveList"}
    BY <1>1 DEF NeedsRow, SharingCalls, SharingOps
  <2>3. \A n : ~RestsOn(q, c, n)
    BY <1>1 DEF RestsOn, SharingCalls, Checks
  <2>4. QED
    BY <2>1, <2>2, <2>3
<1>2. ProgramFits(q, q.todo) /\ Founded(q, q.todo)
  BY <1>1, ProgramLength DEF ProgramFits, Founded, Follows
<1>3. ASSUME q.todo # <<>>
      PROVE  HeadReady(q, Head(q.todo)) /\ HeadReady(q, Head(q.todo))'
  <2>1. Head(q.todo).do \notin SharingCalls
    BY <1>3, ProgramTail
  <2>2. QED
    BY <1>1, <2>1 DEF HeadReady
<1>4. Founded(q, q.todo)'
  BY <1>1 DEF Founded
<1>5. QED
  BY <1>2, <1>3, <1>4 DEF Ready

\* A request whose next call is not one of those makes none of them.
LEMMA NoSharingCall ==
    ASSUME SharingInv, NEW r \in Requests, NEW q, NEW h, Calls(r, q, h),
           h.do \notin SharingCalls
    PROVE  /\ q.op \notin SharingOps
           /\ \A i \in DOMAIN q.todo : q.todo[i].do \notin SharingCalls
<1>1. CallFits(q, h)
  BY NextCall
<1>2. q.op \notin SharingOps
  BY <1>1 DEF CallFits
<1>3. ProgramFits(q, q.todo)
  BY DEF Calls, SharingInv, Ready
<1>4. QED
  BY <1>2, <1>3 DEF ProgramFits, CallFits

\* A call about wishes leaves groups, wishlists and their requests as they were.
LEMMA WishStepKeepsSharing ==
    ASSUME SharingInv, NEW r \in Requests, NEW q, NEW h, Calls(r, q, h),
           h.do \notin SharingCalls,
           OnlyMoves(r), NEW s, NEW x, Over(req'[r]) \/ GoesOn(r, s, x),
           UNCHANGED <<user, group, groupMember, list, listGroup, collaborator>>,
           nextId' \in Nat, nextId <= nextId'
    PROVE  KeepsInv(r)
<1>1. PICK p : p = req'[r]
  OBVIOUS
<1>2. CASE Over(p)
  <2>1. Ready(p)'
    BY <1>2, OverIsReady
  <2>2. QED
    BY <1>1, <2>1, NoWriteKeepsInv
<1>3. CASE GoesOn(r, s, x)
  <2>1. /\ q.op \notin SharingOps /\ q = req[r]
        /\ \A i \in DOMAIN q.todo : q.todo[i].do \notin SharingCalls
    BY NoSharingCall DEF Calls
  <2>2. /\ p.op = q.op /\ p.todo = Tail(q.todo)
        /\ q.todo # <<>> /\ IsProgram(q.todo)
    BY <1>1, <1>3, <2>1 DEF GoesOn, Holds, Calls, SharingInv, RequestsFit, RequestsOK
  <2>3. IsProgram(p.todo) /\ \A i \in DOMAIN p.todo : p.todo[i].do \notin SharingCalls
    <3>1. /\ Len(q.todo) \in Nat \ {0} /\ DOMAIN q.todo = 1..Len(q.todo)
          /\ IsProgram(p.todo) /\ Len(p.todo) = Len(q.todo) - 1
          /\ \A i \in 1..Len(q.todo) - 1 : p.todo[i] = q.todo[i + 1]
      BY <2>2, ProgramTail
    <3>2. DOMAIN p.todo = 1..Len(q.todo) - 1
      BY <3>1, ProgramLength
    <3>3. \A i \in 1..Len(q.todo) - 1 : i + 1 \in 1..Len(q.todo)
      BY <3>1
    <3>4. QED
      BY <2>1, <3>1, <3>2, <3>3
  <2>4. Ready(p)'
    BY <2>1, <2>2, <2>3, OthersAreReady
  <2>5. QED
    BY <1>1, <2>4, NoWriteKeepsInv
<1>4. QED
  BY <1>1, <1>2, <1>3

\* So does the arrival of a request about wishes.
LEMMA WishRequestKeepsSharing ==
    ASSUME SharingInv, NEW r \in Requests, NEW op, NEW u, NEW scope, NEW program,
           op \notin SharingOps, IsProgram(program), program # <<>>,
           \A i \in DOMAIN program : program[i].do \notin SharingCalls,
           Accept(r, op, u, scope, program)
    PROVE  KeepsInv(r) /\ Holds(req'[r], op, u, scope, None, program)
<1>1. OnlyMoves(r) /\ Holds(req'[r], op, u, scope, None, program)
  BY BeginStep DEF Accept, SharingInv
<1>2. PICK p : p = req'[r]
  OBVIOUS
<1>3. p.op \notin SharingOps /\ p.todo = program
  BY <1>1, <1>2 DEF Holds
<1>4. Ready(p)'
  BY <1>3, OthersAreReady
<1>5. UNCHANGED tables /\ nextId \in Nat
  BY DEF Accept, SharingInv, TablesFit
<1>6. QED
  BY <1>1, <1>2, <1>4, <1>5, NoWriteKeepsInv DEF tables

-----------------------------------------------------------------------------
(* Requests that wait, and the one that moves.                              *)

\* A row that was read stays one of the wish.
LEMMA RowStays ==
    ASSUME ClaimsGrow, NEW w \in Wishes, NEW x, RowIs(w, x)
    PROVE  RowIs(w, x)'
BY DEF RowIs, ClaimsGrow

\* What the checks of a claim have shown stays so, whatever other requests do: who was
\* no collaborator does not become one of those there were at the beginning.
LEMMA ResiduesStay ==
    ASSUME ClaimsInv, ClaimsGrow, NEW r \in Requests, NEW q, q.scope \in Wishes,
           wish[q.scope] # NoWish, NEW b, b = before[r]
    PROVE  /\ NotInsider(q, b) => NotInsider(q, b)'
           /\ NotOwn(q) => NotOwn(q)'
           /\ NotClaimed(q, b) => NotClaimed(q, b)'
<1>0. wish'[q.scope].owner = wish[q.scope].owner /\ wish'[q.scope].list = wish[q.scope].list
  BY DEF ClaimsGrow
<1>1. nextId \in Nat /\ \A c \in b.claims \cup b.collaborators : c.id <= nextId
  BY DEF ClaimsInv, BeforeFits, SharingInv, TablesFit
<1>2. ASSUME NotInsider(q, b) PROVE NotInsider(q, b)'
  <2>1. ASSUME NEW c \in collaborator' \cap b.collaborators, c.list = wish'[q.scope].list,
               c.user = q.caller, user'[c.user]
        PROVE  FALSE
    <3>1. c \in collaborator
      <4>1. CASE c \in collaborator' \ collaborator
        <5>1. c.id > nextId /\ c.id <= nextId /\ c.id \in 1..nextId'
          BY <1>1, <2>1, <4>1 DEF ClaimsGrow
        <5>2. c.id \in Int
          BY <5>1
        <5>3. QED
          BY <1>1, <5>1, <5>2
      <4>2. QED
        BY <2>1, <4>1
    <3>2. user[c.user]
      BY <2>1, <3>1 DEF ClaimsGrow, ClaimsInv, SharingInv, TablesFit
    <3>3. QED
      BY <1>0, <1>2, <2>1, <3>1, <3>2 DEF NotInsider
  <2>2. QED
    BY <2>1 DEF NotInsider
<1>3. ASSUME NotOwn(q) PROVE NotOwn(q)'
  BY <1>0, <1>3 DEF NotOwn, ClaimsGrow
<1>4. ASSUME NotClaimed(q, b) PROVE NotClaimed(q, b)'
  <2>1. ASSUME NEW c \in LiveClaims(q.scope)', c \in b.claims
        PROVE  FALSE
    <3>1. c \in claim' /\ c.wish = q.scope /\ user'[c.user]
      BY <2>1 DEF LiveClaims
    <3>2. c \in claim
      <4>1. CASE c \in claim' \ claim
        <5>1. c.id > nextId /\ c.id <= nextId /\ c.id \in 1..nextId'
          BY <1>1, <2>1, <4>1 DEF ClaimsGrow
        <5>2. c.id \in Int
          BY <5>1
        <5>3. QED
          BY <1>1, <5>1, <5>2
      <4>2. QED
        BY <3>1, <4>1
    <3>3. user[c.user]
      BY <3>1, <3>2 DEF ClaimsGrow, ClaimsInv, ClaimsFit
    <3>4. c \in LiveClaims(q.scope)
      BY <3>1, <3>2, <3>3 DEF LiveClaims
    <3>5. QED
      BY <1>4, <2>1, <3>4 DEF NotClaimed
  <2>2. QED
    BY <2>1 DEF NotClaimed
<1>5. QED
  BY <1>2, <1>3, <1>4

\* The calls that rest on a check of RegisterWishClaim need the row of the wish.
ClaimingCalls == {"notOwnWish", "notClaimed", "createClaim"}

\* A call that may be made next may still be made when others have run.
LEMMA WishHeadStays ==
    ASSUME ClaimsInv, ClaimsGrow, NEW r \in Requests, NEW b, b = before[r],
           NEW q, NEW c, WishCallFits(q, c), WishHeadReady(q, b, c)
    PROVE  WishHeadReady(q, b, c)'
<1>1. NeedsWish(q.op, c) => RowIs(q.scope, q.found)'
  BY RowStays DEF WishHeadReady, NeedsWish
<1>2. ASSUME c.do \in ClaimingCalls
      PROVE  q.scope \in Wishes /\ wish[q.scope] # NoWish
  <2>1. q.op # "RegisterWish" /\ ~OnList(q.op, c) /\ NeedsWish(q.op, c)
    BY <1>2 DEF WishCallFits, OnList, NeedsWish, ClaimingCalls
  <2>2. QED
    BY <2>1 DEF WishHeadReady, RowIs
<1>3. ASSUME c.do \in ClaimingCalls
      PROVE  /\ NotInsider(q, b) => NotInsider(q, b)'
             /\ NotOwn(q) => NotOwn(q)'
             /\ NotClaimed(q, b) => NotClaimed(q, b)'
  BY <1>2, <1>3, ResiduesStay
<1>4. QED
  BY <1>1, <1>3 DEF WishHeadReady, ClaimingCalls

\* A request that waits stays ready.
LEMMA WishReadyStays ==
    ASSUME ClaimsInv, ClaimsGrow, NEW r \in Requests, NEW b, b = before[r],
           NEW q, IsProgram(q.todo), WishReady(q, b)
    PROVE  WishReady(q, b)'
<1>1. ASSUME q.op \notin SharingOps, q.todo # <<>>
      PROVE  WishHeadReady(q, b, Head(q.todo))'
  <2>1. WishProgramFits(q, q.todo) /\ WishHeadReady(q, b, Head(q.todo))
    BY <1>1 DEF WishReady
  <2>2. WishCallFits(q, Head(q.todo))
    BY <1>1, <2>1, ProgramTail DEF WishProgramFits
  <2>3. QED
    BY <2>1, <2>2, WishHeadStays
<1>2. QED
  BY <1>1 DEF WishReady, Ends

\* The next call of a request about wishes, which fits and may be made.
LEMMA NextWishCall ==
    ASSUME ClaimsInv, NEW r \in Requests, NEW q, NEW h, Calls(r, q, h), h.do \in WishCalls
    PROVE  /\ q.op \notin SharingOps /\ h.do \notin SharingCalls
           /\ WishCallFits(q, h) /\ WishHeadReady(q, before[r], h)
           /\ WishProgramFits(q, q.todo) /\ IsProgram(q.todo) /\ q.todo # <<>>
           /\ Ends(q.todo)
<1>1. h.do \notin SharingCalls
  BY DEF WishCalls, WishChecks, ClaimChecks, SharingCalls, Checks
<1>2. q.op \notin SharingOps
  BY <1>1, NoSharingCall DEF ClaimsInv
<1>3. q.todo # <<>> /\ IsProgram(q.todo) /\ h = Head(q.todo)
  BY NextCall DEF ClaimsInv, Calls
<1>4. WishProgramFits(q, q.todo) /\ WishHeadReady(q, before[r], h) /\ Ends(q.todo)
  BY <1>2, <1>3 DEF ClaimsInv, WishReady, Calls
<1>5. WishCallFits(q, h)
  BY <1>3, <1>4, ProgramTail DEF WishProgramFits
<1>6. QED
  BY <1>1, <1>2, <1>3, <1>4, <1>5

\* The calls after the first fit.
LEMMA WishTail ==
    ASSUME NEW q, IsProgram(q.todo), q.todo # <<>>, WishProgramFits(q, q.todo),
           Tail(q.todo) # <<>>,
           NEW p, p.op = q.op, p.caller = q.caller, p.todo = Tail(q.todo)
    PROVE  /\ WishProgramFits(p, p.todo)
           /\ WishCallFits(q, Head(q.todo)) /\ WishCallFits(p, Head(p.todo))
           /\ WishFollows(q.op, Head(q.todo), Head(p.todo))
           /\ Ends(q.todo) => Ends(p.todo)
<1> DEFINE s == q.todo
           t == p.todo
<1>1. /\ Len(s) \in Nat \ {0} /\ DOMAIN s = 1..Len(s) /\ Head(s) = s[1]
      /\ IsProgram(t) /\ Len(t) = Len(s) - 1
      /\ \A i \in 1..Len(s) - 1 : t[i] = s[i + 1]
  BY ProgramTail
<1>2. DOMAIN t = 1..Len(s) - 1 /\ Head(t) = t[1] /\ Len(s) > 1 /\ t[1] = s[2]
  BY <1>1, ProgramTail
<1>3. ASSUME NEW i \in DOMAIN t PROVE WishCallFits(p, t[i])
  <2>1. i + 1 \in DOMAIN s /\ t[i] = s[i + 1]
    BY <1>1, <1>2
  <2>2. WishCallFits(q, t[i])
    BY <2>1 DEF WishProgramFits
  <2>3. QED
    BY <2>2 DEF WishCallFits
<1>4. ASSUME NEW i \in DOMAIN t \ {1} PROVE WishFollows(p.op, t[i - 1], t[i])
  <2>1. /\ i - 1 \in 1..Len(s) - 1 /\ i \in 1..Len(s) - 1
        /\ (i - 1) + 1 = i /\ (i + 1) - 1 = i /\ i + 1 \in DOMAIN s \ {1}
    BY <1>1, <1>2
  <2>2. t[i - 1] = s[(i + 1) - 1] /\ t[i] = s[i + 1]
    BY <1>1, <2>1
  <2>3. QED
    BY <2>1, <2>2 DEF WishProgramFits
<1>5. WishCallFits(q, s[1]) /\ WishFollows(q.op, s[1], s[2])
  BY <1>1, <1>2 DEF WishProgramFits
<1>6. WishProgramFits(p, t)
  BY <1>3, <1>4 DEF WishProgramFits
<1>7. 1 \in DOMAIN t /\ Head(s) = s[1] /\ Head(t) = t[1] /\ t[1] = s[2]
  BY <1>1, <1>2
<1>8. WishCallFits(p, t[1])
  BY <1>3, <1>7
<1>9. t[Len(t)] = s[Len(s)]
  BY <1>1, <1>2
<1> HIDE DEF s, t
<1>10. QED
  BY <1>5, <1>6, <1>7, <1>8, <1>9 DEF s, t, Ends

\* A request keeps what it found when it began until it is answered.
LEMMA BeforeStays ==
    ASSUME Remembering, NEW r \in Requests, Pending(r), req'[r].reply = "pending"
    PROVE  before'[r] = before[r]
BY DEF Remembering, Pending

\* What a call h of q has to leave behind when q goes on about s, having read x.
Leaves(q, b, h, s, x) ==
    /\ x \in Drafts \cup {None}
    /\ IF h.do = "pickWish" THEN s \in Wishes ELSE s = q.scope
    /\ h.do = "readEditor" \/ q.found \in Drafts => x \in Drafts
    /\ h.do \in {"readWish", "pickWish"} \/ NeedsWish(q.op, h) => s \in Wishes /\ RowIs(s, x)
    /\ h.do = "notInsider" => NotInsider(q, b)
    /\ h.do = "notOwnWish" => NotOwn(q)
    /\ h.do = "notClaimed" => NotClaimed(q, b)

\* The request that goes on is ready for its next call.
LEMMA WishMovesOn ==
    ASSUME ClaimsInv, ClaimsGrow, Remembering, NEW r \in Requests, NEW q, NEW h,
           Calls(r, q, h), h.do \in WishCalls, NEW s, NEW x, OnlyMoves(r),
           Over(req'[r]) \/ GoesOn(r, s, x),
           Leaves(q, before[r], h, s, x)
    PROVE  WishReady(req[r], before[r])'
<1>1. PICK p : p = req'[r]
  OBVIOUS
<1>2. PICK b : b = before[r]
  OBVIOUS
<1>3. CASE Over(p)
  <2>1. p.todo = <<>>
    BY <1>3, FinishedFields DEF Over
  <2>2. QED
    BY <1>1, <2>1 DEF WishReady, WishProgramFits
<1>4. CASE GoesOn(r, s, x)
  <2>1. /\ q.op \notin SharingOps /\ WishCallFits(q, h) /\ WishHeadReady(q, b, h)
        /\ WishProgramFits(q, q.todo) /\ IsProgram(q.todo) /\ q.todo # <<>> /\ Ends(q.todo)
        /\ q = req[r] /\ Pending(r) /\ h = Head(q.todo)
    BY <1>2, NextWishCall DEF Calls
  <2>2. /\ p.op = q.op /\ p.caller = q.caller /\ p.scope = s /\ p.found = x
        /\ p.todo = Tail(q.todo) /\ p.todo # <<>> /\ p.reply = "pending"
    BY <1>1, <1>4, <2>1 DEF GoesOn, Holds
  <2>3. b = before'[r]
    BY <1>1, <1>2, <2>1, <2>2, BeforeStays
  <2>4. PICK d : d = Head(p.todo)
    OBVIOUS
  <2>5. /\ WishProgramFits(p, p.todo) /\ WishCallFits(p, d) /\ WishFollows(q.op, h, d)
        /\ Ends(p.todo)
    BY <2>1, <2>2, <2>4, WishTail
  <2>6. x \in Drafts \cup {None}
    BY DEF Leaves
  <2>7. s \in IF OnList(q.op, d) THEN Lists ELSE Wishes
    BY <2>1, <2>5 DEF Leaves, WishFollows, WishHeadReady, OnList
  <2>8. NeedsDraft(q.op, d) => x \in Drafts
    BY <2>1 DEF NeedsDraft, Leaves, WishHeadReady
  <2>9. NeedsWish(q.op, d) => RowIs(s, x)'
    BY <2>5, RowStays DEF NeedsWish, WishFollows, Leaves
  <2>10. ASSUME d.do \in ClaimingCalls
         PROVE  /\ h.do # "pickWish" /\ s = q.scope /\ s \in Wishes /\ wish[s] # NoWish
    <3>1. h.do \in {"notInsider", "notOwnWish", "notClaimed"}
      BY <2>5, <2>10 DEF WishFollows, ClaimingCalls
    <3>2. q.op # "RegisterWish" /\ ~OnList(q.op, h) /\ NeedsWish(q.op, h)
      BY <2>1, <3>1 DEF WishCallFits, OnList, NeedsWish
    <3>3. QED
      BY <2>1, <3>1, <3>2 DEF WishHeadReady, RowIs, Leaves
  <2>11. ASSUME d.do \in ClaimingCalls
         PROVE  /\ NotInsider(q, b) => NotInsider(q, b)'
                /\ NotOwn(q) => NotOwn(q)'
                /\ NotClaimed(q, b) => NotClaimed(q, b)'
    BY <1>2, <2>10, <2>11, ResiduesStay
  <2>12. ASSUME d.do \in {"notOwnWish", "notClaimed"} PROVE NotInsider(p, b)'
    <3>1. NotInsider(q, b)
      BY <1>2, <2>1, <2>5, <2>12 DEF WishFollows, WishHeadReady, Leaves
    <3>2. NotInsider(q, b)'
      BY <2>11, <2>12, <3>1 DEF ClaimingCalls
    <3>3. p.scope = q.scope /\ p.caller = q.caller
      BY <2>2, <2>10, <2>12 DEF ClaimingCalls
    <3>4. QED
      BY <3>2, <3>3 DEF NotInsider
  <2>13. ASSUME d.do \in {"notClaimed", "createClaim"} PROVE NotOwn(p)'
    <3>1. NotOwn(q)
      BY <1>2, <2>1, <2>5, <2>13 DEF WishFollows, WishHeadReady, Leaves
    <3>2. NotOwn(q)'
      BY <2>11, <2>13, <3>1 DEF ClaimingCalls
    <3>3. p.scope = q.scope /\ p.caller = q.caller
      BY <2>2, <2>10, <2>13 DEF ClaimingCalls
    <3>4. QED
      BY <3>2, <3>3 DEF NotOwn
  <2>14. ASSUME d.do = "createClaim" PROVE NotClaimed(p, b)'
    <3>1. NotClaimed(q, b)
      BY <1>2, <2>5, <2>14 DEF WishFollows, Leaves
    <3>2. NotClaimed(q, b)'
      BY <2>11, <2>14, <3>1 DEF ClaimingCalls
    <3>3. p.scope = q.scope
      BY <2>2, <2>10, <2>14 DEF ClaimingCalls
    <3>4. QED
      BY <3>2, <3>3 DEF NotClaimed
  <2>15. WishHeadReady(p, b, d)'
    BY <2>2, <2>6, <2>7, <2>8, <2>9, <2>12, <2>13, <2>14 DEF WishHeadReady
  <2>16. WishReady(p, b)'
    BY <2>4, <2>5, <2>15 DEF WishReady, Ends
  <2>17. QED
    BY <1>1, <2>3, <2>16
<1>5. QED
  BY <1>1, <1>3, <1>4

-----------------------------------------------------------------------------
(* What a step has to keep.                                                 *)

\* What was deleted once is remembered.
LEMMA DeletedGrows ==
    ASSUME Remembering
    PROVE  /\ deleted \subseteq deleted'
           /\ \A w \in Wishes : wish[w].enabled /\ ~wish'[w].enabled => w \in deleted'
BY DEF Remembering

\* The ids that a request found when it began stay below the next fresh one.
LEMMA BeforeKept ==
    ASSUME ClaimsInv, Remembering, nextId' \in Nat, nextId <= nextId'
    PROVE  BeforeFits'
<1>1. /\ nextId \in Nat /\ claim \subseteq [id: 1..nextId, wish: Wishes, user: Users]
      /\ collaborator \subseteq [id: 1..nextId, list: Lists, user: Users]
  BY DEF ClaimsInv, ClaimsFit, SharingInv, TablesFit
<1>2. ASSUME NEW r \in Requests, NEW c \in before'[r].claims \cup before'[r].collaborators
      PROVE  c.id \in 1..nextId'
  <2>1. \/ before'[r] = NothingBefore \/ before'[r] = before[r]
        \/ before'[r] = [claims |-> claim, collaborators |-> collaborator]
    BY DEF Remembering
  <2>2. CASE before'[r] = NothingBefore
    BY <1>2, <2>2 DEF NothingBefore
  <2>3. CASE before'[r] = before[r]
    <3>1. PICK b : b = before[r]
      OBVIOUS
    <3>2. \A d \in b.claims \cup b.collaborators : d.id \in 1..nextId
      BY <3>1 DEF ClaimsInv, BeforeFits
    <3>3. c.id \in 1..nextId
      BY <1>2, <2>3, <3>1, <3>2
    <3>4. QED
      BY <1>1, <3>3
  <2>4. CASE before'[r] = [claims |-> claim, collaborators |-> collaborator]
    <3>1. c \in claim \cup collaborator
      BY <1>2, <2>4
    <3>2. c.id \in 1..nextId
      BY <1>1, <3>1
    <3>3. QED
      BY <1>1, <3>2
  <2>5. QED
    BY <2>1, <2>2, <2>3, <2>4
<1>3. QED
  BY <1>2 DEF BeforeFits


\* The invariant after a step of r, when nothing others rely on was taken back.
LEMMA ClaimsKept ==
    ASSUME ClaimsInv, Remembering, NEW r \in Requests, OnlyMoves(r), SharingInv', ClaimsGrow,
           WishesTypeOK', WishReady(req[r], before[r])'
    PROVE  ClaimsInv'
<1>1. nextId \in Nat /\ nextId' \in Nat /\ nextId <= nextId'
  BY DEF ClaimsGrow, Grows, ClaimsInv, SharingInv, TablesFit
<1>2. claim' \subseteq [id: 1..nextId', wish: Wishes, user: Users]
  <2>1. claim \subseteq [id: 1..nextId', wish: Wishes, user: Users]
    BY <1>1 DEF ClaimsInv, ClaimsFit
  <2>2. QED
    BY <2>1 DEF ClaimsGrow
<1>3. ASSUME NEW c \in claim'
      PROVE  /\ wish[c.wish] # NoWish /\ wish'[c.wish] # NoWish
             /\ wish[c.wish].owner = wish'[c.wish].owner
             /\ wish[c.wish].owner = c.user => c.wish \in deleted
  <2>1. wish[c.wish] # NoWish /\ (wish[c.wish].owner = c.user => c.wish \in deleted)
    BY DEF ClaimsGrow, ClaimsInv, ClaimsFit, NoOwnWishClaimed
  <2>2. c.wish \in Wishes
    BY <1>2
  <2>3. QED
    BY <2>1, <2>2 DEF ClaimsGrow
<1>4. ASSUME NEW w \in Wishes, wish'[w] # NoWish, ~wish'[w].enabled
      PROVE  w \in deleted'
  BY <1>4, DeletedGrows DEF ClaimsGrow, ClaimsInv, ClaimsFit, WishesTypeOK, WishRow
<1>5. ClaimsFit'
  BY <1>2, <1>3, <1>4 DEF ClaimsFit
<1>6. NoOwnWishClaimed'
  BY <1>3, DeletedGrows DEF NoOwnWishClaimed
<1>7. BeforeFits'
  BY <1>1, BeforeKept
<1>8. ASSUME NEW t \in Requests PROVE WishReady(req[t], before[t])'
  <2>1. CASE t = r
    BY <2>1
  <2>2. CASE t # r
    <3>1. PICK q : q = req[t]
      OBVIOUS
    <3>2. PICK b : b = before[t]
      OBVIOUS
    <3>3. q = req'[t] /\ IsProgram(q.todo) /\ (q.reply = "pending" <=> q.todo # <<>>)
      BY <2>2, <3>1 DEF OnlyMoves, ClaimsInv, SharingInv, RequestsFit, RequestsOK, Pending
    <3>4. CASE q.todo = <<>>
      <4>1. DOMAIN q.todo = {}
        BY <3>4
      <4>2. PICK bb : bb = before'[t]
        OBVIOUS
      <4>3. WishReady(q, bb)'
        BY <3>4, <4>1 DEF WishReady, WishProgramFits
      <4>4. QED
        BY <3>3, <4>2, <4>3
    <3>5. CASE q.todo # <<>>
      <4>1. b = before'[t]
        BY <3>1, <3>2, <3>3, <3>5, BeforeStays DEF Pending
      <4>2. WishReady(q, b)
        BY <3>1, <3>2 DEF ClaimsInv
      <4>3. WishReady(q, b)'
        BY <3>2, <3>3, <4>2, WishReadyStays
      <4>4. QED
        BY <3>3, <4>1, <4>3
    <3>6. QED
      BY <3>4, <3>5
  <2>3. QED
    BY <2>1, <2>2
<1>9. QED
  BY <1>5, <1>6, <1>7, <1>8 DEF ClaimsInv

\* A call about wishes writes no table of SharingProofs; rows of wishes keep what others
\* rely on, and a new claim is allowed.
WritesFit ==
    /\ UNCHANGED <<user, group, groupMember, list, listGroup, collaborator>>
    /\ nextId' \in Nat /\ nextId <= nextId'
    /\ WishesTypeOK'
    /\ \A w \in Wishes :
          IF wish[w] # NoWish
          THEN wish'[w] # NoWish /\ wish'[w].owner = wish[w].owner /\ wish'[w].list = wish[w].list
          ELSE wish'[w] = NoWish \/ wish'[w].enabled
    /\ \A c \in claim' \ claim :
          /\ c \in [id: 1..nextId', wish: Wishes, user: Users] /\ c.id > nextId
          /\ wish[c.wish] # NoWish
          /\ wish[c.wish].owner = c.user => c.wish \in deleted

\* A call about wishes keeps the invariant.
LEMMA WishStepKeepsInv ==
    ASSUME ClaimsInv, Remembering, NEW r \in Requests, NEW q, NEW h, Calls(r, q, h),
           h.do \in WishCalls, WritesFit, NEW s, NEW x, OnlyMoves(r),
           Over(req'[r]) \/ (GoesOn(r, s, x) /\ Leaves(q, before[r], h, s, x))
    PROVE  ClaimsInv'
<1>1. KeepsInv(r)
  BY NextWishCall, WishStepKeepsSharing DEF ClaimsInv, WritesFit
<1>2. ClaimsGrow
  BY <1>1, DeletedGrows DEF KeepsInv, WritesFit, ClaimsGrow
<1>3. CASE Over(req'[r])
  <2>1. PICK p : p = req'[r]
    OBVIOUS
  <2>2. p.todo = <<>>
    BY <1>3, <2>1, FinishedFields DEF Over
  <2>3. WishReady(req[r], before[r])'
    BY <2>1, <2>2 DEF WishReady, WishProgramFits
  <2>4. QED
    BY <1>1, <1>2, <2>3, ClaimsKept DEF KeepsInv, WritesFit
<1>4. CASE GoesOn(r, s, x) /\ Leaves(q, before[r], h, s, x)
  <2>1. WishReady(req[r], before[r])'
    BY <1>2, <1>4, WishMovesOn
  <2>2. QED
    BY <1>1, <1>2, <2>1, ClaimsKept DEF KeepsInv, WritesFit
<1>5. QED
  BY <1>3, <1>4

\* A call that writes nothing.
LEMMA NothingWritten ==
    ASSUME ClaimsInv, UNCHANGED <<tables, wishTables, claim>>
    PROVE  WritesFit
BY DEF WritesFit, tables, wishTables, ClaimsInv, WishesTypeOK, SharingInv, TablesFit

\* A call that ends the request.
LEMMA WishAnswerKeepsInv ==
    ASSUME ClaimsInv, Remembering, NEW r \in Requests, NEW q, NEW h, Calls(r, q, h),
           h.do \in WishCalls, WritesFit, NEW reply \in Replies, Answer(r, reply)
    PROVE  ClaimsInv'
<1>1. OnlyMoves(r) /\ Over(req'[r])
  BY AnswerStep DEF ClaimsInv, SharingInv
<1>2. QED
  BY <1>1, WishStepKeepsInv

\* A call that leaves in memory what was there.
LEMMA WishDoneKeepsInv ==
    ASSUME ClaimsInv, Remembering, NEW r \in Requests, NEW q, NEW h, Calls(r, q, h),
           h.do \in WishCalls \ {"readWish", "pickWish", "readEditor"}, WritesFit, Done(r),
           h.do = "notInsider" => NotInsider(q, before[r]),
           h.do = "notOwnWish" => NotOwn(q),
           h.do = "notClaimed" => NotClaimed(q, before[r])
    PROVE  ClaimsInv'
<1>1. OnlyMoves(r) /\ (Over(req'[r]) \/ GoesOn(r, q.scope, q.found))
  BY DoneStep DEF ClaimsInv, SharingInv, Calls
<1>2. WishHeadReady(q, before[r], h)
  BY NextWishCall
<1>3. NeedsWish(q.op, h) => q.scope \in Wishes
  BY <1>2 DEF WishHeadReady, NeedsWish
<1>4. Leaves(q, before[r], h, q.scope, q.found)
  BY <1>2, <1>3 DEF WishHeadReady, Leaves
<1>5. QED
  BY <1>1, <1>4, WishStepKeepsInv

-----------------------------------------------------------------------------
(* The checks.                                                              *)

\* WishCheck: the request goes on or is refused.
LEMMA WishCheckKeepsInv ==
    ASSUME ClaimsInv, Remembering, NEW r \in Requests, WishCheck(r), UNCHANGED claim
    PROVE  ClaimsInv'
<1>1. PICK q, h : Calls(r, q, h) /\ q = req[r] /\ h = Head(q.todo)
  BY DEF WishCheck, Guarded, Calls
<1>2. h.do \in WishChecks /\ UNCHANGED <<tables, wishTables, claim>>
  BY <1>1 DEF WishCheck, Guarded
<1>3. WritesFit
  BY <1>2, NothingWritten
<1>4. Done(r) \/ Answer(r, "refused")
  BY <1>1 DEF WishCheck, Guarded, Done, Answer, ClaimsInv, SharingInv, RequestsFit
<1>5. /\ h.do \in WishCalls \ {"readWish", "pickWish", "readEditor"}
      /\ h.do \notin {"notInsider", "notOwnWish", "notClaimed"}
  BY <1>2 DEF WishChecks, WishCalls
<1>6. QED
  BY <1>1, <1>3, <1>4, <1>5, WishDoneKeepsInv, WishAnswerKeepsInv DEF Replies

\* The draft of a request that has one.
LEMMA DraftFound ==
    ASSUME NEW q, q.found \in Drafts
    PROVE  Draft(q) = q.found
BY WishesAssumption DEF Draft

\* What the checks of RegisterWishClaim show when they pass.
LEMMA ClaimPassesShows ==
    ASSUME ClaimsInv, NEW r \in Requests, NEW q, NEW h, Calls(r, q, h),
           h.do \in {"notInsider", "notOwnWish", "notClaimed"}, ClaimPasses(q, h)
    PROVE  /\ h.do = "notInsider" => NotInsider(q, before[r])
           /\ h.do = "notOwnWish" => NotOwn(q)
           /\ h.do = "notClaimed" => NotClaimed(q, before[r])
<1>1. WishCallFits(q, h) /\ WishHeadReady(q, before[r], h)
  BY NextWishCall DEF WishCalls, ClaimChecks
<1>2. NeedsWish(q.op, h) /\ ~OnList(q.op, h)
  BY <1>1 DEF WishCallFits, OnList, NeedsWish
<1>3. q.scope \in Wishes /\ RowIs(q.scope, q.found)
  BY <1>1, <1>2 DEF WishHeadReady
<1>4. ASSUME h.do = "notInsider" PROVE NotInsider(q, before[r])
  <2>1. ~VerifyWishlistCollaboratorToWishlist(Draft(q).row.list, q.caller)
    BY <1>4 DEF ClaimPasses
  <2>2. Draft(q).row.list = wish[q.scope].list
    BY <1>3, DraftFound DEF RowIs
  <2>3. QED
    BY <2>1, <2>2 DEF VerifyWishlistCollaboratorToWishlist, NotInsider
<1>5. ASSUME h.do = "notOwnWish" PROVE NotOwn(q)
  <2>1. ~VerifyUserOwnershipToWish(q.caller, q.scope)
    BY <1>5 DEF ClaimPasses
  <2>2. QED
    BY <1>3, <2>1 DEF VerifyUserOwnershipToWish, NotOwn, RowIs, ClaimsInv, ClaimsFit
<1>6. ASSUME h.do = "notClaimed" PROVE NotClaimed(q, before[r])
  BY <1>6 DEF ClaimPasses, VerifyWishIsClaimed, NotClaimed
<1>7. QED
  BY <1>4, <1>5, <1>6

\* ClaimCheck.
LEMMA ClaimCheckKeepsInv ==
    ASSUME ClaimsInv, Remembering, NEW r \in Requests, ClaimCheck(r)
    PROVE  ClaimsInv'
<1>1. PICK q, h : Calls(r, q, h) /\ q = req[r] /\ h = Head(q.todo)
  BY DEF ClaimCheck, Guarded, Calls
<1>2. h.do \in ClaimChecks /\ UNCHANGED <<tables, wishTables, claim>>
  BY <1>1 DEF ClaimCheck, Guarded
<1>3. WritesFit
  BY <1>2, NothingWritten
<1>4. h.do \in WishCalls \ {"readWish", "pickWish", "readEditor"}
  BY <1>2 DEF ClaimChecks, WishCalls
<1>5. req' = [req EXCEPT ![r] = IF ClaimPasses(q, h) THEN Advance(q) ELSE Finished("refused")]
  BY <1>1 DEF ClaimCheck, Guarded, ClaimsInv, SharingInv, RequestsFit
<1>6. CASE ClaimPasses(q, h)
  <2>1. Done(r)
    BY <1>1, <1>5, <1>6 DEF Done
  <2>2. /\ h.do = "notInsider" => NotInsider(q, before[r])
        /\ h.do = "notOwnWish" => NotOwn(q)
        /\ h.do = "notClaimed" => NotClaimed(q, before[r])
    BY <1>1, <1>6, ClaimPassesShows
  <2>3. QED
    BY <1>1, <1>3, <1>4, <2>1, <2>2, WishDoneKeepsInv
<1>7. CASE ~ClaimPasses(q, h)
  <2>1. Answer(r, "refused")
    BY <1>5, <1>7 DEF Answer
  <2>2. QED
    BY <1>1, <1>3, <1>4, <2>1, WishAnswerKeepsInv DEF Replies
<1>8. QED
  BY <1>6, <1>7

-----------------------------------------------------------------------------
(* The reads.                                                               *)

\* The calls that look up one thing about the wish, and keep its row.
FieldReads == {"readEditor", "readOwnership", "selectCategory", "findCategory",
               "createCategory", "readClaims"}

\* What they leave in memory is a draft with the same row.
LEMMA FieldKeepsInv ==
    ASSUME ClaimsInv, Remembering, NEW r \in Requests, NEW q, NEW h, Calls(r, q, h),
           h.do \in FieldReads, WritesFit, NEW x \in Drafts, Remember(r, x),
           q.found \in Drafts => x.row = q.found.row
    PROVE  ClaimsInv'
<1>1. OnlyMoves(r) /\ (Over(req'[r]) \/ GoesOn(r, q.scope, x))
  BY RememberStep DEF ClaimsInv, SharingInv, Calls
<1>2. /\ h.do \in WishCalls
      /\ h.do \notin {"readWish", "pickWish"} \cup {"notInsider", "notOwnWish", "notClaimed"}
  BY DEF FieldReads, WishCalls
<1>3. WishHeadReady(q, before[r], h)
  BY <1>2, NextWishCall
<1>4. ASSUME NeedsWish(q.op, h) PROVE q.scope \in Wishes /\ RowIs(q.scope, x)
  BY <1>3, <1>4 DEF WishHeadReady, NeedsWish, RowIs
<1>5. Leaves(q, before[r], h, q.scope, x)
  BY <1>2, <1>4 DEF Leaves
<1>6. QED
  BY <1>1, <1>2, <1>5, WishStepKeepsInv

\* A draft with another field.
LEMMA DraftWith ==
    ASSUME NEW x \in Drafts
    PROVE  /\ \A v \in BOOLEAN : [x EXCEPT !["insider"] = v] \in Drafts
           /\ \A v \in Categories \cup {None} : [x EXCEPT !["choice"] = v] \in Drafts
           /\ \A v \in SUBSET [id: Nat, wish: Wishes, user: Users] :
                 [x EXCEPT !["claims"] = v] \in Drafts
           /\ \A v : /\ [x EXCEPT !["insider"] = v].row = x.row
                     /\ [x EXCEPT !["choice"] = v].row = x.row
                     /\ [x EXCEPT !["claims"] = v].row = x.row
BY DEF Drafts

\* The draft of a request that has read nothing yet.
LEMMA NewDraft ==
    ASSUME NEW q, q.found = None
    PROVE  /\ Draft(q).choice = None /\ Draft(q).insider = FALSE /\ Draft(q).claims = {}
           /\ \A v : [Draft(q) EXCEPT !["row"] = v] =
                       [row |-> v, choice |-> None, insider |-> FALSE, claims |-> {}]
           /\ q.scope \in Lists /\ q.caller \in Users => Draft(q) \in Drafts
<1>1. PICK row : row = [list |-> q.scope, owner |-> q.caller, enabled |-> TRUE, category |-> None]
  OBVIOUS
<1>2. Draft(q) = [row |-> row, choice |-> None, insider |-> FALSE, claims |-> {}]
  BY <1>1 DEF Draft
<1>3. ASSUME q.scope \in Lists, q.caller \in Users PROVE Draft(q) \in Drafts
  <2>1. row \in [list: Lists, owner: Users, enabled: {TRUE}, category: Categories \cup {None}]
    BY <1>1, <1>3
  <2>2. PICK S : S = [id: Nat, wish: Wishes, user: Users]
    OBVIOUS
  <2>3. {} \in SUBSET S /\ None \in Categories \cup {None} /\ FALSE \in BOOLEAN
    OBVIOUS
  <2>4. [row |-> row, choice |-> None, insider |-> FALSE, claims |-> {}] \in Drafts
    BY <2>1, <2>2, <2>3 DEF Drafts
  <2>5. QED
    BY <1>2, <2>4
<1>4. ASSUME NEW v
      PROVE  [Draft(q) EXCEPT !["row"] = v] =
                [row |-> v, choice |-> None, insider |-> FALSE, claims |-> {}]
  <2>1. PICK y : y = [row |-> row, choice |-> None, insider |-> FALSE, claims |-> {}]
    OBVIOUS
  <2>2. PICK z : z = [y EXCEPT !["row"] = v]
    OBVIOUS
  <2>3. y \in [row: {row}, choice: {None}, insider: {FALSE}, claims: {{}}]
    BY <2>1
  <2>4. z \in [row: {v}, choice: {None}, insider: {FALSE}, claims: {{}}]
    BY <2>2, <2>3
  <2>5. z = [row |-> v, choice |-> None, insider |-> FALSE, claims |-> {}]
    BY <2>4
  <2>6. QED
    BY <1>2, <2>1, <2>2, <2>5
<1>5. QED
  BY <1>2, <1>3, <1>4

\* ReadEditor and ReadOwnership: what was read of the caller.
LEMMA InsiderKeepsInv ==
    ASSUME ClaimsInv, Remembering, NEW r \in Requests, NEW q, NEW h, Calls(r, q, h),
           h.do \in {"readEditor", "readOwnership"}, UNCHANGED <<tables, wishTables, claim>>,
           NEW v \in BOOLEAN, Remember(r, [Draft(q) EXCEPT !["insider"] = v])
    PROVE  ClaimsInv'
<1>1. WishCallFits(q, h) /\ WishHeadReady(q, before[r], h)
  BY NextWishCall DEF WishCalls
<1>2. Draft(q) \in Drafts /\ (q.found \in Drafts => Draft(q) = q.found)
  <2>1. CASE q.found \in Drafts
    BY <2>1, DraftFound
  <2>2. CASE q.found \notin Drafts
    <3>1. q.found = None /\ ~NeedsWish(q.op, h)
      BY <1>1, <2>2 DEF WishHeadReady, RowIs
    <3>2. q.scope \in Lists
      BY <1>1, <3>1 DEF WishHeadReady, NeedsWish
    <3>3. q.caller \in Users
      BY <1>1 DEF WishCallFits
    <3>4. QED
      BY <2>2, <3>1, <3>2, <3>3, NewDraft
  <2>3. QED
    BY <2>1, <2>2
<1>3. PICK x : x = [Draft(q) EXCEPT !["insider"] = v]
  OBVIOUS
<1>4. x \in Drafts /\ (q.found \in Drafts => x.row = q.found.row)
  BY <1>2, <1>3, DraftWith
<1>5. QED
  BY <1>3, <1>4, NothingWritten, FieldKeepsInv DEF FieldReads

\* The row of a wish in force, put in a draft.
LEMMA WishRowRead ==
    ASSUME ClaimsInv, NEW q, q.found \in Drafts \cup {None}, NEW w \in Wishes, wish[w].enabled
    PROVE  RowIs(w, [Draft(q) EXCEPT !["row"] = wish[w]])
<1>1. PICK v : v = wish[w]
  OBVIOUS
<1>2. /\ v # NoWish
      /\ v \in [list: Lists, owner: Users, enabled: {TRUE}, category: Categories \cup {None}]
  <2>1. v \in WishRow \/ v = NoWish
    BY <1>1 DEF ClaimsInv, WishesTypeOK
  <2>2. v.enabled /\ v # NoWish
    BY <1>1 DEF NoWish
  <2>3. v.enabled = TRUE
    BY <2>1, <2>2 DEF WishRow
  <2>4. QED
    BY <2>1, <2>2, <2>3 DEF WishRow
<1>3. PICK x : x = [Draft(q) EXCEPT !["row"] = v]
  OBVIOUS
<1>4. x \in Drafts /\ x.row = v
  <2>1. CASE q.found \in Drafts
    <3>1. PICK y \in Drafts : y = Draft(q)
      BY <2>1, DraftFound
    <3>2. QED
      BY <1>2, <1>3, <3>1 DEF Drafts
  <2>2. CASE q.found = None
    <3>1. x = [row |-> v, choice |-> None, insider |-> FALSE, claims |-> {}]
      BY <1>3, <2>2, NewDraft
    <3>2. PICK S : S = [id: Nat, wish: Wishes, user: Users]
      OBVIOUS
    <3>3. {} \in SUBSET S /\ None \in Categories \cup {None} /\ FALSE \in BOOLEAN
      OBVIOUS
    <3>4. QED
      BY <1>2, <3>1, <3>2, <3>3 DEF Drafts
  <2>3. QED
    BY <2>1, <2>2
<1>5. QED
  BY <1>1, <1>2, <1>3, <1>4 DEF RowIs

\* GetWishByWishID.
LEMMA ReadWishKeepsInv ==
    ASSUME ClaimsInv, Remembering, NEW r \in Requests, GetWishByWishID(r), UNCHANGED claim
    PROVE  ClaimsInv'
<1>1. PICK q, h : Calls(r, q, h) /\ q = req[r] /\ h = Head(q.todo)
  BY DEF GetWishByWishID, At, Calls
<1>2. h.do = "readWish" /\ h.do \in WishCalls /\ UNCHANGED <<tables, wishTables, claim>>
  BY <1>1 DEF GetWishByWishID, At, WishCalls
<1>3. WishCallFits(q, h) /\ WishHeadReady(q, before[r], h) /\ WritesFit
  BY <1>1, <1>2, NextWishCall, NothingWritten
<1>4. ~OnList(q.op, h)
  BY <1>2, <1>3 DEF WishCallFits, OnList
<1>5. q.scope \in Wishes /\ q.found \in Drafts \cup {None}
  BY <1>3, <1>4 DEF WishHeadReady
<1>6. CASE wish[q.scope].enabled
  <2>1. PICK x : x = [Draft(q) EXCEPT !["row"] = wish[q.scope]]
    OBVIOUS
  <2>2. RowIs(q.scope, x)
    BY <1>5, <1>6, <2>1, WishRowRead
  <2>3. Remember(r, x)
    BY <1>1, <1>6, <2>1 DEF GetWishByWishID, RememberIn
  <2>4. OnlyMoves(r) /\ (Over(req'[r]) \/ GoesOn(r, q.scope, x))
    BY <1>1, <2>3, RememberStep DEF ClaimsInv, SharingInv, Calls
  <2>5. x \in Drafts
    BY <2>2 DEF RowIs
  <2>6. Leaves(q, before[r], h, q.scope, x)
    BY <1>2, <1>5, <2>2, <2>5 DEF Leaves
  <2>7. QED
    BY <1>1, <1>2, <1>3, <2>4, <2>6, WishStepKeepsInv
<1>7. CASE ~wish[q.scope].enabled
  <2>1. Answer(r, "refused")
    BY <1>1, <1>7 DEF GetWishByWishID
  <2>2. QED
    BY <1>1, <1>2, <1>3, <2>1, WishAnswerKeepsInv DEF Replies
<1>8. QED
  BY <1>6, <1>7

\* PickWish: the request is about the wish it shows from now on.
LEMMA PickWishKeepsInv ==
    ASSUME ClaimsInv, Remembering, NEW r \in Requests, PickWish(r)
    PROVE  ClaimsInv'
<1>1. PICK q, h : Calls(r, q, h) /\ q = req[r] /\ h = Head(q.todo)
  BY DEF PickWish, At, Calls
<1>2. h.do = "pickWish" /\ h.do \in WishCalls /\ UNCHANGED <<tables, wishTables, claim>>
  BY <1>1 DEF PickWish, At, WishCalls
<1>3. WishHeadReady(q, before[r], h) /\ WritesFit
  BY <1>1, <1>2, NextWishCall, NothingWritten
<1>4. \/ Answer(r, "ok")
      \/ \E w \in Wishes :
            /\ wish[w].enabled
            /\ req' = [req EXCEPT ![r] = Advance([req[r] EXCEPT
                            !.scope = w, !.found = [Draft(q) EXCEPT !["row"] = wish[w]]])]
  BY <1>1 DEF PickWish, ClaimsInv, SharingInv, RequestsFit
<1>5. CASE Answer(r, "ok")
  BY <1>1, <1>2, <1>3, <1>5, WishAnswerKeepsInv DEF Replies
<1>6. ASSUME NEW w \in Wishes, wish[w].enabled,
             req' = [req EXCEPT ![r] = Advance([req[r] EXCEPT
                            !.scope = w, !.found = [Draft(q) EXCEPT !["row"] = wish[w]]])]
      PROVE  ClaimsInv'
  <2>1. PICK x : x = [Draft(q) EXCEPT !["row"] = wish[w]]
    OBVIOUS
  <2>2. q.found \in Drafts \cup {None}
    BY <1>3 DEF WishHeadReady
  <2>3. RowIs(w, x)
    BY <1>6, <2>1, <2>2, WishRowRead
  <2>4. OnlyMoves(r) /\ (Over(req'[r]) \/ GoesOn(r, w, x))
    BY <1>1, <1>6, <2>1, AdvanceStep DEF ClaimsInv, SharingInv, Calls
  <2>5. x \in Drafts
    BY <2>3 DEF RowIs
  <2>6. Leaves(q, before[r], h, w, x)
    BY <1>2, <2>3, <2>5 DEF Leaves
  <2>7. QED
    BY <1>1, <1>2, <1>3, <2>4, <2>6, WishStepKeepsInv
<1>7. QED
  BY <1>4, <1>5, <1>6

\* ReadEditor and ReadOwnership.
LEMMA ReadInsiderKeepsInv ==
    ASSUME ClaimsInv, Remembering, NEW r \in Requests,
           (ReadEditor(r) /\ UNCHANGED claim) \/ ReadOwnership(r)
    PROVE  ClaimsInv'
<1>1. /\ Pending(r) /\ Head(req[r].todo).do \in {"readEditor", "readOwnership"}
      /\ UNCHANGED <<tables, wishTables, claim>>
  BY DEF ReadEditor, ReadOwnership, At
<1>2. PICK q, h : Calls(r, q, h) /\ q = req[r] /\ h = Head(q.todo)
  BY <1>1 DEF Calls
<1>3. \E v \in BOOLEAN : Remember(r, [Draft(q) EXCEPT !["insider"] = v])
  <2>1. CASE ReadEditor(r)
    <3>1. PICK l : l = Draft(q).row.list
      OBVIOUS
    <3>2. PICK v \in BOOLEAN : v = VerifyWishlistCollaboratorToWishlist(l, q.caller)
      BY DEF VerifyWishlistCollaboratorToWishlist
    <3>3. QED
      BY <1>2, <2>1, <3>1, <3>2 DEF ReadEditor, RememberIn
  <2>2. CASE ReadOwnership(r)
    <3>1. PICK l : l = Draft(q).row.list
      OBVIOUS
    <3>2. PICK v \in BOOLEAN : v = VerifyUserOwnershipToWishlist(q.caller, l)
      BY DEF VerifyUserOwnershipToWishlist
    <3>3. QED
      BY <1>2, <2>2, <3>1, <3>2 DEF ReadOwnership, RememberIn
  <2>3. QED
    BY <2>1, <2>2
<1>4. h.do \in {"readEditor", "readOwnership"}
  BY <1>1, <1>2
<1>5. QED
  BY <1>1, <1>2, <1>3, <1>4, InsiderKeepsInv

\* The calls that come after the draft was begun, and those after the row was read.
DraftCalls == {"selectCategory", "findCategory", "createCategory", "createWish", "saveWish",
               "disableWish", "countWishes", "clearCategory", "disableCategory", "readClaims"}
RowCalls == {"saveWish", "disableWish", "createClaim", "readClaims"}

\* They have it.
LEMMA HasDraft ==
    ASSUME ClaimsInv, NEW r \in Requests, NEW q, NEW h, Calls(r, q, h),
           h.do \in DraftCalls \cup RowCalls
    PROVE  /\ h.do \in DraftCalls => q.found \in Drafts /\ Draft(q) = q.found
           /\ h.do \in RowCalls => q.scope \in Wishes /\ RowIs(q.scope, q.found)
<1>1. WishCallFits(q, h) /\ WishHeadReady(q, before[r], h)
  BY NextWishCall DEF WishCalls, DraftCalls, RowCalls
<1>2. CASE q.op = "RegisterWish"
  <2>1. h.do \notin RowCalls /\ NeedsDraft(q.op, h)
    BY <1>1, <1>2 DEF WishCallFits, DraftCalls, RowCalls, NeedsDraft
  <2>2. QED
    BY <1>1, <2>1, DraftFound DEF WishHeadReady
<1>3. CASE q.op # "RegisterWish"
  <2>1. ~OnList(q.op, h) /\ NeedsWish(q.op, h)
    BY <1>3 DEF OnList, NeedsWish, DraftCalls, RowCalls
  <2>2. QED
    BY <1>1, <2>1, DraftFound DEF WishHeadReady, RowIs
<1>4. QED
  BY <1>2, <1>3

\* A category is selected or found.
LEMMA CategoryReadKeepsInv ==
    ASSUME ClaimsInv, Remembering, NEW r \in Requests,
           GetWishCategoryByID(r) \/ GetWishCategoryByNameInWishlist(r), UNCHANGED claim
    PROVE  ClaimsInv'
<1>1. /\ Pending(r) /\ Head(req[r].todo).do \in {"selectCategory", "findCategory"}
      /\ UNCHANGED <<tables, wishTables, claim>>
  BY DEF GetWishCategoryByID, GetWishCategoryByNameInWishlist, At
<1>2. PICK q, h : Calls(r, q, h) /\ q = req[r] /\ h = Head(q.todo)
  BY <1>1 DEF Calls
<1>3. /\ h.do \in {"selectCategory", "findCategory"}
      /\ h.do \in DraftCalls /\ h.do \in FieldReads
      /\ h.do \in WishCalls \ {"readWish", "pickWish", "readEditor"}
      /\ h.do \notin {"notInsider", "notOwnWish", "notClaimed"}
  BY <1>1, <1>2 DEF DraftCalls, FieldReads, WishCalls
<1>4. q.found \in Drafts /\ Draft(q) = q.found /\ WritesFit /\ WishCallFits(q, h)
  BY <1>1, <1>2, <1>3, HasDraft, NothingWritten, NextWishCall
<1>5. \/ Answer(r, "refused") \/ Done(r)
      \/ \E c \in Categories : Remember(r, [q.found EXCEPT !["choice"] = c])
  <2>1. CASE GetWishCategoryByID(r)
    <3>1. h.do = "selectCategory" /\ Arg(r) = h.arg
      BY <1>2, <2>1 DEF GetWishCategoryByID, At, Arg
    <3>2. Arg(r) \in Categories
      BY <1>4, <3>1 DEF WishCallFits
    <3>3. QED
      BY <1>2, <1>4, <2>1, <3>2 DEF GetWishCategoryByID, RememberIn
  <2>2. CASE GetWishCategoryByNameInWishlist(r)
    BY <1>2, <1>4, <2>2 DEF GetWishCategoryByNameInWishlist, RememberIn
  <2>3. QED
    BY <2>1, <2>2
<1>6. ASSUME NEW c \in Categories, Remember(r, [q.found EXCEPT !["choice"] = c])
      PROVE  ClaimsInv'
  <2>1. PICK x : x = [q.found EXCEPT !["choice"] = c]
    OBVIOUS
  <2>2. x \in Drafts /\ x.row = q.found.row
    BY <1>4, <2>1, DraftWith
  <2>3. QED
    BY <1>2, <1>3, <1>4, <1>6, <2>1, <2>2, FieldKeepsInv
<1>7. QED
  BY <1>2, <1>3, <1>4, <1>5, <1>6, WishAnswerKeepsInv, WishDoneKeepsInv DEF Replies

\* GetWishClaimFromWish, CountWishes and WishShown.
LEMMA DisplayKeepsInv ==
    ASSUME ClaimsInv, Remembering, NEW r \in Requests,
           GetWishClaimFromWish(r) \/ (CountWishes(r) /\ UNCHANGED claim) \/ WishShown(r)
    PROVE  ClaimsInv'
<1>1. /\ Pending(r) /\ Head(req[r].todo).do \in {"readClaims", "countWishes", "showWish"}
      /\ UNCHANGED <<tables, wishTables, claim>>
  BY DEF GetWishClaimFromWish, CountWishes, WishShown, At
<1>2. PICK q, h : Calls(r, q, h) /\ q = req[r] /\ h = Head(q.todo)
  BY <1>1 DEF Calls
<1>3. /\ h.do \in {"readClaims", "countWishes", "showWish"}
      /\ h.do \in WishCalls \ {"readWish", "pickWish", "readEditor"}
      /\ h.do \notin {"notInsider", "notOwnWish", "notClaimed"}
  BY <1>1, <1>2 DEF WishCalls
<1>4. WritesFit
  BY <1>1, NothingWritten
<1>5. \/ Answer(r, "ok") \/ Done(r)
      \/ /\ h.do = "readClaims"
         /\ \E c \in LiveClaims(q.scope) : Remember(r, [Draft(q) EXCEPT !["claims"] = {c}])
  BY <1>2 DEF GetWishClaimFromWish, CountWishes, WishShown, RememberIn, At
<1>6. ASSUME h.do = "readClaims", NEW c \in LiveClaims(q.scope),
             Remember(r, [Draft(q) EXCEPT !["claims"] = {c}])
      PROVE  ClaimsInv'
  <2>1. q.found \in Drafts /\ Draft(q) = q.found
    BY <1>2, <1>6, HasDraft DEF DraftCalls
  <2>2. c \in [id: Nat, wish: Wishes, user: Users]
    BY DEF LiveClaims, ClaimsInv, ClaimsFit
  <2>3. PICK v \in SUBSET [id: Nat, wish: Wishes, user: Users] : v = {c}
    BY <2>2
  <2>4. PICK x : x = [q.found EXCEPT !["claims"] = v]
    OBVIOUS
  <2>5. x \in Drafts /\ x.row = q.found.row /\ Remember(r, x)
    BY <1>6, <2>1, <2>3, <2>4, DraftWith
  <2>6. h.do \in FieldReads
    BY <1>6 DEF FieldReads
  <2>7. QED
    BY <1>2, <1>4, <2>5, <2>6, FieldKeepsInv
<1>7. QED
  BY <1>2, <1>3, <1>4, <1>5, <1>6, WishAnswerKeepsInv, WishDoneKeepsInv DEF Replies

-----------------------------------------------------------------------------
(* The writes.                                                              *)

\* A draft is of a row that may be written.
LEMMA DraftRow ==
    ASSUME NEW x \in Drafts
    PROVE  /\ x.row.list \in Lists /\ x.row.owner \in Users /\ x.row.enabled = TRUE
           /\ x.row.category \in Categories \cup {None} /\ x.choice \in Categories \cup {None}
           /\ \A c \in Categories \cup {None} : [x.row EXCEPT !.category = c] \in WishRow
           /\ \A e \in BOOLEAN : [x.row EXCEPT !.enabled = e] \in WishRow
           /\ [x.row EXCEPT !.category = x.choice].enabled = TRUE
           /\ \A c : /\ [x.row EXCEPT !.category = c].owner = x.row.owner
                     /\ [x.row EXCEPT !.category = c].list = x.row.list
           /\ \A e : /\ [x.row EXCEPT !.enabled = e].owner = x.row.owner
                     /\ [x.row EXCEPT !.enabled = e].list = x.row.list
BY DEF Drafts, WishRow

\* A row of a wish has an owner.
LEMMA WishRowExists ==
    ASSUME NEW row \in WishRow
    PROVE  row # NoWish
BY SharingAssumption DEF WishRow, NoWish

\* A write that puts a row in the place of the wish w.
LEMMA WishPut ==
    ASSUME ClaimsInv, NEW w \in Wishes, NEW row \in WishRow, wish' = [wish EXCEPT ![w] = row],
           IF wish[w] = NoWish THEN row.enabled
           ELSE row.owner = wish[w].owner /\ row.list = wish[w].list,
           UNCHANGED <<tables, category, claim>>
    PROVE  WritesFit
<1>1. wish \in [Wishes -> WishRow \cup {NoWish}]
  BY DEF ClaimsInv, WishesTypeOK
<1>2. wish' \in [Wishes -> WishRow \cup {NoWish}]
  BY <1>1
<1>3. WishesTypeOK'
  BY <1>2 DEF ClaimsInv, WishesTypeOK
<1>4. ASSUME NEW v \in Wishes
      PROVE  IF wish[v] # NoWish
             THEN /\ wish'[v] # NoWish
                  /\ wish'[v].owner = wish[v].owner
                  /\ wish'[v].list = wish[v].list
             ELSE wish'[v] = NoWish \/ wish'[v].enabled
  BY <1>1, WishRowExists
<1>5. QED
  BY <1>3, <1>4 DEF WritesFit, tables, ClaimsInv, SharingInv, TablesFit

\* CreateWishInDB.
LEMMA CreateWishKeepsInv ==
    ASSUME ClaimsInv, Remembering, NEW r \in Requests, CreateWishInDB(r), UNCHANGED claim
    PROVE  ClaimsInv'
<1>1. PICK q, h : Calls(r, q, h) /\ q = req[r] /\ h = Head(q.todo)
  BY DEF CreateWishInDB, At, Calls
<1>2. h.do = "createWish" /\ Done(r) /\ UNCHANGED <<tables, category, claim>>
  BY <1>1 DEF CreateWishInDB, At
<1>3. q.found \in Drafts
  BY <1>1, <1>2, HasDraft DEF DraftCalls
<1>4. PICK row : row = [q.found.row EXCEPT !.category = q.found.choice]
  OBVIOUS
<1>5. row \in WishRow /\ row.enabled = TRUE
  BY <1>3, <1>4, DraftRow
<1>6. PICK w \in Wishes : wish[w] = NoWish /\ wish' = [wish EXCEPT ![w] = row]
  BY <1>1, <1>4 DEF CreateWishInDB
<1>7. WritesFit
  BY <1>2, <1>5, <1>6, WishPut
<1>8. /\ h.do \in WishCalls \ {"readWish", "pickWish", "readEditor"}
      /\ h.do \notin {"notInsider", "notOwnWish", "notClaimed"}
  BY <1>2 DEF WishCalls
<1>9. QED
  BY <1>1, <1>2, <1>7, <1>8, WishDoneKeepsInv

\* UpdateWishInDB: the row that is saved is of the same wish, although others may have
\* saved theirs since.
LEMMA SaveWishKeepsInv ==
    ASSUME ClaimsInv, Remembering, NEW r \in Requests, UpdateWishInDB(r), UNCHANGED claim
    PROVE  ClaimsInv'
<1>1. PICK q, h : Calls(r, q, h) /\ q = req[r] /\ h = Head(q.todo)
  BY DEF UpdateWishInDB, At, Calls
<1>2. h.do \in {"saveWish", "disableWish"} /\ UNCHANGED <<tables, category, claim>>
  BY <1>1 DEF UpdateWishInDB, At
<1>3. q.found \in Drafts /\ q.scope \in Wishes /\ RowIs(q.scope, q.found)
  BY <1>1, <1>2, HasDraft DEF DraftCalls, RowCalls
<1>4. PICK row \in WishRow :
        /\ row.owner = q.found.row.owner /\ row.list = q.found.row.list
        /\ wish' = [wish EXCEPT ![q.scope] = row]
  BY <1>1, <1>3, DraftRow DEF UpdateWishInDB
<1>5. WritesFit
  BY <1>2, <1>3, <1>4, WishPut DEF RowIs
<1>6. Done(r) \/ Answer(r, "ok")
  BY <1>1 DEF UpdateWishInDB, Done, Answer, ClaimsInv, SharingInv, RequestsFit
<1>7. /\ h.do \in WishCalls \ {"readWish", "pickWish", "readEditor"}
      /\ h.do \notin {"notInsider", "notOwnWish", "notClaimed"}
  BY <1>2 DEF WishCalls
<1>8. QED
  BY <1>1, <1>5, <1>6, <1>7, WishDoneKeepsInv, WishAnswerKeepsInv DEF Replies

\* CreateWishCategoryInDB.
LEMMA CreateCategoryKeepsInv ==
    ASSUME ClaimsInv, Remembering, NEW r \in Requests, CreateWishCategoryInDB(r), UNCHANGED claim
    PROVE  ClaimsInv'
<1>1. PICK q, h : Calls(r, q, h) /\ q = req[r] /\ h = Head(q.todo)
  BY DEF CreateWishCategoryInDB, At, Calls
<1>2. h.do = "createCategory" /\ UNCHANGED <<tables, wish, claim>>
  BY <1>1 DEF CreateWishCategoryInDB, At
<1>3. /\ h.do \in WishCalls \ {"readWish", "pickWish", "readEditor"} /\ h.do \in FieldReads
      /\ h.do \notin {"notInsider", "notOwnWish", "notClaimed"}
  BY <1>2 DEF WishCalls, FieldReads
<1>4. q.found \in Drafts /\ Draft(q) = q.found /\ WishCallFits(q, h)
  BY <1>1, <1>2, <1>3, HasDraft, NextWishCall DEF DraftCalls
<1>5. CASE ~NeedsCategory(q)
  <2>1. Done(r) /\ UNCHANGED <<tables, wishTables, claim>>
    BY <1>1, <1>2, <1>5 DEF CreateWishCategoryInDB, wishTables
  <2>2. QED
    BY <1>1, <1>3, <2>1, NothingWritten, WishDoneKeepsInv
<1>6. CASE NeedsCategory(q)
  <2>1. PICK row : row = [list |-> q.found.row.list, name |-> h.arg, enabled |-> TRUE]
    OBVIOUS
  <2>2. PICK c \in Categories : /\ category' = [category EXCEPT ![c] = row]
                                /\ Remember(r, [q.found EXCEPT !["choice"] = c])
    BY <1>1, <1>4, <1>6, <2>1 DEF CreateWishCategoryInDB, RememberIn, Arg
  <2>3. row \in CategoryRow
    BY <1>2, <1>4, <2>1, DraftRow DEF WishCallFits, CategoryRow
  <2>4. WishesTypeOK'
    BY <1>2, <2>2, <2>3 DEF ClaimsInv, WishesTypeOK
  <2>5. WritesFit
    BY <1>2, <2>4 DEF WritesFit, tables, ClaimsInv, SharingInv, TablesFit
  <2>6. PICK x : x = [q.found EXCEPT !["choice"] = c]
    OBVIOUS
  <2>7. x \in Drafts /\ x.row = q.found.row
    BY <1>4, <2>6, DraftWith
  <2>8. QED
    BY <1>1, <1>3, <2>2, <2>5, <2>6, <2>7, FieldKeepsInv
<1>7. QED
  BY <1>5, <1>6

\* A row of a wish without its category.
LEMMA ClearedRow ==
    ASSUME NEW x \in WishRow \cup {NoWish}
    PROVE  /\ [x EXCEPT !.category = None] \in WishRow \cup {NoWish}
           /\ [x EXCEPT !.category = None] = NoWish <=> x = NoWish
           /\ [x EXCEPT !.category = None].owner = x.owner
           /\ [x EXCEPT !.category = None].list = x.list
<1>1. CASE x \in WishRow
  <2>1. PICK y : y = [x EXCEPT !.category = None]
    OBVIOUS
  <2>2. y \in WishRow /\ y.owner = x.owner /\ y.list = x.list
    BY <1>1, <2>1 DEF WishRow
  <2>3. y # NoWish /\ x # NoWish
    BY <1>1, <2>2, WishRowExists
  <2>4. QED
    BY <2>1, <2>2, <2>3
<1>2. CASE x = NoWish
  <2>1. PICK y : y = [list |-> None, owner |-> None, enabled |-> FALSE, category |-> None]
    OBVIOUS
  <2>2. PICK z : z = [y EXCEPT !.category = None]
    OBVIOUS
  <2>3. y \in [list: {None}, owner: {None}, enabled: {FALSE}, category: {None}]
    BY <2>1
  <2>4. z \in [list: {None}, owner: {None}, enabled: {FALSE}, category: {None}]
    BY <2>2, <2>3
  <2>5. z = [list |-> None, owner |-> None, enabled |-> FALSE, category |-> None]
    BY <2>4
  <2>6. y = x /\ z = y
    BY <1>2, <2>1, <2>5 DEF NoWish
  <2>7. QED
    BY <1>2, <2>2, <2>6
<1>3. QED
  BY <1>1, <1>2

\* ClearWishCategoryFromWishes.
LEMMA ClearCategoryKeepsInv ==
    ASSUME ClaimsInv, Remembering, NEW r \in Requests, ClearWishCategoryFromWishes(r),
           UNCHANGED claim
    PROVE  ClaimsInv'
<1>1. PICK q, h : Calls(r, q, h) /\ q = req[r] /\ h = Head(q.todo)
  BY DEF ClearWishCategoryFromWishes, At, Calls
<1>2. h.do = "clearCategory" /\ Done(r) /\ UNCHANGED <<tables, category, claim>>
  BY <1>1 DEF ClearWishCategoryFromWishes, At
<1>3. PICK k : k = q.found.row.category
  OBVIOUS
<1>4. wish' = [w \in Wishes |-> IF wish[w].category = k
                                THEN [wish[w] EXCEPT !.category = None] ELSE wish[w]]
  BY <1>1, <1>3 DEF ClearWishCategoryFromWishes
<1>5. ASSUME NEW w \in Wishes
      PROVE  /\ wish'[w] \in WishRow \cup {NoWish}
             /\ wish'[w] = NoWish <=> wish[w] = NoWish
             /\ wish'[w].owner = wish[w].owner /\ wish'[w].list = wish[w].list
  <2>1. PICK x \in WishRow \cup {NoWish} : x = wish[w]
    BY DEF ClaimsInv, WishesTypeOK
  <2>2. wish'[w] = x \/ wish'[w] = [x EXCEPT !.category = None]
    BY <1>4, <2>1
  <2>3. QED
    BY <2>1, <2>2, ClearedRow
<1>6. wish' \in [Wishes -> WishRow \cup {NoWish}]
  BY <1>4, <1>5
<1>7. WritesFit
  BY <1>2, <1>5, <1>6 DEF WritesFit, tables, ClaimsInv, WishesTypeOK, SharingInv, TablesFit
<1>8. /\ h.do \in WishCalls \ {"readWish", "pickWish", "readEditor"}
      /\ h.do \notin {"notInsider", "notOwnWish", "notClaimed"}
  BY <1>2 DEF WishCalls
<1>9. QED
  BY <1>1, <1>2, <1>7, <1>8, WishDoneKeepsInv

\* A row of a category out of use.
LEMMA DisabledRow ==
    ASSUME NEW x \in CategoryRow \cup {NoCategory}
    PROVE  [x EXCEPT !.enabled = FALSE] \in CategoryRow \cup {NoCategory}
<1>1. CASE x \in CategoryRow
  BY <1>1 DEF CategoryRow
<1>2. CASE x = NoCategory
  <2>1. PICK y : y = [list |-> None, name |-> None, enabled |-> FALSE]
    OBVIOUS
  <2>2. PICK z : z = [y EXCEPT !.enabled = FALSE]
    OBVIOUS
  <2>3. y \in [list: {None}, name: {None}, enabled: {FALSE}]
    BY <2>1
  <2>4. z \in [list: {None}, name: {None}, enabled: {FALSE}]
    BY <2>2, <2>3
  <2>5. z = [list |-> None, name |-> None, enabled |-> FALSE]
    BY <2>4
  <2>6. y = x /\ z = y
    BY <1>2, <2>1, <2>5 DEF NoCategory
  <2>7. QED
    BY <1>2, <2>2, <2>6
<1>3. QED
  BY <1>1, <1>2

\* DeleteWishCategory.
LEMMA DeleteCategoryKeepsInv ==
    ASSUME ClaimsInv, Remembering, NEW r \in Requests, DeleteWishCategory(r), UNCHANGED claim
    PROVE  ClaimsInv'
<1>1. PICK q, h : Calls(r, q, h) /\ q = req[r] /\ h = Head(q.todo)
  BY DEF DeleteWishCategory, At, Calls
<1>2. h.do = "disableCategory" /\ Done(r) /\ UNCHANGED <<tables, wish, claim>>
  BY <1>1 DEF DeleteWishCategory, At
<1>3. PICK k : k = q.found.row.category
  OBVIOUS
<1>4. category' = [category EXCEPT ![k].enabled = FALSE]
  BY <1>1, <1>3 DEF DeleteWishCategory
<1>5. category' \in [Categories -> CategoryRow \cup {NoCategory}]
  <2>1. \A x \in CategoryRow \cup {NoCategory} :
            [x EXCEPT !.enabled = FALSE] \in CategoryRow \cup {NoCategory}
    BY DisabledRow
  <2>2. QED
    BY <1>4, <2>1 DEF ClaimsInv, WishesTypeOK
<1>6. WritesFit
  BY <1>2, <1>5 DEF WritesFit, tables, ClaimsInv, WishesTypeOK, SharingInv, TablesFit
<1>7. /\ h.do \in WishCalls \ {"readWish", "pickWish", "readEditor"}
      /\ h.do \notin {"notInsider", "notOwnWish", "notClaimed"}
  BY <1>2 DEF WishCalls
<1>8. QED
  BY <1>1, <1>2, <1>6, <1>7, WishDoneKeepsInv

\* CreateWishClaimInDB: the claimed wish is not the caller's, as it was when that was
\* checked, or it was deleted in the meantime.
LEMMA CreateClaimKeepsInv ==
    ASSUME ClaimsInv, Remembering, NEW r \in Requests, CreateWishClaimInDB(r)
    PROVE  ClaimsInv'
<1>1. PICK q, h : Calls(r, q, h) /\ q = req[r] /\ h = Head(q.todo)
  BY DEF CreateWishClaimInDB, At, Calls
<1>2. /\ h.do = "createClaim" /\ Done(r) /\ UNCHANGED wishTables
      /\ UNCHANGED <<user, group, groupMember, list, listGroup, collaborator>>
      /\ claim' = claim \cup {[id |-> nextId + 1, wish |-> q.scope, user |-> q.caller]}
      /\ nextId' = nextId + 1
  BY <1>1 DEF CreateWishClaimInDB, At, NewClaim
<1>3. /\ h.do \in WishCalls \ {"readWish", "pickWish", "readEditor"}
      /\ h.do \notin {"notInsider", "notOwnWish", "notClaimed"}
  BY <1>2 DEF WishCalls
<1>4. q.scope \in Wishes /\ wish[q.scope] # NoWish
  BY <1>1, <1>2, HasDraft DEF RowCalls, RowIs
<1>5. WishCallFits(q, h) /\ NotOwn(q)
  BY <1>1, <1>2, <1>3, NextWishCall DEF WishHeadReady
<1>6. q.caller \in Users
  BY <1>2, <1>5 DEF WishCallFits
<1>7. nextId \in Nat
  BY DEF ClaimsInv, SharingInv, TablesFit
<1>8. ASSUME NEW c \in claim' \ claim
      PROVE  /\ c \in [id: 1..nextId', wish: Wishes, user: Users] /\ c.id > nextId
             /\ wish[c.wish] # NoWish
             /\ wish[c.wish].owner = c.user => c.wish \in deleted
  <2>1. c = [id |-> nextId + 1, wish |-> q.scope, user |-> q.caller]
    BY <1>2
  <2>2. QED
    BY <1>2, <1>4, <1>5, <1>6, <1>7, <2>1 DEF NotOwn
<1>9. WritesFit
  BY <1>2, <1>7, <1>8 DEF WritesFit, wishTables, ClaimsInv, WishesTypeOK
<1>10. QED
  BY <1>1, <1>2, <1>3, <1>9, WishDoneKeepsInv

\* DeleteWishClaimByUserAndWish.
LEMMA DropClaimKeepsInv ==
    ASSUME ClaimsInv, Remembering, NEW r \in Requests, DeleteWishClaimByUserAndWish(r)
    PROVE  ClaimsInv'
<1>1. PICK q, h : Calls(r, q, h) /\ q = req[r] /\ h = Head(q.todo)
  BY DEF DeleteWishClaimByUserAndWish, At, Calls
<1>2. /\ h.do = "dropClaim" /\ (Done(r) \/ Answer(r, "error"))
      /\ UNCHANGED <<tables, wishTables>> /\ claim' \subseteq claim
  BY <1>1 DEF DeleteWishClaimByUserAndWish, At
<1>3. WritesFit
  BY <1>2 DEF WritesFit, tables, wishTables, ClaimsInv, WishesTypeOK, SharingInv, TablesFit
<1>4. /\ h.do \in WishCalls \ {"readWish", "pickWish", "readEditor"}
      /\ h.do \notin {"notInsider", "notOwnWish", "notClaimed"}
  BY <1>2 DEF WishCalls
<1>5. QED
  BY <1>1, <1>2, <1>3, <1>4, WishDoneKeepsInv, WishAnswerKeepsInv DEF Replies

\* Every call about wishes keeps the invariant.
LEMMA WishesStepsKeepInv ==
    ASSUME ClaimsInv, Remembering, NEW r \in Requests,
           (WishesStep(r) /\ UNCHANGED claim) \/ ClaimsStep(r)
    PROVE  ClaimsInv'
BY WishCheckKeepsInv, ReadWishKeepsInv, ReadInsiderKeepsInv, CategoryReadKeepsInv,
   CreateCategoryKeepsInv, CreateWishKeepsInv, SaveWishKeepsInv, DisplayKeepsInv,
   ClearCategoryKeepsInv, DeleteCategoryKeepsInv, ClaimCheckKeepsInv, CreateClaimKeepsInv,
   DropClaimKeepsInv, PickWishKeepsInv
   DEF WishesStep, ClaimsStep

-----------------------------------------------------------------------------
(* Requests about groups and wishlists.                                     *)

\* A request that arrives is of the handler that accepts it.
LEMMA Accepted ==
    ASSUME RequestsFit, NEW r \in Requests, NEW op, NEW u, NEW scope, NEW program,
           Accept(r, op, u, scope, program)
    PROVE  req'[r].op = op /\ UNCHANGED tables
BY DEF RequestsFit, Accept, Begin, NoRequest

\* Those of SharingRequest are not about wishes, and their arrival writes nothing.
LEMMA SharingRequestIsOne ==
    ASSUME RequestsFit, NEW r \in Requests, SharingRequest(r)
    PROVE  /\ req'[r].op \in SharingOps /\ UNCHANGED tables
           /\ req'[r].op = "APIUpdateWishlist" => APIUpdateWishlist(r)
<1>1. ASSUME RegisterGroup(r) PROVE req'[r].op = "RegisterGroup" /\ UNCHANGED tables
  BY <1>1, Accepted DEF RegisterGroup
<1>2. ASSUME JoinGroup(r) PROVE req'[r].op = "JoinGroup" /\ UNCHANGED tables
  BY <1>2, Accepted DEF JoinGroup
<1>3. ASSUME RemoveFromGroup(r) PROVE req'[r].op = "RemoveFromGroup" /\ UNCHANGED tables
  BY <1>3, Accepted DEF RemoveFromGroup
<1>4. ASSUME RemoveSelfFromGroup(r) PROVE req'[r].op = "RemoveSelfFromGroup" /\ UNCHANGED tables
  BY <1>4, Accepted DEF RemoveSelfFromGroup
<1>5. ASSUME DeleteGroup(r) PROVE req'[r].op = "DeleteGroup" /\ UNCHANGED tables
  BY <1>5, Accepted DEF DeleteGroup
<1>6. ASSUME RegisterWishlist(r) PROVE req'[r].op = "RegisterWishlist" /\ UNCHANGED tables
  BY <1>6, Accepted DEF RegisterWishlist
<1>7. ASSUME DeleteWishlist(r) PROVE req'[r].op = "DeleteWishlist" /\ UNCHANGED tables
  BY <1>7, Accepted DEF DeleteWishlist
<1>8. ASSUME APIUpdateWishlist(r) PROVE req'[r].op = "APIUpdateWishlist" /\ UNCHANGED tables
  BY <1>8, Accepted DEF APIUpdateWishlist
<1>9. ASSUME JoinWishlist(r) PROVE req'[r].op = "JoinWishlist" /\ UNCHANGED tables
  BY <1>9, Accepted DEF JoinWishlist
<1>10. ASSUME APIAddWishlistsToGroup(r)
       PROVE req'[r].op = "APIAddWishlistsToGroup" /\ UNCHANGED tables
  BY <1>10, Accepted DEF APIAddWishlistsToGroup
<1>11. ASSUME RemoveFromWishlist(r) PROVE req'[r].op = "RemoveFromWishlist" /\ UNCHANGED tables
  BY <1>11, Accepted DEF RemoveFromWishlist
<1>12. ASSUME APICollaborateWishlist(r)
       PROVE req'[r].op = "APICollaborateWishlist" /\ UNCHANGED tables
  BY <1>12, Accepted DEF APICollaborateWishlist
<1>13. ASSUME APIUnCollaborateWishlist(r)
       PROVE req'[r].op = "APIUnCollaborateWishlist" /\ UNCHANGED tables
  BY <1>13, Accepted DEF APIUnCollaborateWishlist
<1>14. ASSUME APIDeleteUser(r) PROVE req'[r].op = "APIDeleteUser" /\ UNCHANGED tables
  BY <1>14, Accepted DEF APIDeleteUser
<1>15. QED
  BY <1>1, <1>2, <1>3, <1>4, <1>5, <1>6, <1>7, <1>8, <1>9, <1>10, <1>11, <1>12, <1>13, <1>14
     DEF SharingRequest, SharingOps

\* A call of theirs ends the request or leaves the calls after it; it enables no account
\* and gives a new collaboration a fresh id.
SharingMoves(r) ==
    \/ Answer(r, "error")
    \/ /\ Head(req[r].todo).do \in SharingCalls
       /\ \/ \E reply \in Replies : Answer(r, reply)
          \/ Done(r)
          \/ \E x : Remember(r, x)
          \/ \E s, x : req' = [req EXCEPT ![r] = Advance([req[r] EXCEPT !.scope = s, !.found = x])]
SharingWrites ==
    /\ \A u \in Users : user'[u] => user[u]
    /\ \A c \in collaborator' \ collaborator : c.id = nextId + 1 /\ nextId' = nextId + 1

\* That is so of every one of them.
LEMMA SharingCallMoves ==
    ASSUME SharingInv, NEW r \in Requests, SharingStep(r)
    PROVE  Pending(r) /\ SharingMoves(r) /\ SharingWrites
<1>1. CASE Check(r)
  <2>1. /\ Pending(r) /\ Head(req[r].todo).do \in Checks /\ UNCHANGED tables
        /\ Done(r) \/ Answer(r, "refused")
    BY <1>1 DEF Check, Guarded, Done, Answer, SharingInv, RequestsFit
  <2>2. QED
    BY <2>1 DEF SharingMoves, SharingWrites, SharingCalls, Replies, tables
<1>2. CASE Fail(r)
  BY <1>2 DEF Fail, Abandon, SharingMoves, SharingWrites, Replies, tables
<1>3. CASE CreateGroupWithMemberships(r)
  BY <1>3 DEF CreateGroupWithMemberships, At, SharingMoves, SharingWrites, SharingCalls
<1>4. CASE CreateGroupMembershipInDB(r)
  BY <1>4 DEF CreateGroupMembershipInDB, At, SharingMoves, SharingWrites, SharingCalls
<1>5. CASE GetGroupMembershipByGroupIDAndMemberID(r)
  BY <1>5 DEF GetGroupMembershipByGroupIDAndMemberID, At, SharingMoves, SharingWrites,
              SharingCalls, Replies, tables
<1>6. CASE DeleteGroupMembership(r)
  BY <1>6 DEF DeleteGroupMembership, At, SharingMoves, SharingWrites, SharingCalls
<1>7. CASE DisableGroup(r)
  BY <1>7 DEF DisableGroup, At, SharingMoves, SharingWrites, SharingCalls
<1>8. CASE CreateWishlistInDB(r)
  <2>1. PICK l \in Lists : req' = [req EXCEPT ![r] = Advance([req[r] EXCEPT !.scope = l])]
    BY <1>8 DEF CreateWishlistInDB, SharingInv, RequestsFit
  <2>2. [req[r] EXCEPT !.scope = l] = [req[r] EXCEPT !.scope = l, !.found = req[r].found]
    BY DEF SharingInv, RequestsFit, IsRequest, RequestFields
  <2>3. req' = [req EXCEPT ![r] = Advance([req[r] EXCEPT !.scope = l, !.found = req[r].found])]
    BY <2>1, <2>2
  <2>4. /\ Pending(r) /\ Head(req[r].todo).do \in SharingCalls
        /\ UNCHANGED <<user, collaborator>>
    BY <1>8 DEF CreateWishlistInDB, At, SharingCalls
  <2>5. QED
    BY <2>3, <2>4 DEF SharingMoves, SharingWrites
<1>9. CASE DisableWishlist(r)
  BY <1>9 DEF DisableWishlist, At, SharingMoves, SharingWrites, SharingCalls
<1>10. CASE ReadCollaborator(r)
  BY <1>10 DEF ReadCollaborator, At, SharingMoves, SharingWrites, SharingCalls, tables
<1>11. CASE ReadWishlist(r)
  BY <1>11 DEF ReadWishlist, At, SharingMoves, SharingWrites, SharingCalls, Replies, tables
<1>12. CASE UpdateWishlistInDB(r)
  BY <1>12 DEF UpdateWishlistInDB, At, SharingMoves, SharingWrites, SharingCalls
<1>13. CASE CreateWishlistMembershipInDB(r)
  BY <1>13 DEF CreateWishlistMembershipInDB, At, SharingMoves, SharingWrites, SharingCalls
<1>14. CASE GetMembershipIDForGroupToWishlist(r)
  BY <1>14 DEF GetMembershipIDForGroupToWishlist, At, SharingMoves, SharingWrites,
               SharingCalls, Replies, tables
<1>15. CASE DeleteWishlistMembership(r)
  BY <1>15 DEF DeleteWishlistMembership, At, SharingMoves, SharingWrites, SharingCalls
<1>16. CASE CreateWishlistCollaboratorInDB(r)
  BY <1>16 DEF CreateWishlistCollaboratorInDB, At, SharingMoves, SharingWrites, SharingCalls
<1>17. CASE GetWishlistCollaboratorByUserIDAndWishlistID(r)
  BY <1>17 DEF GetWishlistCollaboratorByUserIDAndWishlistID, At, SharingMoves, SharingWrites,
               SharingCalls, tables
<1>18. CASE DeleteWishlistCollaboratorByWishlistCollaboratorID(r)
  BY <1>18 DEF DeleteWishlistCollaboratorByWishlistCollaboratorID, At, SharingMoves,
               SharingWrites, SharingCalls, Replies
<1>19. CASE DisableUser(r)
  BY <1>19 DEF DisableUser, At, SharingMoves, SharingWrites, SharingCalls,
               SharingInv, TablesFit
<1>20. QED
  BY <1>1, <1>2, <1>3, <1>4, <1>5, <1>6, <1>7, <1>8, <1>9, <1>10, <1>11, <1>12, <1>13, <1>14,
     <1>15, <1>16, <1>17, <1>18, <1>19 DEF SharingStep

\* A request that makes such a call is none about wishes, before and after it.
LEMMA SharingStays ==
    ASSUME SharingInv, NEW r \in Requests, Pending(r), SharingMoves(r)
    PROVE  Over(req'[r]) \/ req'[r].op \in SharingOps
<1>1. ASSUME NEW reply \in Replies, Answer(r, reply) PROVE Over(req'[r])
  BY <1>1, AnswerStep DEF SharingInv
<1>2. ASSUME Head(req[r].todo).do \in SharingCalls PROVE req[r].op \in SharingOps
  <2>1. PICK q, h : Calls(r, q, h)
    BY CallOf
  <2>2. QED
    BY <1>2, <2>1, NextCall DEF CallFits, Calls
<1>3. ASSUME NEW s, NEW x, GoesOn(r, s, x), Head(req[r].todo).do \in SharingCalls
      PROVE  req'[r].op \in SharingOps
  BY <1>2, <1>3 DEF GoesOn, Holds
<1>4. RequestsFit
  BY DEF SharingInv
<1>5. QED
  BY <1>1, <1>3, <1>4, DoneStep, RememberStep, AdvanceStep DEF SharingMoves, Replies

\* They keep the invariant: wishes and claims are not theirs to write.
LEMMA SharingKeepsClaims ==
    ASSUME ClaimsInv, Remembering, NEW r \in Requests, SharingRequest(r) \/ SharingStep(r),
           UNCHANGED <<wishTables, claim>>
    PROVE  ClaimsInv'
<1>1. KeepsInv(r) /\ nextId \in Nat
  BY StepsKeepInv DEF ClaimsInv, SharingInv, TablesFit
<1>2. SharingWrites
  BY SharingRequestIsOne, SharingCallMoves
     DEF ClaimsInv, SharingInv, SharingWrites, tables
<1>3. ClaimsGrow
  <2>1. \A c \in collaborator' \ collaborator : c.id \in 1..nextId' /\ c.id > nextId
    BY <1>1, <1>2 DEF SharingWrites
  <2>2. QED
    BY <1>1, <1>2, <2>1, DeletedGrows DEF KeepsInv, SharingWrites, ClaimsGrow, wishTables
<1>4. PICK p : p = req'[r]
  OBVIOUS
<1>5. Over(p) \/ p.op \in SharingOps
  BY <1>4, SharingRequestIsOne, SharingCallMoves, SharingStays DEF ClaimsInv, SharingInv
<1>6. p.op \in SharingOps \/ p.todo = <<>>
  BY <1>5, FinishedFields DEF Over
<1>7. WishReady(req[r], before[r])'
  BY <1>4, <1>6 DEF WishReady, WishProgramFits
<1>8. WishesTypeOK'
  BY DEF ClaimsInv, WishesTypeOK, wishTables
<1>9. QED
  BY <1>1, <1>3, <1>7, <1>8, ClaimsKept DEF KeepsInv

-----------------------------------------------------------------------------
(* Programs about wishes.                                                   *)

\* The calls of s fit, the first of them is a and the last z.
Span(q, s, a, z) ==
    /\ IsProgram(s) /\ s # <<>> /\ WishProgramFits(q, s)
    /\ s[1] = a /\ s[Len(s)] = z

\* Up to five calls one after the other.
LEMMA Spans ==
    ASSUME NEW q
    PROVE  /\ \A a : WishCallFits(q, a) => Span(q, <<a>>, a, a)
           /\ \A a, b :
                /\ WishCallFits(q, a) /\ WishCallFits(q, b)
                /\ WishFollows(q.op, a, b)
                => Span(q, <<a, b>>, a, b)
           /\ \A a, b, c :
                /\ WishCallFits(q, a) /\ WishCallFits(q, b) /\ WishCallFits(q, c)
                /\ WishFollows(q.op, a, b) /\ WishFollows(q.op, b, c)
                => Span(q, <<a, b, c>>, a, c)
           /\ \A a, b, c, d :
                /\ WishCallFits(q, a) /\ WishCallFits(q, b) /\ WishCallFits(q, c)
                /\ WishCallFits(q, d)
                /\ WishFollows(q.op, a, b) /\ WishFollows(q.op, b, c) /\ WishFollows(q.op, c, d)
                => Span(q, <<a, b, c, d>>, a, d)
           /\ \A a, b, c, d, e :
                /\ WishCallFits(q, a) /\ WishCallFits(q, b) /\ WishCallFits(q, c)
                /\ WishCallFits(q, d) /\ WishCallFits(q, e)
                /\ WishFollows(q.op, a, b) /\ WishFollows(q.op, b, c) /\ WishFollows(q.op, c, d)
                /\ WishFollows(q.op, d, e)
                => Span(q, <<a, b, c, d, e>>, a, e)
<1>1. ASSUME NEW a, WishCallFits(q, a) PROVE Span(q, <<a>>, a, a)
  <2>1. IsProgram(<<a>>)
    BY TuplesArePrograms
  <2>2. WishProgramFits(q, <<a>>)
    BY <1>1 DEF WishProgramFits
  <2>3. QED
    BY <2>1, <2>2 DEF Span
<1>2. ASSUME NEW a, NEW b, WishCallFits(q, a), WishCallFits(q, b), WishFollows(q.op, a, b)
      PROVE  Span(q, <<a, b>>, a, b)
  <2>1. IsProgram(<<a, b>>)
    BY TuplesArePrograms
  <2>2. WishProgramFits(q, <<a, b>>)
    BY <1>2 DEF WishProgramFits
  <2>3. QED
    BY <2>1, <2>2 DEF Span
<1>3. ASSUME NEW a, NEW b, NEW c, WishCallFits(q, a), WishCallFits(q, b), WishCallFits(q, c),
             WishFollows(q.op, a, b), WishFollows(q.op, b, c)
      PROVE  Span(q, <<a, b, c>>, a, c)
  <2>1. IsProgram(<<a, b, c>>)
    BY TuplesArePrograms
  <2>2. WishProgramFits(q, <<a, b, c>>)
    BY <1>3 DEF WishProgramFits
  <2>3. QED
    BY <2>1, <2>2 DEF Span
<1>4. ASSUME NEW a, NEW b, NEW c, NEW d, WishCallFits(q, a), WishCallFits(q, b),
             WishCallFits(q, c), WishCallFits(q, d), WishFollows(q.op, a, b),
             WishFollows(q.op, b, c), WishFollows(q.op, c, d)
      PROVE  Span(q, <<a, b, c, d>>, a, d)
  <2>1. IsProgram(<<a, b, c, d>>)
    BY TuplesArePrograms
  <2>2. WishProgramFits(q, <<a, b, c, d>>)
    BY <1>4 DEF WishProgramFits
  <2>3. QED
    BY <2>1, <2>2 DEF Span
<1>5. ASSUME NEW a, NEW b, NEW c, NEW d, NEW e, WishCallFits(q, a), WishCallFits(q, b),
             WishCallFits(q, c), WishCallFits(q, d), WishCallFits(q, e), WishFollows(q.op, a, b),
             WishFollows(q.op, b, c), WishFollows(q.op, c, d), WishFollows(q.op, d, e)
      PROVE  Span(q, <<a, b, c, d, e>>, a, e)
  <2>1. IsProgram(<<a, b, c, d, e>>)
    BY TuplesArePrograms
  <2>2. WishProgramFits(q, <<a, b, c, d, e>>)
    BY <1>5 DEF WishProgramFits
  <2>3. QED
    BY <2>1, <2>2 DEF Span
<1>6. QED
  BY <1>1, <1>2, <1>3, <1>4, <1>5

\* One span of calls after another.
LEMMA SpanJoin ==
    ASSUME NEW q, NEW s, NEW a, NEW z, Span(q, s, a, z), NEW t, NEW b, NEW y, Span(q, t, b, y),
           WishFollows(q.op, z, b)
    PROVE  Span(q, s \o t, a, y)
<1>1. PICK n \in Nat \ {0} : n = Len(s) /\ DOMAIN s = 1..n
  BY ProgramTail DEF Span
<1>2. PICK m \in Nat \ {0} : m = Len(t) /\ DOMAIN t = 1..m
  BY ProgramTail DEF Span
<1>3. PICK st : st = s \o t
  OBVIOUS
<1>4. /\ IsProgram(st) /\ Len(st) = n + m
      /\ \A i \in 1..n + m : st[i] = IF i <= n THEN s[i] ELSE t[i - n]
  BY <1>1, <1>2, <1>3, ProgramConcat DEF Span
<1>5. DOMAIN st = 1..n + m
  BY <1>4, ProgramLength
<1>6. ASSUME NEW i \in 1..n + m PROVE WishCallFits(q, st[i])
  <2>1. CASE i <= n
    BY <1>1, <1>4, <2>1 DEF Span, WishProgramFits
  <2>2. CASE i > n
    <3>1. st[i] = t[i - n] /\ i - n \in 1..m
      BY <1>4, <2>2
    <3>2. QED
      BY <1>2, <3>1 DEF Span, WishProgramFits
  <2>3. QED
    BY <2>1, <2>2
<1>7. ASSUME NEW i \in (1..n + m) \ {1} PROVE WishFollows(q.op, st[i - 1], st[i])
  <2>0. i - 1 \in 1..n + m
    OBVIOUS
  <2>1. CASE i <= n
    <3>1. st[i] = s[i] /\ st[i - 1] = s[i - 1]
      BY <1>4, <2>0, <2>1
    <3>2. QED
      BY <1>1, <2>1, <3>1 DEF Span, WishProgramFits
  <2>2. CASE i = n + 1
    <3>1. st[i] = t[1] /\ st[i - 1] = s[n]
      BY <1>4, <2>0, <2>2
    <3>2. t[1] = b /\ s[n] = z
      BY <1>1 DEF Span
    <3>3. QED
      BY <3>1, <3>2
  <2>3. CASE i > n + 1
    <3>1. st[i] = t[i - n] /\ st[i - 1] = t[(i - n) - 1] /\ i - n \in (1..m) \ {1}
      <4>1. (i - 1) - n = (i - n) - 1
        OBVIOUS
      <4>2. QED
        BY <1>4, <2>0, <2>3, <4>1
    <3>2. QED
      BY <1>2, <3>1 DEF Span, WishProgramFits
  <2>4. QED
    BY <2>1, <2>2, <2>3
<1>8. WishProgramFits(q, st)
  BY <1>5, <1>6, <1>7 DEF WishProgramFits
<1>9. st # <<>> /\ st[1] = a /\ st[Len(st)] = y
  <2>1. 1 \in 1..n + m /\ n + m \in 1..n + m /\ ~(n + m <= n) /\ (n + m) - n = m /\ 1 <= n
    OBVIOUS
  <2>2. st[1] = s[1] /\ st[n + m] = t[m]
    BY <1>4, <2>1
  <2>3. QED
    BY <1>1, <1>2, <1>4, <2>2 DEF Span
<1>10. QED
  BY <1>3, <1>4, <1>8, <1>9 DEF Span

\* Nothing after a program is that program.
LEMMA NothingAfter ==
    ASSUME NEW s, IsProgram(s)
    PROVE  s \o <<>> = s
<1> DEFINE S == {s[i] : i \in DOMAIN s}
<1>1. s \in Seq(S)
  BY DEF IsProgram
<1>2. s \o <<>> = s
  BY <1>1, ConcatEmptySeq
<1>3. QED
  BY <1>2

\* A request about a wishlist or a wish arrives.
LEMMA WishArrives ==
    ASSUME ClaimsInv, Remembering, NEW r \in Requests, NEW op, op \notin SharingOps, NEW u,
           NEW scope, NEW s, NEW a, Accept(r, op, u, scope, s), UNCHANGED <<wishTables, claim>>,
           \A q : q.op = op /\ q.caller = u => \E z : Span(q, s, a, z) /\ z.do \notin Midway,
           scope \in IF OnList(op, a) THEN Lists ELSE Wishes,
           ~NeedsDraft(op, a), ~NeedsWish(op, a), a.do \notin ClaimingCalls
    PROVE  ClaimsInv'
<1>1. PICK p : p = req'[r]
  OBVIOUS
<1>2. PICK b : b = before'[r]
  OBVIOUS
<1>3. IsProgram(s) /\ s # <<>> /\ s[1] = a
  <2>1. PICK q : q = [op |-> op, caller |-> u]
    OBVIOUS
  <2>2. q.op = op /\ q.caller = u
    BY <2>1
  <2>3. QED
    BY <2>2 DEF Span
<1>4. PICK z : Span([op |-> op, caller |-> u], s, a, z) /\ z.do \notin Midway
  OBVIOUS
<1>5. \A i \in DOMAIN s : s[i].do \notin SharingCalls
  BY <1>4 DEF Span, WishProgramFits, WishCallFits, WishCalls, WishChecks, ClaimChecks,
              SharingCalls, Checks
<1>6. KeepsInv(r) /\ Holds(p, op, u, scope, None, s) /\ UNCHANGED tables
  BY <1>1, <1>3, <1>5, WishRequestKeepsSharing DEF ClaimsInv, Accept
<1>7. ClaimsGrow
  BY <1>6, DeletedGrows DEF KeepsInv, ClaimsGrow, wishTables, tables
<1>8. WishProgramFits(p, s)
  BY <1>6 DEF Holds, Span
<1>9. WishHeadReady(p, b, a)'
  BY <1>6 DEF Holds, WishHeadReady, ClaimingCalls
<1>10. WishReady(p, b)'
  <2>1. Head(s) = a
    BY <1>3, ProgramTail
  <2>2. Ends(s)
    BY <1>4 DEF Span, Ends
  <2>3. QED
    BY <1>6, <1>8, <1>9, <2>1, <2>2 DEF WishReady, Holds, Ends
<1>11. WishesTypeOK'
  BY DEF ClaimsInv, WishesTypeOK, wishTables
<1>12. WishReady(req[r], before[r])'
  BY <1>1, <1>2, <1>10
<1>13. QED
  BY <1>6, <1>7, <1>11, <1>12, ClaimsKept DEF KeepsInv

-----------------------------------------------------------------------------
(* The handlers.                                                            *)

\* The calls that resolve the category of a wish may come after the check of the editor.
LEMMA ResolutionFits ==
    ASSUME NEW q, q.caller \in Users, q.op \in {"RegisterWish", "APIUpdateWish"},
           NEW choice \in CategoryChoices, NEW s, NEW a, NEW z, Span(q, s, a, z),
           z.do = "mayEditWish"
    PROVE  \E y : /\ Span(q, s \o ResolveWishCategoryForWish(choice), a, y)
                  /\ y.do \in {"mayEditWish", "selectCategory", "createCategory"}
<1>1. CASE choice = <<"none", None>>
  <2>1. ResolveWishCategoryForWish(choice) = <<>>
    BY <1>1 DEF ResolveWishCategoryForWish
  <2>2. s \o <<>> = s
    BY NothingAfter DEF Span
  <2>3. QED
    BY <2>1, <2>2
<1>2. ASSUME NEW k \in Categories, choice = <<"id", k>>
      PROVE  \E y : /\ Span(q, s \o ResolveWishCategoryForWish(choice), a, y)
                    /\ y.do \in {"mayEditWish", "selectCategory", "createCategory"}
  <2>1. PICK c : c = Call("selectCategory", k)
    OBVIOUS
  <2>2. ResolveWishCategoryForWish(choice) = <<c>>
    BY <1>2, <2>1 DEF ResolveWishCategoryForWish
  <2>3. c.do = "selectCategory" /\ c.arg = k
    BY <2>1 DEF Call
  <2>4. WishCallFits(q, c) /\ WishFollows(q.op, z, c)
    BY <2>3 DEF WishCallFits, WishCalls, WishFollows, OnList
  <2>5. Span(q, s \o <<c>>, a, c)
    BY <2>4, Spans, SpanJoin
  <2>6. QED
    BY <2>2, <2>3, <2>5
<1>3. ASSUME NEW n \in CategoryNames, choice = <<"name", n>>
      PROVE  \E y : /\ Span(q, s \o ResolveWishCategoryForWish(choice), a, y)
                    /\ y.do \in {"mayEditWish", "selectCategory", "createCategory"}
  <2>1. PICK c : c = Call("findCategory", n)
    OBVIOUS
  <2>2. PICK d : d = Call("createCategory", n)
    OBVIOUS
  <2>3. ResolveWishCategoryForWish(choice) = <<c, d>>
    BY <1>3, <2>1, <2>2 DEF ResolveWishCategoryForWish
  <2>4. c.do = "findCategory" /\ d.do = "createCategory" /\ c.arg = n /\ d.arg = n
    BY <2>1, <2>2 DEF Call
  <2>5. /\ WishCallFits(q, c) /\ WishCallFits(q, d)
        /\ WishFollows(q.op, z, c) /\ WishFollows(q.op, c, d)
    BY <2>4 DEF WishCallFits, WishCalls, WishFollows, OnList
  <2>6. Span(q, s \o <<c, d>>, a, d)
    BY <2>5, Spans, SpanJoin
  <2>7. QED
    BY <2>3, <2>4, <2>6
<1>4. QED
  BY <1>1, <1>2, <1>3 DEF CategoryChoices

\* RegisterWish.
LEMMA RegisterWishArrives ==
    ASSUME ClaimsInv, Remembering, NEW r \in Requests, RegisterWish(r),
           UNCHANGED <<wishTables, claim>>
    PROVE  ClaimsInv'
<1>1. PICK a : a = Call("readEditor", None)
  OBVIOUS
<1>2. PICK b : b = Call("mayEditWish", None)
  OBVIOUS
<1>3. PICK c : c = Call("createWish", None)
  OBVIOUS
<1>4. a.do = "readEditor" /\ b.do = "mayEditWish" /\ c.do = "createWish"
  BY <1>1, <1>2, <1>3 DEF Call
<1>5. PICK u \in Users, l \in Lists, choice \in CategoryChoices :
          Accept(r, "RegisterWish", u, l,
                 <<a, b>> \o ResolveWishCategoryForWish(choice) \o <<c>>)
  BY <1>1, <1>2, <1>3 DEF RegisterWish
<1>6. PICK s : s = <<a, b>> \o ResolveWishCategoryForWish(choice) \o <<c>>
  OBVIOUS
<1>7. ASSUME NEW q, q.op = "RegisterWish", q.caller = u
      PROVE  \E z : Span(q, s, a, z) /\ z.do \notin Midway
  <2>1. /\ WishCallFits(q, a) /\ WishCallFits(q, b) /\ WishCallFits(q, c)
        /\ WishFollows(q.op, a, b)
    BY <1>4, <1>7 DEF WishCallFits, WishCalls, WishChecks, WishFollows, OnList
  <2>2. Span(q, <<a, b>>, a, b) /\ Span(q, <<c>>, c, c)
    BY <2>1, Spans
  <2>3. PICK y : /\ Span(q, <<a, b>> \o ResolveWishCategoryForWish(choice), a, y)
                 /\ y.do \in {"mayEditWish", "selectCategory", "createCategory"}
    BY <1>4, <1>7, <2>2, ResolutionFits
  <2>4. WishFollows(q.op, y, c)
    BY <1>4, <1>7, <2>3 DEF WishFollows, OnList
  <2>5. Span(q, s, a, c)
    BY <1>6, <2>2, <2>3, <2>4, SpanJoin
  <2>6. QED
    BY <1>4, <2>5 DEF Midway
<1>8. /\ OnList("RegisterWish", a) /\ ~NeedsDraft("RegisterWish", a)
      /\ ~NeedsWish("RegisterWish", a) /\ a.do \notin ClaimingCalls
  BY <1>4 DEF OnList, NeedsDraft, NeedsWish, ClaimingCalls
<1>9. "RegisterWish" \notin SharingOps /\ Accept(r, "RegisterWish", u, l, s)
  BY <1>5, <1>6 DEF SharingOps
<1>10. QED
  BY <1>7, <1>8, <1>9, WishArrives

\* The calls that look after the category a wish was taken out of.
LEMMA CleanupFits ==
    ASSUME NEW q, q.caller \in Users, q.op \in {"APIUpdateWish", "DeleteWish"},
           NEW s, NEW a, NEW z, Span(q, s, a, z), z.do \in {"saveWish", "disableWish"}
    PROVE  \E y : Span(q, s \o CleanupWishCategoryIfEmpty, a, y) /\ y.do \notin Midway
<1>1. PICK b : b = Call("countWishes", None)
  OBVIOUS
<1>2. PICK c : c = Call("clearCategory", None)
  OBVIOUS
<1>3. PICK d : d = Call("disableCategory", None)
  OBVIOUS
<1>4. b.do = "countWishes" /\ c.do = "clearCategory" /\ d.do = "disableCategory"
  BY <1>1, <1>2, <1>3 DEF Call
<1>5. /\ WishCallFits(q, b) /\ WishCallFits(q, c) /\ WishCallFits(q, d)
      /\ WishFollows(q.op, z, b) /\ WishFollows(q.op, b, c) /\ WishFollows(q.op, c, d)
  BY <1>4 DEF WishCallFits, WishCalls, WishFollows, OnList
<1>6. Span(q, <<b, c, d>>, b, d)
  BY <1>5, Spans
<1>7. CleanupWishCategoryIfEmpty = <<b, c, d>>
  BY <1>1, <1>2, <1>3 DEF CleanupWishCategoryIfEmpty
<1>8. Span(q, s \o <<b, c, d>>, a, d)
  BY <1>5, <1>6, SpanJoin
<1>9. QED
  BY <1>4, <1>7, <1>8 DEF Midway

\* APIUpdateWish.
LEMMA UpdateWishArrives ==
    ASSUME ClaimsInv, Remembering, NEW r \in Requests, APIUpdateWish(r),
           UNCHANGED <<wishTables, claim>>
    PROVE  ClaimsInv'
<1>1. PICK a : a = Call("readWish", None)
  OBVIOUS
<1>2. PICK b : b = Call("readEditor", None)
  OBVIOUS
<1>3. PICK c : c = Call("mayEditWish", None)
  OBVIOUS
<1>4. PICK d : d = Call("saveWish", None)
  OBVIOUS
<1>5. a.do = "readWish" /\ b.do = "readEditor" /\ c.do = "mayEditWish" /\ d.do = "saveWish"
  BY <1>1, <1>2, <1>3, <1>4 DEF Call
<1>6. PICK u \in Users, w \in Wishes, choice \in CategoryChoices :
          Accept(r, "APIUpdateWish", u, w,
                 <<a, b, c>> \o ResolveWishCategoryForWish(choice) \o <<d>>
                 \o CleanupWishCategoryIfEmpty)
  BY <1>1, <1>2, <1>3, <1>4 DEF APIUpdateWish
<1>7. PICK s : s = <<a, b, c>> \o ResolveWishCategoryForWish(choice) \o <<d>>
                   \o CleanupWishCategoryIfEmpty
  OBVIOUS
<1>8. ASSUME NEW q, q.op = "APIUpdateWish", q.caller = u
      PROVE  \E z : Span(q, s, a, z) /\ z.do \notin Midway
  <2>1. /\ WishCallFits(q, a) /\ WishCallFits(q, b) /\ WishCallFits(q, c) /\ WishCallFits(q, d)
        /\ WishFollows(q.op, a, b) /\ WishFollows(q.op, b, c)
    BY <1>5, <1>8 DEF WishCallFits, WishCalls, WishChecks, WishFollows, OnList
  <2>2. Span(q, <<a, b, c>>, a, c) /\ Span(q, <<d>>, d, d)
    BY <2>1, Spans
  <2>3. PICK y : /\ Span(q, <<a, b, c>> \o ResolveWishCategoryForWish(choice), a, y)
                 /\ y.do \in {"mayEditWish", "selectCategory", "createCategory"}
    BY <1>5, <1>8, <2>2, ResolutionFits
  <2>4. WishFollows(q.op, y, d)
    BY <1>5, <1>8, <2>3 DEF WishFollows, OnList
  <2>5. Span(q, <<a, b, c>> \o ResolveWishCategoryForWish(choice) \o <<d>>, a, d)
    BY <2>2, <2>3, <2>4, SpanJoin
  <2>6. QED
    BY <1>5, <1>7, <1>8, <2>5, CleanupFits
<1>9. /\ ~OnList("APIUpdateWish", a) /\ ~NeedsDraft("APIUpdateWish", a)
      /\ ~NeedsWish("APIUpdateWish", a) /\ a.do \notin ClaimingCalls
  BY <1>5 DEF OnList, NeedsDraft, NeedsWish, ClaimingCalls
<1>10. "APIUpdateWish" \notin SharingOps /\ Accept(r, "APIUpdateWish", u, w, s)
  BY <1>6, <1>7 DEF SharingOps
<1>11. QED
  BY <1>8, <1>9, <1>10, WishArrives

\* DeleteWish.
LEMMA DeleteWishArrives ==
    ASSUME ClaimsInv, Remembering, NEW r \in Requests, DeleteWish(r),
           UNCHANGED <<wishTables, claim>>
    PROVE  ClaimsInv'
<1>1. PICK a : a = Call("readWish", None)
  OBVIOUS
<1>2. PICK b : b = Call("creatorExists", None)
  OBVIOUS
<1>3. PICK c : c = Call("listExists", None)
  OBVIOUS
<1>4. PICK d : d = Call("listOwnerExists", None)
  OBVIOUS
<1>5. PICK e : e = Call("readEditor", None)
  OBVIOUS
<1>6. PICK f : f = Call("mayEditWish", None)
  OBVIOUS
<1>7. PICK g : g = Call("disableWish", None)
  OBVIOUS
<1>8. /\ a.do = "readWish" /\ b.do = "creatorExists" /\ c.do = "listExists"
      /\ d.do = "listOwnerExists" /\ e.do = "readEditor" /\ f.do = "mayEditWish"
      /\ g.do = "disableWish"
  BY <1>1, <1>2, <1>3, <1>4, <1>5, <1>6, <1>7 DEF Call
<1>9. PICK u \in Users, w \in Wishes :
          Accept(r, "DeleteWish", u, w,
                 <<a>> \o <<b, c, d>> \o <<e, f, g>> \o CleanupWishCategoryIfEmpty)
  BY <1>1, <1>2, <1>3, <1>4, <1>5, <1>6, <1>7 DEF DeleteWish, ConvertWishToWishObject
<1>10. PICK s : s = <<a>> \o <<b, c, d>> \o <<e, f, g>> \o CleanupWishCategoryIfEmpty
  OBVIOUS
<1>11. ASSUME NEW q, q.op = "DeleteWish", q.caller = u
      PROVE  \E z : Span(q, s, a, z) /\ z.do \notin Midway
  <2>1. /\ WishCallFits(q, a) /\ WishCallFits(q, b) /\ WishCallFits(q, c) /\ WishCallFits(q, d)
        /\ WishCallFits(q, e) /\ WishCallFits(q, f) /\ WishCallFits(q, g)
    BY <1>8, <1>11 DEF WishCallFits, WishCalls, WishChecks
  <2>2. /\ WishFollows(q.op, a, b) /\ WishFollows(q.op, b, c) /\ WishFollows(q.op, c, d)
        /\ WishFollows(q.op, d, e) /\ WishFollows(q.op, e, f) /\ WishFollows(q.op, f, g)
    BY <1>8, <1>11 DEF WishFollows, OnList
  <2>3. Span(q, <<a>>, a, a) /\ Span(q, <<b, c, d>>, b, d) /\ Span(q, <<e, f, g>>, e, g)
    BY <2>1, <2>2, Spans
  <2>4. Span(q, <<a>> \o <<b, c, d>>, a, d)
    BY <2>2, <2>3, SpanJoin
  <2>5. Span(q, <<a>> \o <<b, c, d>> \o <<e, f, g>>, a, g)
    BY <2>2, <2>3, <2>4, SpanJoin
  <2>6. QED
    BY <1>8, <1>10, <1>11, <2>5, CleanupFits
<1>12. /\ ~OnList("DeleteWish", a) /\ ~NeedsDraft("DeleteWish", a)
       /\ ~NeedsWish("DeleteWish", a) /\ a.do \notin ClaimingCalls
  BY <1>8 DEF OnList, NeedsDraft, NeedsWish, ClaimingCalls
<1>13. "DeleteWish" \notin SharingOps /\ Accept(r, "DeleteWish", u, w, s)
  BY <1>9, <1>10 DEF SharingOps
<1>14. QED
  BY <1>11, <1>12, <1>13, WishArrives

\* What RegisterWishClaim and RemoveWishClaim have in common.
LEMMA ClaimingFits ==
    ASSUME NEW q, q.caller \in Users, q.op \in {"RegisterWishClaim", "RemoveWishClaim"}
    PROVE  Span(q, ClaimingChecks, Call("readWish", None), Call("notInsider", None))
<1>1. PICK a : a = Call("readWish", None)
  OBVIOUS
<1>2. PICK b : b = Call("listClaimable", None)
  OBVIOUS
<1>3. PICK c : c = Call("readOwnership", None)
  OBVIOUS
<1>4. PICK d : d = Call("mayView", None)
  OBVIOUS
<1>5. PICK e : e = Call("notInsider", None)
  OBVIOUS
<1>6. /\ a.do = "readWish" /\ b.do = "listClaimable" /\ c.do = "readOwnership"
      /\ d.do = "mayView" /\ e.do = "notInsider"
  BY <1>1, <1>2, <1>3, <1>4, <1>5 DEF Call
<1>7. /\ WishCallFits(q, a) /\ WishCallFits(q, b) /\ WishCallFits(q, c) /\ WishCallFits(q, d)
      /\ WishCallFits(q, e)
  BY <1>6 DEF WishCallFits, WishCalls, ClaimChecks
<1>8. /\ WishFollows(q.op, a, b) /\ WishFollows(q.op, b, c) /\ WishFollows(q.op, c, d)
      /\ WishFollows(q.op, d, e)
  BY <1>6 DEF WishFollows, OnList
<1>9. ClaimingChecks = <<a, b, c, d, e>>
  BY <1>1, <1>2, <1>3, <1>4, <1>5 DEF ClaimingChecks
<1>10. Span(q, <<a, b, c, d, e>>, a, e)
  BY <1>7, <1>8, Spans
<1>11. QED
  BY <1>1, <1>5, <1>9, <1>10

\* RegisterWishClaim and RemoveWishClaim.
LEMMA ClaimingArrives ==
    ASSUME ClaimsInv, Remembering, NEW r \in Requests,
           RegisterWishClaim(r) \/ RemoveWishClaim(r), UNCHANGED <<wishTables, claim>>
    PROVE  ClaimsInv'
<1>1. PICK a : a = Call("readWish", None)
  OBVIOUS
<1>2. PICK z : z = Call("notInsider", None)
  OBVIOUS
<1>3. a.do = "readWish" /\ z.do = "notInsider"
  BY <1>1, <1>2 DEF Call
<1>4. ASSUME NEW op \in {"RegisterWishClaim", "RemoveWishClaim"}
      PROVE  /\ op \notin SharingOps /\ ~OnList(op, a) /\ ~NeedsDraft(op, a)
             /\ ~NeedsWish(op, a) /\ a.do \notin ClaimingCalls
  BY <1>3 DEF SharingOps, OnList, NeedsDraft, NeedsWish, ClaimingCalls
<1>5. CASE RegisterWishClaim(r)
  <2>1. PICK b : b = Call("notOwnWish", None)
    OBVIOUS
  <2>2. PICK c : c = Call("notClaimed", None)
    OBVIOUS
  <2>3. PICK d : d = Call("createClaim", None)
    OBVIOUS
  <2>4. b.do = "notOwnWish" /\ c.do = "notClaimed" /\ d.do = "createClaim"
    BY <2>1, <2>2, <2>3 DEF Call
  <2>5. PICK u \in Users, w \in Wishes :
            Accept(r, "RegisterWishClaim", u, w, ClaimingChecks \o <<b, c, d>>)
    BY <1>5, <2>1, <2>2, <2>3 DEF RegisterWishClaim
  <2>6. PICK s : s = ClaimingChecks \o <<b, c, d>>
    OBVIOUS
  <2>7. ASSUME NEW q, q.op = "RegisterWishClaim", q.caller = u
        PROVE  \E y : Span(q, s, a, y) /\ y.do \notin Midway
    <3>1. WishCallFits(q, b) /\ WishCallFits(q, c) /\ WishCallFits(q, d)
      BY <2>4, <2>7 DEF WishCallFits, WishCalls, ClaimChecks
    <3>2. WishFollows(q.op, z, b) /\ WishFollows(q.op, b, c) /\ WishFollows(q.op, c, d)
      BY <1>3, <2>4, <2>7 DEF WishFollows, OnList
    <3>3. Span(q, ClaimingChecks, a, z) /\ Span(q, <<b, c, d>>, b, d)
      BY <1>1, <1>2, <2>7, <3>1, <3>2, Spans, ClaimingFits
    <3>4. Span(q, s, a, d)
      BY <2>6, <3>2, <3>3, SpanJoin
    <3>5. QED
      BY <2>4, <3>4 DEF Midway
  <2>8. QED
    BY <1>4, <2>5, <2>6, <2>7, WishArrives
<1>6. CASE RemoveWishClaim(r)
  <2>1. PICK b : b = Call("ownsClaim", None)
    OBVIOUS
  <2>2. PICK c : c = Call("dropClaim", None)
    OBVIOUS
  <2>3. b.do = "ownsClaim" /\ c.do = "dropClaim"
    BY <2>1, <2>2 DEF Call
  <2>4. PICK u \in Users, w \in Wishes :
            Accept(r, "RemoveWishClaim", u, w, ClaimingChecks \o <<b, c>>)
    BY <1>6, <2>1, <2>2 DEF RemoveWishClaim
  <2>5. PICK s : s = ClaimingChecks \o <<b, c>>
    OBVIOUS
  <2>6. ASSUME NEW q, q.op = "RemoveWishClaim", q.caller = u
        PROVE  \E y : Span(q, s, a, y) /\ y.do \notin Midway
    <3>1. WishCallFits(q, b) /\ WishCallFits(q, c)
      BY <2>3, <2>6 DEF WishCallFits, WishCalls, ClaimChecks
    <3>2. WishFollows(q.op, z, b) /\ WishFollows(q.op, b, c)
      BY <1>3, <2>3, <2>6 DEF WishFollows, OnList
    <3>3. Span(q, ClaimingChecks, a, z) /\ Span(q, <<b, c>>, b, c)
      BY <1>1, <1>2, <2>6, <3>1, <3>2, Spans, ClaimingFits
    <3>4. Span(q, s, a, c)
      BY <2>5, <3>2, <3>3, SpanJoin
    <3>5. QED
      BY <2>3, <3>4 DEF Midway
  <2>7. QED
    BY <1>4, <2>4, <2>5, <2>6, WishArrives
<1>7. QED
  BY <1>5, <1>6

\* The calls that show a wish may come after the one that read it.
LEMMA ShowingFits ==
    ASSUME NEW q, q.op \in {"APIGetWish", "GetWishesFromWishlist", "GetPublicWishlist"},
           NEW s, NEW a, NEW z, Span(q, s, a, z),
           IF q.op = "APIGetWish" THEN z.do = "readWish" ELSE z.do = "pickWish"
    PROVE  \E y : Span(q, s \o ShowWish, a, y) /\ y.do \notin Midway
<1>1. PICK b : b = Call("creatorExists", None)
  OBVIOUS
<1>2. PICK c : c = Call("readClaims", None)
  OBVIOUS
<1>3. PICK d : d = Call("listExists", None)
  OBVIOUS
<1>4. PICK e : e = Call("listOwnerExists", None)
  OBVIOUS
<1>5. PICK f : f = Call("showWish", None)
  OBVIOUS
<1>6. /\ b.do = "creatorExists" /\ c.do = "readClaims" /\ d.do = "listExists"
      /\ e.do = "listOwnerExists" /\ f.do = "showWish"
  BY <1>1, <1>2, <1>3, <1>4, <1>5 DEF Call
<1>7. /\ WishCallFits(q, b) /\ WishCallFits(q, c) /\ WishCallFits(q, d) /\ WishCallFits(q, e)
      /\ WishCallFits(q, f)
  BY <1>6 DEF WishCallFits, WishCalls, WishChecks
<1>8. /\ WishFollows(q.op, z, b) /\ WishFollows(q.op, b, c) /\ WishFollows(q.op, c, d)
      /\ WishFollows(q.op, d, e) /\ WishFollows(q.op, e, f)
  BY <1>6 DEF WishFollows, OnList
<1>9. ShowWish = <<b, c, d, e, f>>
  BY <1>1, <1>2, <1>3, <1>4, <1>5 DEF ShowWish
<1>10. Span(q, <<b, c, d, e, f>>, b, f)
  BY <1>7, <1>8, Spans
<1>11. Span(q, s \o <<b, c, d, e, f>>, a, f)
  BY <1>8, <1>10, SpanJoin
<1>12. QED
  BY <1>6, <1>9, <1>11 DEF Midway

\* APIGetWish.
LEMMA GetWishArrives ==
    ASSUME ClaimsInv, Remembering, NEW r \in Requests, APIGetWish(r),
           UNCHANGED <<wishTables, claim>>
    PROVE  ClaimsInv'
<1>1. PICK a : a = Call("readWish", None)
  OBVIOUS
<1>2. PICK b : b = Call("readOwnership", None)
  OBVIOUS
<1>3. PICK c : c = Call("mayView", None)
  OBVIOUS
<1>4. a.do = "readWish" /\ b.do = "readOwnership" /\ c.do = "mayView"
  BY <1>1, <1>2, <1>3 DEF Call
<1>5. PICK u \in Users, w \in Wishes : Accept(r, "APIGetWish", u, w, <<a, b, c, a>> \o ShowWish)
  BY <1>1, <1>2, <1>3 DEF APIGetWish
<1>6. PICK s : s = <<a, b, c, a>> \o ShowWish
  OBVIOUS
<1>7. ASSUME NEW q, q.op = "APIGetWish", q.caller = u
      PROVE  \E z : Span(q, s, a, z) /\ z.do \notin Midway
  <2>1. /\ WishCallFits(q, a) /\ WishCallFits(q, b) /\ WishCallFits(q, c)
        /\ WishFollows(q.op, a, b) /\ WishFollows(q.op, b, c) /\ WishFollows(q.op, c, a)
    BY <1>4, <1>7 DEF WishCallFits, WishCalls, ClaimChecks, WishFollows, OnList
  <2>2. Span(q, <<a, b, c, a>>, a, a)
    BY <2>1, Spans
  <2>3. QED
    BY <1>4, <1>6, <1>7, <2>2, ShowingFits
<1>8. /\ ~OnList("APIGetWish", a) /\ ~NeedsDraft("APIGetWish", a)
      /\ ~NeedsWish("APIGetWish", a) /\ a.do \notin ClaimingCalls
  BY <1>4 DEF OnList, NeedsDraft, NeedsWish, ClaimingCalls
<1>9. "APIGetWish" \notin SharingOps /\ Accept(r, "APIGetWish", u, w, s)
  BY <1>5, <1>6 DEF SharingOps
<1>10. QED
  BY <1>7, <1>8, <1>9, WishArrives

\* GetWishesFromWishlist.
LEMMA GetWishesArrives ==
    ASSUME ClaimsInv, Remembering, NEW r \in Requests, GetWishesFromWishlist(r),
           UNCHANGED <<wishTables, claim>>
    PROVE  ClaimsInv'
<1>1. PICK a : a = Call("readOwnership", None)
  OBVIOUS
<1>2. PICK b : b = Call("mayView", None)
  OBVIOUS
<1>3. PICK c : c = Call("pickWish", None)
  OBVIOUS
<1>4. a.do = "readOwnership" /\ b.do = "mayView" /\ c.do = "pickWish"
  BY <1>1, <1>2, <1>3 DEF Call
<1>5. PICK u \in Users, l \in Lists :
          Accept(r, "GetWishesFromWishlist", u, l, <<a, b, c>> \o ShowWish)
  BY <1>1, <1>2, <1>3 DEF GetWishesFromWishlist
<1>6. PICK s : s = <<a, b, c>> \o ShowWish
  OBVIOUS
<1>7. ASSUME NEW q, q.op = "GetWishesFromWishlist", q.caller = u
      PROVE  \E z : Span(q, s, a, z) /\ z.do \notin Midway
  <2>1. /\ WishCallFits(q, a) /\ WishCallFits(q, b) /\ WishCallFits(q, c)
        /\ WishFollows(q.op, a, b) /\ WishFollows(q.op, b, c)
    BY <1>4, <1>7 DEF WishCallFits, WishCalls, ClaimChecks, WishFollows, OnList
  <2>2. Span(q, <<a, b, c>>, a, c)
    BY <2>1, Spans
  <2>3. QED
    BY <1>4, <1>6, <1>7, <2>2, ShowingFits
<1>8. /\ OnList("GetWishesFromWishlist", a) /\ ~NeedsDraft("GetWishesFromWishlist", a)
      /\ ~NeedsWish("GetWishesFromWishlist", a) /\ a.do \notin ClaimingCalls
  BY <1>4 DEF OnList, NeedsDraft, NeedsWish, ClaimingCalls
<1>9. /\ "GetWishesFromWishlist" \notin SharingOps
      /\ Accept(r, "GetWishesFromWishlist", u, l, s)
  BY <1>5, <1>6 DEF SharingOps
<1>10. QED
  BY <1>7, <1>8, <1>9, WishArrives

\* GetPublicWishlist: nobody calls.
LEMMA PublicArrives ==
    ASSUME ClaimsInv, Remembering, NEW r \in Requests, GetPublicWishlist(r),
           UNCHANGED <<wishTables, claim>>
    PROVE  ClaimsInv'
<1>1. PICK l \in Lists, link \in 1..nextId :
          Accept(r, "GetPublicWishlist", None, l,
                 <<Call("publicList", link), Call("pickWish", None)>> \o ShowWish)
  BY DEF GetPublicWishlist
<1>2. PICK a : a = Call("publicList", link)
  OBVIOUS
<1>3. PICK b : b = Call("pickWish", None)
  OBVIOUS
<1>4. a.do = "publicList" /\ b.do = "pickWish"
  BY <1>2, <1>3 DEF Call
<1>5. PICK s : s = <<a, b>> \o ShowWish
  OBVIOUS
<1>6. ASSUME NEW q, q.op = "GetPublicWishlist", q.caller = None
      PROVE  \E z : Span(q, s, a, z) /\ z.do \notin Midway
  <2>1. WishCallFits(q, a) /\ WishCallFits(q, b) /\ WishFollows(q.op, a, b)
    BY <1>4, <1>6 DEF WishCallFits, WishCalls, ClaimChecks, WishFollows, OnList
  <2>2. Span(q, <<a, b>>, a, b)
    BY <2>1, Spans
  <2>3. QED
    BY <1>4, <1>5, <1>6, <2>2, ShowingFits
<1>7. /\ OnList("GetPublicWishlist", a) /\ ~NeedsDraft("GetPublicWishlist", a)
      /\ ~NeedsWish("GetPublicWishlist", a) /\ a.do \notin ClaimingCalls
  BY <1>4 DEF OnList, NeedsDraft, NeedsWish, ClaimingCalls
<1>8. "GetPublicWishlist" \notin SharingOps /\ Accept(r, "GetPublicWishlist", None, l, s)
  BY <1>1, <1>2, <1>3, <1>5 DEF SharingOps
<1>9. QED
  BY <1>6, <1>7, <1>8, WishArrives

-----------------------------------------------------------------------------
(* The theorems.                                                            *)

\* Every step keeps the invariant.
LEMMA ClaimsStepsKeepInv ==
    ASSUME ClaimsInv, ClaimsNext
    PROVE  ClaimsInv'
<1>1. Remembering
  BY DEF ClaimsNext
<1>2. PICK r \in Requests :
          \/ (SharingRequest(r) \/ SharingStep(r)) /\ UNCHANGED <<wishTables, claim>>
          \/ (WishesRequest(r) \/ ClaimsRequest(r)) /\ UNCHANGED <<wishTables, claim>>
          \/ (WishesStep(r) /\ UNCHANGED claim) \/ ClaimsStep(r)
  BY DEF ClaimsNext, WishesNext
<1>3. CASE (SharingRequest(r) \/ SharingStep(r)) /\ UNCHANGED <<wishTables, claim>>
  BY <1>1, <1>3, SharingKeepsClaims
<1>4. CASE WishesRequest(r) /\ UNCHANGED <<wishTables, claim>>
  BY <1>1, <1>4, RegisterWishArrives, UpdateWishArrives, DeleteWishArrives DEF WishesRequest
<1>5. CASE ClaimsRequest(r) /\ UNCHANGED <<wishTables, claim>>
  BY <1>1, <1>5, ClaimingArrives, GetWishArrives, GetWishesArrives, PublicArrives
     DEF ClaimsRequest
<1>6. CASE (WishesStep(r) /\ UNCHANGED claim) \/ ClaimsStep(r)
  BY <1>1, <1>6, WishesStepsKeepInv
<1>7. QED
  BY <1>2, <1>3, <1>4, <1>5, <1>6

\* The database the server starts with and no request.
LEMMA ClaimsStarts ==
    ASSUME ClaimsInit
    PROVE  ClaimsInv
<1>1. SharingInv /\ nextId = SeedIds
  BY SharingStarts DEF ClaimsInit, WishesInit, SharingInit
<1>2. WishesTypeOK
  BY WishesSeedAssumption DEF ClaimsInit, WishesInit, WishesTypeOK
<1>3. ClaimsFit
  BY <1>1, ClaimsSeedAssumption DEF ClaimsInit, WishesInit, ClaimsFit
<1>4. BeforeFits
  BY DEF ClaimsInit, BeforeFits, NothingBefore
<1>5. NoOwnWishClaimed
  <2>1. ASSUME NEW c \in claim, wish[c.wish].owner = c.user PROVE c.wish \in deleted
    <3>1. /\ c.wish \in Wishes /\ wish[c.wish] # NoWish
          /\ wish[c.wish].enabled => wish[c.wish].owner # c.user
      BY ClaimsSeedAssumption DEF ClaimsInit, WishesInit
    <3>2. QED
      BY <1>3, <2>1, <3>1 DEF ClaimsFit
  <2>2. QED
    BY <2>1 DEF NoOwnWishClaimed
<1>6. ASSUME NEW r \in Requests PROVE WishReady(req[r], before[r])
  <2>1. req[r] = NoRequest
    BY DEF ClaimsInit, WishesInit, SharingInit
  <2>2. NoRequest.todo = <<>>
    BY DEF NoRequest
  <2>3. QED
    BY <2>1, <2>2 DEF WishReady, WishProgramFits
<1>7. QED
  BY <1>1, <1>2, <1>3, <1>4, <1>5, <1>6 DEF ClaimsInv

\* The invariant speaks of the variables only.
LEMMA ClaimsStutters ==
    ASSUME ClaimsInv, UNCHANGED claimVars
    PROVE  ClaimsInv'
<1>1. UNCHANGED <<sharingVars, wishTables, claim, before, deleted>>
  BY DEF claimVars, wishVars
<1>2. SharingInv'
  BY <1>1, SharingStutters DEF ClaimsInv
<1>3. ClaimsGrow
  <2>1. Grows
    BY <1>1, UnchangedGrows DEF sharingVars, ClaimsInv
  <2>2. QED
    BY <1>1, <2>1 DEF ClaimsGrow, sharingVars, tables, wishTables
<1>4. WishesTypeOK' /\ ClaimsFit' /\ BeforeFits' /\ NoOwnWishClaimed'
  BY <1>1 DEF ClaimsInv, WishesTypeOK, ClaimsFit, BeforeFits, NoOwnWishClaimed, sharingVars,
              tables, wishTables
<1>5. ASSUME NEW r \in Requests PROVE WishReady(req[r], before[r])'
  <2>1. PICK q : q = req[r]
    OBVIOUS
  <2>2. PICK b : b = before[r]
    OBVIOUS
  <2>3. WishReady(q, b) /\ IsProgram(q.todo)
    BY <2>1, <2>2 DEF ClaimsInv, SharingInv, RequestsFit
  <2>4. WishReady(q, b)'
    BY <1>3, <2>2, <2>3, WishReadyStays
  <2>5. q = req'[r] /\ b = before'[r]
    BY <1>1, <2>1, <2>2 DEF sharingVars
  <2>6. QED
    BY <2>4, <2>5
<1>6. QED
  BY <1>2, <1>4, <1>5 DEF ClaimsInv

\* The invariant holds in every reachable state: a request that has read a wish and
\* checked its caller still knows whose wish it is, and whom it has let through, when
\* others have run in between.
THEOREM ClaimsInvariant == ClaimsSpec => []ClaimsInv
<1>1. ClaimsInit => ClaimsInv
  BY ClaimsStarts
<1>2. ClaimsInv /\ [ClaimsNext]_claimVars => ClaimsInv'
  BY ClaimsStepsKeepInv, ClaimsStutters
<1>3. QED
  BY <1>1, <1>2, PTL DEF ClaimsSpec

\* The claims are rows of their columns' types, of wishes and users that exist, with ids
\* that have been given out; so are the wishes, the categories and the tables beside them.
THEOREM ClaimsTypes == ClaimsSpec => []ClaimsTypeOK
<1>1. ClaimsInv => ClaimsTypeOK
  BY InvGivesSharingTypeOK DEF ClaimsInv, ClaimsFit, ClaimsTypeOK
<1>2. QED
  BY <1>1, ClaimsInvariant, PTL

\* No one holds a claim on a wish of their own, unless it was deleted once, whatever
\* edits, deletions and claims overlap.
THEOREM OwnWishesUnclaimed == ClaimsSpec => []NoOwnWishClaimed
<1>1. ClaimsInv => NoOwnWishClaimed
  BY DEF ClaimsInv
<1>2. QED
  BY <1>1, ClaimsInvariant, PTL

\* What holds of groups and wishlists holds with the wishes on them as well.
THEOREM ClaimsKeepSharing ==
    ClaimsSpec => [](OwnerStaysMember /\ CollaboratorIsNotOwner /\ PublicNeverClaimable)
<1>1. ClaimsInv => OwnerStaysMember /\ CollaboratorIsNotOwner /\ PublicNeverClaimable
  BY DEF ClaimsInv, SharingInv, CollaboratorsFit, CollaboratorIsNotOwner
<1>2. QED
  BY <1>1, ClaimsInvariant, PTL

\* A request that is about to create a claim found none that was there when it began:
\* two claims on a wish are of requests that overlapped.
THEOREM EarlierClaimsExclude == ClaimsSpec => EarlierClaimExcludes
<1> DEFINE Excludes == \A r \in Requests :
              At(r, "createClaim") /\ claim' # claim =>
                  LiveClaims(req[r].scope) \cap before[r].claims = {}
<1>1. ClaimsInv => [Excludes]_claimVars
  <2> SUFFICES ASSUME ClaimsInv, NEW r \in Requests, At(r, "createClaim")
               PROVE  LiveClaims(req[r].scope) \cap before[r].claims = {}
    OBVIOUS
  <2>1. PICK q, h : Calls(r, q, h)
    BY CallOf DEF ClaimsInv, At
  <2>2. q = req[r] /\ h.do = "createClaim" /\ h.do \in WishCalls
    BY <2>1 DEF Calls, At, WishCalls
  <2>3. NotClaimed(q, before[r])
    BY <2>1, <2>2, NextWishCall DEF WishHeadReady
  <2>4. QED
    BY <2>2, <2>3 DEF NotClaimed
<1>2. QED
  BY <1>1, ClaimsInvariant, PTL DEF EarlierClaimExcludes

\* What is shown of a wish is shown to neither its creator nor who collaborates.
LEMMA ShownToOthers ==
    ASSUME ClaimsInv, NEW r \in Requests, At(r, "showWish"), ShownClaims(req[r]) # {}
    PROVE  /\ req[r].caller # wish[req[r].scope].owner
           /\ ~CollaboratesThroughout(r, wish[req[r].scope].list)
<1>1. PICK q, h : Calls(r, q, h)
  BY CallOf DEF ClaimsInv, At
<1>2. q = req[r] /\ h.do = "showWish" /\ h.do \in WishCalls
  BY <1>1 DEF Calls, At, WishCalls
<1>3. WishCallFits(q, h) /\ WishHeadReady(q, before[r], h)
  BY <1>1, <1>2, NextWishCall
<1>4. q.scope \in Wishes /\ RowIs(q.scope, q.found)
  <2>1. ~OnList(q.op, h) /\ NeedsWish(q.op, h)
    BY <1>2, <1>3 DEF WishCallFits, OnList, NeedsWish
  <2>2. QED
    BY <1>3, <2>1 DEF WishHeadReady
<1>5. q.found.row.owner \in Users /\ None \notin Users
  BY <1>4, DraftRow, SharingAssumption DEF RowIs
<1>6. ~(/\ q.caller # None
        /\ \/ q.caller = q.found.row.owner
           \/ q.caller \in GetWishlistCollaboratorsFromWishlist(q.found.row.list))
  BY <1>2 DEF ShownClaims
<1>7. q.caller # wish[q.scope].owner
  BY <1>4, <1>5, <1>6 DEF RowIs
<1>8. ASSUME CollaboratesThroughout(r, wish[q.scope].list) PROVE FALSE
  <2>1. PICK c \in collaborator : /\ c.list = q.found.row.list /\ c.user = q.caller
                                  /\ user[c.user] /\ list[q.found.row.list].enabled
    BY <1>2, <1>4, <1>8 DEF CollaboratesThroughout, RowIs
  <2>2. q.caller \in GetWishlistCollaboratorsFromWishlist(q.found.row.list)
    BY <2>1 DEF GetWishlistCollaboratorsFromWishlist
  <2>3. q.caller \in Users
    BY <2>1 DEF ClaimsInv, SharingInv, TablesFit
  <2>4. QED
    BY <1>5, <1>6, <2>2, <2>3
<1>9. QED
  BY <1>2, <1>7, <1>8

\* Who is refused a claim because there is one is neither of them either, but for the
\* creator of a wish that was deleted once.
LEMMA RefusedAreOthers ==
    ASSUME ClaimsInv, NEW r \in Requests, At(r, "notClaimed")
    PROVE  /\ req[r].caller = wish[req[r].scope].owner => req[r].scope \in deleted
           /\ ~CollaboratesThroughout(r, wish[req[r].scope].list)
<1>1. PICK q, h : Calls(r, q, h)
  BY CallOf DEF ClaimsInv, At
<1>2. q = req[r] /\ h.do = "notClaimed" /\ h.do \in WishCalls
  BY <1>1 DEF Calls, At, WishCalls, ClaimChecks
<1>3. NotOwn(q) /\ NotInsider(q, before[r])
  BY <1>1, <1>2, NextWishCall DEF WishHeadReady
<1>4. QED
  BY <1>2, <1>3 DEF NotOwn, NotInsider, CollaboratesThroughout

\* The creator of a wish and the collaborators of its wishlist are never told that it is
\* claimed, although what is shown was read in calls of their own, and the caller was
\* looked at before or after the claims.
THEOREM SurpriseIsKept == ClaimsSpec => InsidersStaySurprised
<1> DEFINE Surprised == \A r \in Requests : Discloses(r) =>
              LET w == req[r].scope
              IN /\ req[r].caller = wish[w].owner => At(r, "notClaimed") /\ w \in deleted
                 /\ ~CollaboratesThroughout(r, wish[w].list)
<1>1. ClaimsInv => [Surprised]_claimVars
  BY ShownToOthers, RefusedAreOthers DEF Discloses
<1>2. QED
  BY <1>1, ClaimsInvariant, PTL DEF InsidersStaySurprised

\* Requests about wishes grant nothing.
LEMMA WishesGrantNothing ==
    ASSUME NEW r \in Requests,
           WishesRequest(r) \/ WishesStep(r) \/ ClaimsRequest(r) \/ ClaimsStep(r)
    PROVE  UNCHANGED <<groupMember, list, listGroup, collaborator>>
<1>1. CASE WishesRequest(r)
  BY <1>1 DEF WishesRequest, RegisterWish, APIUpdateWish, DeleteWish, Accept, tables
<1>2. CASE ClaimsRequest(r)
  BY <1>2 DEF ClaimsRequest, RegisterWishClaim, RemoveWishClaim, APIGetWish,
       GetWishesFromWishlist, GetPublicWishlist, Accept, tables
<1>3. CASE WishesStep(r)
  BY <1>3 DEF WishesStep, WishCheck, GetWishByWishID, ReadEditor, GetWishCategoryByID,
       GetWishCategoryByNameInWishlist, CreateWishCategoryInDB, CreateWishInDB,
       UpdateWishInDB, CountWishes, ClearWishCategoryFromWishes, DeleteWishCategory, tables
<1>4. CASE ClaimsStep(r)
  BY <1>4 DEF ClaimsStep, ClaimCheck, ReadOwnership, CreateWishClaimInDB,
       DeleteWishClaimByUserAndWish, PickWish, GetWishClaimFromWish, WishShown, tables
<1>5. QED
  BY <1>1, <1>2, <1>3, <1>4

\* Access is granted by owners only in the whole system as well.
THEOREM ClaimsGrantNoAccess == ClaimsSpec => OnlyOwnersGrantAccess
<1> DEFINE Grants == \A r \in Requests : req'[r] # req[r] =>
              /\ \A m \in groupMember' \ groupMember : group'[m.group].owner = req[r].caller
              /\ \A w \in listGroup' \ listGroup : list'[w.list].owner = req[r].caller
              /\ \A c \in collaborator' \ collaborator : list'[c.list].owner = req[r].caller
<1>1. ClaimsInv /\ [ClaimsNext]_claimVars => [Grants]_sharingVars
  <2> SUFFICES ASSUME ClaimsInv, [ClaimsNext]_claimVars, ~UNCHANGED sharingVars PROVE Grants
    OBVIOUS
  <2>1. PICK r \in Requests :
            \/ SharingRequest(r) \/ SharingStep(r)
            \/ WishesRequest(r) \/ WishesStep(r) \/ ClaimsRequest(r) \/ ClaimsStep(r)
    BY DEF ClaimsNext, WishesNext, claimVars, wishVars
  <2>2. CASE SharingRequest(r) \/ SharingStep(r)
    <3>1. \A t \in Requests : req'[t] # req[t] => GrantsItsOwn(t)
      BY <2>2, StepsKeepInv, MoverGrants DEF ClaimsInv
    <3>2. QED
      BY <3>1 DEF GrantsItsOwn
  <2>3. CASE WishesRequest(r) \/ WishesStep(r) \/ ClaimsRequest(r) \/ ClaimsStep(r)
    BY <2>3, WishesGrantNothing
  <2>4. QED
    BY <2>1, <2>2, <2>3
<1>2. QED
  BY <1>1, ClaimsInvariant, PTL DEF ClaimsSpec, OnlyOwnersGrantAccess

-----------------------------------------------------------------------------
(* Categories, where requests come one at a time.                           *)

InUse(c) == \E w \in Wishes : wish[w].enabled /\ wish[w].category = c

\* What a request about wishes knows before its next call: it has no category until it
\* chooses one, the row it read is the wish's, what it chose may be used or there is
\* nothing of that name, and the category it cleans up has lost a wish, then all of them.
CategoryHead(q, h) ==
    q.op \notin SharingOps =>
        /\ h.do \notin Choosing \cup Cleaning => Draft(q).choice = None
        /\ NeedsWish(q.op, h) /\ h.do \notin Cleaning => q.found.row = wish[q.scope]
        /\ h.do \in Choosing /\ q.found.choice # None =>
              Selectable(q.found.choice, q.found.row.list)
        /\ h.do = "createCategory" /\ q.found.choice = None =>
              \A c \in Categories :
                  Selectable(c, q.found.row.list) => category[c].name # h.arg
        /\ h.do \in Cleaning => q.found.row.category # None
        /\ h.do \in {"clearCategory", "disableCategory"} =>
              \A w \in Wishes : wish[w].enabled => wish[w].category # q.found.row.category

\* The category c is without a wish for q to give it one, or to disable it.
Owes(q, c) ==
    /\ q.op \notin SharingOps
    /\ \/ Head(q.todo).do \in Choosing /\ c = q.found.choice
       \/ Head(q.todo).do \in Cleaning /\ c = q.found.row.category

\* Unless a request failed, a category without a wish is one that a request owes.
NoneLeft ==
    (\A r \in Requests : req[r].reply # "error") =>
        \A c \in Categories :
            category[c].enabled => InUse(c) \/ \E r \in Requests : Pending(r) /\ Owes(req[r], c)

CategoryInv ==
    /\ ClaimsInv /\ Alone
    /\ NoDanglingCategory /\ OneCategoryPerName /\ NoneLeft
    /\ \A r \in Requests : Pending(r) => CategoryHead(req[r], Head(req[r].todo))

\* Before a step of r only r can owe anything.
LEMMA OnlyItsOwn ==
    ASSUME MaxInFlight = 1, CategoryInv, NEW r \in Requests, OnlyMoves(r),
           Pending(r) \/ MayBegin(r), \A t \in Requests : req'[t].reply # "error",
           NEW c \in Categories, category[c].enabled
    PROVE  InUse(c) \/ (Pending(r) /\ Owes(req[r], c))
<1>1. \A t \in Requests \ {r} : ~Pending(t)
  BY AloneKept DEF CategoryInv
<1>2. req[r].reply # "error"
  BY DEF Pending, MayBegin, NoRequest
<1>3. \A t \in Requests : req[t].reply # "error"
  BY <1>2 DEF OnlyMoves
<1>4. QED
  BY <1>1, <1>3 DEF CategoryInv, NoneLeft

\* The invariant after a step of r, when r still owes what it leaves without a wish.
LEMMA CategoryKept ==
    ASSUME MaxInFlight = 1, CategoryInv, ClaimsInv', NEW r \in Requests, OnlyMoves(r),
           Pending(r) \/ MayBegin(r), NoDanglingCategory', OneCategoryPerName',
           NEW p, p = req'[r],
           ASSUME \A t \in Requests : req'[t].reply # "error"
           PROVE  \A c \in Categories :
                     category'[c].enabled =>
                        InUse(c)' \/ (p.reply = "pending" /\ Owes(p, c)'),
           p.reply = "pending" => CategoryHead(p, Head(p.todo))'
    PROVE  CategoryInv'
<1>1. Alone' /\ \A t \in Requests \ {r} : ~Pending(t)'
  BY AloneKept DEF CategoryInv
<1>2. NoneLeft'
  <2>1. SUFFICES ASSUME \A t \in Requests : req'[t].reply # "error",
                        NEW c \in Categories, category'[c].enabled, ~InUse(c)'
                 PROVE  Pending(r)' /\ Owes(req[r], c)'
    BY DEF NoneLeft
  <2>2. p.reply = "pending" /\ Owes(p, c)'
    BY <2>1
  <2>3. QED
    BY <2>2 DEF Pending
<1>3. \A t \in Requests : Pending(t)' => CategoryHead(req[t], Head(req[t].todo))'
  BY <1>1 DEF Pending
<1>4. QED
  BY <1>1, <1>2, <1>3 DEF CategoryInv

\* A step that writes no wish or category, of a request that owes nothing or fails.
LEMMA QuietStep ==
    ASSUME MaxInFlight = 1, CategoryInv, ClaimsInv', NEW r \in Requests, OnlyMoves(r),
           Pending(r) \/ MayBegin(r), UNCHANGED wishTables, NEW p, p = req'[r],
           p.reply = "error" \/ (Pending(r) => \A c \in Categories : ~Owes(req[r], c)),
           p.reply = "pending" => CategoryHead(p, Head(p.todo))'
    PROVE  CategoryInv'
<1>1. NoDanglingCategory' /\ OneCategoryPerName' /\ UNCHANGED <<wish, category>>
  BY DEF CategoryInv, NoDanglingCategory, OneCategoryPerName, wishTables
<1>2. ASSUME \A t \in Requests : req'[t].reply # "error", NEW c \in Categories,
             category'[c].enabled
      PROVE  InUse(c)'
  <2>1. InUse(c)
    BY <1>1, <1>2, OnlyItsOwn
  <2>2. QED
    BY <1>1, <2>1 DEF InUse
<1>3. QED
  BY <1>1, <1>2, CategoryKept

-----------------------------------------------------------------------------
(* The other requests.                                                      *)

\* Requests about groups and wishlists.
LEMMA SharingKeepsCategories ==
    ASSUME MaxInFlight = 1, CategoryInv, ClaimsInv', NEW r \in Requests,
           SharingRequest(r) \/ SharingStep(r), UNCHANGED wishTables
    PROVE  CategoryInv'
<1>1. OnlyMoves(r)
  BY StepsKeepInv DEF CategoryInv, ClaimsInv, KeepsInv
<1>2. PICK p : p = req'[r]
  OBVIOUS
<1>3. p.reply # "pending" \/ p.op \in SharingOps
  <2>1. Over(p) \/ p.op \in SharingOps
    BY <1>2, SharingRequestIsOne, SharingCallMoves, SharingStays
       DEF CategoryInv, ClaimsInv, SharingInv
  <2>2. QED
    BY <2>1, FinishedFields DEF Over, Replies
<1>4. CategoryHead(p, Head(p.todo))' \/ p.reply # "pending"
  BY <1>3 DEF CategoryHead
<1>5. CASE SharingRequest(r)
  BY <1>1, <1>2, <1>4, <1>5, QuietStep DEF SharingRequest, MayBegin, Pending, NoRequest
<1>6. CASE SharingStep(r)
  <2>1. Pending(r) /\ SharingMoves(r)
    BY <1>6, SharingCallMoves DEF CategoryInv, ClaimsInv
  <2>2. CASE Answer(r, "error")
    <3>1. p.reply = "error"
      BY <1>2, <2>2, FinishedFields DEF Answer, CategoryInv, ClaimsInv, SharingInv, RequestsFit
    <3>2. QED
      BY <1>1, <1>2, <1>4, <2>1, <3>1, QuietStep
  <2>3. CASE Head(req[r].todo).do \in SharingCalls
    <3>1. PICK q, h : Calls(r, q, h)
      BY <2>1, CallOf DEF CategoryInv, ClaimsInv
    <3>2. req[r].op \in SharingOps
      BY <2>3, <3>1, NextCall DEF CallFits, Calls, CategoryInv, ClaimsInv
    <3>3. QED
      BY <1>1, <1>2, <1>4, <2>1, <3>2, QuietStep DEF Owes
  <2>4. QED
    BY <2>1, <2>2, <2>3 DEF SharingMoves
<1>7. QED
  BY <1>5, <1>6

\* A request about wishes that arrives has read nothing.
LEMMA ArrivesFresh ==
    ASSUME RequestsFit, NEW r \in Requests, WishesRequest(r) \/ ClaimsRequest(r)
    PROVE  MayBegin(r) /\ req'[r].found = None /\ \A t \in Requests \ {r} : req'[t] = req[t]
<1>1. \A op, u, scope, s :
          Accept(r, op, u, scope, s) =>
              req'[r].found = None /\ \A t \in Requests \ {r} : req'[t] = req[t]
  BY DEF RequestsFit, Accept, Begin, NoRequest
<1>2. CASE WishesRequest(r)
  BY <1>1, <1>2 DEF WishesRequest, RegisterWish, APIUpdateWish, DeleteWish
<1>3. CASE ClaimsRequest(r)
  BY <1>1, <1>3 DEF ClaimsRequest, RegisterWishClaim, RemoveWishClaim, APIGetWish,
                    GetWishesFromWishlist, GetPublicWishlist
<1>4. QED
  BY <1>2, <1>3

\* None of its calls to come is about categories.
LEMMA WishesArriveQuietly ==
    ASSUME MaxInFlight = 1, CategoryInv, ClaimsInv', NEW r \in Requests,
           WishesRequest(r) \/ ClaimsRequest(r), UNCHANGED wishTables
    PROVE  CategoryInv'
<1>1. PICK p : p = req'[r]
  OBVIOUS
<1>2. PICK d : d = Head(p.todo)
  OBVIOUS
<1>3. PICK b : b = before'[r]
  OBVIOUS
<1>4. MayBegin(r) /\ p.found = None /\ OnlyMoves(r)
  BY <1>1, ArrivesFresh DEF CategoryInv, ClaimsInv, SharingInv, OnlyMoves
<1>5. ASSUME p.reply = "pending", p.op \notin SharingOps PROVE CategoryHead(p, d)'
  <2>1. p.todo # <<>> /\ IsProgram(p.todo)
    BY <1>1, <1>5 DEF ClaimsInv, SharingInv, RequestsFit, RequestsOK, Pending
  <2>2. WishReady(p, b)'
    BY <1>1, <1>3 DEF ClaimsInv
  <2>3. WishHeadReady(p, b, d)' /\ WishCallFits(p, d)
    BY <1>2, <1>5, <2>1, <2>2, ProgramTail DEF WishReady, WishProgramFits
  <2>4. ~NeedsWish(p.op, d) /\ ~NeedsDraft(p.op, d)
    BY <1>4, <2>3, WishesAssumption DEF WishHeadReady, RowIs
  <2>5. d.do \notin Choosing \cup Cleaning
    BY <2>3, <2>4 DEF NeedsWish, NeedsDraft, OnList, Choosing, Cleaning
  <2>6. Draft(p).choice = None
    BY <1>4 DEF Draft
  <2>7. QED
    BY <2>4, <2>5, <2>6 DEF CategoryHead, Choosing, Cleaning
<1>6. p.reply = "pending" => CategoryHead(p, d)'
  BY <1>5 DEF CategoryHead
<1>7. ~Pending(r)
  BY <1>4 DEF MayBegin, Pending, NoRequest
<1>8. QED
  BY <1>1, <1>2, <1>4, <1>6, <1>7, QuietStep

-----------------------------------------------------------------------------
(* The next call about wishes.                                              *)

\* What r knows before its next call, which is about wishes.
LEMMA Knows ==
    ASSUME CategoryInv, NEW r \in Requests, NEW q, NEW h, Calls(r, q, h), h.do \in WishCalls
    PROVE  /\ q = req[r] /\ Pending(r) /\ h = Head(q.todo)
           /\ q.op \notin SharingOps /\ CategoryHead(q, h)
           /\ q.found \in Drafts \cup {None} /\ WishCallFits(q, h)
<1>1. q.op \notin SharingOps /\ WishHeadReady(q, before[r], h) /\ WishCallFits(q, h)
  BY NextWishCall DEF CategoryInv
<1>2. q = req[r] /\ Pending(r) /\ h = Head(q.todo)
  BY DEF Calls
<1>3. CategoryHead(q, h)
  BY <1>2 DEF CategoryInv
<1>4. QED
  BY <1>1, <1>2, <1>3 DEF WishHeadReady

\* The call after it, where there is one.
LEMMA FollowingCall ==
    ASSUME ClaimsInv, NEW r \in Requests, NEW q, NEW h, Calls(r, q, h), h.do \in WishCalls,
           NEW s, NEW x, GoesOn(r, s, x), NEW p, p = req'[r], NEW d, d = Head(p.todo)
    PROVE  /\ p.op = q.op /\ p.caller = q.caller /\ p.scope = s /\ p.found = x
           /\ p.reply = "pending"
           /\ WishFollows(q.op, h, d) /\ WishCallFits(p, d)
<1>1. /\ q.op \notin SharingOps /\ WishProgramFits(q, q.todo) /\ IsProgram(q.todo)
      /\ q.todo # <<>> /\ q = req[r] /\ h = Head(q.todo)
  BY NextWishCall DEF Calls
<1>2. /\ p.op = q.op /\ p.caller = q.caller /\ p.scope = s /\ p.found = x
      /\ p.todo = Tail(q.todo) /\ p.todo # <<>> /\ p.reply = "pending"
  BY <1>1 DEF GoesOn, Holds
<1>3. QED
  BY <1>1, <1>2, WishTail

\* A request is not over in the middle of what it does.
LEMMA MidwayGoesOn ==
    ASSUME ClaimsInv, NEW r \in Requests, NEW q, NEW h, Calls(r, q, h), h.do \in Midway,
           NEW x, (Done(r) /\ x = q.found) \/ Remember(r, x)
    PROVE  OnlyMoves(r) /\ GoesOn(r, q.scope, x)
<1>1. q = req[r] /\ Pending(r) /\ h = Head(q.todo) /\ RequestsFit /\ IsRequest(q)
  BY DEF Calls, ClaimsInv, SharingInv, RequestsFit
<1>2. OnlyMoves(r) /\ (Over(req'[r]) \/ GoesOn(r, q.scope, x))
  BY <1>1, DoneStep, RememberStep
<1>3. h.do \in WishCalls
  BY DEF Midway, WishCalls
<1>4. IsProgram(q.todo) /\ q.todo # <<>> /\ Ends(q.todo)
  BY <1>3, NextWishCall
<1>5. Len(q.todo) # 1
  BY <1>1, <1>4, ProgramTail DEF Ends
<1>6. PICK y : y = [q EXCEPT !.found = x]
  OBVIOUS
<1>7. y.todo = q.todo /\ y.reply = q.reply /\ IsRequest(y)
  BY <1>1, <1>6 DEF IsRequest, RequestFields
<1>8. q.reply = "pending"
  BY <1>1 DEF Pending
<1>9. \A z \in {q, y} : Advance(z).reply = "pending"
  BY <1>1, <1>5, <1>7, <1>8 DEF Advance, IsRequest, RequestFields
<1>10. req'[r] = Advance(q) \/ req'[r] = Advance(y)
  BY <1>1, <1>6 DEF Done, Remember, RequestsFit
<1>11. req'[r].reply = "pending"
  BY <1>9, <1>10
<1>12. ~Over(req'[r])
  BY <1>11, FinishedFields DEF Over, Replies
<1>13. QED
  BY <1>2, <1>12

\* A draft with another field keeps the rest, also the draft of a request that has read
\* nothing.
LEMMA DraftKeeps ==
    ASSUME NEW q, q.found \in Drafts \cup {None}, NEW v
    PROVE  LET x == Draft(q)
           IN  /\ [x EXCEPT !["row"] = v].row = v /\ [x EXCEPT !["row"] = v].choice = x.choice
               /\ [x EXCEPT !["choice"] = v].row = x.row
               /\ [x EXCEPT !["choice"] = v].choice = v
               /\ \A f \in {"insider", "claims"} :
                    [x EXCEPT ![f] = v].row = x.row /\ [x EXCEPT ![f] = v].choice = x.choice
<1>1. PICK x : x = Draft(q)
  OBVIOUS
<1>2. x = [f \in {"row", "choice", "insider", "claims"} |-> x[f]]
  <2>1. CASE q.found = None
    <3>1. PICK row : row = [list |-> q.scope, owner |-> q.caller,
                            enabled |-> TRUE, category |-> None]
      OBVIOUS
    <3>2. x = [row |-> row, choice |-> None, insider |-> FALSE, claims |-> {}]
      BY <1>1, <2>1, <3>1 DEF Draft
    <3>3. QED
      BY <3>2
  <2>2. CASE q.found \in Drafts
    <3>1. x \in Drafts
      BY <1>1, <2>2, DraftFound
    <3>2. QED
      BY <3>1 DEF Drafts
  <2>3. QED
    BY <2>1, <2>2
<1>3. QED
  BY <1>1, <1>2

-----------------------------------------------------------------------------
(* The calls that write no wish or category.                                *)

\* What such a call leaves behind when q goes on about s, having found x: no category
\* was chosen, and the row is that of the wish.
LooksOn(q, h, s, x) ==
    /\ x = None \/ x.choice = None
    /\ h.do \in {"readWish", "pickWish"} \/ NeedsWish(q.op, h) => x.row = wish[s]

ChoosingReads == {"selectCategory", "findCategory"}

\* A call that does not choose a category either.
LEMMA QuietCall ==
    ASSUME MaxInFlight = 1, CategoryInv, ClaimsInv', NEW r \in Requests, NEW q, NEW h,
           Calls(r, q, h), h.do \in WishCalls,
           h.do \notin Choosing \cup Cleaning \cup ChoosingReads \cup {"disableWish"},
           UNCHANGED wishTables, OnlyMoves(r), NEW s, NEW x,
           Over(req'[r]) \/ (GoesOn(r, s, x) /\ LooksOn(q, h, s, x))
    PROVE  CategoryInv'
<1>1. /\ q = req[r] /\ Pending(r) /\ h = Head(q.todo)
      /\ q.op \notin SharingOps /\ CategoryHead(q, h)
  BY Knows
<1>2. \A c \in Categories : ~Owes(q, c)
  BY <1>1 DEF Owes
<1>3. PICK p : p = req'[r]
  OBVIOUS
<1>4. PICK d : d = Head(p.todo)
  OBVIOUS
<1>5. ASSUME p.reply = "pending" PROVE CategoryHead(p, d)'
  <2>1. GoesOn(r, s, x) /\ LooksOn(q, h, s, x)
    BY <1>3, <1>5, FinishedFields DEF Over, Replies
  <2>2. /\ p.op = q.op /\ p.scope = s /\ p.found = x
        /\ WishFollows(q.op, h, d)
    BY <1>3, <1>4, <2>1, FollowingCall DEF CategoryInv
  <2>3. d.do # "createCategory" /\ d.do \notin Cleaning
    BY <2>2 DEF WishFollows, ChoosingReads, Choosing, Cleaning
  <2>4. x = None \/ x.choice = None
    BY <2>1 DEF LooksOn
  <2>5. Draft(p).choice = None
    BY <2>2, <2>4 DEF Draft
  <2>6. NeedsWish(p.op, d) => x.row = wish'[s]
    <3>1. NeedsWish(p.op, d) => h.do \in {"readWish", "pickWish"} \/ NeedsWish(q.op, h)
      BY <2>2 DEF NeedsWish, WishFollows
    <3>2. QED
      BY <2>1, <3>1 DEF LooksOn, wishTables
  <2>7. d.do \in Choosing => x.choice = None
    <3>1. ASSUME d.do \in Choosing PROVE x # None
      <4>1. d.do \in {"createWish", "saveWish"} /\ h.do = "mayEditWish"
        BY <2>2, <2>3, <3>1 DEF Choosing, WishFollows, ChoosingReads
      <4>2. PICK b : b = before'[r]
        OBVIOUS
      <4>3. WishHeadReady(p, b, d)' /\ WishCallFits(p, d)
        <5>1. p.todo # <<>> /\ IsProgram(p.todo) /\ p.op \notin SharingOps
          BY <1>1, <1>3, <1>5, <2>2
             DEF ClaimsInv, SharingInv, RequestsFit, RequestsOK, Pending
        <5>2. WishReady(p, b)'
          BY <1>3, <4>2 DEF ClaimsInv
        <5>3. QED
          BY <1>4, <5>1, <5>2, ProgramTail DEF WishReady, WishProgramFits
      <4>4. NeedsWish(p.op, d) \/ NeedsDraft(p.op, d)
        BY <4>1, <4>3 DEF NeedsWish, NeedsDraft, OnList
      <4>5. p.found \in Drafts
        BY <4>3, <4>4 DEF WishHeadReady, RowIs
      <4>6. QED
        BY <2>2, <4>5, WishesAssumption
    <3>2. QED
      BY <2>4, <3>1
  <2>8. QED
    BY <2>2, <2>3, <2>5, <2>6, <2>7 DEF CategoryHead, Choosing, Cleaning
<1>6. QED
  BY <1>1, <1>2, <1>3, <1>4, <1>5, QuietStep

\* What q knows of its draft before such a call.
LEMMA Unchosen ==
    ASSUME CategoryInv, NEW r \in Requests, NEW q, NEW h, Calls(r, q, h), h.do \in WishCalls,
           h.do \notin Choosing \cup Cleaning
    PROVE  /\ Draft(q).choice = None
           /\ q.found = None \/ q.found.choice = None
           /\ NeedsWish(q.op, h) => q.found.row = wish[q.scope]
           /\ NeedsWish(q.op, h) => Draft(q) = q.found
<1>1. q.op \notin SharingOps /\ CategoryHead(q, h) /\ WishHeadReady(q, before[r], h)
  BY Knows, NextWishCall DEF CategoryInv
<1>2. Draft(q).choice = None /\ (NeedsWish(q.op, h) => q.found.row = wish[q.scope])
  BY <1>1 DEF CategoryHead
<1>3. NeedsWish(q.op, h) => Draft(q) = q.found
  BY <1>1, DraftFound DEF WishHeadReady, RowIs
<1>4. q.found = None \/ q.found.choice = None
  BY <1>2 DEF Draft
<1>5. QED
  BY <1>2, <1>3, <1>4

\* A check, a write of claims, or the end.
LEMMA QuietDone ==
    ASSUME MaxInFlight = 1, CategoryInv, ClaimsInv', NEW r \in Requests, NEW q, NEW h,
           Calls(r, q, h), h.do \in WishCalls,
           h.do \notin Choosing \cup Cleaning \cup ChoosingReads
                       \cup {"disableWish", "readWish", "pickWish"},
           UNCHANGED wishTables, Done(r) \/ \E reply \in Replies : Answer(r, reply)
    PROVE  CategoryInv'
<1>1. RequestsFit /\ q = req[r] /\ Pending(r)
  BY DEF CategoryInv, ClaimsInv, SharingInv, Calls
<1>2. OnlyMoves(r) /\ (Over(req'[r]) \/ GoesOn(r, q.scope, q.found))
  BY <1>1, DoneStep, AnswerStep
<1>3. LooksOn(q, h, q.scope, q.found)
  BY Unchosen DEF LooksOn
<1>4. QED
  BY <1>2, <1>3, QuietCall

\* A call that puts something else in the draft.
LEMMA QuietRead ==
    ASSUME MaxInFlight = 1, CategoryInv, ClaimsInv', NEW r \in Requests, NEW q, NEW h,
           Calls(r, q, h), h.do \in {"readEditor", "readOwnership", "readClaims"},
           UNCHANGED wishTables, NEW f \in {"insider", "claims"}, NEW v,
           Remember(r, [Draft(q) EXCEPT ![f] = v])
    PROVE  CategoryInv'
<1>1. RequestsFit /\ q = req[r] /\ Pending(r)
  BY DEF CategoryInv, ClaimsInv, SharingInv, Calls
<1>2. /\ h.do \in WishCalls
      /\ h.do \notin Choosing \cup Cleaning \cup ChoosingReads
                     \cup {"disableWish", "readWish", "pickWish"}
  BY DEF WishCalls, Choosing, Cleaning, ChoosingReads
<1>3. PICK x : x = [Draft(q) EXCEPT ![f] = v]
  OBVIOUS
<1>4. OnlyMoves(r) /\ (Over(req'[r]) \/ GoesOn(r, q.scope, x))
  BY <1>1, <1>3, RememberStep
<1>5. x.row = Draft(q).row /\ x.choice = Draft(q).choice
  BY <1>2, <1>3, Knows, DraftKeeps
<1>6. LooksOn(q, h, q.scope, x)
  BY <1>2, <1>5, Unchosen DEF LooksOn
<1>7. QED
  BY <1>2, <1>4, <1>6, QuietCall

\* A call that reads the wish.
LEMMA QuietRow ==
    ASSUME MaxInFlight = 1, CategoryInv, ClaimsInv', NEW r \in Requests, NEW q, NEW h,
           Calls(r, q, h), h.do \in {"readWish", "pickWish"}, UNCHANGED wishTables, NEW w,
           req' = [req EXCEPT ![r] = Advance([req[r] EXCEPT
                      !.scope = w, !.found = [Draft(q) EXCEPT !["row"] = wish[w]]])]
    PROVE  CategoryInv'
<1>1. RequestsFit /\ q = req[r] /\ Pending(r)
  BY DEF CategoryInv, ClaimsInv, SharingInv, Calls
<1>2. /\ h.do \in WishCalls
      /\ h.do \notin Choosing \cup Cleaning \cup ChoosingReads \cup {"disableWish"}
  BY DEF WishCalls, Choosing, Cleaning, ChoosingReads
<1>3. PICK x : x = [Draft(q) EXCEPT !["row"] = wish[w]]
  OBVIOUS
<1>4. OnlyMoves(r) /\ (Over(req'[r]) \/ GoesOn(r, w, x))
  BY <1>1, <1>3, AdvanceStep
<1>5. x.row = wish[w] /\ x.choice = Draft(q).choice
  BY <1>2, <1>3, Knows, DraftKeeps
<1>6. LooksOn(q, h, w, x)
  BY <1>2, <1>5, Unchosen DEF LooksOn
<1>7. QED
  BY <1>2, <1>4, <1>6, QuietCall

\* All of them.
LEMMA QuietCallsKeepCategories ==
    ASSUME MaxInFlight = 1, CategoryInv, ClaimsInv', NEW r \in Requests,
           \/ WishCheck(r) \/ GetWishByWishID(r) \/ ReadEditor(r)
           \/ ClaimsStep(r)
    PROVE  CategoryInv'
<1>1. RequestsFit
  BY DEF CategoryInv, ClaimsInv, SharingInv
<1>2. CASE WishCheck(r)
  <2>1. PICK q, h : Calls(r, q, h) /\ q = req[r] /\ h = Head(q.todo)
    BY <1>2 DEF WishCheck, Guarded, Calls
  <2>2. /\ h.do \in WishChecks /\ UNCHANGED wishTables
        /\ Done(r) \/ Answer(r, "refused")
    BY <1>1, <1>2, <2>1 DEF WishCheck, Guarded, Done, Answer, RequestsFit
  <2>3. /\ h.do \in WishCalls
        /\ h.do \notin Choosing \cup Cleaning \cup ChoosingReads
                       \cup {"disableWish", "readWish", "pickWish"}
    BY <2>2 DEF WishChecks, WishCalls, Choosing, Cleaning, ChoosingReads
  <2>4. QED
    BY <2>1, <2>2, <2>3, QuietDone DEF Replies
<1>3. CASE GetWishByWishID(r)
  <2>1. PICK q, h : Calls(r, q, h) /\ q = req[r] /\ h = Head(q.todo)
    BY <1>3 DEF GetWishByWishID, At, Calls
  <2>2. h.do = "readWish" /\ UNCHANGED wishTables
    BY <1>3, <2>1 DEF GetWishByWishID, At
  <2>3. CASE Answer(r, "refused")
    <3>1. OnlyMoves(r) /\ Over(req'[r])
      BY <1>1, <2>3, AnswerStep DEF Replies
    <3>2. /\ h.do \in WishCalls
          /\ h.do \notin Choosing \cup Cleaning \cup ChoosingReads \cup {"disableWish"}
      BY <2>2 DEF WishCalls, Choosing, Cleaning, ChoosingReads
    <3>3. QED
      BY <2>1, <2>2, <3>1, <3>2, QuietCall
  <2>4. CASE Remember(r, [Draft(q) EXCEPT !["row"] = wish[q.scope]])
    <3>1. PICK x : x = [Draft(q) EXCEPT !["row"] = wish[q.scope]]
      OBVIOUS
    <3>2. [q EXCEPT !.found = x] = [q EXCEPT !.scope = q.scope, !.found = x]
      BY <1>1, <2>1 DEF RequestsFit, IsRequest, RequestFields
    <3>3. req' = [req EXCEPT ![r] = Advance([req[r] EXCEPT !.scope = q.scope, !.found = x])]
      BY <2>1, <2>4, <3>1, <3>2 DEF Remember
    <3>4. QED
      BY <2>1, <2>2, <3>1, <3>3, QuietRow
  <2>5. QED
    BY <1>3, <2>1, <2>3, <2>4 DEF GetWishByWishID, RememberIn
<1>4. CASE ReadEditor(r) \/ ReadOwnership(r)
  <2>1. PICK q, h : Calls(r, q, h) /\ q = req[r] /\ h = Head(q.todo)
    BY <1>4 DEF ReadEditor, ReadOwnership, At, Calls
  <2>2. h.do \in {"readEditor", "readOwnership"} /\ UNCHANGED wishTables
    BY <1>4, <2>1 DEF ReadEditor, ReadOwnership, At
  <2>3. PICK v : Remember(r, [Draft(q) EXCEPT !["insider"] = v])
    BY <1>4, <2>1 DEF ReadEditor, ReadOwnership, RememberIn
  <2>4. QED
    BY <2>1, <2>2, <2>3, QuietRead
<1>5. CASE ClaimCheck(r) \/ CreateWishClaimInDB(r) \/ DeleteWishClaimByUserAndWish(r) \/ WishShown(r)
  <2>1. PICK q, h : Calls(r, q, h) /\ q = req[r] /\ h = Head(q.todo)
    BY <1>5 DEF ClaimCheck, Guarded, CreateWishClaimInDB, DeleteWishClaimByUserAndWish,
                WishShown, At, Calls
  <2>2. /\ h.do \in ClaimChecks \cup {"createClaim", "dropClaim", "showWish"}
        /\ UNCHANGED wishTables
    BY <1>5, <2>1 DEF ClaimCheck, Guarded, CreateWishClaimInDB, DeleteWishClaimByUserAndWish,
                      WishShown, At
  <2>3. Done(r) \/ \E reply \in Replies : Answer(r, reply)
    BY <1>1, <1>5, <2>1 DEF ClaimCheck, Guarded, CreateWishClaimInDB,
       DeleteWishClaimByUserAndWish, WishShown, Done, Answer, RequestsFit, Replies
  <2>4. /\ h.do \in WishCalls
        /\ h.do \notin Choosing \cup Cleaning \cup ChoosingReads
                       \cup {"disableWish", "readWish", "pickWish"}
    BY <2>2 DEF ClaimChecks, WishCalls, Choosing, Cleaning, ChoosingReads
  <2>5. QED
    BY <2>1, <2>2, <2>3, <2>4, QuietDone
<1>6. CASE PickWish(r)
  <2>1. PICK q, h : Calls(r, q, h) /\ q = req[r] /\ h = Head(q.todo)
    BY <1>6 DEF PickWish, At, Calls
  <2>2. h.do = "pickWish" /\ UNCHANGED wishTables
    BY <1>6, <2>1 DEF PickWish, At
  <2>3. CASE Answer(r, "ok")
    <3>1. OnlyMoves(r) /\ Over(req'[r])
      BY <1>1, <2>3, AnswerStep DEF Replies
    <3>2. /\ h.do \in WishCalls
          /\ h.do \notin Choosing \cup Cleaning \cup ChoosingReads \cup {"disableWish"}
      BY <2>2 DEF WishCalls, Choosing, Cleaning, ChoosingReads
    <3>3. QED
      BY <2>1, <2>2, <3>1, <3>2, QuietCall
  <2>4. ASSUME NEW w \in Wishes,
               req' = [req EXCEPT ![r] = Advance([req[r] EXCEPT
                            !.scope = w, !.found = [Draft(q) EXCEPT !["row"] = wish[w]]])]
        PROVE  CategoryInv'
    BY <2>1, <2>2, <2>4, QuietRow
  <2>5. QED
    BY <1>1, <1>6, <2>1, <2>3, <2>4 DEF PickWish, RequestsFit
<1>7. CASE GetWishClaimFromWish(r)
  <2>1. PICK q, h : Calls(r, q, h) /\ q = req[r] /\ h = Head(q.todo)
    BY <1>7 DEF GetWishClaimFromWish, At, Calls
  <2>2. h.do = "readClaims" /\ UNCHANGED wishTables
    BY <1>7, <2>1 DEF GetWishClaimFromWish, At
  <2>3. CASE Done(r)
    <3>1. /\ h.do \in WishCalls
          /\ h.do \notin Choosing \cup Cleaning \cup ChoosingReads
                         \cup {"disableWish", "readWish", "pickWish"}
      BY <2>2 DEF WishCalls, Choosing, Cleaning, ChoosingReads
    <3>2. QED
      BY <2>1, <2>2, <2>3, <3>1, QuietDone
  <2>4. ASSUME NEW v, Remember(r, [Draft(q) EXCEPT !["claims"] = v]) PROVE CategoryInv'
    BY <2>1, <2>2, <2>4, QuietRead
  <2>5. QED
    BY <1>7, <2>1, <2>3, <2>4 DEF GetWishClaimFromWish, RememberIn
<1>8. QED
  BY <1>2, <1>3, <1>4, <1>5, <1>6, <1>7 DEF ClaimsStep

-----------------------------------------------------------------------------
(* The calls that choose a category.                                        *)

\* A category was looked for: one that may be used was found, or there is none of
\* the name.
LEMMA ChoiceKeepsCategories ==
    ASSUME MaxInFlight = 1, CategoryInv, ClaimsInv', NEW r \in Requests,
           GetWishCategoryByID(r) \/ GetWishCategoryByNameInWishlist(r)
    PROVE  CategoryInv'
<1>1. PICK q, h : Calls(r, q, h) /\ q = req[r] /\ h = Head(q.todo)
  BY DEF GetWishCategoryByID, GetWishCategoryByNameInWishlist, At, Calls
<1>2. /\ h.do \in ChoosingReads /\ UNCHANGED wishTables
      /\ h.do \in WishCalls /\ h.do \in DraftCalls /\ h.do \notin Choosing \cup Cleaning
  BY <1>1 DEF GetWishCategoryByID, GetWishCategoryByNameInWishlist, At, ChoosingReads,
              WishCalls, DraftCalls, Choosing, Cleaning
<1>3. /\ RequestsFit /\ Pending(r) /\ q.op \notin SharingOps /\ WishCallFits(q, h)
      /\ q.found \in Drafts /\ Draft(q) = q.found
  BY <1>1, <1>2, Knows, HasDraft DEF CategoryInv, ClaimsInv, SharingInv
<1>4. q.found.choice = None /\ (NeedsWish(q.op, h) => q.found.row = wish[q.scope])
  BY <1>1, <1>2, <1>3, Unchosen
<1>5. PICK l : l = q.found.row.list
  OBVIOUS
<1>6. \/ Answer(r, "refused")
      \/ h.do = "findCategory" /\ Done(r)
         /\ \A c \in Categories : Selectable(c, l) => category[c].name # h.arg
      \/ \E c \in Categories : /\ Selectable(c, l)
                               /\ Remember(r, [Draft(q) EXCEPT !["choice"] = c])
  <2>1. CASE GetWishCategoryByID(r)
    <3>1. h.do = "selectCategory" /\ Arg(r) = h.arg
      BY <1>1, <2>1 DEF GetWishCategoryByID, At, Arg
    <3>2. Arg(r) \in Categories
      BY <1>3, <3>1 DEF WishCallFits
    <3>3. QED
      BY <1>1, <1>5, <2>1, <3>2 DEF GetWishCategoryByID, RememberIn
  <2>2. CASE GetWishCategoryByNameInWishlist(r)
    <3>1. h.do = "findCategory" /\ Arg(r) = h.arg
      BY <1>1, <2>2 DEF GetWishCategoryByNameInWishlist, At, Arg
    <3>2. PICK rows : rows = {c \in Categories : /\ category[c].enabled
                                                 /\ category[c].list = l
                                                 /\ category[c].name = h.arg}
      OBVIOUS
    <3>3. IF rows = {} THEN Done(r)
          ELSE \E c \in rows : Remember(r, [Draft(q) EXCEPT !["choice"] = c])
      BY <1>1, <1>5, <2>2, <3>1, <3>2 DEF GetWishCategoryByNameInWishlist, RememberIn
    <3>4. CASE rows = {}
      BY <3>1, <3>2, <3>3, <3>4 DEF Selectable
    <3>5. CASE rows # {}
      BY <3>2, <3>3, <3>5 DEF Selectable
    <3>6. QED
      BY <3>4, <3>5
  <2>3. QED
    BY <2>1, <2>2
<1>7. PICK p : p = req'[r]
  OBVIOUS
<1>8. PICK d : d = Head(p.todo)
  OBVIOUS
<1>9. ASSUME NEW x, GoesOn(r, q.scope, x), x.row = q.found.row,
             \/ x.choice \in Categories /\ Selectable(x.choice, l)
             \/ /\ h.do = "findCategory" /\ x.choice = None
                /\ \A c \in Categories : Selectable(c, l) => category[c].name # h.arg
      PROVE  CategoryHead(p, d)'
  <2>1. /\ p.op = q.op /\ p.scope = q.scope /\ p.found = x
        /\ WishFollows(q.op, h, d) /\ WishCallFits(p, d)
    BY <1>1, <1>2, <1>7, <1>8, <1>9, FollowingCall DEF CategoryInv
  <2>2. d.do \in Choosing /\ d.do \notin Cleaning
    BY <1>2, <2>1 DEF ChoosingReads, WishFollows, Choosing, Cleaning
  <2>3. NeedsWish(p.op, d) => x.row = wish'[q.scope]
    <3>1. NeedsWish(p.op, d) => NeedsWish(q.op, h)
      BY <1>2, <2>1 DEF NeedsWish, WishFollows, ChoosingReads
    <3>2. QED
      BY <1>2, <1>4, <1>9, <3>1 DEF wishTables
  <2>4. \A c : Selectable(c, l)' <=> Selectable(c, l)
    BY <1>2 DEF Selectable, wishTables
  <2>5. x.choice # None => Selectable(x.choice, l)'
    BY <1>9, <2>4
  <2>6. ASSUME d.do = "createCategory", x.choice = None, NEW c \in Categories,
               Selectable(c, l)'
        PROVE  category'[c].name # d.arg
    <3>1. h.do = "findCategory" /\ d.arg = h.arg
      BY <2>1, <2>6 DEF WishFollows
    <3>2. Selectable(c, l) /\ category' = category
      BY <1>2, <2>4, <2>6 DEF wishTables
    <3>3. QED
      BY <1>9, <2>6, <3>1, <3>2, WishesAssumption
  <2>7. QED
    BY <1>5, <1>9, <2>1, <2>2, <2>3, <2>5, <2>6 DEF CategoryHead, Choosing, Cleaning
<1>10. ASSUME NEW x, OnlyMoves(r), Over(req'[r]) \/ GoesOn(r, q.scope, x),
              x.row = q.found.row,
              \/ x.choice \in Categories /\ Selectable(x.choice, l)
              \/ /\ h.do = "findCategory" /\ x.choice = None
                 /\ \A c \in Categories : Selectable(c, l) => category[c].name # h.arg
       PROVE  CategoryInv'
  <2>1. \A c \in Categories : ~Owes(req[r], c)
    BY <1>1, <1>2 DEF Owes
  <2>2. p.reply = "pending" => CategoryHead(p, d)'
    BY <1>7, <1>9, <1>10, FinishedFields DEF Over, Replies
  <2>3. QED
    BY <1>2, <1>3, <1>7, <1>8, <1>10, <2>1, <2>2, QuietStep
<1>11. CASE Answer(r, "refused")
  <2>1. OnlyMoves(r) /\ Over(req'[r])
    BY <1>3, <1>11, AnswerStep DEF Replies
  <2>2. \A c \in Categories : ~Owes(req[r], c)
    BY <1>1, <1>2 DEF Owes
  <2>3. p.reply # "pending"
    BY <1>7, <2>1, FinishedFields DEF Over, Replies
  <2>4. QED
    BY <1>2, <1>3, <1>7, <2>1, <2>2, <2>3, QuietStep
<1>12. CASE /\ h.do = "findCategory" /\ Done(r)
            /\ \A c \in Categories : Selectable(c, l) => category[c].name # h.arg
  <2>1. OnlyMoves(r) /\ (Over(req'[r]) \/ GoesOn(r, q.scope, q.found))
    BY <1>1, <1>3, <1>12, DoneStep
  <2>2. QED
    BY <1>4, <1>10, <1>12, <2>1
<1>13. ASSUME NEW c \in Categories, Selectable(c, l),
              Remember(r, [Draft(q) EXCEPT !["choice"] = c])
       PROVE  CategoryInv'
  <2>1. PICK x : x = [Draft(q) EXCEPT !["choice"] = c]
    OBVIOUS
  <2>2. OnlyMoves(r) /\ (Over(req'[r]) \/ GoesOn(r, q.scope, x))
    BY <1>1, <1>3, <1>13, <2>1, RememberStep
  <2>3. x.row = q.found.row /\ x.choice = c
    BY <1>3, <2>1, DraftKeeps
  <2>4. QED
    BY <1>10, <1>13, <2>2, <2>3
<1>14. QED
  BY <1>6, <1>11, <1>12, <1>13

-----------------------------------------------------------------------------
(* The writes.                                                              *)

\* What r knows before a call that writes wishes or categories.
LEMMA KnowsTheDraft ==
    ASSUME CategoryInv, NEW r \in Requests, NEW q, NEW h, Calls(r, q, h),
           h.do \in Choosing \cup Cleaning \cup {"disableWish"}
    PROVE  /\ q = req[r] /\ Pending(r) /\ h = Head(q.todo) /\ h.do \in WishCalls
           /\ q.op \notin SharingOps /\ CategoryHead(q, h) /\ RequestsFit
           /\ q.found \in Drafts /\ Draft(q) = q.found
           /\ q.found.choice \in Categories \cup {None}
           /\ q.found.row.category \in Categories \cup {None}
           /\ q.found.row.enabled = TRUE
<1>1. h.do \in WishCalls /\ h.do \in DraftCalls
  BY DEF Choosing, Cleaning, WishCalls, DraftCalls
<1>2. q.found \in Drafts /\ Draft(q) = q.found
  BY <1>1, HasDraft DEF CategoryInv
<1>3. QED
  BY <1>1, <1>2, Knows, DraftRow DEF CategoryInv, ClaimsInv, SharingInv

\* CreateWishCategoryInDB: the new category is the only one of its name, and q owes it
\* the wish.
LEMMA CreationKeepsCategories ==
    ASSUME MaxInFlight = 1, CategoryInv, ClaimsInv', NEW r \in Requests,
           CreateWishCategoryInDB(r)
    PROVE  CategoryInv'
<1>1. PICK q, h : Calls(r, q, h) /\ q = req[r] /\ h = Head(q.todo)
  BY DEF CreateWishCategoryInDB, At, Calls
<1>2. /\ h.do = "createCategory" /\ UNCHANGED wish
      /\ h.do \in Choosing /\ h.do \in Midway /\ h.do \in WishCalls /\ h.do \notin Cleaning
  BY <1>1 DEF CreateWishCategoryInDB, At, Choosing, Midway, WishCalls, Cleaning
<1>3. /\ Pending(r) /\ q.op \notin SharingOps /\ CategoryHead(q, h) /\ RequestsFit
      /\ q.found \in Drafts /\ Draft(q) = q.found
      /\ q.found.choice \in Categories \cup {None}
  BY <1>1, <1>2, KnowsTheDraft
<1>4. PICK l : l = q.found.row.list
  OBVIOUS
<1>5. PICK p : p = req'[r]
  OBVIOUS
<1>6. PICK d : d = Head(p.todo)
  OBVIOUS
<1>7. /\ NeedsWish(q.op, h) => q.found.row = wish[q.scope]
      /\ q.found.choice # None => Selectable(q.found.choice, l)
      /\ q.found.choice = None =>
           \A c \in Categories : Selectable(c, l) => category[c].name # h.arg
  BY <1>2, <1>3, <1>4 DEF CategoryHead
<1>8. ASSUME NEW x, GoesOn(r, q.scope, x), x.row = q.found.row,
             x.choice \in Categories, Selectable(x.choice, l)'
      PROVE  /\ CategoryHead(p, d)' /\ p.reply = "pending"
             /\ Owes(p, x.choice) /\ Owes(p, x.choice)'
  <2>1. /\ p.op = q.op /\ p.scope = q.scope /\ p.found = x /\ p.reply = "pending"
        /\ WishFollows(q.op, h, d)
    BY <1>1, <1>2, <1>5, <1>6, <1>8, FollowingCall DEF CategoryInv
  <2>2. d.do \in {"createWish", "saveWish"} /\ d.do \in Choosing /\ d.do \notin Cleaning
    BY <1>2, <2>1 DEF WishFollows, Choosing, Cleaning
  <2>3. NeedsWish(p.op, d) => x.row = wish'[q.scope]
    <3>1. NeedsWish(p.op, d) => NeedsWish(q.op, h)
      BY <1>2, <2>1 DEF NeedsWish, WishFollows
    <3>2. QED
      BY <1>2, <1>7, <1>8, <3>1
  <2>4. CategoryHead(p, d)'
    BY <1>4, <1>8, <2>1, <2>2, <2>3 DEF CategoryHead
  <2>5. QED
    BY <1>3, <1>6, <2>1, <2>2, <2>4 DEF Owes
<1>9. CASE ~NeedsCategory(q)
  <2>1. q.found.choice \in Categories /\ q.found.choice # None
    BY <1>3, <1>9 DEF NeedsCategory
  <2>2. Done(r) /\ UNCHANGED category
    BY <1>1, <1>9 DEF CreateWishCategoryInDB
  <2>3. OnlyMoves(r) /\ GoesOn(r, q.scope, q.found)
    BY <1>1, <1>2, <2>2, MidwayGoesOn DEF CategoryInv
  <2>4. Selectable(q.found.choice, l)'
    BY <1>7, <2>1, <2>2 DEF Selectable
  <2>5. /\ CategoryHead(p, d)' /\ p.reply = "pending"
        /\ Owes(p, q.found.choice)'
    BY <1>8, <2>1, <2>3, <2>4
  <2>6. NoDanglingCategory' /\ OneCategoryPerName'
    BY <1>2, <2>2 DEF CategoryInv, NoDanglingCategory, OneCategoryPerName
  <2>7. ASSUME \A t \in Requests : req'[t].reply # "error", NEW c \in Categories,
               category'[c].enabled
        PROVE  InUse(c)' \/ Owes(p, c)'
    <3>1. InUse(c) \/ Owes(q, c)
      BY <1>1, <1>3, <2>2, <2>3, <2>7, OnlyItsOwn
    <3>2. Owes(q, c) => c = q.found.choice
      BY <1>1, <1>2 DEF Owes
    <3>3. InUse(c) => InUse(c)'
      BY <1>2 DEF InUse
    <3>4. QED
      BY <2>5, <3>1, <3>2, <3>3
  <2>8. QED
    BY <1>3, <1>5, <1>6, <2>3, <2>5, <2>6, <2>7, CategoryKept
<1>10. CASE NeedsCategory(q)
  <2>1. q.found.choice = None
    BY <1>10 DEF NeedsCategory
  <2>2. PICK row : row = [list |-> l, name |-> h.arg, enabled |-> TRUE]
    OBVIOUS
  <2>3. PICK k \in Categories :
            /\ category[k] = NoCategory /\ category' = [category EXCEPT ![k] = row]
            /\ Remember(r, [Draft(q) EXCEPT !["choice"] = k])
    BY <1>1, <1>4, <1>10, <2>2 DEF CreateWishCategoryInDB, RememberIn, Arg
  <2>4. PICK x : x = [Draft(q) EXCEPT !["choice"] = k]
    OBVIOUS
  <2>5. x.row = q.found.row /\ x.choice = k
    BY <1>3, <2>4, DraftKeeps
  <2>6. OnlyMoves(r) /\ GoesOn(r, q.scope, x)
    BY <1>1, <1>2, <2>3, <2>4, MidwayGoesOn DEF CategoryInv
  <2>7. category'[k] = row /\ \A c \in Categories \ {k} : category'[c] = category[c]
    BY <2>3 DEF CategoryInv, ClaimsInv, WishesTypeOK
  <2>8. Selectable(k, l)' /\ ~category[k].enabled
    BY <2>2, <2>3, <2>7 DEF Selectable, NoCategory
  <2>9. /\ CategoryHead(p, d)' /\ p.reply = "pending"
        /\ Owes(p, k)'
    BY <1>8, <2>5, <2>6, <2>8
  <2>10. NoDanglingCategory'
    <3>1. ASSUME NEW w \in Wishes, wish'[w].enabled, wish'[w].category # None
          PROVE  /\ category'[wish'[w].category].enabled
                 /\ category'[wish'[w].category].list = wish'[w].list
      <4>1. PICK c : c = wish[w].category
        OBVIOUS
      <4>2. c \in Categories
        BY <1>2, <3>1, <4>1 DEF CategoryInv, ClaimsInv, WishesTypeOK, WishRow, NoWish
      <4>3. category[c].enabled /\ category[c].list = wish[w].list
        BY <1>2, <3>1, <4>1 DEF CategoryInv, NoDanglingCategory
      <4>4. c # k
        BY <2>8, <4>3
      <4>5. QED
        BY <1>2, <2>7, <4>1, <4>2, <4>3, <4>4
    <3>2. QED
      BY <3>1 DEF NoDanglingCategory
  <2>11. OneCategoryPerName'
    <3>1. ASSUME NEW c \in Categories \ {k} PROVE category[c] # row
      <4>1. ASSUME category[c] = row PROVE FALSE
        <5>1. Selectable(c, l) /\ category[c].name = h.arg
          BY <2>2, <4>1 DEF Selectable
        <5>2. QED
          BY <1>7, <2>1, <5>1
      <4>2. QED
        BY <4>1
    <3>2. QED
      BY <2>7, <3>1 DEF CategoryInv, OneCategoryPerName
  <2>12. ASSUME \A t \in Requests : req'[t].reply # "error", NEW c \in Categories,
                category'[c].enabled
         PROVE  InUse(c)' \/ Owes(p, c)'
    <3>1. CASE c = k
      BY <2>9, <3>1
    <3>2. CASE c # k
      <4>1. InUse(c) \/ Owes(q, c)
        BY <1>1, <1>3, <2>6, <2>7, <2>12, <3>2, OnlyItsOwn
      <4>2. ~Owes(q, c)
        BY <1>1, <1>2, <2>1, WishesAssumption DEF Owes
      <4>3. QED
        BY <1>2, <4>1, <4>2 DEF InUse
    <3>3. QED
      BY <3>1, <3>2
  <2>13. QED
    BY <1>3, <1>5, <1>6, <2>6, <2>9, <2>10, <2>11, <2>12, CategoryKept
<1>11. QED
  BY <1>9, <1>10

\* A write of one wish, which is on show with the category chosen for it, or not on show.
LEMMA PutKeepsOrder ==
    ASSUME CategoryInv, NEW w \in Wishes, NEW row \in WishRow, wish' = [wish EXCEPT ![w] = row],
           UNCHANGED category,
           row.enabled /\ row.category # None => Selectable(row.category, row.list)
    PROVE  /\ NoDanglingCategory' /\ OneCategoryPerName'
           /\ wish'[w] = row /\ \A v \in Wishes \ {w} : wish'[v] = wish[v]
<1>1. wish'[w] = row /\ \A v \in Wishes \ {w} : wish'[v] = wish[v]
  BY DEF CategoryInv, ClaimsInv, WishesTypeOK
<1>2. NoDanglingCategory'
  BY <1>1 DEF CategoryInv, NoDanglingCategory, Selectable
<1>3. OneCategoryPerName'
  BY DEF CategoryInv, OneCategoryPerName
<1>4. QED
  BY <1>1, <1>2, <1>3

\* CreateWishInDB: the category gets its wish, and the request is over.
LEMMA NewWishKeepsCategories ==
    ASSUME MaxInFlight = 1, CategoryInv, ClaimsInv', NEW r \in Requests, CreateWishInDB(r)
    PROVE  CategoryInv'
<1>1. PICK q, h : Calls(r, q, h) /\ q = req[r] /\ h = Head(q.todo)
  BY DEF CreateWishInDB, At, Calls
<1>2. /\ h.do = "createWish" /\ UNCHANGED category /\ Done(r)
      /\ h.do \in Choosing /\ h.do \notin Cleaning
  BY <1>1 DEF CreateWishInDB, At, Choosing, Cleaning
<1>3. /\ Pending(r) /\ q.op \notin SharingOps /\ CategoryHead(q, h) /\ RequestsFit
      /\ q.found \in Drafts /\ h.do \in WishCalls
      /\ q.found.choice \in Categories \cup {None}
  BY <1>1, <1>2, KnowsTheDraft
<1>4. PICK row : row = [q.found.row EXCEPT !.category = q.found.choice]
  OBVIOUS
<1>5. /\ row \in WishRow /\ row.enabled = TRUE /\ row.list = q.found.row.list
      /\ row.category = q.found.choice
  BY <1>3, <1>4, DraftRow DEF Drafts
<1>6. PICK w \in Wishes : wish[w] = NoWish /\ wish' = [wish EXCEPT ![w] = row]
  BY <1>1, <1>4 DEF CreateWishInDB
<1>7. q.found.choice # None => Selectable(q.found.choice, q.found.row.list)
  BY <1>2, <1>3 DEF CategoryHead
<1>8. /\ NoDanglingCategory' /\ OneCategoryPerName'
      /\ wish'[w] = row /\ \A v \in Wishes \ {w} : wish'[v] = wish[v]
  BY <1>2, <1>5, <1>6, <1>7, PutKeepsOrder
<1>9. PICK p : p = req'[r]
  OBVIOUS
<1>10. OnlyMoves(r) /\ (Over(p) \/ GoesOn(r, q.scope, q.found))
  BY <1>1, <1>2, <1>3, <1>9, DoneStep
<1>11. ~GoesOn(r, q.scope, q.found)
  BY <1>1, <1>2, <1>3, FollowingCall DEF WishFollows, CategoryInv
<1>12. p.reply # "pending"
  BY <1>10, <1>11, FinishedFields DEF Over, Replies
<1>13. ASSUME \A t \in Requests : req'[t].reply # "error", NEW c \in Categories,
              category'[c].enabled
       PROVE  InUse(c)'
  <2>1. InUse(c) \/ Owes(q, c)
    BY <1>1, <1>2, <1>3, <1>10, <1>13, OnlyItsOwn
  <2>2. CASE Owes(q, c)
    <3>1. c = row.category
      BY <1>1, <1>2, <1>5, <2>2 DEF Owes
    <3>2. QED
      BY <1>5, <1>8, <3>1 DEF InUse
  <2>3. CASE InUse(c)
    <3>1. PICK v \in Wishes : wish[v].enabled /\ wish[v].category = c
      BY <2>3 DEF InUse
    <3>2. v # w
      BY <1>6, <3>1 DEF NoWish
    <3>3. QED
      BY <1>8, <3>1, <3>2 DEF InUse
  <2>4. QED
    BY <2>1, <2>2, <2>3
<1>14. QED
  BY <1>3, <1>8, <1>9, <1>10, <1>12, <1>13, CategoryKept

\* UpdateWishInDB: the category the wish was taken out of is owed its cleaning.
LEMMA SavingKeepsCategories ==
    ASSUME MaxInFlight = 1, CategoryInv, ClaimsInv', NEW r \in Requests, UpdateWishInDB(r)
    PROVE  CategoryInv'
<1>1. PICK q, h : Calls(r, q, h) /\ q = req[r] /\ h = Head(q.todo)
  BY DEF UpdateWishInDB, At, Calls
<1>2. /\ h.do \in {"saveWish", "disableWish"} /\ UNCHANGED category
      /\ h.do \notin Cleaning /\ h.do \in RowCalls /\ h.do \in Midway
      /\ h.do \in Choosing \cup {"disableWish"} /\ (h.do \in Choosing <=> h.do = "saveWish")
  BY <1>1 DEF UpdateWishInDB, At, Choosing, Cleaning, RowCalls, Midway
<1>3. /\ Pending(r) /\ q.op \notin SharingOps /\ CategoryHead(q, h) /\ RequestsFit
      /\ q.found \in Drafts /\ h.do \in WishCalls
      /\ q.found.choice \in Categories \cup {None}
      /\ q.found.row.category \in Categories \cup {None}
      /\ q.found.row.enabled = TRUE
  BY <1>1, <1>2, KnowsTheDraft
<1>4. q.scope \in Wishes /\ WishCallFits(q, h) /\ NeedsWish(q.op, h)
  <2>1. q.scope \in Wishes /\ WishCallFits(q, h)
    BY <1>1, <1>2, <1>3, HasDraft, Knows DEF CategoryInv
  <2>2. QED
    BY <1>2, <2>1 DEF WishCallFits, NeedsWish, OnList
<1>5. q.found.row = wish[q.scope]
  BY <1>2, <1>3, <1>4 DEF CategoryHead
<1>6. PICK k : k = q.found.row.category
  OBVIOUS
<1>7. PICK row :
        /\ wish' = [wish EXCEPT ![q.scope] = row]
        /\ \/ h.do = "saveWish" /\ row = [q.found.row EXCEPT !.category = q.found.choice]
           \/ h.do = "disableWish" /\ row = [q.found.row EXCEPT !.enabled = FALSE]
        /\ \/ Done(r) /\ k # None
           \/ Answer(r, "ok") /\ (k = None \/ (h.do = "saveWish" /\ k = q.found.choice))
  <2>1. CASE h.do = "saveWish"
    <3>1. PICK row : row = [q.found.row EXCEPT !.category = q.found.choice]
      OBVIOUS
    <3>2. wish' = [wish EXCEPT ![q.scope] = row]
      BY <1>1, <2>1, <3>1 DEF UpdateWishInDB, At
    <3>3. IF k \notin {None, q.found.choice} THEN Done(r) ELSE Answer(r, "ok")
      BY <1>1, <1>6, <2>1 DEF UpdateWishInDB, At, Done, Answer
    <3>4. QED
      BY <2>1, <3>1, <3>2, <3>3
  <2>2. CASE h.do = "disableWish"
    <3>1. PICK row : row = [q.found.row EXCEPT !.enabled = FALSE]
      OBVIOUS
    <3>2. wish' = [wish EXCEPT ![q.scope] = row]
      BY <1>1, <2>2, <3>1 DEF UpdateWishInDB, At
    <3>3. IF k # None THEN Done(r) ELSE Answer(r, "ok")
      BY <1>1, <1>6, <2>2 DEF UpdateWishInDB, At, Done, Answer
    <3>4. QED
      BY <2>2, <3>1, <3>2, <3>3
  <2>3. QED
    BY <1>2, <2>1, <2>2
<1>8. /\ row \in WishRow /\ row.list = q.found.row.list
      /\ h.do = "saveWish" => row.enabled = TRUE /\ row.category = q.found.choice
      /\ h.do = "disableWish" => row.enabled = FALSE
  <2>2. CASE h.do = "saveWish"
    <3>1. row = [q.found.row EXCEPT !.category = q.found.choice]
      BY <1>7, <2>2
    <3>2. QED
      BY <1>3, <2>2, <3>1, DraftRow DEF Drafts
  <2>3. CASE h.do = "disableWish"
    <3>1. row = [q.found.row EXCEPT !.enabled = FALSE]
      BY <1>7, <2>3
    <3>2. row \in WishRow
      BY <1>3, <3>1, DraftRow
    <3>3. row.list = q.found.row.list /\ row.enabled = FALSE
      BY <1>3, <3>1 DEF Drafts
    <3>4. QED
      BY <2>3, <3>2, <3>3
  <2>4. QED
    BY <1>2, <2>2, <2>3
<1>9. h.do = "saveWish" /\ q.found.choice # None =>
         Selectable(q.found.choice, q.found.row.list)
  BY <1>2, <1>3 DEF CategoryHead
<1>10. /\ NoDanglingCategory' /\ OneCategoryPerName'
       /\ wish'[q.scope] = row /\ \A v \in Wishes \ {q.scope} : wish'[v] = wish[v]
  BY <1>2, <1>4, <1>7, <1>8, <1>9, PutKeepsOrder
<1>11. PICK p : p = req'[r]
  OBVIOUS
<1>12. PICK d : d = Head(p.todo)
  OBVIOUS
<1>13. ASSUME Done(r), k # None
       PROVE  OnlyMoves(r) /\ p.reply = "pending" /\ CategoryHead(p, d)' /\ Owes(p, k)'
  <2>1. Done(r)
    BY <1>13
  <2>2. OnlyMoves(r) /\ GoesOn(r, q.scope, q.found)
    BY <1>1, <1>2, <2>1, MidwayGoesOn DEF CategoryInv
  <2>3. /\ p.op = q.op /\ p.scope = q.scope /\ p.found = q.found /\ p.reply = "pending"
        /\ WishFollows(q.op, h, d)
    BY <1>1, <1>3, <1>11, <1>12, <2>2, FollowingCall DEF CategoryInv
  <2>4. d.do = "countWishes" /\ d.do \in Cleaning /\ d.do \notin Choosing
    BY <1>2, <2>3 DEF WishFollows, Cleaning, Choosing
  <2>5. k # None
    BY <1>13
  <2>6. CategoryHead(p, d)'
    BY <1>6, <2>3, <2>4, <2>5 DEF CategoryHead
  <2>7. Owes(p, k)'
    BY <1>3, <1>6, <1>12, <2>3, <2>4 DEF Owes
  <2>8. QED
    BY <2>2, <2>3, <2>6, <2>7
<1>14. ASSUME Answer(r, "ok") PROVE OnlyMoves(r) /\ p.reply # "pending"
  <2>1. Answer(r, "ok")
    BY <1>14
  <2>2. OnlyMoves(r) /\ Over(p)
    BY <1>3, <1>11, <2>1, AnswerStep DEF Replies
  <2>3. p.reply # "pending"
    BY <2>2, FinishedFields DEF Over, Replies
  <2>4. QED
    BY <2>2, <2>3
<1>15. /\ OnlyMoves(r)
       /\ p.reply = "pending" => CategoryHead(p, d)'
       /\ \/ p.reply = "pending" /\ Owes(p, k)'
          \/ k = None \/ (h.do = "saveWish" /\ k = q.found.choice)
  BY <1>7, <1>13, <1>14
<1>16. ASSUME \A t \in Requests : req'[t].reply # "error", NEW c \in Categories,
              category'[c].enabled
       PROVE  InUse(c)' \/ (p.reply = "pending" /\ Owes(p, c)')
  <2>1. InUse(c) \/ Owes(q, c)
    BY <1>1, <1>2, <1>3, <1>15, <1>16, OnlyItsOwn
  <2>2. CASE Owes(q, c)
    <3>1. h.do = "saveWish" /\ c = row.category
      BY <1>1, <1>2, <1>8, <2>2 DEF Owes
    <3>2. QED
      BY <1>4, <1>8, <1>10, <3>1 DEF InUse
  <2>3. CASE InUse(c)
    <3>1. PICK v \in Wishes : wish[v].enabled /\ wish[v].category = c
      BY <2>3 DEF InUse
    <3>2. CASE v # q.scope
      BY <1>10, <3>1, <3>2 DEF InUse
    <3>3. CASE v = q.scope
      <4>1. c = k /\ c # None
        BY <1>5, <1>6, <3>1, <3>3, WishesAssumption
      <4>2. CASE p.reply = "pending" /\ Owes(p, k)'
        BY <4>1, <4>2
      <4>3. CASE h.do = "saveWish" /\ k = q.found.choice
        <5>1. h.do = "saveWish" /\ c = row.category
          BY <1>8, <4>1, <4>3
        <5>2. QED
          BY <1>4, <1>8, <1>10, <5>1 DEF InUse
      <4>4. QED
        BY <1>15, <4>1, <4>2, <4>3
    <3>4. QED
      BY <3>2, <3>3
  <2>4. QED
    BY <2>1, <2>2, <2>3
<1>17. QED
  BY <1>3, <1>10, <1>11, <1>12, <1>15, <1>16, CategoryKept

\* CountWishes: where there is a wish left, nothing is owed.
LEMMA CountKeepsCategories ==
    ASSUME MaxInFlight = 1, CategoryInv, ClaimsInv', NEW r \in Requests, CountWishes(r)
    PROVE  CategoryInv'
<1>1. PICK q, h : Calls(r, q, h) /\ q = req[r] /\ h = Head(q.todo)
  BY DEF CountWishes, At, Calls
<1>2. /\ h.do = "countWishes" /\ UNCHANGED <<wish, category>>
      /\ h.do \in Cleaning /\ h.do \in Midway /\ h.do \notin Choosing
  BY <1>1 DEF CountWishes, At, wishTables, Cleaning, Midway, Choosing
<1>3. /\ Pending(r) /\ q.op \notin SharingOps /\ CategoryHead(q, h) /\ RequestsFit
      /\ h.do \in WishCalls
  BY <1>1, <1>2, KnowsTheDraft
<1>4. PICK k : k = q.found.row.category
  OBVIOUS
<1>5. PICK S : S = {w \in Wishes : wish[w].enabled /\ wish[w].category = k}
  OBVIOUS
<1>6. IF Cardinality(S) = 0 THEN Done(r) ELSE Answer(r, "ok")
  BY <1>1, <1>4, <1>5 DEF CountWishes, CountEnabledWishesInCategory
<1>7. NoDanglingCategory' /\ OneCategoryPerName'
  BY <1>2 DEF CategoryInv, NoDanglingCategory, OneCategoryPerName
<1>8. PICK p : p = req'[r]
  OBVIOUS
<1>9. PICK d : d = Head(p.todo)
  OBVIOUS
<1>10. k # None
  BY <1>2, <1>3, <1>4 DEF CategoryHead
<1>11. ASSUME OnlyMoves(r), \A t \in Requests : req'[t].reply # "error",
              NEW c \in Categories, category'[c].enabled
       PROVE  InUse(c)' \/ c = k
  <2>1. InUse(c) \/ Owes(q, c)
    BY <1>1, <1>2, <1>3, <1>11, OnlyItsOwn
  <2>2. Owes(q, c) => c = k
    BY <1>1, <1>2, <1>4 DEF Owes
  <2>3. QED
    BY <1>2, <2>1, <2>2 DEF InUse
<1>12. CASE Cardinality(S) = 0
  <2>1. OnlyMoves(r) /\ GoesOn(r, q.scope, q.found)
    BY <1>1, <1>2, <1>6, <1>12, MidwayGoesOn DEF CategoryInv
  <2>2. /\ p.op = q.op /\ p.scope = q.scope /\ p.found = q.found /\ p.reply = "pending"
        /\ WishFollows(q.op, h, d)
    BY <1>1, <1>3, <1>8, <1>9, <2>1, FollowingCall DEF CategoryInv
  <2>3. d.do = "clearCategory" /\ d.do \in Cleaning /\ d.do \notin Choosing
    BY <1>2, <2>2 DEF WishFollows, Cleaning, Choosing
  <2>4. S = {}
    BY <1>5, <1>12, WishesAssumption, FS_Subset, FS_EmptySet
  <2>5. CategoryHead(p, d)'
    BY <1>2, <1>4, <1>5, <1>10, <2>2, <2>3, <2>4 DEF CategoryHead
  <2>6. Owes(p, k)'
    BY <1>3, <1>4, <1>9, <2>2, <2>3 DEF Owes
  <2>7. QED
    BY <1>3, <1>7, <1>8, <1>9, <1>11, <2>1, <2>2, <2>5, <2>6, CategoryKept
<1>13. CASE Cardinality(S) # 0
  <2>1. OnlyMoves(r) /\ Over(p)
    BY <1>3, <1>6, <1>8, <1>13, AnswerStep DEF Replies
  <2>2. p.reply # "pending"
    BY <2>1, FinishedFields DEF Over, Replies
  <2>3. S # {}
    BY <1>13, FS_EmptySet
  <2>4. InUse(k)'
    BY <1>2, <1>5, <2>3 DEF InUse
  <2>5. QED
    BY <1>3, <1>7, <1>8, <1>11, <2>1, <2>2, <2>4, CategoryKept
<1>14. QED
  BY <1>12, <1>13

\* ClearWishCategoryFromWishes: nobody has the category afterwards.
LEMMA ClearingKeepsCategories ==
    ASSUME MaxInFlight = 1, CategoryInv, ClaimsInv', NEW r \in Requests,
           ClearWishCategoryFromWishes(r)
    PROVE  CategoryInv'
<1>1. PICK q, h : Calls(r, q, h) /\ q = req[r] /\ h = Head(q.todo)
  BY DEF ClearWishCategoryFromWishes, At, Calls
<1>2. /\ h.do = "clearCategory" /\ UNCHANGED category /\ Done(r)
      /\ h.do \in Cleaning /\ h.do \in Midway /\ h.do \notin Choosing
  BY <1>1 DEF ClearWishCategoryFromWishes, At, Cleaning, Midway, Choosing
<1>3. /\ Pending(r) /\ q.op \notin SharingOps /\ CategoryHead(q, h) /\ RequestsFit
      /\ h.do \in WishCalls
  BY <1>1, <1>2, KnowsTheDraft
<1>4. PICK k : k = q.found.row.category
  OBVIOUS
<1>5. k # None
  BY <1>2, <1>3, <1>4 DEF CategoryHead
<1>6. wish' = [w \in Wishes |-> IF wish[w].category = k
                                THEN [wish[w] EXCEPT !.category = None] ELSE wish[w]]
  BY <1>1, <1>4 DEF ClearWishCategoryFromWishes
<1>7. ASSUME NEW w \in Wishes
      PROVE  IF wish[w].category = k THEN wish'[w].category = None ELSE wish'[w] = wish[w]
  <2>1. PICK x \in WishRow \cup {NoWish} : x = wish[w]
    BY DEF CategoryInv, ClaimsInv, WishesTypeOK
  <2>2. [x EXCEPT !.category = None].category = None
    <3>1. CASE x \in WishRow
      BY <3>1 DEF WishRow
    <3>2. CASE x = NoWish
      <4>1. x \in [list: {None}, owner: {None}, enabled: {FALSE}, category: {None}]
        BY <3>2 DEF NoWish
      <4>2. QED
        BY <4>1
    <3>3. QED
      BY <3>1, <3>2
  <2>3. QED
    BY <1>6, <2>1, <2>2
<1>8. NoDanglingCategory' /\ OneCategoryPerName'
  BY <1>2, <1>7 DEF CategoryInv, NoDanglingCategory, OneCategoryPerName
<1>9. PICK p : p = req'[r]
  OBVIOUS
<1>10. PICK d : d = Head(p.todo)
  OBVIOUS
<1>11. OnlyMoves(r) /\ GoesOn(r, q.scope, q.found)
  BY <1>1, <1>2, MidwayGoesOn DEF CategoryInv
<1>12. /\ p.op = q.op /\ p.scope = q.scope /\ p.found = q.found /\ p.reply = "pending"
       /\ WishFollows(q.op, h, d)
  BY <1>1, <1>3, <1>9, <1>10, <1>11, FollowingCall DEF CategoryInv
<1>13. d.do = "disableCategory" /\ d.do \in Cleaning /\ d.do \notin Choosing
  BY <1>2, <1>12 DEF WishFollows, Cleaning, Choosing
<1>14. \A w \in Wishes : wish'[w].category # k
  BY <1>5, <1>7
<1>15. CategoryHead(p, d)'
  BY <1>4, <1>5, <1>12, <1>13, <1>14 DEF CategoryHead
<1>16. Owes(p, k)'
  BY <1>3, <1>4, <1>10, <1>12, <1>13 DEF Owes
<1>17. ASSUME \A t \in Requests : req'[t].reply # "error", NEW c \in Categories,
              category'[c].enabled
       PROVE  InUse(c)' \/ c = k
  <2>1. InUse(c) \/ Owes(q, c)
    BY <1>1, <1>2, <1>3, <1>11, <1>17, OnlyItsOwn
  <2>2. Owes(q, c) => c = k
    BY <1>1, <1>2, <1>4 DEF Owes
  <2>3. QED
    BY <1>7, <2>1, <2>2 DEF InUse
<1>18. QED
  BY <1>3, <1>8, <1>9, <1>10, <1>11, <1>12, <1>15, <1>16, <1>17, CategoryKept

\* DeleteWishCategory: what was owed is done, and the request is over.
LEMMA DisablingKeepsCategories ==
    ASSUME MaxInFlight = 1, CategoryInv, ClaimsInv', NEW r \in Requests, DeleteWishCategory(r)
    PROVE  CategoryInv'
<1>1. PICK q, h : Calls(r, q, h) /\ q = req[r] /\ h = Head(q.todo)
  BY DEF DeleteWishCategory, At, Calls
<1>2. /\ h.do = "disableCategory" /\ UNCHANGED wish /\ Done(r)
      /\ h.do \in Cleaning /\ h.do \notin Choosing
  BY <1>1 DEF DeleteWishCategory, At, Cleaning, Choosing
<1>3. /\ Pending(r) /\ q.op \notin SharingOps /\ CategoryHead(q, h) /\ RequestsFit
      /\ h.do \in WishCalls /\ q.found.row.category \in Categories \cup {None}
  BY <1>1, <1>2, KnowsTheDraft
<1>4. PICK k : k = q.found.row.category
  OBVIOUS
<1>5. k \in Categories /\ \A w \in Wishes : wish[w].enabled => wish[w].category # k
  BY <1>2, <1>3, <1>4 DEF CategoryHead
<1>6. category' = [category EXCEPT ![k].enabled = FALSE]
  BY <1>1, <1>4 DEF DeleteWishCategory
<1>7. ~category'[k].enabled /\ \A c \in Categories \ {k} : category'[c] = category[c]
  <2>1. PICK x \in CategoryRow \cup {NoCategory} : x = category[k]
    BY <1>5 DEF CategoryInv, ClaimsInv, WishesTypeOK
  <2>2. [x EXCEPT !.enabled = FALSE].enabled = FALSE
    <3>1. CASE x \in CategoryRow
      BY <3>1 DEF CategoryRow
    <3>2. CASE x = NoCategory
      <4>1. x \in [list: {None}, name: {None}, enabled: {FALSE}]
        BY <3>2 DEF NoCategory
      <4>2. QED
        BY <4>1
    <3>3. QED
      BY <3>1, <3>2
  <2>3. QED
    BY <1>5, <1>6, <2>1, <2>2 DEF CategoryInv, ClaimsInv, WishesTypeOK
<1>8. NoDanglingCategory'
  <2>1. ASSUME NEW w \in Wishes, wish'[w].enabled, wish'[w].category # None
        PROVE  /\ category'[wish'[w].category].enabled
               /\ category'[wish'[w].category].list = wish'[w].list
    <3>1. PICK c : c = wish[w].category
      OBVIOUS
    <3>2. c \in Categories \ {k}
      BY <1>2, <1>5, <2>1, <3>1 DEF CategoryInv, ClaimsInv, WishesTypeOK, WishRow, NoWish
    <3>3. QED
      BY <1>2, <1>7, <2>1, <3>1, <3>2 DEF CategoryInv, NoDanglingCategory
  <2>2. QED
    BY <2>1 DEF NoDanglingCategory
<1>9. OneCategoryPerName'
  BY <1>7 DEF CategoryInv, OneCategoryPerName
<1>10. PICK p : p = req'[r]
  OBVIOUS
<1>11. OnlyMoves(r) /\ (Over(p) \/ GoesOn(r, q.scope, q.found))
  BY <1>1, <1>2, <1>3, <1>10, DoneStep
<1>12. ~GoesOn(r, q.scope, q.found)
  BY <1>1, <1>2, <1>3, FollowingCall DEF WishFollows, CategoryInv
<1>13. p.reply # "pending"
  BY <1>11, <1>12, FinishedFields DEF Over, Replies
<1>14. ASSUME \A t \in Requests : req'[t].reply # "error", NEW c \in Categories,
              category'[c].enabled
       PROVE  InUse(c)'
  <2>1. c # k
    BY <1>7, <1>14
  <2>2. InUse(c) \/ Owes(q, c)
    BY <1>1, <1>3, <1>7, <1>11, <1>14, <2>1, OnlyItsOwn
  <2>3. ~Owes(q, c)
    BY <1>1, <1>2, <1>4, <2>1 DEF Owes
  <2>4. QED
    BY <1>2, <2>2, <2>3 DEF InUse
<1>15. QED
  BY <1>3, <1>8, <1>9, <1>10, <1>11, <1>13, <1>14, CategoryKept

-----------------------------------------------------------------------------
(* The theorems about categories.                                           *)

\* Every step keeps the order of the categories.
LEMMA StepsKeepCategories ==
    ASSUME MaxInFlight = 1, CategoryInv, ClaimsNext
    PROVE  CategoryInv'
<1>1. ClaimsInv'
  BY ClaimsStepsKeepInv DEF CategoryInv
<1>2. PICK r \in Requests :
          \/ (SharingRequest(r) \/ SharingStep(r)) /\ UNCHANGED wishTables
          \/ (WishesRequest(r) \/ ClaimsRequest(r)) /\ UNCHANGED wishTables
          \/ WishesStep(r) \/ ClaimsStep(r)
  BY DEF ClaimsNext, WishesNext
<1>3. CASE (SharingRequest(r) \/ SharingStep(r)) /\ UNCHANGED wishTables
  BY <1>1, <1>3, SharingKeepsCategories
<1>4. CASE (WishesRequest(r) \/ ClaimsRequest(r)) /\ UNCHANGED wishTables
  BY <1>1, <1>4, WishesArriveQuietly
<1>5. CASE WishesStep(r) \/ ClaimsStep(r)
  BY <1>1, <1>5, QuietCallsKeepCategories, ChoiceKeepsCategories, CreationKeepsCategories,
     NewWishKeepsCategories, SavingKeepsCategories, CountKeepsCategories,
     ClearingKeepsCategories, DisablingKeepsCategories DEF WishesStep
<1>6. QED
  BY <1>2, <1>3, <1>4, <1>5

\* At the start the categories are in order.
LEMMA CategoriesStart ==
    ASSUME ClaimsInit
    PROVE  CategoryInv
<1>1. ClaimsInv
  BY ClaimsStarts
<1>2. \A r \in Requests : ~Pending(r)
  BY InitialRequests DEF ClaimsInit, WishesInit, SharingInit
<1>3. NoDanglingCategory /\ OneCategoryPerName /\ NoneLeft
  BY CategoriesSeedInOrder
     DEF ClaimsInit, WishesInit, NoDanglingCategory, OneCategoryPerName, NoneLeft, InUse
<1>4. QED
  BY <1>1, <1>2, <1>3, AloneAtFirst DEF CategoryInv

\* The invariant speaks of the variables only.
LEMMA CategoriesStutter ==
    ASSUME CategoryInv, UNCHANGED claimVars
    PROVE  CategoryInv'
<1>1. ClaimsInv' /\ UNCHANGED <<req, wish, category>>
  BY ClaimsStutters DEF CategoryInv, claimVars, wishVars, wishTables, sharingVars
<1>2. Alone' /\ NoneLeft' /\ NoDanglingCategory' /\ OneCategoryPerName'
  BY <1>1 DEF CategoryInv, Alone, InFlight, Pending, NoneLeft, InUse, Owes,
              NoDanglingCategory, OneCategoryPerName
<1>3. ASSUME NEW r \in Requests, Pending(r)' PROVE CategoryHead(req[r], Head(req[r].todo))'
  <2>1. CategoryHead(req[r], Head(req[r].todo))
    BY <1>1, <1>3 DEF CategoryInv, Pending
  <2>2. QED
    BY <1>1, <2>1 DEF CategoryHead, Draft, Selectable
<1>4. QED
  BY <1>1, <1>2, <1>3 DEF CategoryInv

\* Where requests come one at a time the invariant holds in every reachable state: who
\* is at work on a wish has read the row that is there, has chosen a category that may
\* be used, and owes what it leaves empty.
THEOREM CategoriesInvariant ==
    ASSUME MaxInFlight = 1
    PROVE  ClaimsSpec => []CategoryInv
<1>1. ClaimsInit => CategoryInv
  BY CategoriesStart
<1>2. CategoryInv /\ [ClaimsNext]_claimVars => CategoryInv'
  BY StepsKeepCategories, CategoriesStutter
<1>3. QED
  BY <1>1, <1>2, PTL DEF ClaimsSpec

\* A wish on show is in no category that was disabled or is another wishlist's, also
\* where a request failed between two of its calls.
THEOREM WishesHaveTheirCategory ==
    ASSUME MaxInFlight = 1
    PROVE  ClaimsSpec => []NoDanglingCategory
<1>1. CategoryInv => NoDanglingCategory
  BY DEF CategoryInv
<1>2. QED
  BY <1>1, CategoriesInvariant, PTL

\* A wishlist has no two categories of a name: who names one gets the one there is, also
\* where a request that failed left it empty.
THEOREM CategoriesAreShared ==
    ASSUME MaxInFlight = 1
    PROVE  ClaimsSpec => []OneCategoryPerName
<1>1. CategoryInv => OneCategoryPerName
  BY DEF CategoryInv
<1>2. QED
  BY <1>1, CategoriesInvariant, PTL

\* A category that is empty when every request has been answered was left by a failure:
\* the request that takes the last wish out of it disables it.
THEOREM EmptyCategoriesGo ==
    ASSUME MaxInFlight = 1
    PROVE  ClaimsSpec => []NoEmptyCategory
<1>1. CategoryInv => NoEmptyCategory
  BY DEF CategoryInv, NoneLeft, NoEmptyCategory, InUse, Pending
<1>2. QED
  BY <1>1, CategoriesInvariant, PTL

-----------------------------------------------------------------------------
(* Claims and the public page, where requests come one at a time.           *)

OpenToAll(l) == list[l].enabled /\ list[l].public
OneLiveClaim == \A w \in Wishes : \A c, d \in LiveClaims(w) : c = d

\* What a request has read or checked is so when it makes its next call: the row of the
\* wishlist is the one it will save over, a wish about to be claimed is free, and what is
\* shown without an account is open to all.
Current(q, h) ==
    /\ NeedsRow(q.op, h) => q.found = list[q.scope]
    /\ h.do = "createClaim" => LiveClaims(q.scope) = {}
    /\ q.caller = None =>
          IF h.do = "publicList" THEN q.found = None
          ELSE OpenToAll(IF h.do = "pickWish" THEN q.scope ELSE wish[q.scope].list)

TurnInv ==
    /\ ClaimsInv /\ Alone /\ OneLiveClaim
    /\ \A r \in Requests : Pending(r) => Current(req[r], Head(req[r].todo))

\* The invariant after a step of r, which is the only request there is.
LEMMA TurnKept ==
    ASSUME MaxInFlight = 1, TurnInv, ClaimsInv', NEW r \in Requests, OnlyMoves(r),
           Pending(r) \/ MayBegin(r), OneLiveClaim', NEW p, p = req'[r],
           p.reply = "pending" => Current(p, Head(p.todo))'
    PROVE  TurnInv'
<1>1. Alone' /\ \A t \in Requests \ {r} : ~Pending(t)'
  BY AloneKept DEF TurnInv
<1>2. \A t \in Requests : Pending(t)' => Current(req[t], Head(req[t].todo))'
  BY <1>1 DEF Pending
<1>3. QED
  BY <1>1, <1>2 DEF TurnInv

\* Accounts are only disabled: where no claim is written, none is added.
LEMMA ClaimsUnwritten ==
    ASSUME OneLiveClaim, UNCHANGED claim, \A u \in Users : user'[u] => user[u], ClaimsFit
    PROVE  OneLiveClaim'
<1>1. \A w \in Wishes : LiveClaims(w)' \subseteq LiveClaims(w)
  BY DEF LiveClaims, ClaimsFit
<1>2. QED
  BY <1>1 DEF OneLiveClaim

-----------------------------------------------------------------------------
(* Requests about groups and wishlists.                                     *)

\* The calls that write wishlists.
LEMMA ListWriters ==
    ASSUME NEW r \in Requests, SharingStep(r), ~UNCHANGED list
    PROVE  CreateWishlistInDB(r) \/ DisableWishlist(r) \/ UpdateWishlistInDB(r)
<1>1. ~(\/ Check(r) \/ Fail(r)
        \/ CreateGroupWithMemberships(r) \/ CreateGroupMembershipInDB(r)
        \/ GetGroupMembershipByGroupIDAndMemberID(r) \/ DeleteGroupMembership(r)
        \/ DisableGroup(r))
  BY DEF Check, Fail, CreateGroupWithMemberships, CreateGroupMembershipInDB,
         GetGroupMembershipByGroupIDAndMemberID, DeleteGroupMembership, DisableGroup, tables
<1>2. ~(\/ ReadCollaborator(r) \/ ReadWishlist(r)
        \/ CreateWishlistMembershipInDB(r)
        \/ GetMembershipIDForGroupToWishlist(r) \/ DeleteWishlistMembership(r)
        \/ CreateWishlistCollaboratorInDB(r)
        \/ GetWishlistCollaboratorByUserIDAndWishlistID(r)
        \/ DeleteWishlistCollaboratorByWishlistCollaboratorID(r)
        \/ DisableUser(r))
  BY DEF ReadCollaborator, ReadWishlist, CreateWishlistMembershipInDB,
         GetMembershipIDForGroupToWishlist, DeleteWishlistMembership,
         CreateWishlistCollaboratorInDB, GetWishlistCollaboratorByUserIDAndWishlistID,
         DeleteWishlistCollaboratorByWishlistCollaboratorID, DisableUser, tables
<1>3. QED
  BY <1>1, <1>2 DEF SharingStep

\* The calls before one that needs the row of the wishlist: they leave it in memory.
LEMMA RowReaders ==
    ASSUME NEW r \in Requests, SharingStep(r),
           Head(req[r].todo).do \in {"readList", "settingsAllowed"}
    PROVE  \/ Fail(r)
           \/ Head(req[r].todo).do = "readList" /\ ReadWishlist(r)
           \/ Head(req[r].todo).do = "settingsAllowed" /\ Check(r)
<1>1. ~(\/ CreateGroupWithMemberships(r) \/ CreateGroupMembershipInDB(r)
        \/ GetGroupMembershipByGroupIDAndMemberID(r) \/ DeleteGroupMembership(r)
        \/ DisableGroup(r) \/ CreateWishlistInDB(r) \/ DisableWishlist(r)
        \/ ReadCollaborator(r) \/ UpdateWishlistInDB(r))
  BY DEF CreateGroupWithMemberships, CreateGroupMembershipInDB, At,
         GetGroupMembershipByGroupIDAndMemberID, DeleteGroupMembership, DisableGroup,
         CreateWishlistInDB, DisableWishlist, ReadCollaborator, UpdateWishlistInDB
<1>2. ~(\/ CreateWishlistMembershipInDB(r)
        \/ GetMembershipIDForGroupToWishlist(r) \/ DeleteWishlistMembership(r)
        \/ CreateWishlistCollaboratorInDB(r)
        \/ GetWishlistCollaboratorByUserIDAndWishlistID(r)
        \/ DeleteWishlistCollaboratorByWishlistCollaboratorID(r)
        \/ DisableUser(r))
  BY DEF CreateWishlistMembershipInDB, At,
         GetMembershipIDForGroupToWishlist, DeleteWishlistMembership,
         CreateWishlistCollaboratorInDB, GetWishlistCollaboratorByUserIDAndWishlistID,
         DeleteWishlistCollaboratorByWishlistCollaboratorID, DisableUser
<1>3. Check(r) => Head(req[r].todo).do \in Checks
  BY DEF Check, Guarded
<1>4. ReadWishlist(r) => Head(req[r].todo).do = "readList"
  BY DEF ReadWishlist, At
<1>5. Check(r) \/ Fail(r) \/ ReadWishlist(r)
  BY <1>1, <1>2 DEF SharingStep
<1>6. QED
  BY <1>3, <1>4, <1>5 DEF Checks

\* APIUpdateWishlist begins with another call.
LEMMA UpdatesReadFirst ==
    ASSUME RequestsFit, NEW r \in Requests, APIUpdateWishlist(r)
    PROVE  Head(req'[r].todo).do = "readCollaborator"
<1>1. PICK u \in Users, l \in Lists, s \in Settings :
          Accept(r, "APIUpdateWishlist", u, l,
              <<Call("readCollaborator", None), Call("mayEditList", None),
                Call("readList", None), Call("settingsAllowed", s),
                Call("saveList", s)>>)
  BY DEF APIUpdateWishlist
<1>2. req'[r].todo = <<Call("readCollaborator", None), Call("mayEditList", None),
                       Call("readList", None), Call("settingsAllowed", s),
                       Call("saveList", s)>>
  BY <1>1 DEF RequestsFit, Accept, Begin, NoRequest
<1>3. QED
  BY <1>2 DEF Call

\* One of their calls that is not the last leaves the calls after it.
LEMMA SharingGoesOn ==
    ASSUME SharingInv, NEW r \in Requests, SharingStep(r), req'[r].reply = "pending"
    PROVE  \E s, x : GoesOn(r, s, x)
<1>1. Pending(r) /\ SharingMoves(r) /\ RequestsFit
  BY SharingCallMoves DEF SharingInv
<1>2. ~Over(req'[r])
  BY FinishedFields DEF Over, Replies
<1>3. \A reply \in Replies : ~Answer(r, reply)
  BY <1>1, <1>2, AnswerStep
<1>4. QED
  BY <1>1, <1>2, <1>3, DoneStep, RememberStep, AdvanceStep DEF SharingMoves, Replies

\* The call after the first follows it.
LEMMA FollowsNext ==
    ASSUME NEW q, IsProgram(q.todo), q.todo # <<>>, ProgramFits(q, q.todo),
           NEW p, p.todo = Tail(q.todo), p.todo # <<>>
    PROVE  Follows(q.op, Head(q.todo), Head(p.todo))
<1> DEFINE s == q.todo
           t == p.todo
<1>1. /\ Len(s) \in Nat \ {0} /\ DOMAIN s = 1..Len(s) /\ Head(s) = s[1]
      /\ IsProgram(t) /\ Len(t) = Len(s) - 1
      /\ \A i \in 1..Len(s) - 1 : t[i] = s[i + 1]
  BY ProgramTail
<1>2. Head(t) = t[1] /\ Len(s) > 1 /\ t[1] = s[2]
  BY <1>1, ProgramTail
<1>3. Follows(q.op, s[1], s[2])
  BY <1>1, <1>2 DEF ProgramFits
<1>4. QED
  BY <1>1, <1>2, <1>3

\* They keep the invariant.
LEMMA SharingKeepsTurns ==
    ASSUME MaxInFlight = 1, TurnInv, ClaimsInv', NEW r \in Requests,
           SharingRequest(r) \/ SharingStep(r), UNCHANGED <<wishTables, claim>>
    PROVE  TurnInv'
<1>1. OnlyMoves(r) /\ SharingInv /\ SharingInv' /\ RequestsFit
  BY StepsKeepInv DEF TurnInv, ClaimsInv, KeepsInv, SharingInv
<1>2. SharingWrites
  BY <1>1, SharingRequestIsOne, SharingCallMoves DEF SharingWrites, tables
<1>3. OneLiveClaim'
  BY <1>2, ClaimsUnwritten DEF TurnInv, ClaimsInv, SharingWrites
<1>4. PICK p : p = req'[r]
  OBVIOUS
<1>5. PICK d : d = Head(p.todo)
  OBVIOUS
<1>6. p.reply # "pending" \/ p.op \in SharingOps
  <2>1. Over(p) \/ p.op \in SharingOps
    BY <1>1, <1>4, SharingRequestIsOne, SharingCallMoves, SharingStays
  <2>2. QED
    BY <2>1, FinishedFields DEF Over, Replies
<1>7. ASSUME p.reply = "pending"
      PROVE  CallFits(p, d) /\ p.caller # None /\ d.do # "createClaim"
  <2>1. p.todo # <<>> /\ IsProgram(p.todo) /\ ProgramFits(p, p.todo)
    BY <1>1, <1>4, <1>7 DEF SharingInv, RequestsFit, RequestsOK, Pending, Ready
  <2>2. CallFits(p, d)
    BY <1>5, <2>1, ProgramTail DEF ProgramFits
  <2>3. QED
    BY <1>6, <1>7, <2>2, SharingAssumption DEF CallFits, SharingCalls, Checks
<1>8. CASE SharingRequest(r)
  <2>1. MayBegin(r)
    BY <1>8 DEF SharingRequest
  <2>2. p.op = "APIUpdateWishlist" => d.do = "readCollaborator"
    BY <1>1, <1>4, <1>5, <1>8, SharingRequestIsOne, UpdatesReadFirst
  <2>3. p.reply = "pending" => ~NeedsRow(p.op, d)
    BY <1>7, <2>2 DEF NeedsRow, CallFits
  <2>4. p.reply = "pending" => Current(p, d)'
    BY <1>7, <2>3 DEF Current
  <2>5. QED
    BY <1>1, <1>3, <1>4, <1>5, <2>1, <2>4, TurnKept
<1>9. CASE SharingStep(r)
  <2>1. Pending(r)
    BY <1>1, <1>9, SharingCallMoves
  <2>2. PICK q, h : Calls(r, q, h)
    BY <2>1 DEF Calls
  <2>3. q = req[r] /\ h = Head(q.todo) /\ Current(q, h)
    BY <2>1, <2>2 DEF Calls, TurnInv
  <2>4. ASSUME p.reply = "pending", NeedsRow(p.op, d) PROVE p.found = list'[p.scope]
    <3>1. PICK s, x : GoesOn(r, s, x)
      BY <1>1, <1>4, <1>9, <2>4, SharingGoesOn
    <3>2. /\ p.op = q.op /\ p.caller = q.caller /\ p.scope = s /\ p.found = x
          /\ p.todo = Tail(q.todo) /\ p.todo # <<>> /\ IsProgram(q.todo) /\ q.todo # <<>>
      BY <1>1, <1>4, <2>2, <2>3, <3>1, NextCall DEF GoesOn, Holds
    <3>3. ProgramFits(q, q.todo)
      BY <1>1, <2>3 DEF SharingInv, Ready
    <3>4. Follows(q.op, h, d)
      BY <1>5, <2>3, <3>2, <3>3, FollowsNext
    <3>5. h.do \in {"readList", "settingsAllowed"} /\ (h.do = "readList" \/ NeedsRow(q.op, h))
      BY <2>4, <3>2, <3>4 DEF Follows, NeedsRow
    <3>6. ~Fail(r)
      <4>1. Answer(r, "error") => p.reply = "error"
        BY <1>1, <1>4, FinishedFields DEF Answer, RequestsFit
      <4>2. QED
        BY <2>4, <4>1 DEF Fail, Abandon
    <3>7. CASE h.do = "readList" /\ ReadWishlist(r)
      <4>1. UNCHANGED list /\ (Remember(r, list[q.scope]) \/ Answer(r, "refused"))
        BY <2>3, <3>7 DEF ReadWishlist, tables
      <4>2. ~Answer(r, "refused")
        <5>1. Answer(r, "refused") => p.reply = "refused"
          BY <1>1, <1>4, FinishedFields DEF Answer, RequestsFit
        <5>2. QED
          BY <2>4, <5>1
      <4>3. Over(p) \/ GoesOn(r, q.scope, list[q.scope])
        BY <1>1, <1>4, <2>1, <2>3, <4>1, <4>2, RememberStep
      <4>4. ~Over(p)
        BY <2>4, FinishedFields DEF Over, Replies
      <4>5. QED
        BY <1>4, <4>1, <4>3, <4>4 DEF GoesOn, Holds
    <3>8. CASE h.do = "settingsAllowed" /\ Check(r)
      <4>1. UNCHANGED list /\ (Done(r) \/ Answer(r, "refused"))
        BY <1>1, <3>8 DEF Check, Guarded, Done, Answer, RequestsFit, tables
      <4>2. ~Answer(r, "refused")
        <5>1. Answer(r, "refused") => p.reply = "refused"
          BY <1>1, <1>4, FinishedFields DEF Answer, RequestsFit
        <5>2. QED
          BY <2>4, <5>1
      <4>3. Over(p) \/ GoesOn(r, q.scope, q.found)
        BY <1>1, <1>4, <2>1, <2>3, <4>1, <4>2, DoneStep
      <4>4. ~Over(p)
        BY <2>4, FinishedFields DEF Over, Replies
      <4>5. p.scope = q.scope /\ p.found = q.found
        BY <1>4, <4>3, <4>4 DEF GoesOn, Holds
      <4>6. q.found = list[q.scope]
        BY <2>3, <3>5, <3>8 DEF Current
      <4>7. QED
        BY <4>1, <4>5, <4>6
    <3>9. QED
      BY <1>9, <2>3, <3>5, <3>6, <3>7, <3>8, RowReaders
  <2>5. p.reply = "pending" => Current(p, d)'
    BY <1>7, <2>4 DEF Current
  <2>6. QED
    BY <1>1, <1>3, <1>4, <1>5, <2>1, <2>5, TurnKept
<1>10. QED
  BY <1>8, <1>9

-----------------------------------------------------------------------------
(* Requests about wishes.                                                   *)

\* Whose they are: only the public page has no caller.
LEMMA WhoArrives ==
    ASSUME RequestsFit, NEW r \in Requests, WishesRequest(r) \/ ClaimsRequest(r)
    PROVE  /\ req'[r].op \notin SharingOps /\ UNCHANGED tables
           /\ req'[r].caller \in Users \/ GetPublicWishlist(r)
<1>1. \A op, u, scope, s :
          Accept(r, op, u, scope, s) =>
              req'[r].op = op /\ req'[r].caller = u /\ UNCHANGED tables
  BY DEF RequestsFit, Accept, Begin, NoRequest
<1>2. CASE WishesRequest(r)
  BY <1>1, <1>2 DEF WishesRequest, RegisterWish, APIUpdateWish, DeleteWish, SharingOps
<1>3. CASE RegisterWishClaim(r) \/ RemoveWishClaim(r)
  BY <1>1, <1>3 DEF RegisterWishClaim, RemoveWishClaim, SharingOps
<1>4. CASE APIGetWish(r) \/ GetWishesFromWishlist(r)
  BY <1>1, <1>4 DEF APIGetWish, GetWishesFromWishlist, SharingOps
<1>5. CASE GetPublicWishlist(r)
  <2>1. req'[r].op = "GetPublicWishlist" /\ UNCHANGED tables
    BY <1>1, <1>5 DEF GetPublicWishlist
  <2>2. QED
    BY <1>5, <2>1 DEF SharingOps
<1>6. QED
  BY <1>2, <1>3, <1>4, <1>5 DEF ClaimsRequest

\* The public page first looks for the link.
LEMMA PublicComesFirst ==
    ASSUME RequestsFit, NEW r \in Requests, GetPublicWishlist(r)
    PROVE  Head(req'[r].todo).do = "publicList"
<1>1. PICK l \in Lists, link \in 1..nextId :
          Accept(r, "GetPublicWishlist", None, l,
                 <<Call("publicList", link), Call("pickWish", None)>> \o ShowWish)
  BY DEF GetPublicWishlist
<1>2. PICK a : a = Call("publicList", link)
  OBVIOUS
<1>3. PICK t : t = <<a, Call("pickWish", None)>>
  OBVIOUS
<1>4. PICK s : s = t \o ShowWish
  OBVIOUS
<1>5. IsProgram(t) /\ IsProgram(ShowWish) /\ t # <<>> /\ t[1] = a
  BY <1>3, TuplesArePrograms DEF ShowWish
<1>6. IsProgram(s) /\ s # <<>> /\ s[1] = a
  BY <1>4, <1>5, ProgramConcat, ConcatHead
<1>7. Head(s) = a
  BY <1>6, ProgramTail
<1>8. req'[r].todo = s
  BY <1>1, <1>2, <1>3, <1>4 DEF RequestsFit, Accept, Begin, NoRequest
<1>9. QED
  BY <1>2, <1>7, <1>8 DEF Call

\* None of them claims a wish at once.
LEMMA WishesArriveInTurn ==
    ASSUME MaxInFlight = 1, TurnInv, ClaimsInv', NEW r \in Requests,
           WishesRequest(r) \/ ClaimsRequest(r), UNCHANGED <<wishTables, claim>>
    PROVE  TurnInv'
<1>1. PICK p : p = req'[r]
  OBVIOUS
<1>2. PICK d : d = Head(p.todo)
  OBVIOUS
<1>3. PICK b : b = before'[r]
  OBVIOUS
<1>4. RequestsFit /\ RequestsFit'
  BY DEF TurnInv, ClaimsInv, SharingInv
<1>5. /\ MayBegin(r) /\ p.found = None /\ OnlyMoves(r)
      /\ p.op \notin SharingOps /\ UNCHANGED tables
      /\ p.caller = None => d.do = "publicList"
  BY <1>1, <1>2, <1>4, ArrivesFresh, WhoArrives, PublicComesFirst, SharingAssumption
     DEF OnlyMoves
<1>6. OneLiveClaim'
  BY <1>5, ClaimsUnwritten DEF TurnInv, ClaimsInv, tables
<1>7. ASSUME p.reply = "pending" PROVE Current(p, d)'
  <2>1. p.todo # <<>> /\ IsProgram(p.todo)
    BY <1>1, <1>4, <1>7 DEF RequestsFit, RequestsOK, Pending
  <2>2. WishReady(p, b)'
    BY <1>1, <1>3 DEF ClaimsInv
  <2>3. WishHeadReady(p, b, d)' /\ WishCallFits(p, d)
    BY <1>2, <1>5, <2>1, <2>2, ProgramTail DEF WishReady, WishProgramFits
  <2>4. ~NeedsWish(p.op, d)
    BY <1>5, <2>3, WishesAssumption DEF WishHeadReady, RowIs
  <2>5. d.do # "createClaim"
    BY <2>3, <2>4 DEF NeedsWish, OnList, WishCallFits
  <2>6. ~NeedsRow(p.op, d)
    BY <1>5, <2>3 DEF NeedsRow, WishCallFits, WishCalls, WishChecks, ClaimChecks, SharingOps
  <2>7. QED
    BY <1>5, <2>5, <2>6 DEF Current
<1>8. QED
  BY <1>1, <1>2, <1>5, <1>6, <1>7, TurnKept

\* What a call h of q has to leave behind when q goes on about s, having found x.
LeavesTurn(q, h, s, x) ==
    /\ h.do = "notClaimed" => s = q.scope /\ LiveClaims(q.scope) = {}
    /\ h.do # "pickWish" => s = q.scope
    /\ q.caller = None /\ h.do = "publicList" => x = None /\ OpenToAll(q.scope)
    /\ h.do = "pickWish" => wish[s].list = q.scope

WishWrites == {"createWish", "saveWish", "disableWish", "clearCategory", "createClaim", "dropClaim"}

\* Then the invariant holds before the next call.
LEMMA TurnGoesOn ==
    ASSUME MaxInFlight = 1, TurnInv, ClaimsInv', OneLiveClaim', NEW r \in Requests,
           NEW q, NEW h, Calls(r, q, h), h.do \in WishCalls, UNCHANGED <<user, list>>,
           h.do \in WishWrites \/ UNCHANGED <<wish, claim>>, OnlyMoves(r),
           NEW s, NEW x, Over(req'[r]) \/ (GoesOn(r, s, x) /\ LeavesTurn(q, h, s, x))
    PROVE  TurnInv'
<1>1. /\ q = req[r] /\ Pending(r) /\ h = Head(q.todo) /\ Current(q, h)
  BY DEF Calls, TurnInv
<1>2. q.op \notin SharingOps /\ WishCallFits(q, h)
  BY NextWishCall DEF TurnInv
<1>3. PICK p : p = req'[r]
  OBVIOUS
<1>4. PICK d : d = Head(p.todo)
  OBVIOUS
<1>5. ASSUME p.reply = "pending" PROVE Current(p, d)'
  <2>1. GoesOn(r, s, x) /\ LeavesTurn(q, h, s, x)
    BY <1>3, <1>5, FinishedFields DEF Over, Replies
  <2>2. /\ p.op = q.op /\ p.caller = q.caller /\ p.scope = s /\ p.found = x
        /\ WishFollows(q.op, h, d) /\ WishCallFits(p, d)
    BY <1>3, <1>4, <2>1, FollowingCall DEF TurnInv
  <2>3. ~NeedsRow(p.op, d)
    BY <1>2, <2>2 DEF NeedsRow, WishCallFits, WishCalls, WishChecks, ClaimChecks, SharingOps
  <2>4. ASSUME d.do = "createClaim" PROVE LiveClaims(p.scope)' = {}
    <3>1. h.do = "notClaimed"
      BY <2>2, <2>4 DEF WishFollows
    <3>2. UNCHANGED <<wish, claim>>
      BY <3>1 DEF WishWrites
    <3>3. LiveClaims(s) = {}
      BY <2>1, <3>1 DEF LeavesTurn
    <3>4. QED
      BY <2>2, <3>2, <3>3 DEF LiveClaims
  <2>5. ASSUME p.caller = None
        PROVE  IF d.do = "publicList" THEN p.found = None
               ELSE OpenToAll(IF d.do = "pickWish" THEN p.scope ELSE wish[p.scope].list)'
    <3>1. /\ h.do \in {"publicList", "pickWish", "creatorExists", "readClaims", "listExists",
                       "listOwnerExists", "showWish"}
          /\ d.do \in {"publicList", "pickWish", "creatorExists", "readClaims", "listExists",
                       "listOwnerExists", "showWish"}
          /\ q.op # "RegisterWish"
      BY <1>2, <2>2, <2>5, SharingAssumption DEF WishCallFits
    <3>2. UNCHANGED <<wish, list>>
      BY <3>1 DEF WishWrites
    <3>3. d.do \in {"publicList", "pickWish"} <=> h.do = "publicList"
      BY <2>2, <3>1 DEF WishFollows, OnList
    <3>4. CASE h.do = "publicList"
      BY <2>1, <2>2, <2>5, <3>2, <3>3, <3>4 DEF LeavesTurn, OpenToAll
    <3>5. CASE h.do = "pickWish"
      BY <1>1, <2>1, <2>2, <2>5, <3>2, <3>3, <3>5 DEF LeavesTurn, OpenToAll, Current
    <3>6. CASE h.do \notin {"publicList", "pickWish"}
      BY <1>1, <2>1, <2>2, <2>5, <3>2, <3>3, <3>6 DEF LeavesTurn, OpenToAll, Current
    <3>7. QED
      BY <3>4, <3>5, <3>6
  <2>6. QED
    BY <2>3, <2>4, <2>5 DEF Current
<1>6. QED
  BY <1>1, <1>3, <1>4, <1>5, TurnKept

\* A call after which the request is over or goes on about what it was about.
LEMMA TurnMovesOn ==
    ASSUME MaxInFlight = 1, TurnInv, ClaimsInv', OneLiveClaim', NEW r \in Requests,
           NEW q, NEW h, Calls(r, q, h), UNCHANGED <<user, list>>,
           h.do \in WishCalls \ {"publicList", "pickWish", "notClaimed"},
           h.do \in WishWrites \/ UNCHANGED <<wish, claim>>,
           Done(r) \/ (\E reply \in Replies : Answer(r, reply)) \/ \E x : Remember(r, x)
    PROVE  TurnInv'
<1>1. RequestsFit /\ q = req[r] /\ Pending(r)
  BY DEF TurnInv, ClaimsInv, SharingInv, Calls
<1>2. \A x : LeavesTurn(q, h, q.scope, x)
  BY DEF LeavesTurn
<1>3. h.do \in WishCalls
  OBVIOUS
<1>4. PICK x : OnlyMoves(r) /\ (Over(req'[r]) \/ GoesOn(r, q.scope, x))
  BY <1>1, DoneStep, AnswerStep, RememberStep
<1>5. QED
  BY <1>2, <1>3, <1>4, TurnGoesOn

\* Those of WishesStep.
LEMMA WishesKeepTurns ==
    ASSUME MaxInFlight = 1, TurnInv, ClaimsInv', NEW r \in Requests, WishesStep(r),
           UNCHANGED claim
    PROVE  TurnInv'
<1>1. RequestsFit
  BY DEF TurnInv, ClaimsInv, SharingInv
<1>2. PICK q, h : q = req[r] /\ h = Head(q.todo)
  OBVIOUS
<1> DEFINE Moves == /\ Pending(r) /\ UNCHANGED tables
                    /\ h.do \in WishCalls \ {"publicList", "pickWish", "notClaimed"}
                    /\ h.do \in WishWrites \/ UNCHANGED wish
                    /\ \/ Done(r) \/ (\E reply \in Replies : Answer(r, reply))
                       \/ \E x : Remember(r, x)
<1>3. ASSUME WishCheck(r) PROVE Moves
  BY <1>1, <1>2, <1>3 DEF WishCheck, Guarded, Done, Answer, RequestsFit, Replies, wishTables,
                          WishChecks, WishCalls
<1>4. ASSUME GetWishByWishID(r) \/ ReadEditor(r) PROVE Moves
  BY <1>2, <1>4 DEF GetWishByWishID, ReadEditor, At, RememberIn, Replies, wishTables, WishCalls
<1>5. ASSUME GetWishCategoryByID(r) \/ GetWishCategoryByNameInWishlist(r) PROVE Moves
  BY <1>2, <1>5 DEF GetWishCategoryByID, GetWishCategoryByNameInWishlist, At, RememberIn,
                    Replies, wishTables, WishCalls
<1>6. ASSUME CreateWishCategoryInDB(r) \/ CreateWishInDB(r) PROVE Moves
  BY <1>2, <1>6 DEF CreateWishCategoryInDB, CreateWishInDB, At, RememberIn, WishCalls,
                    WishWrites
<1>7. ASSUME UpdateWishInDB(r) PROVE Moves
  BY <1>2, <1>7 DEF UpdateWishInDB, At, Done, Answer, Replies, WishCalls, WishWrites
<1>8. ASSUME CountWishes(r) \/ ClearWishCategoryFromWishes(r) \/ DeleteWishCategory(r) PROVE Moves
  BY <1>2, <1>8 DEF CountWishes, ClearWishCategoryFromWishes, DeleteWishCategory, At,
                    Replies, wishTables, WishCalls, WishWrites
<1>9. Moves
  BY <1>3, <1>4, <1>5, <1>6, <1>7, <1>8 DEF WishesStep
<1>10. OneLiveClaim' /\ UNCHANGED <<user, list>> /\ Calls(r, q, h)
  BY <1>2, <1>9, ClaimsUnwritten DEF TurnInv, ClaimsInv, tables, Calls
<1>11. QED
  BY <1>9, <1>10, TurnMovesOn

\* ClaimCheck, ReadOwnership, GetWishClaimFromWish and WishShown.
LEMMA ClaimReadsKeepTurns ==
    ASSUME MaxInFlight = 1, TurnInv, ClaimsInv', NEW r \in Requests,
           ClaimCheck(r) \/ ReadOwnership(r) \/ GetWishClaimFromWish(r) \/ WishShown(r)
    PROVE  TurnInv'
<1>1. RequestsFit
  BY DEF TurnInv, ClaimsInv, SharingInv
<1>2. PICK q, h : Calls(r, q, h) /\ q = req[r] /\ h = Head(q.todo)
  BY DEF ClaimCheck, Guarded, ReadOwnership, GetWishClaimFromWish, WishShown, At, Calls
<1>3. UNCHANGED <<user, list, wish, claim>>
  BY DEF ClaimCheck, ReadOwnership, GetWishClaimFromWish, WishShown, tables, wishTables
<1>4. OneLiveClaim'
  BY <1>3, ClaimsUnwritten DEF TurnInv, ClaimsInv
<1>5. CASE ReadOwnership(r) \/ GetWishClaimFromWish(r) \/ WishShown(r)
  <2>1. /\ h.do \in WishCalls \ {"publicList", "pickWish", "notClaimed"}
        /\ Done(r) \/ \E x : Remember(r, x)
    BY <1>2, <1>5 DEF ReadOwnership, GetWishClaimFromWish, WishShown, At, RememberIn, WishCalls
  <2>2. QED
    BY <1>2, <1>3, <1>4, <2>1, TurnMovesOn
<1>6. CASE ClaimCheck(r)
  <2>1. h.do \in ClaimChecks /\ h.do \in WishCalls
    BY <1>2, <1>6 DEF ClaimCheck, Guarded, WishCalls
  <2>2. req' = [req EXCEPT ![r] = IF ClaimPasses(q, h) THEN Advance(q) ELSE Finished("refused")]
    BY <1>1, <1>2, <1>6 DEF ClaimCheck, Guarded, RequestsFit
  <2>3. CASE ~ClaimPasses(q, h)
    <3>1. OnlyMoves(r) /\ Over(req'[r])
      BY <1>1, <2>2, <2>3, AnswerStep DEF Answer, Replies
    <3>2. QED
      BY <1>2, <1>3, <1>4, <2>1, <3>1, TurnGoesOn
  <2>4. CASE ClaimPasses(q, h)
    <3>1. OnlyMoves(r) /\ (Over(req'[r]) \/ GoesOn(r, q.scope, q.found))
      BY <1>1, <1>2, <2>2, <2>4, DoneStep DEF Done, Calls
    <3>2. h.do = "notClaimed" => LiveClaims(q.scope) = {}
      BY <2>4 DEF ClaimPasses, VerifyWishIsClaimed
    <3>3. ASSUME q.caller = None, h.do = "publicList"
          PROVE  q.found = None /\ OpenToAll(q.scope)
      <4>1. q.found = None
        BY <1>2, <3>3 DEF TurnInv, Current, Calls
      <4>2. Draft(q).row.list = q.scope
        BY <4>1 DEF Draft
      <4>3. QED
        BY <2>4, <3>3, <4>1, <4>2
           DEF ClaimPasses, GetPublicWishListByWishlistHash, OpenToAll
    <3>4. h.do # "pickWish"
      BY <2>1 DEF ClaimChecks
    <3>5. LeavesTurn(q, h, q.scope, q.found)
      BY <3>2, <3>3, <3>4 DEF LeavesTurn
    <3>6. QED
      BY <1>2, <1>3, <1>4, <2>1, <3>1, <3>5, TurnGoesOn
  <2>5. QED
    BY <2>3, <2>4
<1>7. QED
  BY <1>5, <1>6

\* PickWish: the wish it shows is on the list that is open to all.
LEMMA PickWishKeepsTurns ==
    ASSUME MaxInFlight = 1, TurnInv, ClaimsInv', NEW r \in Requests, PickWish(r)
    PROVE  TurnInv'
<1>1. PICK q, h : Calls(r, q, h) /\ q = req[r] /\ h = Head(q.todo)
  BY DEF PickWish, At, Calls
<1>2. /\ h.do = "pickWish" /\ h.do \in WishCalls /\ RequestsFit
      /\ UNCHANGED <<user, list, wish, claim>>
  BY <1>1 DEF PickWish, At, WishCalls, tables, wishTables, TurnInv, ClaimsInv, SharingInv
<1>3. OneLiveClaim'
  BY <1>2, ClaimsUnwritten DEF TurnInv, ClaimsInv
<1>4. \/ Answer(r, "ok")
      \/ \E w \in Wishes :
            /\ wish[w].list = q.scope
            /\ req' = [req EXCEPT ![r] = Advance([req[r] EXCEPT
                            !.scope = w, !.found = [Draft(q) EXCEPT !["row"] = wish[w]]])]
  BY <1>1, <1>2 DEF PickWish, RequestsFit
<1>5. CASE Answer(r, "ok")
  <2>1. OnlyMoves(r) /\ Over(req'[r])
    BY <1>2, <1>5, AnswerStep DEF Replies
  <2>2. QED
    BY <1>1, <1>2, <1>3, <2>1, TurnGoesOn
<1>6. ASSUME NEW w \in Wishes, wish[w].list = q.scope,
             req' = [req EXCEPT ![r] = Advance([req[r] EXCEPT
                            !.scope = w, !.found = [Draft(q) EXCEPT !["row"] = wish[w]]])]
      PROVE  TurnInv'
  <2>1. PICK x : x = [Draft(q) EXCEPT !["row"] = wish[w]]
    OBVIOUS
  <2>2. OnlyMoves(r) /\ (Over(req'[r]) \/ GoesOn(r, w, x))
    BY <1>1, <1>2, <1>6, <2>1, AdvanceStep DEF Calls
  <2>3. LeavesTurn(q, h, w, x)
    BY <1>2, <1>6 DEF LeavesTurn
  <2>4. QED
    BY <1>1, <1>2, <1>3, <2>2, <2>3, TurnGoesOn
<1>7. QED
  BY <1>4, <1>5, <1>6

\* CreateWishClaimInDB: there was no claim on the wish.
LEMMA CreateClaimKeepsTurns ==
    ASSUME MaxInFlight = 1, TurnInv, ClaimsInv', NEW r \in Requests, CreateWishClaimInDB(r)
    PROVE  TurnInv'
<1>1. PICK q, h : Calls(r, q, h) /\ q = req[r] /\ h = Head(q.todo)
  BY DEF CreateWishClaimInDB, At, Calls
<1>2. /\ h.do = "createClaim" /\ Done(r) /\ UNCHANGED <<user, list>>
      /\ claim' = claim \cup {[id |-> nextId + 1, wish |-> q.scope, user |-> q.caller]}
  BY <1>1 DEF CreateWishClaimInDB, At, NewClaim
<1>3. PICK k : k = [id |-> nextId + 1, wish |-> q.scope, user |-> q.caller]
  OBVIOUS
<1>4. claim' = claim \cup {k} /\ k.wish = q.scope
  BY <1>2, <1>3
<1>5. LiveClaims(q.scope) = {}
  BY <1>1, <1>2 DEF TurnInv, Current, Calls
<1>6. ASSUME NEW w \in Wishes, NEW c \in LiveClaims(w)', NEW d \in LiveClaims(w)' PROVE c = d
  <2>1. \A b \in LiveClaims(w)' : (b = k /\ w = q.scope) \/ b \in LiveClaims(w)
    BY <1>2, <1>4 DEF LiveClaims
  <2>2. QED
    BY <1>5, <2>1 DEF TurnInv, OneLiveClaim
<1>7. OneLiveClaim'
  BY <1>6 DEF OneLiveClaim
<1>8. h.do \in WishWrites /\ h.do \in WishCalls \ {"publicList", "pickWish", "notClaimed"}
  BY <1>2 DEF WishWrites, WishCalls
<1>9. QED
  BY <1>1, <1>2, <1>7, <1>8, TurnMovesOn

\* DeleteWishClaimByUserAndWish only takes claims away.
LEMMA DropClaimKeepsTurns ==
    ASSUME MaxInFlight = 1, TurnInv, ClaimsInv', NEW r \in Requests,
           DeleteWishClaimByUserAndWish(r)
    PROVE  TurnInv'
<1>1. PICK q, h : Calls(r, q, h) /\ q = req[r] /\ h = Head(q.todo)
  BY DEF DeleteWishClaimByUserAndWish, At, Calls
<1>2. /\ h.do = "dropClaim" /\ (Done(r) \/ Answer(r, "error"))
      /\ UNCHANGED <<user, list>> /\ claim' \subseteq claim
  BY <1>1 DEF DeleteWishClaimByUserAndWish, At, tables
<1>3. \A w \in Wishes : LiveClaims(w)' \subseteq LiveClaims(w)
  BY <1>2 DEF LiveClaims
<1>4. OneLiveClaim'
  BY <1>3 DEF OneLiveClaim, TurnInv
<1>5. /\ h.do \in WishWrites /\ h.do \in WishCalls \ {"publicList", "pickWish", "notClaimed"}
      /\ "error" \in Replies
  BY <1>2 DEF WishWrites, WishCalls, Replies
<1>6. QED
  BY <1>1, <1>2, <1>4, <1>5, TurnMovesOn

-----------------------------------------------------------------------------
(* The theorems about requests that come one at a time.                     *)

\* Every step keeps the invariant.
LEMMA StepsKeepTurns ==
    ASSUME MaxInFlight = 1, TurnInv, ClaimsNext
    PROVE  TurnInv'
<1>1. ClaimsInv'
  BY ClaimsStepsKeepInv DEF TurnInv
<1>2. PICK r \in Requests :
          \/ (SharingRequest(r) \/ SharingStep(r)) /\ UNCHANGED <<wishTables, claim>>
          \/ (WishesRequest(r) \/ ClaimsRequest(r)) /\ UNCHANGED <<wishTables, claim>>
          \/ (WishesStep(r) /\ UNCHANGED claim) \/ ClaimsStep(r)
  BY DEF ClaimsNext, WishesNext
<1>3. CASE (SharingRequest(r) \/ SharingStep(r)) /\ UNCHANGED <<wishTables, claim>>
  BY <1>1, <1>3, SharingKeepsTurns
<1>4. CASE (WishesRequest(r) \/ ClaimsRequest(r)) /\ UNCHANGED <<wishTables, claim>>
  BY <1>1, <1>4, WishesArriveInTurn
<1>5. CASE (WishesStep(r) /\ UNCHANGED claim) \/ ClaimsStep(r)
  BY <1>1, <1>5, WishesKeepTurns, ClaimReadsKeepTurns, PickWishKeepsTurns,
     CreateClaimKeepsTurns, DropClaimKeepsTurns DEF ClaimsStep
<1>6. QED
  BY <1>2, <1>3, <1>4, <1>5

\* At the start nobody is served, and nobody's claim is beside another's.
LEMMA TurnsStart ==
    ASSUME ClaimsInit
    PROVE  TurnInv
<1>1. ClaimsInv
  BY ClaimsStarts
<1>2. \A r \in Requests : ~Pending(r)
  BY InitialRequests DEF ClaimsInit, WishesInit, SharingInit
<1>3. OneLiveClaim
  BY ClaimsSeedInOrder DEF ClaimsInit, OneLiveClaim, LiveClaims
<1>4. QED
  BY <1>1, <1>2, <1>3, AloneAtFirst DEF TurnInv

\* The invariant speaks of the variables only.
LEMMA TurnsStutter ==
    ASSUME TurnInv, UNCHANGED claimVars
    PROVE  TurnInv'
<1>1. ClaimsInv' /\ UNCHANGED <<req, user, list, wish, claim>>
  BY ClaimsStutters DEF TurnInv, claimVars, wishVars, wishTables, sharingVars, tables
<1>2. Alone' /\ OneLiveClaim'
  BY <1>1 DEF TurnInv, Alone, InFlight, Pending, OneLiveClaim, LiveClaims
<1>3. ASSUME NEW r \in Requests, Pending(r)' PROVE Current(req[r], Head(req[r].todo))'
  <2>1. Current(req[r], Head(req[r].todo))
    BY <1>1, <1>3 DEF TurnInv, Pending
  <2>2. QED
    BY <1>1, <2>1 DEF Current, OpenToAll, LiveClaims
<1>4. QED
  BY <1>1, <1>2, <1>3 DEF TurnInv

\* Where requests come one at a time the invariant holds in every reachable state: what
\* a request has read or checked is still so when it makes the call that rests on it.
THEOREM TurnInvariant ==
    ASSUME MaxInFlight = 1
    PROVE  ClaimsSpec => []TurnInv
<1>1. ClaimsInit => TurnInv
  BY TurnsStart
<1>2. TurnInv /\ [ClaimsNext]_claimVars => TurnInv'
  BY StepsKeepTurns, TurnsStutter
<1>3. QED
  BY <1>1, <1>2, PTL DEF ClaimsSpec

\* No wish has the claims of two users whose accounts are enabled: the code promises it,
\* and it takes two requests in flight to break the promise.
THEOREM WishesAreClaimedOnce ==
    ASSUME MaxInFlight = 1
    PROVE  ClaimsSpec => []AtMostOneClaim
<1>1. ASSUME OneLiveClaim, NEW w \in Wishes PROVE Cardinality(LiveClaims(w)) <= 1
  <2>1. CASE LiveClaims(w) = {}
    BY <2>1, FS_EmptySet
  <2>2. CASE LiveClaims(w) # {}
    <3>1. PICK c : LiveClaims(w) = {c}
      BY <1>1, <2>2 DEF OneLiveClaim
    <3>2. QED
      BY <3>1, FS_Singleton
  <2>3. QED
    BY <2>1, <2>2
<1>2. TurnInv => AtMostOneClaim
  BY <1>1 DEF TurnInv, AtMostOneClaim
<1>3. QED
  BY <1>2, TurnInvariant, PTL

\* What is shown without an account is on a wishlist that is public then.
THEOREM PublicPagesAreCurrent ==
    ASSUME MaxInFlight = 1
    PROVE  ClaimsSpec => PublicViewIsCurrent
<1> DEFINE ShownIsCurrent == \A r \in Requests :
              At(r, "showWish") /\ req[r].caller = None /\ req'[r].reply = "ok" =>
                  LET l == wish[req[r].scope].list
                  IN list[l].enabled /\ list[l].public
<1>1. TurnInv => [ShownIsCurrent]_claimVars
  <2> SUFFICES ASSUME TurnInv, NEW r \in Requests, At(r, "showWish"), req[r].caller = None
               PROVE  OpenToAll(wish[req[r].scope].list)
    BY DEF OpenToAll
  <2>1. Current(req[r], Head(req[r].todo)) /\ Head(req[r].todo).do = "showWish"
    BY DEF TurnInv, At
  <2>2. QED
    BY <2>1 DEF Current
<1>2. QED
  BY <1>1, TurnInvariant, PTL DEF PublicViewIsCurrent

\* A wishlist that becomes public has a new link.
LEMMA LinksAreMinted ==
    ASSUME TurnInv, NEW r \in Requests, SharingStep(r), NEW l \in Lists,
           ~list[l].public, list'[l].public
    PROVE  list'[l].link > nextId
<1>1. /\ nextId \in Nat /\ list \in [Lists -> ListRow \cup {NoList}]
      /\ SharingInv /\ Pending(r)
  BY SharingCallMoves DEF TurnInv, ClaimsInv, SharingInv, TablesFit
<1>2. CASE CreateWishlistInDB(r)
  <2>1. PICK k \in Lists :
            list' = [list EXCEPT ![k] =
                [owner |-> req[r].caller, enabled |-> TRUE,
                 claimable |-> Arg(r).claimable, public |-> Arg(r).public,
                 link |-> nextId + 1]]
    BY <1>2 DEF CreateWishlistInDB
  <2>2. PICK row : row = [owner |-> req[r].caller, enabled |-> TRUE,
                          claimable |-> Arg(r).claimable, public |-> Arg(r).public,
                          link |-> nextId + 1]
    OBVIOUS
  <2>3. list' = [list EXCEPT ![k] = row] /\ row.link = nextId + 1
    BY <2>1, <2>2
  <2>4. l = k
    BY <1>1, <2>3
  <2>5. QED
    BY <1>1, <2>3, <2>4
<1>3. CASE DisableWishlist(r)
  <2>1. PICK x \in ListRow \cup {NoList} : x = list[l]
    BY <1>1
  <2>2. list'[l] = x \/ list'[l] = [x EXCEPT !.enabled = FALSE]
    BY <1>1, <1>3, <2>1 DEF DisableWishlist
  <2>3. [x EXCEPT !.enabled = FALSE].public = x.public
    BY <2>1 DEF ListRow, NoList
  <2>4. QED
    BY <2>1, <2>2, <2>3
<1>4. CASE UpdateWishlistInDB(r)
  <2>1. PICK q, h : Calls(r, q, h) /\ q = req[r] /\ h = Head(q.todo)
    BY <1>1 DEF Calls
  <2>2. h.do = "saveList" /\ h.arg = Arg(r)
    BY <1>4, <2>1 DEF UpdateWishlistInDB, At, Arg
  <2>3. q.found = list[q.scope] /\ q.found \in ListRow
    BY <1>1, <2>1, <2>2, NextCall DEF TurnInv, Current, NeedsRow, HeadReady
  <2>4. PICK y : y = Edited(q.found, h.arg, nextId + 1)
    OBVIOUS
  <2>5. list' = [list EXCEPT ![q.scope] = y]
    BY <1>4, <2>1, <2>2, <2>4 DEF UpdateWishlistInDB, SavedRow
  <2>6. l = q.scope /\ list'[l] = y
    BY <1>1, <2>5
  <2>7. PICK k : k = IF h.arg.public /\ ~q.found.public THEN nextId + 1 ELSE q.found.link
    OBVIOUS
  <2>8. y = [q.found EXCEPT !.claimable = h.arg.claimable, !.public = h.arg.public, !.link = k]
    BY <2>4, <2>7 DEF Edited
  <2>9. y.public = h.arg.public /\ y.link = k
    BY <2>3, <2>8 DEF ListRow
  <2>10. k = nextId + 1
    BY <2>3, <2>6, <2>7, <2>9
  <2>11. QED
    BY <1>1, <2>6, <2>9, <2>10
<1>5. QED
  BY <1>2, <1>3, <1>4, ListWriters

\* Who publishes a wishlist again publishes it under a link that nobody has seen: the
\* row that is saved is the one that is there, so that it is known to have been private.
THEOREM PublishingRevokesLinks ==
    ASSUME MaxInFlight = 1
    PROVE  ClaimsSpec => PublishingMintsALink
<1> DEFINE Mints == \A l \in Lists :
              ~list[l].public /\ list'[l].public => list'[l].link > nextId
<1>1. TurnInv /\ [ClaimsNext]_claimVars => [Mints]_sharingVars
  <2> SUFFICES ASSUME TurnInv, [ClaimsNext]_claimVars, ~UNCHANGED sharingVars PROVE Mints
    OBVIOUS
  <2>1. PICK r \in Requests :
            \/ SharingRequest(r) \/ SharingStep(r)
            \/ WishesRequest(r) \/ WishesStep(r) \/ ClaimsRequest(r) \/ ClaimsStep(r)
    BY DEF ClaimsNext, WishesNext, claimVars, wishVars
  <2>2. CASE SharingStep(r)
    BY <2>2, LinksAreMinted
  <2>3. CASE ~SharingStep(r)
    <3>1. UNCHANGED list
      BY <2>1, <2>3, SharingRequestIsOne, WishesGrantNothing
         DEF TurnInv, ClaimsInv, SharingInv, tables
    <3>2. QED
      BY <3>1
  <2>4. QED
    BY <2>2, <2>3
<1>2. QED
  BY <1>1, TurnInvariant, PTL DEF ClaimsSpec, PublishingMintsALink

\* Only DeleteWishClaimByUserAndWish makes the call to drop a claim.
LEMMA DropsClaims ==
    ASSUME NEW r \in Requests, WishesStep(r) \/ ClaimsStep(r)
    PROVE  Pending(r) /\ (Head(req[r].todo).do = "dropClaim" => DeleteWishClaimByUserAndWish(r))
<1>1. CASE WishesStep(r)
  BY <1>1 DEF WishesStep, WishCheck, Guarded, WishChecks, GetWishByWishID, ReadEditor,
       GetWishCategoryByID, GetWishCategoryByNameInWishlist, CreateWishCategoryInDB,
       CreateWishInDB, UpdateWishInDB, CountWishes, ClearWishCategoryFromWishes,
       DeleteWishCategory, At
<1>2. CASE ClaimsStep(r)
  BY <1>2 DEF ClaimsStep, ClaimCheck, Guarded, ClaimChecks, ReadOwnership, CreateWishClaimInDB,
       DeleteWishClaimByUserAndWish, PickWish, GetWishClaimFromWish, WishShown, At
<1>3. QED
  BY <1>1, <1>2

\* The call answers for what it did: there was one claim of the caller, or none.
LEMMA DropClaimAnswers ==
    ASSUME TurnInv, NEW r \in Requests, DeleteWishClaimByUserAndWish(r),
           user[req[r].caller]
    PROVE  IF req'[r].reply = "ok"
           THEN ~\E c \in claim' : c.wish = req[r].scope /\ c.user = req[r].caller
           ELSE claim' = claim
<1>1. PICK q, h : Calls(r, q, h) /\ q = req[r] /\ h = Head(q.todo)
  BY DEF DeleteWishClaimByUserAndWish, At, Calls
<1>2. h.do = "dropClaim" /\ h.do \in WishCalls /\ RequestsFit /\ Pending(r)
  BY <1>1 DEF DeleteWishClaimByUserAndWish, At, WishCalls, TurnInv, ClaimsInv, SharingInv
<1>3. PICK mine : mine = {c \in claim : c.wish = q.scope /\ c.user = q.caller}
  OBVIOUS
<1>4. /\ claim' = claim \ mine
      /\ IF Cardinality(mine) = 1 THEN Done(r) ELSE Answer(r, "error")
  BY <1>1, <1>3 DEF DeleteWishClaimByUserAndWish
<1>5. PICK p : p = req'[r]
  OBVIOUS
<1>6. CASE Cardinality(mine) = 1
  <2>1. Over(p) \/ GoesOn(r, q.scope, q.found)
    BY <1>1, <1>2, <1>4, <1>5, <1>6, DoneStep
  <2>2. ~GoesOn(r, q.scope, q.found)
    BY <1>1, <1>2, FollowingCall DEF WishFollows, TurnInv
  <2>3. p.reply # "pending"
    BY <2>1, <2>2, FinishedFields DEF Over, Replies
  <2>4. p = Advance(q)
    BY <1>1, <1>2, <1>4, <1>5, <1>6 DEF Done, RequestsFit
  <2>5. CASE Len(q.todo) = 1
    <3>1. p.reply = "ok"
      BY <2>4, <2>5, FinishedFields DEF Advance
    <3>2. QED
      BY <1>1, <1>3, <1>4, <1>5, <3>1
  <2>6. CASE Len(q.todo) # 1
    <3>1. p = [q EXCEPT !.todo = Tail(q.todo)] /\ IsRequest(q) /\ q.reply = "pending"
      BY <1>1, <1>2, <2>4, <2>6 DEF Advance, RequestsFit, Pending
    <3>2. p.reply = "pending"
      BY <3>1 DEF IsRequest, RequestFields
    <3>3. QED
      BY <2>3, <3>2
  <2>7. QED
    BY <2>5, <2>6
<1>7. CASE Cardinality(mine) # 1
  <2>1. p.reply = "error"
    BY <1>2, <1>4, <1>5, <1>7, FinishedFields DEF Answer, RequestsFit
  <2>2. \A c, d \in mine : c = d
    <3>1. \A c \in mine : c.wish \in Wishes /\ c \in LiveClaims(q.scope) /\ c.wish = q.scope
      BY <1>1, <1>3 DEF LiveClaims, TurnInv, ClaimsInv, ClaimsFit
    <3>2. QED
      BY <3>1 DEF TurnInv, OneLiveClaim
  <2>3. mine = {}
    <3>1. ASSUME mine # {} PROVE Cardinality(mine) = 1
      <4>1. PICK c : mine = {c}
        BY <2>2, <3>1
      <4>2. QED
        BY <4>1, FS_Singleton
    <3>2. QED
      BY <1>7, <3>1
  <2>4. QED
    BY <1>4, <1>5, <2>1, <2>3
<1>8. QED
  BY <1>6, <1>7

\* RemoveWishClaim tells its caller what became of the claim: the caller never holds two.
THEOREM UnclaimingIsHonest ==
    ASSUME MaxInFlight = 1
    PROVE  ClaimsSpec => UnclaimingTellsTheTruth
<1> DEFINE Honest == \A r \in Requests :
              At(r, "dropClaim") /\ req'[r] # req[r] /\ user[req[r].caller] =>
                  IF req'[r].reply = "ok"
                  THEN ~\E c \in claim' : c.wish = req[r].scope /\ c.user = req[r].caller
                  ELSE claim' = claim
<1>1. TurnInv /\ [ClaimsNext]_claimVars => [Honest]_claimVars
  <2> SUFFICES ASSUME TurnInv, ClaimsNext, NEW r \in Requests, At(r, "dropClaim"),
                      user[req[r].caller]
               PROVE  IF req'[r].reply = "ok"
                      THEN ~\E c \in claim' : c.wish = req[r].scope /\ c.user = req[r].caller
                      ELSE claim' = claim
    OBVIOUS
  <2>1. Pending(r) /\ Head(req[r].todo).do = "dropClaim" /\ SharingInv /\ RequestsFit
    BY DEF At, TurnInv, ClaimsInv, SharingInv
  <2>2. PICK t \in Requests :
            \/ (SharingRequest(t) \/ WishesRequest(t) \/ ClaimsRequest(t))
            \/ SharingStep(t) /\ UNCHANGED claim
            \/ WishesStep(t) \/ ClaimsStep(t)
    BY DEF ClaimsNext, WishesNext
  <2>3. ~MayBegin(t)
    <3>1. InFlight # {} /\ IsFiniteSet(InFlight)
      BY <2>1 DEF InFlight, TurnInv, Alone
    <3>2. Cardinality(InFlight) # 0 /\ Cardinality(InFlight) \in Nat
      BY <3>1, FS_EmptySet, FS_CardinalityType
    <3>3. QED
      BY <3>2 DEF MayBegin
  <2>4. ~(SharingRequest(t) \/ WishesRequest(t) \/ ClaimsRequest(t))
    BY <2>3 DEF SharingRequest, WishesRequest, ClaimsRequest
  <2>5. Pending(t)
    BY <2>1, <2>2, <2>4, SharingCallMoves, DropsClaims
  <2>6. t = r
    BY <2>1, <2>5 DEF TurnInv, Alone
  <2>7. CASE SharingStep(r) /\ UNCHANGED claim
    <3>1. SharingMoves(r) /\ "dropClaim" \notin SharingCalls
      BY <2>1, <2>7, SharingCallMoves DEF SharingCalls, Checks
    <3>2. Answer(r, "error")
      BY <2>1, <3>1 DEF SharingMoves
    <3>3. req'[r].reply = "error"
      BY <2>1, <3>2, FinishedFields DEF Answer, RequestsFit
    <3>4. QED
      BY <2>7, <3>3
  <2>8. CASE WishesStep(r) \/ ClaimsStep(r)
    BY <2>1, <2>8, DropsClaims, DropClaimAnswers
  <2>9. QED
    BY <2>2, <2>4, <2>6, <2>7, <2>8
<1>2. QED
  BY <1>1, TurnInvariant, PTL DEF ClaimsSpec, UnclaimingTellsTheTruth

=============================================================================
