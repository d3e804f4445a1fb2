---------------------------- MODULE SharingProofs ----------------------------
(***************************************************************************)
(* What holds of groups, wishlists and collaborators for any users, groups, *)
(* wishlists and requests, any number of them in flight.                    *)
(*                                                                          *)
(* A handler checks, and several calls later writes what the check allowed. *)
(* The invariant says which check every write of a program rests on, and    *)
(* what of that check is still true when others have run in between.        *)
(***************************************************************************)
EXTENDS Sharing, HandlingProofs

SharingOps ==
    {"RegisterGroup", "JoinGroup", "RemoveFromGroup", "RemoveSelfFromGroup", "DeleteGroup",
     "RegisterWishlist", "DeleteWishlist", "APIUpdateWishlist", "JoinWishlist",
     "APIAddWishlistsToGroup", "RemoveFromWishlist", "APICollaborateWishlist",
     "APIUnCollaborateWishlist", "APIDeleteUser"}

SharingCalls ==
    Checks \cup
    {"createGroup", "addMember", "findMember", "dropMember", "disableGroup", "createList",
     "disableList", "readCollaborator", "readList", "saveList", "addLink", "addListToScope",
     "findLink", "dropLink", "addCollaborator", "findCollaborator", "dropCollaborator",
     "disableUser"}

-----------------------------------------------------------------------------
(* The tables.                                                              *)

TablesFit ==
    /\ nextId \in Nat
    /\ user \in [Users -> BOOLEAN]
    /\ group \in [Groups -> GroupRow \cup {NoGroup}]
    /\ groupMember \subseteq [id: 1..nextId, group: Groups, member: Users]
    /\ list \in [Lists -> ListRow \cup {NoList}]
    /\ \A l \in Lists : list[l].link <= nextId
    /\ listGroup \subseteq [id: 1..nextId, list: Lists, group: Groups]
    /\ collaborator \subseteq [id: 1..nextId, list: Lists, user: Users]

\* An id names one membership, of a group that exists or has existed.
MembersFit ==
    /\ \A m, n \in groupMember : m.id = n.id => m = n
    /\ \A m \in groupMember : group[m.group] # NoGroup

CollaboratorsFit ==
    \A c \in collaborator : list[c.list] # NoList /\ list[c.list].owner # c.user

-----------------------------------------------------------------------------
(* The requests.                                                            *)

\* The calls that use the scope of the request, which is a group or a wishlist.
GroupCalls == {"isMember", "ownsGroup", "notGroupOwner", "mayRemoveMember", "addMember",
               "findMember", "dropMember", "disableGroup", "addListToScope"}
ListCalls == {"ownsList", "mayAddCollaborator", "addCollaborator", "readList", "saveList",
              "disableList"}

CallFits(q, c) ==
    /\ q.op \in SharingOps => c.do \in SharingCalls /\ q.caller \in Users
    /\ c.do \in SharingCalls => q.op \in SharingOps
    /\ c.do \in GroupCalls => q.scope \in Groups
    /\ c.do \in ListCalls => q.scope \in Lists
    /\ c.do \in {"addMember", "findMember", "dropMember", "addCollaborator", "disableUser"} =>
          c.arg \in Users
    /\ c.do \in {"ownsThatList", "addListToScope"} => c.arg \in Lists
    /\ c.do = "addLink" => c.arg \in Groups
    /\ c.do \in {"createList", "saveList"} => c.arg \in Settings
    /\ c.do = "createGroup" => /\ c.arg.members \in Seq(Users) /\ c.arg.links \in Seq(Lists)
                               /\ c.arg.members # <<>> /\ c.arg.members[1] = q.caller
    /\ c.do = "saveList" => q.op = "APIUpdateWishlist"
    /\ q.op = "APIUpdateWishlist" => q.scope \in Lists
    /\ c.do = "createList" => q.op = "RegisterWishlist"
    /\ q.op = "RegisterWishlist" =>
          c.do \in {"callerIn", "settingsAllowed", "createList", "addLink"}

\* The calls that need the row of the wishlist in memory, and the one that needs
\* the id of a membership there; the call d may come right after c.
NeedsRow(op, c) ==
    c.do = "saveList" \/ (op = "APIUpdateWishlist" /\ c.do = "settingsAllowed")
Follows(op, c, d) ==
    /\ NeedsRow(op, d) => c.do = "readList" \/ NeedsRow(op, c)
    /\ c.do # "saveList"
    /\ d.do = "dropMember" => c = Call("findMember", d.arg)

HeadReady(q, c) ==
    /\ NeedsRow(q.op, c) =>
          /\ q.found \in ListRow /\ q.found.link <= nextId
          /\ list[q.scope] # NoList /\ q.found.owner = list[q.scope].owner
    /\ c.do = "dropMember" =>
          /\ q.found.id \in 1..nextId
          /\ \A m \in groupMember :
                m.id = q.found.id => m.group = q.scope /\ m.member = c.arg

\* The call c of q rests on the check n.
RestsOn(q, c, n) ==
    \/ c.do = "addMember"       /\ n = Call("ownsGroup", None)
    \/ c.do = "addLink"         /\ n = Call("ownsList", None)
    \/ c.do = "addListToScope"  /\ n = Call("ownsThatList", c.arg)
    \/ c.do = "createGroup"
          /\ \E i \in DOMAIN c.arg.links : n = Call("ownsThatList", c.arg.links[i])
    \/ c.do = "addCollaborator" /\ n = Call("mayAddCollaborator", c.arg)
    \/ c.do \in {"createList", "saveList"}   /\ n = Call("settingsAllowed", c.arg)
    \/ c.do \in {"findMember", "dropMember"} /\ n = Call("mayRemoveMember", c.arg)
    \/ c.do = "notGroupOwner"   /\ n = Call("isMember", q.caller)

\* What c checks: a creator owns what it created, and who does not own a group
\* may be removed from it.
Shows(q, c) ==
    IF c.do = "createList" THEN Call("ownsList", None)
    ELSE IF c.do = "notGroupOwner" THEN Call("mayRemoveMember", q.caller)
    ELSE c

\* What stays true once the check n has let q through.
Shown(q, n) ==
    /\ q.caller \in Users
    /\ \/ n.do = "ownsGroup" /\ q.scope \in Groups /\ group[q.scope].owner = q.caller
       \/ n.do = "ownsList" /\ q.scope \in Lists /\ list[q.scope].owner = q.caller
       \/ n.do = "ownsThatList" /\ n.arg \in Lists /\ list[n.arg].owner = q.caller
       \/ n.do = "mayAddCollaborator"
             /\ q.scope \in Lists /\ list[q.scope].owner = q.caller /\ n.arg # q.caller
       \/ n.do = "settingsAllowed" /\ SettingsAllowed(n.arg)
       \/ n.do = "mayRemoveMember"
             /\ q.scope \in Groups /\ group[q.scope] # NoGroup
             /\ ~(group[q.scope].enabled /\ group[q.scope].owner = n.arg)
       \/ n.do = "isMember" /\ q.scope \in Groups /\ group[q.scope] # NoGroup

\* The calls of a request fit, in themselves and one after the other.
ProgramFits(q, s) ==
    /\ \A i \in DOMAIN s : CallFits(q, s[i])
    /\ \A i \in DOMAIN s \ {1} : Follows(q.op, s[i - 1], s[i])

\* What each call rests on has been shown, or will be by a call before it.
Founded(q, s) ==
    \A i \in DOMAIN s : \A n : RestsOn(q, s[i], n) =>
        Shown(q, n) \/ \E j \in 1..i - 1 : n = Shows(q, s[j])

Ready(q) ==
    /\ ProgramFits(q, q.todo)
    /\ Founded(q, q.todo)
    /\ q.todo # <<>> => HeadReady(q, Head(q.todo))

SharingInv ==
    /\ RequestsFit
    /\ TablesFit /\ MembersFit /\ CollaboratorsFit
    /\ OwnerStaysMember /\ PublicNeverClaimable
    /\ \A r \in Requests : Ready(req[r])

\* What other requests rely on is never taken back: rows stay and keep their
\* owners, a group that was deleted stays so, and ids are fresh.
Grows ==
    /\ nextId' \in Nat /\ nextId <= nextId'
    /\ \A g \in Groups : group[g] # NoGroup =>
          /\ group'[g] # NoGroup /\ group'[g].owner = group[g].owner
          /\ group'[g].enabled => group[g].enabled
    /\ \A l \in Lists : list[l] # NoList =>
          list'[l] # NoList /\ list'[l].owner = list[l].owner
    /\ \A m \in groupMember' \ groupMember : m.id > nextId

\* r gives access only to what its caller owns.
GrantsItsOwn(r) ==
    /\ \A m \in groupMember' \ groupMember : group'[m.group].owner = req[r].caller
    /\ \A w \in listGroup' \ listGroup : list'[w.list].owner = req[r].caller
    /\ \A c \in collaborator' \ collaborator : list'[c.list].owner = req[r].caller

KeepsInv(r) == SharingInv' /\ Grows /\ OnlyMoves(r) /\ GrantsItsOwn(r)

-----------------------------------------------------------------------------
(* Requests that wait, and the one that moves.                              *)

\* What a check has shown stays so, whatever other requests do.
LEMMA ShownStays ==
    ASSUME TablesFit, Grows, NEW q, NEW n, Shown(q, n)
    PROVE  Shown(q, n)'
<1>1. None \notin Users
  BY SharingAssumption
<1>2. ASSUME NEW g \in Groups, group[g].owner = q.caller
      PROVE  group'[g].owner = q.caller
  BY <1>1, <1>2 DEF Shown, Grows, NoGroup
<1>3. ASSUME NEW l \in Lists, list[l].owner = q.caller
      PROVE  list'[l].owner = q.caller
  BY <1>1, <1>3 DEF Shown, Grows, NoList
<1>4. ASSUME NEW g \in Groups, group[g] # NoGroup,
             ~(group[g].enabled /\ group[g].owner = n.arg)
      PROVE  group'[g] # NoGroup /\ ~(group'[g].enabled /\ group'[g].owner = n.arg)
  BY <1>4 DEF Grows
<1>5. ASSUME NEW g \in Groups, group[g] # NoGroup
      PROVE  group'[g] # NoGroup
  BY <1>5 DEF Grows
<1>6. QED
  BY <1>2, <1>3, <1>4, <1>5 DEF Shown

\* A call that may be made next may still be made when others have run.
LEMMA HeadStays ==
    ASSUME TablesFit, Grows, NEW q, NEW c, CallFits(q, c), HeadReady(q, c)
    PROVE  HeadReady(q, c)'
<1>1. nextId \in Nat /\ nextId' \in Nat /\ nextId <= nextId'
  BY DEF TablesFit, Grows
<1>2. ASSUME NeedsRow(q.op, c)
      PROVE  /\ q.found \in ListRow /\ q.found.link <= nextId'
             /\ list'[q.scope] # NoList /\ q.found.owner = list'[q.scope].owner
  <2>1. /\ q.found \in ListRow /\ q.found.link <= nextId
        /\ list[q.scope] # NoList /\ q.found.owner = list[q.scope].owner
    BY <1>2 DEF HeadReady
  <2>2. q.scope \in Lists
    BY <1>2 DEF CallFits, NeedsRow
  <2>3. QED
    BY <1>1, <2>1, <2>2 DEF Grows, ListRow
<1>3. ASSUME c.do = "dropMember"
      PROVE  /\ q.found.id \in 1..nextId'
             /\ \A m \in groupMember' :
                  m.id = q.found.id => m.group = q.scope /\ m.member = c.arg
  <2>1. /\ q.found.id \in 1..nextId
        /\ \A m \in groupMember :
              m.id = q.found.id => m.group = q.scope /\ m.member = c.arg
    BY <1>3 DEF HeadReady
  <2>2. \A m \in groupMember' \ groupMember : m.id # q.found.id
    BY <1>1, <2>1 DEF Grows
  <2>3. QED
    BY <1>1, <2>1, <2>2
<1>4. QED
  BY <1>2, <1>3 DEF HeadReady

\* A request that waits stays ready.
LEMMA ReadyStays ==
    ASSUME TablesFit, Grows, NEW q, IsProgram(q.todo), Ready(q)
    PROVE  Ready(q)'
<1>1. ProgramFits(q, q.todo) /\ Founded(q, q.todo)
  BY DEF Ready
<1>2. Founded(q, q.todo)'
  BY <1>1, ShownStays DEF Founded
<1>3. ASSUME q.todo # <<>>
      PROVE  HeadReady(q, Head(q.todo))'
  <2>1. CallFits(q, Head(q.todo))
    BY <1>1, <1>3, ProgramTail DEF ProgramFits
  <2>2. QED
    BY <1>3, <2>1, HeadStays DEF Ready
<1>4. QED
  BY <1>1, <1>2, <1>3 DEF Ready

\* The calls of p, those of q after the first, rest on what has been shown, on what
\* that first call shows or on each other.
FoundedAfter(q, p) ==
    \A i \in DOMAIN p.todo : \A n : RestsOn(p, p.todo[i], n) =>
        \/ Shown(q, n)
        \/ n = Shows(q, Head(q.todo))
        \/ \E j \in 1..i - 1 : n = Shows(p, p.todo[j])

\* The calls after the first fit, and what they rest on has been or will be shown.
LEMMA TailFits ==
    ASSUME NEW q, IsProgram(q.todo), q.todo # <<>>,
           ProgramFits(q, q.todo), Founded(q, q.todo), Tail(q.todo) # <<>>,
           NEW p, p.op = q.op, p.caller = q.caller, p.todo = Tail(q.todo),
           \A c : CallFits(q, c) => CallFits(p, c)
    PROVE  /\ ProgramFits(p, p.todo)
           /\ CallFits(q, Head(q.todo)) /\ CallFits(p, Head(p.todo))
           /\ Follows(q.op, Head(q.todo), Head(p.todo))
           /\ FoundedAfter(q, p)
<1> DEFINE s == q.todo
           t == p.todo
<1>1. /\ Len(s) \in Nat \ {0} /\ DOMAIN s = 1..Len(s) /\ Head(s) = s[1]
      /\ IsProgram(t) /\ Len(t) = Len(s) - 1
      /\ \A i \in 1..Len(s) - 1 : t[i] = s[i + 1]
  BY ProgramTail
<1>2. DOMAIN t = 1..Len(s) - 1 /\ Head(t) = t[1] /\ Len(s) > 1 /\ t[1] = s[2]
  BY <1>1, ProgramTail
<1>3. ASSUME NEW i \in DOMAIN t PROVE CallFits(p, t[i])
  <2>1. i + 1 \in DOMAIN s /\ t[i] = s[i + 1]
    BY <1>1, <1>2
  <2>2. QED
    BY <2>1 DEF ProgramFits
<1>4. ASSUME NEW i \in DOMAIN t \ {1} PROVE Follows(p.op, t[i - 1], t[i])
  <2>1. /\ i - 1 \in 1..Len(s) - 1 /\ i \in 1..Len(s) - 1
        /\ (i - 1) + 1 = i /\ (i + 1) - 1 = i /\ i + 1 \in DOMAIN s \ {1}
    BY <1>1, <1>2
  <2>2. t[i - 1] = s[(i + 1) - 1] /\ t[i] = s[i + 1]
    BY <1>1, <2>1
  <2>3. QED
    BY <2>1, <2>2 DEF ProgramFits
<1>5. CallFits(q, s[1]) /\ Follows(q.op, s[1], s[2])
  BY <1>1, <1>2 DEF ProgramFits
<1>6. ASSUME NEW i \in DOMAIN t, NEW n, RestsOn(p, t[i], n), ~Shown(q, n),
             n # Shows(q, s[1])
      PROVE  \E j \in 1..i - 1 : n = Shows(p, t[j])
  <2>1. i + 1 \in DOMAIN s /\ t[i] = s[i + 1] /\ i \in Nat
    BY <1>1, <1>2
  <2>2. RestsOn(q, s[i + 1], n)
    BY <1>6, <2>1 DEF RestsOn
  <2>3. PICK j \in 1..(i + 1) - 1 : n = Shows(q, s[j])
    BY <1>6, <2>1, <2>2 DEF Founded
  <2>4. j # 1
    BY <1>6, <2>3
  <2>5. j - 1 \in 1..i - 1 /\ t[j - 1] = s[j]
    BY <1>1, <1>2, <2>1, <2>3, <2>4
  <2>6. n = Shows(p, t[j - 1])
    BY <2>3, <2>5 DEF Shows
  <2>7. QED
    BY <2>5, <2>6
<1>7. ProgramFits(p, t)
  BY <1>3, <1>4 DEF ProgramFits
<1>8. CallFits(q, Head(s)) /\ CallFits(p, Head(t)) /\ Follows(q.op, Head(s), Head(t))
  <2>1. 1 \in DOMAIN t /\ Head(s) = s[1] /\ Head(t) = t[1] /\ t[1] = s[2]
    BY <1>1, <1>2
  <2>2. CallFits(p, t[1])
    BY <1>3, <2>1
  <2> HIDE DEF s, t
  <2>3. QED
    BY <1>5, <2>1, <2>2
<1>9. FoundedAfter(q, p)
  BY <1>1, <1>6 DEF FoundedAfter
<1>10. QED
  BY <1>7, <1>8, <1>9

\* The request that goes on about s is ready when its first call has shown what
\* it checks and its next call has in memory what it needs.
LEMMA GoesOnReady ==
    ASSUME RequestsFit, TablesFit, Grows, NEW r \in Requests, Pending(r), Ready(req[r]),
           NEW s, NEW x, OnlyMoves(r), GoesOn(r, s, x),
           NEW q, q = req[r], NEW p, p = req'[r],
           \A c : CallFits(q, c) => CallFits(p, c),
           \A c, n : CallFits(p, c) /\ RestsOn(p, c, n) =>
                /\ Shown(q, n) => Shown(p, n)'
                /\ n = Shows(q, Head(q.todo)) => Shown(p, n)',
           \A c : /\ CallFits(q, Head(q.todo)) /\ CallFits(p, c)
                  /\ Follows(q.op, Head(q.todo), c)
                  => HeadReady(p, c)'
    PROVE  Ready(p)'
<1>1. /\ p.op = q.op /\ p.caller = q.caller /\ p.todo = Tail(q.todo) /\ p.todo # <<>>
      /\ q.todo # <<>> /\ IsProgram(q.todo) /\ Tail(q.todo) # <<>>
  BY DEF GoesOn, Holds, RequestsFit, RequestsOK, Pending
<1>2. ProgramFits(q, q.todo) /\ Founded(q, q.todo)
  BY DEF Ready
<1>3. /\ ProgramFits(p, p.todo)
      /\ CallFits(q, Head(q.todo)) /\ CallFits(p, Head(p.todo))
      /\ Follows(q.op, Head(q.todo), Head(p.todo))
      /\ FoundedAfter(q, p)
  BY <1>1, <1>2, TailFits
<1>4. ASSUME NEW i \in DOMAIN p.todo, NEW n, RestsOn(p, p.todo[i], n)
      PROVE  Shown(p, n)' \/ \E j \in 1..i - 1 : n = Shows(p, p.todo[j])
  <2>1. CallFits(p, p.todo[i])
    BY <1>3 DEF ProgramFits
  <2>2. QED
    BY <1>3, <1>4, <2>1 DEF FoundedAfter
<1>5. Founded(p, p.todo)'
  BY <1>4 DEF Founded
<1>6. HeadReady(p, Head(p.todo))'
  BY <1>3
<1>7. QED
  BY <1>3, <1>5, <1>6 DEF Ready

\* An answered request has nothing left to do.
LEMMA OverIsReady ==
    ASSUME NEW q, Over(q)
    PROVE  Ready(q)'
<1>1. q.todo = <<>>
  BY FinishedFields DEF Over
<1>2. QED
  BY <1>1 DEF Ready, ProgramFits, Founded

\* Neither has one that has not arrived.
LEMMA NoRequestIsReady == Ready(NoRequest)
BY DEF Ready, ProgramFits, Founded, NoRequest

\* The invariant after a step of r, when the tables fit and r is ready.
LEMMA StepKeepsInv ==
    ASSUME SharingInv, NEW r \in Requests, OnlyMoves(r), Grows, Ready(req[r])',
           TablesFit', MembersFit', CollaboratorsFit', OwnerStaysMember', PublicNeverClaimable'
    PROVE  SharingInv'
<1>1. ASSUME NEW t \in Requests PROVE Ready(req[t])'
  <2>1. CASE t = r
    BY <2>1
  <2>2. CASE t # r
    <3>1. PICK q : q = req[t]
      OBVIOUS
    <3>2. req'[t] = q
      BY <2>2, <3>1 DEF OnlyMoves
    <3>3. Ready(q) /\ IsProgram(q.todo)
      BY <3>1 DEF SharingInv, RequestsFit
    <3>4. Ready(q)'
      BY <3>3, ReadyStays DEF SharingInv
    <3>5. QED
      BY <3>2, <3>4
  <2>3. QED
    BY <2>1, <2>2
<1>2. RequestsFit'
  BY DEF OnlyMoves
<1>3. QED
  BY <1>1, <1>2 DEF SharingInv

\* A step that writes nothing.
LEMMA NoWriteKeepsInv ==
    ASSUME SharingInv, NEW r \in Requests, OnlyMoves(r), Ready(req[r])',
           UNCHANGED <<user, group, groupMember, list, listGroup, collaborator>>,
           nextId' \in Nat, nextId <= nextId'
    PROVE  KeepsInv(r)
<1>1. Grows
  BY DEF Grows
<1>2. TablesFit'
  <2>1. 1..nextId \subseteq 1..nextId'
    BY DEF SharingInv, TablesFit
  <2>2. /\ groupMember \subseteq [id: 1..nextId', group: Groups, member: Users]
        /\ listGroup \subseteq [id: 1..nextId', list: Lists, group: Groups]
        /\ collaborator \subseteq [id: 1..nextId', list: Lists, user: Users]
    BY <2>1 DEF SharingInv, TablesFit
  <2>3. \A l \in Lists : list[l].link <= nextId'
    BY DEF SharingInv, TablesFit, ListRow, NoList
  <2>4. QED
    BY <2>2, <2>3 DEF SharingInv, TablesFit
<1>3. MembersFit' /\ CollaboratorsFit' /\ OwnerStaysMember' /\ PublicNeverClaimable'
  BY DEF SharingInv, MembersFit, CollaboratorsFit, OwnerStaysMember, PublicNeverClaimable,
         VerifyUserMembershipToGroup
<1>4. GrantsItsOwn(r)
  BY DEF GrantsItsOwn
<1>5. QED
  BY <1>1, <1>2, <1>3, <1>4, StepKeepsInv DEF KeepsInv

-----------------------------------------------------------------------------
(* Programs.                                                                *)

\* A call that needs nothing of the call before it.
Unlinked(op, c) == c.do # "dropMember" /\ ~NeedsRow(op, c)

\* A request arrives whose program fits and is founded.
LEMMA Arrives ==
    ASSUME SharingInv, NEW r \in Requests, NEW op, NEW u, NEW scope, NEW program,
           IsProgram(program), program # <<>>, Unlinked(op, program[1]),
           \A q : Holds(q, op, u, scope, None, program) =>
                    ProgramFits(q, program) /\ Founded(q, program),
           Accept(r, op, u, scope, program)
    PROVE  KeepsInv(r)
<1>1. OnlyMoves(r) /\ Holds(req'[r], op, u, scope, None, program)
  BY BeginStep DEF Accept, SharingInv
<1>2. PICK q : q = req'[r]
  OBVIOUS
<1>3. ProgramFits(q, q.todo) /\ Founded(q, q.todo) /\ q.todo = program /\ q.op = op
  BY <1>1, <1>2 DEF Holds
<1>4. HeadReady(q, Head(q.todo))
  BY <1>3, ProgramTail DEF HeadReady, Unlinked
<1>5. Ready(q)
  BY <1>3, <1>4 DEF Ready
<1>6. UNCHANGED tables
  BY DEF Accept
<1>7. nextId \in Nat /\ Grows
  BY <1>6 DEF tables, SharingInv, TablesFit, Grows
<1>8. Ready(q)'
  BY <1>3, <1>5, <1>7, ReadyStays DEF SharingInv
<1>9. Ready(req[r])'
  BY <1>2, <1>8
<1>10. QED
  BY <1>1, <1>6, <1>7, <1>9, NoWriteKeepsInv DEF tables

\* Calls that need nothing of the one before fit, and are founded when each has
\* what it rests on shown before.
LEMMA UnlinkedFit ==
    ASSUME NEW q, NEW s, IsProgram(s),
           \A i \in DOMAIN s :
              /\ CallFits(q, s[i]) /\ Unlinked(q.op, s[i])
              /\ \A n : RestsOn(q, s[i], n) => \E j \in 1..i - 1 : n = Shows(q, s[j])
    PROVE  ProgramFits(q, s) /\ Founded(q, s)
<1>1. ProgramFits(q, s)
  BY ProgramLength DEF ProgramFits, Follows, Unlinked, NeedsRow
<1>2. QED
  BY <1>1 DEF Founded

\* Two calls of a handler.
LEMMA TwoFit ==
    ASSUME NEW q, NEW a, NEW b, CallFits(q, a), CallFits(q, b), Follows(q.op, a, b),
           \A n : ~RestsOn(q, a, n),
           \A n : RestsOn(q, b, n) => n = Shows(q, a)
    PROVE  /\ IsProgram(<<a, b>>) /\ <<a, b>> # <<>>
           /\ ProgramFits(q, <<a, b>>) /\ Founded(q, <<a, b>>)
<1>1. IsProgram(<<a, b>>)
  BY TuplesArePrograms
<1>2. PICK s : s = <<a, b>>
  OBVIOUS
<1>3. DOMAIN s = 1..2 /\ s[1] = a /\ s[2] = b
  BY <1>2
<1>4. ProgramFits(q, s)
  BY <1>3 DEF ProgramFits
<1>5. Founded(q, s)
  BY <1>3 DEF Founded
<1>6. QED
  BY <1>1, <1>2, <1>4, <1>5

\* Four.
LEMMA FourFit ==
    ASSUME NEW q, NEW a, NEW b, NEW c, NEW d,
           CallFits(q, a), CallFits(q, b), CallFits(q, c), CallFits(q, d),
           Follows(q.op, a, b), Follows(q.op, b, c), Follows(q.op, c, d),
           \A n : ~RestsOn(q, a, n),
           \A n : RestsOn(q, b, n) => n = Shows(q, a),
           \A n : RestsOn(q, c, n) => n \in {Shows(q, a), Shows(q, b)},
           \A n : RestsOn(q, d, n) => n \in {Shows(q, a), Shows(q, b), Shows(q, c)}
    PROVE  /\ IsProgram(<<a, b, c, d>>) /\ <<a, b, c, d>> # <<>>
           /\ ProgramFits(q, <<a, b, c, d>>) /\ Founded(q, <<a, b, c, d>>)
<1>1. IsProgram(<<a, b, c, d>>)
  BY TuplesArePrograms
<1>2. PICK s : s = <<a, b, c, d>>
  OBVIOUS
<1>3. DOMAIN s = 1..4 /\ s[1] = a /\ s[2] = b /\ s[3] = c /\ s[4] = d
  BY <1>2
<1>4. ProgramFits(q, s)
  BY <1>3 DEF ProgramFits
<1>5. ASSUME NEW i \in DOMAIN s, NEW n, RestsOn(q, s[i], n)
      PROVE  \E j \in 1..i - 1 : n = Shows(q, s[j])
  BY <1>3, <1>5
<1>6. Founded(q, s)
  BY <1>5 DEF Founded
<1>7. QED
  BY <1>1, <1>2, <1>4, <1>6

\* Five.
LEMMA FiveFit ==
    ASSUME NEW q, NEW a, NEW b, NEW c, NEW d, NEW e,
           CallFits(q, a), CallFits(q, b), CallFits(q, c), CallFits(q, d), CallFits(q, e),
           Follows(q.op, a, b), Follows(q.op, b, c), Follows(q.op, c, d), Follows(q.op, d, e),
           \A n : ~RestsOn(q, a, n) /\ ~RestsOn(q, b, n) /\ ~RestsOn(q, c, n),
           \A n : ~RestsOn(q, d, n),
           \A n : RestsOn(q, e, n) => n = Shows(q, d)
    PROVE  /\ IsProgram(<<a, b, c, d, e>>) /\ <<a, b, c, d, e>> # <<>>
           /\ ProgramFits(q, <<a, b, c, d, e>>) /\ Founded(q, <<a, b, c, d, e>>)
<1>1. IsProgram(<<a, b, c, d, e>>)
  BY TuplesArePrograms
<1>2. PICK s : s = <<a, b, c, d, e>>
  OBVIOUS
<1>3. DOMAIN s = 1..5 /\ s[1] = a /\ s[2] = b /\ s[3] = c /\ s[4] = d /\ s[5] = e
  BY <1>2
<1>4. ProgramFits(q, s)
  BY <1>3 DEF ProgramFits
<1>5. ASSUME NEW i \in DOMAIN s, NEW n, RestsOn(q, s[i], n)
      PROVE  \E j \in 1..i - 1 : n = Shows(q, s[j])
  BY <1>3, <1>5
<1>6. Founded(q, s)
  BY <1>5 DEF Founded
<1>7. QED
  BY <1>1, <1>2, <1>4, <1>6

\* Four for each element of a loop, of which the last may rest on the others.
LEMMA LoopFits ==
    ASSUME NEW q, NEW n \in Nat, NEW s, IsProgram(s), DOMAIN s = 1..4 * n,
           \A k \in 1..n :
              /\ \A i \in {4 * k - 3, 4 * k - 2, 4 * k - 1, 4 * k} :
                    CallFits(q, s[i]) /\ Unlinked(q.op, s[i])
              /\ \A m : ~RestsOn(q, s[4 * k - 3], m)
              /\ \A m : ~RestsOn(q, s[4 * k - 2], m)
              /\ \A m : ~RestsOn(q, s[4 * k - 1], m)
              /\ \A m : RestsOn(q, s[4 * k], m) =>
                    m \in {Shows(q, s[4 * k - 3]), Shows(q, s[4 * k - 1])}
    PROVE  ProgramFits(q, s) /\ Founded(q, s)
<1>1. ASSUME NEW i \in DOMAIN s
      PROVE  /\ CallFits(q, s[i]) /\ Unlinked(q.op, s[i])
             /\ \A m : RestsOn(q, s[i], m) => \E j \in 1..i - 1 : m = Shows(q, s[j])
  <2>1. PICK k \in 1..n : i \in {4 * k - 3, 4 * k - 2, 4 * k - 1, 4 * k}
    BY LoopsOfFour
  <2>2. CallFits(q, s[i]) /\ Unlinked(q.op, s[i])
    BY <2>1
  <2>3. ASSUME NEW m, RestsOn(q, s[i], m)
        PROVE  \E j \in 1..i - 1 : m = Shows(q, s[j])
    <3>1. i = 4 * k
      BY <2>1, <2>3
    <3>2. 4 * k - 3 \in 1..i - 1 /\ 4 * k - 1 \in 1..i - 1
      BY <2>1, <3>1
    <3>3. QED
      BY <2>3, <3>1, <3>2
  <2>4. QED
    BY <2>2, <2>3
<1>2. QED
  BY <1>1, UnlinkedFit

-----------------------------------------------------------------------------
(* The handlers, by the number of calls they make.                          *)

\* DeleteGroup, DeleteWishlist and APIDeleteUser.
LEMMA DeletionArrives ==
    ASSUME SharingInv, NEW r \in Requests,
           DeleteGroup(r) \/ DeleteWishlist(r) \/ APIDeleteUser(r)
    PROVE  KeepsInv(r)
<1> USE DEF CallFits, Follows, Unlinked, NeedsRow, RestsOn, Call, Holds,
            SharingOps, SharingCalls, Checks, GroupCalls, ListCalls
<1>1. CASE DeleteGroup(r)
  <2>1. PICK u \in Users, g \in Groups :
            Accept(r, "DeleteGroup", u, g,
                   <<Call("ownsGroup", None), Call("disableGroup", None)>>)
    BY <1>1 DEF DeleteGroup
  <2>2. PICK a, b : a = Call("ownsGroup", None) /\ b = Call("disableGroup", None)
    OBVIOUS
  <2>3. ASSUME NEW q, Holds(q, "DeleteGroup", u, g, None, <<a, b>>)
        PROVE  /\ CallFits(q, a) /\ CallFits(q, b) /\ Follows(q.op, a, b)
               /\ \A n : ~RestsOn(q, a, n) /\ ~RestsOn(q, b, n)
    BY <2>2, <2>3
  <2>4. Unlinked("DeleteGroup", a)
    BY <2>2
  <2> HIDE DEF CallFits, Follows, Unlinked, NeedsRow, RestsOn, Call, Holds
  <2>5. QED
    BY <2>1, <2>2, <2>3, <2>4, TwoFit, TuplesArePrograms, Arrives
<1>2. CASE DeleteWishlist(r)
  <2>1. PICK u \in Users, l \in Lists :
            Accept(r, "DeleteWishlist", u, l,
                   <<Call("ownsList", None), Call("disableList", None)>>)
    BY <1>2 DEF DeleteWishlist
  <2>2. PICK a, b : a = Call("ownsList", None) /\ b = Call("disableList", None)
    OBVIOUS
  <2>3. ASSUME NEW q, Holds(q, "DeleteWishlist", u, l, None, <<a, b>>)
        PROVE  /\ CallFits(q, a) /\ CallFits(q, b) /\ Follows(q.op, a, b)
               /\ \A n : ~RestsOn(q, a, n) /\ ~RestsOn(q, b, n)
    BY <2>2, <2>3
  <2>4. Unlinked("DeleteWishlist", a)
    BY <2>2
  <2> HIDE DEF CallFits, Follows, Unlinked, NeedsRow, RestsOn, Call, Holds
  <2>5. QED
    BY <2>1, <2>2, <2>3, <2>4, TwoFit, TuplesArePrograms, Arrives
<1>3. CASE APIDeleteUser(r)
  <2>1. PICK u \in Users, v \in Users :
            Accept(r, "APIDeleteUser", u, None,
                   <<Call("userExists", v), Call("disableUser", v)>>)
    BY <1>3 DEF APIDeleteUser
  <2>2. PICK a, b : a = Call("userExists", v) /\ b = Call("disableUser", v)
    OBVIOUS
  <2>3. ASSUME NEW q, Holds(q, "APIDeleteUser", u, None, None, <<a, b>>)
        PROVE  /\ CallFits(q, a) /\ CallFits(q, b) /\ Follows(q.op, a, b)
               /\ \A n : ~RestsOn(q, a, n) /\ ~RestsOn(q, b, n)
    BY <2>2, <2>3
  <2>4. Unlinked("APIDeleteUser", a)
    BY <2>2
  <2> HIDE DEF CallFits, Follows, Unlinked, NeedsRow, RestsOn, Call, Holds
  <2>5. QED
    BY <2>1, <2>2, <2>3, <2>4, TwoFit, TuplesArePrograms, Arrives
<1>4. QED
  BY <1>1, <1>2, <1>3

\* RemoveFromGroup, RemoveSelfFromGroup and APIUnCollaborateWishlist.
LEMMA RemovalArrives ==
    ASSUME SharingInv, NEW r \in Requests,
           RemoveFromGroup(r) \/ RemoveSelfFromGroup(r) \/ APIUnCollaborateWishlist(r)
    PROVE  KeepsInv(r)
<1> USE DEF CallFits, Follows, Unlinked, NeedsRow, RestsOn, Shows, Call, Holds,
            SharingOps, SharingCalls, Checks, GroupCalls, ListCalls
<1>1. CASE RemoveFromGroup(r)
  <2>1. PICK u \in Users, m \in Users, g \in Groups :
            Accept(r, "RemoveFromGroup", u, g,
                   <<Call("isMember", m), Call("mayRemoveMember", m),
                     Call("findMember", m), Call("dropMember", m)>>)
    BY <1>1 DEF RemoveFromGroup
  <2>2. PICK a, b, c, d : /\ a = Call("isMember", m) /\ b = Call("mayRemoveMember", m)
                          /\ c = Call("findMember", m) /\ d = Call("dropMember", m)
    OBVIOUS
  <2>3. ASSUME NEW q, Holds(q, "RemoveFromGroup", u, g, None, <<a, b, c, d>>)
        PROVE  /\ CallFits(q, a) /\ CallFits(q, b) /\ CallFits(q, c) /\ CallFits(q, d)
               /\ Follows(q.op, a, b) /\ Follows(q.op, b, c) /\ Follows(q.op, c, d)
               /\ \A n : ~RestsOn(q, a, n) /\ ~RestsOn(q, b, n)
               /\ \A n : RestsOn(q, c, n) \/ RestsOn(q, d, n) => n = Shows(q, b)
    BY <2>2, <2>3
  <2>4. Unlinked("RemoveFromGroup", a)
    BY <2>2
  <2> HIDE DEF CallFits, Follows, Unlinked, NeedsRow, RestsOn, Shows, Call, Holds
  <2>5. QED
    BY <2>1, <2>2, <2>3, <2>4, FourFit, TuplesArePrograms, Arrives
<1>2. CASE RemoveSelfFromGroup(r)
  <2>1. PICK u \in Users, g \in Groups :
            Accept(r, "RemoveSelfFromGroup", u, g,
                   <<Call("isMember", u), Call("notGroupOwner", None),
                     Call("findMember", u), Call("dropMember", u)>>)
    BY <1>2 DEF RemoveSelfFromGroup
  <2>2. PICK a, b, c, d : /\ a = Call("isMember", u) /\ b = Call("notGroupOwner", None)
                          /\ c = Call("findMember", u) /\ d = Call("dropMember", u)
    OBVIOUS
  <2>3. ASSUME NEW q, Holds(q, "RemoveSelfFromGroup", u, g, None, <<a, b, c, d>>)
        PROVE  /\ CallFits(q, a) /\ CallFits(q, b) /\ CallFits(q, c) /\ CallFits(q, d)
               /\ Follows(q.op, a, b) /\ Follows(q.op, b, c) /\ Follows(q.op, c, d)
               /\ \A n : ~RestsOn(q, a, n)
               /\ \A n : RestsOn(q, b, n) => n = Shows(q, a)
               /\ \A n : RestsOn(q, c, n) \/ RestsOn(q, d, n) => n = Shows(q, b)
    BY <2>2, <2>3
  <2>4. Unlinked("RemoveSelfFromGroup", a)
    BY <2>2
  <2> HIDE DEF CallFits, Follows, Unlinked, NeedsRow, RestsOn, Shows, Call, Holds
  <2>5. QED
    BY <2>1, <2>2, <2>3, <2>4, FourFit, TuplesArePrograms, Arrives
<1>3. CASE APIUnCollaborateWishlist(r)
  <2>1. PICK u \in Users, v \in Users, l \in Lists :
            Accept(r, "APIUnCollaborateWishlist", u, l,
                   <<Call("collaborates", v), Call("ownsList", None),
                     Call("findCollaborator", v), Call("dropCollaborator", v)>>)
    BY <1>3 DEF APIUnCollaborateWishlist
  <2>2. PICK a, b, c, d :
            /\ a = Call("collaborates", v) /\ b = Call("ownsList", None)
            /\ c = Call("findCollaborator", v) /\ d = Call("dropCollaborator", v)
    OBVIOUS
  <2>3. ASSUME NEW q, Holds(q, "APIUnCollaborateWishlist", u, l, None, <<a, b, c, d>>)
        PROVE  /\ CallFits(q, a) /\ CallFits(q, b) /\ CallFits(q, c) /\ CallFits(q, d)
               /\ Follows(q.op, a, b) /\ Follows(q.op, b, c) /\ Follows(q.op, c, d)
               /\ \A n : /\ ~RestsOn(q, a, n) /\ ~RestsOn(q, b, n)
                         /\ ~RestsOn(q, c, n) /\ ~RestsOn(q, d, n)
    BY <2>2, <2>3
  <2>4. Unlinked("APIUnCollaborateWishlist", a)
    BY <2>2
  <2> HIDE DEF CallFits, Follows, Unlinked, NeedsRow, RestsOn, Shows, Call, Holds
  <2>5. QED
    BY <2>1, <2>2, <2>3, <2>4, FourFit, TuplesArePrograms, Arrives
<1>4. QED
  BY <1>1, <1>2, <1>3

\* APIUpdateWishlist and RemoveFromWishlist, whose calls depend on the page it serves.
LEMMA WishlistRequestArrives ==
    ASSUME SharingInv, NEW r \in Requests, APIUpdateWishlist(r) \/ RemoveFromWishlist(r)
    PROVE  KeepsInv(r)
<1> USE DEF CallFits, Follows, Unlinked, NeedsRow, RestsOn, Shows, Call, Holds,
            SharingOps, SharingCalls, Checks, GroupCalls, ListCalls
<1>1. CASE APIUpdateWishlist(r)
  <2>1. PICK u \in Users, l \in Lists, s \in Settings :
            Accept(r, "APIUpdateWishlist", u, l,
                   <<Call("readCollaborator", None), Call("mayEditList", None),
                     Call("readList", None), Call("settingsAllowed", s),
                     Call("saveList", s)>>)
    BY <1>1 DEF APIUpdateWishlist
  <2>2. PICK a, b, c, d, e :
            /\ a = Call("readCollaborator", None) /\ b = Call("mayEditList", None)
            /\ c = Call("readList", None) /\ d = Call("settingsAllowed", s)
            /\ e = Call("saveList", s)
    OBVIOUS
  <2>3. ASSUME NEW q, Holds(q, "APIUpdateWishlist", u, l, None, <<a, b, c, d, e>>)
        PROVE  /\ CallFits(q, a) /\ CallFits(q, b) /\ CallFits(q, c)
               /\ CallFits(q, d) /\ CallFits(q, e)
               /\ Follows(q.op, a, b) /\ Follows(q.op, b, c)
               /\ Follows(q.op, c, d) /\ Follows(q.op, d, e)
               /\ \A n : ~RestsOn(q, a, n) /\ ~RestsOn(q, b, n) /\ ~RestsOn(q, c, n)
               /\ \A n : ~RestsOn(q, d, n)
               /\ \A n : RestsOn(q, e, n) => n = Shows(q, d)
    BY <2>2, <2>3
  <2>4. Unlinked("APIUpdateWishlist", a)
    BY <2>2
  <2> HIDE DEF CallFits, Follows, Unlinked, NeedsRow, RestsOn, Shows, Call, Holds
  <2>5. QED
    BY <2>1, <2>2, <2>3, <2>4, FiveFit, TuplesArePrograms, Arrives
<1>2. CASE RemoveFromWishlist(r)
  <2>1. PICK u \in Users, l \in Lists, g \in Groups,
             page \in {<<>>} \cup {<<Call("callerIn", h)>> : h \in Groups} :
            Accept(r, "RemoveFromWishlist", u, l,
                   <<Call("linked", g), Call("ownsList", None),
                     Call("findLink", g), Call("dropLink", g)>> \o page)
    BY <1>2 DEF RemoveFromWishlist
  <2>2. PICK a, b, c, d : /\ a = Call("linked", g) /\ b = Call("ownsList", None)
                          /\ c = Call("findLink", g) /\ d = Call("dropLink", g)
    OBVIOUS
  <2>3. Unlinked("RemoveFromWishlist", a)
    BY <2>2
  <2>4. CASE page = <<>>
    <3>1. ASSUME NEW q, Holds(q, "RemoveFromWishlist", u, l, None, <<a, b, c, d>>)
          PROVE  /\ CallFits(q, a) /\ CallFits(q, b) /\ CallFits(q, c) /\ CallFits(q, d)
                 /\ Follows(q.op, a, b) /\ Follows(q.op, b, c) /\ Follows(q.op, c, d)
                 /\ \A n : /\ ~RestsOn(q, a, n) /\ ~RestsOn(q, b, n)
                           /\ ~RestsOn(q, c, n) /\ ~RestsOn(q, d, n)
      BY <2>2, <3>1
    <3> HIDE DEF CallFits, Follows, Unlinked, NeedsRow, RestsOn, Shows, Call, Holds
    <3>2. <<a, b, c, d>> \o page = <<a, b, c, d>>
      BY <2>4
    <3>3. Accept(r, "RemoveFromWishlist", u, l, <<a, b, c, d>>)
      BY <2>1, <2>2, <3>2
    <3>4. QED
      BY <2>3, <3>1, <3>3, FourFit, TuplesArePrograms, Arrives
  <2>5. ASSUME NEW h \in Groups, page = <<Call("callerIn", h)>>
        PROVE  KeepsInv(r)
    <3>1. PICK e : e = Call("callerIn", h)
      OBVIOUS
    <3>2. ASSUME NEW q, Holds(q, "RemoveFromWishlist", u, l, None, <<a, b, c, d, e>>)
          PROVE  /\ CallFits(q, a) /\ CallFits(q, b) /\ CallFits(q, c)
                 /\ CallFits(q, d) /\ CallFits(q, e)
                 /\ Follows(q.op, a, b) /\ Follows(q.op, b, c)
                 /\ Follows(q.op, c, d) /\ Follows(q.op, d, e)
                 /\ \A n : ~RestsOn(q, a, n) /\ ~RestsOn(q, b, n) /\ ~RestsOn(q, c, n)
                 /\ \A n : ~RestsOn(q, d, n)
                 /\ \A n : ~RestsOn(q, e, n)
      BY <2>2, <3>1, <3>2
    <3> HIDE DEF CallFits, Follows, Unlinked, NeedsRow, RestsOn, Shows, Call, Holds
    <3>3. <<a, b, c, d>> \o <<e>> = <<a, b, c, d, e>>
      BY FourAndOne
    <3>4. Accept(r, "RemoveFromWishlist", u, l, <<a, b, c, d, e>>)
      BY <2>1, <2>2, <2>5, <3>1, <3>3
    <3>5. QED
      BY <2>3, <3>2, <3>4, FiveFit, TuplesArePrograms, Arrives
  <2>6. QED
    BY <2>1, <2>4, <2>5
<1>3. QED
  BY <1>1, <1>2

\* The elements that a request names, one or more.
LEMMA TargetsAreSequences ==
    ASSUME NEW S, NEW s \in Targets(S)
    PROVE  /\ s \in Seq(S) /\ Len(s) \in Nat \ {0} /\ DOMAIN s = 1..Len(s)
           /\ \A i \in 1..Len(s) : s[i] \in S
<1>1. PICK n \in 1..MaxTargets : s \in [1..n -> S]
  BY DEF Targets
<1>2. n \in Nat \ {0}
  BY SharingAssumption
<1>3. QED
  BY <1>1, <1>2

\* JoinWishlist, APIAddWishlistsToGroup and APICollaborateWishlist: four calls for
\* each group, wishlist or user.
LEMMA SharingArrives ==
    ASSUME SharingInv, NEW r \in Requests,
           JoinWishlist(r) \/ APIAddWishlistsToGroup(r) \/ APICollaborateWishlist(r)
    PROVE  KeepsInv(r)
<1>1. CASE JoinWishlist(r)
  <2>1. PICK u \in Users, l \in Lists, gs \in Targets(Groups) :
            Accept(r, "JoinWishlist", u, l,
                   ForEach(gs, 4, LAMBDA g : <<Call("groupExists", g),
                        Call("notLinked", g), Call("ownsList", None),
                        Call("addLink", g)>>))
    BY <1>1 DEF JoinWishlist
  <2>2. PICK n \in Nat \ {0} : n = Len(gs) /\ \A k \in 1..n : gs[k] \in Groups
    BY TargetsAreSequences
  <2>3. PICK s : /\ Accept(r, "JoinWishlist", u, l, s)
                 /\ s = [i \in 1..4 * n |->
                          <<Call("groupExists", gs[((i - 1) \div 4) + 1]),
                            Call("notLinked", gs[((i - 1) \div 4) + 1]),
                            Call("ownsList", None),
                            Call("addLink", gs[((i - 1) \div 4) + 1])>>[((i - 1) % 4) + 1]]
    BY <2>1, <2>2 DEF ForEach
  <2>4. IsProgram(s) /\ Len(s) = 4 * n /\ DOMAIN s = 1..4 * n
    <3>1. 4 * n \in Nat /\ s = [i \in 1..4 * n |-> s[i]]
      BY <2>2, <2>3
    <3>2. QED
      BY <3>1, FunctionIsProgram
  <2>5. ASSUME NEW k \in 1..n
        PROVE  \E g \in Groups : /\ s[4 * k - 3] = Call("groupExists", g)
                               /\ s[4 * k - 2] = Call("notLinked", g)
                               /\ s[4 * k - 1] = Call("ownsList", None)
                               /\ s[4 * k] = Call("addLink", g)
    <3>1. s[4 * k - 3] = Call("groupExists", gs[k])
      <4>1. PICK i \in 1..4 * n : i = 4 * k - 3 /\ ((i - 1) \div 4) + 1 = k /\ ((i - 1) % 4) + 1 = 1
        BY LoopsOfFour
      <4>2. QED
        BY <2>3, <4>1
    <3>2. s[4 * k - 2] = Call("notLinked", gs[k])
      <4>1. PICK i \in 1..4 * n : i = 4 * k - 2 /\ ((i - 1) \div 4) + 1 = k /\ ((i - 1) % 4) + 1 = 2
        BY LoopsOfFour
      <4>2. QED
        BY <2>3, <4>1
    <3>3. s[4 * k - 1] = Call("ownsList", None)
      <4>1. PICK i \in 1..4 * n : i = 4 * k - 1 /\ ((i - 1) \div 4) + 1 = k /\ ((i - 1) % 4) + 1 = 3
        BY LoopsOfFour
      <4>2. QED
        BY <2>3, <4>1
    <3>4. s[4 * k] = Call("addLink", gs[k])
      <4>1. PICK i \in 1..4 * n : i = 4 * k /\ ((i - 1) \div 4) + 1 = k /\ ((i - 1) % 4) + 1 = 4
        BY LoopsOfFour
      <4>2. QED
        BY <2>3, <4>1
    <3>5. QED
      BY <2>2, <3>1, <3>2, <3>3, <3>4
  <2>6. s # <<>> /\ Unlinked("JoinWishlist", s[1])
    <3>1. 1 \in 1..n /\ 4 * 1 - 3 = 1 /\ 1 \in DOMAIN s
      BY <2>2, <2>4
    <3>2. PICK g \in Groups : s[1] = Call("groupExists", g)
      BY <2>5, <3>1
    <3>3. QED
      BY <3>1, <3>2 DEF Unlinked, NeedsRow, Call
  <2>7. ASSUME NEW q, Holds(q, "JoinWishlist", u, l, None, s), NEW k \in 1..n
        PROVE  /\ \A i \in {4 * k - 3, 4 * k - 2, 4 * k - 1, 4 * k} :
                     CallFits(q, s[i]) /\ Unlinked(q.op, s[i])
               /\ \A m : ~RestsOn(q, s[4 * k - 3], m)
               /\ \A m : ~RestsOn(q, s[4 * k - 2], m)
               /\ \A m : ~RestsOn(q, s[4 * k - 1], m)
               /\ \A m : RestsOn(q, s[4 * k], m) =>
                    m \in {Shows(q, s[4 * k - 3]), Shows(q, s[4 * k - 1])}
    <3>0. PICK g \in Groups : /\ s[4 * k - 3] = Call("groupExists", g) /\ s[4 * k - 2] = Call("notLinked", g)
                          /\ s[4 * k - 1] = Call("ownsList", None) /\ s[4 * k] = Call("addLink", g)
      BY <2>5
    <3>1. PICK a, b, c, d :
            /\ a = s[4 * k - 3] /\ b = s[4 * k - 2] /\ c = s[4 * k - 1] /\ d = s[4 * k]
            /\ a = Call("groupExists", g) /\ b = Call("notLinked", g)
            /\ c = Call("ownsList", None) /\ d = Call("addLink", g)
      BY <3>0
    <3>2. /\ CallFits(q, a) /\ CallFits(q, b) /\ CallFits(q, c) /\ CallFits(q, d)
          /\ Unlinked(q.op, a) /\ Unlinked(q.op, b)
          /\ Unlinked(q.op, c) /\ Unlinked(q.op, d)
      BY <2>7, <3>1 DEF CallFits, Unlinked, NeedsRow, Call, Holds,
           SharingOps, SharingCalls, Checks, GroupCalls, ListCalls
    <3>3. \A m : ~RestsOn(q, a, m) /\ ~RestsOn(q, b, m) /\ ~RestsOn(q, c, m)
      BY <3>1 DEF RestsOn, Call
    <3>4. \A m : RestsOn(q, d, m) => m = Shows(q, c)
      BY <3>1 DEF RestsOn, Shows, Call
    <3>5. QED
      BY <3>1, <3>2, <3>3, <3>4
  <2>8. ASSUME NEW q, Holds(q, "JoinWishlist", u, l, None, s)
        PROVE  ProgramFits(q, s) /\ Founded(q, s)
    BY <2>2, <2>4, <2>7, <2>8, LoopFits
  <2>9. QED
    BY <2>3, <2>4, <2>6, <2>8, Arrives
<1>2. CASE APIAddWishlistsToGroup(r)
  <2>1. PICK u \in Users, g \in Groups, ls \in Targets(Lists) :
            Accept(r, "APIAddWishlistsToGroup", u, g,
                   ForEach(ls, 4, LAMBDA l : <<Call("ownsThatList", l),
                        Call("listNotInGroup", l), Call("callerInScope", None),
                        Call("addListToScope", l)>>))
    BY <1>2 DEF APIAddWishlistsToGroup
  <2>2. PICK n \in Nat \ {0} : n = Len(ls) /\ \A k \in 1..n : ls[k] \in Lists
    BY TargetsAreSequences
  <2>3. PICK s : /\ Accept(r, "APIAddWishlistsToGroup", u, g, s)
                 /\ s = [i \in 1..4 * n |->
                          <<Call("ownsThatList", ls[((i - 1) \div 4) + 1]),
                            Call("listNotInGroup", ls[((i - 1) \div 4) + 1]),
                            Call("callerInScope", None),
                            Call("addListToScope", ls[((i - 1) \div 4) + 1])>>[((i - 1) % 4) + 1]]
    BY <2>1, <2>2 DEF ForEach
  <2>4. IsProgram(s) /\ Len(s) = 4 * n /\ DOMAIN s = 1..4 * n
    <3>1. 4 * n \in Nat /\ s = [i \in 1..4 * n |-> s[i]]
      BY <2>2, <2>3
    <3>2. QED
      BY <3>1, FunctionIsProgram
  <2>5. ASSUME NEW k \in 1..n
        PROVE  \E l \in Lists : /\ s[4 * k - 3] = Call("ownsThatList", l)
                               /\ s[4 * k - 2] = Call("listNotInGroup", l)
                               /\ s[4 * k - 1] = Call("callerInScope", None)
                               /\ s[4 * k] = Call("addListToScope", l)
    <3>1. s[4 * k - 3] = Call("ownsThatList", ls[k])
      <4>1. PICK i \in 1..4 * n : i = 4 * k - 3 /\ ((i - 1) \div 4) + 1 = k /\ ((i - 1) % 4) + 1 = 1
        BY LoopsOfFour
      <4>2. QED
        BY <2>3, <4>1
    <3>2. s[4 * k - 2] = Call("listNotInGroup", ls[k])
      <4>1. PICK i \in 1..4 * n : i = 4 * k - 2 /\ ((i - 1) \div 4) + 1 = k /\ ((i - 1) % 4) + 1 = 2
        BY LoopsOfFour
      <4>2. QED
        BY <2>3, <4>1
    <3>3. s[4 * k - 1] = Call("callerInScope", None)
      <4>1. PICK i \in 1..4 * n : i = 4 * k - 1 /\ ((i - 1) \div 4) + 1 = k /\ ((i - 1) % 4) + 1 = 3
        BY LoopsOfFour
      <4>2. QED
        BY <2>3, <4>1
    <3>4. s[4 * k] = Call("addListToScope", ls[k])
      <4>1. PICK i \in 1..4 * n : i = 4 * k /\ ((i - 1) \div 4) + 1 = k /\ ((i - 1) % 4) + 1 = 4
        BY LoopsOfFour
      <4>2. QED
        BY <2>3, <4>1
    <3>5. QED
      BY <2>2, <3>1, <3>2, <3>3, <3>4
  <2>6. s # <<>> /\ Unlinked("APIAddWishlistsToGroup", s[1])
    <3>1. 1 \in 1..n /\ 4 * 1 - 3 = 1 /\ 1 \in DOMAIN s
      BY <2>2, <2>4
    <3>2. PICK l \in Lists : s[1] = Call("ownsThatList", l)
      BY <2>5, <3>1
    <3>3. QED
      BY <3>1, <3>2 DEF Unlinked, NeedsRow, Call
  <2>7. ASSUME NEW q, Holds(q, "APIAddWishlistsToGroup", u, g, None, s), NEW k \in 1..n
        PROVE  /\ \A i \in {4 * k - 3, 4 * k - 2, 4 * k - 1, 4 * k} :
                     CallFits(q, s[i]) /\ Unlinked(q.op, s[i])
               /\ \A m : ~RestsOn(q, s[4 * k - 3], m)
               /\ \A m : ~RestsOn(q, s[4 * k - 2], m)
               /\ \A m : ~RestsOn(q, s[4 * k - 1], m)
               /\ \A m : RestsOn(q, s[4 * k], m) =>
                    m \in {Shows(q, s[4 * k - 3]), Shows(q, s[4 * k - 1])}
    <3>0. PICK l \in Lists : /\ s[4 * k - 3] = Call("ownsThatList", l) /\ s[4 * k - 2] = Call("listNotInGroup", l)
                          /\ s[4 * k - 1] = Call("callerInScope", None) /\ s[4 * k] = Call("addListToScope", l)
      BY <2>5
    <3>1. PICK a, b, c, d :
            /\ a = s[4 * k - 3] /\ b = s[4 * k - 2] /\ c = s[4 * k - 1] /\ d = s[4 * k]
            /\ a = Call("ownsThatList", l) /\ b = Call("listNotInGroup", l)
            /\ c = Call("callerInScope", None) /\ d = Call("addListToScope", l)
      BY <3>0
    <3>2. /\ CallFits(q, a) /\ CallFits(q, b) /\ CallFits(q, c) /\ CallFits(q, d)
          /\ Unlinked(q.op, a) /\ Unlinked(q.op, b)
          /\ Unlinked(q.op, c) /\ Unlinked(q.op, d)
      BY <2>7, <3>1 DEF CallFits, Unlinked, NeedsRow, Call, Holds,
           SharingOps, SharingCalls, Checks, GroupCalls, ListCalls
    <3>3. \A m : ~RestsOn(q, a, m) /\ ~RestsOn(q, b, m) /\ ~RestsOn(q, c, m)
      BY <3>1 DEF RestsOn, Call
    <3>4. \A m : RestsOn(q, d, m) => m = Shows(q, a)
      BY <3>1 DEF RestsOn, Shows, Call
    <3>5. QED
      BY <3>1, <3>2, <3>3, <3>4
  <2>8. ASSUME NEW q, Holds(q, "APIAddWishlistsToGroup", u, g, None, s)
        PROVE  ProgramFits(q, s) /\ Founded(q, s)
    BY <2>2, <2>4, <2>7, <2>8, LoopFits
  <2>9. QED
    BY <2>3, <2>4, <2>6, <2>8, Arrives
<1>3. CASE APICollaborateWishlist(r)
  <2>1. PICK u \in Users, l \in Lists, us \in Targets(Users) :
            Accept(r, "APICollaborateWishlist", u, l,
                   ForEach(us, 4, LAMBDA v : <<Call("userExists", v),
                        Call("notCollaborator", v), Call("mayAddCollaborator", v),
                        Call("addCollaborator", v)>>))
    BY <1>3 DEF APICollaborateWishlist
  <2>2. PICK n \in Nat \ {0} : n = Len(us) /\ \A k \in 1..n : us[k] \in Users
    BY TargetsAreSequences
  <2>3. PICK s : /\ Accept(r, "APICollaborateWishlist", u, l, s)
                 /\ s = [i \in 1..4 * n |->
                          <<Call("userExists", us[((i - 1) \div 4) + 1]),
                            Call("notCollaborator", us[((i - 1) \div 4) + 1]),
                            Call("mayAddCollaborator", us[((i - 1) \div 4) + 1]),
                            Call("addCollaborator", us[((i - 1) \div 4) + 1])>>[((i - 1) % 4) + 1]]
    BY <2>1, <2>2 DEF ForEach
  <2>4. IsProgram(s) /\ Len(s) = 4 * n /\ DOMAIN s = 1..4 * n
    <3>1. 4 * n \in Nat /\ s = [i \in 1..4 * n |-> s[i]]
      BY <2>2, <2>3
    <3>2. QED
      BY <3>1, FunctionIsProgram
  <2>5. ASSUME NEW k \in 1..n
        PROVE  \E v \in Users : /\ s[4 * k - 3] = Call("userExists", v)
                               /\ s[4 * k - 2] = Call("notCollaborator", v)
                               /\ s[4 * k - 1] = Call("mayAddCollaborator", v)
                               /\ s[4 * k] = Call("addCollaborator", v)
    <3>1. s[4 * k - 3] = Call("userExists", us[k])
      <4>1. PICK i \in 1..4 * n : i = 4 * k - 3 /\ ((i - 1) \div 4) + 1 = k /\ ((i - 1) % 4) + 1 = 1
        BY LoopsOfFour
      <4>2. QED
        BY <2>3, <4>1
    <3>2. s[4 * k - 2] = Call("notCollaborator", us[k])
      <4>1. PICK i \in 1..4 * n : i = 4 * k - 2 /\ ((i - 1) \div 4) + 1 = k /\ ((i - 1) % 4) + 1 = 2
        BY LoopsOfFour
      <4>2. QED
        BY <2>3, <4>1
    <3>3. s[4 * k - 1] = Call("mayAddCollaborator", us[k])
      <4>1. PICK i \in 1..4 * n : i = 4 * k - 1 /\ ((i - 1) \div 4) + 1 = k /\ ((i - 1) % 4) + 1 = 3
        BY LoopsOfFour
      <4>2. QED
        BY <2>3, <4>1
    <3>4. s[4 * k] = Call("addCollaborator", us[k])
      <4>1. PICK i \in 1..4 * n : i = 4 * k /\ ((i - 1) \div 4) + 1 = k /\ ((i - 1) % 4) + 1 = 4
        BY LoopsOfFour
      <4>2. QED
        BY <2>3, <4>1
    <3>5. QED
      BY <2>2, <3>1, <3>2, <3>3, <3>4
  <2>6. s # <<>> /\ Unlinked("APICollaborateWishlist", s[1])
    <3>1. 1 \in 1..n /\ 4 * 1 - 3 = 1 /\ 1 \in DOMAIN s
      BY <2>2, <2>4
    <3>2. PICK v \in Users : s[1] = Call("userExists", v)
      BY <2>5, <3>1
    <3>3. QED
      BY <3>1, <3>2 DEF Unlinked, NeedsRow, Call
  <2>7. ASSUME NEW q, Holds(q, "APICollaborateWishlist", u, l, None, s), NEW k \in 1..n
        PROVE  /\ \A i \in {4 * k - 3, 4 * k - 2, 4 * k - 1, 4 * k} :
                     CallFits(q, s[i]) /\ Unlinked(q.op, s[i])
               /\ \A m : ~RestsOn(q, s[4 * k - 3], m)
               /\ \A m : ~RestsOn(q, s[4 * k - 2], m)
               /\ \A m : ~RestsOn(q, s[4 * k - 1], m)
               /\ \A m : RestsOn(q, s[4 * k], m) =>
                    m \in {Shows(q, s[4 * k - 3]), Shows(q, s[4 * k - 1])}
    <3>0. PICK v \in Users : /\ s[4 * k - 3] = Call("userExists", v) /\ s[4 * k - 2] = Call("notCollaborator", v)
                          /\ s[4 * k - 1] = Call("mayAddCollaborator", v) /\ s[4 * k] = Call("addCollaborator", v)
      BY <2>5
    <3>1. PICK a, b, c, d :
            /\ a = s[4 * k - 3] /\ b = s[4 * k - 2] /\ c = s[4 * k - 1] /\ d = s[4 * k]
            /\ a = Call("userExists", v) /\ b = Call("notCollaborator", v)
            /\ c = Call("mayAddCollaborator", v) /\ d = Call("addCollaborator", v)
      BY <3>0
    <3>2. /\ CallFits(q, a) /\ CallFits(q, b) /\ CallFits(q, c) /\ CallFits(q, d)
          /\ Unlinked(q.op, a) /\ Unlinked(q.op, b)
          /\ Unlinked(q.op, c) /\ Unlinked(q.op, d)
      BY <2>7, <3>1 DEF CallFits, Unlinked, NeedsRow, Call, Holds,
           SharingOps, SharingCalls, Checks, GroupCalls, ListCalls
    <3>3. \A m : ~RestsOn(q, a, m) /\ ~RestsOn(q, b, m) /\ ~RestsOn(q, c, m)
      BY <3>1 DEF RestsOn, Call
    <3>4. \A m : RestsOn(q, d, m) => m = Shows(q, c)
      BY <3>1 DEF RestsOn, Shows, Call
    <3>5. QED
      BY <3>1, <3>2, <3>3, <3>4
  <2>8. ASSUME NEW q, Holds(q, "APICollaborateWishlist", u, l, None, s)
        PROVE  ProgramFits(q, s) /\ Founded(q, s)
    BY <2>2, <2>4, <2>7, <2>8, LoopFits
  <2>9. QED
    BY <2>3, <2>4, <2>6, <2>8, Arrives
<1>4. QED
  BY <1>1, <1>2, <1>3

\* JoinGroup: the check, and three calls for each user.
LEMMA JoinGroupArrives ==
    ASSUME SharingInv, NEW r \in Requests, JoinGroup(r)
    PROVE  KeepsInv(r)
<1>1. PICK u \in Users, g \in Groups, ms \in Targets(Users) :
          Accept(r, "JoinGroup", u, g,
                 <<Call("ownsGroup", None)>>
                 \o ForEach(ms, 3, LAMBDA m : <<Call("userExists", m), Call("notMember", m),
                                               Call("addMember", m)>>))
  BY DEF JoinGroup
<1>2. PICK n \in Nat \ {0} : n = Len(ms) /\ \A k \in 1..n : ms[k] \in Users
  BY TargetsAreSequences
<1>3. PICK a, f, s :
          /\ Accept(r, "JoinGroup", u, g, s)
          /\ a = Call("ownsGroup", None) /\ s = <<a>> \o f
          /\ f = [i \in 1..3 * n |->
                    <<Call("userExists", ms[((i - 1) \div 3) + 1]),
                      Call("notMember", ms[((i - 1) \div 3) + 1]),
                      Call("addMember", ms[((i - 1) \div 3) + 1])>>[((i - 1) % 3) + 1]]
  BY <1>1, <1>2 DEF ForEach
<1>4. IsProgram(f) /\ Len(f) = 3 * n /\ DOMAIN f = 1..3 * n
  <2>1. 3 * n \in Nat /\ f = [i \in 1..3 * n |-> f[i]]
    BY <1>2, <1>3
  <2>2. QED
    BY <2>1, FunctionIsProgram
<1>5. ASSUME NEW i \in 1..3 * n
      PROVE  \E m \in Users : \/ f[i] = Call("userExists", m)
                              \/ f[i] = Call("notMember", m)
                              \/ f[i] = Call("addMember", m)
  <2>1. PICK k \in 1..n : i \in {3 * k - 2, 3 * k - 1, 3 * k}
    BY LoopsOfThree
  <2>2. ((i - 1) \div 3) + 1 = k /\ ((i - 1) % 3) + 1 \in {1, 2, 3}
    BY <2>1, LoopsOfThree
  <2>3. f[i] = <<Call("userExists", ms[k]), Call("notMember", ms[k]),
                 Call("addMember", ms[k])>>[((i - 1) % 3) + 1]
    BY <1>3, <2>2
  <2>4. QED
    BY <1>2, <2>2, <2>3
<1>6. IsProgram(<<a>>) /\ Len(<<a>>) = 1
  BY TuplesArePrograms
<1>7. /\ IsProgram(s) /\ Len(s) = 1 + 3 * n /\ DOMAIN s = 1..1 + 3 * n
      /\ s[1] = a /\ \A i \in 2..1 + 3 * n : s[i] = f[i - 1]
  <2>1. /\ IsProgram(s) /\ Len(s) = 1 + 3 * n
        /\ \A i \in 1..1 + 3 * n : s[i] = IF i <= 1 THEN <<a>>[i] ELSE f[i - 1]
    BY <1>3, <1>4, <1>6, ProgramConcat
  <2>2. QED
    BY <1>2, <2>1, ProgramLength
<1>8. ASSUME NEW q, Holds(q, "JoinGroup", u, g, None, s), NEW i \in DOMAIN s
      PROVE  /\ CallFits(q, s[i]) /\ Unlinked(q.op, s[i])
             /\ \A m : RestsOn(q, s[i], m) => \E j \in 1..i - 1 : m = Shows(q, s[j])
  <2>1. CASE i = 1
    <3>1. CallFits(q, a) /\ Unlinked(q.op, a) /\ \A m : ~RestsOn(q, a, m)
      BY <1>3, <1>8 DEF CallFits, Unlinked, NeedsRow, RestsOn, Call, Holds,
           SharingOps, SharingCalls, Checks, GroupCalls, ListCalls
    <3>2. QED
      BY <1>7, <2>1, <3>1
  <2>2. CASE i # 1
    <3>1. i \in 2..1 + 3 * n /\ i - 1 \in 1..3 * n /\ s[i] = f[i - 1]
      BY <1>7, <2>2
    <3>2. PICK m \in Users : \/ f[i - 1] = Call("userExists", m)
                             \/ f[i - 1] = Call("notMember", m)
                             \/ f[i - 1] = Call("addMember", m)
      BY <1>5, <3>1
    <3>3. PICK c : c = s[i]
      OBVIOUS
    <3>4. /\ CallFits(q, c) /\ Unlinked(q.op, c)
          /\ \A x : RestsOn(q, c, x) => x = Shows(q, a)
      <4>1. /\ q.op = "JoinGroup" /\ q.caller \in Users /\ q.scope \in Groups
            /\ c.do \in {"userExists", "notMember", "addMember"} /\ c.arg \in Users
        BY <1>8, <3>1, <3>2, <3>3 DEF Call, Holds
      <4>2. CallFits(q, c) /\ Unlinked(q.op, c)
        BY <4>1 DEF CallFits, Unlinked, NeedsRow,
             SharingOps, SharingCalls, Checks, GroupCalls, ListCalls
      <4>3. \A x : RestsOn(q, c, x) => x = a
        BY <1>3, <4>1 DEF RestsOn
      <4>4. Shows(q, a) = a
        BY <1>3 DEF Shows, Call
      <4>5. QED
        BY <4>2, <4>3, <4>4
    <3>5. 1 \in 1..i - 1
      BY <3>1
    <3>6. QED
      BY <1>7, <3>3, <3>4, <3>5
  <2>3. QED
    BY <2>1, <2>2
<1>9. s # <<>> /\ Unlinked("JoinGroup", s[1])
  BY <1>2, <1>3, <1>7 DEF Unlinked, NeedsRow, Call
<1>10. ASSUME NEW q, Holds(q, "JoinGroup", u, g, None, s)
       PROVE  ProgramFits(q, s) /\ Founded(q, s)
  BY <1>7, <1>8, <1>10, UnlinkedFit
<1>11. QED
  BY <1>3, <1>7, <1>9, <1>10, Arrives

\* The elements that a request names, if any.
LEMMA ChoicesAreSequences ==
    ASSUME NEW S, NEW s \in {<<>>} \cup Targets(S)
    PROVE  /\ s \in Seq(S) /\ Len(s) \in Nat /\ DOMAIN s = 1..Len(s)
           /\ \A i \in 1..Len(s) : s[i] \in S
<1>1. CASE s = <<>>
  BY <1>1
<1>2. CASE s \in Targets(S)
  BY <1>2, TargetsAreSequences
<1>3. QED
  BY <1>1, <1>2

\* RegisterGroup: a check for each user and each wishlist, and then one transaction.
LEMMA RegisterGroupArrives ==
    ASSUME SharingInv, NEW r \in Requests, RegisterGroup(r)
    PROVE  KeepsInv(r)
<1>1. PICK u \in Users, ms \in {<<>>} \cup Targets(Users), ls \in {<<>>} \cup Targets(Lists) :
          Accept(r, "RegisterGroup", u, None,
                 ForEach(ms, 1, LAMBDA m : <<Call("userExists", m)>>)
                 \o ForEach(ls, 1, LAMBDA l : <<Call("ownsThatList", l)>>)
                 \o <<Call("createGroup", [members |-> <<u>> \o ms, links |-> ls])>>)
  BY DEF RegisterGroup
<1>2. PICK n, k \in Nat :
          /\ n = Len(ms) /\ k = Len(ls)
          /\ \A i \in 1..n : ms[i] \in Users
          /\ \A i \in 1..k : ls[i] \in Lists
          /\ ls \in Seq(Lists) /\ DOMAIN ls = 1..k
  BY ChoicesAreSequences
<1>3. n \in Nat
  BY <1>2, ChoicesAreSequences
<1>4. PICK f, h, c, s :
          /\ Accept(r, "RegisterGroup", u, None, s)
          /\ s = (f \o h) \o <<c>>
          /\ f = [i \in 1..1 * n |-> <<Call("userExists", ms[((i - 1) \div 1) + 1])>>[((i - 1) % 1) + 1]]
          /\ h = [i \in 1..1 * k |-> <<Call("ownsThatList", ls[((i - 1) \div 1) + 1])>>[((i - 1) % 1) + 1]]
          /\ c = Call("createGroup", [members |-> <<u>> \o ms, links |-> ls])
  BY <1>1, <1>2 DEF ForEach
<1>5. /\ IsProgram(f) /\ Len(f) = n /\ \A i \in 1..n : f[i] = Call("userExists", ms[i])
      /\ IsProgram(h) /\ Len(h) = k /\ \A i \in 1..k : h[i] = Call("ownsThatList", ls[i])
  <2>1. 1 * n = n /\ 1 * k = k
    BY <1>3, <1>2
  <2>2. f = [i \in 1..n |-> f[i]] /\ h = [i \in 1..k |-> h[i]]
    BY <1>4, <2>1
  <2>3. IsProgram(f) /\ Len(f) = n /\ IsProgram(h) /\ Len(h) = k
    BY <1>2, <1>3, <2>2, FunctionIsProgram
  <2>4. ASSUME NEW i \in 1..n PROVE f[i] = Call("userExists", ms[i])
    BY <1>3, <1>4, <2>1, LoopsOfOne
  <2>5. ASSUME NEW i \in 1..k PROVE h[i] = Call("ownsThatList", ls[i])
    BY <1>2, <1>4, <2>1, LoopsOfOne
  <2>6. QED
    BY <2>3, <2>4, <2>5
<1>6. /\ IsProgram(f \o h) /\ Len(f \o h) = n + k
      /\ \A i \in 1..n + k : (f \o h)[i] = IF i <= n THEN f[i] ELSE h[i - n]
  BY <1>5, ProgramConcat
<1>7. /\ IsProgram(s) /\ DOMAIN s = 1..n + k + 1
      /\ \A i \in 1..n : s[i] = Call("userExists", ms[i])
      /\ \A i \in n + 1..n + k : s[i] = Call("ownsThatList", ls[i - n])
      /\ s[n + k + 1] = c
  <2>1. IsProgram(<<c>>) /\ Len(<<c>>) = 1
    BY TuplesArePrograms
  <2>2. /\ IsProgram(s) /\ Len(s) = n + k + 1
        /\ \A i \in 1..n + k + 1 :
              s[i] = IF i <= n + k THEN (f \o h)[i] ELSE <<c>>[i - (n + k)]
    <3>1. PICK t, w : t = <<c>> /\ w = f \o h
      OBVIOUS
    <3>2. IsProgram(w) /\ Len(w) = n + k /\ IsProgram(t) /\ Len(t) = 1 /\ s = w \o t
      BY <1>4, <1>6, <2>1, <3>1
    <3>3. /\ IsProgram(s) /\ Len(s) = Len(w) + Len(t)
          /\ \A i \in 1..Len(w) + Len(t) : s[i] = IF i <= Len(w) THEN w[i] ELSE t[i - Len(w)]
      BY <3>2, ProgramConcat
    <3>4. QED
      BY <3>1, <3>2, <3>3
  <2>3. DOMAIN s = 1..n + k + 1
    BY <2>2, ProgramLength
  <2>4. ASSUME NEW i \in 1..n PROVE s[i] = Call("userExists", ms[i])
    BY <1>2, <1>3, <1>5, <1>6, <2>2
  <2>5. ASSUME NEW i \in n + 1..n + k PROVE s[i] = Call("ownsThatList", ls[i - n])
    <3>1. i - n \in 1..k /\ i \in 1..n + k /\ ~(i <= n)
      BY <1>2, <1>3
    <3>2. (f \o h)[i] = h[i - n]
      BY <1>6, <3>1
    <3>3. i \in 1..n + k + 1 /\ i <= n + k
      BY <1>2, <1>3, <3>1
    <3>4. QED
      BY <1>5, <2>2, <3>1, <3>2, <3>3
  <2>6. s[n + k + 1] = c
    <3>1. n + k + 1 \in 1..n + k + 1 /\ ~(n + k + 1 <= n + k) /\ (n + k + 1) - (n + k) = 1
      BY <1>2, <1>3
    <3>2. QED
      BY <2>2, <3>1
  <2>7. QED
    BY <2>2, <2>3, <2>4, <2>5, <2>6
<1>8. PICK ns : ns = <<u>> \o ms /\ ns \in Seq(Users) /\ ns # <<>> /\ ns[1] = u
  <2>1. <<u>> \in Seq(Users) /\ Len(<<u>>) = 1 /\ <<u>>[1] = u /\ ms \in Seq(Users)
    BY ChoicesAreSequences
  <2>2. PICK t, ns : t = <<u>> /\ ns = t \o ms
    OBVIOUS
  <2>3. ns \in Seq(Users) /\ Len(ns) = 1 + Len(ms) /\ ns[1] = u
    BY <2>1, <2>2, ConcatProperties
  <2>4. Len(ns) # 0
    BY <1>2, <1>3, <2>3
  <2>5. ns # <<>>
    BY <2>4
  <2>6. QED
    BY <2>2, <2>3, <2>5
<1>9. ASSUME NEW q, Holds(q, "RegisterGroup", u, None, None, s), NEW i \in DOMAIN s
      PROVE  /\ CallFits(q, s[i]) /\ Unlinked(q.op, s[i])
             /\ \A m : RestsOn(q, s[i], m) => \E j \in 1..i - 1 : m = Shows(q, s[j])
  <2>1. CASE i \in 1..n + k
    <3>1. PICK d, x : d = s[i] /\ \/ d = Call("userExists", x)
                                  \/ d = Call("ownsThatList", x) /\ x \in Lists
      <4>1. CASE i \in 1..n
        BY <1>7, <4>1
      <4>2. CASE i \in n + 1..n + k
        BY <1>2, <1>3, <1>7, <4>2
      <4>3. QED
        BY <1>2, <1>3, <2>1, <4>1, <4>2
    <3>2. CallFits(q, d) /\ Unlinked(q.op, d) /\ \A m : ~RestsOn(q, d, m)
      BY <1>9, <3>1 DEF CallFits, Unlinked, NeedsRow, RestsOn, Call, Holds,
           SharingOps, SharingCalls, Checks, GroupCalls, ListCalls
    <3>3. QED
      BY <3>1, <3>2
  <2>2. CASE i = n + k + 1
    <3>1. s[i] = c
      BY <1>7, <2>2
    <3>2. c = Call("createGroup", [members |-> ns, links |-> ls])
      BY <1>4, <1>8
    <3>3. CallFits(q, c) /\ Unlinked(q.op, c)
      BY <1>2, <1>8, <1>9, <3>2
         DEF CallFits, Unlinked, NeedsRow, Call, Holds,
             SharingOps, SharingCalls, Checks, GroupCalls, ListCalls
    <3>4. ASSUME NEW m, RestsOn(q, c, m)
          PROVE  \E j \in 1..i - 1 : m = Shows(q, s[j])
      <4>1. PICK l \in 1..k : m = Call("ownsThatList", ls[l])
        BY <1>2, <3>2, <3>4 DEF RestsOn, Call
      <4>2. n + l \in n + 1..n + k /\ (n + l) - n = l /\ n + l \in 1..i - 1
        BY <1>2, <1>3, <2>2
      <4>3. s[n + l] = Call("ownsThatList", ls[l])
        BY <1>7, <4>2
      <4>4. m = Shows(q, s[n + l])
        BY <4>1, <4>3 DEF Shows, Call
      <4>5. QED
        BY <4>2, <4>4
    <3>5. QED
      BY <3>1, <3>3, <3>4
  <2>3. QED
    BY <1>2, <1>3, <1>7, <2>1, <2>2
<1>10. s # <<>> /\ Unlinked("RegisterGroup", s[1])
  <2>1. 1 \in DOMAIN s
    BY <1>2, <1>3, <1>7
  <2>2. PICK q : q = [op |-> "RegisterGroup", caller |-> u, scope |-> None, found |-> None,
                      todo |-> s, reply |-> "pending"]
    OBVIOUS
  <2>3. Holds(q, "RegisterGroup", u, None, None, s)
    BY <2>2 DEF Holds
  <2>4. Unlinked("RegisterGroup", s[1])
    BY <1>9, <2>1, <2>3 DEF Holds
  <2>5. QED
    BY <2>1, <2>4
<1>11. ASSUME NEW q, Holds(q, "RegisterGroup", u, None, None, s)
       PROVE  ProgramFits(q, s) /\ Founded(q, s)
  BY <1>7, <1>9, <1>11, UnlinkedFit
<1>12. QED
  BY <1>4, <1>7, <1>10, <1>11, Arrives

\* RegisterWishlist: a check for each group, the wishlist, and a link for each group.
LEMMA RegisterWishlistArrives ==
    ASSUME SharingInv, NEW r \in Requests, RegisterWishlist(r)
    PROVE  KeepsInv(r)
<1>1. PICK u \in Users, gs \in {<<>>} \cup Targets(Groups), st \in Settings :
          Accept(r, "RegisterWishlist", u, None,
                 ForEach(gs, 1, LAMBDA g : <<Call("callerIn", g)>>)
                 \o <<Call("settingsAllowed", st), Call("createList", st)>>
                 \o ForEach(gs, 1, LAMBDA g : <<Call("addLink", g)>>))
  BY DEF RegisterWishlist
<1>2. PICK n \in Nat : n = Len(gs) /\ \A i \in 1..n : gs[i] \in Groups
  BY ChoicesAreSequences
<1>3. PICK f, h, a, b, t, s :
          /\ Accept(r, "RegisterWishlist", u, None, s)
          /\ a = Call("settingsAllowed", st) /\ b = Call("createList", st)
          /\ t = <<a, b>>
          /\ s = (f \o t) \o h
          /\ f = [i \in 1..1 * n |-> <<Call("callerIn", gs[((i - 1) \div 1) + 1])>>[((i - 1) % 1) + 1]]
          /\ h = [i \in 1..1 * n |-> <<Call("addLink", gs[((i - 1) \div 1) + 1])>>[((i - 1) % 1) + 1]]
  BY <1>1, <1>2 DEF ForEach
<1>4. /\ IsProgram(f) /\ Len(f) = n /\ \A i \in 1..n : f[i] = Call("callerIn", gs[i])
      /\ IsProgram(h) /\ Len(h) = n /\ \A i \in 1..n : h[i] = Call("addLink", gs[i])
      /\ IsProgram(t) /\ Len(t) = 2 /\ t[1] = a /\ t[2] = b
  <2>1. 1 * n = n
    BY <1>2
  <2>2. f = [i \in 1..n |-> f[i]] /\ h = [i \in 1..n |-> h[i]]
    BY <1>3, <2>1
  <2>3. IsProgram(f) /\ Len(f) = n /\ IsProgram(h) /\ Len(h) = n
    BY <1>2, <2>2, FunctionIsProgram
  <2>4. ASSUME NEW i \in 1..n
        PROVE  f[i] = Call("callerIn", gs[i]) /\ h[i] = Call("addLink", gs[i])
    BY <1>2, <1>3, <2>1, LoopsOfOne
  <2>5. IsProgram(t) /\ Len(t) = 2 /\ t[1] = a /\ t[2] = b
    BY <1>3, TuplesArePrograms
  <2>6. QED
    BY <2>3, <2>4, <2>5
<1>5. PICK w : w = f \o t
  OBVIOUS
<1>5a. /\ IsProgram(w) /\ Len(w) = n + 2
       /\ \A i \in 1..n + 2 : w[i] = IF i <= n THEN f[i] ELSE t[i - n]
  <2>1. /\ IsProgram(w) /\ Len(w) = Len(f) + Len(t)
        /\ \A i \in 1..Len(f) + Len(t) : w[i] = IF i <= Len(f) THEN f[i] ELSE t[i - Len(f)]
    BY <1>4, <1>5, ProgramConcat
  <2>2. QED
    BY <1>4, <2>1
<1>6. /\ IsProgram(s) /\ Len(s) = (n + 2) + n
      /\ \A i \in 1..(n + 2) + n : s[i] = IF i <= n + 2 THEN w[i] ELSE h[i - (n + 2)]
  <2>1. s = w \o h
    BY <1>3, <1>5
  <2>2. /\ IsProgram(s) /\ Len(s) = Len(w) + Len(h)
        /\ \A i \in 1..Len(w) + Len(h) : s[i] = IF i <= Len(w) THEN w[i] ELSE h[i - Len(w)]
    BY <1>4, <1>5a, <2>1, ProgramConcat
  <2>3. QED
    BY <1>4, <1>5a, <2>2
<1>7. DOMAIN s = 1..(n + 2) + n
  BY <1>6, ProgramLength
<1>8. /\ \A i \in 1..n : s[i] = Call("callerIn", gs[i])
      /\ s[n + 1] = a /\ s[n + 2] = b
      /\ \A i \in n + 3..(n + 2) + n : s[i] = Call("addLink", gs[i - (n + 2)])
  <2>1. ASSUME NEW i \in 1..n PROVE s[i] = Call("callerIn", gs[i])
    <3>1. i \in 1..(n + 2) + n /\ i \in 1..n + 2 /\ i <= n + 2 /\ i <= n
      BY <1>2
    <3>2. QED
      BY <1>4, <1>5a, <1>6, <3>1
  <2>2. s[n + 1] = a
    <3>1. /\ n + 1 \in 1..(n + 2) + n /\ n + 1 \in 1..n + 2 /\ n + 1 <= n + 2
          /\ ~(n + 1 <= n) /\ (n + 1) - n = 1
      BY <1>2
    <3>2. QED
      BY <1>4, <1>5a, <1>6, <3>1
  <2>3. s[n + 2] = b
    <3>1. /\ n + 2 \in 1..(n + 2) + n /\ n + 2 \in 1..n + 2 /\ n + 2 <= n + 2
          /\ ~(n + 2 <= n) /\ (n + 2) - n = 2
      BY <1>2
    <3>2. QED
      BY <1>4, <1>5a, <1>6, <3>1
  <2>4. ASSUME NEW i \in n + 3..(n + 2) + n PROVE s[i] = Call("addLink", gs[i - (n + 2)])
    <3>1. i \in 1..(n + 2) + n /\ ~(i <= n + 2) /\ i - (n + 2) \in 1..n
      BY <1>2
    <3>2. QED
      BY <1>4, <1>6, <3>1
  <2>5. QED
    BY <2>1, <2>2, <2>3, <2>4
<1> DEFINE F(q, i) == /\ CallFits(q, s[i]) /\ Unlinked(q.op, s[i])
                      /\ \A m : RestsOn(q, s[i], m) => \E j \in 1..i - 1 : m = Shows(q, s[j])
<1>9. ASSUME NEW q, Holds(q, "RegisterWishlist", u, None, None, s), NEW i \in DOMAIN s
      PROVE  F(q, i)
  <2>1. q.op = "RegisterWishlist" /\ q.caller \in Users
    BY <1>9 DEF Holds
  <2>2. CASE i \in 1..n
    <3>0. PICK c : c = s[i]
      OBVIOUS
    <3>1. c = s[i] /\ c.do = "callerIn"
      <4>1. s[i] = Call("callerIn", gs[i])
        BY <1>8, <2>2
      <4>2. QED
        BY <3>0, <4>1 DEF Call
    <3>2. CallFits(q, c) /\ Unlinked(q.op, c) /\ \A m : ~RestsOn(q, c, m)
      BY <2>1, <3>1 DEF CallFits, Unlinked, NeedsRow, RestsOn,
           SharingOps, SharingCalls, Checks, GroupCalls, ListCalls
    <3>3. QED
      BY <3>1, <3>2
  <2>3. CASE i = n + 1
    <3>1. CallFits(q, a) /\ Unlinked(q.op, a) /\ \A m : ~RestsOn(q, a, m)
      BY <1>3, <2>1 DEF CallFits, Unlinked, NeedsRow, RestsOn, Call,
           SharingOps, SharingCalls, Checks, GroupCalls, ListCalls
    <3>2. QED
      BY <1>8, <2>3, <3>1
  <2>4. CASE i = n + 2
    <3>1. CallFits(q, b) /\ Unlinked(q.op, b)
      BY <1>3, <2>1 DEF CallFits, Unlinked, NeedsRow, Call,
           SharingOps, SharingCalls, Checks, GroupCalls, ListCalls
    <3>2. \A m : RestsOn(q, b, m) => m = Shows(q, a)
      BY <1>3 DEF RestsOn, Shows, Call
    <3>3. n + 1 \in 1..i - 1
      BY <1>2, <2>4
    <3>4. QED
      BY <1>8, <2>4, <3>1, <3>2, <3>3
  <2>5. CASE i \in n + 3..(n + 2) + n
    <3>1. i - (n + 2) \in 1..n
      BY <1>2, <2>5
    <3>0. PICK c : c = s[i]
      OBVIOUS
    <3>2. c = s[i] /\ c.do = "addLink" /\ c.arg \in Groups
      <4>1. s[i] = Call("addLink", gs[i - (n + 2)])
        BY <1>8, <2>5
      <4>2. gs[i - (n + 2)] \in Groups
        BY <1>2, <3>1
      <4>3. QED
        BY <3>0, <4>1, <4>2 DEF Call
    <3>3. CallFits(q, c) /\ Unlinked(q.op, c)
      BY <2>1, <3>2 DEF CallFits, Unlinked, NeedsRow,
           SharingOps, SharingCalls, Checks, GroupCalls, ListCalls
    <3>4. \A m : RestsOn(q, c, m) => m = Shows(q, b)
      BY <1>3, <3>2 DEF RestsOn, Shows, Call
    <3>5. n + 2 \in 1..i - 1
      BY <1>2, <2>5
    <3>6. QED
      BY <1>8, <3>2, <3>3, <3>4, <3>5
  <2>6. QED
    BY <1>2, <1>7, <2>2, <2>3, <2>4, <2>5
<1>10. s # <<>> /\ Unlinked("RegisterWishlist", s[1])
  <2>1. 1 \in DOMAIN s
    BY <1>2, <1>7
  <2>2. PICK q : q = [op |-> "RegisterWishlist", caller |-> u, scope |-> None, found |-> None,
                      todo |-> s, reply |-> "pending"]
    OBVIOUS
  <2>3. Holds(q, "RegisterWishlist", u, None, None, s) /\ q.op = "RegisterWishlist"
    BY <2>2 DEF Holds
  <2>4. Unlinked("RegisterWishlist", s[1])
    BY <1>9, <2>1, <2>3
  <2>5. QED
    BY <2>1, <2>4
<1>11. ASSUME NEW q, Holds(q, "RegisterWishlist", u, None, None, s)
       PROVE  ProgramFits(q, s) /\ Founded(q, s)
  BY <1>6, <1>9, <1>11, UnlinkedFit
<1>12. QED
  BY <1>3, <1>6, <1>10, <1>11, Arrives

\* Every request that arrives is ready for all its calls.
LEMMA RequestArrives ==
    ASSUME SharingInv, NEW r \in Requests, SharingRequest(r)
    PROVE  KeepsInv(r)
BY DeletionArrives, RemovalArrives, WishlistRequestArrives, SharingArrives,
   JoinGroupArrives, RegisterGroupArrives, RegisterWishlistArrives
   DEF SharingRequest

-----------------------------------------------------------------------------
(* A request makes its next call.                                           *)

\* The calls that show something a later call may rest on.
Showing == {"ownsGroup", "ownsList", "ownsThatList", "mayAddCollaborator", "settingsAllowed",
            "mayRemoveMember", "isMember", "notGroupOwner", "createList"}

\* x is a row of the wishlist q is about, and x.id names no membership but m's of
\* the group q is about.
RowRead(q, x) ==
    /\ x \in ListRow /\ x.link <= nextId
    /\ list[q.scope] # NoList /\ x.owner = list[q.scope].owner
IdRead(q, x, u) ==
    /\ x.id \in 1..nextId
    /\ \A m \in groupMember : m.id = x.id => m.group = q.scope /\ m.member = u

\* h is the next call of r, which is q.
Calls(r, q, h) == Pending(r) /\ q = req[r] /\ h = Head(q.todo)

\* The next call fits, may be made, and what it rests on has been shown.
LEMMA NextCall ==
    ASSUME SharingInv, NEW r \in Requests, NEW q, NEW h, Calls(r, q, h)
    PROVE  /\ CallFits(q, h) /\ HeadReady(q, h)
           /\ \A n : RestsOn(q, h, n) => Shown(q, n)
           /\ IsProgram(q.todo) /\ q.todo # <<>>
<1>1. q.todo # <<>> /\ IsProgram(q.todo) /\ Ready(q)
  BY DEF Calls, SharingInv, RequestsFit, RequestsOK
<1>2. 1 \in DOMAIN q.todo /\ h = q.todo[1]
  BY <1>1, ProgramTail DEF Calls
<1>3. CallFits(q, h) /\ HeadReady(q, h)
  BY <1>1, <1>2 DEF Ready, ProgramFits, Calls
<1>4. ASSUME NEW n, RestsOn(q, h, n) PROVE Shown(q, n)
  <2>1. Shown(q, n) \/ \E j \in 1..1 - 1 : n = Shows(q, q.todo[j])
    BY <1>1, <1>2, <1>4 DEF Ready, Founded
  <2>2. QED
    BY <2>1
<1>5. QED
  BY <1>1, <1>3, <1>4

\* The request that goes on about what it was about is ready when its call has
\* shown what it checks and has read what the next call needs.
LEMMA MovesOnReady ==
    ASSUME SharingInv, Grows, NEW r \in Requests, NEW q, NEW h, Calls(r, q, h), NEW x,
           OnlyMoves(r), Over(req'[r]) \/ GoesOn(r, q.scope, x),
           h.do \in Showing => Shown(q, Shows(q, h))',
           h.do = "readList" \/ NeedsRow(q.op, h) => RowRead(q, x)',
           h.do = "findMember" => IdRead(q, x, h.arg)'
    PROVE  Ready(req[r])'
<1>1. PICK p : p = req'[r]
  OBVIOUS
<1>2. CASE Over(p)
  BY <1>1, <1>2, OverIsReady
<1>3. CASE GoesOn(r, q.scope, x)
  <2>1. /\ q = req[r] /\ Pending(r) /\ RequestsFit /\ TablesFit /\ Ready(req[r])
        /\ h = Head(q.todo)
    BY DEF Calls, SharingInv
  <2>2. /\ p.op = q.op /\ p.caller = q.caller /\ p.scope = q.scope /\ p.found = x
    BY <1>1, <1>3, <2>1 DEF GoesOn, Holds
  <2>3. ASSUME NEW c, CallFits(q, c) PROVE CallFits(p, c)
    BY <2>2, <2>3 DEF CallFits
  <2>4. ASSUME NEW n, Shown(q, n) PROVE Shown(p, n)'
    <3>1. Shown(q, n)'
      BY <2>1, <2>4, ShownStays
    <3>2. QED
      BY <2>2, <3>1 DEF Shown
  <2>5. ASSUME NEW c, NEW n, RestsOn(p, c, n), n = Shows(q, h) PROVE Shown(p, n)'
    <3>0. n.do \in {"ownsGroup", "ownsList", "ownsThatList", "mayAddCollaborator",
                   "settingsAllowed", "mayRemoveMember", "isMember"}
      BY <2>5 DEF RestsOn, Call
    <3>1. h.do \in Showing
      BY <2>5, <3>0 DEF Shows, Showing
    <3>2. Shown(q, n)'
      BY <2>5, <3>1
    <3>3. QED
      BY <2>2, <3>2 DEF Shown
  <2>6. ASSUME NEW c, CallFits(p, c), Follows(q.op, h, c) PROVE HeadReady(p, c)'
    <3>1. ASSUME NeedsRow(p.op, c)
          PROVE  /\ p.found \in ListRow /\ p.found.link <= nextId'
                 /\ list'[p.scope] # NoList /\ p.found.owner = list'[p.scope].owner
      <4>1. h.do = "readList" \/ NeedsRow(q.op, h)
        BY <2>2, <2>6, <3>1 DEF Follows
      <4>2. QED
        BY <2>2, <4>1 DEF RowRead
    <3>2. ASSUME c.do = "dropMember"
          PROVE  /\ p.found.id \in 1..nextId'
                 /\ \A m \in groupMember' :
                       m.id = p.found.id => m.group = p.scope /\ m.member = c.arg
      <4>1. h.do = "findMember" /\ h.arg = c.arg
        BY <2>6, <3>2 DEF Follows, Call
      <4>2. QED
        BY <2>2, <4>1 DEF IdRead
    <3>3. QED
      BY <3>1, <3>2 DEF HeadReady
  <2>7. Ready(p)'
    BY <1>1, <1>3, <2>1, <2>3, <2>4, <2>5, <2>6, GoesOnReady
  <2>8. QED
    BY <1>1, <2>7
<1>4. QED
  BY <1>1, <1>2, <1>3

\* The row a request needs in memory next stays that of its wishlist.
LEMMA HeadRow ==
    ASSUME SharingInv, Grows, NEW r \in Requests, NEW q, NEW h, Calls(r, q, h),
           NeedsRow(q.op, h)
    PROVE  RowRead(q, q.found)'
<1>1. HeadReady(q, h)'
  BY NextCall, HeadStays DEF SharingInv
<1>2. QED
  BY <1>1 DEF HeadReady, RowRead

\* A call that shows and reads nothing.
LEMMA DoneIsReady ==
    ASSUME SharingInv, Grows, NEW r \in Requests, NEW q, NEW h, Calls(r, q, h), Done(r),
           h.do \notin Showing \cup {"readList", "findMember"}
    PROVE  OnlyMoves(r) /\ Ready(req[r])'
<1>1. RequestsFit /\ Pending(r) /\ TablesFit /\ q = req[r]
  BY DEF Calls, SharingInv
<1>2. OnlyMoves(r) /\ (Over(req'[r]) \/ GoesOn(r, q.scope, q.found))
  BY <1>1, DoneStep
<1>3. ASSUME NeedsRow(q.op, h) PROVE RowRead(q, q.found)'
  BY <1>3, HeadRow
<1>4. h.do \notin Showing /\ h.do # "readList" /\ h.do # "findMember"
  OBVIOUS
<1>5. Ready(req[r])'
  BY <1>2, <1>3, <1>4, MovesOnReady
<1>6. QED
  BY <1>2, <1>5

\* An answer.
LEMMA AnswerIsReady ==
    ASSUME SharingInv, NEW r \in Requests, NEW reply \in Replies, Answer(r, reply)
    PROVE  OnlyMoves(r) /\ Ready(req[r])'
<1>1. OnlyMoves(r) /\ Over(req'[r])
  BY AnswerStep DEF SharingInv
<1>2. PICK p : p = req'[r]
  OBVIOUS
<1>3. Ready(p)'
  BY <1>1, <1>2, OverIsReady
<1>4. QED
  BY <1>1, <1>2, <1>3

\* The call of a request, named.
LEMMA CallOf ==
    ASSUME SharingInv, NEW r \in Requests, Pending(r)
    PROVE  \E q, h : Calls(r, q, h)
BY DEF Calls

\* What a check that passes has shown.
LEMMA PassesShows ==
    ASSUME SharingInv, NEW r \in Requests, NEW q, NEW h, Calls(r, q, h), h.do \in Checks,
           h.do \in Showing, Passes(q, h)
    PROVE  Shown(q, Shows(q, h))
<1>1. /\ CallFits(q, h)
      /\ \A n : RestsOn(q, h, n) => Shown(q, n)
  BY NextCall
<1>2. q.caller \in Users
  BY <1>1 DEF CallFits, SharingCalls
<1>3. CASE h.do = "ownsGroup"
  BY <1>1, <1>2, <1>3 DEF Passes, Shows, Shown, GroupOwnedBy, CallFits, GroupCalls
<1>4. CASE h.do = "ownsList"
  BY <1>1, <1>2, <1>4 DEF Passes, Shows, Shown, VerifyUserOwnershipToWishlist, CallFits, ListCalls
<1>5. CASE h.do = "ownsThatList"
  BY <1>1, <1>2, <1>5 DEF Passes, Shows, Shown, VerifyUserOwnershipToWishlist, CallFits
<1>6. CASE h.do = "mayAddCollaborator"
  BY <1>1, <1>2, <1>6 DEF Passes, Shows, Shown, MayAddCollaborator,
       VerifyUserOwnershipToWishlist, CallFits, ListCalls
<1>7. CASE h.do = "settingsAllowed"
  BY <1>2, <1>7 DEF Passes, Shows, Shown
<1>8. CASE h.do = "mayRemoveMember"
  BY <1>1, <1>2, <1>8 DEF Passes, Shows, Shown, MayRemoveMember, GroupOwnedBy,
       CallFits, GroupCalls, NoGroup
<1>9. CASE h.do = "isMember"
  <2>1. VerifyUserMembershipToGroup(h.arg, q.scope) /\ q.scope \in Groups
    BY <1>1, <1>9 DEF Passes, CallFits, GroupCalls
  <2>2. group[q.scope] # NoGroup
    BY <2>1 DEF VerifyUserMembershipToGroup, SharingInv, MembersFit
  <2>3. QED
    BY <1>2, <1>9, <2>1, <2>2 DEF Shows, Shown
<1>10. CASE h.do = "notGroupOwner"
  <2>1. ~GroupOwnedBy(q.caller, q.scope) /\ q.scope \in Groups
    BY <1>1, <1>10 DEF Passes, CallFits, GroupCalls
  <2>2. RestsOn(q, h, Call("isMember", q.caller))
    BY <1>10 DEF RestsOn
  <2>3. group[q.scope] # NoGroup
    BY <1>1, <2>2 DEF Shown, Call
  <2>4. Shows(q, h).do = "mayRemoveMember" /\ Shows(q, h).arg = q.caller
    BY <1>10 DEF Shows, Call
  <2>5. QED
    BY <1>2, <2>1, <2>3, <2>4 DEF Shown, GroupOwnedBy
<1>11. QED
  BY <1>3, <1>4, <1>5, <1>6, <1>7, <1>8, <1>9, <1>10 DEF Showing, Checks

\* A step that leaves the tables alone takes nothing back.
LEMMA UnchangedGrows ==
    ASSUME SharingInv, UNCHANGED tables
    PROVE  Grows
BY DEF SharingInv, TablesFit, Grows, tables

\* Check: the request goes on, knowing what it checked, or is refused.
LEMMA CheckKeepsInv ==
    ASSUME SharingInv, NEW r \in Requests, Check(r)
    PROVE  KeepsInv(r)
<1>1. /\ Pending(r) /\ UNCHANGED tables /\ Head(req[r].todo).do \in Checks
      /\ req' = [req EXCEPT ![r] = IF Passes(req[r], Head(req[r].todo))
                                   THEN Advance(req[r]) ELSE Finished("refused")]
  BY DEF Check, Guarded, SharingInv, RequestsFit
<1>2. PICK q, h : Calls(r, q, h)
  BY <1>1, CallOf
<1>3. Grows
  BY <1>1, UnchangedGrows
<1>4. h.do \in Checks /\ q = req[r]
  BY <1>1, <1>2 DEF Calls
<1>5. CASE Passes(q, h)
  <2>1. Done(r)
    BY <1>1, <1>2, <1>5 DEF Done, Calls
  <2>2. OnlyMoves(r) /\ (Over(req'[r]) \/ GoesOn(r, q.scope, q.found))
    BY <1>1, <1>4, <2>1, DoneStep DEF SharingInv
  <2>3. ASSUME h.do \in Showing PROVE Shown(q, Shows(q, h))'
    <3>1. PICK n : n = Shows(q, h)
      OBVIOUS
    <3>2. Shown(q, n)
      BY <1>2, <1>4, <1>5, <2>3, <3>1, PassesShows
    <3>3. Shown(q, n)'
      BY <1>3, <3>2, ShownStays DEF SharingInv
    <3>4. QED
      BY <3>1, <3>3
  <2>4. h.do # "readList" /\ h.do # "findMember"
    BY <1>4 DEF Checks
  <2>5. ASSUME NeedsRow(q.op, h) PROVE RowRead(q, q.found)'
    BY <1>2, <1>3, <2>5, HeadRow
  <2>6. Ready(req[r])'
    BY <1>2, <1>3, <2>2, <2>3, <2>4, <2>5, MovesOnReady
  <2>7. QED
    BY <1>1, <2>2, <2>6, NoWriteKeepsInv DEF tables, SharingInv, TablesFit
<1>6. CASE ~Passes(q, h)
  <2>1. Answer(r, "refused")
    BY <1>1, <1>2, <1>6 DEF Answer, Calls
  <2>2. OnlyMoves(r) /\ Ready(req[r])'
    BY <2>1, AnswerIsReady DEF Replies
  <2>3. QED
    BY <1>1, <2>2, NoWriteKeepsInv DEF tables, SharingInv, TablesFit
<1>7. QED
  BY <1>5, <1>6

\* Fail: the request is answered with an error.
LEMMA FailKeepsInv ==
    ASSUME SharingInv, NEW r \in Requests, Fail(r)
    PROVE  KeepsInv(r)
<1>1. Answer(r, "error") /\ UNCHANGED tables
  BY DEF Fail, Abandon
<1>2. OnlyMoves(r) /\ Ready(req[r])'
  BY <1>1, AnswerIsReady DEF Replies
<1>3. QED
  BY <1>1, <1>2, NoWriteKeepsInv DEF tables, SharingInv, TablesFit

-----------------------------------------------------------------------------
(* The calls that read.                                                     *)

\* A call that reads x, which is what the next call needs.
LEMMA ReadKeepsInv ==
    ASSUME SharingInv, NEW r \in Requests, UNCHANGED tables, NEW q, NEW h, Calls(r, q, h),
           NEW x, Remember(r, x), h.do \notin Showing, ~NeedsRow(q.op, h),
           h.do = "readList" => RowRead(q, x),
           h.do = "findMember" => IdRead(q, x, h.arg)
    PROVE  KeepsInv(r)
<1>1. Grows
  BY UnchangedGrows
<1>2. RequestsFit /\ Pending(r) /\ q = req[r]
  BY DEF Calls, SharingInv
<1>3. OnlyMoves(r) /\ (Over(req'[r]) \/ GoesOn(r, q.scope, x))
  BY <1>2, RememberStep
<1>4. h.do = "readList" \/ NeedsRow(q.op, h) => RowRead(q, x)'
  BY DEF RowRead, tables
<1>5. h.do = "findMember" => IdRead(q, x, h.arg)'
  BY DEF IdRead, tables
<1>6. h.do \in Showing => Shown(q, Shows(q, h))'
  OBVIOUS
<1>7. Ready(req[r])'
  BY <1>1, <1>3, <1>4, <1>5, <1>6, MovesOnReady
<1>8. QED
  BY <1>3, <1>7, NoWriteKeepsInv DEF tables, SharingInv, TablesFit

\* A call that finds nothing, and refuses.
LEMMA RefusalKeepsInv ==
    ASSUME SharingInv, NEW r \in Requests, UNCHANGED tables, Answer(r, "refused")
    PROVE  KeepsInv(r)
<1>1. OnlyMoves(r) /\ Ready(req[r])'
  BY AnswerIsReady DEF Replies
<1>2. QED
  BY <1>1, NoWriteKeepsInv DEF tables, SharingInv, TablesFit

\* The membership that is found is the only one with its id.
LEMMA FindMemberKeepsInv ==
    ASSUME SharingInv, NEW r \in Requests, GetGroupMembershipByGroupIDAndMemberID(r)
    PROVE  KeepsInv(r)
<1>1. PICK rows : rows = {m \in groupMember : m.group = req[r].scope /\ m.member = Arg(r)}
  OBVIOUS
<1>2. /\ At(r, "findMember") /\ UNCHANGED tables
      /\ rows = {} => Answer(r, "refused")
      /\ rows # {} => \E m \in rows : Remember(r, [id |-> m.id])
  BY <1>1 DEF GetGroupMembershipByGroupIDAndMemberID
<1>3. PICK q, h : Calls(r, q, h)
  BY <1>2, CallOf DEF At
<1>4. q = req[r] /\ h = Head(req[r].todo) /\ h.do = "findMember" /\ h.arg = Arg(r)
  BY <1>2, <1>3 DEF At, Calls, Arg
<1>5. CASE rows # {}
  <2>1. PICK m \in rows : Remember(r, [id |-> m.id])
    BY <1>2, <1>5
  <2>2. PICK x : x = [id |-> m.id]
    OBVIOUS
  <2>3. m \in groupMember /\ m.group = q.scope /\ m.member = h.arg /\ x.id = m.id
    BY <1>1, <1>4, <2>1, <2>2
  <2>4. x.id \in 1..nextId
    BY <2>3 DEF SharingInv, TablesFit
  <2>5. IdRead(q, x, h.arg)
    BY <2>3, <2>4 DEF IdRead, SharingInv, MembersFit
  <2>6. h.do \notin Showing /\ ~NeedsRow(q.op, h) /\ h.do # "readList"
    BY <1>4 DEF Showing, NeedsRow
  <2>7. QED
    BY <1>2, <1>3, <2>1, <2>2, <2>5, <2>6, ReadKeepsInv
<1>6. CASE rows = {}
  BY <1>2, <1>6, RefusalKeepsInv
<1>7. QED
  BY <1>5, <1>6

\* A wishlist that is in force exists, and its row is read whole.
LEMMA ReadWishlistKeepsInv ==
    ASSUME SharingInv, NEW r \in Requests, ReadWishlist(r)
    PROVE  KeepsInv(r)
<1>1. /\ At(r, "readList") /\ UNCHANGED tables
      /\ list[req[r].scope].enabled => Remember(r, list[req[r].scope])
      /\ ~list[req[r].scope].enabled => Answer(r, "refused")
  BY DEF ReadWishlist, GetWishlist
<1>2. PICK q, h : Calls(r, q, h)
  BY <1>1, CallOf DEF At
<1>3. q = req[r] /\ h.do = "readList"
  BY <1>1, <1>2 DEF At, Calls
<1>4. CASE list[q.scope].enabled
  <2>1. PICK x : x = list[q.scope]
    OBVIOUS
  <2>2. q.scope \in Lists
    BY <1>2, <1>3, NextCall DEF CallFits, ListCalls
  <2>3. x # NoList /\ x \in ListRow /\ x.link <= nextId
    BY <1>4, <2>1, <2>2 DEF NoList, SharingInv, TablesFit
  <2>4. RowRead(q, x)
    BY <2>1, <2>3 DEF RowRead
  <2>5. h.do \notin Showing /\ ~NeedsRow(q.op, h) /\ h.do # "findMember"
    BY <1>3 DEF Showing, NeedsRow
  <2>6. Remember(r, x)
    BY <1>1, <1>3, <1>4, <2>1
  <2>7. QED
    BY <1>1, <1>2, <2>4, <2>5, <2>6, ReadKeepsInv
<1>5. CASE ~list[q.scope].enabled
  BY <1>1, <1>3, <1>5, RefusalKeepsInv
<1>6. QED
  BY <1>4, <1>5

\* What the other reads find is needed by no invariant.
LEMMA OtherReadKeepsInv ==
    ASSUME SharingInv, NEW r \in Requests,
           \/ ReadCollaborator(r) \/ GetMembershipIDForGroupToWishlist(r)
           \/ GetWishlistCollaboratorByUserIDAndWishlistID(r)
    PROVE  KeepsInv(r)
<1> DEFINE Reads == {"readCollaborator", "findLink", "findCollaborator"}
<1>1. /\ Pending(r) /\ Head(req[r].todo).do \in Reads
      /\ UNCHANGED tables
      /\ Answer(r, "refused") \/ \E x : Remember(r, x)
  <2>1. CASE ReadCollaborator(r)
    BY <2>1 DEF ReadCollaborator, At
  <2>2. CASE GetMembershipIDForGroupToWishlist(r)
    BY <2>2 DEF GetMembershipIDForGroupToWishlist, At
  <2>3. CASE GetWishlistCollaboratorByUserIDAndWishlistID(r)
    BY <2>3 DEF GetWishlistCollaboratorByUserIDAndWishlistID, At
  <2>4. QED
    BY <2>1, <2>2, <2>3
<1>2. PICK q, h : Calls(r, q, h)
  BY <1>1, CallOf
<1>3. h.do \in Reads
  BY <1>1, <1>2 DEF Calls
<1>4. h.do \notin Showing /\ ~NeedsRow(q.op, h) /\ h.do # "readList" /\ h.do # "findMember"
  BY <1>3 DEF Showing, NeedsRow
<1>5. ASSUME NEW x, Remember(r, x) PROVE KeepsInv(r)
  BY <1>1, <1>2, <1>4, <1>5, ReadKeepsInv
<1>6. QED
  BY <1>1, <1>5, RefusalKeepsInv

-----------------------------------------------------------------------------
(* The calls that write.                                                    *)

\* What a step has to keep.
LEMMA WriteKeepsInv ==
    ASSUME SharingInv, NEW r \in Requests, OnlyMoves(r) /\ Ready(req[r])', Grows, TablesFit',
           MembersFit', CollaboratorsFit', OwnerStaysMember', PublicNeverClaimable',
           GrantsItsOwn(r)
    PROVE  KeepsInv(r)
BY StepKeepsInv DEF KeepsInv

\* The rows there are have ids below any later fresh one.
LEMMA OldRowsFit ==
    ASSUME SharingInv, NEW n \in Nat, nextId <= n
    PROVE  /\ groupMember \subseteq [id: 1..n, group: Groups, member: Users]
           /\ listGroup \subseteq [id: 1..n, list: Lists, group: Groups]
           /\ collaborator \subseteq [id: 1..n, list: Lists, user: Users]
           /\ \A l \in Lists : list[l].link <= n
<1>1. nextId \in Nat /\ 1..nextId \subseteq 1..n
  BY DEF SharingInv, TablesFit
<1>2. ASSUME NEW l \in Lists PROVE list[l].link <= n
  <2>1. list[l].link \in Nat /\ list[l].link <= nextId
    BY DEF SharingInv, TablesFit, ListRow, NoList
  <2>2. QED
    BY <1>1, <2>1
<1>3. QED
  BY <1>1, <1>2 DEF SharingInv, TablesFit

\* CreateGroupWithMemberships: the creator owns the group and is its first member,
\* and the wishlists it links have been shown to be its creator's.
LEMMA CreateGroupKeepsInv ==
    ASSUME SharingInv, NEW r \in Requests, CreateGroupWithMemberships(r)
    PROVE  KeepsInv(r)
<1>1. PICK q, h : Calls(r, q, h)
  BY CallOf DEF CreateGroupWithMemberships, At
<1>2. q = req[r] /\ h.do = "createGroup" /\ h.arg = Arg(r)
  BY <1>1 DEF CreateGroupWithMemberships, At, Calls, Arg
<1>3. PICK ms, ls : ms = h.arg.members /\ ls = h.arg.links
  OBVIOUS
<1>4. CallFits(q, h) /\ \A n : RestsOn(q, h, n) => Shown(q, n)
  BY <1>1, NextCall
<1>5. /\ ms \in Seq(Users) /\ ls \in Seq(Lists) /\ q.caller \in Users
      /\ ms # <<>> /\ ms[1] = q.caller
  BY <1>2, <1>3, <1>4 DEF CallFits, SharingCalls
<1>6. PICK g \in Groups :
          /\ group[g] = NoGroup
          /\ group' = [group EXCEPT ![g] = [owner |-> q.caller, enabled |-> TRUE]]
          /\ groupMember' = groupMember \cup
               {[id |-> nextId + i, group |-> g, member |-> ms[i]] : i \in 1..Len(ms)}
          /\ listGroup' = listGroup \cup
               {[id |-> nextId + Len(ms) + i, list |-> ls[i], group |-> g] : i \in 1..Len(ls)}
          /\ nextId' = nextId + Len(ms) + Len(ls)
  BY <1>2, <1>3 DEF CreateGroupWithMemberships
<1>7. Done(r) /\ UNCHANGED <<user, list, collaborator>>
  BY DEF CreateGroupWithMemberships
<1>8. /\ nextId \in Nat /\ Len(ms) \in Nat \ {0} /\ Len(ls) \in Nat /\ nextId' \in Nat
      /\ nextId <= nextId'
      /\ DOMAIN ls = 1..Len(ls)
      /\ \A i \in 1..Len(ms) : ms[i] \in Users
      /\ \A i \in 1..Len(ls) : ls[i] \in Lists
  BY <1>5, <1>6, LenProperties, EmptySeq DEF SharingInv, TablesFit
<1>9. /\ group'[g] = [owner |-> q.caller, enabled |-> TRUE]
      /\ \A f \in Groups \ {g} : group'[f] = group[f]
      /\ group' \in [Groups -> GroupRow \cup {NoGroup}]
      /\ group'[g] # NoGroup
  BY <1>5, <1>6 DEF SharingInv, TablesFit, GroupRow, NoGroup
<1>10. \A m \in groupMember' \ groupMember :
          /\ m.id > nextId /\ m.group = g
          /\ m \in [id: 1..nextId', group: Groups, member: Users]
  <2>1. ASSUME NEW i \in 1..Len(ms)
        PROVE  /\ nextId + i > nextId /\ nextId + i \in 1..nextId'
    BY <1>6, <1>8
  <2>2. QED
    BY <1>6, <1>8, <2>1
<1>11. Grows
  BY <1>6, <1>7, <1>8, <1>9, <1>10 DEF Grows
<1>12. TablesFit'
  <2>1. listGroup' \subseteq [id: 1..nextId', list: Lists, group: Groups]
    <3>1. ASSUME NEW i \in 1..Len(ls) PROVE nextId + Len(ms) + i \in 1..nextId'
      BY <1>6, <1>8
    <3>2. listGroup \subseteq [id: 1..nextId', list: Lists, group: Groups]
      BY <1>8, OldRowsFit
    <3>3. QED
      BY <1>6, <1>8, <3>1, <3>2
  <2>2. groupMember' \subseteq [id: 1..nextId', group: Groups, member: Users]
    BY <1>8, <1>10, OldRowsFit
  <2>3. collaborator' \subseteq [id: 1..nextId', list: Lists, user: Users]
    BY <1>7, <1>8, OldRowsFit
  <2>4. \A l \in Lists : list'[l].link <= nextId'
    BY <1>7, <1>8, OldRowsFit
  <2>5. QED
    BY <1>7, <1>8, <1>9, <2>1, <2>2, <2>3, <2>4 DEF SharingInv, TablesFit
<1>13. MembersFit'
  <2>1. ASSUME NEW m \in groupMember', NEW n \in groupMember', m.id = n.id PROVE m = n
    <3>1. CASE m \in groupMember /\ n \in groupMember
      BY <2>1, <3>1 DEF SharingInv, MembersFit
    <3>2. ASSUME NEW o \in groupMember PROVE o.id \in Nat /\ o.id <= nextId
      BY <1>8 DEF SharingInv, TablesFit
    <3>3. CASE m \in groupMember /\ n \notin groupMember
      BY <1>8, <1>10, <2>1, <3>2, <3>3
    <3>4. CASE m \notin groupMember /\ n \in groupMember
      BY <1>8, <1>10, <2>1, <3>2, <3>4
    <3>5. CASE m \notin groupMember /\ n \notin groupMember
      <4>1. PICK i \in 1..Len(ms) : m = [id |-> nextId + i, group |-> g, member |-> ms[i]]
        BY <1>6, <2>1, <3>5
      <4>2. PICK j \in 1..Len(ms) : n = [id |-> nextId + j, group |-> g, member |-> ms[j]]
        BY <1>6, <2>1, <3>5
      <4>3. i = j
        BY <1>8, <2>1, <4>1, <4>2
      <4>4. QED
        BY <4>1, <4>2, <4>3
    <3>6. QED
      BY <3>1, <3>3, <3>4, <3>5
  <2>2. ASSUME NEW m \in groupMember' PROVE group'[m.group] # NoGroup
    <3>1. m \in groupMember => m.group \in Groups /\ group[m.group] # NoGroup
      BY DEF SharingInv, MembersFit, TablesFit
    <3>2. QED
      BY <1>6, <1>9, <1>10, <3>1
  <2>3. QED
    BY <2>1, <2>2 DEF MembersFit
<1>14. CollaboratorsFit' /\ PublicNeverClaimable'
  BY <1>7 DEF SharingInv, CollaboratorsFit, PublicNeverClaimable
<1>15. OwnerStaysMember'
  <2>1. \E m \in groupMember' : m.group = g /\ m.member = q.caller
    <3>1. 1 \in 1..Len(ms)
      BY <1>8
    <3>2. [id |-> nextId + 1, group |-> g, member |-> ms[1]] \in groupMember'
      BY <1>6, <3>1
    <3>3. QED
      BY <1>5, <3>2
  <2>2. ASSUME NEW f \in Groups, group'[f].enabled
        PROVE  \E m \in groupMember' : m.group = f /\ m.member = group'[f].owner
    BY <1>6, <1>9, <2>1, <2>2 DEF SharingInv, OwnerStaysMember, VerifyUserMembershipToGroup
  <2>3. QED
    BY <2>2 DEF OwnerStaysMember, VerifyUserMembershipToGroup
<1>16. GrantsItsOwn(r)
  <2>1. ASSUME NEW w \in listGroup' \ listGroup PROVE list'[w.list].owner = req[r].caller
    <3>1. PICK i \in 1..Len(ls) : w.list = ls[i]
      BY <1>6, <2>1
    <3>2. RestsOn(q, h, Call("ownsThatList", ls[i]))
      BY <1>2, <1>3, <1>8 DEF RestsOn
    <3>3. list[ls[i]].owner = q.caller
      BY <1>4, <3>2 DEF Shown, Call
    <3>4. QED
      BY <1>2, <1>7, <3>1, <3>3
  <2>2. QED
    BY <1>2, <1>7, <1>9, <1>10, <2>1 DEF GrantsItsOwn
<1>17. OnlyMoves(r) /\ Ready(req[r])'
  <2>1. h.do \notin Showing \cup {"readList", "findMember"}
    BY <1>2 DEF Showing
  <2>2. QED
    BY <1>1, <1>7, <1>11, <2>1, DoneIsReady
<1>18. QED
  BY <1>11, <1>12, <1>13, <1>14, <1>15, <1>16, <1>17, WriteKeepsInv

\* CreateGroupMembershipInDB: the owner of the group adds a member.
LEMMA AddMemberKeepsInv ==
    ASSUME SharingInv, NEW r \in Requests, CreateGroupMembershipInDB(r)
    PROVE  KeepsInv(r)
<1>1. PICK q, h : Calls(r, q, h)
  BY CallOf DEF CreateGroupMembershipInDB, At
<1>2. q = req[r] /\ h.do = "addMember" /\ h.arg = Arg(r)
  BY <1>1 DEF CreateGroupMembershipInDB, At, Calls, Arg
<1>3. CallFits(q, h) /\ \A n : RestsOn(q, h, n) => Shown(q, n)
  BY <1>1, NextCall
<1>4. q.scope \in Groups /\ h.arg \in Users
  BY <1>2, <1>3 DEF CallFits, GroupCalls
<1>5. group[q.scope].owner = q.caller /\ q.caller \in Users
  <2>1. RestsOn(q, h, Call("ownsGroup", None))
    BY <1>2 DEF RestsOn
  <2>2. QED
    BY <1>3, <2>1 DEF Shown, Call
<1>6. PICK m : m = [id |-> nextId + 1, group |-> q.scope, member |-> h.arg]
  OBVIOUS
<1>7. /\ groupMember' = groupMember \cup {m} /\ nextId' = nextId + 1 /\ Done(r)
      /\ UNCHANGED <<user, group, list, listGroup, collaborator>>
  BY <1>2, <1>6 DEF CreateGroupMembershipInDB
<1>8. nextId \in Nat /\ nextId' \in Nat /\ nextId <= nextId' /\ m.id > nextId
  BY <1>6, <1>7 DEF SharingInv, TablesFit
<1>9. Grows
  BY <1>7, <1>8 DEF Grows
<1>10. TablesFit'
  <2>1. m \in [id: 1..nextId', group: Groups, member: Users]
    <3>1. nextId + 1 \in 1..nextId'
      BY <1>7, <1>8
    <3>2. QED
      BY <1>4, <1>6, <3>1
  <2>2. /\ groupMember' \subseteq [id: 1..nextId', group: Groups, member: Users]
        /\ listGroup' \subseteq [id: 1..nextId', list: Lists, group: Groups]
        /\ collaborator' \subseteq [id: 1..nextId', list: Lists, user: Users]
        /\ \A l \in Lists : list'[l].link <= nextId'
    BY <1>7, <1>8, <2>1, OldRowsFit
  <2>3. QED
    BY <1>7, <1>8, <2>2 DEF SharingInv, TablesFit
<1>11. MembersFit'
  <2>1. \A o \in groupMember : o.id \in Nat /\ o.id <= nextId
    BY DEF SharingInv, TablesFit
  <2>2. group'[m.group] # NoGroup
    BY <1>5, <1>6, <1>7, SharingAssumption DEF NoGroup
  <2>3. \A o \in groupMember : o.id # m.id
    BY <1>8, <2>1
  <2>4. QED
    BY <1>7, <2>2, <2>3 DEF SharingInv, MembersFit
<1>12. CollaboratorsFit' /\ PublicNeverClaimable'
  BY <1>7 DEF SharingInv, CollaboratorsFit, PublicNeverClaimable
<1>13. OwnerStaysMember'
  BY <1>7 DEF SharingInv, OwnerStaysMember, VerifyUserMembershipToGroup
<1>14. GrantsItsOwn(r)
  BY <1>2, <1>5, <1>6, <1>7 DEF GrantsItsOwn
<1>15. h.do \notin Showing \cup {"readList", "findMember"}
  BY <1>2 DEF Showing
<1>16. OnlyMoves(r) /\ Ready(req[r])'
  BY <1>1, <1>7, <1>9, <1>15, DoneIsReady
<1>17. QED
  BY <1>9, <1>10, <1>11, <1>12, <1>13, <1>14, <1>16, WriteKeepsInv

\* DeleteGroupMembership: the row has been found, and is not the owner's: the owner
\* of the group is not who is taken out, and an id names one row.
LEMMA DropMemberKeepsInv ==
    ASSUME SharingInv, NEW r \in Requests, DeleteGroupMembership(r)
    PROVE  KeepsInv(r)
<1>1. PICK q, h : Calls(r, q, h)
  BY CallOf DEF DeleteGroupMembership, At
<1>2. q = req[r] /\ h.do = "dropMember"
  BY <1>1 DEF DeleteGroupMembership, At, Calls
<1>3. CallFits(q, h) /\ HeadReady(q, h) /\ \A n : RestsOn(q, h, n) => Shown(q, n)
  BY <1>1, NextCall
<1>4. \A m \in groupMember : m.id = q.found.id => m.group = q.scope /\ m.member = h.arg
  BY <1>2, <1>3 DEF HeadReady
<1>5. ~(group[q.scope].enabled /\ group[q.scope].owner = h.arg)
  <2>1. RestsOn(q, h, Call("mayRemoveMember", h.arg))
    BY <1>2 DEF RestsOn
  <2>2. QED
    BY <1>3, <2>1 DEF Shown, Call
<1>6. /\ groupMember' = {m \in groupMember : m.id # q.found.id} /\ Done(r)
      /\ UNCHANGED <<user, group, list, listGroup, collaborator, nextId>>
  BY <1>2 DEF DeleteGroupMembership
<1>7. Grows
  BY <1>6 DEF Grows, SharingInv, TablesFit
<1>8. TablesFit' /\ MembersFit' /\ CollaboratorsFit' /\ PublicNeverClaimable'
  BY <1>6 DEF SharingInv, TablesFit, MembersFit, CollaboratorsFit, PublicNeverClaimable
<1>9. OwnerStaysMember'
  <2>1. ASSUME NEW g \in Groups, group[g].enabled
        PROVE  \E m \in groupMember' : m.group = g /\ m.member = group[g].owner
    <3>1. PICK m \in groupMember : m.group = g /\ m.member = group[g].owner
      BY <2>1 DEF SharingInv, OwnerStaysMember, VerifyUserMembershipToGroup
    <3>2. m.id # q.found.id
      BY <1>4, <1>5, <2>1, <3>1
    <3>3. QED
      BY <1>6, <3>1, <3>2
  <2>2. QED
    BY <1>6, <2>1 DEF OwnerStaysMember, VerifyUserMembershipToGroup
<1>10. GrantsItsOwn(r)
  BY <1>6 DEF GrantsItsOwn
<1>11. h.do \notin Showing \cup {"readList", "findMember"}
  BY <1>2 DEF Showing
<1>12. OnlyMoves(r) /\ Ready(req[r])'
  BY <1>1, <1>6, <1>7, <1>11, DoneIsReady
<1>13. QED
  BY <1>7, <1>8, <1>9, <1>10, <1>12, WriteKeepsInv

\* DisableGroup: the group keeps its owner and its members.
LEMMA DisableGroupKeepsInv ==
    ASSUME SharingInv, NEW r \in Requests, DisableGroup(r)
    PROVE  KeepsInv(r)
<1>1. PICK q, h : Calls(r, q, h)
  BY CallOf DEF DisableGroup, At
<1>2. q = req[r] /\ h.do = "disableGroup"
  BY <1>1 DEF DisableGroup, At, Calls
<1>3. q.scope \in Groups
  BY <1>1, <1>2, NextCall DEF CallFits, GroupCalls
<1>4. PICK g \in Groups : g = q.scope
  BY <1>3
<1>5. /\ group' = [group EXCEPT ![g].enabled = FALSE] /\ Done(r)
      /\ UNCHANGED <<user, groupMember, list, listGroup, collaborator, nextId>>
  BY <1>2, <1>4 DEF DisableGroup
<1>6. PICK y : y = [group[g] EXCEPT !.enabled = FALSE]
  OBVIOUS
<1>7. /\ y \in GroupRow \cup {NoGroup} /\ ~y.enabled /\ y.owner = group[g].owner
      /\ group[g] # NoGroup => y # NoGroup
  <2>1. PICK z \in GroupRow \cup {NoGroup} : z = group[g]
    BY DEF SharingInv, TablesFit
  <2>2. y = [z EXCEPT !.enabled = FALSE]
    BY <1>6, <2>1
  <2>3. CASE z \in GroupRow
    <3>1. y \in GroupRow /\ ~y.enabled /\ y.owner = z.owner /\ y.owner \in Users
      BY <2>2, <2>3 DEF GroupRow
    <3>2. y # NoGroup
      BY <3>1, SharingAssumption DEF NoGroup
    <3>3. QED
      BY <2>1, <3>1, <3>2
  <2>4. CASE z = NoGroup
    <3>1. y = NoGroup /\ ~y.enabled /\ y.owner = z.owner
      BY <2>2, <2>4 DEF NoGroup
    <3>2. QED
      BY <2>1, <2>4, <3>1
  <2>5. QED
    BY <2>1, <2>3, <2>4
<1>8. group'[g] = y /\ \A f \in Groups \ {g} : group'[f] = group[f]
  BY <1>5, <1>6 DEF SharingInv, TablesFit
<1>9. group' \in [Groups -> GroupRow \cup {NoGroup}]
  <2>1. group' = [group EXCEPT ![g] = y]
    BY <1>5, <1>6
  <2>2. QED
    BY <1>7, <2>1 DEF SharingInv, TablesFit
<1>10. Grows
  <2>1. nextId' \in Nat /\ nextId <= nextId'
    BY <1>5 DEF SharingInv, TablesFit
  <2>2. ASSUME NEW f \in Groups, group[f] # NoGroup
        PROVE  /\ group'[f] # NoGroup /\ group'[f].owner = group[f].owner
               /\ group'[f].enabled => group[f].enabled
    BY <1>7, <1>8, <2>2
  <2>3. QED
    BY <1>5, <2>1, <2>2 DEF Grows
<1>11. TablesFit' /\ CollaboratorsFit' /\ PublicNeverClaimable'
  BY <1>5, <1>9 DEF SharingInv, TablesFit, CollaboratorsFit, PublicNeverClaimable
<1>12. MembersFit'
  BY <1>5, <1>7, <1>8 DEF SharingInv, TablesFit, MembersFit
<1>13. OwnerStaysMember'
  BY <1>5, <1>7, <1>8 DEF SharingInv, OwnerStaysMember, VerifyUserMembershipToGroup
<1>14. GrantsItsOwn(r)
  BY <1>5 DEF GrantsItsOwn
<1>15. h.do \notin Showing \cup {"readList", "findMember"}
  BY <1>2 DEF Showing
<1>16. OnlyMoves(r) /\ Ready(req[r])'
  BY <1>1, <1>5, <1>10, <1>15, DoneIsReady
<1>17. QED
  BY <1>10, <1>11, <1>12, <1>13, <1>14, <1>16, WriteKeepsInv

\* A step that changes one wishlist, which keeps its owner, is not both public and
\* claimable and is collaborated on by no owner.
LEMMA ListWriteKeepsInv ==
    ASSUME SharingInv, NEW r \in Requests, OnlyMoves(r),
           UNCHANGED <<user, group, groupMember, listGroup, collaborator>>,
           nextId' \in Nat, nextId <= nextId', NEW l \in Lists, NEW y,
           list' = [list EXCEPT ![l] = y], y \in ListRow \cup {NoList}, y.link <= nextId',
           ~(y.public /\ y.claimable),
           list[l] # NoList => y # NoList /\ y.owner = list[l].owner
    PROVE  Grows /\ (Ready(req[r])' => KeepsInv(r))
<1>1. /\ list'[l] = y /\ \A k \in Lists \ {l} : list'[k] = list[k]
      /\ list' \in [Lists -> ListRow \cup {NoList}]
  BY DEF SharingInv, TablesFit
<1>2. Grows
  BY <1>1 DEF Grows
<1>3. TablesFit'
  <2>1. /\ groupMember' \subseteq [id: 1..nextId', group: Groups, member: Users]
        /\ listGroup' \subseteq [id: 1..nextId', list: Lists, group: Groups]
        /\ collaborator' \subseteq [id: 1..nextId', list: Lists, user: Users]
        /\ \A k \in Lists : list'[k].link <= nextId'
    BY <1>1, OldRowsFit
  <2>2. QED
    BY <1>1, <2>1 DEF SharingInv, TablesFit
<1>4. MembersFit' /\ OwnerStaysMember'
  BY DEF SharingInv, MembersFit, OwnerStaysMember, VerifyUserMembershipToGroup
<1>5. CollaboratorsFit'
  BY <1>1 DEF SharingInv, TablesFit, CollaboratorsFit
<1>6. PublicNeverClaimable'
  BY <1>1 DEF SharingInv, PublicNeverClaimable
<1>7. GrantsItsOwn(r)
  BY DEF GrantsItsOwn
<1>8. QED
  BY <1>2, <1>3, <1>4, <1>5, <1>6, <1>7, WriteKeepsInv

\* DisableWishlist: the row stays, with its owner.
LEMMA DisableWishlistKeepsInv ==
    ASSUME SharingInv, NEW r \in Requests, DisableWishlist(r)
    PROVE  KeepsInv(r)
<1>1. PICK q, h : Calls(r, q, h)
  BY CallOf DEF DisableWishlist, At
<1>2. q = req[r] /\ h.do = "disableList" /\ Done(r) /\ Pending(r)
  BY <1>1 DEF DisableWishlist, At, Calls
<1>3. q.scope \in Lists
  BY <1>1, <1>2, NextCall DEF CallFits, ListCalls
<1>4. PICK l \in Lists : l = q.scope
  BY <1>3
<1>5. PICK y : y = [list[l] EXCEPT !.enabled = FALSE]
  OBVIOUS
<1>6. /\ list' = [list EXCEPT ![l] = y]
      /\ UNCHANGED <<user, group, groupMember, listGroup, collaborator, nextId>>
  BY <1>2, <1>4, <1>5 DEF DisableWishlist
<1>7. list[l] \in ListRow \cup {NoList} /\ list[l].link <= nextId /\ nextId \in Nat
      /\ ~(list[l].public /\ list[l].claimable)
  BY DEF SharingInv, TablesFit, PublicNeverClaimable
<1>8. /\ y.owner = list[l].owner /\ y.link = list[l].link
      /\ y.public = list[l].public /\ y.claimable = list[l].claimable
      /\ y \in ListRow \cup {NoList}
      /\ list[l] # NoList => y # NoList
  <2>1. PICK z \in ListRow \cup {NoList} : z = list[l]
    BY <1>7
  <2>2. y = [z EXCEPT !.enabled = FALSE]
    BY <1>5, <2>1
  <2>3. CASE z \in ListRow
    <3>1. /\ y \in ListRow /\ y.owner = z.owner /\ y.owner \in Users
          /\ y.link = z.link /\ y.public = z.public /\ y.claimable = z.claimable
      BY <2>2, <2>3 DEF ListRow
    <3>2. y # NoList
      BY <3>1, SharingAssumption DEF NoList
    <3>3. QED
      BY <2>1, <3>1, <3>2
  <2>4. CASE z = NoList
    <3>1. /\ y = NoList /\ y.owner = z.owner
          /\ y.link = z.link /\ y.public = z.public /\ y.claimable = z.claimable
      BY <2>2, <2>4 DEF NoList
    <3>2. QED
      BY <2>1, <2>4, <3>1
  <2>5. QED
    BY <2>1, <2>3, <2>4
<1>10. OnlyMoves(r)
  BY <1>2, DoneStep DEF SharingInv
<1>11. Grows /\ (Ready(req[r])' => KeepsInv(r))
  <2>1. nextId' \in Nat /\ nextId <= nextId' /\ y.link <= nextId' /\ ~(y.public /\ y.claimable)
    BY <1>6, <1>7, <1>8
  <2>2. QED
    BY <1>6, <1>8, <1>10, <2>1, ListWriteKeepsInv
<1>12. h.do \notin Showing \cup {"readList", "findMember"}
  BY <1>2 DEF Showing
<1>13. QED
  BY <1>1, <1>2, <1>11, <1>12, DoneIsReady

\* UpdateWishlistInDB: the row that was read is the wishlist's own, whatever was
\* written in between, and the settings it gets are allowed together.
LEMMA SaveListKeepsInv ==
    ASSUME SharingInv, NEW r \in Requests, UpdateWishlistInDB(r)
    PROVE  KeepsInv(r)
<1>1. PICK q, h : Calls(r, q, h)
  BY CallOf DEF UpdateWishlistInDB, At
<1>2. q = req[r] /\ h.do = "saveList" /\ h.arg = Arg(r) /\ Done(r) /\ Pending(r)
  BY <1>1 DEF UpdateWishlistInDB, At, Calls, Arg
<1>3. CallFits(q, h) /\ HeadReady(q, h) /\ \A n : RestsOn(q, h, n) => Shown(q, n)
  BY <1>1, NextCall
<1>4. q.scope \in Lists /\ h.arg \in Settings
  BY <1>2, <1>3 DEF CallFits, ListCalls
<1>5. /\ q.found \in ListRow /\ q.found.link <= nextId
      /\ list[q.scope] # NoList /\ q.found.owner = list[q.scope].owner
  BY <1>2, <1>3 DEF HeadReady, NeedsRow
<1>6. ~(h.arg.public /\ h.arg.claimable)
  <2>1. RestsOn(q, h, Call("settingsAllowed", h.arg))
    BY <1>2 DEF RestsOn
  <2>2. QED
    BY <1>3, <2>1 DEF Shown, Call, SettingsAllowed
<1>7. PICK l \in Lists : l = q.scope
  BY <1>4
<1>8. PICK y : y = Edited(q.found, h.arg, nextId + 1)
  OBVIOUS
<1>9. /\ list' = [list EXCEPT ![l] = y] /\ nextId' = nextId + 1
      /\ UNCHANGED <<user, group, groupMember, listGroup, collaborator>>
  BY <1>2, <1>7, <1>8 DEF UpdateWishlistInDB, SavedRow
<1>10. nextId \in Nat /\ nextId' \in Nat /\ nextId <= nextId'
  BY <1>9 DEF SharingInv, TablesFit
<1>11. /\ y.owner = q.found.owner /\ y.public = h.arg.public /\ y.claimable = h.arg.claimable
       /\ y.link \in {q.found.link, nextId + 1} /\ y \in ListRow
  <2>1. PICK k : k = IF h.arg.public /\ ~q.found.public THEN nextId + 1 ELSE q.found.link
    OBVIOUS
  <2>2. y = [q.found EXCEPT !.claimable = h.arg.claimable, !.public = h.arg.public, !.link = k]
    BY <1>8, <2>1 DEF Edited
  <2>3. k \in {q.found.link, nextId + 1} /\ k \in Nat
    BY <1>5, <1>10, <2>1 DEF ListRow
  <2>4. QED
    BY <1>4, <1>5, <2>2, <2>3 DEF ListRow, Settings
<1>12. y.link <= nextId'
  BY <1>5, <1>9, <1>10, <1>11 DEF ListRow
<1>13. y # NoList /\ y.owner = list[l].owner /\ ~(y.public /\ y.claimable)
  BY <1>5, <1>6, <1>7, <1>11, SharingAssumption DEF ListRow, NoList
<1>14. OnlyMoves(r)
  BY <1>2, DoneStep DEF SharingInv
<1>15. Grows /\ (Ready(req[r])' => KeepsInv(r))
  BY <1>9, <1>10, <1>11, <1>12, <1>13, <1>14, ListWriteKeepsInv
<1>16. h.do \notin Showing \cup {"readList", "findMember"}
  BY <1>2 DEF Showing
<1>17. QED
  BY <1>1, <1>2, <1>15, <1>16, DoneIsReady

\* CreateWishlistInDB: the request goes on about the wishlist it has created.
LEMMA CreateListKeepsInv ==
    ASSUME SharingInv, NEW r \in Requests, CreateWishlistInDB(r)
    PROVE  KeepsInv(r)
<1>1. PICK q, h : Calls(r, q, h)
  BY CallOf DEF CreateWishlistInDB, At
<1>2. q = req[r] /\ h.do = "createList" /\ h.arg = Arg(r) /\ Pending(r) /\ h = Head(q.todo)
  BY <1>1 DEF CreateWishlistInDB, At, Calls, Arg
<1>3. CallFits(q, h) /\ \A n : RestsOn(q, h, n) => Shown(q, n)
  BY <1>1, NextCall
<1>4. q.op = "RegisterWishlist" /\ q.caller \in Users /\ h.arg \in Settings
  BY <1>2, <1>3 DEF CallFits, SharingCalls
<1>5. ~(h.arg.public /\ h.arg.claimable)
  <2>1. RestsOn(q, h, Call("settingsAllowed", h.arg))
    BY <1>2 DEF RestsOn
  <2>2. QED
    BY <1>3, <2>1 DEF Shown, Call, SettingsAllowed
<1>6. PICK l \in Lists :
        /\ list[l] = NoList
        /\ list' = [list EXCEPT ![l] =
                [owner |-> q.caller, enabled |-> TRUE,
                 claimable |-> h.arg.claimable, public |-> h.arg.public,
                 link |-> nextId + 1]]
        /\ req' = [req EXCEPT ![r] = Advance([req[r] EXCEPT !.scope = l])]
  BY <1>2 DEF CreateWishlistInDB, SharingInv, RequestsFit
<1>7. PICK y : y = [owner |-> q.caller, enabled |-> TRUE, claimable |-> h.arg.claimable,
                    public |-> h.arg.public, link |-> nextId + 1]
  OBVIOUS
<1>8. /\ list' = [list EXCEPT ![l] = y] /\ nextId' = nextId + 1
      /\ UNCHANGED <<user, group, groupMember, listGroup, collaborator>>
  BY <1>6, <1>7 DEF CreateWishlistInDB
<1>9. nextId \in Nat /\ nextId' \in Nat /\ nextId <= nextId'
  BY <1>8 DEF SharingInv, TablesFit
<1>10. y \in ListRow /\ y.link <= nextId' /\ ~(y.public /\ y.claimable) /\ y.owner = q.caller
  BY <1>4, <1>5, <1>7, <1>8, <1>9 DEF ListRow, Settings
<1>11. OnlyMoves(r) /\ (Over(req'[r]) \/ GoesOn(r, l, q.found))
  <2>1. [req[r] EXCEPT !.scope = l] = [req[r] EXCEPT !.scope = l, !.found = req[r].found]
    BY DEF SharingInv, RequestsFit, IsRequest, RequestFields
  <2>2. QED
    BY <1>2, <1>6, <2>1, AdvanceStep DEF SharingInv
<1>12. Grows /\ (Ready(req[r])' => KeepsInv(r))
  BY <1>6, <1>8, <1>9, <1>10, <1>11, ListWriteKeepsInv
<1>13. PICK p : p = req'[r]
  OBVIOUS
<1>14. CASE Over(p)
  <2>1. Ready(p)'
    BY <1>14, OverIsReady
  <2>2. QED
    BY <1>12, <1>13, <2>1
<1>15. CASE GoesOn(r, l, q.found)
  <2>1. p.op = q.op /\ p.caller = q.caller /\ p.scope = l
    BY <1>2, <1>13, <1>15 DEF GoesOn, Holds
  <2>2. ASSUME NEW c, CallFits(p, c)
        PROVE  c.do \in {"callerIn", "settingsAllowed", "createList", "addLink"}
    BY <1>4, <2>1, <2>2 DEF CallFits
  <2>3. ASSUME NEW c, CallFits(q, c) PROVE CallFits(p, c)
    <3>1. c.do \in {"callerIn", "settingsAllowed", "createList", "addLink"}
      BY <1>4, <2>3 DEF CallFits
    <3>2. c.do \notin GroupCalls /\ c.do \notin ListCalls
      BY <3>1 DEF GroupCalls, ListCalls
    <3>3. QED
      BY <1>4, <2>1, <2>3, <3>2 DEF CallFits
  <2>4. ASSUME NEW c, NEW n, CallFits(p, c), RestsOn(p, c, n)
        PROVE  /\ Shown(q, n) => Shown(p, n)'
               /\ n = Shows(q, h) => Shown(p, n)'
    <3>1. n = Call("ownsList", None) \/ n = Call("settingsAllowed", c.arg)
      BY <2>2, <2>4 DEF RestsOn
    <3>2. CASE n = Call("ownsList", None)
      <4>1. list'[l].owner = p.caller
        BY <1>8, <1>10, <2>1 DEF SharingInv, TablesFit
      <4>2. QED
        BY <1>4, <2>1, <3>2, <4>1 DEF Shown, Call
    <3>3. CASE n = Call("settingsAllowed", c.arg)
      <4>1. Shown(q, n) => Shown(p, n)'
        BY <1>4, <2>1, <3>3 DEF Shown, Call
      <4>2. n # Shows(q, h)
        BY <1>2, <3>3 DEF Shows, Call
      <4>3. QED
        BY <4>1, <4>2
    <3>4. QED
      BY <3>1, <3>2, <3>3
  <2>5. ASSUME NEW c, CallFits(p, c) PROVE HeadReady(p, c)'
    BY <1>4, <2>1, <2>2, <2>5 DEF HeadReady, NeedsRow
  <2>6. RequestsFit /\ TablesFit /\ Ready(req[r])
    BY DEF SharingInv
  <2>7. Ready(p)'
    BY <1>2, <1>11, <1>12, <1>13, <1>15, <2>3, <2>4, <2>5, <2>6, GoesOnReady
  <2>8. QED
    BY <1>12, <1>13, <2>7
<1>16. QED
  BY <1>11, <1>13, <1>14, <1>15

\* CreateWishlistMembershipInDB: a wishlist of the caller's is shared with a group.
LEMMA AddLinkKeepsInv ==
    ASSUME SharingInv, NEW r \in Requests, CreateWishlistMembershipInDB(r)
    PROVE  KeepsInv(r)
<1>1. PICK q, h : Calls(r, q, h)
  BY CallOf DEF CreateWishlistMembershipInDB, At
<1>2. q = req[r] /\ h.do \in {"addLink", "addListToScope"} /\ h.arg = Arg(r)
  BY <1>1 DEF CreateWishlistMembershipInDB, At, Calls, Arg
<1>3. CallFits(q, h) /\ \A n : RestsOn(q, h, n) => Shown(q, n)
  BY <1>1, NextCall
<1>4. PICK l \in Lists, g \in Groups :
          /\ list[l].owner = q.caller
          /\ listGroup' = listGroup \cup {[id |-> nextId + 1, list |-> l, group |-> g]}
  <2>1. CASE At(r, "addLink")
    <3>1. h.do = "addLink"
      BY <1>1, <2>1 DEF At, Calls
    <3>2. listGroup' = listGroup \cup {[id |-> nextId + 1, list |-> q.scope, group |-> h.arg]}
      BY <1>1, <1>2, <2>1, <3>1 DEF CreateWishlistMembershipInDB, At, Calls
    <3>3. RestsOn(q, h, Call("ownsList", None))
      BY <3>1 DEF RestsOn
    <3>4. q.scope \in Lists /\ list[q.scope].owner = q.caller
      BY <1>3, <3>3 DEF Shown, Call
    <3>5. h.arg \in Groups
      BY <1>3, <3>1 DEF CallFits
    <3>6. QED
      BY <3>2, <3>4, <3>5
  <2>2. CASE At(r, "addListToScope")
    <3>1. h.do = "addListToScope"
      BY <1>1, <2>2 DEF At, Calls
    <3>2. listGroup' = listGroup \cup {[id |-> nextId + 1, list |-> h.arg, group |-> q.scope]}
      BY <1>1, <1>2, <2>2, <3>1 DEF CreateWishlistMembershipInDB, At, Calls
    <3>3. RestsOn(q, h, Call("ownsThatList", h.arg))
      BY <3>1 DEF RestsOn
    <3>4. h.arg \in Lists /\ list[h.arg].owner = q.caller
      BY <1>3, <3>3 DEF Shown, Call
    <3>5. q.scope \in Groups
      BY <1>3, <3>1 DEF CallFits, GroupCalls
    <3>6. QED
      BY <3>2, <3>4, <3>5
  <2>3. QED
    BY <2>1, <2>2 DEF CreateWishlistMembershipInDB
<1>5. PICK w : w = [id |-> nextId + 1, list |-> l, group |-> g]
  OBVIOUS
<1>6. /\ listGroup' = listGroup \cup {w} /\ nextId' = nextId + 1 /\ Done(r)
      /\ UNCHANGED <<user, group, groupMember, list, collaborator>>
  BY <1>4, <1>5 DEF CreateWishlistMembershipInDB
<1>7. nextId \in Nat /\ nextId' \in Nat /\ nextId <= nextId' /\ nextId + 1 \in 1..nextId'
  BY <1>6 DEF SharingInv, TablesFit
<1>8. Grows
  BY <1>6, <1>7 DEF Grows
<1>9. TablesFit'
  <2>1. w \in [id: 1..nextId', list: Lists, group: Groups]
    BY <1>5, <1>7
  <2>2. /\ groupMember' \subseteq [id: 1..nextId', group: Groups, member: Users]
        /\ listGroup' \subseteq [id: 1..nextId', list: Lists, group: Groups]
        /\ collaborator' \subseteq [id: 1..nextId', list: Lists, user: Users]
        /\ \A k \in Lists : list'[k].link <= nextId'
    BY <1>6, <1>7, <2>1, OldRowsFit
  <2>3. QED
    BY <1>6, <1>7, <2>2 DEF SharingInv, TablesFit
<1>10. MembersFit' /\ CollaboratorsFit' /\ OwnerStaysMember' /\ PublicNeverClaimable'
  BY <1>6 DEF SharingInv, MembersFit, CollaboratorsFit, OwnerStaysMember,
       PublicNeverClaimable, VerifyUserMembershipToGroup
<1>11. GrantsItsOwn(r)
  BY <1>2, <1>4, <1>5, <1>6 DEF GrantsItsOwn
<1>12. h.do \notin Showing \cup {"readList", "findMember"}
  BY <1>2 DEF Showing
<1>13. OnlyMoves(r) /\ Ready(req[r])'
  BY <1>1, <1>6, <1>8, <1>12, DoneIsReady
<1>14. QED
  BY <1>8, <1>9, <1>10, <1>11, <1>13, WriteKeepsInv

\* CreateWishlistCollaboratorInDB: the owner appoints someone else.
LEMMA AddCollaboratorKeepsInv ==
    ASSUME SharingInv, NEW r \in Requests, CreateWishlistCollaboratorInDB(r)
    PROVE  KeepsInv(r)
<1>1. PICK q, h : Calls(r, q, h)
  BY CallOf DEF CreateWishlistCollaboratorInDB, At
<1>2. q = req[r] /\ h.do = "addCollaborator" /\ h.arg = Arg(r)
  BY <1>1 DEF CreateWishlistCollaboratorInDB, At, Calls, Arg
<1>3. CallFits(q, h) /\ \A n : RestsOn(q, h, n) => Shown(q, n)
  BY <1>1, NextCall
<1>4. q.scope \in Lists /\ h.arg \in Users
  BY <1>2, <1>3 DEF CallFits, ListCalls
<1>5. list[q.scope].owner = q.caller /\ h.arg # q.caller /\ q.caller \in Users
  <2>1. RestsOn(q, h, Call("mayAddCollaborator", h.arg))
    BY <1>2 DEF RestsOn
  <2>2. QED
    BY <1>3, <2>1 DEF Shown, Call
<1>6. PICK c : c = [id |-> nextId + 1, list |-> q.scope, user |-> h.arg]
  OBVIOUS
<1>7. /\ collaborator' = collaborator \cup {c} /\ nextId' = nextId + 1 /\ Done(r)
      /\ UNCHANGED <<user, group, groupMember, list, listGroup>>
  BY <1>2, <1>6 DEF CreateWishlistCollaboratorInDB
<1>8. nextId \in Nat /\ nextId' \in Nat /\ nextId <= nextId' /\ nextId + 1 \in 1..nextId'
  BY <1>7 DEF SharingInv, TablesFit
<1>9. Grows
  BY <1>7, <1>8 DEF Grows
<1>10. TablesFit'
  <2>1. c \in [id: 1..nextId', list: Lists, user: Users]
    BY <1>4, <1>6, <1>8
  <2>2. /\ groupMember' \subseteq [id: 1..nextId', group: Groups, member: Users]
        /\ listGroup' \subseteq [id: 1..nextId', list: Lists, group: Groups]
        /\ collaborator' \subseteq [id: 1..nextId', list: Lists, user: Users]
        /\ \A k \in Lists : list'[k].link <= nextId'
    BY <1>7, <1>8, <2>1, OldRowsFit
  <2>3. QED
    BY <1>7, <1>8, <2>2 DEF SharingInv, TablesFit
<1>11. CollaboratorsFit'
  <2>1. list[q.scope] # NoList
    BY <1>5, SharingAssumption DEF NoList
  <2>2. c.list = q.scope /\ c.user = h.arg
    BY <1>6
  <2>3. QED
    BY <1>5, <1>7, <2>1, <2>2 DEF SharingInv, CollaboratorsFit
<1>12. MembersFit' /\ OwnerStaysMember' /\ PublicNeverClaimable'
  BY <1>7 DEF SharingInv, MembersFit, OwnerStaysMember,
       PublicNeverClaimable, VerifyUserMembershipToGroup
<1>13. GrantsItsOwn(r)
  BY <1>2, <1>5, <1>6, <1>7 DEF GrantsItsOwn
<1>14. h.do \notin Showing \cup {"readList", "findMember"}
  BY <1>2 DEF Showing
<1>15. OnlyMoves(r) /\ Ready(req[r])'
  BY <1>1, <1>7, <1>9, <1>14, DoneIsReady
<1>16. QED
  BY <1>9, <1>10, <1>11, <1>12, <1>13, <1>15, WriteKeepsInv

\* A link or a collaborator is taken away, or an account is disabled.
LEMMA RevocationKeepsInv ==
    ASSUME SharingInv, NEW r \in Requests,
           \/ DeleteWishlistMembership(r) \/ DisableUser(r)
           \/ DeleteWishlistCollaboratorByWishlistCollaboratorID(r)
    PROVE  KeepsInv(r)
<1> DEFINE Revocations == {"dropLink", "dropCollaborator", "disableUser"}
<1>1. /\ Pending(r) /\ Head(req[r].todo).do \in Revocations
      /\ Head(req[r].todo).do = "disableUser" =>
            user' = [user EXCEPT ![Head(req[r].todo).arg] = FALSE]
      /\ Head(req[r].todo).do # "disableUser" => user' = user
      /\ listGroup' \subseteq listGroup /\ collaborator' \subseteq collaborator
      /\ UNCHANGED <<group, groupMember, list, nextId>>
      /\ Done(r) \/ Answer(r, "refused")
  <2>1. CASE DeleteWishlistMembership(r)
    BY <2>1 DEF DeleteWishlistMembership, At
  <2>2. CASE DeleteWishlistCollaboratorByWishlistCollaboratorID(r)
    BY <2>2 DEF DeleteWishlistCollaboratorByWishlistCollaboratorID, At
  <2>3. CASE DisableUser(r)
    BY <2>3 DEF DisableUser, At, Arg
  <2>4. QED
    BY <2>1, <2>2, <2>3
<1>2. PICK q, h : Calls(r, q, h)
  BY <1>1, CallOf
<1>3. h = Head(req[r].todo) /\ h.do \in Revocations
  BY <1>1, <1>2 DEF Calls
<1>4. user' \in [Users -> BOOLEAN]
  BY <1>1, <1>3 DEF SharingInv, TablesFit
<1>5. Grows
  BY <1>1 DEF Grows, SharingInv, TablesFit
<1>6. TablesFit' /\ MembersFit' /\ CollaboratorsFit' /\ OwnerStaysMember' /\ PublicNeverClaimable'
  BY <1>1, <1>4 DEF SharingInv, TablesFit, MembersFit, CollaboratorsFit, OwnerStaysMember,
       PublicNeverClaimable, VerifyUserMembershipToGroup
<1>7. GrantsItsOwn(r)
  BY <1>1 DEF GrantsItsOwn
<1>8. h.do \notin Showing \cup {"readList", "findMember"}
  BY <1>3 DEF Showing
<1>9. OnlyMoves(r) /\ Ready(req[r])'
  <2>1. CASE Done(r)
    BY <1>2, <1>5, <1>8, <2>1, DoneIsReady
  <2>2. CASE Answer(r, "refused")
    BY <2>2, AnswerIsReady DEF Replies
  <2>3. QED
    BY <1>1, <2>1, <2>2
<1>10. QED
  BY <1>5, <1>6, <1>7, <1>9, WriteKeepsInv

-----------------------------------------------------------------------------
(* The theorems.                                                            *)

\* Every step of a request keeps the invariant.
LEMMA StepsKeepInv ==
    ASSUME SharingInv, NEW r \in Requests, SharingRequest(r) \/ SharingStep(r)
    PROVE  KeepsInv(r)
BY RequestArrives, CheckKeepsInv, FailKeepsInv, CreateGroupKeepsInv, AddMemberKeepsInv,
   FindMemberKeepsInv, DropMemberKeepsInv, DisableGroupKeepsInv, CreateListKeepsInv,
   DisableWishlistKeepsInv, ReadWishlistKeepsInv, OtherReadKeepsInv, SaveListKeepsInv,
   AddLinkKeepsInv, AddCollaboratorKeepsInv, RevocationKeepsInv
   DEF SharingStep

\* The database the server starts with and no request.
LEMMA SharingStarts ==
    ASSUME SharingInit
    PROVE  SharingInv
<1>1. RequestsFit /\ \A r \in Requests : Ready(req[r])
  BY InitialRequests, NoRequestIsReady DEF SharingInit
<1>2. TablesFit
  BY SharingSeedAssumption DEF SharingInit, TablesFit
<1>3. MembersFit /\ CollaboratorsFit
  BY SharingSeedAssumption DEF SharingInit, MembersFit, CollaboratorsFit
<1>4. OwnerStaysMember /\ PublicNeverClaimable
  BY SharingSeedAssumption DEF SharingInit, OwnerStaysMember, PublicNeverClaimable,
     VerifyUserMembershipToGroup
<1>5. QED
  BY <1>1, <1>2, <1>3, <1>4 DEF SharingInv

\* The invariant speaks of the tables and the requests only.
LEMMA SharingStutters ==
    ASSUME SharingInv, UNCHANGED sharingVars
    PROVE  SharingInv'
<1>1. RequestsFit' /\ TablesFit'
  BY DEF SharingInv, RequestsFit, RequestsOK, Pending, TablesFit, sharingVars, tables
<1>2. MembersFit' /\ CollaboratorsFit' /\ OwnerStaysMember' /\ PublicNeverClaimable'
  BY DEF SharingInv, MembersFit, CollaboratorsFit, OwnerStaysMember, PublicNeverClaimable,
         VerifyUserMembershipToGroup, sharingVars, tables
<1>3. ASSUME NEW r \in Requests PROVE Ready(req[r])'
  <2>1. PICK q : q = req[r]
    OBVIOUS
  <2>2. Ready(q) /\ IsProgram(q.todo)
    BY <2>1 DEF SharingInv, RequestsFit
  <2>3. Grows
    BY UnchangedGrows DEF sharingVars
  <2>4. Ready(q)'
    BY <2>2, <2>3, ReadyStays DEF SharingInv
  <2>5. QED
    BY <2>1, <2>4 DEF sharingVars
<1>4. QED
  BY <1>1, <1>2, <1>3 DEF SharingInv

\* The invariant holds in every reachable state: whatever check a request still to be
\* carried out rests on, what it showed remains true until the request has used it.
THEOREM SharingInvariant == SharingSpec => []SharingInv
<1>1. SharingInit => SharingInv
  BY SharingStarts
<1>2. SharingInv /\ [SharingNext]_sharingVars => SharingInv'
  BY StepsKeepInv, SharingStutters DEF SharingNext, KeepsInv
<1>3. QED
  BY <1>1, <1>2, PTL DEF SharingSpec

\* The invariant says more than the types.
LEMMA InvGivesSharingTypeOK ==
    ASSUME SharingInv
    PROVE  SharingTypeOK
<1>1. ASSUME NEW r \in Requests, At(r, "saveList") PROVE req[r].found \in ListRow
  <2>1. PICK q, h : Calls(r, q, h)
    BY <1>1, CallOf DEF At
  <2>2. HeadReady(q, h) /\ q = req[r] /\ h.do = "saveList"
    BY <1>1, <2>1, NextCall DEF At, Calls
  <2>3. QED
    BY <2>2 DEF HeadReady, NeedsRow
<1>2. QED
  BY <1>1 DEF SharingInv, TablesFit, RequestsFit, SharingTypeOK

\* The tables hold rows of their columns' types, with ids that have been given out,
\* and a request is pending exactly while it has calls to make.
THEOREM SharingTypes == SharingSpec => []SharingTypeOK
BY SharingInvariant, InvGivesSharingTypeOK, PTL

\* The owner of a group is a member of it as long as the group is in force, whatever
\* removals, joins and deletions interleave.
THEOREM OwnersStayMembers == SharingSpec => []OwnerStaysMember
<1>1. SharingInv => OwnerStaysMember
  BY DEF SharingInv
<1>2. QED
  BY <1>1, SharingInvariant, PTL

\* No one collaborates on a wishlist of their own.
THEOREM CollaboratorsAreOthers == SharingSpec => []CollaboratorIsNotOwner
<1>1. SharingInv => CollaboratorIsNotOwner
  BY DEF SharingInv, CollaboratorsFit, CollaboratorIsNotOwner
<1>2. QED
  BY <1>1, SharingInvariant, PTL

\* No wishlist is public and claimable at once, although edits are saved over each
\* other.
THEOREM PublicIsNotClaimable == SharingSpec => []PublicNeverClaimable
<1>1. SharingInv => PublicNeverClaimable
  BY DEF SharingInv
<1>2. QED
  BY <1>1, SharingInvariant, PTL

\* Only the request that moves can have given access.
LEMMA MoverGrants ==
    ASSUME NEW r \in Requests, KeepsInv(r)
    PROVE  \A t \in Requests : req'[t] # req[t] => GrantsItsOwn(t)
<1>1. ASSUME NEW t \in Requests, req'[t] # req[t] PROVE t = r
  BY <1>1 DEF KeepsInv, OnlyMoves
<1>2. QED
  BY <1>1 DEF KeepsInv

\* Every membership, link and collaboration that comes into being was granted by the
\* owner of the group or wishlist, although the check of the ownership and the write
\* are calls of their own.
THEOREM GrantsAreTheOwners == SharingSpec => OnlyOwnersGrantAccess
<1> DEFINE Grants == \A r \in Requests : req'[r] # req[r] =>
              /\ \A m \in groupMember' \ groupMember : group'[m.group].owner = req[r].caller
              /\ \A w \in listGroup' \ listGroup : list'[w.list].owner = req[r].caller
              /\ \A c \in collaborator' \ collaborator : list'[c.list].owner = req[r].caller
<1>1. SharingInv /\ [SharingNext]_sharingVars => [Grants]_sharingVars
  <2> SUFFICES ASSUME SharingInv, SharingNext PROVE Grants
    OBVIOUS
  <2>1. PICK r \in Requests : KeepsInv(r)
    BY StepsKeepInv DEF SharingNext
  <2>2. \A t \in Requests : req'[t] # req[t] => GrantsItsOwn(t)
    BY <2>1, MoverGrants
  <2>3. QED
    BY <2>2 DEF GrantsItsOwn
<1>2. QED
  BY <1>1, SharingInvariant, PTL DEF SharingSpec, OnlyOwnersGrantAccess

=============================================================================
