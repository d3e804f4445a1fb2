------------------------------ MODULE Sharing ------------------------------
(***************************************************************************)
(* Who may see a wishlist: users, groups, group memberships, wishlists,     *)
(* the links between wishlists and groups, collaborators and public links.  *)
(*                                                                          *)
(* But for one explicit transaction (CreateGroupWithMemberships), every      *)
(* database call commits on its own: each step of the specification executes *)
(* one call of one request, and requests interleave between calls.          *)
(*                                                                          *)
(* Disabling a row is final for the relation tables and no query returns a  *)
(* disabled row, so a relation table is the set of its enabled rows.        *)
(***************************************************************************)
EXTENDS Handling

CONSTANTS
    Users, Groups, Lists,
    MaxTargets,      \* bound: users, groups or lists named by one request
    SeedGroup, SeedMembers, SeedList, SeedLinks, SeedCollaborators,
    SeedIds          \* the database at the start, and the ids in it

ASSUME SharingAssumption ==
    /\ None \notin Users
    /\ MaxTargets \in Nat \ {0}

VARIABLES
    user,            \* user[u]: the account is enabled
    group,           \* group[g]: its row, or NoGroup
    groupMember,     \* enabled rows of group_memberships
    list,            \* list[l]: its row, or NoList
    listGroup,       \* enabled rows of wishlist_memberships
    collaborator,    \* enabled rows of wishlist_collaborators
    nextId           \* the next fresh identifier (row ids and public hashes)

tables == <<user, group, groupMember, list, listGroup, collaborator, nextId>>
sharingVars == <<tables, req>>

NoGroup == [owner |-> None, enabled |-> FALSE]
NoList == [owner |-> None, enabled |-> FALSE,
           claimable |-> FALSE, public |-> FALSE, link |-> 0]

\* Rows that exist: each has an owner.
GroupRow == [owner: Users, enabled: BOOLEAN]
ListRow == [owner: Users, enabled: BOOLEAN,
            claimable: BOOLEAN, public: BOOLEAN, link: Nat]
Settings == [claimable: BOOLEAN, public: BOOLEAN]

\* A database that the server itself could have left: every id was given out, and
\* memberships and collaborations are of groups and wishlists that exist.
ASSUME SharingSeedAssumption ==
    /\ SeedIds \in Nat
    /\ SeedGroup \in [Groups -> GroupRow \cup {NoGroup}]
    /\ SeedList \in [Lists -> ListRow \cup {NoList}]
    /\ \A l \in Lists : /\ SeedList[l].link <= SeedIds
                        /\ ~(SeedList[l].public /\ SeedList[l].claimable)
    /\ SeedMembers \subseteq [id: 1..SeedIds, group: Groups, member: Users]
    /\ \A m, n \in SeedMembers : m.id = n.id => m = n
    /\ \A m \in SeedMembers : SeedGroup[m.group] # NoGroup
    /\ \A g \in Groups : SeedGroup[g].enabled =>
            \E m \in SeedMembers : m.group = g /\ m.member = SeedGroup[g].owner
    /\ SeedLinks \subseteq [id: 1..SeedIds, list: Lists, group: Groups]
    /\ SeedCollaborators \subseteq [id: 1..SeedIds, list: Lists, user: Users]
    /\ \A c \in SeedCollaborators :
            SeedList[c.list] # NoList /\ SeedList[c.list].owner # c.user

Accept(r, op, caller, scope, program) ==
    Begin(r, op, caller, scope, program) /\ UNCHANGED tables

\* The lists of identifiers a request body may name: repeats included.
Targets(S) == UNION {[1..n -> S] : n \in 1..MaxTargets}

-----------------------------------------------------------------------------
(***************************************************************************)
(* The queries.  Find into a struct reads one matching row, so a query that *)
(* matches several rows behaves as one that matches one.                    *)
(***************************************************************************)
GetUserInformation(u) == user[u]
VerifyUserMembershipToGroup(u, g) ==
    \E m \in groupMember : m.group = g /\ m.member = u
GroupOwnedBy(u, g) == group[g].enabled /\ group[g].owner = u
GetWishlist(l) == list[l].enabled
\* Mutation: the query that forgets whose wishlist it is.
VerifyWishlistExists(u, l) == list[l].enabled
VerifyUserOwnershipToWishlist(u, l) == list[l].enabled /\ list[l].owner = u
VerifyGroupMembershipToWishlist(l, g) ==
    \E w \in listGroup : w.list = l /\ w.group = g
VerifyWishlistCollaboratorToWishlist(l, u) ==
    user[u] /\ \E c \in collaborator : c.list = l /\ c.user = u
VerifyUserMembershipToGroupMembershipToWishlist(u, l) ==
    \E w \in listGroup :
        /\ w.list = l
        /\ group[w.group].enabled
        /\ VerifyUserMembershipToGroup(u, w.group)

\* Mutations: the owner may be removed, or may collaborate.
MayRemoveAnyMember(u, g, m) == GroupOwnedBy(u, g)
MayAddAnyCollaborator(u, l, v) == VerifyUserOwnershipToWishlist(u, l)

\* Only the owner edits the memberships, and cannot be removed as a member.
MayRemoveMember(u, g, m) == GroupOwnedBy(u, g) /\ group[g].owner # m
\* Only the owner adds collaborators, and cannot be one.
MayAddCollaborator(u, l, v) == VerifyUserOwnershipToWishlist(u, l) /\ u # v

\* A wishlist cannot have claimable wishes and be public.
SettingsAllowed(s) == ~(s.public /\ s.claimable)

(***************************************************************************)
(* What a checking call of request q lets through.  The same query guards   *)
(* opposite outcomes in different handlers, hence the names.                *)
(***************************************************************************)
Passes(q, c) ==
    \/ c.do = "userExists"      /\ GetUserInformation(c.arg)
    \/ c.do = "groupExists"     /\ group[c.arg].enabled
    \/ c.do = "ownsGroup"       /\ GroupOwnedBy(q.caller, q.scope)
    \/ c.do = "notGroupOwner"   /\ ~GroupOwnedBy(q.caller, q.scope)
    \/ c.do = "mayRemoveMember" /\ MayRemoveMember(q.caller, q.scope, c.arg)
    \/ c.do = "isMember"        /\ VerifyUserMembershipToGroup(c.arg, q.scope)
    \/ c.do = "notMember"       /\ ~VerifyUserMembershipToGroup(c.arg, q.scope)
    \/ c.do = "callerIn"        /\ VerifyUserMembershipToGroup(q.caller, c.arg)
    \/ c.do = "ownsThatList"    /\ VerifyUserOwnershipToWishlist(q.caller, c.arg)
    \/ c.do = "ownsList"        /\ VerifyUserOwnershipToWishlist(q.caller, q.scope)
    \/ c.do = "linked"          /\ VerifyGroupMembershipToWishlist(q.scope, c.arg)
    \/ c.do = "notLinked"       /\ ~VerifyGroupMembershipToWishlist(q.scope, c.arg)
    \/ c.do = "listNotInGroup"  /\ ~VerifyGroupMembershipToWishlist(c.arg, q.scope)
    \/ c.do = "callerInScope"   /\ VerifyUserMembershipToGroup(q.caller, q.scope)
    \/ c.do = "collaborates"    /\ VerifyWishlistCollaboratorToWishlist(q.scope, c.arg)
    \/ c.do = "notCollaborator" /\ ~VerifyWishlistCollaboratorToWishlist(q.scope, c.arg)
    \/ c.do = "mayAddCollaborator"
                                /\ MayAddCollaborator(q.caller, q.scope, c.arg)
    \/ c.do = "mayEditList"     /\ (q.found.insider \/ VerifyUserOwnershipToWishlist(q.caller, q.scope))
    \/ c.do = "settingsAllowed" /\ SettingsAllowed(c.arg)

Checks == {"userExists", "groupExists", "ownsGroup", "notGroupOwner",
           "mayRemoveMember", "isMember", "notMember", "callerIn",
           "ownsThatList", "ownsList", "linked", "notLinked",
           "listNotInGroup", "callerInScope", "collaborates",
           "notCollaborator", "mayAddCollaborator", "mayEditList",
           "settingsAllowed"}

Check(r) == Guarded(r, Checks, Passes) /\ UNCHANGED tables

-----------------------------------------------------------------------------
(* Groups.                                                                  *)

RegisterGroup(r) ==
    \E u \in Users, ms \in {<<>>} \cup Targets(Users), ls \in {<<>>} \cup Targets(Lists) :
        Accept(r, "RegisterGroup", u, None,
            ForEach(ms, 1, LAMBDA m : <<Call("userExists", m)>>)
            \o ForEach(ls, 1, LAMBDA l : <<Call("ownsThatList", l)>>)
            \o <<Call("createGroup", [members |-> <<u>> \o ms, links |-> ls])>>)

\* One transaction: the group, a membership per member (the owner first) and
\* a link per wishlist.
CreateGroupWithMemberships(r) ==
    /\ At(r, "createGroup")
    /\ \E g \in Groups :
        LET ms == Arg(r).members
            ls == Arg(r).links
        IN /\ group[g] = NoGroup
           /\ group' = [group EXCEPT ![g] =
                            [owner |-> req[r].caller, enabled |-> TRUE]]
           /\ groupMember' = groupMember \cup
                {[id |-> nextId + i, group |-> g, member |-> ms[i]] : i \in 1..Len(ms)}
           /\ listGroup' = listGroup \cup
                {[id |-> nextId + Len(ms) + i, list |-> ls[i], group |-> g] : i \in 1..Len(ls)}
           /\ nextId' = nextId + Len(ms) + Len(ls)
    /\ Done(r)
    /\ UNCHANGED <<user, list, collaborator>>

\* Mutation: members are added without looking for the membership first.
JoinGroupAgain(r) ==
    \E u \in Users, g \in Groups, ms \in Targets(Users) :
        Accept(r, "JoinGroup", u, g,
            <<Call("ownsGroup", None)>>
            \o ForEach(ms, 2, LAMBDA m : <<Call("userExists", m),
                                           Call("addMember", m)>>))

JoinGroup(r) ==
    \E u \in Users, g \in Groups, ms \in Targets(Users) :
        Accept(r, "JoinGroup", u, g,
            <<Call("ownsGroup", None)>>
            \o ForEach(ms, 3, LAMBDA m : <<Call("userExists", m),
                                        Call("notMember", m),
                                        Call("addMember", m)>>))

CreateGroupMembershipInDB(r) ==
    /\ At(r, "addMember")
    /\ groupMember' = groupMember \cup
            {[id |-> nextId + 1, group |-> req[r].scope, member |-> Arg(r)]}
    /\ nextId' = nextId + 1
    /\ Done(r)
    /\ UNCHANGED <<user, group, list, listGroup, collaborator>>

RemoveFromGroup(r) ==
    \E u, m \in Users, g \in Groups :
        Accept(r, "RemoveFromGroup", u, g,
            <<Call("isMember", m), Call("mayRemoveMember", m),
              Call("findMember", m), Call("dropMember", m)>>)

RemoveSelfFromGroup(r) ==
    \E u \in Users, g \in Groups :
        Accept(r, "RemoveSelfFromGroup", u, g,
            <<Call("isMember", u), Call("notGroupOwner", None),
              Call("findMember", u), Call("dropMember", u)>>)

\* One of the matching rows is read; the delete is by that row's id.
GetGroupMembershipByGroupIDAndMemberID(r) ==
    /\ At(r, "findMember")
    /\ LET rows == {m \in groupMember : m.group = req[r].scope /\ m.member = Arg(r)}
       IN IF rows = {}
          THEN Answer(r, "refused")
          ELSE \E m \in rows : Remember(r, [id |-> m.id])
    /\ UNCHANGED tables

DeleteGroupMembership(r) ==
    /\ At(r, "dropMember")
    /\ groupMember' = {m \in groupMember : m.id # req[r].found.id}
    /\ Done(r)
    /\ UNCHANGED <<user, group, list, listGroup, collaborator, nextId>>

DeleteGroup(r) ==
    \E u \in Users, g \in Groups :
        Accept(r, "DeleteGroup", u, g,
               <<Call("ownsGroup", None), Call("disableGroup", None)>>)

DisableGroup(r) ==
    /\ At(r, "disableGroup")
    /\ group' = [group EXCEPT ![req[r].scope].enabled = FALSE]
    /\ Done(r)
    /\ UNCHANGED <<user, groupMember, list, listGroup, collaborator, nextId>>

-----------------------------------------------------------------------------
(* Wishlists.                                                               *)

RegisterWishlist(r) ==
    \E u \in Users, gs \in {<<>>} \cup Targets(Groups), s \in Settings :
        Accept(r, "RegisterWishlist", u, None,
            ForEach(gs, 1, LAMBDA g : <<Call("callerIn", g)>>)
            \o <<Call("settingsAllowed", s), Call("createList", s)>>
            \o ForEach(gs, 1, LAMBDA g : <<Call("addLink", g)>>))

CreateWishlistInDB(r) ==
    /\ At(r, "createList")
    /\ \E l \in Lists :
        /\ list[l] = NoList
        /\ list' = [list EXCEPT ![l] =
                [owner |-> req[r].caller, enabled |-> TRUE,
                 claimable |-> Arg(r).claimable, public |-> Arg(r).public,
                 link |-> nextId + 1]]
        /\ req' = [req EXCEPT ![r] = Advance([@ EXCEPT !.scope = l])]
    /\ nextId' = nextId + 1
    /\ UNCHANGED <<user, group, groupMember, listGroup, collaborator>>

DeleteWishlist(r) ==
    \E u \in Users, l \in Lists :
        Accept(r, "DeleteWishlist", u, l,
               <<Call("ownsList", None), Call("disableList", None)>>)

DisableWishlist(r) ==
    /\ At(r, "disableList")
    /\ list' = [list EXCEPT ![req[r].scope].enabled = FALSE]
    /\ Done(r)
    /\ UNCHANGED <<user, group, groupMember, listGroup, collaborator, nextId>>

APIUpdateWishlist(r) ==
    \E u \in Users, l \in Lists, s \in Settings :
        Accept(r, "APIUpdateWishlist", u, l,
            <<Call("readCollaborator", None), Call("mayEditList", None),
              Call("readList", None), Call("settingsAllowed", s),
              Call("saveList", s)>>)

ReadCollaborator(r) ==
    /\ At(r, "readCollaborator")
    /\ Remember(r, [insider |-> VerifyWishlistCollaboratorToWishlist(req[r].scope, req[r].caller)])
    /\ UNCHANGED tables

ReadWishlist(r) ==
    /\ At(r, "readList")
    /\ IF GetWishlist(req[r].scope)
       THEN Remember(r, list[req[r].scope])
       ELSE Answer(r, "refused")
    /\ UNCHANGED tables

\* Mutation: the old link comes back into force when a list is republished.
EditedKeepingLink(row, s, fresh) ==
    [row EXCEPT !.claimable = s.claimable, !.public = s.public]

\* The row Save writes: the one read before, with the requested settings and,
\* when a private list is made public, a fresh public link.
Edited(row, s, fresh) ==
    [row EXCEPT !.claimable = s.claimable, !.public = s.public,
                !.link = IF s.public /\ ~row.public THEN fresh ELSE @]

\* Mutation: Updates instead of Save, which skips a column that is false.
SavedNonZero(current, read, edited) ==
    [edited EXCEPT !.claimable = current.claimable \/ @, !.public = current.public \/ @]

\* Mutation: the row that is saved was put together without its owner.
SavedWithoutOwner(current, read, edited) == [edited EXCEPT !.owner = None]

\* What Save leaves of the current row: nothing, it writes every column of the
\* row that was read, edited or not.
SavedRow(current, read, edited) == edited

UpdateWishlistInDB(r) ==
    /\ At(r, "saveList")
    /\ LET l == req[r].scope
       IN list' = [list EXCEPT ![l] =
                      SavedRow(@, req[r].found,
                               Edited(req[r].found, Arg(r), nextId + 1))]
    /\ nextId' = nextId + 1
    /\ Done(r)
    /\ UNCHANGED <<user, group, groupMember, listGroup, collaborator>>

-----------------------------------------------------------------------------
(* Sharing a wishlist with groups and collaborators.                        *)

JoinWishlist(r) ==
    \E u \in Users, l \in Lists, gs \in Targets(Groups) :
        Accept(r, "JoinWishlist", u, l,
            ForEach(gs, 4, LAMBDA g : <<Call("groupExists", g),
                                     Call("notLinked", g),
                                     Call("ownsList", None),
                                     Call("addLink", g)>>))

APIAddWishlistsToGroup(r) ==
    \E u \in Users, g \in Groups, ls \in Targets(Lists) :
        Accept(r, "APIAddWishlistsToGroup", u, g,
            ForEach(ls, 4, LAMBDA l : <<Call("ownsThatList", l),
                                     Call("listNotInGroup", l),
                                     Call("callerInScope", None),
                                     Call("addListToScope", l)>>))

CreateWishlistMembershipInDB(r) ==
    /\ \/ /\ At(r, "addLink")
          /\ listGroup' = listGroup \cup
                {[id |-> nextId + 1, list |-> req[r].scope, group |-> Arg(r)]}
       \/ /\ At(r, "addListToScope")
          /\ listGroup' = listGroup \cup
                {[id |-> nextId + 1, list |-> Arg(r), group |-> req[r].scope]}
    /\ nextId' = nextId + 1
    /\ Done(r)
    /\ UNCHANGED <<user, group, groupMember, list, collaborator>>

\* A request from a group's page asks for that group's wishlists in return, and
\* is refused after the removal when the caller is not a member of the group.
RemoveFromWishlist(r) ==
    \E u \in Users, l \in Lists, g \in Groups,
       page \in {<<>>} \cup {<<Call("callerIn", h)>> : h \in Groups} :
        Accept(r, "RemoveFromWishlist", u, l,
            <<Call("linked", g), Call("ownsList", None),
              Call("findLink", g), Call("dropLink", g)>> \o page)

GetMembershipIDForGroupToWishlist(r) ==
    /\ At(r, "findLink")
    /\ LET rows == {w \in listGroup : w.list = req[r].scope /\ w.group = Arg(r)}
       IN IF rows = {}
          THEN Answer(r, "refused")
          ELSE \E w \in rows : Remember(r, [id |-> w.id])
    /\ UNCHANGED tables

DeleteWishlistMembership(r) ==
    /\ At(r, "dropLink")
    /\ listGroup' = {w \in listGroup : w.id # req[r].found.id}
    /\ Done(r)
    /\ UNCHANGED <<user, group, groupMember, list, collaborator, nextId>>

APICollaborateWishlist(r) ==
    \E u \in Users, l \in Lists, us \in Targets(Users) :
        Accept(r, "APICollaborateWishlist", u, l,
            ForEach(us, 4, LAMBDA v : <<Call("userExists", v),
                                     Call("notCollaborator", v),
                                     Call("mayAddCollaborator", v),
                                     Call("addCollaborator", v)>>))

CreateWishlistCollaboratorInDB(r) ==
    /\ At(r, "addCollaborator")
    /\ collaborator' = collaborator \cup
            {[id |-> nextId + 1, list |-> req[r].scope, user |-> Arg(r)]}
    /\ nextId' = nextId + 1
    /\ Done(r)
    /\ UNCHANGED <<user, group, groupMember, list, listGroup>>

APIUnCollaborateWishlist(r) ==
    \E u, v \in Users, l \in Lists :
        Accept(r, "APIUnCollaborateWishlist", u, l,
            <<Call("collaborates", v), Call("ownsList", None),
              Call("findCollaborator", v), Call("dropCollaborator", v)>>)

\* Unlike its siblings this query reports no error when nothing matches: the
\* row it returns has the zero id.
GetWishlistCollaboratorByUserIDAndWishlistID(r) ==
    /\ At(r, "findCollaborator")
    /\ LET rows == {c \in collaborator : /\ c.list = req[r].scope
                                         /\ c.user = Arg(r)
                                         /\ user[c.user]
                                         /\ list[c.list].enabled}
       IN \E id \in IF rows = {} THEN {0} ELSE {c.id : c \in rows} : Remember(r, [id |-> id])
    /\ UNCHANGED tables

DeleteWishlistCollaboratorByWishlistCollaboratorID(r) ==
    /\ At(r, "dropCollaborator")
    /\ IF req[r].found.id = 0
       THEN Answer(r, "refused")
       ELSE Done(r)
    /\ collaborator' = {c \in collaborator : c.id # req[r].found.id}
    /\ UNCHANGED <<user, group, groupMember, list, listGroup, nextId>>

-----------------------------------------------------------------------------
\* An administrator disables another account.
APIDeleteUser(r) ==
    \E u, v \in Users :
        /\ u # v
        /\ Accept(r, "APIDeleteUser", u, None,
                  <<Call("userExists", v), Call("disableUser", v)>>)

DisableUser(r) ==
    /\ At(r, "disableUser")
    /\ user' = [user EXCEPT ![Arg(r)] = FALSE]
    /\ Done(r)
    /\ UNCHANGED <<group, groupMember, list, listGroup, collaborator, nextId>>

\* A database call fails, or the process dies with the request in it: what
\* earlier calls committed stays.
Fail(r) == Abandon(r) /\ UNCHANGED tables

-----------------------------------------------------------------------------
SharingInit ==
    /\ user = [u \in Users |-> TRUE]
    /\ group = SeedGroup
    /\ groupMember = SeedMembers
    /\ list = SeedList
    /\ listGroup = SeedLinks
    /\ collaborator = SeedCollaborators
    /\ nextId = SeedIds
    /\ req = [r \in Requests |-> NoRequest]

SharingRequest(r) ==
    /\ MayBegin(r)
    /\ \/ RegisterGroup(r) \/ JoinGroup(r) \/ RemoveFromGroup(r)
       \/ RemoveSelfFromGroup(r) \/ DeleteGroup(r)
       \/ RegisterWishlist(r) \/ DeleteWishlist(r) \/ APIUpdateWishlist(r)
       \/ JoinWishlist(r) \/ APIAddWishlistsToGroup(r) \/ RemoveFromWishlist(r)
       \/ APICollaborateWishlist(r) \/ APIUnCollaborateWishlist(r)
       \/ APIDeleteUser(r)

SharingStep(r) ==
    \/ Check(r) \/ Fail(r)
    \/ CreateGroupWithMemberships(r) \/ CreateGroupMembershipInDB(r)
    \/ GetGroupMembershipByGroupIDAndMemberID(r) \/ DeleteGroupMembership(r)
    \/ DisableGroup(r)
    \/ CreateWishlistInDB(r) \/ DisableWishlist(r)
    \/ ReadCollaborator(r) \/ ReadWishlist(r) \/ UpdateWishlistInDB(r)
    \/ CreateWishlistMembershipInDB(r)
    \/ GetMembershipIDForGroupToWishlist(r) \/ DeleteWishlistMembership(r)
    \/ CreateWishlistCollaboratorInDB(r)
    \/ GetWishlistCollaboratorByUserIDAndWishlistID(r)
    \/ DeleteWishlistCollaboratorByWishlistCollaboratorID(r)
    \/ DisableUser(r)

SharingNext == \E r \in Requests : SharingRequest(r) \/ SharingStep(r)

SharingSpec == SharingInit /\ [][SharingNext]_sharingVars

-----------------------------------------------------------------------------
(* What must hold.                                                          *)

\* Every table holds rows of its columns' types, every id below the next fresh
\* one, and a request is pending exactly while it has calls to make.
SharingTypeOK ==
    /\ user \in [Users -> BOOLEAN]
    /\ group \in [Groups -> GroupRow \cup {NoGroup}]
    /\ groupMember \subseteq [id: 1..nextId, group: Groups, member: Users]
    /\ list \in [Lists -> ListRow \cup {NoList}]
    /\ listGroup \subseteq [id: 1..nextId, list: Lists, group: Groups]
    /\ collaborator \subseteq [id: 1..nextId, list: Lists, user: Users]
    /\ \A l \in Lists : list[l].link <= nextId
    /\ RequestsOK
    /\ \A r \in Requests : At(r, "saveList") => req[r].found \in ListRow

\* The owner of a group never stops being its member, whatever removals are
\* under way: RemoveFromGroup and RemoveSelfFromGroup refuse to remove the owner
\* and CreateGroupWithMemberships creates both rows or none.
OwnerStaysMember ==
    \A g \in Groups :
        group[g].enabled => VerifyUserMembershipToGroup(group[g].owner, g)

\* The owner of a wishlist is never one of its collaborators
\* (APICollaborateWishlist refuses it): the claims of a wishlist are hidden from
\* collaborators and owner by different tests.
CollaboratorIsNotOwner ==
    \A c \in collaborator : c.user # list[c.list].owner

\* No wishlist is open to anyone with the link and claimable at once, even when
\* two updates that are each allowed are saved one over the other.
PublicNeverClaimable ==
    \A l \in Lists : ~(list[l].public /\ list[l].claimable)

\* A user is put in a group, a wishlist is shared with a group and a collaborator
\* is appointed only by a request of the owner of the group or wishlist.
OnlyOwnersGrantAccess ==
    [][\A r \in Requests : req'[r] # req[r] =>
        /\ \A m \in groupMember' \ groupMember : group'[m.group].owner = req[r].caller
        /\ \A w \in listGroup' \ listGroup : list'[w.list].owner = req[r].caller
        /\ \A c \in collaborator' \ collaborator : list'[c.list].owner = req[r].caller
      ]_sharingVars

\* When a request to take a member out of a group, a group off a wishlist or a
\* collaborator off a wishlist deletes a row, no other row grants the same: a
\* duplicate row would leave the access in place behind a success.
RemovalIsEffective ==
    [][/\ \A m \in groupMember \ groupMember' :
            ~\E n \in groupMember' : n.group = m.group /\ n.member = m.member
       /\ \A w \in listGroup \ listGroup' :
            ~\E x \in listGroup' : x.list = w.list /\ x.group = w.group
       /\ \A c \in collaborator \ collaborator' :
            ~\E d \in collaborator' : d.list = c.list /\ d.user = c.user
      ]_sharingVars

\* Publishing a private wishlist always gives it a link no one has seen, so that
\* making it private and publishing it again revokes a leaked link.
PublishingMintsALink ==
    [][\A l \in Lists :
        ~list[l].public /\ list'[l].public => list'[l].link > nextId]_sharingVars

=============================================================================
