----------------------------- MODULE WishClaims -----------------------------
(***************************************************************************)
(* Claiming wishes, and who is shown the claims: the members of the groups  *)
(* a wishlist is shared with are, the owner and the collaborators are not.  *)
(***************************************************************************)
EXTENDS Wishes

CONSTANT SeedClaims

\* The claims at the start are of wishes that were created, by others.
ASSUME ClaimsSeedAssumption ==
    /\ SeedClaims \subseteq [id: 1..SeedIds, wish: Wishes, user: Users]
    /\ \A c \in SeedClaims : /\ SeedWish[c.wish] # NoWish
                             /\ SeedWish[c.wish].enabled => SeedWish[c.wish].owner # c.user

\* No two requests have raced for a wish: a wish has one claim at most.
ASSUME ClaimsSeedInOrder ==
    \A c, d \in SeedClaims : c.wish = d.wish => c = d

VARIABLES
    claim,           \* enabled rows of wish_claims
    before,          \* history: the rows there were when each request began
    deleted          \* history: the wishes that were deleted once

claimVars == <<wishVars, claim, before, deleted>>

\* One claim of the wish by a user whose account is enabled; the joins of
\* VerifyWishIsClaimed and GetWishClaimFromWish leave the others out.
LiveClaims(w) == {c \in claim : c.wish = w /\ user[c.user]}

\* Mutations: the query beside it, which looks for the caller's own claim, and
\* one that looks for the claims of others only.
ClaimedByCaller(u, w) == \E c \in claim : c.wish = w /\ c.user = u
ClaimedByAnother(u, w) == \E c \in LiveClaims(w) : c.user # u
VerifyWishIsClaimed(u, w) == LiveClaims(w) # {}

\* Mutation: the filter on the wish's owner is lost.
VerifyWishIsThere(u, w) == ~wish[w].enabled
VerifyUserOwnershipToWish(u, w) == wish[w].enabled /\ wish[w].owner = u

VerifyUserOwnershipToWishClaimByWish(u, w) ==
    \E c \in claim : c.wish = w /\ c.user = u

\* Mutation: the link of a list made private again still opens it.
OpenedByLink(l, link) == list[l].enabled /\ list[l].link = link
GetPublicWishListByWishlistHash(l, link) ==
    list[l].enabled /\ list[l].public /\ list[l].link = link

ClaimPasses(q, c) ==
    LET l == Draft(q).row.list
    IN \/ c.do = "listClaimable"   /\ GetWishlist(l) /\ list[l].claimable
       \/ c.do = "mayView"
             /\ \/ Draft(q).insider
                \/ VerifyUserMembershipToGroupMembershipToWishlist(q.caller, l)
       \/ c.do = "notInsider"
             /\ ~VerifyWishlistCollaboratorToWishlist(l, q.caller)
       \/ c.do = "notOwnWish"      /\ ~VerifyUserOwnershipToWish(q.caller, q.scope)
       \/ c.do = "notClaimed"      /\ ~VerifyWishIsClaimed(q.caller, q.scope)
       \/ c.do = "ownsClaim"
             /\ VerifyUserOwnershipToWishClaimByWish(q.caller, q.scope)
       \/ c.do = "publicList"      /\ GetPublicWishListByWishlistHash(l, c.arg)

ClaimChecks == {"listClaimable", "mayView", "notInsider", "notOwnWish",
                "notClaimed", "ownsClaim", "publicList"}

ClaimCheck(r) ==
    /\ Guarded(r, ClaimChecks, ClaimPasses)
    /\ UNCHANGED <<tables, wishTables, claim>>

-----------------------------------------------------------------------------
\* What claiming and unclaiming have in common: the caller may see the wishlist,
\* which is claimable, and does not collaborate on it.
ClaimingChecks ==
    <<Call("readWish", None), Call("listClaimable", None),
      Call("readOwnership", None), Call("mayView", None), Call("notInsider", None)>>

RegisterWishClaim(r) ==
    \E u \in Users, w \in Wishes :
        Accept(r, "RegisterWishClaim", u, w,
            ClaimingChecks \o <<Call("notOwnWish", None), Call("notClaimed", None),
                                Call("createClaim", None)>>)

RemoveWishClaim(r) ==
    \E u \in Users, w \in Wishes :
        Accept(r, "RemoveWishClaim", u, w,
            ClaimingChecks \o <<Call("ownsClaim", None), Call("dropClaim", None)>>)

ReadOwnership(r) ==
    /\ At(r, "readOwnership")
    /\ LET l == Draft(req[r]).row.list
       IN RememberIn(r, "insider", VerifyUserOwnershipToWishlist(req[r].caller, l))
    /\ UNCHANGED <<tables, wishTables, claim>>

NewClaim(w, u) == [id |-> nextId + 1, wish |-> w, user |-> u]

CreateWishClaimInDB(r) ==
    /\ At(r, "createClaim")
    /\ claim' = claim \cup {NewClaim(req[r].scope, req[r].caller)}
    /\ nextId' = nextId + 1
    /\ Done(r)
    /\ UNCHANGED <<user, group, groupMember, list, listGroup, collaborator, wishTables>>

\* Every claim of the caller on the wish goes, but unless that was exactly one
\* row the handler reports a failure.
DeleteWishClaimByUserAndWish(r) ==
    /\ At(r, "dropClaim")
    /\ LET mine == {c \in claim : c.wish = req[r].scope /\ c.user = req[r].caller}
       IN /\ claim' = claim \ mine
          /\ IF Cardinality(mine) = 1
             THEN Done(r)
             ELSE Answer(r, "error")
    /\ UNCHANGED <<tables, wishTables>>

-----------------------------------------------------------------------------
(***************************************************************************)
(* Showing wishes.  Every handler that shows wishes converts them one by    *)
(* one, in the same way; a request stands for the conversion of one wish.   *)
(***************************************************************************)
ShowWish == <<Call("creatorExists", None), Call("readClaims", None),
              Call("listExists", None), Call("listOwnerExists", None),
              Call("showWish", None)>>

APIGetWish(r) ==
    \E u \in Users, w \in Wishes :
        Accept(r, "APIGetWish", u, w,
            <<Call("readWish", None), Call("readOwnership", None),
              Call("mayView", None), Call("readWish", None)>> \o ShowWish)

GetWishesFromWishlist(r) ==
    \E u \in Users, l \in Lists :
        Accept(r, "GetWishesFromWishlist", u, l,
            <<Call("readOwnership", None), Call("mayView", None),
              Call("pickWish", None)>> \o ShowWish)

\* Anyone who has the link: there is no caller.
GetPublicWishlist(r) ==
    \E l \in Lists, link \in 1..nextId :
        Accept(r, "GetPublicWishlist", None, l,
            <<Call("publicList", link), Call("pickWish", None)>> \o ShowWish)

PickWish(r) ==
    /\ At(r, "pickWish")
    /\ LET shown == {w \in Wishes : /\ wish[w].enabled
                                    /\ wish[w].list = req[r].scope
                                    /\ user[wish[w].owner]}
       IN IF shown = {}
          THEN Answer(r, "ok")
          ELSE \E w \in shown :
                 req' = [req EXCEPT ![r] = Advance([@ EXCEPT
                            !.scope = w, !.found = [Draft(req[r]) EXCEPT !.row = wish[w]]])]
    /\ UNCHANGED <<tables, wishTables, claim>>

\* At most one claim is read, by one query, and then its user by another.
GetWishClaimFromWish(r) ==
    /\ At(r, "readClaims")
    /\ IF LiveClaims(req[r].scope) = {}
       THEN Done(r)
       ELSE \E c \in LiveClaims(req[r].scope) : RememberIn(r, "claims", {c})
    /\ UNCHANGED <<tables, wishTables, claim>>

GetWishlistCollaboratorsFromWishlist(l) ==
    {c.user : c \in {d \in collaborator : d.list = l /\ user[d.user] /\ list[l].enabled}}

\* Mutation: the loop over the collaborators is lost.
ShownToCollaborators(q) ==
    IF q.caller # None /\ q.caller \in {q.found.row.owner, list[q.found.row.list].owner}
    THEN {} ELSE q.found.claims

\* The claims that are left in the reply.  Without a caller none is removed.
ShownClaims(q) ==
    IF /\ q.caller # None
       /\ \/ q.caller = q.found.row.owner
          \/ q.caller = list[q.found.row.list].owner
          \/ q.caller \in GetWishlistCollaboratorsFromWishlist(q.found.row.list)
    THEN {} ELSE q.found.claims

WishShown(r) ==
    /\ At(r, "showWish")
    /\ Done(r)
    /\ UNCHANGED <<tables, wishTables, claim>>

-----------------------------------------------------------------------------
NothingBefore == [claims |-> {}, collaborators |-> {}]

\* The history: what a request found when it began, until its answer, and the
\* wishes that were deleted, although a Save may have brought them back.
Remembering ==
    /\ before' = [r \in Requests |->
                     IF req'[r].reply # "pending" THEN NothingBefore
                     ELSE IF Pending(r) THEN before[r]
                     ELSE [claims |-> claim, collaborators |-> collaborator]]
    /\ deleted' = deleted \cup {w \in Wishes : wish[w].enabled /\ ~wish'[w].enabled}

ClaimsInit ==
    /\ WishesInit
    /\ claim = SeedClaims
    /\ before = [r \in Requests |-> NothingBefore]
    /\ deleted = {w \in Wishes : SeedWish[w] # NoWish /\ ~SeedWish[w].enabled}

ClaimsRequest(r) ==
    /\ MayBegin(r)
    /\ \/ RegisterWishClaim(r) \/ RemoveWishClaim(r)
       \/ APIGetWish(r) \/ GetWishesFromWishlist(r) \/ GetPublicWishlist(r)

ClaimsStep(r) ==
    \/ ClaimCheck(r) \/ ReadOwnership(r)
    \/ CreateWishClaimInDB(r) \/ DeleteWishClaimByUserAndWish(r)
    \/ PickWish(r) \/ GetWishClaimFromWish(r) \/ WishShown(r)

ClaimsNext ==
    /\ \/ WishesNext /\ UNCHANGED claim
       \/ \E r \in Requests : ClaimsRequest(r) /\ UNCHANGED <<wishTables, claim>>
       \/ \E r \in Requests : ClaimsStep(r)
    /\ Remembering

ClaimsSpec == ClaimsInit /\ [][ClaimsNext]_claimVars

-----------------------------------------------------------------------------
\* Every claim has an id, a wish and a user of its own, and the tables beside it
\* hold rows of their types.
ClaimsTypeOK ==
    /\ SharingTypeOK
    /\ WishesTypeOK
    /\ claim \subseteq [id: 1..nextId, wish: Wishes, user: Users]

\* Nobody holds a claim on a wish of their own, unless the wish was deleted once:
\* RegisterWishClaim refuses it, but takes a deleted wish for one of somebody
\* else, and an edit that read the wish before may save it back.
NoOwnWishClaimed ==
    \A c \in claim : wish[c.wish].owner = c.user => c.wish \in deleted

\* A claim is refused when one was there before the request began and is there
\* still: only requests that overlap can both succeed.
EarlierClaimExcludes ==
    [][\A r \in Requests :
        At(r, "createClaim") /\ claim' # claim =>
            LiveClaims(req[r].scope) \cap before[r].claims = {}]_claimVars

\* A wish is claimed by at most one of the enabled users.
AtMostOneClaim == \A w \in Wishes : Cardinality(LiveClaims(w)) <= 1

\* RemoveWishClaim answers for what it did: when it reports success the wish is
\* free of the caller's claims, and when it reports a failure nothing changed.
\* It fails unless one row was updated, so this rests on the caller never holding
\* two claims on a wish: one whose account was disabled does, when a token that
\* still lives claims again what VerifyWishIsClaimed no longer sees.
UnclaimingTellsTheTruth ==
    [][\A r \in Requests : At(r, "dropClaim") /\ req'[r] # req[r] /\ user[req[r].caller] =>
        IF req'[r].reply = "ok"
        THEN ~\E c \in claim' : c.wish = req[r].scope /\ c.user = req[r].caller
        ELSE claim' = claim]_claimVars

\* This step tells the caller of r that the wish in its scope is claimed: the
\* wish is shown with a claim, or a claim is refused because there is one.
Discloses(r) ==
    \/ /\ At(r, "showWish") /\ req'[r].reply = "ok"
       /\ ShownClaims(req[r]) # {}
    \/ /\ At(r, "notClaimed") /\ req'[r].reply = "refused"

\* A user who was made a collaborator before the request began and is one still.
CollaboratesThroughout(r, l) ==
    /\ list[l].enabled
    /\ \E c \in collaborator \cap before[r].collaborators :
          c.list = l /\ c.user = req[r].caller /\ user[c.user]

\* Neither the creator of a wish nor a collaborator of its wishlist is ever told,
\* by the wish or by the refusal of a claim, that it is claimed; the creator may be
\* refused a claim on a wish that was deleted once.
InsidersStaySurprised ==
    [][\A r \in Requests : Discloses(r) =>
        LET w == req[r].scope
        IN /\ req[r].caller = wish[w].owner => At(r, "notClaimed") /\ w \in deleted
           /\ ~CollaboratesThroughout(r, wish[w].list)]_claimVars

\* Nothing is shown without an account once the wishlist is private again or
\* deleted.
PublicViewIsCurrent ==
    [][\A r \in Requests : At(r, "showWish") /\ req[r].caller = None /\ req'[r].reply = "ok" =>
        LET l == wish[req[r].scope].list
        IN list[l].enabled /\ list[l].public]_claimVars

\* Someone without an account is shown no claims.
PublicSeesNoClaims ==
    [][\A r \in Requests : Discloses(r) => req[r].caller # None]_claimVars

=============================================================================
