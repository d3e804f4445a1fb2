---------------------------- MODULE MCWishClaims ----------------------------
(***************************************************************************)
(* WishClaims, and with it Sharing, for TLC: alice shares her claimable     *)
(* wishlist l1 with her group g1, of which carol is a member.  carol has    *)
(* claimed the wish w1, which alice added.  Where bob is a member as well,  *)
(* he collaborates on the list and added w2.  g2 and l2 are still to be     *)
(* created.                                                                 *)
(***************************************************************************)
EXTENDS WishClaims

CONSTANTS alice, bob, carol, g1, g2, l1, l2, w1, w2, r1, r2, r3

MCSeedGroup ==
    [g \in Groups |-> IF g = g1 THEN [owner |-> alice, enabled |-> TRUE] ELSE NoGroup]
MCSeedMembers == {[id |-> 1, group |-> g1, member |-> alice], [id |-> 2, group |-> g1, member |-> carol]}
MCSeedMembersWithBob == MCSeedMembers \cup {[id |-> 3, group |-> g1, member |-> bob]}
MCSeedList ==
    [l \in Lists |-> IF l = l1
                     THEN [owner |-> alice, enabled |-> TRUE, claimable |-> TRUE,
                           public |-> FALSE, link |-> 1]
                     ELSE NoList]
MCSeedLinks == {[id |-> 4, list |-> l1, group |-> g1]}
MCSeedCollaborators == {[id |-> 5, list |-> l1, user |-> bob]}
MCSeedClaims == {[id |-> 6, wish |-> w1, user |-> carol]}
MCSeedWish ==
    [w \in Wishes |-> [list |-> l1, owner |-> IF w = w1 THEN alice ELSE bob,
                       enabled |-> TRUE, category |-> None]]
MCSeedCategory == [c \in Categories |-> NoCategory]

RequestSymmetry == Permutations(Requests)

ClaimingHandlers == {"RegisterWishClaim", "RemoveWishClaim"}
PublishingHandlers ==
    {"RegisterWishClaim", "APIUpdateWishlist", "GetPublicWishlist"}
\* Every handler that creates or deletes a row which grants access, but for the
\* two that accept a user or group named twice, and those that name a new link.
SerialHandlers ==
    ClaimingHandlers \cup PublishingHandlers \cup
    {"JoinGroup", "RemoveFromGroup", "RemoveSelfFromGroup", "JoinWishlist",
     "APIAddWishlistsToGroup", "RemoveFromWishlist", "APICollaborateWishlist",
     "APIUnCollaborateWishlist", "DeleteWish", "DeleteWishlist", "APIDeleteUser",
     "GetWishesFromWishlist"}
\* Everything that can change who may see a wishlist, or claim or see a claim;
\* a wish is shown and a list is linked by one handler of those that do the same.
AllHandlers ==
    (SerialHandlers \ {"GetPublicWishlist", "GetWishesFromWishlist",
                       "APIAddWishlistsToGroup"}) \cup
    {"RegisterGroup", "DeleteGroup", "RegisterWishlist", "APIGetWish"}

=============================================================================
