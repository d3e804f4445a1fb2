------------------------------ MODULE MCWishes ------------------------------
(***************************************************************************)
(* Wishes for TLC: alice's wishlist l1, on which bob collaborates when he   *)
(* is made a collaborator, holds the wish w1 in the category c1; w2 and c2  *)
(* are still to be created, in l1 or in bob's wishlist l2.                  *)
(***************************************************************************)
EXTENDS Wishes

CONSTANTS alice, bob, l1, l2, w1, w2, c1, c2, toys, r1, r2, r3, r4

MCSeedGroup == [g \in Groups |-> NoGroup]
MCSeedList ==
    [l \in Lists |-> [owner |-> IF l = l1 THEN alice ELSE bob, enabled |-> TRUE,
                      claimable |-> TRUE, public |-> FALSE, link |-> 1]]
MCSeedWish ==
    [w \in Wishes |-> IF w = w1
                      THEN [list |-> l1, owner |-> alice, enabled |-> TRUE, category |-> c1]
                      ELSE NoWish]
MCSeedCategory ==
    [c \in Categories |-> IF c = c1
                          THEN [list |-> l1, name |-> toys, enabled |-> TRUE]
                          ELSE NoCategory]

RequestSymmetry == Permutations(Requests)

WishHandlers == {"RegisterWish", "APIUpdateWish", "DeleteWish"}
EditingHandlers ==
    WishHandlers \cup {"APICollaborateWishlist", "DeleteWishlist", "APIDeleteUser"}

=============================================================================
