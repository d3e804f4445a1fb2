------------------------------ MODULE MCImages ------------------------------
(***************************************************************************)
(* Images for TLC: a wish that is yet to be made, and a user with a picture *)
(* that an older version stored.                                            *)
(***************************************************************************)
EXTENDS Images, TLC

CONSTANTS w1, ann

MCSeedRow == [p \in Pictures |-> IF p = w1 THEN "absent" ELSE "enabled"]

AllHandlers == {"RegisterWish", "APIUpdateWish", "UpdateUser", "DeleteWish", "APIDeleteUser",
                "DeleteWishlist", "APIGetWishImage", "APIGetUserProfileImage"}

=============================================================================
