------------------------------- MODULE Images -------------------------------
(***************************************************************************)
(* The pictures of wishes and users: two files each, the picture and its    *)
(* thumbnail, beside the database and under no lock.  A file is replaced by *)
(* one rename, but the two files of a picture, and the row they belong to,  *)
(* are written one after the other.  Pictures stored by older versions are  *)
(* too large and have no thumbnail: whoever reads one first writes it back. *)
(***************************************************************************)
EXTENDS Handling

CONSTANTS
    Wishes,          \* the wishes of one wishlist
    Users,           \* the users who may have a profile picture
    Legacy,          \* the upload that an older version stored
    SeedRow,         \* rows and pictures at the start
    SeedPictured

ASSUME ImagesAssumption ==
    /\ IsFiniteSet(Wishes) /\ Wishes \cap Users = {}
    /\ None # Legacy

Pictures == Wishes \cup Users

\* Every row is of one of the three kinds.
ASSUME ImagesSeedAssumption == SeedRow \in [Pictures -> {"absent", "enabled", "deleted"}]

Uploads == Requests \cup {Legacy}

VARIABLES
    row,       \* row[p]: the wish or user is "absent", "enabled" or "deleted"
    listed,    \* the wishlist is enabled
    full,      \* full[p]: the upload in the file and whether it is too large
    thumb,     \* thumb[p]: the upload in the thumbnail's file, or None
    met,       \* history: <<r, p>>: another request overlapped r on picture p
    left       \* history: left[p], what undisturbed requests left, or "torn"

files == <<full, thumb>>
imageVars == <<req, row, listed, files, met, left>>

NoFile == [of |-> None, oversized |-> FALSE]
\* Mutation: an upload is stored as it came.
UnfittedFile(u) == [of |-> u, oversized |-> TRUE]
\* fitWithin: what is stored now is small enough.
File(u) == [of |-> u, oversized |-> FALSE]

ImagesInit ==
    /\ row = SeedRow
    /\ listed = TRUE
    /\ full = [p \in Pictures |->
                  IF p \in SeedPictured THEN [of |-> Legacy, oversized |-> TRUE] ELSE NoFile]
    /\ thumb = [p \in Pictures |-> None]
    /\ met = {}
    /\ left = [p \in Pictures |-> full[p].of]
    /\ req = [r \in Requests |-> NoRequest]

-----------------------------------------------------------------------------
(* The requests, and which of them meet on the files of a picture.          *)

Touches(q, p) == q.scope = p \/ (q.op = "DeleteWishlist" /\ p \in Wishes)
Touching(p) == {r \in InFlight : Touches(req[r], p)}
Torn(ps) == [p \in Pictures |-> IF p \in ps THEN "torn" ELSE left[p]]

\* A request arrives, and meets those in flight that are about the same picture.
Accept(r, op, p, x, program) ==
    LET q == [NoRequest EXCEPT !.op = op, !.scope = p]
        shared == {b \in Pictures : Touches(q, b) /\ Touching(b) # {}}
    IN  /\ Begin(r, op, None, p, program)
        /\ met' = met \cup UNION {(Touching(b) \cup {r}) \X {b} : b \in shared}
        /\ left' = Torn(shared)
        /\ UNCHANGED <<row, listed, files>>

\* writeImageVariants: the picture, then the thumbnail.
\* Mutation: the thumbnail is left to whoever reads it first.
writeFullVariant(p) == <<Call("WriteFull", p)>>
storeUploadedImage(p) == <<Call("WriteFull", p), Call("WriteThumbnail", p)>>

deleteImageFiles(p) == <<Call("RemoveFull", p), Call("RemoveThumbnail", p)>>

RegisterWish(r, p, upload) ==
    /\ p \in Wishes /\ row[p] = "absent"
    /\ Accept(r, "RegisterWish", p, None,
              <<Call("CreateWish", p)>>
                \o (IF upload THEN storeUploadedImage(p) ELSE <<>>))

\* APIUpdateWish and UpdateUser write the files, then Save the row they read.
Update(r, op, p, change) ==
    Accept(r, op, p, None,
           <<Call("GetRow", p)>>
             \o (CASE change = "upload" -> storeUploadedImage(p)
                   [] change = "delete" -> deleteImageFiles(p)
                   [] OTHER -> <<>>)
             \o <<Call("SaveRow", "enabled")>>)

APIUpdateWish(r, p, change) == p \in Wishes /\ Update(r, "APIUpdateWish", p, change)
UpdateUser(r, p, change) ==
    p \in Users /\ change # "delete" /\ Update(r, "UpdateUser", p, change)

\* Mutation: the files stay where they are.
DeleteRow(r, op, p) ==
    Accept(r, op, p, None, <<Call("GetRow", p), Call("SaveRow", "deleted")>>)

\* DeleteWish and APIDeleteUser Save the row they read, disabled, then remove
\* the files.
Delete(r, op, p) ==
    Accept(r, op, p, None,
           <<Call("GetRow", p), Call("SaveRow", "deleted")>>
             \o deleteImageFiles(p))

DeleteWish(r, p) == p \in Wishes /\ Delete(r, "DeleteWish", p)
APIDeleteUser(r, p) == p \in Users /\ Delete(r, "APIDeleteUser", p)

DeleteWishlist(r) ==
    Accept(r, "DeleteWishlist", None, None,
           <<Call("ownsList", None), Call("DeleteWishlist", None),
             Call("GetWishIDsFromWishlist", None)>>)

\* loadStoredImage reads the thumbnail first when it is asked for.
loadStoredImage(thumbnail) ==
    (IF thumbnail THEN <<Call("ReadThumbnail", thumbnail)>> ELSE <<>>)
      \o <<Call("ReadFull", thumbnail)>>

APIGetWishImage(r, p, thumbnail) ==
    /\ p \in Wishes
    /\ Accept(r, "APIGetWishImage", p, None,
              <<Call("GetWishlistByWishID", p)>> \o loadStoredImage(thumbnail))

APIGetUserProfileImage(r, p, thumbnail) ==
    /\ p \in Users
    /\ Accept(r, "APIGetUserProfileImage", p, None,
              <<Call("GetRow", p)>> \o loadStoredImage(thumbnail))

-----------------------------------------------------------------------------
(* The calls to the database.  Who may look at or change a picture is not a *)
(* matter of this module: a request that is refused ends like one whose     *)
(* call fails, before it has written anything.                              *)

\* The owner's check needs the wishlist to be there; a collaborator's does not.
OwnsList(r) ==
    /\ At(r, "ownsList")
    /\ IF listed THEN Done(r) ELSE Answer(r, "refused")
    /\ UNCHANGED <<row, listed, files, met, left>>

\* GetWishByWishID, GetAllUserInformation, GetUserInformation: enabled rows.
GetRow(r) ==
    /\ At(r, "GetRow")
    /\ IF row[Arg(r)] = "enabled" THEN Done(r) ELSE Answer(r, "refused")
    /\ UNCHANGED <<row, listed, files, met, left>>

GetWishlistByWishID(r) ==
    /\ At(r, "GetWishlistByWishID")
    /\ IF row[Arg(r)] = "enabled" /\ listed THEN Done(r) ELSE Answer(r, "refused")
    /\ UNCHANGED <<row, listed, files, met, left>>

CreateWish(r) ==
    /\ At(r, "CreateWish")
    /\ row' = [row EXCEPT ![Arg(r)] = "enabled"]
    /\ Done(r)
    /\ UNCHANGED <<listed, files, met, left>>

\* UpdateWishInDB, UpdateUserInDB: every column of the row as it was read, so
\* that an edit enables a row that was deleted since.
SaveRow(r) ==
    /\ At(r, "SaveRow")
    /\ row' = [row EXCEPT ![req[r].scope] = Arg(r)]
    /\ Done(r)
    /\ UNCHANGED <<listed, files, met, left>>

DisableWishlist(r) ==
    /\ At(r, "DeleteWishlist")
    /\ listed' = FALSE
    /\ Done(r)
    /\ UNCHANGED <<row, files, met, left>>

\* deleteWishlistImages removes the files of every wish there ever was.
GetWishIDsFromWishlist(r) ==
    /\ At(r, "GetWishIDsFromWishlist")
    /\ LET ids == SetToSeq({p \in Wishes : row[p] # "absent"})
       IN  Continue(r, None, None, ForEach(ids, 2, deleteImageFiles))
    /\ UNCHANGED <<row, listed, files, met, left>>

-----------------------------------------------------------------------------
(* The calls to the file system.                                            *)

\* The last file of a change is in place.
Settle(r, p, u) ==
    left' = [left EXCEPT ![p] = IF <<r, p>> \in met THEN @ ELSE u]

WriteFull(r) ==
    /\ At(r, "WriteFull")
    /\ full' = [full EXCEPT ![Arg(r)] = File(r)]
    /\ Done(r)
    /\ UNCHANGED <<row, listed, thumb, met, left>>

WriteThumbnail(r) ==
    /\ At(r, "WriteThumbnail")
    /\ thumb' = [thumb EXCEPT ![Arg(r)] = r]
    /\ Settle(r, Arg(r), r)
    /\ Done(r)
    /\ UNCHANGED <<row, listed, full, met>>

RemoveFull(r) ==
    /\ At(r, "RemoveFull")
    /\ full' = [full EXCEPT ![Arg(r)] = NoFile]
    /\ Done(r)
    /\ UNCHANGED <<row, listed, thumb, met, left>>

RemoveThumbnail(r) ==
    /\ At(r, "RemoveThumbnail")
    /\ thumb' = [thumb EXCEPT ![Arg(r)] = None]
    /\ Settle(r, Arg(r), None)
    /\ Done(r)
    /\ UNCHANGED <<row, listed, full, met>>

\* A file cannot be removed: the rest of this picture is left where it is.  That
\* is logged when the row is gone already, and an error for APIUpdateWish.
FailToRemove(r) ==
    /\ At(r, "RemoveFull") \/ At(r, "RemoveThumbnail")
    /\ LET rest == IF At(r, "RemoveFull") THEN Tail(Tail(req[r].todo)) ELSE Tail(req[r].todo)
       IN  IF req[r].op = "APIUpdateWish" THEN Answer(r, "error")
           ELSE Continue(r, req[r].scope, None, rest)
    /\ left' = Torn({Arg(r)})
    /\ UNCHANGED <<row, listed, files, met>>

ReadThumbnail(r) ==
    /\ At(r, "ReadThumbnail")
    /\ IF thumb[req[r].scope] # None THEN Answer(r, "ok") ELSE Done(r)
    /\ UNCHANGED <<row, listed, files, met, left>>

WriteBack(f, thumbnail) ==
    (IF f.oversized THEN <<Call("WriteBackFull", None)>> ELSE <<>>)
      \o (IF thumbnail THEN <<Call("WriteBackThumbnail", None)>> ELSE <<>>)

\* Without a file the default picture is served.  What is not stored in the size
\* asked for is made from what was read here, and written back.
ReadFull(r) ==
    /\ At(r, "ReadFull")
    /\ LET f == full[req[r].scope]
       IN  IF f = NoFile THEN Answer(r, "ok")
           ELSE Continue(r, req[r].scope, f.of, WriteBack(f, Arg(r)))
    /\ UNCHANGED <<row, listed, files, met, left>>

\* A failure to write back is logged: the picture is served all the same.
WriteBackFull(r) ==
    /\ At(r, "WriteBackFull")
    /\ \/ full' = [full EXCEPT ![req[r].scope] = File(req[r].found)]
       \/ UNCHANGED full
    /\ Done(r)
    /\ UNCHANGED <<row, listed, thumb, met, left>>

WriteBackThumbnail(r) ==
    /\ At(r, "WriteBackThumbnail")
    /\ \/ thumb' = [thumb EXCEPT ![req[r].scope] = req[r].found]
       \/ UNCHANGED thumb
    /\ Done(r)
    /\ UNCHANGED <<row, listed, full, met, left>>

\* A call fails or the process dies.  A request that still had files to remove,
\* or had written one file of two, leaves its picture torn.
AbandonRequest(r) ==
    /\ Abandon(r)
    /\ left' = Torn(IF Head(req[r].todo).do \in {"WriteThumbnail", "RemoveFull", "RemoveThumbnail"}
                    THEN {Arg(r)} ELSE {})
    /\ UNCHANGED <<row, listed, files, met>>

-----------------------------------------------------------------------------
TakeUpRequest(r) ==
    /\ MayBegin(r)
    /\ \/ \E p \in Wishes, upload \in BOOLEAN : RegisterWish(r, p, upload)
       \/ \E p \in Wishes, change \in {"upload", "delete", "none"} : APIUpdateWish(r, p, change)
       \/ \E p \in Users, change \in {"upload", "none"} : UpdateUser(r, p, change)
       \/ \E p \in Wishes : DeleteWish(r, p)
       \/ \E p \in Users : APIDeleteUser(r, p)
       \/ DeleteWishlist(r)
       \/ \E p \in Wishes, thumbnail \in BOOLEAN : APIGetWishImage(r, p, thumbnail)
       \/ \E p \in Users, thumbnail \in BOOLEAN : APIGetUserProfileImage(r, p, thumbnail)

HandleRequest(r) ==
    \/ OwnsList(r)
    \/ GetRow(r)
    \/ GetWishlistByWishID(r)
    \/ CreateWish(r)
    \/ SaveRow(r)
    \/ DisableWishlist(r)
    \/ GetWishIDsFromWishlist(r)
    \/ WriteFull(r)
    \/ WriteThumbnail(r)
    \/ RemoveFull(r)
    \/ RemoveThumbnail(r)
    \/ FailToRemove(r)
    \/ ReadThumbnail(r)
    \/ ReadFull(r)
    \/ WriteBackFull(r)
    \/ WriteBackThumbnail(r)

ImagesNext == \E r \in Requests : TakeUpRequest(r) \/ HandleRequest(r) \/ AbandonRequest(r)

\* Go runs every goroutine on, and no call here waits for another request.
Fairness == \A r \in Requests : WF_imageVars(HandleRequest(r))

ImagesSpec == ImagesInit /\ [][ImagesNext]_imageVars /\ Fairness

-----------------------------------------------------------------------------
ImagesTypeOK ==
    /\ row \in [Pictures -> {"absent", "enabled", "deleted"}]
    /\ listed \in BOOLEAN
    /\ full \in [Pictures -> [of: Uploads, oversized: BOOLEAN] \cup {NoFile}]
    /\ \A p \in Pictures : full[p].oversized => full[p].of = Legacy
    /\ thumb \in [Pictures -> Uploads \cup {None}]
    /\ met \subseteq Requests \X Pictures
    /\ left \in [Pictures -> Uploads \cup {None, "torn"}]
    /\ RequestsOK

\* Once nobody is busy with a picture, both of its files hold the upload that
\* was accepted last, or are gone when its removal was: unless requests about
\* it overlapped or one failed halfway, and then until the next that was left
\* alone.  A picture of an older version may have no thumbnail yet.
LastUploadIsShown ==
    \A p \in Pictures :
        left[p] # "torn" /\ Touching(p) = {} =>
            /\ full[p].of = left[p]
            /\ thumb[p] = left[p] \/ (left[p] = Legacy /\ thumb[p] = None)

\* The files of a deleted wish or user go away in the end, unless another
\* request about them overlapped or their removal failed, or the row came back.
DeletedPicturesVanish ==
    \A p \in Pictures :
        row[p] = "deleted" ~> \/ full[p] = NoFile /\ thumb[p] = None
                              \/ left[p] = "torn"

=============================================================================
