------------------------------- MODULE Wishes -------------------------------
(***************************************************************************)
(* The wishes on a wishlist and the categories that group them.             *)
(*                                                                          *)
(* Categories have no handler of their own: one appears when a wish names   *)
(* it, and the handler that takes the last wish out of it disables it.      *)
(***************************************************************************)
EXTENDS Sharing

CONSTANTS Wishes, Categories, CategoryNames, SeedWish, SeedCategory

VARIABLES
    wish,            \* wish[w]: its row, or NoWish
    category         \* category[c]: its row, or NoCategory

wishTables == <<wish, category>>
wishVars == <<sharingVars, wishTables>>

NoWish == [list |-> None, owner |-> None, enabled |-> FALSE, category |-> None]
NoCategory == [list |-> None, name |-> None, enabled |-> FALSE]

\* Rows that exist; a wish may have no category.
WishRow == [list: Lists, owner: Users, enabled: BOOLEAN,
            category: Categories \cup {None}]
CategoryRow == [list: Lists, name: CategoryNames, enabled: BOOLEAN]

\* The rows a request can have read or be about to create are in use.
Drafts == [row: [list: Lists, owner: Users, enabled: {TRUE}, category: Categories \cup {None}],
           choice: Categories \cup {None}, insider: BOOLEAN,
           claims: SUBSET [id: Nat, wish: Wishes, user: Users]]

ASSUME WishesAssumption ==
    /\ None \notin Drafts \cup Categories
    /\ IsFiniteSet(Wishes)

\* The rows at the start are of their columns' types.
ASSUME WishesSeedAssumption ==
    /\ SeedWish \in [Wishes -> WishRow \cup {NoWish}]
    /\ SeedCategory \in [Categories -> CategoryRow \cup {NoCategory}]

\* They are as the handlers leave them: a category in use is one of its name, has a
\* wish, and is of the list of its wishes.
ASSUME CategoriesSeedInOrder ==
    /\ \A w \in Wishes :
          SeedWish[w].enabled /\ SeedWish[w].category # None =>
              /\ SeedCategory[SeedWish[w].category].enabled
              /\ SeedCategory[SeedWish[w].category].list = SeedWish[w].list
    /\ \A c, d \in Categories :
          SeedCategory[c].enabled /\ SeedCategory[c] = SeedCategory[d] => c = d
    /\ \A c \in Categories :
          SeedCategory[c].enabled =>
              \E w \in Wishes : SeedWish[w].enabled /\ SeedWish[w].category = c

(***************************************************************************)
(* What a request about a wish has gathered: the wish's row as it was read  *)
(* (or as it will be created), the category resolved for it, what was read  *)
(* about the caller, and the claims read for display.                       *)
(***************************************************************************)
Draft(q) ==
    IF q.found # None THEN q.found
    ELSE [row |-> [list |-> q.scope, owner |-> q.caller,
                   enabled |-> TRUE, category |-> None],
          choice |-> None, insider |-> FALSE, claims |-> {}]

RememberIn(r, field, x) == Remember(r, [Draft(req[r]) EXCEPT ![field] = x])

\* How a request names the category: not at all, by id, or by a name that is
\* looked up and created when the wishlist has no category of that name.
CategoryChoices == {<<"none", None>>} \cup ({"id"} \X Categories) \cup ({"name"} \X CategoryNames)

ResolveWishCategoryForWish(choice) ==
    CASE choice[1] = "none" -> <<>>
      [] choice[1] = "id"   -> <<Call("selectCategory", choice[2])>>
      [] choice[1] = "name" -> <<Call("findCategory", choice[2]),
                                 Call("createCategory", choice[2])>>

CleanupWishCategoryIfEmpty ==
    <<Call("countWishes", None), Call("clearCategory", None),
      Call("disableCategory", None)>>

\* The reads ConvertWishToWishObject makes before it looks at the category.
ConvertWishToWishObject ==
    <<Call("creatorExists", None), Call("listExists", None),
      Call("listOwnerExists", None)>>

-----------------------------------------------------------------------------
WishPasses(q, c) ==
    LET l == q.found.row.list
    IN \/ c.do = "mayEditWish"
             /\ (q.found.insider \/ VerifyUserOwnershipToWishlist(q.caller, l))
       \/ c.do = "creatorExists"   /\ GetUserInformation(q.found.row.owner)
       \/ c.do = "listExists"      /\ GetWishlist(l)
       \/ c.do = "listOwnerExists" /\ GetUserInformation(list[l].owner)

WishChecks == {"mayEditWish", "creatorExists", "listExists", "listOwnerExists"}

WishCheck(r) ==
    /\ Guarded(r, WishChecks, WishPasses)
    /\ UNCHANGED <<tables, wishTables>>

RegisterWish(r) ==
    \E u \in Users, l \in Lists, choice \in CategoryChoices :
        Accept(r, "RegisterWish", u, l,
            <<Call("readEditor", None), Call("mayEditWish", None)>>
            \o ResolveWishCategoryForWish(choice) \o <<Call("createWish", None)>>)

APIUpdateWish(r) ==
    \E u \in Users, w \in Wishes, choice \in CategoryChoices :
        Accept(r, "APIUpdateWish", u, w,
            <<Call("readWish", None), Call("readEditor", None),
              Call("mayEditWish", None)>>
            \o ResolveWishCategoryForWish(choice)
            \o <<Call("saveWish", None)>> \o CleanupWishCategoryIfEmpty)

DeleteWish(r) ==
    \E u \in Users, w \in Wishes :
        Accept(r, "DeleteWish", u, w,
            <<Call("readWish", None)>> \o ConvertWishToWishObject
            \o <<Call("readEditor", None), Call("mayEditWish", None),
                 Call("disableWish", None)>>
            \o CleanupWishCategoryIfEmpty)

GetWishByWishID(r) ==
    /\ At(r, "readWish")
    /\ IF wish[req[r].scope].enabled
       THEN RememberIn(r, "row", wish[req[r].scope])
       ELSE Answer(r, "refused")
    /\ UNCHANGED <<tables, wishTables>>

ReadEditor(r) ==
    /\ At(r, "readEditor")
    /\ LET l == Draft(req[r]).row.list
       IN RememberIn(r, "insider", VerifyWishlistCollaboratorToWishlist(l, req[r].caller))
    /\ UNCHANGED <<tables, wishTables>>

\* Mutation: a category that was disabled can still be selected.
SelectableOnce(c, l) == category[c].list = l
Selectable(c, l) == category[c].enabled /\ category[c].list = l

GetWishCategoryByID(r) ==
    /\ At(r, "selectCategory")
    /\ IF Selectable(Arg(r), req[r].found.row.list)
       THEN RememberIn(r, "choice", Arg(r))
       ELSE Answer(r, "refused")
    /\ UNCHANGED <<tables, wishTables>>

GetWishCategoryByNameInWishlist(r) ==
    /\ At(r, "findCategory")
    /\ LET l == req[r].found.row.list
           rows == {c \in Categories : /\ category[c].enabled
                                       /\ category[c].list = l
                                       /\ category[c].name = Arg(r)}
       IN IF rows = {} THEN Done(r) ELSE \E c \in rows : RememberIn(r, "choice", c)
    /\ UNCHANGED <<tables, wishTables>>

\* Mutation: the category that was found is not used.
NeedsCategoryAnyway(q) == TRUE
NeedsCategory(q) == q.found.choice = None

CreateWishCategoryInDB(r) ==
    /\ At(r, "createCategory")
    /\ IF ~NeedsCategory(req[r])
       THEN Done(r) /\ UNCHANGED category
       ELSE \E c \in Categories :
                /\ category[c] = NoCategory
                /\ category' = [category EXCEPT ![c] =
                        [list |-> req[r].found.row.list, name |-> Arg(r), enabled |-> TRUE]]
                /\ RememberIn(r, "choice", c)
    /\ UNCHANGED <<tables, wish>>

CreateWishInDB(r) ==
    /\ At(r, "createWish")
    /\ \E w \in Wishes :
        /\ wish[w] = NoWish
        /\ wish' = [wish EXCEPT ![w] =
                [req[r].found.row EXCEPT !.category = req[r].found.choice]]
    /\ Done(r)
    /\ UNCHANGED <<tables, category>>

\* Both handlers Save the whole row they read: with the new category, or
\* disabled.  Only a category the wish was taken out of is looked at afterwards.
UpdateWishInDB(r) ==
    /\ LET q == req[r]
           Save(row) == wish' = [wish EXCEPT ![q.scope] = row]
           CleanUp(needed) ==
              req' = [req EXCEPT ![r] = IF needed THEN Advance(@) ELSE Finished("ok")]
       IN \/ /\ At(r, "saveWish")
             /\ Save([q.found.row EXCEPT !.category = q.found.choice])
             /\ CleanUp(q.found.row.category \notin {None, q.found.choice})
          \/ /\ At(r, "disableWish")
             /\ Save([q.found.row EXCEPT !.enabled = FALSE])
             /\ CleanUp(q.found.row.category # None)
    /\ UNCHANGED <<tables, category>>

\* Mutation: deleted wishes count as well.
CountWishesInCategory(c) == Cardinality({w \in Wishes : wish[w].category = c})
CountEnabledWishesInCategory(c) ==
    Cardinality({w \in Wishes : wish[w].enabled /\ wish[w].category = c})

CountWishes(r) ==
    /\ At(r, "countWishes")
    /\ IF CountEnabledWishesInCategory(req[r].found.row.category) = 0
       THEN Done(r)
       ELSE Answer(r, "ok")
    /\ UNCHANGED <<tables, wishTables>>

ClearWishCategoryFromWishes(r) ==
    /\ At(r, "clearCategory")
    /\ wish' = [w \in Wishes |->
                   IF wish[w].category = req[r].found.row.category
                   THEN [wish[w] EXCEPT !.category = None] ELSE wish[w]]
    /\ Done(r)
    /\ UNCHANGED <<tables, category>>

DeleteWishCategory(r) ==
    /\ At(r, "disableCategory")
    /\ category' = [category EXCEPT ![req[r].found.row.category].enabled = FALSE]
    /\ Done(r)
    /\ UNCHANGED <<tables, wish>>

-----------------------------------------------------------------------------
WishesInit == SharingInit /\ wish = SeedWish /\ category = SeedCategory

WishesRequest(r) ==
    MayBegin(r) /\ (RegisterWish(r) \/ APIUpdateWish(r) \/ DeleteWish(r))

WishesStep(r) ==
    \/ WishCheck(r)
    \/ GetWishByWishID(r) \/ ReadEditor(r)
    \/ GetWishCategoryByID(r) \/ GetWishCategoryByNameInWishlist(r)
    \/ CreateWishCategoryInDB(r) \/ CreateWishInDB(r) \/ UpdateWishInDB(r)
    \/ CountWishes(r) \/ ClearWishCategoryFromWishes(r) \/ DeleteWishCategory(r)

WishesNext ==
    \E r \in Requests :
        \/ (SharingRequest(r) \/ SharingStep(r) \/ WishesRequest(r)) /\ UNCHANGED wishTables
        \/ WishesStep(r)

WishesSpec == WishesInit /\ [][WishesNext]_wishVars

-----------------------------------------------------------------------------
\* Every wish and category is a row of its columns' types.
WishesTypeOK ==
    /\ wish \in [Wishes -> WishRow \cup {NoWish}]
    /\ category \in [Categories -> CategoryRow \cup {NoCategory}]

\* The category of a wish on show is in use and belongs to the wish's list:
\* CleanupWishCategoryIfEmpty detaches before it disables, and a wish takes its
\* category only from its own wishlist.
NoDanglingCategory ==
    \A w \in Wishes :
        wish[w].enabled /\ wish[w].category # None =>
            /\ category[wish[w].category].enabled
            /\ category[wish[w].category].list = wish[w].list

\* A wishlist has one category of a name: a second request for the name reuses it.
OneCategoryPerName ==
    \A c, d \in Categories :
        category[c].enabled /\ category[c] = category[d] => c = d

\* Once every request has been answered without a failure, no category is left
\* without a wish: the handler that takes the last wish out disables it.
NoEmptyCategory ==
    (\A r \in Requests : req[r].reply \notin {"pending", "error"}) =>
        \A c \in Categories :
            category[c].enabled => \E w \in Wishes : wish[w].enabled /\ wish[w].category = c

=============================================================================
