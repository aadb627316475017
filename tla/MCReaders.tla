----------------------------- MODULE MCReaders -----------------------------
(***************************************************************************)
(* Audience.tla, FeedPages.tla and ComposePages.tla side by side, each on an   *)
(* instance of its own.  The scene is a reader on any rows at all, or an editor *)
(* and a reader or two editors on a list of members, or a page of a list, or    *)
(* the forms posts and albums are written with.                              *)
(***************************************************************************)
EXTENDS Audience, TLC

CONSTANTS Row, Time, Kind, All, Limit, MaxAsked, MaxChanges, Tab, FirstItems, MaxTyped, MaxFails

(* Ids and times are numbers, a page has room; "none" stands for no form.          *)
ASSUME PagesAreFinite == Row \subseteq Nat /\ IsFiniteSet(Row) /\ Time \subseteq Nat /\ Limit \in Nat \ {0}
ASSUME NoneIsNoTab == "none" \notin Tab
ASSUME ItemsCounted == FirstItems \in Nat

VARIABLES scene, rows, filter, posts, cursor, hasMore, loading, failed, asked, owed, changes, stale,
          works, items, page, typed, others, lost, fails

pageVars == <<rows, filter, posts, cursor, hasMore, loading, failed, asked, owed, changes, stale>>
formVars == <<works, items, page, typed, others, lost, fails>>

KindOf == [i \in Row |-> IF i = 2 THEN "k2" ELSE "k1"]

Pages == INSTANCE FeedPages
Compose == INSTANCE ComposePages

NoRows == \A i \in Row : ~rows[i].readable /\ rows[i].at = 1

NoRequests == \A r \in Request : req[r] = Done

MemberLists ==
  /\ \A p \in Post : /\ post[p].category # Nobody /\ post[p].shown = "public" /\ ~post[p].draft
                     /\ post[p].author = owner[post[p].category]
  /\ \A c \in Category : shown[c] = "user_list"
  /\ \A u \in User : role[u] = IF \E c \in Category : owner[c] = u THEN "poster" ELSE "commenter"

OneList == MemberLists /\ \A c \in Category : members[c] = {owner[c]}

NoForms == \A e \in Tab : page[e].edit

Scenes ==
  /\ Init /\ Pages!Init /\ Compose!Init
  /\ \/ scene = "reader" /\ NoForms /\ NoRows /\ \A e \in Editor : req[e] = Done
     \/ scene = "editors" /\ NoForms /\ NoRows /\ MemberLists
     \/ scene = "pages" /\ NoForms /\ NoRequests /\ OneList
     \/ scene = "forms" /\ NoRows /\ NoRequests /\ OneList

Steps ==
  \/ scene \in {"reader", "editors"} /\ Next /\ UNCHANGED <<scene, pageVars, formVars>>
  \/ scene = "pages" /\ Pages!Next /\ UNCHANGED <<scene, vars, formVars>>
  \/ scene = "forms" /\ Compose!Next /\ UNCHANGED <<scene, vars, pageVars>>

MCSpec == Scenes /\ [][Steps]_<<scene, vars, pageVars, formVars>>

ListFollowsRows == Pages!ListFollowsRows
SavedAsSent == Compose!SavedAsSent

Symmetric == Permutations(User) \cup Permutations(Editor) \cup Permutations(Tab)
=============================================================================
