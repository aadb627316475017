------------------------------ MODULE Audience ------------------------------
(***************************************************************************)
(* Who reads what: src/src/visibility/mod.rs, the categories with their      *)
(* members (src/src/categories) and the handlers that serve a post, an album, *)
(* an article or an attachment by its id.                                    *)
(*                                                                          *)
(* A reading request takes its caller's role from the session, then the row, *)
(* then the row's category, then the categories open to the caller, each in  *)
(* a statement of its own, while rows, categories, members and roles change. *)
(* replace_members empties and refills a list in one transaction.            *)
(*                                                                          *)
(* Settings that only refuse (public_feed_enabled for visitors,              *)
(* poster_category_management_enabled for posters) may refuse at any time.   *)
(***************************************************************************)
EXTENDS Naturals, FiniteSets

CONSTANTS User, Category, Post,
          Reader,     \* requests that read one row
          Editor,     \* requests that replace a list of members
          Nobody,     \* a visitor without a session; also "no value"
          MaxWrites   \* bound on the writes beside theirs

ASSUME NobodyIsNoUser == Nobody \notin User \cup Category

PostTier == {"public", "commenters", "posters", "private"}
CategoryTier == PostTier \cup {"user_list"}
Role == {"administrator", "poster", "commenter"}

Request == Reader \cup Editor

VARIABLES
  role,      \* users.role
  shown,     \* categories.visibility, or "gone"
  owner,     \* categories.created_by
  members,   \* rows of category_member
  post,      \* rows of posts, with is_draft of article_details
  req,       \* the requests
  listed,    \* history: the list that replaced a category's members last
  joined,    \* history: who was added by other requests since that list was taken up
  writes     \* how many writes there have been

vars == <<role, shown, owner, members, post, req, listed, joined, writes>>

Idle == [pc |-> "idle", who |-> Nobody, as |-> "none", post |-> Nobody, row |-> Nobody, cat |-> Nobody, tier |-> "private",
         list |-> {}, gone |-> {}, joined |-> {}, ever |-> FALSE, public |-> FALSE, calm |-> TRUE]

Done == [Idle EXCEPT !.pc = "done"]

Rows == [author : User, shown : PostTier, category : Category \cup {Nobody},
         draft : BOOLEAN, live : BOOLEAN]

Pending ==
  [pc : {"idle", "gated", "found", "placed", "drafty", "replacing", "done"},
   who : User \cup {Nobody}, as : Role \cup {"none"}, post : Post \cup {Nobody}, row : Rows \cup {Nobody},
   cat : Category \cup {Nobody}, tier : CategoryTier,
   list : SUBSET User, gone : SUBSET User, joined : SUBSET User,
   ever : BOOLEAN, public : BOOLEAN, calm : BOOLEAN]

TypeOK ==
  /\ role \in [User -> Role] /\ shown \in [Category -> CategoryTier \cup {"gone"}]
  /\ owner \in [Category -> User] /\ members \in [Category -> SUBSET User]
  /\ post \in [Post -> Rows] /\ writes \in Nat
  /\ listed \in [Category -> SUBSET User] /\ joined \in [Category -> SUBSET User]
  /\ req \in [Request -> Pending]

(* Rows of any content, as the handlers below create them; not every request   *)
(* need come.                                                                *)
Init ==
  /\ role \in [User -> Role] /\ owner \in [Category -> User]
  /\ shown \in [Category -> CategoryTier \cup {"gone"}]
  /\ members \in [Category -> SUBSET User]
  /\ \A c \in Category : IF shown[c] = "user_list" THEN owner[c] \in members[c] ELSE members[c] = {}
  /\ post \in [Post -> Rows]
  /\ \A p \in Post : /\ post[p].live
                     /\ post[p].draft => post[p].shown = "private"
                     /\ post[p].category # Nobody => shown[post[p].category] # "gone"
  /\ req \in [Request -> {Idle, Done}]
  /\ listed = members /\ joined = [c \in Category |-> {}] /\ writes = 0

-----------------------------------------------------------------------------
(* The rule, in SQL and in Rust.                                             *)

RoleOf(u) == IF u = Nobody THEN "none" ELSE role[u]

AllowedVisibilities(r) ==
  CASE r \in {"administrator", "poster"} -> {"public", "commenters", "posters"}
    [] r = "commenter" -> {"public", "commenters"}
    [] OTHER -> {"public"}

(* resolve_accessible_categories for a caller u of role r: one SELECT.        *)
AccessibleCategories(u, r) ==
  {c \in Category :
     /\ shown[c] # "gone"
     /\ \/ r = "administrator"
        \/ shown[c] \in AllowedVisibilities(r)
        \/ u = owner[c]
        \/ shown[c] = "user_list" /\ u \in members[c]}

Ctx(u, r) == [who |-> u, role |-> r, open |-> AccessibleCategories(u, r)]

(* Mutant: the row's own tier also lists a row of a category.                  *)
ListsEither(ctx, row) ==
  \/ row.shown \in AllowedVisibilities(ctx.role)
  \/ ctx.who # Nobody /\ row.author = ctx.who
  \/ row.category \in ctx.open

(* feed_condition, the predicate of every listing.                           *)
FeedCondition(ctx, row) ==
  \/ /\ row.category = Nobody
     /\ \/ row.shown \in AllowedVisibilities(ctx.role)
        \/ ctx.who # Nobody /\ row.shown = "private" /\ row.author = ctx.who
  \/ /\ row.category # Nobody
     /\ \/ ctx.who # Nobody /\ row.author = ctx.who
        \/ row.category \in ctx.open

CanReadPost(ctx, row) ==
  IF row.shown = "private" THEN ctx.who = row.author
  ELSE row.shown \in AllowedVisibilities(ctx.role)

CanViewCategory(ctx, c) == ctx.role = "administrator" \/ c \in ctx.open

(* Mutant: the row's own visibility opens it as well.                         *)
PermitsEither(ctx, row, c) ==
  \/ CanReadPost(ctx, row)
  \/ c # Nobody /\ (ctx.who = row.author \/ CanViewCategory(ctx, c))

(* permits_read, with the category as it was found, for a row by itself.      *)
PermitsRead(ctx, row, c) ==
  IF c # Nobody THEN ctx.who = row.author \/ CanViewCategory(ctx, c)
  ELSE CanReadPost(ctx, row)

(* What both promise: the category's audience, or else the row's own tier; the *)
(* author always.                                                            *)
Entitled(u, p) ==
  LET row == post[p]  c == row.category  tiers == AllowedVisibilities(RoleOf(u)) IN
  /\ row.live
  /\ \/ u = row.author
     \/ c = Nobody /\ row.shown \in tiers
     \/ /\ c # Nobody
        /\ \/ shown[c] \in tiers \/ u = owner[c] \/ RoleOf(u) = "administrator"
           \/ shown[c] = "user_list" /\ u \in members[c]

Readers == [p \in Post |-> {u \in User \cup {Nobody} : Entitled(u, p)}]

-----------------------------------------------------------------------------
(* Requests that read one row.                                               *)

Answer(r) == req' = [req EXCEPT ![r] = Done]

(* The session's user, with the role it has now.                             *)
Arrive(r, u, p) ==
  /\ req[r].pc = "idle"
  /\ req' = [req EXCEPT ![r] = [Idle EXCEPT !.pc = "gated", !.who = u, !.as = RoleOf(u), !.post = p,
                                            !.ever = u \in Readers[p], !.public = Nobody \in Readers[p]]]
  /\ UNCHANGED <<role, shown, owner, members, post, listed, joined, writes>>

(* load_post, find_post_active.                                              *)
FindRow(r) ==
  /\ req[r].pc = "gated" /\ post[req[r].post].live
  /\ req' = [req EXCEPT ![r].pc = "found", ![r].row = post[req[r].post]]
  /\ UNCHANGED <<role, shown, owner, members, post, listed, joined, writes>>

Exists(c) == c # Nobody /\ shown[c] # "gone"

(* The category found, and the visibility that decides on Cache-Control.       *)
FindCategory(r) ==
  LET c == req[r].row.category IN
  /\ req[r].pc = "found"
  /\ req' = [req EXCEPT ![r].pc = "placed",
                        ![r].cat = IF Exists(c) THEN c ELSE Nobody,
                        ![r].tier = IF Exists(c) THEN shown[c] ELSE req[r].row.shown]
  /\ UNCHANGED <<role, shown, owner, members, post, listed, joined, writes>>

(* Whether a request may answer with the row.                                *)
Granted(r) ==
  /\ req[r].pc = "placed"
  /\ PermitsRead(Ctx(req[r].who, req[r].as), req[r].row, req[r].cat)

(* get_post, get_album, serve_media, get_media_variants, load_visible_post.   *)
Serve(r) ==
  /\ Granted(r)
  /\ Answer(r)
  /\ UNCHANGED <<role, shown, owner, members, post, listed, joined, writes>>

(* get_article looks at the details only after that.                          *)
GrantArticle(r) ==
  /\ Granted(r)
  /\ req' = [req EXCEPT ![r].pc = "drafty"]
  /\ UNCHANGED <<role, shown, owner, members, post, listed, joined, writes>>

ServeArticle(r) ==
  /\ req[r].pc = "drafty"
  /\ \/ ~post[req[r].post].draft
     \/ req[r].who = req[r].row.author
     \/ req[r].as = "administrator"
  /\ Answer(r)
  /\ UNCHANGED <<role, shown, owner, members, post, listed, joined, writes>>

(* A row that is not there or not for the caller: not found in either case.   *)
Refuse(r) ==
  /\ req[r].pc \notin {"idle", "done"}
  /\ Answer(r)
  /\ UNCHANGED <<role, shown, owner, members, post, listed, joined, writes>>

-----------------------------------------------------------------------------
(* Writes, while a request is under way: Init has the others' outcomes.       *)
Write ==
  /\ writes < MaxWrites /\ writes' = writes + 1
  /\ \E r \in Request : req[r].pc \notin {"idle", "done"}

(* History: what became true of the requests under way.                       *)

Observed(r) == req[r].pc \in {"gated", "found", "placed", "drafty"}

Observe(r, calm) ==
  IF Observed(r)
  THEN [req[r] EXCEPT !.ever = @ \/ req[r].who \in Readers'[req[r].post],
                      !.public = @ \/ Nobody \in Readers'[req[r].post],
                      !.calm = @ /\ calm]
  ELSE req[r]

Watch(calm(_)) == req' = [r \in Request |-> Observe(r, calm(r))]

Still(r) == TRUE

(* update_admin_user's role.                                                 *)
ChangeRole(u, t) ==
  LET Unaffected(r) == req[r].who # u IN
  /\ Write
  /\ role' = [role EXCEPT ![u] = t]
  /\ UNCHANGED <<shown, owner, members, post, listed, joined>>
  /\ Watch(Unaffected)

(* A write to one row of posts.                                              *)
WritePost(p, row) ==
  LET Elsewhere(r) == req[r].post # p IN
  /\ Write /\ post[p].live
  /\ post' = [post EXCEPT ![p] = row]
  /\ UNCHANGED <<role, shown, owner, members, listed, joined>>
  /\ Watch(Elsewhere)

Edits(u, p) == u = post[p].author \/ role[u] = "administrator"

(* ensure_can_compose_into_category.  The check and the write are two          *)
(* statements; what happens between them may as well happen after the second. *)
MayCompose(u, c) ==
  /\ shown[c] # "gone"
  /\ \/ role[u] = "administrator"
     \/ shown[c] \in {"public", "commenters", "posters"}
     \/ shown[c] = "user_list" /\ u \in members[c]
     \/ shown[c] = "private" /\ u = owner[c]

(* update_post, update_album, update_article: a visibility (a draft's is        *)
(* pinned), a category the caller may compose into, or none.                  *)
UpdatePost(u, p, t, c) ==
  /\ Edits(u, p)
  /\ c \notin {Nobody, post[p].category} => MayCompose(u, c)
  /\ post[p].draft => t = "private"
  /\ WritePost(p, [post[p] EXCEPT !.shown = t, !.category = c])

PublishArticle(u, p, t) ==
  /\ Edits(u, p) /\ post[p].draft
  /\ WritePost(p, [post[p] EXCEPT !.shown = t, !.draft = FALSE])

DeletePost(u, p) ==
  /\ Edits(u, p)
  /\ WritePost(p, [post[p] EXCEPT !.live = FALSE])

-----------------------------------------------------------------------------
(* Categories and members.                                                   *)

CanManage(u, c) ==
  /\ shown[c] # "gone"
  /\ (role[u] = "administrator" \/ (role[u] = "poster" /\ owner[c] = u))

Join(c, us) ==
  /\ members' = [members EXCEPT ![c] = @ \cup us]
  /\ joined' = [joined EXCEPT ![c] = @ \cup us]

(* History: pending lists learn of who was added meanwhile.                   *)
WatchJoin(c, us) ==
  req' = [r \in Request |->
            IF req[r].pc = "replacing" /\ req[r].cat = c THEN [req[r] EXCEPT !.joined = @ \cup us]
            ELSE Observe(r, TRUE)]

CreateCategory(u, c, t) ==
  /\ Write /\ shown[c] = "gone" /\ role[u] \in {"administrator", "poster"}
  /\ shown' = [shown EXCEPT ![c] = t] /\ owner' = [owner EXCEPT ![c] = u]
  /\ members' = [members EXCEPT ![c] = IF t = "user_list" THEN {u} ELSE {}]
  /\ listed' = [listed EXCEPT ![c] = members'[c]] /\ joined' = [joined EXCEPT ![c] = {}]
  /\ UNCHANGED <<role, post>>
  /\ Watch(Still)

(* update_category, which puts the owner on the list of a user_list.           *)
UpdateCategory(u, c, t) ==
  LET owners == IF t = "user_list" THEN {owner[c]} \ members[c] ELSE {} IN
  /\ Write /\ CanManage(u, c)
  /\ shown' = [shown EXCEPT ![c] = t]
  /\ Join(c, owners)
  /\ UNCHANGED <<role, owner, post, listed>>
  /\ WatchJoin(c, owners)

(* The foreign keys take the members along and clear the posts' category_id.   *)
DeleteCategory(u, c) ==
  LET Elsewhere(r) == post[req[r].post].category # c IN
  /\ Write /\ CanManage(u, c)
  /\ \A r \in Request : req[r].pc = "replacing" => req[r].cat # c
  /\ shown' = [shown EXCEPT ![c] = "gone"]
  /\ members' = [members EXCEPT ![c] = {}]
  /\ listed' = [listed EXCEPT ![c] = {}] /\ joined' = [joined EXCEPT ![c] = {}]
  /\ post' = [p \in Post |-> IF post[p].category = c THEN [post[p] EXCEPT !.category = Nobody]
                             ELSE post[p]]
  /\ UNCHANGED <<role, owner>>
  /\ Watch(Elsewhere)

(* A row a transaction has deleted is locked until it ends: an add finds it    *)
(* still there and does nothing, a removal waits.                             *)
Locked(c, w) == \E r \in Request : req[r].pc = "replacing" /\ req[r].cat = c /\ w \in req[r].gone

AddMember(u, c, w) ==
  /\ Write /\ CanManage(u, c) /\ w \notin members[c]
  /\ Join(c, {w})
  /\ UNCHANGED <<role, shown, owner, post, listed>>
  /\ WatchJoin(c, {w})

RemoveMember(u, c, w) ==
  /\ Write /\ CanManage(u, c) /\ owner[c] # w /\ w \in members[c] /\ ~Locked(c, w)
  /\ members' = [members EXCEPT ![c] = @ \ {w}]
  /\ UNCHANGED <<role, shown, owner, post, listed, joined>>
  /\ Watch(Still)

(* Mutant: any list will do.                                                 *)
AnyList(c, list) == list \subseteq User

ListHasCreator(c, list) == owner[c] \in list

(* replace_members up to its DELETE, which sees the rows of this moment.       *)
TakeUpList(r, u, c, list) ==
  /\ req[r].pc = "idle"
  /\ CanManage(u, c) /\ ListHasCreator(c, list)
  /\ req' = [req EXCEPT ![r] = [Idle EXCEPT !.pc = "replacing", !.cat = c, !.list = list,
                                            !.gone = members[c]]]
  /\ UNCHANGED <<role, shown, owner, members, post, listed, joined, writes>>

(* Its inserts and COMMIT: the key of category_member refuses one who has       *)
(* become a member since.  The rows it deleted are gone for other lists, whose *)
(* own DELETE does not see the new ones.                                     *)
ReplaceMembers(r) ==
  LET q == req[r]  c == q.cat  kept == members[c] \ q.gone IN
  /\ q.pc = "replacing"
  /\ kept \cap q.list = {}
  /\ members' = [members EXCEPT ![c] = kept \cup q.list]
  /\ listed' = [listed EXCEPT ![c] = q.list] /\ joined' = [joined EXCEPT ![c] = q.joined]
  /\ UNCHANGED <<role, shown, owner, post, writes>>
  /\ req' = [s \in Request |->
               IF s = r THEN Done
               ELSE IF req[s].pc = "replacing" /\ req[s].cat = c
               THEN [req[s] EXCEPT !.gone = @ \ (q.gone \cup q.list)]
               ELSE Observe(s, TRUE)]

-----------------------------------------------------------------------------
Read(r) ==
  \/ \E u \in User \cup {Nobody}, p \in Post : Arrive(r, u, p)
  \/ FindRow(r) \/ FindCategory(r) \/ Serve(r) \/ GrantArticle(r) \/ ServeArticle(r) \/ Refuse(r)

Replace(r) ==
  \/ \E u \in User, c \in Category, list \in SUBSET User : TakeUpList(r, u, c, list)
  \/ ReplaceMembers(r) \/ Refuse(r)

Change(u) ==
  \/ \E t \in Role : ChangeRole(u, t)
  \/ \E p \in Post, t \in PostTier :
       PublishArticle(u, p, t) \/ \E c \in Category \cup {Nobody} : UpdatePost(u, p, t, c)
  \/ \E p \in Post : DeletePost(u, p)
  \/ \E c \in Category, t \in CategoryTier : CreateCategory(u, c, t) \/ UpdateCategory(u, c, t)
  \/ \E c \in Category : DeleteCategory(u, c)
  \/ \E c \in Category, w \in User : AddMember(u, c, w) \/ RemoveMember(u, c, w)

Next ==
  \/ \E r \in Reader : Read(r)
  \/ \E u \in User : Change(u)
  \/ \E r \in Editor : Replace(r)

Spec == Init /\ [][Next]_vars

-----------------------------------------------------------------------------
(* feed_condition and permits_read "so the same rule fires everywhere": for any *)
(* row, caller, category and membership, a listing has what its page serves.   *)
ListingAgreesWithPage ==
  \A u \in User \cup {Nobody}, p \in Post :
    LET ctx == Ctx(u, RoleOf(u))  row == post[p] IN
    row.live => (FeedCondition(ctx, row) <=> PermitsRead(ctx, row, row.category))

(* The handlers' reads are spread over time: what a request serves, its caller  *)
(* was entitled to at some instant of it, and what it lets shared caches keep   *)
(* ("public bytes can live in any cache") everybody was, unless the row, or the *)
(* caller's role, changed on the way.                                        *)
ServedWasReadable ==
  [][\A r \in Request :
       /\ (Serve(r) \/ ServeArticle(r)) => req[r].ever \/ ~req[r].calm
       /\ Serve(r) /\ req[r].tier = "public" => req[r].public \/ ~req[r].calm]_vars

(* replace_members: lists sent at the same time are never mixed; whoever is a   *)
(* member is on the last list, or was added by another request after it.      *)
NoMixedLists == \A c \in Category : members[c] \subseteq listed[c] \cup joined[c]

(* get_article, "a draft is invisible to everyone except its author regardless  *)
(* of the row's visibility value", administrators aside.                      *)
DraftsAreInvisible ==
  [][\A r \in Request :
       Serve(r) /\ post[req[r].post].draft =>
         req[r].who = req[r].row.author \/ req[r].as = "administrator"]_vars
=============================================================================
