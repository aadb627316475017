--------------------------- MODULE ReadersProofs ---------------------------
(***************************************************************************)
(* Audience.tla for any users, categories, posts, requests and writes;          *)
(* FeedPages.tla for any rows, kinds, pages and requests; ComposePages.tla for    *)
(* any tabs, items, texts, files and failures.                                *)
(*                                                                          *)
(* A request that reads is followed through its statements: as long as it is  *)
(* calm, what it holds is what the tables hold, and whoever is entitled to     *)
(* the row at any moment has been seen to be.  A request that replaces a list  *)
(* either still accounts for every member, or the owner has come back with     *)
(* another list, and its own insert will be refused.                          *)
(*                                                                          *)
(* A list of pages is a part of the rows in order, from the start to the cursor,  *)
(* and so is, from the cursor it was asked with to its own, a page that is on the *)
(* way; no other request of this filter is.                                    *)
(*                                                                          *)
(* A form knows which of its captions the server may not have: those marked, and   *)
(* among what was sent those still to do.  Its files are its own, and none has an  *)
(* item before the request that makes it one is done.                          *)
(***************************************************************************)
EXTENDS MCReaders, Sequences, FiniteSetTheorems, TLAPS

Reading(r) ==
  Observed(r) =>
    LET q == req[r] IN
    /\ q.post \in Post
    /\ q.who \in Readers[q.post] => q.ever
    /\ Nobody \in Readers[q.post] => q.public
    /\ q.calm => q.as = RoleOf(q.who)
    /\ q.pc # "gated" => q.row \in Rows /\ (q.calm => q.row = post[q.post] /\ q.row.live)
    /\ q.pc \in {"placed", "drafty"} /\ q.calm =>
         q.cat = q.row.category /\ (q.tier = "public" => q.public)
    /\ q.pc = "drafty" /\ q.calm => q.ever

Replacing(r) ==
  req[r].pc = "replacing" =>
    LET q == req[r] IN
    /\ q.cat \in Category /\ shown[q.cat] # "gone" /\ owner[q.cat] \in q.list
    /\ \/ members[q.cat] \subseteq q.gone \cup q.joined
       \/ owner[q.cat] \in members[q.cat] \ q.gone

(* A category in use is there: the foreign key clears category_id.             *)
FiledInv == \A p \in Post : post[p].live /\ post[p].category # Nobody => shown[post[p].category] # "gone"

IInv ==
  /\ TypeOK /\ FiledInv /\ NoMixedLists
  /\ \A r \in Request : Reading(r) /\ Replacing(r)

-----------------------------------------------------------------------------
(* The rule.                                                                 *)

LEMMA Tiers ==
  ASSUME NEW r
  PROVE  /\ AllowedVisibilities(r) \subseteq {"public", "commenters", "posters"}
         /\ "public" \in AllowedVisibilities(r)
BY DEF AllowedVisibilities

LEMMA OpenTo ==
  ASSUME NEW u, NEW t, NEW c \in Category, shown[c] # "gone"
  PROVE  c \in AccessibleCategories(u, t) <=>
           \/ t = "administrator" \/ shown[c] \in AllowedVisibilities(t) \/ u = owner[c]
           \/ shown[c] = "user_list" /\ u \in members[c]
BY DEF AccessibleCategories

(* permits_read lets nobody have a row, in a category that is there or in none,   *)
(* whom its promise leaves out.                                              *)
LEMMA PageRule ==
  ASSUME TypeOK, NEW u \in User \cup {Nobody}, NEW p \in Post, post[p].live,
         post[p].category # Nobody => shown[post[p].category] # "gone",
         PermitsRead(Ctx(u, RoleOf(u)), post[p], post[p].category)
  PROVE  Entitled(u, p)
<1> DEFINE row == post[p]  c == row.category  t == RoleOf(u)
<1>1. c \in Category \cup {Nobody}
  BY DEF TypeOK, Rows
<1>2. CASE c = Nobody
  <2>1. CanReadPost(Ctx(u, t), row)
    BY <1>2 DEF PermitsRead
  <2> QED BY <1>2, <2>1 DEF CanReadPost, Ctx, Entitled
<1>3. CASE c # Nobody
  BY <1>1, <1>3, OpenTo DEF PermitsRead, CanViewCategory, Entitled, Ctx
<1> QED BY <1>2, <1>3

(* The two predicates, on a row by itself.                                    *)
LEMMA OneRule ==
  ASSUME TypeOK, NEW u \in User \cup {Nobody}, NEW p \in Post,
         post[p].category # Nobody => shown[post[p].category] # "gone"
  PROVE  FeedCondition(Ctx(u, RoleOf(u)), post[p])
           <=> PermitsRead(Ctx(u, RoleOf(u)), post[p], post[p].category)
<1> DEFINE row == post[p]  c == row.category  t == RoleOf(u)  ctx == Ctx(u, t)
<1>1. row.author \in User /\ c \in Category \cup {Nobody}
  BY DEF TypeOK, Rows
<1>2. row.author # Nobody
  BY <1>1, NobodyIsNoUser
<1>3. ctx.who = u /\ ctx.role = t /\ ctx.open = AccessibleCategories(u, t)
  BY DEF Ctx
<1> HIDE DEF ctx
<1>4. CASE c = Nobody
  <2>1. "private" \notin AllowedVisibilities(t)
    BY Tiers
  <2>2. FeedCondition(ctx, row) <=>
          row.shown \in AllowedVisibilities(t) \/ (u # Nobody /\ row.shown = "private" /\ row.author = u)
    BY <1>3, <1>4 DEF FeedCondition
  <2>3. PermitsRead(ctx, row, c) <=>
          IF row.shown = "private" THEN u = row.author ELSE row.shown \in AllowedVisibilities(t)
    BY <1>3, <1>4 DEF PermitsRead, CanReadPost
  <2>4. FeedCondition(ctx, row) <=> PermitsRead(ctx, row, c)
    BY <1>2, <2>1, <2>2, <2>3
  <2> QED BY <2>4 DEF ctx
<1>5. CASE c # Nobody
  <2>1. t = "administrator" => c \in AccessibleCategories(u, t)
    BY <1>1, <1>5, OpenTo
  <2>2. FeedCondition(ctx, row) <=> (u # Nobody /\ row.author = u) \/ c \in AccessibleCategories(u, t)
    BY <1>3, <1>5 DEF FeedCondition
  <2>3. PermitsRead(ctx, row, c) <=> u = row.author \/ t = "administrator" \/ c \in AccessibleCategories(u, t)
    BY <1>3, <1>5 DEF PermitsRead, CanViewCategory
  <2>4. FeedCondition(ctx, row) <=> PermitsRead(ctx, row, c)
    BY <1>2, <2>1, <2>2, <2>3
  <2> QED BY <2>4 DEF ctx
<1> QED BY <1>4, <1>5

LEMMA ReadersAre ==
  ASSUME NEW u \in User \cup {Nobody}, NEW p \in Post
  PROVE  u \in Readers[p] <=> Entitled(u, p)
BY DEF Readers

LEMMA Agree == TypeOK /\ FiledInv => ListingAgreesWithPage
<1> SUFFICES ASSUME TypeOK, FiledInv, NEW u \in User \cup {Nobody}, NEW p \in Post, post[p].live
             PROVE  FeedCondition(Ctx(u, RoleOf(u)), post[p])
                      <=> PermitsRead(Ctx(u, RoleOf(u)), post[p], post[p].category)
  BY DEF ListingAgreesWithPage
<1>1. post[p].category # Nobody => shown[post[p].category] # "gone"
  BY DEF FiledInv
<1> QED BY <1>1, OneRule
-----------------------------------------------------------------------------
(* Steps.  A write goes on beside the requests, which note what it does.       *)

Noted(s, calm) ==
  LET q == req[s]  n == req'[s] IN
  /\ n.pc = q.pc /\ n.who = q.who /\ n.as = q.as /\ n.post = q.post /\ n.row = q.row
  /\ n.cat = q.cat /\ n.tier = q.tier /\ n.list = q.list /\ n.gone = q.gone
  /\ q.ever => n.ever
  /\ q.public => n.public
  /\ Observed(s) => /\ q.who \in Readers'[q.post] => n.ever
                    /\ Nobody \in Readers'[q.post] => n.public
                    /\ n.calm => q.calm /\ calm

LEMMA ObserveNotes ==
  ASSUME TypeOK, NEW s \in Request, NEW calm \in BOOLEAN, req'[s] = Observe(s, calm)
  PROVE  req'[s] \in Pending /\ Noted(s, calm) /\ req'[s].joined = req[s].joined
<1>1. req[s] \in Pending
  BY DEF TypeOK
<1>2. CASE ~Observed(s)
  BY <1>1, <1>2 DEF Observe, Noted
<1>3. CASE Observed(s)
  <2> DEFINE e == req[s].ever \/ req[s].who \in Readers'[req[s].post]
             p == req[s].public \/ Nobody \in Readers'[req[s].post]
             c == req[s].calm /\ calm
             n == [req[s] EXCEPT !.ever = e, !.public = p, !.calm = c]
  <2>1. e \in BOOLEAN /\ p \in BOOLEAN /\ c \in BOOLEAN
    BY <1>1 DEF Pending
  <2>2. req'[s] = n
    BY <1>3 DEF Observe
  <2>3. /\ n \in Pending /\ n.ever = e /\ n.public = p /\ n.calm = c
        /\ n.pc = req[s].pc /\ n.who = req[s].who /\ n.as = req[s].as /\ n.post = req[s].post
        /\ n.row = req[s].row /\ n.cat = req[s].cat /\ n.tier = req[s].tier
        /\ n.list = req[s].list /\ n.gone = req[s].gone /\ n.joined = req[s].joined
    <3> HIDE DEF e, p, c
    <3> QED BY <1>1, <2>1 DEF Pending
  <2> HIDE DEF n
  <2>4. Noted(s, calm)
    BY <2>2, <2>3 DEF Noted
  <2> QED BY <2>2, <2>3, <2>4
<1> QED BY <1>2, <1>3

LEMMA WriteKeepsReading ==
  ASSUME NEW s \in Request, NEW calm, Reading(s), Noted(s, calm),
         Observed(s) /\ calm => RoleOf(req[s].who)' = RoleOf(req[s].who) /\ post'[req[s].post] = post[req[s].post]
  PROVE  Reading(s)'
<1> SUFFICES ASSUME Observed(s)' PROVE Reading(s)'
  BY DEF Reading
<1>1. Observed(s)
  BY DEF Observed, Noted
<1> QED BY <1>1 DEF Reading, Noted, RoleOf

LEMMA SameReaders ==
  ASSUME UNCHANGED <<role, shown, owner, members, post>>
  PROVE  Readers' = Readers
BY DEF Readers, Entitled, RoleOf, AllowedVisibilities
(* A request that is not the writer's: what a write owes it.                    *)
Beside(s) ==
  /\ req'[s] \in Pending
  /\ \E calm \in BOOLEAN :
       /\ Noted(s, calm)
       /\ Observed(s) /\ calm =>
            RoleOf(req[s].who)' = RoleOf(req[s].who) /\ post'[req[s].post] = post[req[s].post]

LEMMA BesideReading == ASSUME NEW s \in Request, Reading(s), Beside(s) PROVE Reading(s)'
BY WriteKeepsReading DEF Beside

(* The lists as a replacement in progress sees them.                          *)
LEMMA BesideReplacing ==
  ASSUME NEW s \in Request, Replacing(s), Beside(s),
         req[s].joined \subseteq req'[s].joined,
         req[s].pc = "replacing" =>
           LET c == req[s].cat IN
           /\ shown'[c] # "gone" /\ owner'[c] = owner[c]
           /\ members'[c] \subseteq members[c] \cup req'[s].joined
           /\ owner[c] \in members[c] => owner[c] \in members'[c]
  PROVE  Replacing(s)'
<1> SUFFICES ASSUME req'[s].pc = "replacing" PROVE Replacing(s)'
  BY DEF Replacing
<1>1. req[s].pc = "replacing" /\ req'[s].cat = req[s].cat /\ req'[s].list = req[s].list
      /\ req'[s].gone = req[s].gone
  BY DEF Beside, Noted
<1> QED BY <1>1 DEF Replacing

LEMMA WriteRole ==
  ASSUME IInv, NEW u \in User, NEW t \in Role, ChangeRole(u, t)
  PROVE  IInv'
<1>1. /\ role' = [role EXCEPT ![u] = t] /\ writes' = writes + 1
      /\ UNCHANGED <<shown, owner, members, post, listed, joined>>
      /\ req' = [r \in Request |-> Observe(r, req[r].who # u)]
  BY DEF ChangeRole, Write, Watch
<1>2. ASSUME NEW s \in Request PROVE Beside(s) /\ req'[s].joined = req[s].joined
  <2>1. req'[s] = Observe(s, req[s].who # u)
    BY <1>1
  <2>2. req'[s] \in Pending /\ Noted(s, req[s].who # u) /\ req'[s].joined = req[s].joined
    BY <2>1, ObserveNotes DEF IInv
  <2>3. req[s].who # u => RoleOf(req[s].who)' = RoleOf(req[s].who)
    BY <1>1, <2>2 DEF RoleOf, Noted, IInv, TypeOK
  <2> QED BY <1>1, <2>2, <2>3 DEF Beside
<1>3. TypeOK'
  BY <1>1, <1>2 DEF IInv, TypeOK, Beside
<1>4. FiledInv' /\ NoMixedLists'
  BY <1>1 DEF IInv, FiledInv, NoMixedLists
<1>5. ASSUME NEW s \in Request PROVE Reading(s)' /\ Replacing(s)'
  BY <1>1, <1>2, <1>5, BesideReading, BesideReplacing DEF IInv, Replacing
<1> QED BY <1>3, <1>4, <1>5 DEF IInv

(* update_post, the publication of an article, the deletion of a post.          *)
LEMMA WriteRow ==
  ASSUME IInv, NEW p \in Post, NEW row \in Rows, WritePost(p, row),
         row.live /\ row.category # Nobody => shown[row.category] # "gone"
  PROVE  IInv'
<1>1. /\ post' = [post EXCEPT ![p] = row] /\ writes' = writes + 1
      /\ UNCHANGED <<role, shown, owner, members, listed, joined>>
      /\ req' = [r \in Request |-> Observe(r, req[r].post # p)]
  BY DEF WritePost, Write, Watch
<1>2. ASSUME NEW s \in Request PROVE Beside(s) /\ req'[s].joined = req[s].joined
  <2>1. req'[s] = Observe(s, req[s].post # p) /\ (req[s].post # p) \in BOOLEAN
    BY <1>1
  <2>2. req'[s] \in Pending /\ Noted(s, req[s].post # p) /\ req'[s].joined = req[s].joined
    BY <2>1, ObserveNotes DEF IInv
  <2>3. Observed(s) /\ (req[s].post # p) =>
          RoleOf(req[s].who)' = RoleOf(req[s].who) /\ post'[req[s].post] = post[req[s].post]
    BY <1>1, <2>2 DEF RoleOf, Noted, IInv, TypeOK, Reading
  <2> QED BY <2>1, <2>2, <2>3 DEF Beside
<1>3. TypeOK'
  BY <1>1, <1>2 DEF IInv, TypeOK, Beside
<1>4. FiledInv' /\ NoMixedLists'
  BY <1>1 DEF IInv, FiledInv, NoMixedLists, TypeOK
<1>5. ASSUME NEW s \in Request PROVE Reading(s)' /\ Replacing(s)'
  BY <1>1, <1>2, <1>5, BesideReading, BesideReplacing DEF IInv, Replacing
<1> QED BY <1>3, <1>4, <1>5 DEF IInv

LEMMA WritePosts ==
  ASSUME IInv, NEW u \in User, NEW p \in Post, NEW t \in PostTier,
         PublishArticle(u, p, t) \/ DeletePost(u, p)
           \/ \E c \in Category \cup {Nobody} : UpdatePost(u, p, t, c)
  PROVE  IInv'
<1>1. post[p] \in Rows
  BY DEF IInv, TypeOK
<1>2. post[p].live /\ post[p].category # Nobody => shown[post[p].category] # "gone"
  BY DEF IInv, FiledInv
<1>3. CASE PublishArticle(u, p, t)
  <2>1. [post[p] EXCEPT !.shown = t, !.draft = FALSE] \in Rows
    BY <1>1 DEF Rows
  <2>2. [post[p] EXCEPT !.shown = t, !.draft = FALSE].category = post[p].category /\ post[p].live
    BY <1>1, <1>3 DEF Rows, PublishArticle, WritePost
  <2> QED BY <1>2, <1>3, <2>1, <2>2, WriteRow DEF PublishArticle
<1>4. CASE DeletePost(u, p)
  <2>1. [post[p] EXCEPT !.live = FALSE] \in Rows /\ ~[post[p] EXCEPT !.live = FALSE].live
    BY <1>1 DEF Rows
  <2> QED BY <1>4, <2>1, WriteRow DEF DeletePost
<1>5. ASSUME NEW c \in Category \cup {Nobody}, UpdatePost(u, p, t, c) PROVE IInv'
  <2>1. [post[p] EXCEPT !.shown = t, !.category = c] \in Rows
    BY <1>1 DEF Rows
  <2>2. [post[p] EXCEPT !.shown = t, !.category = c].category = c /\ post[p].live
    BY <1>1, <1>5 DEF Rows, UpdatePost, WritePost
  <2>3. c # Nobody => shown[c] # "gone"
    BY <1>2, <1>5, <2>2 DEF UpdatePost, MayCompose
  <2> QED BY <1>5, <2>1, <2>2, <2>3, WriteRow DEF UpdatePost
<1> QED BY <1>3, <1>4, <1>5

LEMMA WriteNewCategory ==
  ASSUME IInv, NEW u \in User, NEW c \in Category, NEW t \in CategoryTier, CreateCategory(u, c, t)
  PROVE  IInv'
<1>1. /\ shown[c] = "gone" /\ shown' = [shown EXCEPT ![c] = t] /\ owner' = [owner EXCEPT ![c] = u]
      /\ members' = [members EXCEPT ![c] = IF t = "user_list" THEN {u} ELSE {}]
      /\ listed' = [listed EXCEPT ![c] = members'[c]] /\ joined' = [joined EXCEPT ![c] = {}]
      /\ writes' = writes + 1 /\ UNCHANGED <<role, post>>
      /\ req' = [r \in Request |-> Observe(r, TRUE)]
  BY DEF CreateCategory, Write, Watch, Still
<1>2. ASSUME NEW s \in Request PROVE Beside(s) /\ req'[s].joined = req[s].joined
  <2>1. req'[s] = Observe(s, TRUE) /\ (TRUE) \in BOOLEAN
    BY <1>1
  <2>2. req'[s] \in Pending /\ Noted(s, TRUE) /\ req'[s].joined = req[s].joined
    BY <2>1, ObserveNotes DEF IInv
  <2>3. Observed(s) /\ (TRUE) =>
          RoleOf(req[s].who)' = RoleOf(req[s].who) /\ post'[req[s].post] = post[req[s].post]
    BY <1>1, <2>2 DEF RoleOf, Noted, IInv, TypeOK, Reading
  <2> QED BY <2>1, <2>2, <2>3 DEF Beside
<1>3. TypeOK'
  <2>1. shown' \in [Category -> CategoryTier \cup {"gone"}] /\ owner' \in [Category -> User]
    BY <1>1 DEF IInv, TypeOK
  <2>2. members' \in [Category -> SUBSET User]
    BY <1>1 DEF IInv, TypeOK
  <2>3. listed' \in [Category -> SUBSET User] /\ joined' \in [Category -> SUBSET User]
    BY <1>1, <2>2 DEF IInv, TypeOK
  <2>4. writes' \in Nat
    BY <1>1 DEF IInv, TypeOK
  <2>5. req' \in [Request -> Pending]
    BY <1>1, <1>2 DEF Beside
  <2> QED BY <1>1, <2>1, <2>2, <2>3, <2>4, <2>5 DEF IInv, TypeOK
<1>4. FiledInv' /\ NoMixedLists'
  BY <1>1 DEF IInv, FiledInv, NoMixedLists, TypeOK, CategoryTier, PostTier
<1>5. ASSUME NEW s \in Request PROVE Reading(s)' /\ Replacing(s)'
  <2>1. req[s].pc = "replacing" => req[s].cat # c
    BY <1>1 DEF IInv, Replacing
  <2> QED BY <1>1, <1>2, <2>1, BesideReading, BesideReplacing DEF IInv, Replacing, TypeOK
<1> QED BY <1>3, <1>4, <1>5 DEF IInv

LEMMA WriteNoCategory ==
  ASSUME IInv, NEW u \in User, NEW c \in Category, DeleteCategory(u, c)
  PROVE  IInv'
<1>1. /\ shown' = [shown EXCEPT ![c] = "gone"] /\ members' = [members EXCEPT ![c] = {}]
      /\ listed' = [listed EXCEPT ![c] = {}] /\ joined' = [joined EXCEPT ![c] = {}]
      /\ post' = [p \in Post |-> IF post[p].category = c THEN [post[p] EXCEPT !.category = Nobody]
                                 ELSE post[p]]
      /\ writes' = writes + 1 /\ UNCHANGED <<role, owner>>
      /\ req' = [r \in Request |-> Observe(r, post[req[r].post].category # c)]
      /\ \A r \in Request : req[r].pc = "replacing" => req[r].cat # c
  BY DEF DeleteCategory, Write, Watch
<1>2. c # Nobody
  BY NobodyIsNoUser
<1>3. ASSUME NEW p \in Post
      PROVE  post'[p] \in Rows /\ post'[p].category = (IF post[p].category = c THEN Nobody ELSE post[p].category)
             /\ post'[p].live = post[p].live
  BY <1>1 DEF IInv, TypeOK, Rows
<1>4. ASSUME NEW s \in Request PROVE Beside(s) /\ req'[s].joined = req[s].joined
  <2>1. req'[s] = Observe(s, post[req[s].post].category # c) /\ (post[req[s].post].category # c) \in BOOLEAN
    BY <1>1
  <2>2. req'[s] \in Pending /\ Noted(s, post[req[s].post].category # c) /\ req'[s].joined = req[s].joined
    BY <2>1, ObserveNotes DEF IInv
  <2>3. Observed(s) /\ (post[req[s].post].category # c) =>
          RoleOf(req[s].who)' = RoleOf(req[s].who) /\ post'[req[s].post] = post[req[s].post]
    BY <1>1, <2>2 DEF RoleOf, Noted, IInv, TypeOK, Reading
  <2> QED BY <2>1, <2>2, <2>3 DEF Beside
<1>5. TypeOK'
  <2>1. shown' \in [Category -> CategoryTier \cup {"gone"}]
    BY <1>1 DEF IInv, TypeOK
  <2>2. members' \in [Category -> SUBSET User]
    BY <1>1 DEF IInv, TypeOK
  <2>3. listed' \in [Category -> SUBSET User] /\ joined' \in [Category -> SUBSET User]
    BY <1>1 DEF IInv, TypeOK
  <2>4. post' \in [Post -> Rows]
    BY <1>1, <1>3 DEF IInv, TypeOK
  <2>5. writes' \in Nat
    BY <1>1 DEF IInv, TypeOK
  <2>6. req' \in [Request -> Pending]
    BY <1>1, <1>4 DEF Beside
  <2> QED BY <1>1, <2>1, <2>2, <2>3, <2>4, <2>5, <2>6 DEF IInv, TypeOK
<1>6. FiledInv' /\ NoMixedLists'
  BY <1>1, <1>2, <1>3 DEF IInv, FiledInv, NoMixedLists, TypeOK
<1>7. ASSUME NEW s \in Request PROVE Reading(s)' /\ Replacing(s)'
  BY <1>1, <1>4, BesideReading, BesideReplacing DEF IInv, Replacing, TypeOK
<1> QED BY <1>5, <1>6, <1>7 DEF IInv

LEMMA WriteMember ==
  ASSUME IInv, NEW u \in User, NEW c \in Category, NEW w \in User, RemoveMember(u, c, w)
  PROVE  IInv'
<1>1. /\ owner[c] # w /\ members' = [members EXCEPT ![c] = @ \ {w}]
      /\ writes' = writes + 1 /\ UNCHANGED <<role, shown, owner, post, listed, joined>>
      /\ req' = [r \in Request |-> Observe(r, TRUE)]
  BY DEF RemoveMember, Write, Watch, Still
<1>2. ASSUME NEW s \in Request PROVE Beside(s) /\ req'[s].joined = req[s].joined
  <2>1. req'[s] = Observe(s, TRUE) /\ (TRUE) \in BOOLEAN
    BY <1>1
  <2>2. req'[s] \in Pending /\ Noted(s, TRUE) /\ req'[s].joined = req[s].joined
    BY <2>1, ObserveNotes DEF IInv
  <2>3. Observed(s) /\ (TRUE) =>
          RoleOf(req[s].who)' = RoleOf(req[s].who) /\ post'[req[s].post] = post[req[s].post]
    BY <1>1, <2>2 DEF RoleOf, Noted, IInv, TypeOK, Reading
  <2> QED BY <2>1, <2>2, <2>3 DEF Beside
<1>3. TypeOK'
  <2>1. members' \in [Category -> SUBSET User]
    BY <1>1 DEF IInv, TypeOK
  <2>2. writes' \in Nat
    BY <1>1 DEF IInv, TypeOK
  <2>3. req' \in [Request -> Pending]
    BY <1>1, <1>2 DEF Beside
  <2> QED BY <1>1, <2>1, <2>2, <2>3 DEF IInv, TypeOK
<1>4. FiledInv' /\ NoMixedLists'
  BY <1>1 DEF IInv, FiledInv, NoMixedLists, TypeOK
<1>5. ASSUME NEW s \in Request PROVE Reading(s)' /\ Replacing(s)'
  BY <1>1, <1>2, BesideReading, BesideReplacing DEF IInv, Replacing, TypeOK
<1> QED BY <1>3, <1>4, <1>5 DEF IInv

(* Members who join: the replacements of their list learn of it.                *)
LEMMA JoinNotes ==
  ASSUME TypeOK, NEW c \in Category, NEW us \in SUBSET User, WatchJoin(c, us), UNCHANGED <<role, post>>,
         NEW s \in Request
  PROVE  /\ Beside(s) /\ req[s].joined \subseteq req'[s].joined
         /\ req[s].pc = "replacing" /\ req[s].cat = c => us \subseteq req'[s].joined
<1>1. req[s] \in Pending
  BY DEF TypeOK
<1>2. CASE req[s].pc = "replacing" /\ req[s].cat = c
  <2>1. req'[s] = [req[s] EXCEPT !.joined = @ \cup us]
    BY <1>2 DEF WatchJoin
  <2>2. /\ req'[s] \in Pending /\ req'[s].joined = req[s].joined \cup us
        /\ req'[s].pc = req[s].pc /\ req'[s].who = req[s].who /\ req'[s].as = req[s].as
        /\ req'[s].post = req[s].post /\ req'[s].row = req[s].row /\ req'[s].cat = req[s].cat
        /\ req'[s].tier = req[s].tier /\ req'[s].list = req[s].list /\ req'[s].gone = req[s].gone
        /\ req'[s].ever = req[s].ever /\ req'[s].public = req[s].public
    <3>1. req[s].joined \cup us \in SUBSET User
      BY <1>1 DEF Pending
    <3> QED BY <1>1, <2>1, <3>1 DEF Pending
  <2>3. ~Observed(s)
    BY <1>2 DEF Observed
  <2>4. Noted(s, TRUE)
    BY <2>2, <2>3 DEF Noted
  <2> QED BY <2>2, <2>3, <2>4 DEF Beside
<1>3. CASE ~(req[s].pc = "replacing" /\ req[s].cat = c)
  <2>1. req'[s] = Observe(s, TRUE)
    BY <1>3 DEF WatchJoin
  <2>2. req'[s] \in Pending /\ Noted(s, TRUE) /\ req'[s].joined = req[s].joined
    BY <2>1, ObserveNotes
  <2>3. RoleOf(req[s].who)' = RoleOf(req[s].who)
    BY <2>2 DEF RoleOf, Noted
  <2> QED BY <1>3, <2>2, <2>3 DEF Beside
<1> QED BY <1>2, <1>3

LEMMA WriteJoin ==
  ASSUME IInv, NEW c \in Category, NEW us \in SUBSET User, Join(c, us), WatchJoin(c, us), writes' = writes + 1,
         UNCHANGED <<role, owner, post, listed>>,
         shown' \in [Category -> CategoryTier \cup {"gone"}],
         \A d \in Category : shown[d] # "gone" => shown'[d] # "gone"
  PROVE  IInv'
<1>1. /\ members' = [members EXCEPT ![c] = @ \cup us] /\ joined' = [joined EXCEPT ![c] = @ \cup us]
      /\ TypeOK /\ FiledInv /\ NoMixedLists
  BY DEF Join, IInv
<1>2. ASSUME NEW s \in Request
      PROVE  /\ Beside(s) /\ req[s].joined \subseteq req'[s].joined
             /\ req[s].pc = "replacing" /\ req[s].cat = c => us \subseteq req'[s].joined
  BY <1>1, JoinNotes
<1>3. TypeOK'
  <2>1. members' \in [Category -> SUBSET User]
    BY <1>1 DEF TypeOK
  <2>2. joined' \in [Category -> SUBSET User]
    BY <1>1 DEF TypeOK
  <2>3. writes' \in Nat
    BY <1>1 DEF TypeOK
  <2>4. req' \in [Request -> Pending]
    BY <1>2 DEF WatchJoin, Beside
  <2> QED BY <1>1, <2>1, <2>2, <2>3, <2>4 DEF TypeOK
<1>4. FiledInv' /\ NoMixedLists'
  BY <1>1 DEF FiledInv, NoMixedLists, TypeOK, Rows
<1>5. ASSUME NEW s \in Request PROVE Reading(s)' /\ Replacing(s)'
  <2>1. Reading(s) /\ Replacing(s)
    BY DEF IInv
  <2>2. ASSUME req[s].pc = "replacing"
        PROVE  LET d == req[s].cat IN
               /\ shown'[d] # "gone" /\ owner'[d] = owner[d]
               /\ members'[d] \subseteq members[d] \cup req'[s].joined
               /\ owner[d] \in members[d] => owner[d] \in members'[d]
    BY <1>1, <1>2, <2>1, <2>2 DEF Replacing, TypeOK
  <2> QED BY <1>2, <2>1, <2>2, BesideReading, BesideReplacing
<1> QED BY <1>3, <1>4, <1>5 DEF IInv

LEMMA WriteAdd ==
  ASSUME IInv, NEW u \in User, NEW c \in Category, NEW w \in User, AddMember(u, c, w)
  PROVE  IInv'
<1>1. shown' \in [Category -> CategoryTier \cup {"gone"}] /\ shown' = shown
  BY DEF IInv, TypeOK, AddMember
<1> QED BY <1>1, WriteJoin DEF AddMember, Write

LEMMA WriteCategory ==
  ASSUME IInv, NEW u \in User, NEW c \in Category, NEW t \in CategoryTier, UpdateCategory(u, c, t)
  PROVE  IInv'
<1> DEFINE us == IF t = "user_list" THEN {owner[c]} \ members[c] ELSE {}
<1>1. us \in SUBSET User
  BY DEF IInv, TypeOK
<1>2. /\ shown' = [shown EXCEPT ![c] = t] /\ Join(c, us) /\ WatchJoin(c, us) /\ writes' = writes + 1
      /\ UNCHANGED <<role, owner, post, listed>>
  BY DEF UpdateCategory, Write
<1>3. /\ shown' \in [Category -> CategoryTier \cup {"gone"}]
      /\ \A d \in Category : shown[d] # "gone" => shown'[d] # "gone"
  BY <1>2 DEF IInv, TypeOK, CategoryTier, PostTier
<1> HIDE DEF us
<1> QED BY <1>1, <1>2, <1>3, WriteJoin

(* A whole change.                                                           *)
LEMMA StepChange ==
  ASSUME IInv, NEW u \in User, Change(u)
  PROVE  IInv'
<1>1. ASSUME NEW t \in Role, ChangeRole(u, t) PROVE IInv'
  BY <1>1, WriteRole
<1>2. ASSUME NEW p \in Post, NEW t \in PostTier,
             PublishArticle(u, p, t) \/ \E c \in Category \cup {Nobody} : UpdatePost(u, p, t, c)
      PROVE  IInv'
  BY <1>2, WritePosts
<1>3. ASSUME NEW p \in Post, DeletePost(u, p) PROVE IInv'
  <2>1. "private" \in PostTier
    BY DEF PostTier
  <2> QED BY <1>3, <2>1, WritePosts
<1>4. ASSUME NEW c \in Category, NEW t \in CategoryTier, CreateCategory(u, c, t) \/ UpdateCategory(u, c, t)
      PROVE  IInv'
  BY <1>4, WriteNewCategory, WriteCategory
<1>5. ASSUME NEW c \in Category, DeleteCategory(u, c) PROVE IInv'
  BY <1>5, WriteNoCategory
<1>6. ASSUME NEW c \in Category, NEW w \in User, AddMember(u, c, w) \/ RemoveMember(u, c, w) PROVE IInv'
  BY <1>6, WriteAdd, WriteMember
<1> QED BY <1>1, <1>2, <1>3, <1>4, <1>5, <1>6 DEF Change

-----------------------------------------------------------------------------
(* Requests.  One goes on, the tables and the others stay.                     *)

Goes(r) ==
  /\ UNCHANGED <<role, shown, owner, members, post, listed, joined, writes>>
  /\ req' \in [Request -> Pending]
  /\ \A s \in Request \ {r} : req'[s] = req[s]

(* What an answering request holds of who reads what.                          *)
Same(q, n) ==
  /\ n.who = q.who /\ n.as = q.as /\ n.post = q.post
  /\ n.ever = q.ever /\ n.public = q.public /\ n.calm = q.calm

LEMMA GoesKeeps ==
  ASSUME IInv, NEW r \in Request, Goes(r), Reading(r)', Replacing(r)'
  PROVE  IInv'
<1>1. TypeOK' /\ FiledInv' /\ NoMixedLists'
  BY DEF IInv, Goes, TypeOK, FiledInv, NoMixedLists
<1>2. Readers' = Readers
  BY SameReaders DEF Goes
<1>3. ASSUME NEW s \in Request, s # r PROVE Reading(s)' /\ Replacing(s)'
  <2>1. Reading(s) /\ Replacing(s)
    BY DEF IInv
  <2> QED BY <1>2, <1>3, <2>1 DEF Goes, Reading, Replacing, Observed, RoleOf
<1> QED BY <1>1, <1>3 DEF IInv

LEMMA StepAnswer ==
  ASSUME IInv, NEW r \in Request, Serve(r) \/ ServeArticle(r) \/ Refuse(r)
  PROVE  IInv'
<1>1. /\ UNCHANGED <<role, shown, owner, members, post, listed, joined, writes>>
      /\ req' = [req EXCEPT ![r] = Done]
  BY DEF Serve, ServeArticle, Refuse, Answer
<1>2. Done \in Pending /\ Done.pc = "done"
  BY DEF Done, Idle, Pending, CategoryTier, PostTier
<1>3. Goes(r) /\ req'[r].pc = "done"
  BY <1>1, <1>2 DEF Goes, IInv, TypeOK
<1>4. Reading(r)' /\ Replacing(r)'
  BY <1>3 DEF Reading, Replacing, Observed
<1> QED BY <1>3, <1>4, GoesKeeps

LEMMA StepArrive ==
  ASSUME IInv, NEW r \in Request, NEW u \in User \cup {Nobody}, NEW p \in Post, Arrive(r, u, p)
  PROVE  IInv'
<1> DEFINE e == u \in Readers[p]  o == Nobody \in Readers[p]
           n == [Idle EXCEPT !.pc = "gated", !.who = u, !.as = RoleOf(u), !.post = p, !.ever = e, !.public = o]
<1>1. e \in BOOLEAN /\ o \in BOOLEAN /\ RoleOf(u) \in Role \cup {"none"}
  BY DEF IInv, TypeOK, RoleOf
<1>2. /\ n \in Pending /\ n.pc = "gated" /\ n.who = u /\ n.as = RoleOf(u) /\ n.post = p
      /\ n.ever = e /\ n.public = o
  <2> HIDE DEF e, o
  <2> QED BY <1>1 DEF Idle, Pending, CategoryTier, PostTier
<1>3. req' = [req EXCEPT ![r] = n] /\ UNCHANGED <<role, shown, owner, members, post, listed, joined, writes>>
  BY DEF Arrive
<1> HIDE DEF n
<1>4. Goes(r) /\ req'[r] = n
  BY <1>2, <1>3 DEF Goes, IInv, TypeOK
<1>5. Readers' = Readers
  BY <1>3, SameReaders
<1>6. Reading(r)' /\ Replacing(r)'
  BY <1>2, <1>3, <1>4, <1>5 DEF Reading, Replacing, RoleOf
<1> QED BY <1>4, <1>6, GoesKeeps

LEMMA StepFindRow ==
  ASSUME IInv, NEW r \in Request, FindRow(r)
  PROVE  IInv'
<1> DEFINE q == req[r]  row == post[q.post]  n == [q EXCEPT !.pc = "found", !.row = row]
<1>1. q.pc = "gated" /\ row.live /\ UNCHANGED <<role, shown, owner, members, post, listed, joined, writes>>
  BY DEF FindRow
<1>2. Reading(r) /\ q \in Pending /\ TypeOK
  BY DEF IInv, TypeOK
<1>3. q.post \in Post /\ row \in Rows
  BY <1>1, <1>2 DEF Reading, Observed, TypeOK
<1>4. n \in Pending /\ n.pc = "found" /\ n.row = row /\ Same(q, n)
  <2> HIDE DEF row
  <2> QED BY <1>2, <1>3 DEF Pending, Same
<1>5. req' = [req EXCEPT ![r] = n]
  BY DEF FindRow
<1> HIDE DEF n
<1>6. Goes(r) /\ req'[r] = n
  BY <1>1, <1>2, <1>4, <1>5 DEF Goes, TypeOK
<1>7. Readers' = Readers
  BY <1>1, SameReaders
<1>8. Reading(r)' /\ Replacing(r)'
  BY <1>1, <1>2, <1>3, <1>4, <1>6, <1>7 DEF Reading, Observed, Replacing, RoleOf, Same
<1> QED BY <1>6, <1>8, GoesKeeps

(* A visitor reads what is public.                                            *)
LEMMA PublicIsForAll ==
  ASSUME TypeOK, NEW p \in Post, post[p].live, NEW tier,
         tier = (IF post[p].category # Nobody THEN shown[post[p].category] ELSE post[p].shown), tier = "public"
  PROVE  Nobody \in Readers[p]
<1>1. RoleOf(Nobody) = "none" /\ "public" \in AllowedVisibilities("none")
  BY Tiers DEF RoleOf
<1>2. Entitled(Nobody, p)
  BY <1>1 DEF Entitled
<1> QED BY <1>2, ReadersAre

LEMMA StepFindCategory ==
  ASSUME IInv, NEW r \in Request, FindCategory(r)
  PROVE  IInv'
<1> DEFINE q == req[r]  c == q.row.category
           at == IF Exists(c) THEN c ELSE Nobody
           tier == IF Exists(c) THEN shown[c] ELSE q.row.shown
           n == [q EXCEPT !.pc = "placed", !.cat = at, !.tier = tier]
<1>1. q.pc = "found" /\ UNCHANGED <<role, shown, owner, members, post, listed, joined, writes>>
  BY DEF FindCategory
<1>2. Reading(r) /\ q \in Pending /\ TypeOK
  BY DEF IInv, TypeOK
<1>3. q.post \in Post /\ q.row \in Rows
  BY <1>1, <1>2 DEF Reading, Observed
<1>4. c \in Category \cup {Nobody} /\ q.row.shown \in PostTier
  BY <1>3 DEF Rows
<1>5. at \in Category \cup {Nobody} /\ tier \in CategoryTier
  BY <1>2, <1>4 DEF Exists, TypeOK, CategoryTier
<1>6. n \in Pending /\ n.pc = "placed" /\ n.cat = at /\ n.tier = tier /\ n.row = q.row /\ Same(q, n)
  <2> HIDE DEF at, tier
  <2> QED BY <1>2, <1>5 DEF Pending, Same
<1>7. req' = [req EXCEPT ![r] = n]
  BY DEF FindCategory
<1>8. q.calm => at = c /\ (tier = "public" => q.public)
  <2>1. SUFFICES ASSUME q.calm PROVE at = c /\ (tier = "public" => q.public)
    OBVIOUS
  <2>2. q.row = post[q.post] /\ post[q.post].live
    BY <1>1, <1>2, <2>1 DEF Reading, Observed
  <2>3. c # Nobody => shown[c] # "gone"
    BY <1>3, <2>2 DEF IInv, FiledInv
  <2>4. at = c /\ tier = (IF c # Nobody THEN shown[c] ELSE q.row.shown)
    BY <2>3 DEF Exists
  <2>5. tier = "public" => Nobody \in Readers[q.post]
    BY <1>2, <1>3, <2>2, <2>4, PublicIsForAll
  <2> QED BY <1>1, <1>2, <2>4, <2>5 DEF Reading, Observed
<1> HIDE DEF n, at, tier
<1>9. Goes(r) /\ req'[r] = n
  BY <1>1, <1>2, <1>6, <1>7 DEF Goes, TypeOK
<1>10. Readers' = Readers
  BY <1>1, SameReaders
<1>11. Reading(r)' /\ Replacing(r)'
  BY <1>1, <1>2, <1>3, <1>6, <1>8, <1>9, <1>10 DEF Reading, Observed, Replacing, RoleOf, Same
<1> QED BY <1>9, <1>11, GoesKeeps

(* A calm request that is granted its row is about one its caller may read now.  *)
LEMMA GrantedIsEntitled ==
  ASSUME IInv, NEW r \in Request, Granted(r)
  PROVE  req[r].calm => req[r].ever
<1> DEFINE q == req[r]
<1>1. SUFFICES ASSUME q.calm PROVE q.ever
  OBVIOUS
<1>2. q.pc = "placed" /\ PermitsRead(Ctx(q.who, q.as), q.row, q.cat)
  BY DEF Granted
<1>3. Reading(r) /\ TypeOK /\ q \in Pending
  BY DEF IInv, TypeOK
<1>4. /\ q.post \in Post /\ q.as = RoleOf(q.who) /\ q.row = post[q.post] /\ post[q.post].live
      /\ q.cat = post[q.post].category /\ (q.who \in Readers[q.post] => q.ever)
  BY <1>1, <1>2, <1>3 DEF Reading, Observed
<1>5. post[q.post].category # Nobody => shown[post[q.post].category] # "gone"
  BY <1>4 DEF IInv, FiledInv
<1>6. q.who \in User \cup {Nobody}
  BY <1>3 DEF Pending
<1>7. Entitled(q.who, q.post)
  BY <1>2, <1>3, <1>4, <1>5, <1>6, PageRule
<1> QED BY <1>4, <1>6, <1>7, ReadersAre

LEMMA StepGrantArticle ==
  ASSUME IInv, NEW r \in Request, GrantArticle(r)
  PROVE  IInv'
<1> DEFINE q == req[r]  n == [q EXCEPT !.pc = "drafty"]
<1>1. q.pc = "placed" /\ UNCHANGED <<role, shown, owner, members, post, listed, joined, writes>>
  BY DEF GrantArticle, Granted
<1>2. Reading(r) /\ q \in Pending /\ TypeOK
  BY DEF IInv, TypeOK
<1>3. /\ n \in Pending /\ n.pc = "drafty" /\ n.row = q.row /\ n.cat = q.cat /\ n.tier = q.tier /\ Same(q, n)
  BY <1>2 DEF Pending, Same
<1>4. req' = [req EXCEPT ![r] = n]
  BY DEF GrantArticle
<1> HIDE DEF n
<1>5. Goes(r) /\ req'[r] = n
  BY <1>1, <1>2, <1>3, <1>4 DEF Goes, TypeOK
<1>6. Readers' = Readers
  BY <1>1, SameReaders
<1>7. q.calm => q.ever
  BY GrantedIsEntitled DEF GrantArticle
<1>8. Reading(r)' /\ Replacing(r)'
  BY <1>1, <1>2, <1>3, <1>5, <1>6, <1>7 DEF Reading, Observed, Replacing, RoleOf, Same
<1> QED BY <1>5, <1>8, GoesKeeps

LEMMA StepTakeUp ==
  ASSUME IInv, NEW r \in Request, NEW u \in User, NEW c \in Category, NEW list \in SUBSET User,
         TakeUpList(r, u, c, list)
  PROVE  IInv'
<1> DEFINE n == [Idle EXCEPT !.pc = "replacing", !.cat = c, !.list = list, !.gone = members[c]]
<1>1. /\ shown[c] # "gone" /\ owner[c] \in list /\ req' = [req EXCEPT ![r] = n]
      /\ UNCHANGED <<role, shown, owner, members, post, listed, joined, writes>>
  BY DEF TakeUpList, CanManage, ListHasCreator
<1>2. members[c] \in SUBSET User /\ TypeOK
  BY DEF IInv, TypeOK
<1>3. n \in Pending /\ n.pc = "replacing" /\ n.cat = c /\ n.list = list /\ n.gone = members[c]
  BY <1>2 DEF Idle, Pending, CategoryTier, PostTier
<1> HIDE DEF n
<1>4. Goes(r) /\ req'[r] = n
  BY <1>1, <1>2, <1>3 DEF Goes, TypeOK
<1>5. Reading(r)' /\ Replacing(r)'
  BY <1>1, <1>3, <1>4 DEF Reading, Observed, Replacing
<1> QED BY <1>4, <1>5, GoesKeeps

(* The commit of a list: had the owner come back with another list, the key       *)
(* would refuse this one; so whoever stays has joined since it was taken up.     *)
LEMMA StepReplace ==
  ASSUME IInv, NEW r \in Request, ReplaceMembers(r)
  PROVE  IInv'
<1> DEFINE q == req[r]  c == q.cat  kept == members[c] \ q.gone  list == q.list
<1>1. /\ q.pc = "replacing" /\ kept \cap list = {} /\ members' = [members EXCEPT ![c] = kept \cup list]
      /\ listed' = [listed EXCEPT ![c] = list] /\ joined' = [joined EXCEPT ![c] = q.joined]
      /\ UNCHANGED <<role, shown, owner, post, writes>>
      /\ req' = [s \in Request |->
                   IF s = r THEN Done
                   ELSE IF req[s].pc = "replacing" /\ req[s].cat = c
                   THEN [req[s] EXCEPT !.gone = @ \ (q.gone \cup list)]
                   ELSE Observe(s, TRUE)]
  BY DEF ReplaceMembers
<1>2. TypeOK /\ Replacing(r) /\ q \in Pending
  BY DEF IInv, TypeOK
<1>3. /\ c \in Category /\ shown[c] # "gone" /\ owner[c] \in list
      /\ list \subseteq User /\ q.joined \subseteq User
  BY <1>1, <1>2 DEF Replacing, Pending
<1>4. kept \subseteq q.joined
  BY <1>1, <1>2, <1>3 DEF Replacing
<1>5. members' \in [Category -> SUBSET User] /\ members'[c] = kept \cup list
  BY <1>1, <1>2, <1>3 DEF TypeOK
<1>6. ASSUME NEW s \in Request, s # r, ~(req[s].pc = "replacing" /\ req[s].cat = c)
      PROVE  Beside(s) /\ req'[s].joined = req[s].joined
  <2>1. req'[s] = Observe(s, TRUE)
    BY <1>1, <1>6
  <2>2. req'[s] \in Pending /\ Noted(s, TRUE) /\ req'[s].joined = req[s].joined
    BY <1>2, <2>1, ObserveNotes
  <2>3. role' = role /\ post' = post
    BY <1>1
  <2>4. RoleOf(req[s].who)' = RoleOf(req[s].who)
    BY <2>2, <2>3 DEF RoleOf, Noted
  <2> QED BY <2>2, <2>3, <2>4 DEF Beside
<1>7. ASSUME NEW s \in Request, s # r, req[s].pc = "replacing", req[s].cat = c
      PROVE  /\ req'[s] \in Pending /\ req'[s].pc = "replacing" /\ req'[s].cat = c
             /\ req'[s].list = req[s].list /\ req'[s].gone = req[s].gone \ (q.gone \cup list)
  <2> DEFINE left == req[s].gone \ (q.gone \cup list)
  <2>1. req[s] \in Pending
    BY <1>2 DEF TypeOK
  <2>2. left \in SUBSET User
    BY <2>1 DEF Pending
  <2>3. req'[s] = [req[s] EXCEPT !.gone = left]
    BY <1>1, <1>7
  <2> HIDE DEF left
  <2>4. req'[s] \in Pending /\ req'[s].pc = "replacing" /\ req'[s].cat = c
        /\ req'[s].list = req[s].list /\ req'[s].gone = left
    BY <1>7, <2>1, <2>2, <2>3 DEF Pending
  <2> QED BY <2>4 DEF left
<1>8. Done \in Pending /\ Done.pc = "done" /\ req'[r] = Done
  BY <1>1 DEF Done, Idle, Pending, CategoryTier, PostTier
<1> HIDE DEF kept, list
<1>9. TypeOK'
  <2>1. \A s \in Request : req'[s] \in Pending
    BY <1>6, <1>7, <1>8 DEF Beside
  <2>2. req' \in [Request -> Pending]
    BY <1>1, <2>1
  <2>3. listed' \in [Category -> SUBSET User]
    BY <1>1, <1>2, <1>3 DEF TypeOK
  <2>4. joined' \in [Category -> SUBSET User]
    BY <1>1, <1>2, <1>3 DEF TypeOK
  <2> QED BY <1>1, <1>2, <1>5, <2>2, <2>3, <2>4 DEF TypeOK
<1>10. FiledInv' /\ NoMixedLists'
  <2>1. FiledInv'
    BY <1>1 DEF IInv, FiledInv
  <2>2. ASSUME NEW d \in Category PROVE members'[d] \subseteq listed'[d] \cup joined'[d]
    <3>1. CASE d = c
      BY <1>1, <1>2, <1>3, <1>4, <1>5, <3>1 DEF TypeOK
    <3>2. CASE d # c
      BY <1>1, <3>2 DEF IInv, NoMixedLists
    <3> QED BY <3>1, <3>2
  <2> QED BY <2>1, <2>2 DEF NoMixedLists
<1>11. ASSUME NEW s \in Request PROVE Reading(s)' /\ Replacing(s)'
  <2>1. Reading(s) /\ Replacing(s)
    BY DEF IInv
  <2>2. CASE s = r
    BY <1>8, <2>2 DEF Reading, Observed, Replacing
  <2>3. CASE s # r /\ req[s].pc = "replacing" /\ req[s].cat = c
    <3>1. owner[c] \in req[s].list
      BY <2>1, <2>3 DEF Replacing
    <3>2. owner'[c] \in members'[c] \ req'[s].gone
      BY <1>1, <1>3, <1>5, <1>7, <2>3
    <3>3. shown' = shown /\ owner' = owner
      BY <1>1
    <3> QED BY <1>3, <1>7, <2>3, <3>1, <3>2, <3>3 DEF Reading, Observed, Replacing
  <2>4. CASE s # r /\ ~(req[s].pc = "replacing" /\ req[s].cat = c)
    <3>1. req[s].pc = "replacing" => members'[req[s].cat] = members[req[s].cat]
      BY <1>1, <1>2, <2>1, <2>4 DEF Replacing, TypeOK
    <3> QED BY <1>1, <1>6, <2>1, <2>4, <3>1, BesideReading, BesideReplacing DEF Replacing
  <2> QED BY <2>2, <2>3, <2>4
<1> QED BY <1>9, <1>10, <1>11 DEF IInv

-----------------------------------------------------------------------------
LEMMA InitInv == Init => IInv
<1> SUFFICES ASSUME Init PROVE IInv
  OBVIOUS
<1>1. Idle \in Pending /\ Done \in Pending /\ Idle.pc = "idle" /\ Done.pc = "done"
  BY DEF Idle, Done, Pending, CategoryTier, PostTier
<1>2. req \in [Request -> Pending] /\ \A r \in Request : req[r].pc \in {"idle", "done"}
  BY <1>1 DEF Init
<1>3. TypeOK
  BY <1>2 DEF Init, TypeOK
<1>4. FiledInv /\ NoMixedLists
  BY DEF Init, FiledInv, NoMixedLists
<1>5. \A r \in Request : Reading(r) /\ Replacing(r)
  BY <1>2 DEF Reading, Observed, Replacing
<1> QED BY <1>3, <1>4, <1>5 DEF IInv

LEMMA StepInv == IInv /\ [Next]_vars => IInv'
<1> SUFFICES ASSUME IInv, [Next]_vars PROVE IInv'
  OBVIOUS
<1>1. ASSUME NEW r \in Reader, Read(r) PROVE IInv'
  <2>1. r \in Request
    BY DEF Request
  <2> QED BY <1>1, <2>1, StepArrive, StepFindRow, StepFindCategory, StepGrantArticle, StepAnswer DEF Read
<1>2. ASSUME NEW u \in User, Change(u) PROVE IInv'
  BY <1>2, StepChange
<1>3. ASSUME NEW r \in Editor, Replace(r) PROVE IInv'
  <2>1. r \in Request
    BY DEF Request
  <2> QED BY <1>3, <2>1, StepTakeUp, StepReplace, StepAnswer DEF Replace
<1>4. CASE UNCHANGED vars
  <2>1. Readers' = Readers
    BY <1>4, SameReaders DEF vars
  <2> QED
    BY <1>4, <2>1 DEF vars, IInv, TypeOK, FiledInv, NoMixedLists, Reading, Observed, Replacing, RoleOf
<1> QED BY <1>1, <1>2, <1>3, <1>4 DEF Next

(* The tables and the requests are of their types.                            *)
THEOREM TypeCorrect == Spec => []TypeOK
<1>1. IInv => TypeOK
  BY DEF IInv
<1> QED BY InitInv, StepInv, <1>1, PTL DEF Spec

(* feed_condition and permits_read agree on every row, for every caller, in every *)
(* state rows, categories, members and roles can come to.                      *)
THEOREM OneAudience == Spec => []ListingAgreesWithPage
<1>1. IInv => ListingAgreesWithPage
  BY Agree DEF IInv
<1> QED BY InitInv, StepInv, <1>1, PTL DEF Spec

(* replace_members, any number of them beside additions and removals, leaves on a *)
(* list only who the last one named, or who was added after it was taken up.    *)
THEOREM ListsUnmixed == Spec => []NoMixedLists
<1>1. IInv => NoMixedLists
  BY DEF IInv
<1> QED BY InitInv, StepInv, <1>1, PTL DEF Spec

(* A read spread over several statements serves nothing its caller was not        *)
(* entitled to at some instant of it, unless the row or the role changed, and    *)
(* marks for shared caches only what everybody was.                           *)
THEOREM ServesTheEntitled == Spec => ServedWasReadable
<1> DEFINE Fair == \A r \in Request :
       /\ (Serve(r) \/ ServeArticle(r)) => req[r].ever \/ ~req[r].calm
       /\ Serve(r) /\ req[r].tier = "public" => req[r].public \/ ~req[r].calm
<1>1. IInv /\ [Next]_vars => [Fair]_vars
  <2> SUFFICES ASSUME IInv, NEW r \in Request
               PROVE  /\ (Serve(r) \/ ServeArticle(r)) => req[r].ever \/ ~req[r].calm
                      /\ Serve(r) /\ req[r].tier = "public" => req[r].public \/ ~req[r].calm
    OBVIOUS
  <2>1. Reading(r)
    BY DEF IInv
  <2>2. Serve(r) => Granted(r)
    BY DEF Serve
  <2>3. Serve(r) => req[r].ever \/ ~req[r].calm
    BY <2>2, GrantedIsEntitled
  <2>4. ServeArticle(r) => req[r].ever \/ ~req[r].calm
    BY <2>1 DEF ServeArticle, Reading, Observed
  <2>5. Serve(r) /\ req[r].tier = "public" => req[r].public \/ ~req[r].calm
    BY <2>1, <2>2 DEF Granted, Reading, Observed
  <2> QED BY <2>3, <2>4, <2>5
<1> QED BY InitInv, StepInv, <1>1, PTL DEF Spec, ServedWasReadable

-----------------------------------------------------------------------------
(* FeedPages.tla and ComposePages.tla count sets as FiniteSets does.              *)
LEMMA SameLibrary ==
  /\ \A S : Pages!Cardinality(S) = Cardinality(S)
  /\ \A S : Compose!Cardinality(S) = Cardinality(S)
BY DEF Pages!Cardinality, Compose!Cardinality, Cardinality

-----------------------------------------------------------------------------
(* FeedPages.tla: the list, as far as it is loaded, and the pages on the way.      *)

Spot == Pages!Key \cup {Pages!NoCursor}

(* After the place c, which may be the start.                                 *)
Past(c, k) == c = Pages!NoCursor \/ Pages!Before(c, k)

(* A part of the list, from place c to the place next, or the end: in order, and *)
(* without a hole among the rows that could be read all the time.               *)
Follows(p, c, next) ==
  /\ \A i \in DOMAIN p : filter \in {All, KindOf[p[i]]}
  /\ \A i, j \in DOMAIN p : i < j /\ p[i] \in owed /\ p[j] \in owed => Pages!Before(Pages!KeyOf(p[i]), Pages!KeyOf(p[j]))
  /\ \A i \in DOMAIN p : p[i] \in owed => Past(c, Pages!KeyOf(p[i]))
  /\ next # Pages!NoCursor => Past(c, next) /\ \A i \in DOMAIN p : p[i] \in owed => ~Pages!Before(next, Pages!KeyOf(p[i]))
  /\ \A r \in owed : Past(c, Pages!KeyOf(r)) /\ (\A i \in DOMAIN p : p[i] # r) =>
       next # Pages!NoCursor /\ Pages!Before(next, Pages!KeyOf(r))

Shipped == [posts : Seq(Row), next : Spot]

PageRequest == [filter : Pages!Filter, cursor : Spot, state : {"sent", "answered", "shown"}, page : Shipped]

PagesTypes ==
  /\ rows \in [Row -> [at : Time, readable : BOOLEAN]] /\ filter \in Pages!Filter
  /\ posts \in Seq(Row) /\ cursor \in Spot /\ owed \subseteq Pages!Selected(filter)
  /\ asked \in Seq(PageRequest)

(* A request that is out, sent since the filter was switched, is the only one.    *)
Out(n) == asked[n].state # "shown" /\ ~Pages!Late(n)

Alone(n) == n = Len(asked) /\ loading /\ asked[n].filter = filter /\ asked[n].cursor = cursor

ListRight ==
  \/ Follows(posts, Pages!NoCursor, cursor)
  \/ posts = <<>> /\ cursor = Pages!NoCursor /\ (loading \/ failed)

PageRight(n) == asked[n].state = "answered" => Follows(asked[n].page.posts, asked[n].cursor, asked[n].page.next)

ListInv == ListRight /\ \A n \in 1 .. Len(asked) : Out(n) => Alone(n) /\ PageRight(n)

PagesInv == PagesTypes /\ (hasMore <=> cursor # Pages!NoCursor) /\ (stale \/ ListInv)

-----------------------------------------------------------------------------
(* The order of keys.                                                        *)

LEMMA KeyIsNoStart == \A k \in Pages!Key : k # Pages!NoCursor
<1> SUFFICES ASSUME NEW k \in Pages!Key, k = <<>> PROVE FALSE
  BY DEF Pages!NoCursor
<1>1. "at" \in DOMAIN k
  BY DEF Pages!Key
<1>2. DOMAIN k = {}
  OBVIOUS
<1> QED BY <1>1, <1>2

LEMMA Order ==
  ASSUME NEW a \in Pages!Key, NEW b \in Pages!Key, NEW c \in Pages!Key
  PROVE  /\ ~Pages!Before(a, a)
         /\ Pages!Before(a, b) => ~Pages!Before(b, a)
         /\ Pages!Before(a, b) /\ Pages!Before(b, c) => Pages!Before(a, c)
         /\ Pages!Before(a, b) \/ Pages!Before(b, a) \/ a = b
<1>1. /\ a.at \in Nat /\ b.at \in Nat /\ c.at \in Nat
      /\ a.id \in Nat /\ b.id \in Nat /\ c.id \in Nat
  BY PagesAreFinite DEF Pages!Key
<1>2. a.at = b.at /\ a.id = b.id => a = b
  BY DEF Pages!Key
<1> QED BY <1>1, <1>2 DEF Pages!Before

LEMMA KeysOfRows ==
  ASSUME PagesTypes, NEW i \in Row
  PROVE  Pages!KeyOf(i) \in Pages!Key /\ Pages!KeyOf(i).id = i
BY DEF PagesTypes, Pages!KeyOf, Pages!Key

(* The rank of a row among those of S.                                        *)
Ahead(S, x) == {y \in S : Pages!Before(Pages!KeyOf(y), Pages!KeyOf(x)) \/ y = x}

LEMMA Ranks ==
  ASSUME PagesTypes, NEW S \in SUBSET Row, NEW x \in S
  PROVE  /\ IsFiniteSet(Ahead(S, x)) /\ Cardinality(Ahead(S, x)) \in 1 .. Cardinality(S)
         /\ \A y \in S : Pages!Before(Pages!KeyOf(x), Pages!KeyOf(y)) => Cardinality(Ahead(S, x)) < Cardinality(Ahead(S, y))
<1>1. IsFiniteSet(S) /\ Cardinality(S) \in Nat
  BY PagesAreFinite, FS_Subset, FS_CardinalityType
<1>2. ASSUME NEW y \in S
      PROVE  /\ Ahead(S, y) \subseteq S /\ y \in Ahead(S, y) /\ IsFiniteSet(Ahead(S, y))
             /\ Cardinality(Ahead(S, y)) \in Nat /\ Cardinality(Ahead(S, y)) =< Cardinality(S)
  <2>1. Ahead(S, y) \subseteq S /\ y \in Ahead(S, y)
    BY DEF Ahead
  <2> QED BY <1>1, <2>1, FS_Subset, FS_CardinalityType
<1>3. Cardinality(Ahead(S, x)) # 0
  BY <1>2, FS_EmptySet
<1>4. ASSUME NEW y \in S, Pages!Before(Pages!KeyOf(x), Pages!KeyOf(y))
      PROVE  Cardinality(Ahead(S, x)) < Cardinality(Ahead(S, y))
  <2>1. ASSUME NEW z \in Ahead(S, x) PROVE z \in Ahead(S, y)
    <3>1. z \in S /\ (Pages!Before(Pages!KeyOf(z), Pages!KeyOf(x)) \/ z = x)
      BY DEF Ahead
    <3>2. Pages!Before(Pages!KeyOf(z), Pages!KeyOf(y))
      BY <1>4, <3>1, KeysOfRows, Order
    <3> QED BY <3>1, <3>2 DEF Ahead
  <2>2. y \notin Ahead(S, x)
    <3>1. ~Pages!Before(Pages!KeyOf(y), Pages!KeyOf(x)) /\ y # x
      BY <1>4, KeysOfRows, Order
    <3> QED BY <3>1 DEF Ahead
  <2>3. Ahead(S, x) \in SUBSET Ahead(S, y) /\ Ahead(S, x) # Ahead(S, y)
    BY <1>2, <2>1, <2>2
  <2>4. Cardinality(Ahead(S, x)) =< Cardinality(Ahead(S, y)) /\ Cardinality(Ahead(S, x)) # Cardinality(Ahead(S, y))
    BY <1>2, <2>3, FS_Subset
  <2> QED BY <1>2, <2>4
<1> QED BY <1>1, <1>2, <1>3, <1>4

(* ORDER BY lists every row once.                                             *)
LEMMA SortedIs ==
  ASSUME PagesTypes, NEW S \in SUBSET Row
  PROVE  /\ Cardinality(S) \in Nat /\ Pages!Sorted(S) \in [1 .. Cardinality(S) -> S]
         /\ \A i, j \in 1 .. Cardinality(S) : i < j => Pages!Before(Pages!KeyOf(Pages!Sorted(S)[i]), Pages!KeyOf(Pages!Sorted(S)[j]))
         /\ \A x \in S : \E i \in 1 .. Cardinality(S) : Pages!Sorted(S)[i] = x
<1> DEFINE N == Cardinality(S)
           rank == [x \in S |-> Cardinality(Ahead(S, x))]
           Right(s) == \A i, j \in DOMAIN s : i < j => Pages!Before(Pages!KeyOf(s[i]), Pages!KeyOf(s[j]))
<1>1. IsFiniteSet(S) /\ N \in Nat
  BY PagesAreFinite, FS_Subset, FS_CardinalityType
<1>2. IsFiniteSet(1 .. N) /\ Cardinality(1 .. N) = N
  BY <1>1, FS_Interval
<1>3. rank \in [S -> 1 .. N]
  BY Ranks
<1>4. ASSUME NEW x \in S, NEW y \in S, x # y
      PROVE  IF Pages!Before(Pages!KeyOf(x), Pages!KeyOf(y)) THEN rank[x] < rank[y] ELSE rank[y] < rank[x]
  <2>1. Pages!Before(Pages!KeyOf(x), Pages!KeyOf(y)) => rank[x] < rank[y]
    BY Ranks
  <2>2. Pages!Before(Pages!KeyOf(y), Pages!KeyOf(x)) => rank[y] < rank[x]
    BY Ranks
  <2>3. Pages!Before(Pages!KeyOf(x), Pages!KeyOf(y)) \/ Pages!Before(Pages!KeyOf(y), Pages!KeyOf(x))
    BY <1>4, KeysOfRows, Order
  <2> QED BY <2>1, <2>2, <2>3
<1> HIDE DEF rank, N
<1>5. \A x, y \in S : rank[x] = rank[y] => x = y
  <2> SUFFICES ASSUME NEW x \in S, NEW y \in S, rank[x] = rank[y], x # y PROVE FALSE
    OBVIOUS
  <2>1. rank[x] \in Nat /\ rank[y] \in Nat
    BY <1>1, <1>3
  <2> QED BY <1>4, <2>1
<1>6. rank \in Surjection(S, 1 .. N)
  <2>1. rank \in Injection(S, 1 .. N)
    BY <1>3, <1>5 DEF Injection, IsInjective
  <2> QED BY <1>1, <1>2, <2>1, FS_Injection DEF N
<1>7. PICK s \in [1 .. N -> S] : \A i \in 1 .. N : rank[s[i]] = i
  <2> DEFINE t == [i \in 1 .. N |-> CHOOSE x \in S : rank[x] = i]
  <2>1. \A i \in 1 .. N : \E x \in S : rank[x] = i
    BY <1>6 DEF Surjection
  <2>2. \A i \in 1 .. N : t[i] \in S /\ rank[t[i]] = i
    BY <2>1
  <2>3. t \in [1 .. N -> S]
    BY <2>2
  <2> QED BY <2>2, <2>3
<1>8. Right(s)
  <2> SUFFICES ASSUME NEW i \in 1 .. N, NEW j \in 1 .. N, i < j PROVE Pages!Before(Pages!KeyOf(s[i]), Pages!KeyOf(s[j]))
    BY <1>7
  <2>1. s[i] \in S /\ s[j] \in S /\ rank[s[i]] = i /\ rank[s[j]] = j /\ i \in Nat /\ j \in Nat
    BY <1>1, <1>7
  <2>2. s[i] # s[j]
    BY <2>1
  <2>3. ~(rank[s[j]] < rank[s[i]])
    BY <2>1
  <2> QED BY <1>4, <2>1, <2>2, <2>3
<1>9. Pages!Sorted(S) \in [1 .. N -> S] /\ Right(Pages!Sorted(S))
  <2>1. Pages!Sorted(S) = CHOOSE t \in [1 .. N -> S] : Right(t)
    BY SameLibrary DEF Pages!Sorted, N
  <2> HIDE DEF Right
  <2> QED BY <1>7, <1>8, <2>1
<1>10. \A i, j \in 1 .. N : i < j => Pages!Before(Pages!KeyOf(Pages!Sorted(S)[i]), Pages!KeyOf(Pages!Sorted(S)[j]))
  BY <1>9
<1> DEFINE o == Pages!Sorted(S)
<1> HIDE DEF o
<1>11. o \in [1 .. N -> S] /\ \A i, j \in 1 .. N : i < j => Pages!Before(Pages!KeyOf(o[i]), Pages!KeyOf(o[j]))
  BY <1>9, <1>10 DEF o
<1>12. \A i, j \in 1 .. N : o[i] = o[j] => i = j
  <2> SUFFICES ASSUME NEW i \in 1 .. N, NEW j \in 1 .. N, o[i] = o[j], i < j PROVE FALSE
    BY <1>1
  <2>1. o[i] \in Row
    BY <1>11
  <2> QED BY <1>11, <2>1, KeysOfRows, Order
<1>13. o \in Surjection(1 .. N, S)
  <2>1. o \in Injection(1 .. N, S)
    BY <1>11, <1>12 DEF Injection, IsInjective
  <2> QED BY <1>1, <1>2, <2>1, FS_Injection DEF N
<1> QED BY <1>1, <1>11, <1>13 DEF Surjection, o, N

(* What the server answers is a right part of the list.                        *)
LEMMA PageFollows ==
  ASSUME PagesTypes, NEW f \in Pages!Filter, NEW c \in Spot
  PROVE  /\ Pages!Page(f, c) \in Shipped
         /\ f = filter => Follows(Pages!Page(f, c).posts, c, Pages!Page(f, c).next)
<1> DEFINE S == Pages!After(f, c)
           s == Pages!Sorted(S)
           N == Cardinality(S)
           K == IF N > Limit THEN Limit ELSE N
           next == IF N > Limit THEN Pages!KeyOf(s[Limit]) ELSE Pages!NoCursor
           p == [i \in 1 .. K |-> s[i]]
<1>1. S \in SUBSET Row /\ \A i \in S : f \in {All, KindOf[i]} /\ Past(c, Pages!KeyOf(i))
  BY DEF Pages!After, Pages!Selected, Past
<1>2. /\ N \in Nat /\ s \in [1 .. N -> S]
      /\ \A i, j \in 1 .. N : i < j => Pages!Before(Pages!KeyOf(s[i]), Pages!KeyOf(s[j]))
      /\ \A x \in S : \E i \in 1 .. N : s[i] = x
  BY <1>1, SortedIs
<1>3. f = filter => \A r \in owed : Past(c, Pages!KeyOf(r)) => r \in S
  BY DEF PagesTypes, Pages!After, Past
<1> HIDE DEF S, s, N
<1>4. Len(s) = N /\ s \in Seq(Row) /\ DOMAIN s = 1 .. N
  BY <1>1, <1>2
<1>5. K \in 0 .. N /\ Limit \in Nat \ {0}
  BY <1>2, PagesAreFinite
<1>6. SubSeq(s, 1, K) = p /\ p \in Seq(Row) /\ DOMAIN p = 1 .. K
  BY <1>1, <1>2, <1>4, <1>5
<1>7. Pages!Page(f, c) = [posts |-> p, next |-> next]
  <2>1. p[Limit] = s[Limit] \/ ~(N > Limit)
    BY <1>5
  <2>2. Pages!Page(f, c) = [posts |-> SubSeq(s, 1, K), next |-> IF N > Limit THEN Pages!KeyOf(SubSeq(s, 1, K)[Limit]) ELSE Pages!NoCursor]
    BY <1>4 DEF Pages!Page, S, s
  <2> HIDE DEF p, K
  <2> QED BY <1>6, <2>1, <2>2
<1>8. next \in Spot
  BY <1>1, <1>2, <1>5, KeysOfRows DEF Spot
<1>9. \A i \in 1 .. K : s[i] \in S /\ p[i] = s[i] /\ i \in 1 .. N
  BY <1>2, <1>5
<1>10. \A i, j \in 1 .. K : i < j => Pages!Before(Pages!KeyOf(p[i]), Pages!KeyOf(p[j]))
  BY <1>2, <1>9
<1>11. ASSUME next # Pages!NoCursor
       PROVE  /\ N > Limit /\ K = Limit /\ next = Pages!KeyOf(s[Limit]) /\ Limit \in 1 .. N /\ s[Limit] \in S
              /\ Past(c, next)
  BY <1>1, <1>2, <1>5, <1>11
<1>12. ASSUME next # Pages!NoCursor, NEW i \in 1 .. K PROVE ~Pages!Before(next, Pages!KeyOf(p[i]))
  <2>1. next = Pages!KeyOf(s[Limit]) /\ Limit \in 1 .. N /\ K = Limit /\ s[Limit] \in Row /\ p[i] = s[i] /\ s[i] \in Row
    BY <1>1, <1>9, <1>11, <1>12
  <2>2. i < Limit \/ i = Limit
    BY <1>5, <2>1
  <2>3. i < Limit => Pages!Before(Pages!KeyOf(s[i]), Pages!KeyOf(s[Limit]))
    BY <1>2, <1>9, <2>1
  <2> QED BY <2>1, <2>2, <2>3, KeysOfRows, Order
<1>13. ASSUME f = filter, NEW r \in owed, Past(c, Pages!KeyOf(r)), \A i \in 1 .. K : p[i] # r
       PROVE  next # Pages!NoCursor /\ Pages!Before(next, Pages!KeyOf(r))
  <2>1. PICK i \in 1 .. N : s[i] = r
    BY <1>2, <1>3, <1>13
  <2>2. i \notin 1 .. K
    BY <1>9, <1>13, <2>1
  <2>3. N > Limit /\ K = Limit /\ i > Limit /\ Limit \in 1 .. N
    BY <1>2, <1>5, <2>2
  <2>4. Pages!Before(Pages!KeyOf(s[Limit]), Pages!KeyOf(r))
    BY <1>2, <2>1, <2>3
  <2>5. Pages!KeyOf(s[Limit]) \in Pages!Key
    BY <1>1, <1>2, <2>3, KeysOfRows
  <2> QED BY <2>3, <2>4, <2>5, KeyIsNoStart
<1> HIDE DEF p, next, K
<1>14. Pages!Page(f, c).posts = p /\ Pages!Page(f, c).next = next
  BY <1>7
<1>15. ASSUME f = filter PROVE Follows(p, c, next)
  <2>1. \A i \in DOMAIN p : f \in {All, KindOf[p[i]]} /\ Past(c, Pages!KeyOf(p[i]))
    BY <1>1, <1>6, <1>9
  <2>2. \A r \in owed : Past(c, Pages!KeyOf(r)) /\ (\A i \in DOMAIN p : p[i] # r) => next # Pages!NoCursor /\ Pages!Before(next, Pages!KeyOf(r))
    BY <1>6, <1>13, <1>15
  <2> QED BY <1>6, <1>10, <1>11, <1>12, <1>15, <2>1, <2>2 DEF Follows
<1> QED BY <1>6, <1>7, <1>8, <1>14, <1>15 DEF Shipped

(* One part after another is a part.                                          *)
LEMMA Joined ==
  ASSUME PagesTypes, NEW p \in Seq(Row), NEW q \in Seq(Row), NEW c \in Pages!Key, NEW next \in Spot,
         Follows(p, Pages!NoCursor, c), Follows(q, c, next)
  PROVE  Follows(p \o q, Pages!NoCursor, next)
<1> DEFINE all == p \o q  m == Len(p)  n == Len(q)
<1>1. /\ m \in Nat /\ n \in Nat /\ DOMAIN p = 1 .. m /\ DOMAIN q = 1 .. n /\ DOMAIN all = 1 .. m + n
      /\ \A i \in 1 .. m : all[i] = p[i]
      /\ \A i \in 1 .. m + n : i > m => all[i] = q[i - m] /\ i - m \in 1 .. n
  OBVIOUS
<1>2. \A i \in 1 .. m : p[i] \in Row
  BY <1>1
<1>3. \A i \in 1 .. n : q[i] \in Row
  BY <1>1
<1>4. \A i \in 1 .. n : i + m \in 1 .. m + n /\ all[i + m] = q[i]
  BY <1>1
<1> HIDE DEF all, m, n
<1>5. c # Pages!NoCursor
  BY KeyIsNoStart
<1>6. ASSUME NEW i \in 1 .. m, NEW j \in 1 .. n, p[i] \in owed, q[j] \in owed
      PROVE  Pages!Before(Pages!KeyOf(p[i]), Pages!KeyOf(q[j]))
  <2>1. ~Pages!Before(c, Pages!KeyOf(p[i])) /\ Pages!Before(c, Pages!KeyOf(q[j]))
    BY <1>1, <1>5, <1>6 DEF Follows, Past
  <2>2. Pages!KeyOf(p[i]) \in Pages!Key /\ Pages!KeyOf(q[j]) \in Pages!Key
    BY <1>2, <1>3, KeysOfRows
  <2>3. Pages!Before(Pages!KeyOf(p[i]), c) \/ c = Pages!KeyOf(p[i])
    BY <2>1, <2>2, Order
  <2> QED BY <2>1, <2>2, <2>3, Order
<1>7. \A i \in DOMAIN all : filter \in {All, KindOf[all[i]]}
  <2> SUFFICES ASSUME NEW i \in 1 .. m + n PROVE filter \in {All, KindOf[all[i]]}
    BY <1>1
  <2>1. CASE i > m
    BY <1>1, <2>1 DEF Follows
  <2>2. CASE ~(i > m)
    <3>1. i \in 1 .. m
      BY <1>1, <2>2
    <3> QED BY <1>1, <3>1 DEF Follows
  <2> QED BY <2>1, <2>2
<1>8. ASSUME NEW i \in DOMAIN all, NEW j \in DOMAIN all, i < j, all[i] \in owed, all[j] \in owed
      PROVE  Pages!Before(Pages!KeyOf(all[i]), Pages!KeyOf(all[j]))
  <2>0. i \in 1 .. m + n /\ j \in 1 .. m + n
    BY <1>1
  <2>1. CASE j \in 1 .. m
    <3>1. i \in 1 .. m
      BY <1>1, <1>8, <2>0, <2>1
    <3> QED BY <1>1, <1>8, <2>1, <3>1 DEF Follows
  <2>2. CASE i \in 1 .. m /\ j > m
    BY <1>1, <1>6, <1>8, <2>0, <2>2
  <2>3. CASE i > m
    <3>1. j > m /\ i - m < j - m
      BY <1>1, <1>8, <2>0, <2>3
    <3>2. i - m \in 1 .. n /\ j - m \in 1 .. n /\ all[i] = q[i - m] /\ all[j] = q[j - m]
      BY <1>1, <2>0, <2>3, <3>1
    <3> QED BY <1>1, <1>8, <3>1, <3>2 DEF Follows
  <2> QED BY <1>1, <2>0, <2>1, <2>2, <2>3
<1>9. \A i \in DOMAIN all : all[i] \in owed => Past(Pages!NoCursor, Pages!KeyOf(all[i]))
  BY DEF Past
<1>10. ASSUME next # Pages!NoCursor, NEW i \in DOMAIN all, all[i] \in owed
       PROVE  ~Pages!Before(next, Pages!KeyOf(all[i]))
  <2>0. i \in 1 .. m + n
    BY <1>1
  <2>1. CASE i > m
    BY <1>1, <1>10, <2>0, <2>1 DEF Follows
  <2>2. CASE ~(i > m)
    <3>1. i \in 1 .. m /\ all[i] = p[i] /\ Pages!KeyOf(p[i]) \in Pages!Key /\ next \in Pages!Key
      BY <1>1, <1>2, <1>10, <2>0, <2>2, KeysOfRows DEF Spot
    <3>2. Pages!Before(c, next) /\ ~Pages!Before(c, Pages!KeyOf(p[i]))
      BY <1>1, <1>5, <1>10, <3>1 DEF Follows, Past
    <3> QED BY <3>1, <3>2, Order
  <2> QED BY <2>1, <2>2
<1>11. ASSUME NEW r \in owed, \A i \in DOMAIN all : all[i] # r
       PROVE  next # Pages!NoCursor /\ Pages!Before(next, Pages!KeyOf(r))
  <2>1. \A i \in DOMAIN p : p[i] # r
    <3> SUFFICES ASSUME NEW i \in 1 .. m PROVE p[i] # r
      BY <1>1
    <3>1. i \in 1 .. m + n
      BY <1>1
    <3> QED BY <1>1, <1>11, <3>1
  <2>2. \A i \in DOMAIN q : q[i] # r
    BY <1>1, <1>4, <1>11
  <2>3. Pages!Before(c, Pages!KeyOf(r))
    BY <2>1 DEF Follows, Past
  <2> QED BY <2>2, <2>3 DEF Follows, Past
<1>12. next # Pages!NoCursor => Past(Pages!NoCursor, next)
  BY DEF Past
<1> QED BY <1>7, <1>8, <1>9, <1>10, <1>11, <1>12 DEF Follows, all

(* Rows that change are no longer owed: a part stays right.                     *)
LEMMA StillFollows ==
  ASSUME NEW p, NEW c, NEW next, Follows(p, c, next), filter' = filter, owed' \subseteq owed,
         \A r \in owed' : Pages!KeyOf(r)' = Pages!KeyOf(r)
  PROVE  Follows(p, c, next)'
BY DEF Follows, Past


-----------------------------------------------------------------------------
(* The steps.                                                                *)

LEMMA OneMoved ==
  ASSUME PagesTypes, NEW n \in 1 .. Len(asked), NEW e \in PageRequest, e.cursor = asked[n].cursor,
         asked' = [asked EXCEPT ![n] = e]
  PROVE  /\ asked' \in Seq(PageRequest) /\ Len(asked') = Len(asked) /\ asked'[n] = e
         /\ \A m \in 1 .. Len(asked) : (m # n => asked'[m] = asked[m]) /\ (Pages!Late(m)' <=> Pages!Late(m))
<1> HIDE DEF PageRequest
<1>1. asked \in Seq(PageRequest)
  BY DEF PagesTypes, PageRequest
<1>2. asked' \in Seq(PageRequest) /\ Len(asked') = Len(asked) /\ asked'[n] = e
      /\ \A m \in 1 .. Len(asked) : m # n => asked'[m] = asked[m]
  BY <1>1
<1>3. \A m \in 1 .. Len(asked) : asked'[m].cursor = asked[m].cursor
  BY <1>2
<1>4. ASSUME NEW m \in 1 .. Len(asked) PROVE Pages!Late(m)' <=> Pages!Late(m)
  <2>1. Len(asked) \in Nat /\ \A k \in m + 1 .. Len(asked) : k \in 1 .. Len(asked)
    BY <1>1
  <2> QED BY <1>2, <1>3, <2>1 DEF Pages!Late
<1> QED BY <1>2, <1>4

LEMMA OneAsked ==
  ASSUME PagesTypes, NEW f \in Pages!Filter, NEW c \in Spot, Pages!Send(f, c)
  PROVE  /\ asked' \in Seq(PageRequest) /\ Len(asked') = Len(asked) + 1 /\ Len(asked) \in Nat /\ loading'
         /\ asked'[Len(asked) + 1] = [filter |-> f, cursor |-> c, state |-> "sent", page |-> Pages!NoPage]
         /\ \A m \in 1 .. Len(asked) : asked'[m] = asked[m]
<1> DEFINE e == [filter |-> f, cursor |-> c, state |-> "sent", page |-> Pages!NoPage]
<1>1. e \in PageRequest
  BY DEF PageRequest, Pages!NoPage, Shipped, Spot
<1>2. asked \in Seq(PageRequest) /\ asked' = Append(asked, e) /\ loading'
  BY DEF PagesTypes, PageRequest, Pages!Send
<1> HIDE DEF e, PageRequest
<1> QED BY <1>1, <1>2 DEF e

LEMMA RowsChange ==
  ASSUME PagesInv, NEW i \in Row, NEW t \in Time, NEW b \in BOOLEAN, Pages!Change(i, t, b)
  PROVE  PagesInv'
<1>1. PagesTypes /\ (hasMore <=> cursor # Pages!NoCursor) /\ (stale \/ ListInv)
  BY DEF PagesInv
<1>2. /\ rows' = [rows EXCEPT ![i].at = t, ![i].readable = b] /\ owed' = owed \ {i}
      /\ UNCHANGED <<filter, posts, cursor, hasMore, loading, failed, asked, stale>>
  BY DEF Pages!Change
<1>3. /\ rows' \in [Row -> [at : Time, readable : BOOLEAN]]
      /\ \A r \in Row : r # i => rows'[r] = rows[r]
  BY <1>1, <1>2 DEF PagesTypes
<1>4. owed' \subseteq owed /\ \A r \in owed' : r \in Row /\ r # i /\ Pages!KeyOf(r)' = Pages!KeyOf(r)
  BY <1>1, <1>2, <1>3 DEF Pages!KeyOf, PagesTypes, Pages!Selected
<1>5. owed' \subseteq Pages!Selected(filter)'
  BY <1>1, <1>2, <1>3, <1>4 DEF PagesTypes, Pages!Selected
<1>6. PagesTypes'
  BY <1>1, <1>2, <1>3, <1>5 DEF PagesTypes
<1>7. ASSUME ListInv PROVE ListInv'
  <2>1. ASSUME NEW p, NEW c, NEW next, Follows(p, c, next) PROVE Follows(p, c, next)'
    BY <1>2, <1>4, <2>1, StillFollows
  <2>2. Follows(posts, Pages!NoCursor, cursor) => Follows(posts, Pages!NoCursor, cursor)'
    BY <1>2, <2>1
  <2>3. ListRight'
    BY <1>2, <1>7, <2>2 DEF ListInv, ListRight
  <2>4. ASSUME NEW n \in 1 .. Len(asked), Out(n)' PROVE Alone(n)' /\ PageRight(n)'
    <3>1. Alone(n) /\ PageRight(n)
      BY <1>2, <1>7, <2>4 DEF ListInv, Out, Pages!Late
    <3>2. asked[n].state = "answered" =>
            Follows(asked[n].page.posts, asked[n].cursor, asked[n].page.next)'
      BY <1>2, <2>1, <3>1 DEF PageRight
    <3> QED BY <1>2, <3>1, <3>2 DEF Alone, PageRight
  <2> QED BY <1>2, <2>3, <2>4 DEF ListInv
<1> QED BY <1>1, <1>2, <1>6, <1>7 DEF PagesInv

LEMMA StepSwitch ==
  ASSUME PagesInv, NEW f \in Pages!Filter, Pages!SwitchFilter(f)
  PROVE  PagesInv'
<1>1. PagesTypes
  BY DEF PagesInv
<1>2. /\ posts' = <<>> /\ cursor' = Pages!NoCursor /\ ~hasMore' /\ filter' = f /\ Pages!Send(f, Pages!NoCursor)
      /\ owed' = Pages!Selected(f) /\ rows' = rows
  BY DEF Pages!SwitchFilter, Pages!Open
<1>3. /\ asked' \in Seq(PageRequest) /\ Len(asked') = Len(asked) + 1 /\ Len(asked) \in Nat /\ loading'
      /\ asked'[Len(asked) + 1] = [filter |-> f, cursor |-> Pages!NoCursor, state |-> "sent", page |-> Pages!NoPage]
  BY <1>1, <1>2, OneAsked DEF Spot
<1>4. PagesTypes'
  <2>1. Pages!Selected(f)' = Pages!Selected(f)
    BY <1>2 DEF Pages!Selected
  <2> QED BY <1>1, <1>2, <1>3, <2>1 DEF PagesTypes, PageRequest, Spot
<1>5. ListRight'
  BY <1>2, <1>3 DEF ListRight
<1>6. ASSUME NEW n \in 1 .. Len(asked'), Out(n)' PROVE Alone(n)' /\ PageRight(n)'
  <2>1. n = Len(asked) + 1
    <3> SUFFICES ASSUME n # Len(asked) + 1 PROVE FALSE
      OBVIOUS
    <3>1. Len(asked) + 1 \in n + 1 .. Len(asked')
      BY <1>3
    <3> QED BY <1>3, <1>6, <3>1 DEF Out, Pages!Late
  <2> QED BY <1>2, <1>3, <2>1 DEF Alone, PageRight
<1> QED BY <1>2, <1>4, <1>5, <1>6 DEF PagesInv, ListInv

LEMMA StepLoadMore ==
  ASSUME PagesInv, Pages!LoadMore
  PROVE  PagesInv'
<1>1. PagesTypes /\ (hasMore <=> cursor # Pages!NoCursor) /\ (stale \/ ListInv)
  BY DEF PagesInv
<1>2. /\ hasMore /\ ~loading /\ Pages!Send(filter, cursor)
      /\ UNCHANGED <<rows, filter, posts, cursor, hasMore, owed, stale>>
  BY DEF Pages!LoadMore
<1>3. /\ asked' \in Seq(PageRequest) /\ Len(asked') = Len(asked) + 1 /\ Len(asked) \in Nat /\ loading'
      /\ asked'[Len(asked) + 1] = [filter |-> filter, cursor |-> cursor, state |-> "sent", page |-> Pages!NoPage]
      /\ \A m \in 1 .. Len(asked) : asked'[m] = asked[m]
  BY <1>1, <1>2, OneAsked DEF PagesTypes
<1>4. PagesTypes'
  <2>1. Pages!Selected(filter)' = Pages!Selected(filter)
    BY <1>2 DEF Pages!Selected
  <2> QED BY <1>1, <1>2, <1>3, <2>1 DEF PagesTypes, PageRequest
<1>5. ASSUME ListInv PROVE ListInv'
  <2>1. Follows(posts, Pages!NoCursor, cursor)
    BY <1>1, <1>2, <1>5 DEF ListInv, ListRight
  <2>2. Follows(posts, Pages!NoCursor, cursor)'
    <3>1. \A r : Pages!KeyOf(r)' = Pages!KeyOf(r)
      BY <1>2 DEF Pages!KeyOf
    <3>2. \A p, c, next : Follows(p, c, next) => Follows(p, c, next)'
      BY <1>2, <3>1, StillFollows
    <3> QED BY <1>2, <2>1, <3>2
  <2>3. ASSUME NEW n \in 1 .. Len(asked'), Out(n)' PROVE Alone(n)' /\ PageRight(n)'
    <3>1. n = Len(asked) + 1
      <4> SUFFICES ASSUME n # Len(asked) + 1 PROVE FALSE
        OBVIOUS
      <4>1. n \in 1 .. Len(asked)
        BY <1>3
      <4>2. asked'[n] = asked[n]
        BY <1>3, <4>1
      <4>3. Pages!Late(n) => Pages!Late(n)'
        BY <1>3, <4>1 DEF Pages!Late
      <4>4. Out(n)
        BY <2>3, <4>2, <4>3 DEF Out
      <4> QED BY <1>2, <1>5, <4>1, <4>4 DEF ListInv, Alone
    <3> QED BY <1>2, <1>3, <3>1 DEF Alone, PageRight
  <2> QED BY <2>2, <2>3 DEF ListInv, ListRight
<1> QED BY <1>1, <1>2, <1>4, <1>5 DEF PagesInv

(* Nothing but requests and what is shown changes: parts stay right.             *)
LEMMA Unmoved ==
  ASSUME UNCHANGED <<rows, filter, owed>>
  PROVE  /\ Pages!Selected(filter)' = Pages!Selected(filter)
         /\ \A p, c, next : Follows(p, c, next) <=> Follows(p, c, next)'
<1>1. \A r : Pages!KeyOf(r)' = Pages!KeyOf(r)
  BY DEF Pages!KeyOf
<1> QED BY <1>1 DEF Follows, Past, Pages!Selected

LEMMA PageAnswered ==
  ASSUME PagesInv, NEW n \in 1 .. Len(asked), Pages!AnswerPage(n)
  PROVE  PagesInv'
<1>1. PagesTypes /\ (hasMore <=> cursor # Pages!NoCursor) /\ (stale \/ ListInv)
  BY DEF PagesInv
<1>0. PICK q, shipped, e : /\ q = asked[n] /\ shipped = Pages!Page(q.filter, q.cursor)
                           /\ e = [q EXCEPT !.state = "answered", !.page = shipped]
  OBVIOUS
<1>2. /\ q.state = "sent" /\ asked' = [asked EXCEPT ![n] = e]
      /\ UNCHANGED <<rows, filter, posts, cursor, hasMore, loading, failed, owed, stale>>
  BY <1>0 DEF Pages!AnswerPage
<1>3. q \in PageRequest
  BY <1>0, <1>1 DEF PagesTypes
<1>4. shipped \in Shipped
  <2>1. q.filter \in Pages!Filter /\ q.cursor \in Spot
    BY <1>3 DEF PageRequest
  <2> QED BY <1>0, <1>1, <2>1, PageFollows
<1>5. /\ e \in PageRequest /\ e.cursor = q.cursor /\ e.page = shipped /\ e.filter = q.filter
      /\ e.state = "answered"
  BY <1>0, <1>3, <1>4 DEF PageRequest
<1>6. /\ asked' \in Seq(PageRequest) /\ Len(asked') = Len(asked) /\ asked'[n] = e
      /\ \A m \in 1 .. Len(asked) : (m # n => asked'[m] = asked[m]) /\ (Pages!Late(m)' <=> Pages!Late(m))
  BY <1>0, <1>1, <1>2, <1>5, OneMoved
<1>7. /\ Pages!Selected(filter)' = Pages!Selected(filter)
      /\ \A p, c, next : Follows(p, c, next) <=> Follows(p, c, next)'
  BY <1>2, Unmoved
<1>8. PagesTypes'
  BY <1>1, <1>2, <1>6, <1>7 DEF PagesTypes, PageRequest
<1>9. ASSUME ListInv PROVE ListInv'
  <2>1. ListRight'
    BY <1>2, <1>7, <1>9 DEF ListInv, ListRight
  <2>2. ASSUME NEW m \in 1 .. Len(asked), Out(m)' PROVE Alone(m)' /\ PageRight(m)'
    <3>1. Out(m)
      BY <1>0, <1>2, <1>6, <2>2 DEF Out
    <3>2. Alone(m) /\ PageRight(m)
      BY <1>9, <3>1 DEF ListInv
    <3>3. CASE m # n
      BY <1>2, <1>6, <1>7, <3>2, <3>3 DEF Alone, PageRight
    <3>4. CASE m = n
      <4>1. q.filter = filter /\ q.cursor = cursor
        BY <1>0, <3>2, <3>4 DEF Alone
      <4>2. Follows(shipped.posts, q.cursor, shipped.next)
        BY <1>0, <1>1, <4>1, PageFollows DEF PagesTypes
      <4>3. Follows(shipped.posts, q.cursor, shipped.next)'
        BY <1>7, <4>2
      <4>4. Follows(e.page.posts, e.cursor, e.page.next)'
        BY <1>5, <4>3
      <4> QED BY <1>0, <1>2, <1>5, <1>6, <3>2, <3>4, <4>4 DEF Alone, PageRight
    <3> QED BY <3>3, <3>4
  <2> QED BY <1>6, <2>1, <2>2 DEF ListInv
<1> QED BY <1>1, <1>2, <1>8, <1>9 DEF PagesInv

(* A request ends.                                                           *)
LEMMA Ends ==
  ASSUME PagesInv, NEW n \in 1 .. Len(asked), asked[n].state # "shown", ~loading',
         asked' = [asked EXCEPT ![n].state = "shown", ![n].page = Pages!NoPage],
         stale' = (stale \/ Pages!Late(n)), UNCHANGED <<rows, filter, owed>>,
         posts' \in Seq(Row), cursor' \in Spot, hasMore' <=> cursor' # Pages!NoCursor,
         ~stale' => ListRight'
  PROVE  PagesInv'
<1>1. PagesTypes /\ (hasMore <=> cursor # Pages!NoCursor) /\ (stale \/ ListInv)
  BY DEF PagesInv
<1> DEFINE q == asked[n]  e == [q EXCEPT !.state = "shown", !.page = Pages!NoPage]
<1>2. asked' = [asked EXCEPT ![n] = e]
  OBVIOUS
<1>3. q \in PageRequest /\ Pages!NoPage \in Shipped
  <2>1. q \in PageRequest
    BY <1>1 DEF PagesTypes
  <2> QED BY <2>1 DEF Pages!NoPage, Shipped, Spot
<1>4. e \in PageRequest /\ e.cursor = q.cursor /\ e.state = "shown"
  BY <1>3 DEF PageRequest
<1> HIDE DEF e
<1>5. /\ asked' \in Seq(PageRequest) /\ Len(asked') = Len(asked) /\ asked'[n] = e
      /\ \A m \in 1 .. Len(asked) : (m # n => asked'[m] = asked[m]) /\ (Pages!Late(m)' <=> Pages!Late(m))
  BY <1>1, <1>2, <1>4, OneMoved
<1>6. PagesTypes'
  BY <1>1, <1>5, Unmoved DEF PagesTypes, PageRequest
<1>7. ASSUME ~stale' PROVE ListInv'
  <2>1. ListInv /\ ~Pages!Late(n)
    BY <1>1, <1>7
  <2>2. n = Len(asked)
    BY <2>1 DEF ListInv, Out, Alone
  <2>3. ASSUME NEW m \in 1 .. Len(asked'), Out(m)' PROVE FALSE
    <3>1. m \in 1 .. Len(asked) /\ m # n
      BY <1>4, <1>5, <2>3 DEF Out
    <3>2. Out(m)
      BY <1>5, <2>3, <3>1 DEF Out
    <3> QED BY <2>1, <2>2, <3>1, <3>2 DEF ListInv, Alone
  <2> QED BY <1>7, <2>3 DEF ListInv
<1> QED BY <1>6, <1>7 DEF PagesInv

LEMMA StepShow ==
  ASSUME PagesInv, NEW n \in 1 .. Len(asked), Pages!ShowPage(n)
  PROVE  PagesInv'
<1>1. PagesTypes /\ (stale \/ ListInv)
  BY DEF PagesInv
<1> DEFINE q == asked[n]
<1>2. /\ q.state = "answered" /\ posts' = Pages!Extended(q) /\ cursor' = q.page.next
      /\ (hasMore' <=> cursor' # Pages!NoCursor) /\ ~loading'
      /\ asked' = [asked EXCEPT ![n].state = "shown", ![n].page = Pages!NoPage]
      /\ stale' = (stale \/ Pages!Late(n)) /\ UNCHANGED <<rows, filter, failed, owed>>
  BY DEF Pages!ShowPage
<1>3. q \in PageRequest
  <2> HIDE DEF PageRequest
  <2> QED BY <1>1 DEF PagesTypes
<1>4. /\ q.page.posts \in Seq(Row) /\ q.page.next \in Spot /\ q.cursor \in Spot /\ posts \in Seq(Row)
  BY <1>1, <1>3 DEF PageRequest, Shipped, PagesTypes
<1>5. posts' \in Seq(Row) /\ cursor' \in Spot
  BY <1>2, <1>4 DEF Pages!Extended
<1>6. ASSUME ~stale' PROVE ListRight'
  <2>1. ListInv /\ Out(n)
    BY <1>1, <1>2, <1>6 DEF Out
  <2>2. q.cursor = cursor /\ Follows(q.page.posts, q.cursor, q.page.next) /\ ListRight
    BY <1>2, <2>1 DEF ListInv, Alone, PageRight
  <2>3. Follows(posts', Pages!NoCursor, q.page.next)
    <3>1. CASE q.cursor = Pages!NoCursor
      BY <1>2, <2>2, <3>1 DEF Pages!Extended
    <3>2. CASE q.cursor # Pages!NoCursor
      <4>1. q.cursor \in Pages!Key /\ Follows(posts, Pages!NoCursor, q.cursor) /\ posts' = posts \o q.page.posts
        BY <1>2, <1>4, <2>2, <3>2 DEF Pages!Extended, ListRight, Spot
      <4> QED BY <1>1, <1>4, <2>2, <4>1, Joined
    <3> QED BY <3>1, <3>2
  <2>4. \A p, c, next : Follows(p, c, next) <=> Follows(p, c, next)'
    BY <1>2, Unmoved
  <2>5. Follows(posts, Pages!NoCursor, cursor)'
    BY <1>2, <2>3, <2>4
  <2> QED BY <2>5 DEF ListRight
<1> QED BY <1>2, <1>5, <1>6, Ends

LEMMA StepFails ==
  ASSUME PagesInv, NEW n \in 1 .. Len(asked), Pages!PageFails(n)
  PROVE  PagesInv'
<1>1. PagesTypes /\ (hasMore <=> cursor # Pages!NoCursor) /\ (stale \/ ListInv)
  BY DEF PagesInv
<1>2. /\ asked[n].state # "shown" /\ failed' /\ ~loading'
      /\ asked' = [asked EXCEPT ![n].state = "shown", ![n].page = Pages!NoPage]
      /\ stale' = (stale \/ Pages!Late(n)) /\ UNCHANGED <<rows, filter, posts, cursor, hasMore, owed>>
  BY DEF Pages!PageFails
<1>3. ASSUME ~stale' PROVE ListRight'
  <2>1. ListRight
    BY <1>1, <1>2, <1>3 DEF ListInv
  <2>2. \A p, c, next : Follows(p, c, next) <=> Follows(p, c, next)'
    BY <1>2, Unmoved
  <2> QED BY <1>2, <2>1, <2>2 DEF ListRight
<1>4. posts' \in Seq(Row) /\ cursor' \in Spot /\ (hasMore' <=> cursor' # Pages!NoCursor)
  BY <1>1, <1>2 DEF PagesTypes
<1> QED BY <1>2, <1>3, <1>4, Ends

-----------------------------------------------------------------------------
LEMMA PagesInit == Pages!Init => PagesInv
<1> SUFFICES ASSUME Pages!Init PROVE PagesInv
  OBVIOUS
<1>1. PagesTypes
  BY DEF Pages!Init, PagesTypes, Pages!Filter, Spot
<1>2. Follows(posts, Pages!NoCursor, cursor)
  BY DEF Pages!Init, Follows
<1>3. Len(asked) = 0 /\ (hasMore <=> cursor # Pages!NoCursor)
  BY DEF Pages!Init
<1> QED BY <1>1, <1>2, <1>3 DEF PagesInv, ListInv, ListRight

LEMMA PagesStep == PagesInv /\ [Pages!Next]_(Pages!vars) => PagesInv'
<1> SUFFICES ASSUME PagesInv, [Pages!Next]_(Pages!vars) PROVE PagesInv'
  OBVIOUS
<1>1. CASE Pages!Next
  BY <1>1, RowsChange, StepSwitch, StepLoadMore, PageAnswered, StepShow, StepFails DEF Pages!Next
<1>2. CASE UNCHANGED Pages!vars
  <2>1. UNCHANGED <<rows, filter, posts, cursor, hasMore, loading, failed, asked, owed, stale>>
    BY <1>2 DEF Pages!vars
  <2>2. /\ Pages!Selected(filter)' = Pages!Selected(filter)
        /\ \A p, c, next : Follows(p, c, next) <=> Follows(p, c, next)'
    BY <2>1, Unmoved
  <2> QED BY <2>1, <2>2 DEF PagesInv, PagesTypes, ListInv, ListRight, Out, Pages!Late, Alone, PageRight
<1> QED BY <1>1, <1>2

LEMMA PagesMean == PagesInv => Pages!ListFollowsRows
<1> SUFFICES ASSUME PagesInv, ~stale PROVE Pages!NothingSkipped /\ Pages!NothingTwice /\ \A i \in Pages!Shown : filter \in {All, KindOf[i]}
  BY DEF Pages!ListFollowsRows
<1>1. PagesTypes /\ (hasMore <=> cursor # Pages!NoCursor) /\ ListRight
  BY DEF PagesInv, ListInv
<1>2. \A i \in DOMAIN posts : posts[i] \in Row
  BY <1>1 DEF PagesTypes
<1>3. Pages!Shown = {posts[i] : i \in DOMAIN posts}
  BY DEF Pages!Shown, Pages!Range
<1>4. CASE posts = <<>> /\ (loading \/ failed)
  <2>1. DOMAIN posts = {} /\ Len(posts) = 0
    BY <1>4
  <2> QED BY <1>3, <1>4, <2>1 DEF Pages!NothingSkipped, Pages!NothingTwice
<1>5. CASE Follows(posts, Pages!NoCursor, cursor)
  <2>1. \A i \in Pages!Shown : filter \in {All, KindOf[i]}
    BY <1>3, <1>5 DEF Follows
  <2>2. Pages!NothingTwice
    <3> SUFFICES ASSUME NEW i \in 1 .. Len(posts), NEW j \in 1 .. Len(posts), posts[i] = posts[j],
                        posts[i] \in owed, i < j
                 PROVE  FALSE
      BY <1>1 DEF Pages!NothingTwice, PagesTypes
    <3>1. Pages!Before(Pages!KeyOf(posts[i]), Pages!KeyOf(posts[j])) /\ posts[i] \in Row
      BY <1>1, <1>2, <1>5 DEF Follows, PagesTypes
    <3> QED BY <1>1, <3>1, KeysOfRows, Order
  <2>3. ASSUME NEW i \in owed \ Pages!Shown
        PROVE  hasMore /\ \A k \in Pages!Shown : k \in owed => Pages!Before(Pages!KeyOf(k), Pages!KeyOf(i))
    <3>1. \A j \in DOMAIN posts : posts[j] # i
      BY <1>3, <2>3
    <3>2. cursor # Pages!NoCursor /\ Pages!Before(cursor, Pages!KeyOf(i)) /\ cursor \in Pages!Key /\ i \in Row
      BY <1>1, <1>5, <3>1 DEF Follows, Past, PagesTypes, Spot, Pages!Selected
    <3>3. ASSUME NEW k \in Pages!Shown, k \in owed PROVE Pages!Before(Pages!KeyOf(k), Pages!KeyOf(i))
      <4>1. k \in Row /\ ~Pages!Before(cursor, Pages!KeyOf(k))
        BY <1>2, <1>3, <1>5, <3>2, <3>3 DEF Follows
      <4> QED BY <1>1, <3>2, <4>1, KeysOfRows, Order
    <3> QED BY <1>1, <3>2, <3>3
  <2> QED BY <2>1, <2>2, <2>3 DEF Pages!NothingSkipped
<1> QED BY <1>1, <1>4, <1>5 DEF ListRight

(* Whatever rows are published, changed or removed between the pages, for every    *)
(* number of pages and requests, the list loaded with "load more" has no hole and   *)
(* no row twice, until a request of an earlier filter ends.                       *)
THEOREM NoHoles == Pages!Spec => []ListFollowsRows
<1>1. PagesInv => ListFollowsRows
  BY PagesMean DEF ListFollowsRows
<1> QED BY PagesInit, PagesStep, <1>1, PTL DEF Pages!Spec

-----------------------------------------------------------------------------
(* ComposePages.tla: what each form knows of what the server has.                  *)

WorkState == [text : Nat, by : Tab \cup {"none"}]
ItemState == [work : Nat, file : Nat, caption : Nat, live : BOOLEAN]
RowState == [id : Nat, caption : Nat, dirty : BOOLEAN]
FormState == [text : Nat, existing : Seq(RowState), files : SUBSET Nat]
Removal == [at : Nat, id : Nat, state : {"asked", "ok", "refused"}]
PageState == [edit : BOOLEAN, phase : {"loading", "ready", "saving", "left"}, form : FormState, sent : FormState,
              step : {"none", "create", "text", "caption", "files"}, todo : SUBSET RowState,
              state : {"none", "asked", "ok", "refused"}, removals : SUBSET Removal]

ComposeTypes ==
  /\ works \in Seq(WorkState) /\ Len(works) >= 1 /\ works[1].by = "none"
  /\ items \in Seq(ItemState) /\ page \in [Tab -> PageState] /\ typed \in Nat
  /\ others \in [Tab -> SUBSET Nat] /\ lost \subseteq Tab

Files(p) == p.form.files \cup p.sent.files
Copies(f) == {i \in DOMAIN items : items[i].file = f}
Mine(e) == {w \in DOMAIN works : works[w].by = e}

(* The last submission has made its work or its items; has changed the text.     *)
Finished(p) == p.phase = "left" \/ (p.step \in {"create", "files"} /\ p.state = "ok")
Renamed(p) == p.phase = "left" \/ p.step \in {"caption", "files"} \/ (p.step = "text" /\ p.state = "ok")

First(todo) == CHOOSE m \in todo : \A n \in todo : m.id <= n.id

Flow(p) ==
  /\ p.phase \in {"loading", "ready", "left"} <=> p.step = "none"
  /\ p.step = "none" <=> p.state = "none"
  /\ p.phase = "loading" => p.edit /\ p.form = Compose!Nothing /\ p.sent = Compose!Nothing
  /\ p.edit => p.step # "create"
  /\ ~p.edit => p.step \in {"none", "create"} /\ p.form.existing = <<>> /\ p.sent.existing = <<>>
  /\ p.todo \subseteq Compose!Dirty(p.sent)
  /\ p.step = "caption" => p.todo # {}
  /\ p.step \in {"none", "files"} => p.todo = {}

(* Rows are of different items; once changed, a row stays so.                   *)
Distinct(s) == \A i, j \in DOMAIN s : s[i].id \in DOMAIN items /\ (s[i].id = s[j].id => i = j)

RowsRight(p) ==
  /\ Distinct(p.form.existing) /\ Distinct(p.sent.existing)
  /\ \A i \in DOMAIN p.form.existing, j \in DOMAIN p.sent.existing :
       p.form.existing[i].id = p.sent.existing[j].id /\ p.sent.existing[j].dirty => p.form.existing[i].dirty

(* The server has the caption of row m, other forms' writes o aside.            *)
Kept(m, o) == m.id \notin o /\ items[m.id].live => items[m.id].caption = m.caption

(* So it is of what was not changed, and of what has been sent since "save".     *)
CaptionsRight(p, o) ==
  /\ \A i \in DOMAIN p.form.existing : ~p.form.existing[i].dirty => Kept(p.form.existing[i], o)
  /\ \A i \in DOMAIN p.sent.existing :
       LET m == p.sent.existing[i] IN
       ~m.dirty \/ (p.phase \in {"saving", "left"} /\ m \notin p.todo) => Kept(m, o)
  /\ p.step = "caption" /\ p.state = "ok" => Kept(First(p.todo), o)

TextRight(p, o) == p.edit /\ Renamed(p) /\ 0 \notin o => works[1].text = p.sent.text

FilesRight(p, clean) ==
  \A f \in Files(p) :
    /\ f \in 1 .. typed
    /\ Finished(p) /\ f \in p.sent.files => Copies(f) # {}
    /\ clean => IF Finished(p) /\ f \in p.sent.files THEN \E i : Copies(f) = {i} ELSE Copies(f) = {}

WorkRight(e, p, clean) ==
  ~p.edit => /\ Finished(p) => \E w \in Mine(e) : works[w].text = p.sent.text
             /\ clean => IF Finished(p) THEN \E w : Mine(e) = {w} ELSE Mine(e) = {}

TabRight(e, p, o, clean) ==
  Flow(p) /\ RowsRight(p) /\ CaptionsRight(p, o) /\ TextRight(p, o) /\ FilesRight(p, clean) /\ WorkRight(e, p, clean)

ComposeInv ==
  /\ ComposeTypes
  /\ \A i \in DOMAIN items : items[i].file =< typed
  /\ \A e, f \in Tab : e # f => Files(page[e]) \cap Files(page[f]) = {}
  /\ \A e \in Tab : TabRight(e, page[e], others[e], e \notin lost)

-----------------------------------------------------------------------------
(* Numbers in order.                                                         *)

LEMMA InOrderIs ==
  ASSUME NEW S \in SUBSET Nat, IsFiniteSet(S)
  PROVE  /\ Cardinality(S) \in Nat /\ Compose!InOrder(S) \in [1 .. Cardinality(S) -> S]
         /\ \A x \in S : \E i \in 1 .. Cardinality(S) : Compose!InOrder(S)[i] = x
         /\ \A i, j \in 1 .. Cardinality(S) : Compose!InOrder(S)[i] = Compose!InOrder(S)[j] => i = j
         /\ \A i \in 1 .. Cardinality(S) : Cardinality({m \in S : m < Compose!InOrder(S)[i]}) = i - 1
<1> DEFINE N == Cardinality(S)
           Below(n) == {m \in S : m < n}
           rank == [n \in S |-> Cardinality(Below(n)) + 1]
           o == Compose!InOrder(S)
<1>1. N \in Nat
  BY FS_CardinalityType
<1>2. ASSUME NEW n \in S
      PROVE  IsFiniteSet(Below(n)) /\ Cardinality(Below(n)) \in Nat /\ Cardinality(Below(n)) < N
  <2>1. Below(n) \subseteq S /\ n \in S /\ n \notin Below(n)
    OBVIOUS
  <2>2. Below(n) \in SUBSET S /\ Below(n) # S
    BY <2>1
  <2> HIDE DEF Below
  <2> QED BY <1>1, <2>2, FS_Subset, FS_CardinalityType
<1>3. ASSUME NEW m \in S, NEW n \in S, m < n
      PROVE  Cardinality(Below(m)) < Cardinality(Below(n))
  <2>0. S \subseteq Nat /\ m \in Nat /\ n \in Nat
    OBVIOUS
  <2>1. Below(m) \subseteq Below(n) /\ m \in Below(n) /\ m \notin Below(m)
    <3>1. \A k \in Nat : k < m => k < n
      BY <1>3, <2>0
    <3>2. ~(m < m)
      BY <2>0
    <3> QED BY <1>3, <2>0, <3>1, <3>2
  <2>2. Below(m) \in SUBSET Below(n) /\ Below(m) # Below(n)
    BY <2>1
  <2>3. Cardinality(Below(m)) =< Cardinality(Below(n)) /\ Cardinality(Below(m)) # Cardinality(Below(n))
    <3> HIDE DEF Below
    <3> QED BY <1>2, <2>2, FS_Subset
  <2> HIDE DEF Below
  <2> QED BY <1>2, <2>3
<1>4. rank \in [S -> 1 .. N]
  <2> SUFFICES ASSUME NEW n \in S PROVE Cardinality(Below(n)) + 1 \in 1 .. N
    OBVIOUS
  <2> HIDE DEF Below, N
  <2> QED BY <1>1, <1>2
<1>5. \A n \in S : rank[n] = Cardinality(Below(n)) + 1
  OBVIOUS
<1> HIDE DEF rank, N
<1>6. \A m, n \in S : rank[m] = rank[n] => m = n
  <2> SUFFICES ASSUME NEW m \in S, NEW n \in S, rank[m] = rank[n], m < n PROVE FALSE
    OBVIOUS
  <2> HIDE DEF Below
  <2> QED BY <1>2, <1>3, <1>5
<1>7. IsFiniteSet(1 .. N) /\ Cardinality(1 .. N) = N
  BY <1>1, FS_Interval
<1>8. rank \in Surjection(S, 1 .. N)
  <2>1. rank \in Injection(S, 1 .. N)
    BY <1>4, <1>6 DEF Injection, IsInjective
  <2> QED BY <1>7, <2>1, FS_Injection DEF N
<1>9. ASSUME NEW i \in 1 .. N PROVE o[i] \in S /\ Cardinality(Below(o[i])) = i - 1
  <2>1. o[i] = CHOOSE n \in S : Cardinality(Below(n)) = i - 1
    BY <1>9, SameLibrary DEF Compose!InOrder, N
  <2>2. \E n \in S : Cardinality(Below(n)) = i - 1
    <3>1. PICK n \in S : rank[n] = i
      BY <1>8 DEF Surjection
    <3> HIDE DEF Below
    <3> QED BY <1>2, <1>5, <3>1
  <2> HIDE DEF Below, o
  <2> QED BY <2>1, <2>2
<1>10. o \in [1 .. N -> S]
  <2> DEFINE g(i) == CHOOSE n \in S : Compose!Cardinality(Below(n)) = i - 1
  <2>0. o = [i \in 1 .. N |-> g(i)]
    BY SameLibrary DEF Compose!InOrder, N
  <2> HIDE DEF g, o
  <2>1. o = [i \in 1 .. N |-> o[i]]
    BY <2>0
  <2> HIDE DEF o
  <2> QED BY <1>9, <2>1
<1>11. \A i \in 1 .. N : rank[o[i]] = i
  <2> SUFFICES ASSUME NEW i \in 1 .. N PROVE rank[o[i]] = i
    OBVIOUS
  <2>1. o[i] \in S /\ Cardinality(Below(o[i])) = i - 1
    BY <1>9
  <2>2. rank[o[i]] = Cardinality(Below(o[i])) + 1 /\ i \in Nat
    <3>1. i \in Nat
      BY <1>1
    <3>2. rank[o[i]] = Cardinality(Below(o[i])) + 1
      <4> HIDE DEF Below, o
      <4> QED BY <1>5, <2>1
    <3> QED BY <3>1, <3>2
  <2> HIDE DEF Below, o
  <2> QED BY <2>1, <2>2
<1>12. \A x \in S : rank[x] \in 1 .. N /\ o[rank[x]] = x
  <2> SUFFICES ASSUME NEW x \in S PROVE rank[x] \in 1 .. N /\ o[rank[x]] = x
    OBVIOUS
  <2>1. rank[x] \in 1 .. N
    BY <1>4
  <2> HIDE DEF o
  <2> QED BY <1>6, <1>9, <1>11, <2>1
<1> QED BY <1>1, <1>9, <1>10, <1>11, <1>12 DEF N

LEMMA Numbered ==
  ASSUME NEW n \in Nat, NEW S \in SUBSET (1 .. n)
  PROVE  IsFiniteSet(S) /\ S \in SUBSET Nat
<1>1. IsFiniteSet(1 .. n) /\ 1 .. n \subseteq Nat
  BY FS_Interval
<1> QED BY <1>1, FS_Subset

(* The caption that is sent first is one of those to be sent.                   *)
LEMMA FirstIs ==
  ASSUME NEW todo \in SUBSET RowState, NEW n \in Nat, \A m \in todo : m.id \in 1 .. n, todo # {}
  PROVE  First(todo) \in todo
<1> DEFINE S == {m.id : m \in todo}  least == Compose!InOrder(S)[1]
<1>1. S \in SUBSET (1 .. n) /\ S # {}
  OBVIOUS
<1>2. IsFiniteSet(S) /\ S \in SUBSET Nat
  BY <1>1, Numbered
<1>3. 1 \in 1 .. Cardinality(S)
  <2> HIDE DEF S
  <2>1. Cardinality(S) \in Nat /\ Cardinality(S) # 0
    BY <1>1, <1>2, FS_EmptySet, FS_CardinalityType
  <2> QED BY <2>1
<1>4. least \in S /\ Cardinality({m \in S : m < least}) = 0
  <2> HIDE DEF S
  <2> QED BY <1>2, <1>3, InOrderIs
<1>5. {m \in S : m < least} = {}
  <2>1. {m \in S : m < least} \subseteq S
    OBVIOUS
  <2> HIDE DEF S, least
  <2> QED BY <1>2, <1>4, <2>1, FS_Subset, FS_EmptySet
<1> HIDE DEF least
<1>6. \A k \in S : least <= k
  BY <1>2, <1>4, <1>5
<1>7. PICK m \in todo : m.id = least
  BY <1>4
<1>8. \A k \in todo : m.id <= k.id
  BY <1>6, <1>7
<1> QED BY <1>8 DEF First

LEMMA DueIsFirst == \A e : Compose!Due(e) = First(page[e].todo)
BY DEF Compose!Due, First

(* What a tab loads are rows of different items.                                *)
LEMMA RowsAre ==
  ASSUME ComposeTypes
  PROVE  /\ Compose!Rows \in Seq(RowState) /\ Distinct(Compose!Rows)
         /\ \A i \in DOMAIN Compose!Rows : ~Compose!Rows[i].dirty /\ Compose!Rows[i].caption = items[Compose!Rows[i].id].caption
<1> DEFINE S == {i \in DOMAIN items : items[i].work = 1 /\ items[i].live}
           N == Cardinality(S)
           ids == Compose!InOrder(S)
<1>1. S \in SUBSET (1 .. Len(items)) /\ Len(items) \in Nat /\ DOMAIN items = 1 .. Len(items)
  BY DEF ComposeTypes
<1>0. \A x \in S : x \in DOMAIN items /\ x \in Nat
  BY <1>1
<1> HIDE DEF S
<1>2. /\ N \in Nat /\ ids \in [1 .. N -> S] /\ \A i, j \in 1 .. N : ids[i] = ids[j] => i = j
  BY <1>1, Numbered, InOrderIs
<1> HIDE DEF ids, N
<1>3. Compose!Rows = [k \in 1 .. N |-> Compose!RowOf(ids[k])]
  BY <1>2 DEF Compose!Rows, S, ids
<1>4. ASSUME NEW k \in 1 .. N
      PROVE  Compose!RowOf(ids[k]) \in RowState /\ Compose!RowOf(ids[k]).id = ids[k] /\ ids[k] \in DOMAIN items
             /\ Compose!RowOf(ids[k]).caption = items[ids[k]].caption /\ ~Compose!RowOf(ids[k]).dirty
  <2>0. ids[k] \in S
    BY <1>2
  <2>1. ids[k] \in DOMAIN items /\ ids[k] \in Nat
    BY <1>0, <2>0
  <2>2. items[ids[k]].caption \in Nat
    <3>1. items[ids[k]] \in ItemState
      BY <2>1 DEF ComposeTypes
    <3> QED BY <3>1 DEF ItemState
  <2>3. PICK x, c : x = ids[k] /\ c = items[x].caption
    OBVIOUS
  <2>4. Compose!RowOf(x) = [id |-> x, caption |-> c, dirty |-> FALSE] /\ x \in Nat /\ c \in Nat
    BY <2>1, <2>2, <2>3 DEF Compose!RowOf
  <2> QED BY <2>1, <2>3, <2>4 DEF RowState
<1>5. Compose!Rows \in Seq(RowState) /\ DOMAIN Compose!Rows = 1 .. N
  BY <1>2, <1>3, <1>4
<1>6. \A k \in 1 .. N : Compose!Rows[k] = Compose!RowOf(ids[k])
  BY <1>3
<1>7. Distinct(Compose!Rows)
  BY <1>2, <1>4, <1>5, <1>6 DEF Distinct
<1> QED BY <1>4, <1>5, <1>6, <1>7

(* The items of new files are one for each.                                    *)
LEMMA AddedIs ==
  ASSUME ComposeTypes, NEW w \in Nat, NEW files \in SUBSET (1 .. typed), items' = items \o Compose!Added(w, files)
  PROVE  /\ items' \in Seq(ItemState) /\ DOMAIN items \subseteq DOMAIN items'
         /\ \A i \in DOMAIN items : items'[i] = items[i]
         /\ (\A i \in DOMAIN items : items[i].file =< typed) => \A i \in DOMAIN items' : items'[i].file =< typed
         /\ \A f : f \notin files => Copies(f)' = Copies(f)
         /\ \A f \in files : \E i : Copies(f)' = Copies(f) \cup {i}
<1> DEFINE new == Compose!Added(w, files)  ids == Compose!InOrder(files)  n == Len(items)  N == Cardinality(files)
<1>1. typed \in Nat /\ n \in Nat /\ items \in Seq(ItemState) /\ DOMAIN items = 1 .. n
  BY DEF ComposeTypes
<1>2. /\ N \in Nat /\ ids \in [1 .. N -> files] /\ \A i, j \in 1 .. N : ids[i] = ids[j] => i = j
      /\ \A f \in files : \E i \in 1 .. N : ids[i] = f
  BY <1>1, Numbered, InOrderIs
<1> HIDE DEF ids, N
<1>3. new = [k \in 1 .. N |-> [work |-> w, file |-> ids[k], caption |-> 0, live |-> TRUE]]
  BY <1>2 DEF Compose!Added, ids
<1>4. ASSUME NEW k \in 1 .. N
      PROVE  [work |-> w, file |-> ids[k], caption |-> 0, live |-> TRUE] \in ItemState /\ ids[k] \in files
  <2>0. ids[k] \in files
    BY <1>2
  <2>1. ids[k] \in Nat
    <3>1. \A f \in files : f \in Nat
      BY <1>1
    <3> QED BY <2>0, <3>1
  <2> QED BY <2>0, <2>1 DEF ItemState
<1>5. new \in Seq(ItemState) /\ Len(new) = N /\ \A k \in 1 .. N : new[k].file = ids[k]
  BY <1>2, <1>3, <1>4
<1> HIDE DEF new
<1>6. /\ items' \in Seq(ItemState) /\ DOMAIN items' = 1 .. n + N
      /\ \A i \in 1 .. n : items'[i] = items[i]
      /\ \A k \in 1 .. N : n + k \in 1 .. n + N /\ items'[n + k] = new[k]
  <2>1. items' = items \o new
    BY DEF new
  <2> HIDE DEF n
  <2>2. items \in Seq(ItemState) /\ new \in Seq(ItemState) /\ n \in Nat /\ N \in Nat /\ Len(items) = n /\ Len(new) = N
    BY <1>1, <1>2, <1>5 DEF n
  <2> HIDE DEF ItemState
  <2>3. items \o new \in Seq(ItemState) /\ DOMAIN (items \o new) = 1 .. n + N
    <3>1. items \o new \in Seq(ItemState) /\ Len(items \o new) = Len(items) + Len(new)
      BY <2>2
    <3> QED BY <2>2, <3>1
  <2>4. \A i \in 1 .. n : (items \o new)[i] = items[i]
    BY <2>2
  <2>5. \A k \in 1 .. N : n + k \in 1 .. n + N /\ (items \o new)[n + k] = new[k]
    BY <2>2
  <2> QED BY <2>1, <2>3, <2>4, <2>5
<1>7. ASSUME NEW i \in 1 .. n + N, i \notin 1 .. n PROVE i - n \in 1 .. N /\ items'[i].file = ids[i - n]
  <2>1. i - n \in 1 .. N /\ n + (i - n) = i
    BY <1>1, <1>2, <1>7
  <2> QED BY <1>5, <1>6, <2>1
<1> HIDE DEF n
<1>8. ASSUME \A i \in DOMAIN items : items[i].file =< typed, NEW i \in DOMAIN items' PROVE items'[i].file =< typed
  <2>1. CASE i \in 1 .. n
    BY <1>1, <1>6, <1>8, <2>1
  <2>2. CASE i \notin 1 .. n
    <3>1. items'[i].file = ids[i - n] /\ i - n \in 1 .. N
      BY <1>6, <1>7, <1>8, <2>2
    <3>2. ids[i - n] \in 1 .. typed
      BY <1>2, <3>1
    <3> QED BY <1>1, <3>1, <3>2
  <2> QED BY <2>1, <2>2
<1>9. 1 .. n \subseteq 1 .. n + N
  BY <1>1, <1>2
<1>10. ASSUME NEW f, f \notin files PROVE Copies(f)' = Copies(f)
  <2>1. \A i \in 1 .. n + N : items'[i].file = f => i \in 1 .. n
    <3> SUFFICES ASSUME NEW i \in 1 .. n + N, i \notin 1 .. n PROVE items'[i].file # f
      OBVIOUS
    <3>1. items'[i].file = ids[i - n] /\ i - n \in 1 .. N
      BY <1>7
    <3> QED BY <1>2, <1>10, <3>1
  <2> QED BY <1>1, <1>6, <1>9, <2>1 DEF Copies
<1>11. ASSUME NEW f \in files PROVE \E i : Copies(f)' = Copies(f) \cup {i}
  <2>1. PICK k \in 1 .. N : ids[k] = f
    BY <1>2
  <2>2. n + k \in 1 .. n + N /\ items'[n + k].file = f
    BY <1>5, <1>6, <2>1
  <2>3. ASSUME NEW i \in 1 .. n + N, items'[i].file = f, i \notin 1 .. n PROVE i = n + k
    <3>0. i - n \in 1 .. N /\ ids[i - n] = ids[k]
      BY <1>7, <2>1, <2>3
    <3>1. i - n = k
      BY <1>2, <3>0
    <3> QED BY <1>1, <1>2, <3>1
  <2>4. Copies(f)' = Copies(f) \cup {n + k}
    BY <1>1, <1>6, <1>9, <2>2, <2>3 DEF Copies
  <2> QED BY <2>4
<1> QED BY <1>1, <1>6, <1>8, <1>9, <1>10, <1>11

-----------------------------------------------------------------------------
(* What a step of another form leaves.                                         *)

LEMMA TodoRows ==
  ASSUME ComposeTypes, NEW p \in PageState, Flow(p), RowsRight(p)
  PROVE  /\ \A m \in p.todo : m.dirty /\ m.id \in DOMAIN items
                              /\ \E j \in DOMAIN p.sent.existing : m = p.sent.existing[j]
         /\ p.step = "caption" => First(p.todo) \in p.todo
<1>1. \A m \in p.todo : m.dirty /\ \E j \in DOMAIN p.sent.existing : m = p.sent.existing[j]
  BY DEF Flow, Compose!Dirty, Compose!Range
<1>2. \A m \in p.todo : m.id \in DOMAIN items
  BY <1>1 DEF RowsRight, Distinct
<1>3. ASSUME p.step = "caption" PROVE First(p.todo) \in p.todo
  <2>1. p.todo # {} /\ p.todo \in SUBSET RowState
    BY <1>3 DEF Flow, PageState
  <2>2. Len(items) \in Nat /\ \A m \in p.todo : m.id \in 1 .. Len(items)
    BY <1>2 DEF ComposeTypes
  <2> QED BY <2>1, <2>2, FirstIs
<1> QED BY <1>1, <1>2, <1>3

(* Nothing happens to the captions but what o2 knows of.                        *)
Quiet(o, o2) ==
  \A i \in DOMAIN items :
    i \notin o2 => i \notin o /\ (items'[i].live => items[i].live) /\ items'[i].caption = items[i].caption

LEMMA KeptStays ==
  ASSUME NEW m, NEW o, NEW o2, m.id \in DOMAIN items, Quiet(o, o2), Kept(m, o)
  PROVE  Kept(m, o2)'
BY DEF Kept, Quiet

LEMMA CaptionsStay ==
  ASSUME ComposeTypes, NEW p \in PageState, Flow(p), RowsRight(p), NEW o, NEW o2, Quiet(o, o2), CaptionsRight(p, o)
  PROVE  CaptionsRight(p, o2)'
<1>1. ASSUME NEW i \in DOMAIN p.form.existing, ~p.form.existing[i].dirty
      PROVE  Kept(p.form.existing[i], o2)'
  <2>1. PICK m : m = p.form.existing[i]
    OBVIOUS
  <2>2. m.id \in DOMAIN items /\ Kept(m, o)
    BY <1>1, <2>1 DEF RowsRight, Distinct, CaptionsRight
  <2>3. Kept(m, o2)'
    BY <2>2, KeptStays
  <2> QED BY <2>1, <2>3
<1>2. ASSUME NEW i \in DOMAIN p.sent.existing, NEW m, m = p.sent.existing[i],
             ~m.dirty \/ (p.phase \in {"saving", "left"} /\ m \notin p.todo)
      PROVE  Kept(m, o2)'
  <2>1. m.id \in DOMAIN items /\ Kept(m, o)
    BY <1>2 DEF RowsRight, Distinct, CaptionsRight
  <2> QED BY <2>1, KeptStays
<1>3. ASSUME p.step = "caption", p.state = "ok" PROVE Kept(First(p.todo), o2)'
  <2>1. PICK m : m = First(p.todo)
    OBVIOUS
  <2>2. m.id \in DOMAIN items /\ Kept(m, o)
    BY <1>3, <2>1, TodoRows DEF CaptionsRight
  <2>3. Kept(m, o2)'
    BY <2>2, KeptStays
  <2> QED BY <2>1, <2>3
<1> QED BY <1>1, <1>2, <1>3 DEF CaptionsRight

LEMMA RowsStay ==
  ASSUME NEW p, DOMAIN items \subseteq DOMAIN items', RowsRight(p)
  PROVE  RowsRight(p)'
BY DEF RowsRight, Distinct

(* A step of form e, which makes its page p2.                                   *)
LEMMA OneTab ==
  ASSUME ComposeInv, NEW e \in Tab, NEW p2 \in PageState, page' = [page EXCEPT ![e] = p2],
         typed' \in Nat, typed =< typed', lost' \subseteq Tab, others' \in [Tab -> SUBSET Nat],
         works' \in Seq(WorkState), Len(works') >= 1, works'[1].by = "none",
         items' \in Seq(ItemState), DOMAIN items \subseteq DOMAIN items',
         \A i \in DOMAIN items' : items'[i].file =< typed',
         Files(p2) \subseteq Files(page[e]) \cup (typed + 1 .. typed'),
         \A f \in Tab : f # e =>
           /\ f \in lost' <=> f \in lost
           /\ Quiet(others[f], others'[f])
           /\ 0 \notin others'[f] => 0 \notin others[f] /\ works'[1].text = works[1].text
           /\ \A x \in Files(page[f]) : Copies(x)' = Copies(x)
           /\ Mine(f)' = Mine(f) /\ \A w \in Mine(f) : works'[w].text = works[w].text,
         TabRight(e, p2, others[e], e \notin lost)'
  PROVE  ComposeInv'
<1>1. ComposeTypes /\ page \in [Tab -> PageState] /\ typed \in Nat
  BY DEF ComposeInv, ComposeTypes
<1>2. ComposeTypes'
  BY <1>1 DEF ComposeTypes
<1>3. page'[e] = p2 /\ \A f \in Tab : f # e => page'[f] = page[f]
  BY <1>1
<1>4. \A f \in Tab : Files(page[f]) \subseteq 1 .. typed
  BY DEF ComposeInv, TabRight, FilesRight
<1>5. ASSUME NEW f \in Tab, f # e PROVE TabRight(f, page[f], others[f], f \notin lost)'
  <2>1. PICK p, o, o2 : p = page[f] /\ o = others[f] /\ o2 = others'[f]
    OBVIOUS
  <2>2. p \in PageState /\ page'[f] = p /\ Quiet(o, o2)
    BY <1>1, <1>3, <1>5, <2>1
  <2>3. TabRight(f, p, o, f \notin lost)
    BY <2>1 DEF ComposeInv
  <2>4. Flow(p) /\ RowsRight(p)' /\ CaptionsRight(p, o2)'
    BY <1>1, <2>2, <2>3, RowsStay, CaptionsStay DEF TabRight
  <2>5. TextRight(p, o2)'
    BY <1>5, <2>1, <2>3 DEF TabRight, TextRight
  <2>6. FilesRight(p, f \notin lost)'
    <3>1. \A x \in Files(p) : Copies(x)' = Copies(x) /\ x \in 1 .. typed'
      BY <1>1, <1>4, <1>5, <2>1
    <3>2. f \in lost' <=> f \in lost
      BY <1>5
    <3> QED BY <2>3, <3>1, <3>2 DEF TabRight, FilesRight
  <2>7. WorkRight(f, p, f \notin lost)'
    <3>1. /\ f \in lost' <=> f \in lost
          /\ Mine(f)' = Mine(f) /\ \A w \in Mine(f) : works'[w].text = works[w].text
      BY <1>5
    <3> QED BY <2>3, <3>1 DEF TabRight, WorkRight
  <2>8. Flow(p)'
    BY <2>4
  <2>9. TabRight(f, p, o2, f \notin lost)'
    BY <2>4, <2>5, <2>6, <2>7, <2>8 DEF TabRight
  <2> QED BY <2>1, <2>2, <2>9
<1>6. \A f \in Tab : TabRight(f, page[f], others[f], f \notin lost)'
  BY <1>3, <1>5
<1>7. ASSUME NEW f \in Tab, NEW g \in Tab, f # g PROVE Files(page'[f]) \cap Files(page'[g]) = {}
  <2>1. Files(page[f]) \cap Files(page[g]) = {}
    BY <1>7 DEF ComposeInv
  <2>2. \A h \in Tab : Files(page[h]) \cap (typed + 1 .. typed') = {}
    BY <1>1, <1>4
  <2>3. CASE f = e
    BY <1>3, <1>7, <2>1, <2>2, <2>3
  <2>4. CASE g = e
    BY <1>3, <1>7, <2>1, <2>2, <2>4
  <2>5. CASE f # e /\ g # e
    BY <1>3, <2>1, <2>5
  <2> QED BY <2>3, <2>4, <2>5
<1>8. \A f, g \in Tab : f # g => (Files(page[f]) \cap Files(page[g]) = {})'
  BY <1>7 DEF Files
<1> QED BY <1>2, <1>6, <1>8 DEF ComposeInv

(* One that changes no table.                                                 *)
LEMMA OnPage ==
  ASSUME ComposeInv, NEW e \in Tab, NEW p2 \in PageState, page' = [page EXCEPT ![e] = p2],
         UNCHANGED <<works, items>>, typed' \in Nat, typed =< typed', lost' \subseteq Tab,
         others' \in [Tab -> SUBSET Nat],
         \A f \in Tab : f # e => (f \in lost' <=> f \in lost) /\ others'[f] = others[f],
         Files(p2) \subseteq Files(page[e]) \cup (typed + 1 .. typed'),
         TabRight(e, p2, others[e], e \notin lost)'
  PROVE  ComposeInv'
<1>1. ComposeTypes /\ typed \in Nat /\ \A i \in DOMAIN items : items[i].file \in Nat /\ items[i].file =< typed
  <2>1. ComposeTypes /\ \A i \in DOMAIN items : items[i].file =< typed
    BY DEF ComposeInv
  <2>2. \A i \in DOMAIN items : items[i] \in ItemState
    BY <2>1 DEF ComposeTypes
  <2> QED BY <2>1, <2>2 DEF ComposeTypes, ItemState
<1>2. \A i \in DOMAIN items' : items'[i].file =< typed'
  BY <1>1
<1>3. \A f \in Tab : f # e => Quiet(others[f], others'[f])
  BY DEF Quiet
<1>4. /\ \A x : Copies(x)' = Copies(x)
      /\ \A f : Mine(f)' = Mine(f) /\ \A w \in Mine(f) : works'[w].text = works[w].text
  BY DEF Copies, Mine
<1>5. /\ works' \in Seq(WorkState) /\ Len(works') >= 1 /\ works'[1].by = "none"
      /\ items' \in Seq(ItemState) /\ DOMAIN items \subseteq DOMAIN items'
  BY <1>1 DEF ComposeTypes
<1> QED BY <1>2, <1>3, <1>4, <1>5, OneTab

LEMMA SameData ==
  ASSUME UNCHANGED <<works, items>>
  PROVE  /\ \A p : RowsRight(p) <=> RowsRight(p)'
         /\ \A p, o : (CaptionsRight(p, o) <=> CaptionsRight(p, o)') /\ (TextRight(p, o) <=> TextRight(p, o)')
         /\ \A e, p, clean : WorkRight(e, p, clean) <=> WorkRight(e, p, clean)'
         /\ \A x : Copies(x)' = Copies(x)
BY DEF RowsRight, Distinct, CaptionsRight, Kept, TextRight, WorkRight, Mine, Copies

(* A sequence without its n-th element.                                       *)
LEMMA RemoveAtIs ==
  ASSUME NEW T, NEW s \in Seq(T), NEW n \in DOMAIN s
  PROVE  /\ Compose!RemoveAt(s, n) \in Seq(T) /\ DOMAIN Compose!RemoveAt(s, n) = 1 .. Len(s) - 1
         /\ \A i \in 1 .. Len(s) - 1 : Compose!RemoveAt(s, n)[i] = IF i < n THEN s[i] ELSE s[i + 1]
<1> DEFINE a == SubSeq(s, 1, n - 1)  b == SubSeq(s, n + 1, Len(s))  N == Len(s)
<1>1. N \in Nat /\ n \in 1 .. N
  OBVIOUS
<1>2. a \in Seq(T) /\ Len(a) = n - 1 /\ \A i \in 1 .. n - 1 : a[i] = s[i]
  OBVIOUS
<1>3. b \in Seq(T) /\ Len(b) = N - n /\ \A i \in 1 .. N - n : b[i] = s[n + i]
  <2> HIDE DEF N
  <2>1. Len(s) = N /\ n + 1 \in Int /\ N \in Int
    BY <1>1 DEF N
  <2>2. \A i \in 1 .. N - n : b[i] = s[n + 1 + i - 1]
    BY <1>1, <2>1
  <2>3. \A i \in 1 .. N - n : n + 1 + i - 1 = n + i
    BY <1>1
  <2>4. b \in Seq(T) /\ Len(b) = N - n
    BY <1>1, <2>1
  <2> QED BY <2>2, <2>3, <2>4
<1> HIDE DEF a, b, N
<1>4. a \o b \in Seq(T) /\ Len(a \o b) = N - 1
  <2>0. a \in Seq(T) /\ b \in Seq(T)
    BY <1>2, <1>3
  <2>1. a \o b \in Seq(T) /\ Len(a \o b) = Len(a) + Len(b)
    BY <2>0
  <2>2. (n - 1) + (N - n) = N - 1
    BY <1>1
  <2> QED BY <1>2, <1>3, <2>1, <2>2
<1>5. \A i \in 1 .. N - 1 : (a \o b)[i] = IF i < n THEN a[i] ELSE b[i - (n - 1)]
  <2>1. \A i \in 1 .. Len(a) + Len(b) : (a \o b)[i] = IF i <= Len(a) THEN a[i] ELSE b[i - Len(a)]
    BY <1>2, <1>3
  <2>2. Len(a) = n - 1 /\ Len(a) + Len(b) = N - 1 /\ \A i \in 1 .. N - 1 : i <= n - 1 <=> i < n
    BY <1>1, <1>2, <1>3
  <2> QED BY <2>1, <2>2
<1>6. \A i \in 1 .. N - 1 : (a \o b)[i] = IF i < n THEN s[i] ELSE s[i + 1]
  <2> SUFFICES ASSUME NEW i \in 1 .. N - 1 PROVE (a \o b)[i] = IF i < n THEN s[i] ELSE s[i + 1]
    OBVIOUS
  <2>1. CASE i < n
    BY <1>1, <1>2, <1>5, <2>1
  <2>2. CASE ~(i < n)
    <3>1. i - (n - 1) \in 1 .. N - n /\ n + (i - (n - 1)) = i + 1
      BY <1>1, <2>2
    <3> QED BY <1>3, <1>5, <2>2, <3>1
  <2> QED BY <2>1, <2>2
<1>7. DOMAIN (a \o b) = 1 .. N - 1
  BY <1>4
<1>8. Compose!RemoveAt(s, n) = a \o b
  BY DEF Compose!RemoveAt, a, b
<1> QED BY <1>4, <1>6, <1>7, <1>8 DEF N

-----------------------------------------------------------------------------
(* The fields and the removals: what the last submission was stays as it was.     *)

SameSubmission(p, p2) ==
  /\ p2.edit = p.edit /\ p2.phase = p.phase /\ p2.sent = p.sent /\ p2.step = p.step /\ p2.todo = p.todo
  /\ p2.state = p.state /\ (p.phase = "loading" => p2.form = p.form)

SameRows(s, s2) ==
  Distinct(s2) /\ \A i \in DOMAIN s2 : \E j \in DOMAIN s : s2[i].id = s[j].id /\ (s2[i] = s[j] \/ s2[i].dirty)

LEMMA FormStep ==
  ASSUME ComposeInv, NEW e \in Tab, NEW p2 \in PageState, page' = [page EXCEPT ![e] = p2],
         UNCHANGED <<works, items, others, lost>>, typed' \in Nat, typed =< typed', SameSubmission(page[e], p2),
         p2.form.files \subseteq page[e].form.files \cup (typed + 1 .. typed'),
         ~p2.edit => p2.form.existing = <<>>, SameRows(page[e].form.existing, p2.form.existing)
  PROVE  ComposeInv'
<1>1. ComposeTypes /\ page[e] \in PageState /\ typed \in Nat /\ others \in [Tab -> SUBSET Nat] /\ lost \subseteq Tab
  BY DEF ComposeInv, ComposeTypes
<1>2. PICK p, o, form : p = page[e] /\ o = others[e] /\ p \in PageState /\ form = p2.form
  BY <1>1
<1>4. /\ p2.form = form /\ p2.edit = p.edit /\ p2.phase = p.phase /\ p2.sent = p.sent
      /\ p2.step = p.step /\ p2.todo = p.todo /\ p2.state = p.state /\ (p.phase = "loading" => form = p.form)
      /\ Distinct(form.existing) /\ (~p.edit => form.existing = <<>>)
      /\ \A i \in DOMAIN form.existing : \E j \in DOMAIN p.form.existing :
           /\ form.existing[i].id = p.form.existing[j].id
           /\ form.existing[i] = p.form.existing[j] \/ form.existing[i].dirty
  BY <1>2 DEF SameSubmission, SameRows
<1>5. others'[e] = o
  BY <1>2
<1>6. TabRight(e, p, o, e \notin lost)
  BY <1>2 DEF ComposeInv
<1>7. Flow(p2)
  BY <1>2, <1>4, <1>6 DEF TabRight, Flow
<1>8. RowsRight(p2)
  <2>1. \A i \in DOMAIN form.existing, j \in DOMAIN p.form.existing :
           form.existing[i].id = p.form.existing[j].id /\ p.form.existing[j].dirty => form.existing[i].dirty
    BY <1>4, <1>6 DEF TabRight, RowsRight, Distinct
  <2> QED BY <1>2, <1>4, <1>6, <2>1 DEF TabRight, RowsRight
<1>9. CaptionsRight(p2, o)
  <2>1. \A i \in DOMAIN form.existing : ~form.existing[i].dirty => Kept(form.existing[i], o)
    BY <1>4, <1>6 DEF TabRight, CaptionsRight
  <2> QED BY <1>4, <1>6, <2>1 DEF TabRight, CaptionsRight
<1>10. TextRight(p2, o) /\ WorkRight(e, p2, e \notin lost)
  BY <1>4, <1>6 DEF TabRight, TextRight, WorkRight, Renamed, Finished
<1>11. FilesRight(p2, e \notin lost)'
  <2>0. Finished(p2) <=> Finished(p)
    BY <1>4 DEF Finished
  <2>1. \A f : Copies(f)' = Copies(f)
    BY SameData
  <2>2. \A f \in Files(p) : f \in 1 .. typed
    BY <1>6 DEF TabRight, FilesRight
  <2>3. ASSUME NEW f \in Files(p)
        PROVE  /\ f \in 1 .. typed'
               /\ Finished(p2) /\ f \in p2.sent.files => Copies(f)' # {}
               /\ e \notin lost' => IF Finished(p2) /\ f \in p2.sent.files THEN \E i : Copies(f)' = {i} ELSE Copies(f)' = {}
    <3>1. f \in 1 .. typed'
      BY <1>1, <2>2
    <3> QED BY <1>4, <1>6, <2>0, <2>1, <3>1 DEF TabRight, FilesRight
  <2>4. ASSUME NEW f \in typed + 1 .. typed' PROVE f \in 1 .. typed' /\ f \notin Files(p) /\ Copies(f)' = {}
    <3>1. f \in 1 .. typed' /\ f \notin 1 .. typed /\ ~(f =< typed)
      BY <1>1
    <3>2. \A i \in DOMAIN items : items[i].file =< typed
      BY DEF ComposeInv
    <3> QED BY <2>1, <2>2, <3>1, <3>2 DEF Copies
  <2>5. Files(p2) \subseteq Files(p) \cup (typed + 1 .. typed')
    BY <1>2, <1>4 DEF Files
  <2>6. \A f \in typed + 1 .. typed' : f \notin p2.sent.files
    BY <1>4, <2>4 DEF Files
  <2>7. \A f \in Files(p2) :
           /\ f \in 1 .. typed'
           /\ Finished(p2) /\ f \in p2.sent.files => Copies(f)' # {}
           /\ e \notin lost' => IF Finished(p2) /\ f \in p2.sent.files THEN \E i : Copies(f)' = {i} ELSE Copies(f)' = {}
    BY <2>3, <2>4, <2>5, <2>6
  <2> QED BY <2>7 DEF FilesRight
<1>12. TabRight(e, p2, o, e \notin lost)'
  <2>1. RowsRight(p2)' /\ CaptionsRight(p2, o)' /\ TextRight(p2, o)'
    BY <1>8, <1>9, <1>10, SameData
  <2>2. WorkRight(e, p2, e \notin lost)'
    BY <1>10 DEF WorkRight, Mine
  <2> QED BY <1>7, <1>11, <2>1, <2>2 DEF TabRight, Flow, Compose!Dirty, Compose!Range
<1>13. Files(p2) \subseteq Files(page[e]) \cup (typed + 1 .. typed')
  BY <1>2, <1>4 DEF Files
<1>14. TabRight(e, p2, others[e], e \notin lost)'
  BY <1>5, <1>12
<1> QED BY <1>1, <1>4, <1>5, <1>13, <1>14, OnPage

(* The rows of a form stay as many, or one goes.                                *)
LEMMA FieldSteps ==
  ASSUME ComposeInv, NEW e \in Tab,
         \/ Compose!SetText(e) \/ Compose!AddFile(e) \/ (\E k \in DOMAIN page[e].form.existing : Compose!SetCaption(e, k) \/ Compose!RemoveItem(e, k))
         \/ (\E f \in page[e].form.files : Compose!RemovePending(e, f))
         \/ (\E q \in page[e].removals : Compose!Removed(e, q) \/ Compose!RemoveFails(e, q))
  PROVE  ComposeInv'
<1>1. ComposeTypes /\ page[e] \in PageState /\ typed \in Nat /\ page \in [Tab -> PageState]
  BY DEF ComposeInv, ComposeTypes
<1>2. PICK p : p = page[e] /\ p \in PageState
  BY <1>1
<1>3. PICK form, s : form = p.form /\ s = form.existing
  OBVIOUS
<1>4. /\ form \in FormState /\ s \in Seq(RowState) /\ form.files \in SUBSET Nat /\ form.text \in Nat
      /\ p.removals \in SUBSET Removal
  BY <1>2, <1>3 DEF PageState, FormState
<1>5. Flow(p) /\ Distinct(s) /\ (~p.edit => s = <<>>) /\ SameRows(s, s)
  BY <1>2, <1>3 DEF ComposeInv, TabRight, RowsRight, Flow, SameRows
<1>6. ASSUME Compose!SetText(e) PROVE ComposeInv'
  <2>1. PICK form2, p2 : form2 = [form EXCEPT !.text = typed + 1] /\ p2 = [p EXCEPT !.form = form2]
    OBVIOUS
  <2>2. form2 \in FormState /\ form2.files = form.files /\ form2.existing = s
    BY <1>1, <1>3, <1>4, <2>1 DEF FormState
  <2>3. /\ p.phase \in {"ready", "saving"} /\ typed' = typed + 1 /\ UNCHANGED <<works, items, others, lost>>
        /\ page' = [page EXCEPT ![e] = p2]
    BY <1>1, <1>2, <1>3, <1>6, <2>1 DEF Compose!SetText, Compose!Type, Compose!Open
  <2>4. p2 \in PageState /\ SameSubmission(p, p2) /\ p2.form = form2
    BY <1>2, <2>1, <2>2, <2>3 DEF PageState, SameSubmission
  <2>5. typed' \in Nat /\ typed =< typed' /\ p2.form.files \subseteq p.form.files \cup (typed + 1 .. typed')
    BY <1>1, <1>3, <2>2, <2>3, <2>4
  <2> QED BY <1>2, <1>3, <1>5, <2>2, <2>3, <2>4, <2>5, FormStep DEF SameSubmission
<1>7. ASSUME Compose!AddFile(e) PROVE ComposeInv'
  <2>1. PICK form2, p2 : form2 = [form EXCEPT !.files = @ \cup {typed + 1}] /\ p2 = [p EXCEPT !.form = form2]
    OBVIOUS
  <2>2. form2 \in FormState /\ form2.files = form.files \cup {typed + 1} /\ form2.existing = s
    BY <1>1, <1>3, <1>4, <2>1 DEF FormState
  <2>3. /\ p.phase \in {"ready", "saving"} /\ typed' = typed + 1 /\ UNCHANGED <<works, items, others, lost>>
        /\ page' = [page EXCEPT ![e] = p2]
    BY <1>1, <1>2, <1>3, <1>7, <2>1 DEF Compose!AddFile, Compose!Type, Compose!Open
  <2>4. p2 \in PageState /\ SameSubmission(p, p2) /\ p2.form = form2
    BY <1>2, <2>1, <2>2, <2>3 DEF PageState, SameSubmission
  <2>5. typed' \in Nat /\ typed =< typed' /\ p2.form.files \subseteq p.form.files \cup (typed + 1 .. typed')
    BY <1>1, <1>3, <2>2, <2>3, <2>4
  <2> QED BY <1>2, <1>3, <1>5, <2>2, <2>3, <2>4, <2>5, FormStep DEF SameSubmission
<1>8. ASSUME NEW f \in page[e].form.files, Compose!RemovePending(e, f) PROVE ComposeInv'
  <2>1. PICK form2, p2 : form2 = [form EXCEPT !.files = @ \ {f}] /\ p2 = [p EXCEPT !.form = form2]
    OBVIOUS
  <2>2. form2 \in FormState /\ form2.files \subseteq form.files /\ form2.existing = s
    BY <1>1, <1>3, <1>4, <2>1 DEF FormState
  <2>3. /\ p.phase \in {"ready", "saving"} /\ typed' = typed /\ UNCHANGED <<works, items, others, lost>>
        /\ page' = [page EXCEPT ![e] = p2]
    BY <1>1, <1>2, <1>3, <1>8, <2>1 DEF Compose!RemovePending, Compose!Open
  <2>4. p2 \in PageState /\ SameSubmission(p, p2) /\ p2.form = form2
    BY <1>2, <2>1, <2>2, <2>3 DEF PageState, SameSubmission
  <2>5. typed' \in Nat /\ typed =< typed' /\ p2.form.files \subseteq p.form.files \cup (typed + 1 .. typed')
    BY <1>1, <1>3, <2>2, <2>3, <2>4
  <2> QED BY <1>2, <1>3, <1>5, <2>2, <2>3, <2>4, <2>5, FormStep DEF SameSubmission
<1>9. ASSUME NEW k \in DOMAIN page[e].form.existing, Compose!SetCaption(e, k) PROVE ComposeInv'
  <2>0. k \in DOMAIN s /\ s[k] \in RowState /\ k \in 1 .. Len(s)
    BY <1>2, <1>3, <1>4
  <2>1. PICK m, m2 : m = s[k] /\ m2 = [m EXCEPT !.caption = typed + 1, !.dirty = TRUE]
    OBVIOUS
  <2>2. m2 \in RowState /\ m2.id = s[k].id /\ m2.dirty = TRUE
    <3>1. m2 = [id |-> m.id, caption |-> typed + 1, dirty |-> TRUE] /\ m.id \in Nat
      BY <2>0, <2>1 DEF RowState
    <3>2. PICK d, c : d = m.id /\ c = typed + 1 /\ d \in Nat /\ c \in Nat
      BY <1>1, <3>1
    <3>3. m2 = [id |-> d, caption |-> c, dirty |-> TRUE]
      BY <3>1, <3>2
    <3> QED BY <2>1, <3>2, <3>3 DEF RowState
  <2>3. PICK s2 : s2 = [s EXCEPT ![k] = m2]
    OBVIOUS
  <2>4. s2 \in Seq(RowState) /\ DOMAIN s2 = DOMAIN s /\ s2[k] = m2 /\ \A i \in DOMAIN s : i # k => s2[i] = s[i]
    <3> HIDE DEF RowState
    <3> QED BY <1>4, <2>0, <2>2, <2>3
  <2>5. PICK form2, p2 : form2 = [form EXCEPT !.existing = s2] /\ p2 = [p EXCEPT !.form = form2]
    OBVIOUS
  <2>6. form2 \in FormState /\ form2.files = form.files /\ form2.existing = s2
    BY <1>1, <1>3, <1>4, <2>4, <2>5 DEF FormState
  <2>7. /\ p.phase \in {"ready", "saving"} /\ typed' = typed + 1 /\ UNCHANGED <<works, items, others, lost>>
        /\ page' = [page EXCEPT ![e] = p2]
    BY <1>1, <1>2, <1>3, <1>9, <2>1, <2>3, <2>5 DEF Compose!SetCaption, Compose!NewCaption, Compose!Type, Compose!Open
  <2>8. p2 \in PageState /\ SameSubmission(p, p2) /\ p2.form = form2
    BY <1>2, <2>5, <2>6, <2>7 DEF PageState, SameSubmission
  <2>9. typed' \in Nat /\ typed =< typed' /\ p2.form.files \subseteq p.form.files \cup (typed + 1 .. typed')
    BY <1>1, <1>3, <2>6, <2>7, <2>8
  <2>10. SameRows(s, s2)
    BY <1>5, <2>0, <2>2, <2>4 DEF Distinct, SameRows
  <2>11. p.edit
    <3>1. k \in {} => FALSE
      OBVIOUS
    <3> QED BY <1>5, <2>0, <3>1
  <2> QED BY <1>2, <1>3, <2>6, <2>7, <2>8, <2>9, <2>10, <2>11, FormStep DEF SameSubmission
<1>10. ASSUME NEW k \in DOMAIN page[e].form.existing, Compose!RemoveItem(e, k) PROVE ComposeInv'
  <2>1. s[k].id \in Nat /\ k \in Nat
    <3>1. s[k] \in RowState /\ k \in 1 .. Len(s) /\ Len(s) \in Nat
      BY <1>2, <1>3, <1>4
    <3> QED BY <3>1 DEF RowState
  <2>2. PICK rs, p2 : rs = p.removals \cup {[at |-> k, id |-> s[k].id, state |-> "asked"]} /\ p2 = [p EXCEPT !.removals = rs]
    OBVIOUS
  <2>3. rs \in SUBSET Removal
    BY <1>4, <2>1, <2>2 DEF Removal
  <2>4. /\ p.phase \in {"ready", "saving"} /\ typed' = typed + 1 /\ UNCHANGED <<works, items, others, lost>>
        /\ page' = [page EXCEPT ![e] = p2]
    BY <1>1, <1>2, <1>3, <1>10, <2>2 DEF Compose!RemoveItem, Compose!Open
  <2>5. p2 \in PageState /\ SameSubmission(p, p2) /\ p2.form = form
    BY <1>2, <1>3, <2>2, <2>3 DEF PageState, SameSubmission
  <2>6. typed' \in Nat /\ typed =< typed' /\ p2.form.files \subseteq p.form.files \cup (typed + 1 .. typed')
    BY <1>1, <1>3, <2>4, <2>5
  <2> QED BY <1>2, <1>3, <1>5, <2>4, <2>5, <2>6, FormStep DEF SameSubmission
<1>11. ASSUME NEW q \in page[e].removals, Compose!RemoveFails(e, q) PROVE ComposeInv'
  <2>1. PICK rs, p2 : rs = p.removals \ {q} /\ p2 = [p EXCEPT !.removals = rs]
    OBVIOUS
  <2>2. rs \in SUBSET Removal
    BY <1>4, <2>1
  <2>3. typed' = typed /\ UNCHANGED <<works, items, others, lost>> /\ page' = [page EXCEPT ![e] = p2]
    BY <1>1, <1>2, <1>3, <1>11, <2>1 DEF Compose!RemoveFails
  <2>4. p2 \in PageState /\ SameSubmission(p, p2) /\ p2.form = form
    BY <1>2, <1>3, <2>1, <2>2 DEF PageState, SameSubmission
  <2>5. typed' \in Nat /\ typed =< typed' /\ p2.form.files \subseteq p.form.files \cup (typed + 1 .. typed')
    BY <1>1, <1>3, <2>3, <2>4
  <2> QED BY <1>2, <1>3, <1>5, <2>3, <2>4, <2>5, FormStep DEF SameSubmission
<1>12. ASSUME NEW q \in page[e].removals, Compose!Removed(e, q) PROVE ComposeInv'
  <2>1. PICK rs, s2 : rs = p.removals \ {q} /\ s2 = IF q.at \in DOMAIN s THEN Compose!RemoveAt(s, q.at) ELSE s
    OBVIOUS
  <2>2. s2 \in Seq(RowState) /\ SameRows(s, s2)
    <3>1. CASE q.at \in DOMAIN s
      <4>1. PICK n, N : n = q.at /\ N = Len(s)
        OBVIOUS
      <4>2. /\ s2 \in Seq(RowState) /\ DOMAIN s2 = 1 .. N - 1
            /\ \A i \in 1 .. N - 1 : s2[i] = IF i < n THEN s[i] ELSE s[i + 1]
        <5> HIDE DEF RowState
        <5> QED BY <1>4, <2>1, <3>1, <4>1, RemoveAtIs
      <4>3. N \in Nat /\ n \in 1 .. N /\ DOMAIN s = 1 .. N
        BY <1>4, <3>1, <4>1
      <4>4. \A i \in 1 .. N - 1 : i \in 1 .. N /\ i + 1 \in 1 .. N
        BY <4>3
      <4>5. \A i \in DOMAIN s2 : \E j \in DOMAIN s : s2[i] = s[j] /\ (i < n => j = i) /\ (~(i < n) => j = i + 1)
        BY <4>2, <4>3, <4>4
      <4>6. Distinct(s2)
        <5> SUFFICES ASSUME NEW i \in DOMAIN s2, NEW j \in DOMAIN s2
                     PROVE  s2[i].id \in DOMAIN items /\ (s2[i].id = s2[j].id => i = j)
          BY DEF Distinct
        <5>1. PICK a \in DOMAIN s : s2[i] = s[a] /\ (i < n => a = i) /\ (~(i < n) => a = i + 1)
          BY <4>5
        <5>2. PICK b \in DOMAIN s : s2[j] = s[b] /\ (j < n => b = j) /\ (~(j < n) => b = j + 1)
          BY <4>5
        <5>3. s2[i].id \in DOMAIN items /\ (s2[i].id = s2[j].id => a = b)
          BY <1>5, <5>1, <5>2 DEF Distinct
        <5>4. i \in Nat /\ j \in Nat /\ n \in Nat
          BY <4>2, <4>3
        <5>5. a = b => i = j
          BY <5>1, <5>2, <5>4
        <5> QED BY <5>3, <5>5
      <4> QED BY <4>2, <4>5, <4>6 DEF SameRows
    <3>2. CASE q.at \notin DOMAIN s
      BY <1>4, <1>5, <2>1, <3>2
    <3> QED BY <3>1, <3>2
  <2>3. PICK form2, p2 : form2 = [form EXCEPT !.existing = s2] /\ p2 = [p EXCEPT !.form = form2, !.removals = rs]
    OBVIOUS
  <2>4. form2 \in FormState /\ form2.files = form.files /\ form2.existing = s2
    BY <1>3, <1>4, <2>2, <2>3 DEF FormState
  <2>5. typed' = typed /\ UNCHANGED <<works, items, others, lost>> /\ page' = [page EXCEPT ![e] = p2]
    <3>1. page' = [page EXCEPT ![e] = [[p EXCEPT !.removals = rs] EXCEPT !.form = form2]]
      BY <1>1, <1>2, <1>3, <1>4, <1>12, <2>1, <2>3 DEF Compose!Removed, PageState, FormState
    <3>2. p2 = [[p EXCEPT !.removals = rs] EXCEPT !.form = form2]
      BY <1>2, <2>3 DEF PageState
    <3> QED BY <1>12, <3>1, <3>2 DEF Compose!Removed
  <2>6. p.phase = "loading" => form2 = form
    <3>1. p.phase = "loading" => s = <<>> /\ form = Compose!Nothing
      BY <1>3, <1>5 DEF Flow, Compose!Nothing
    <3>2. s = <<>> => s2 = s
      BY <2>1
    <3> QED BY <2>3, <3>1, <3>2 DEF Compose!Nothing
  <2>7. p2 \in PageState /\ p2.form = form2 /\ SameSubmission(p, p2)
    <3>1. p2 \in PageState /\ p2.form = form2
      BY <1>2, <1>4, <2>1, <2>3, <2>4 DEF PageState
    <3> QED BY <1>2, <1>3, <2>3, <2>6, <3>1 DEF PageState, SameSubmission
  <2>8. typed' \in Nat /\ typed =< typed' /\ p2.form.files \subseteq p.form.files \cup (typed + 1 .. typed')
    BY <1>1, <1>3, <2>4, <2>5, <2>7
  <2>9. ~p.edit => s2 = <<>>
    BY <1>5, <2>1
  <2> QED BY <1>2, <1>3, <2>2, <2>4, <2>5, <2>7, <2>8, <2>9, FormStep DEF SameSubmission
<1> QED BY <1>6, <1>7, <1>8, <1>9, <1>10, <1>11, <1>12

-----------------------------------------------------------------------------
(* The requests as the page sees them.                                        *)

(* Flow by phase.                                                            *)
LEMMA FlowIs ==
  ASSUME NEW p \in PageState, Flow(p)
  PROVE  /\ p.phase = "saving" <=> p.step # "none"
         /\ p.step = "none" <=> p.state = "none"
         /\ p.step = "none" => p.todo = {}
         /\ p.step = "create" => ~p.edit /\ p.todo = {}
         /\ p.step = "files" => p.todo = {}
         /\ ~p.edit => p.step \in {"none", "create"} /\ p.todo = {}
         /\ p.phase # "left" /\ ~(p.step \in {"create", "files"} /\ p.state = "ok") => ~Finished(p)
<1>1. ~p.edit => p.todo = {}
  <2> SUFFICES ASSUME ~p.edit PROVE p.todo = {}
    OBVIOUS
  <2>1. p.sent.existing = <<>> /\ p.todo \subseteq Compose!Dirty(p.sent)
    BY DEF Flow
  <2>2. Compose!Range(<<>>) = {}
    BY DEF Compose!Range
  <2> QED BY <2>1, <2>2 DEF Compose!Dirty
<1> QED BY <1>1 DEF Flow, PageState, Finished

LEMMA LoadStep ==
  ASSUME ComposeInv, NEW e \in Tab, Compose!Load(e)
  PROVE  ComposeInv'
<1>1. /\ ComposeTypes /\ page[e] \in PageState /\ page \in [Tab -> PageState] /\ typed \in Nat /\ lost \subseteq Tab
      /\ others \in [Tab -> SUBSET Nat]
  BY DEF ComposeInv, ComposeTypes
<1>2. PICK p : p = page[e] /\ p \in PageState
  BY <1>1
<1>3. /\ Flow(p) /\ p.phase = "loading" /\ p.edit /\ p.sent = Compose!Nothing /\ p.step = "none" /\ p.state = "none" /\ p.todo = {}
  <2>1. Flow(p) /\ p.phase = "loading"
    BY <1>2 DEF ComposeInv, TabRight, Compose!Load
  <2> QED BY <1>2, <2>1, FlowIs DEF Flow
<1>4. PICK form, p2 : /\ form = [text |-> works[1].text, files |-> {}, existing |-> Compose!Rows]
                      /\ p2 = [p EXCEPT !.phase = "ready", !.form = form]
  OBVIOUS
<1>5. form \in FormState /\ form.files = {} /\ form.existing = Compose!Rows
  <2>1. works[1].text \in Nat
    <3>1. works[1] \in WorkState
      BY <1>1 DEF ComposeTypes
    <3> QED BY <3>1 DEF WorkState
  <2>2. Compose!Rows \in Seq(RowState)
    BY <1>1, RowsAre
  <2> QED BY <1>4, <2>1, <2>2 DEF FormState
<1>6. /\ p2 \in PageState /\ p2.phase = "ready" /\ p2.form = form /\ p2.edit /\ p2.sent = Compose!Nothing
      /\ p2.step = "none" /\ p2.state = "none" /\ p2.todo = {}
  BY <1>2, <1>3, <1>4, <1>5 DEF PageState
<1>7. page' = [page EXCEPT ![e] = p2] /\ others' = [others EXCEPT ![e] = {}] /\ UNCHANGED <<works, items, typed, lost>>
  BY <1>1, <1>2, <1>4 DEF Compose!Load
<1>8. /\ others' \in [Tab -> SUBSET Nat] /\ others'[e] = {}
      /\ \A f \in Tab : f # e => (f \in lost' <=> f \in lost) /\ others'[f] = others[f]
  BY <1>1, <1>7
<1>9. Compose!Nothing.existing = <<>> /\ Compose!Nothing.files = {} /\ DOMAIN Compose!Nothing.existing = {}
  BY DEF Compose!Nothing
<1>10. Flow(p2)
  BY <1>6, <1>9 DEF Flow
<1>11. RowsRight(p2) /\ CaptionsRight(p2, {})
  <2>1. Distinct(Compose!Rows) /\ \A i \in DOMAIN Compose!Rows : ~Compose!Rows[i].dirty /\ Compose!Rows[i].caption = items[Compose!Rows[i].id].caption
    BY <1>1, RowsAre
  <2> QED BY <1>5, <1>6, <1>9, <2>1 DEF RowsRight, Distinct, CaptionsRight, Kept
<1>12. TextRight(p2, {})
  BY <1>6 DEF TextRight, Renamed
<1>13. Files(p2) = {}
  BY <1>5, <1>6, <1>9 DEF Files
<1>14. TabRight(e, p2, others[e], e \notin lost)'
  <2>1. RowsRight(p2)' /\ CaptionsRight(p2, {})' /\ TextRight(p2, {})'
    BY <1>7, <1>11, <1>12, SameData
  <2>2. FilesRight(p2, e \notin lost)' /\ WorkRight(e, p2, e \notin lost)'
    BY <1>6, <1>13 DEF FilesRight, WorkRight
  <2>3. Flow(p2)'
    BY <1>10
  <2> QED BY <1>8, <2>1, <2>2, <2>3 DEF TabRight
<1>15. /\ typed' \in Nat /\ typed =< typed' /\ lost' \subseteq Tab /\ UNCHANGED <<works, items>>
       /\ Files(p2) \subseteq Files(page[e]) \cup (typed + 1 .. typed')
  BY <1>1, <1>7, <1>13
<1> QED BY <1>6, <1>7, <1>8, <1>14, <1>15, OnPage

LEMMA SubmitStep ==
  ASSUME ComposeInv, NEW e \in Tab, Compose!Submit(e)
  PROVE  ComposeInv'
<1>1. /\ ComposeTypes /\ page[e] \in PageState /\ page \in [Tab -> PageState] /\ typed \in Nat /\ lost \subseteq Tab
      /\ others \in [Tab -> SUBSET Nat]
  BY DEF ComposeInv, ComposeTypes
<1>2. PICK p, o : p = page[e] /\ o = others[e] /\ p \in PageState
  BY <1>1
<1>3. Flow(p) /\ p.phase = "ready" /\ p.step = "none" /\ p.state = "none" /\ TabRight(e, p, o, e \notin lost) /\ ~Finished(p)
  <2>1. Flow(p) /\ p.phase = "ready" /\ TabRight(e, p, o, e \notin lost)
    BY <1>2 DEF ComposeInv, TabRight, Compose!Submit
  <2> QED BY <1>2, <2>1, FlowIs DEF Finished
<1>4. PICK step, form : step = (IF p.edit THEN "text" ELSE "create") /\ form = p.form
  OBVIOUS
<1>5. PICK p2 : p2 = [p EXCEPT !.phase = "saving", !.sent = form, !.step = step, !.todo = Compose!Dirty(form), !.state = "asked"]
  OBVIOUS
<1>6. form \in FormState /\ Compose!Dirty(form) \subseteq RowState
  <2>1. form \in FormState /\ form.existing \in Seq(RowState)
    BY <1>2, <1>4 DEF PageState, FormState
  <2> HIDE DEF RowState
  <2>2. \A i \in DOMAIN form.existing : form.existing[i] \in RowState
    BY <2>1
  <2> QED BY <2>1, <2>2 DEF Compose!Dirty, Compose!Range
<1>7. /\ p2 \in PageState /\ p2.phase = "saving" /\ p2.form = form /\ p2.edit = p.edit /\ p2.sent = form
      /\ p2.step = step /\ p2.state = "asked" /\ p2.todo = Compose!Dirty(form)
  BY <1>2, <1>4, <1>5, <1>6 DEF PageState
<1>8. page' = [page EXCEPT ![e] = p2] /\ UNCHANGED <<works, items, typed, lost, others>>
  BY <1>1, <1>2, <1>4, <1>5 DEF Compose!Submit
<1>9. Flow(p2)
  BY <1>2, <1>3, <1>4, <1>7 DEF Flow
<1>10. RowsRight(p2) /\ CaptionsRight(p2, o)
  <2>1. Distinct(form.existing)
    BY <1>3, <1>4 DEF TabRight, RowsRight
  <2>2. RowsRight(p2)
    BY <1>7, <2>1 DEF RowsRight, Distinct
  <2>3. \A i \in DOMAIN form.existing : ~form.existing[i].dirty => Kept(form.existing[i], o)
    BY <1>3, <1>4 DEF TabRight, CaptionsRight
  <2>4. \A i \in DOMAIN form.existing : form.existing[i].dirty => form.existing[i] \in p2.todo
    BY <1>7 DEF Compose!Dirty, Compose!Range
  <2> QED BY <1>7, <2>2, <2>3, <2>4 DEF CaptionsRight
<1>11. ~Finished(p2) /\ ~Renamed(p2)
  BY <1>4, <1>7 DEF Finished, Renamed
<1>12. TextRight(p2, o)
  BY <1>11 DEF TextRight
<1>13. Files(p2) \subseteq Files(p)
  BY <1>4, <1>7 DEF Files
<1>14. FilesRight(p2, e \notin lost) /\ WorkRight(e, p2, e \notin lost)
  BY <1>3, <1>7, <1>11, <1>13 DEF TabRight, FilesRight, WorkRight
<1>15. TabRight(e, p2, others[e], e \notin lost)'
  <2>1. RowsRight(p2)' /\ CaptionsRight(p2, o)' /\ TextRight(p2, o)'
    BY <1>8, <1>10, <1>12, SameData
  <2>2. FilesRight(p2, e \notin lost)' /\ WorkRight(e, p2, e \notin lost)'
    BY <1>8, <1>14 DEF FilesRight, WorkRight, Copies, Mine
  <2>3. Flow(p2)'
    BY <1>9
  <2> QED BY <1>2, <1>8, <2>1, <2>2, <2>3 DEF TabRight
<1>16. /\ typed' \in Nat /\ typed =< typed' /\ lost' \subseteq Tab /\ UNCHANGED <<works, items>>
       /\ Files(p2) \subseteq Files(page[e]) \cup (typed + 1 .. typed') /\ others' \in [Tab -> SUBSET Nat]
       /\ \A f \in Tab : f # e => (f \in lost' <=> f \in lost) /\ others'[f] = others[f]
  BY <1>1, <1>2, <1>8, <1>13
<1> QED BY <1>7, <1>8, <1>15, <1>16, OnPage

LEMMA ArriveStep ==
  ASSUME ComposeInv, NEW e \in Tab, Compose!Arrive(e)
  PROVE  ComposeInv'
<1>1. /\ ComposeTypes /\ page[e] \in PageState /\ page \in [Tab -> PageState] /\ typed \in Nat /\ lost \subseteq Tab
      /\ others \in [Tab -> SUBSET Nat]
  BY DEF ComposeInv, ComposeTypes
<1>2. PICK p, o : p = page[e] /\ o = others[e] /\ p \in PageState
  BY <1>1
<1>3. /\ Flow(p) /\ p.state = "ok" /\ p.step # "none" /\ p.phase = "saving" /\ TabRight(e, p, o, e \notin lost)
      /\ RowsRight(p) /\ CaptionsRight(p, o)
  <2>1. Flow(p) /\ p.state = "ok" /\ TabRight(e, p, o, e \notin lost)
    BY <1>2 DEF ComposeInv, TabRight, Compose!Arrive
  <2> QED BY <1>2, <2>1, FlowIs DEF TabRight
<1>4. PICK left : left = IF p.step = "caption" THEN p.todo \ {First(p.todo)} ELSE p.todo
  OBVIOUS
<1>5. PICK next : next = CASE p.step = "create" -> "none"
                [] p.step \in {"text", "caption"} /\ left # {} -> "caption"
                [] p.step \in {"text", "caption"} /\ left = {} /\ p.sent.files # {} -> "files"
                [] OTHER -> "none"
  OBVIOUS
<1>6. /\ next \in {"none", "caption", "files"}
      /\ next = "caption" => p.step \in {"text", "caption"} /\ left # {}
      /\ next = "files" => p.step \in {"text", "caption"} /\ left = {}
      /\ next = "none" => p.step \in {"create", "files"} \/ (p.step \in {"text", "caption"} /\ left = {} /\ p.sent.files = {})
  <2>1. CASE p.step = "create"
    BY <1>5, <2>1
  <2>2. CASE p.step \in {"text", "caption"}
    BY <1>5, <2>2
  <2>3. CASE p.step = "files"
    BY <1>5, <2>3
  <2> QED BY <1>2, <1>3, <2>1, <2>2, <2>3 DEF PageState
<1>7. PICK phase, state : /\ phase = (IF next = "none" THEN "left" ELSE p.phase)
                          /\ state = (IF next = "none" THEN "none" ELSE "asked")
  OBVIOUS
<1>8. PICK p2 : p2 = [p EXCEPT !.todo = left, !.step = next, !.phase = phase, !.state = state]
  OBVIOUS
<1>9. left \subseteq p.todo /\ p.todo \in SUBSET RowState
  BY <1>2, <1>4 DEF PageState
<1>10. /\ p2 \in PageState /\ p2.phase = phase /\ p2.form = p.form /\ p2.edit = p.edit /\ p2.sent = p.sent
       /\ p2.step = next /\ p2.state = state /\ p2.todo = left /\ phase \in {"saving", "left"}
  BY <1>2, <1>3, <1>6, <1>7, <1>8, <1>9 DEF PageState
<1>11. page' = [page EXCEPT ![e] = p2] /\ UNCHANGED <<works, items, typed, lost, others>>
  <2>1. Compose!Due(e) = First(p.todo)
    BY <1>2, DueIsFirst
  <2>2. page' = [page EXCEPT ![e].todo = left, ![e].step = next, ![e].phase = phase, ![e].state = state]
    BY <1>1, <1>2, <1>4, <1>5, <1>7, <2>1 DEF Compose!Arrive, PageState
  <2> QED BY <1>1, <1>2, <1>8, <2>2 DEF Compose!Arrive
<1>12. p.step \in {"create", "files"} => left = {}
  BY <1>2, <1>3, <1>9, FlowIs
<1>13. Flow(p2)
  <2>1. p2.todo \subseteq Compose!Dirty(p2.sent)
    BY <1>3, <1>9, <1>10 DEF Flow
  <2> QED BY <1>2, <1>3, <1>6, <1>7, <1>10, <1>12, <2>1 DEF Flow
<1>14. RowsRight(p2) /\ CaptionsRight(p2, o)
  <2>1. RowsRight(p2)
    BY <1>3, <1>10 DEF RowsRight
  <2>2. \A i \in DOMAIN p2.form.existing : ~p2.form.existing[i].dirty => Kept(p2.form.existing[i], o)
    BY <1>3, <1>10 DEF CaptionsRight
  <2>3. ASSUME NEW i \in DOMAIN p.sent.existing, ~p.sent.existing[i].dirty \/ p.sent.existing[i] \notin left
        PROVE  Kept(p.sent.existing[i], o)
    <3>1. PICK m : m = p.sent.existing[i]
      OBVIOUS
    <3>2. CASE ~m.dirty \/ m \notin p.todo
      BY <1>3, <3>1, <3>2 DEF CaptionsRight
    <3>3. CASE m.dirty /\ m \in p.todo
      <4>1. m = First(p.todo) /\ p.step = "caption"
        BY <1>4, <2>3, <3>1, <3>3
      <4> QED BY <1>3, <3>1, <4>1 DEF CaptionsRight
    <3> QED BY <3>1, <3>2, <3>3
  <2>4. p2.state # "ok"
    BY <1>7, <1>10
  <2> QED BY <1>10, <2>1, <2>2, <2>3, <2>4 DEF CaptionsRight
<1>15. TextRight(p2, o)
  <2>1. p.edit => Renamed(p)
    <3>1. p.edit => p.step \in {"text", "caption", "files"}
      BY <1>2, <1>3 DEF Flow, PageState
    <3> QED BY <1>3, <3>1 DEF Renamed
  <2> QED BY <1>3, <1>10, <2>1 DEF TabRight, TextRight
<1>16. Finished(p2) <=> next = "none"
  BY <1>6, <1>7, <1>3, <1>10 DEF Finished
<1>17. Finished(p) <=> p.step \in {"create", "files"}
  BY <1>3 DEF Finished
<1>18. FilesRight(p2, e \notin lost)
  <2>1. \A f \in p.sent.files : Finished(p2) <=> Finished(p)
    BY <1>6, <1>16, <1>17
  <2>2. Files(p2) = Files(p)
    BY <1>10 DEF Files
  <2> QED BY <1>3, <1>10, <2>1, <2>2 DEF TabRight, FilesRight
<1>19. WorkRight(e, p2, e \notin lost)
  <2>1. ~p.edit => Finished(p) /\ Finished(p2)
    <3>1. ~p.edit => p.step = "create"
      BY <1>2, <1>3, FlowIs
    <3> QED BY <1>6, <1>16, <1>17, <3>1
  <2> QED BY <1>3, <1>10, <2>1 DEF TabRight, WorkRight
<1>20. TabRight(e, p2, others[e], e \notin lost)'
  <2>1. RowsRight(p2)' /\ CaptionsRight(p2, o)' /\ TextRight(p2, o)'
    BY <1>11, <1>14, <1>15, SameData
  <2>2. FilesRight(p2, e \notin lost)' /\ WorkRight(e, p2, e \notin lost)'
    BY <1>11, <1>18, <1>19 DEF FilesRight, WorkRight, Copies, Mine
  <2>3. Flow(p2)'
    BY <1>13
  <2> QED BY <1>2, <1>11, <2>1, <2>2, <2>3 DEF TabRight
<1>21. /\ typed' \in Nat /\ typed =< typed' /\ lost' \subseteq Tab /\ UNCHANGED <<works, items>>
       /\ Files(p2) \subseteq Files(page[e]) \cup (typed + 1 .. typed') /\ others' \in [Tab -> SUBSET Nat]
       /\ \A f \in Tab : f # e => (f \in lost' <=> f \in lost) /\ others'[f] = others[f]
  BY <1>1, <1>2, <1>10, <1>11 DEF Files
<1> QED BY <1>10, <1>11, <1>20, <1>21, OnPage

LEMMA GoesWrongStep ==
  ASSUME ComposeInv, NEW e \in Tab, Compose!GoesWrong(e)
  PROVE  ComposeInv'
<1>1. /\ ComposeTypes /\ page[e] \in PageState /\ page \in [Tab -> PageState] /\ typed \in Nat /\ lost \subseteq Tab
      /\ others \in [Tab -> SUBSET Nat]
  BY DEF ComposeInv, ComposeTypes
<1>2. PICK p, o : p = page[e] /\ o = others[e] /\ p \in PageState
  BY <1>1
<1>3. /\ Flow(p) /\ p.state # "none" /\ p.step # "none" /\ p.phase = "saving" /\ TabRight(e, p, o, e \notin lost)
      /\ RowsRight(p) /\ CaptionsRight(p, o)
  <2>1. Flow(p) /\ p.state # "none" /\ TabRight(e, p, o, e \notin lost)
    BY <1>2 DEF ComposeInv, TabRight, Compose!GoesWrong
  <2> QED BY <1>2, <2>1, FlowIs DEF TabRight
<1>4. PICK p2 : p2 = [p EXCEPT !.phase = "ready", !.step = "none", !.state = "none", !.todo = {}]
  OBVIOUS
<1>5. /\ p2 \in PageState /\ p2.phase = "ready" /\ p2.form = p.form /\ p2.edit = p.edit /\ p2.sent = p.sent
      /\ p2.step = "none" /\ p2.state = "none" /\ p2.todo = {}
  BY <1>2, <1>4 DEF PageState
<1>6. page' = [page EXCEPT ![e] = p2] /\ UNCHANGED <<works, items, typed, others>>
  BY <1>1, <1>2, <1>4 DEF Compose!GoesWrong
<1>7. /\ lost' \subseteq Tab /\ \A f \in Tab : f # e => (f \in lost' <=> f \in lost)
      /\ e \notin lost' => e \notin lost /\ ~(p.state = "ok" /\ p.step \in {"create", "files"})
  BY <1>1, <1>2 DEF Compose!GoesWrong
<1>8. Flow(p2)
  BY <1>3, <1>5 DEF Flow
<1>9. RowsRight(p2) /\ CaptionsRight(p2, o)
  BY <1>3, <1>5 DEF RowsRight, CaptionsRight
<1>10. ~Finished(p2) /\ ~Renamed(p2) /\ (e \notin lost' => ~Finished(p))
  BY <1>3, <1>5, <1>7 DEF Finished, Renamed
<1>11. TextRight(p2, o)
  BY <1>10 DEF TextRight
<1>12. FilesRight(p2, e \notin lost')
  <2>1. Files(p2) = Files(p)
    BY <1>5 DEF Files
  <2>2. FilesRight(p, e \notin lost)
    BY <1>3 DEF TabRight
  <2>3. \A f \in Files(p) : f \in 1 .. typed /\ (e \notin lost' => Copies(f) = {})
    BY <1>7, <1>10, <2>2 DEF FilesRight
  <2> QED BY <1>10, <2>1, <2>3 DEF FilesRight
<1>13. WorkRight(e, p2, e \notin lost')
  <2>1. WorkRight(e, p, e \notin lost)
    BY <1>3 DEF TabRight
  <2> QED BY <1>5, <1>7, <1>10, <2>1 DEF WorkRight
<1>14. TabRight(e, p2, others[e], e \notin lost)'
  <2>1. RowsRight(p2)' /\ CaptionsRight(p2, o)' /\ TextRight(p2, o)'
    BY <1>6, <1>9, <1>11, SameData
  <2>2. FilesRight(p2, e \notin lost)' /\ WorkRight(e, p2, e \notin lost)'
    BY <1>6, <1>12, <1>13 DEF FilesRight, WorkRight, Copies, Mine
  <2>3. Flow(p2)'
    BY <1>8
  <2> QED BY <1>2, <1>6, <2>1, <2>2, <2>3 DEF TabRight
<1>15. /\ typed' \in Nat /\ typed =< typed' /\ UNCHANGED <<works, items>>
       /\ Files(p2) \subseteq Files(page[e]) \cup (typed + 1 .. typed') /\ others' \in [Tab -> SUBSET Nat]
       /\ \A f \in Tab : f # e => others'[f] = others[f]
  BY <1>1, <1>2, <1>5, <1>6 DEF Files
<1> QED BY <1>5, <1>6, <1>7, <1>14, <1>15, OnPage

-----------------------------------------------------------------------------
(* The requests as the server sees them.                                       *)

(* New items: those of the other forms' files are the same.                      *)
LEMMA AddedFor ==
  ASSUME ComposeInv, NEW e \in Tab, NEW w \in Nat, items' = items \o Compose!Added(w, page[e].sent.files), UNCHANGED typed
  PROVE  /\ items' \in Seq(ItemState) /\ DOMAIN items \subseteq DOMAIN items'
         /\ \A i \in DOMAIN items' : items'[i].file =< typed'
         /\ \A o : Quiet(o, o)
         /\ \A f \in Tab : f # e => \A x \in Files(page[f]) : Copies(x)' = Copies(x)
         /\ \A f : f \notin page[e].sent.files => Copies(f)' = Copies(f)
         /\ \A f \in page[e].sent.files : \E i : Copies(f)' = Copies(f) \cup {i}
<1>1. PICK files : files = page[e].sent.files /\ files \in SUBSET (1 .. typed)
  BY DEF ComposeInv, TabRight, FilesRight, Files
<1>2. /\ items' \in Seq(ItemState) /\ DOMAIN items \subseteq DOMAIN items'
      /\ \A i \in DOMAIN items : items'[i] = items[i]
      /\ \A i \in DOMAIN items' : items'[i].file =< typed
      /\ \A f : f \notin files => Copies(f)' = Copies(f)
      /\ \A f \in files : \E i : Copies(f)' = Copies(f) \cup {i}
  BY <1>1, AddedIs DEF ComposeInv
<1>3. \A o : Quiet(o, o)
  BY <1>2 DEF Quiet
<1>4. ASSUME NEW f \in Tab, f # e, NEW x \in Files(page[f]) PROVE Copies(x)' = Copies(x)
  <2>1. Files(page[f]) \cap Files(page[e]) = {} /\ files \subseteq Files(page[e])
    BY <1>1, <1>4 DEF ComposeInv, Files
  <2> QED BY <1>2, <1>4, <2>1
<1> QED BY <1>1, <1>2, <1>3, <1>4

LEMMA ServeCreateStep ==
  ASSUME ComposeInv, NEW e \in Tab, Compose!ServeCreate(e)
  PROVE  ComposeInv'
<1>1. /\ ComposeTypes /\ page[e] \in PageState /\ page \in [Tab -> PageState] /\ typed \in Nat /\ lost \subseteq Tab
      /\ others \in [Tab -> SUBSET Nat]
  BY DEF ComposeInv, ComposeTypes
<1>2. PICK p, o : p = page[e] /\ o = others[e] /\ p \in PageState
  BY <1>1
<1>3. /\ Flow(p) /\ p.state = "asked" /\ p.step = "create" /\ p.phase = "saving" /\ TabRight(e, p, o, e \notin lost)
      /\ RowsRight(p) /\ CaptionsRight(p, o) /\ ~p.edit /\ ~Finished(p)
  <2>1. Flow(p) /\ p.state = "asked" /\ p.step = "create" /\ TabRight(e, p, o, e \notin lost)
    BY <1>2 DEF ComposeInv, TabRight, Compose!ServeCreate
  <2> QED BY <1>2, <2>1, FlowIs DEF TabRight
<1>4. PICK p2 : p2 = [p EXCEPT !.state = "ok"]
  OBVIOUS
<1>5. /\ p2 \in PageState /\ p2.phase = "saving" /\ p2.form = p.form /\ ~p2.edit /\ p2.sent = p.sent
      /\ p2.step = "create" /\ p2.state = "ok" /\ p2.todo = p.todo
  BY <1>2, <1>3, <1>4 DEF PageState
<1>6. PICK L, work : L = Len(works) /\ work = [text |-> p.sent.text, by |-> e]
  OBVIOUS
<1>7. /\ works' = Append(works, work) /\ items' = items \o Compose!Added(L + 1, p.sent.files)
      /\ page' = [page EXCEPT ![e] = p2] /\ UNCHANGED <<typed, others, lost>>
  BY <1>1, <1>2, <1>4, <1>6 DEF Compose!ServeCreate, Compose!Answered
<1>8. L \in Nat /\ L >= 1 /\ works \in Seq(WorkState) /\ DOMAIN works = 1 .. L /\ works[1].by = "none"
  BY <1>1, <1>6 DEF ComposeTypes
<1>9. work \in WorkState /\ work.by = e /\ work.text = p.sent.text
  BY <1>2, <1>6 DEF PageState, FormState, WorkState
<1>10. /\ works' \in Seq(WorkState) /\ DOMAIN works' = 1 .. L + 1 /\ Len(works') = L + 1 /\ works'[L + 1] = work
       /\ \A w \in 1 .. L : works'[w] = works[w]
  <2> HIDE DEF WorkState
  <2> QED BY <1>6, <1>7, <1>8, <1>9
<1>11. /\ items' \in Seq(ItemState) /\ DOMAIN items \subseteq DOMAIN items'
       /\ \A i \in DOMAIN items' : items'[i].file =< typed'
       /\ \A v : Quiet(v, v)
       /\ \A f \in Tab : f # e => \A x \in Files(page[f]) : Copies(x)' = Copies(x)
       /\ \A f : f \notin p.sent.files => Copies(f)' = Copies(f)
       /\ \A f \in p.sent.files : \E i : Copies(f)' = Copies(f) \cup {i}
  <2>1. L + 1 \in Nat
    BY <1>8
  <2> QED BY <1>2, <1>7, <2>1, AddedFor
<1>12. /\ \A f : f # e => Mine(f)' = Mine(f) /\ \A w \in Mine(f) : works'[w].text = works[w].text
       /\ L + 1 \in Mine(e)' /\ (Mine(e) = {} => Mine(e)' = {L + 1})
       /\ Len(works') >= 1 /\ works'[1].by = "none" /\ works'[1].text = works[1].text
  <2>1. \A w \in 1 .. L + 1 : w \in 1 .. L \/ w = L + 1
    BY <1>8
  <2>2. 1 \in 1 .. L /\ L + 1 >= 1 /\ L + 1 \in 1 .. L + 1 /\ L + 1 \notin 1 .. L /\ 1 .. L \subseteq 1 .. L + 1
    BY <1>8
  <2> QED BY <1>8, <1>9, <1>10, <2>1, <2>2 DEF Mine
<1>13. Flow(p2)
  BY <1>3, <1>5 DEF Flow
<1>14. RowsRight(p2)' /\ CaptionsRight(p2, o)'
  <2>1. RowsRight(p)' /\ CaptionsRight(p, o)'
    BY <1>1, <1>2, <1>3, <1>11, RowsStay, CaptionsStay
  <2> QED BY <1>3, <1>5, <2>1 DEF RowsRight, CaptionsRight
<1>15. Finished(p2)
  BY <1>5 DEF Finished
<1>16. FilesRight(p2, e \notin lost)'
  <2>1. FilesRight(p, e \notin lost) /\ Files(p2) = Files(p)
    BY <1>3, <1>5 DEF TabRight, Files
  <2>2. ASSUME NEW f \in Files(p)
        PROVE  /\ f \in 1 .. typed'
               /\ f \in p.sent.files => Copies(f)' # {}
               /\ e \notin lost' => IF f \in p.sent.files THEN \E i : Copies(f)' = {i} ELSE Copies(f)' = {}
    <3>1. f \in 1 .. typed' /\ (e \notin lost' => Copies(f) = {})
      BY <1>3, <1>7, <2>1 DEF FilesRight
    <3>2. f \in p.sent.files => \E i : Copies(f)' = Copies(f) \cup {i}
      BY <1>11
    <3> QED BY <1>11, <3>1, <3>2
  <2> QED BY <1>5, <1>15, <2>1, <2>2 DEF FilesRight
<1>17. WorkRight(e, p2, e \notin lost)'
  <2>1. e \notin lost => Mine(e) = {}
    BY <1>3 DEF TabRight, WorkRight
  <2>2. works'[L + 1].text = p2.sent.text
    BY <1>5, <1>9, <1>10
  <2> QED BY <1>7, <1>12, <1>15, <2>1, <2>2 DEF WorkRight
<1>18. TabRight(e, p2, others[e], e \notin lost)'
  <2>1. TextRight(p2, o)'
    BY <1>5 DEF TextRight
  <2>2. Flow(p2)'
    BY <1>13
  <2> QED BY <1>2, <1>7, <1>14, <1>16, <1>17, <2>1, <2>2 DEF TabRight
<1>19. /\ typed' \in Nat /\ typed =< typed' /\ lost' \subseteq Tab /\ others' \in [Tab -> SUBSET Nat]
       /\ Files(p2) \subseteq Files(page[e]) \cup (typed + 1 .. typed')
       /\ \A f \in Tab : f # e =>
            /\ f \in lost' <=> f \in lost
            /\ Quiet(others[f], others'[f])
            /\ 0 \notin others'[f] => 0 \notin others[f] /\ works'[1].text = works[1].text
  BY <1>1, <1>2, <1>5, <1>7, <1>11, <1>12 DEF Files
<1> QED BY <1>5, <1>7, <1>10, <1>11, <1>12, <1>18, <1>19, OneTab

LEMMA ServeFilesStep ==
  ASSUME ComposeInv, NEW e \in Tab, Compose!ServeFiles(e)
  PROVE  ComposeInv'
<1>1. /\ ComposeTypes /\ page[e] \in PageState /\ page \in [Tab -> PageState] /\ typed \in Nat /\ lost \subseteq Tab
      /\ others \in [Tab -> SUBSET Nat]
  BY DEF ComposeInv, ComposeTypes
<1>2. PICK p, o : p = page[e] /\ o = others[e] /\ p \in PageState
  BY <1>1
<1>3. /\ Flow(p) /\ p.state = "asked" /\ p.step = "files" /\ p.phase = "saving" /\ TabRight(e, p, o, e \notin lost)
      /\ RowsRight(p) /\ CaptionsRight(p, o) /\ p.edit /\ ~Finished(p)
  <2>1. Flow(p) /\ p.state = "asked" /\ p.step = "files" /\ TabRight(e, p, o, e \notin lost)
    BY <1>2 DEF ComposeInv, TabRight, Compose!ServeFiles
  <2> QED BY <1>2, <2>1, FlowIs DEF TabRight
<1>4. PICK p2 : p2 = [p EXCEPT !.state = "ok"]
  OBVIOUS
<1>5. /\ p2 \in PageState /\ p2.phase = "saving" /\ p2.form = p.form /\ p2.edit = p.edit /\ p2.sent = p.sent
      /\ p2.step = "files" /\ p2.state = "ok" /\ p2.todo = p.todo
  BY <1>2, <1>3, <1>4 DEF PageState
<1>7. /\ items' = items \o Compose!Added(1, p.sent.files)
      /\ page' = [page EXCEPT ![e] = p2] /\ UNCHANGED <<works, typed, others, lost>>
  BY <1>1, <1>2, <1>4 DEF Compose!ServeFiles, Compose!Answered
<1>11. /\ items' \in Seq(ItemState) /\ DOMAIN items \subseteq DOMAIN items'
       /\ \A i \in DOMAIN items' : items'[i].file =< typed'
       /\ \A v : Quiet(v, v)
       /\ \A f \in Tab : f # e => \A x \in Files(page[f]) : Copies(x)' = Copies(x)
       /\ \A f : f \notin p.sent.files => Copies(f)' = Copies(f)
       /\ \A f \in p.sent.files : \E i : Copies(f)' = Copies(f) \cup {i}
  BY <1>2, <1>7, AddedFor
<1>13. Flow(p2)
  BY <1>3, <1>5 DEF Flow
<1>14. RowsRight(p2)' /\ CaptionsRight(p2, o)'
  <2>1. RowsRight(p)' /\ CaptionsRight(p, o)'
    BY <1>1, <1>2, <1>3, <1>11, RowsStay, CaptionsStay
  <2> QED BY <1>3, <1>5, <2>1 DEF RowsRight, CaptionsRight
<1>15. Finished(p2)
  BY <1>5 DEF Finished
<1>16. FilesRight(p2, e \notin lost)'
  <2>1. FilesRight(p, e \notin lost) /\ Files(p2) = Files(p)
    BY <1>3, <1>5 DEF TabRight, Files
  <2>2. ASSUME NEW f \in Files(p)
        PROVE  /\ f \in 1 .. typed'
               /\ f \in p.sent.files => Copies(f)' # {}
               /\ e \notin lost' => IF f \in p.sent.files THEN \E i : Copies(f)' = {i} ELSE Copies(f)' = {}
    <3>1. f \in 1 .. typed' /\ (e \notin lost' => Copies(f) = {})
      BY <1>3, <1>7, <2>1 DEF FilesRight
    <3>2. f \in p.sent.files => \E i : Copies(f)' = Copies(f) \cup {i}
      BY <1>11
    <3> QED BY <1>11, <3>1, <3>2
  <2> QED BY <1>5, <1>15, <2>1, <2>2 DEF FilesRight
<1>17. TextRight(p2, o)' /\ WorkRight(e, p2, e \notin lost)'
  BY <1>3, <1>5, <1>7 DEF TabRight, TextRight, Renamed, WorkRight
<1>18. TabRight(e, p2, others[e], e \notin lost)'
  <2>2. Flow(p2)'
    BY <1>13
  <2> QED BY <1>2, <1>7, <1>14, <1>16, <1>17, <2>2 DEF TabRight
<1>19. /\ typed' \in Nat /\ typed =< typed' /\ lost' \subseteq Tab /\ others' \in [Tab -> SUBSET Nat]
       /\ Files(p2) \subseteq Files(page[e]) \cup (typed + 1 .. typed')
       /\ works' \in Seq(WorkState) /\ Len(works') >= 1 /\ works'[1].by = "none"
       /\ \A f \in Tab : f # e =>
            /\ f \in lost' <=> f \in lost
            /\ Quiet(others[f], others'[f])
            /\ 0 \notin others'[f] => 0 \notin others[f] /\ works'[1].text = works[1].text
            /\ Mine(f)' = Mine(f) /\ \A w \in Mine(f) : works'[w].text = works[w].text
  BY <1>1, <1>2, <1>5, <1>7, <1>11 DEF Files, ComposeTypes, Mine
<1> QED BY <1>5, <1>7, <1>11, <1>18, <1>19, OneTab

(* What a form wrote, the others are told of.                                   *)
LEMMA WroteIs ==
  ASSUME others \in [Tab -> SUBSET Nat], NEW e \in Tab, NEW thing \in Nat, Compose!Wrote(e, thing)
  PROVE  others' \in [Tab -> SUBSET Nat] /\ others'[e] = others[e]
         /\ \A f \in Tab : f # e => others'[f] = others[f] \cup {thing}
BY DEF Compose!Wrote

(* No item is another file's, and no new work is made.                           *)
LEMMA SameCopies ==
  ASSUME ComposeInv, DOMAIN items' = DOMAIN items, \A i \in DOMAIN items : items'[i].file = items[i].file, UNCHANGED typed
  PROVE  /\ \A x : Copies(x)' = Copies(x)
         /\ \A i \in DOMAIN items' : items'[i].file =< typed'
BY DEF ComposeInv, Copies

LEMMA ServeTextStep ==
  ASSUME ComposeInv, NEW e \in Tab, Compose!ServeText(e)
  PROVE  ComposeInv'
<1>1. /\ ComposeTypes /\ page[e] \in PageState /\ page \in [Tab -> PageState] /\ typed \in Nat /\ lost \subseteq Tab
      /\ others \in [Tab -> SUBSET Nat]
  BY DEF ComposeInv, ComposeTypes
<1>2. PICK p, o : p = page[e] /\ o = others[e] /\ p \in PageState
  BY <1>1
<1>3. /\ Flow(p) /\ p.state = "asked" /\ p.step = "text" /\ p.phase = "saving" /\ TabRight(e, p, o, e \notin lost)
      /\ RowsRight(p) /\ CaptionsRight(p, o) /\ p.edit /\ ~Finished(p)
  <2>1. Flow(p) /\ p.state = "asked" /\ p.step = "text" /\ TabRight(e, p, o, e \notin lost)
    BY <1>2 DEF ComposeInv, TabRight, Compose!ServeText
  <2> QED BY <1>2, <2>1, FlowIs DEF TabRight
<1>4. PICK p2 : p2 = [p EXCEPT !.state = "ok"]
  OBVIOUS
<1>5. /\ p2 \in PageState /\ p2.phase = "saving" /\ p2.form = p.form /\ p2.edit = p.edit /\ p2.sent = p.sent
      /\ p2.step = "text" /\ p2.state = "ok" /\ p2.todo = p.todo
  BY <1>2, <1>3, <1>4 DEF PageState
<1>6. PICK work : work = [works[1] EXCEPT !.text = p.sent.text]
  OBVIOUS
<1>7. /\ works' = [works EXCEPT ![1] = work] /\ Compose!Wrote(e, 0)
      /\ page' = [page EXCEPT ![e] = p2] /\ UNCHANGED <<items, typed, lost>>
  BY <1>1, <1>2, <1>4, <1>6 DEF Compose!ServeText, Compose!Answered
<1>8. works \in Seq(WorkState) /\ Len(works) \in Nat /\ Len(works) >= 1 /\ 1 \in DOMAIN works /\ works[1].by = "none"
  BY <1>1 DEF ComposeTypes
<1>9. works[1] \in WorkState
  <2> HIDE DEF WorkState
  <2> QED BY <1>8
<1>10. work \in WorkState /\ work.by = "none" /\ work.text = p.sent.text
  <2>1. p.sent.text \in Nat
    BY <1>2 DEF PageState, FormState
  <2> QED BY <1>6, <1>8, <1>9, <2>1 DEF WorkState
<1>11. /\ works' \in Seq(WorkState) /\ Len(works') = Len(works) /\ DOMAIN works' = DOMAIN works /\ works'[1] = work
       /\ \A w \in DOMAIN works : w # 1 => works'[w] = works[w]
  <2> HIDE DEF WorkState
  <2> QED BY <1>7, <1>8, <1>10
<1>12. ASSUME NEW f \in Tab PROVE Mine(f)' = Mine(f) /\ \A w \in Mine(f) : works'[w].text = works[w].text
  <2>1. \A w \in DOMAIN works : works'[w].by = works[w].by
    BY <1>8, <1>10, <1>11
  <2>2. Mine(f)' = Mine(f)
    BY <1>11, <2>1 DEF Mine
  <2>3. 1 \notin Mine(f)
    BY <1>8, NoneIsNoTab DEF Mine
  <2> QED BY <1>11, <2>2, <2>3 DEF Mine
<1>13. others' \in [Tab -> SUBSET Nat] /\ others'[e] = o /\ \A f \in Tab : f # e => others'[f] = others[f] \cup {0}
  BY <1>1, <1>2, <1>7, WroteIs
<1>14. RowsRight(p2)' /\ CaptionsRight(p2, o)'
  <2>1. Quiet(o, o)
    BY <1>7 DEF Quiet
  <2>2. RowsRight(p)' /\ CaptionsRight(p, o)'
    BY <1>1, <1>2, <1>3, <1>7, <2>1, RowsStay, CaptionsStay
  <2> QED BY <1>3, <1>5, <2>2 DEF RowsRight, CaptionsRight
<1>15. TextRight(p2, o)'
  BY <1>5, <1>10, <1>11 DEF TextRight
<1>16. FilesRight(p2, e \notin lost)' /\ WorkRight(e, p2, e \notin lost)'
  <2>1. ~Finished(p2) /\ Files(p2) = Files(p) /\ \A x : Copies(x)' = Copies(x)
    BY <1>5, <1>7 DEF Finished, Files, Copies
  <2> QED BY <1>3, <1>5, <1>7, <2>1 DEF TabRight, FilesRight, WorkRight
<1>17. TabRight(e, p2, others[e], e \notin lost)'
  <2>1. Flow(p2)'
    BY <1>3, <1>5 DEF Flow
  <2> QED BY <1>2, <1>7, <1>13, <1>14, <1>15, <1>16, <2>1 DEF TabRight
<1>18. /\ \A f \in Tab : f # e =>
            /\ f \in lost' <=> f \in lost
            /\ Quiet(others[f], others'[f])
            /\ 0 \notin others'[f] => 0 \notin others[f] /\ works'[1].text = works[1].text
            /\ \A x \in Files(page[f]) : Copies(x)' = Copies(x)
  BY <1>7, <1>13 DEF Quiet, Copies
<1>19. /\ typed' \in Nat /\ typed =< typed' /\ lost' \subseteq Tab /\ Len(works') >= 1 /\ works'[1].by = "none"
       /\ Files(p2) \subseteq Files(page[e]) \cup (typed + 1 .. typed')
       /\ items' \in Seq(ItemState) /\ DOMAIN items \subseteq DOMAIN items'
       /\ \A i \in DOMAIN items' : items'[i].file =< typed'
  BY <1>1, <1>2, <1>5, <1>7, <1>8, <1>10, <1>11, SameCopies DEF Files, ComposeTypes
<1> QED BY <1>5, <1>7, <1>11, <1>12, <1>13, <1>17, <1>18, <1>19, OneTab

LEMMA ServeCaptionStep ==
  ASSUME ComposeInv, NEW e \in Tab, Compose!ServeCaption(e)
  PROVE  ComposeInv'
<1>1. /\ ComposeTypes /\ page[e] \in PageState /\ page \in [Tab -> PageState] /\ typed \in Nat /\ lost \subseteq Tab
      /\ others \in [Tab -> SUBSET Nat]
  BY DEF ComposeInv, ComposeTypes
<1>2. PICK p, o, m : p = page[e] /\ o = others[e] /\ p \in PageState /\ m = First(p.todo)
  BY <1>1
<1>3. /\ Flow(p) /\ p.state = "asked" /\ p.step = "caption" /\ p.phase = "saving" /\ TabRight(e, p, o, e \notin lost)
      /\ RowsRight(p) /\ CaptionsRight(p, o) /\ p.edit /\ ~Finished(p) /\ Compose!Due(e) = m
  <2>1. Flow(p) /\ p.state = "asked" /\ p.step = "caption" /\ TabRight(e, p, o, e \notin lost)
    BY <1>2 DEF ComposeInv, TabRight, Compose!ServeCaption
  <2> QED BY <1>2, <2>1, FlowIs, DueIsFirst DEF TabRight
<1>4. /\ m \in p.todo /\ m \in RowState /\ m.dirty /\ m.id \in DOMAIN items
      /\ \E j \in DOMAIN p.sent.existing : m = p.sent.existing[j]
  BY <1>1, <1>2, <1>3, TodoRows DEF PageState
<1>5. PICK state, p2 : p2 = [p EXCEPT !.state = state] /\ state = IF items[m.id].live THEN "ok" ELSE "refused"
  OBVIOUS
<1>6. /\ p2 \in PageState /\ p2.phase = "saving" /\ p2.form = p.form /\ p2.edit = p.edit /\ p2.sent = p.sent
      /\ p2.step = "caption" /\ p2.state = state /\ p2.todo = p.todo
  BY <1>2, <1>3, <1>5 DEF PageState
<1>7. page' = [page EXCEPT ![e] = p2] /\ UNCHANGED <<works, typed, lost>>
  <2>1. Compose!Answered(e, state) /\ UNCHANGED <<works, typed, lost>>
    BY <1>3, <1>5 DEF Compose!ServeCaption
  <2> QED BY <1>1, <1>2, <1>5, <2>1 DEF Compose!Answered
<1>8. items \in Seq(ItemState) /\ Len(items) \in Nat /\ DOMAIN items = 1 .. Len(items)
  BY <1>1 DEF ComposeTypes
<1>9. PICK n, item : n = m.id /\ item = [items[n] EXCEPT !.caption = m.caption]
  OBVIOUS
<1>10. /\ item \in ItemState /\ item.caption = m.caption /\ item.file = items[n].file /\ item.live = items[n].live
       /\ n \in DOMAIN items /\ n \in Nat
  <2>1. items[n] \in ItemState
    BY <1>4, <1>8, <1>9
  <2>2. m.caption \in Nat /\ n \in Nat
    BY <1>4, <1>9 DEF RowState
  <2> QED BY <1>4, <1>9, <2>1, <2>2 DEF ItemState
<1>11. \/ items' = [items EXCEPT ![n] = item] /\ Compose!Wrote(e, n) /\ items[n].live
       \/ items' = items /\ others' = others /\ state = "refused"
  BY <1>3, <1>5, <1>9 DEF Compose!ServeCaption
<1>12. /\ items' \in Seq(ItemState) /\ DOMAIN items' = DOMAIN items /\ Len(items') = Len(items)
       /\ \A i \in DOMAIN items : i # n => items'[i] = items[i]
       /\ items'[n].file = items[n].file /\ items'[n].live = items[n].live
       /\ state = "ok" => items'[n].caption = m.caption
  <2>1. CASE items' = items /\ state = "refused"
    BY <1>8, <2>1
  <2>2. CASE items' = [items EXCEPT ![n] = item]
    <3>1. /\ items' \in Seq(ItemState) /\ DOMAIN items' = DOMAIN items /\ Len(items') = Len(items) /\ items'[n] = item
          /\ \A i \in DOMAIN items : i # n => items'[i] = items[i]
      <4> HIDE DEF ItemState
      <4> QED BY <1>8, <1>10, <2>2
    <3> QED BY <1>10, <3>1
  <2> QED BY <1>11, <2>1, <2>2
<1>13. /\ others' \in [Tab -> SUBSET Nat] /\ others'[e] = o
       /\ \A f \in Tab : f # e => Quiet(others[f], others'[f]) /\ (0 \notin others'[f] => 0 \notin others[f])
  <2>1. CASE items' = items /\ others' = others
    BY <1>1, <1>2, <2>1 DEF Quiet
  <2>2. CASE Compose!Wrote(e, n)
    BY <1>1, <1>2, <1>10, <1>12, <2>2, WroteIs DEF Quiet
  <2> QED BY <1>11, <2>1, <2>2
<1>14. RowsRight(p2)'
  BY <1>3, <1>6, <1>12 DEF RowsRight, Distinct
<1>15. CaptionsRight(p2, o)'
  <2>1. \A r : r.id \in DOMAIN items /\ r.id # n /\ Kept(r, o) => Kept(r, o)'
    BY <1>12 DEF Kept
  <2>2. ASSUME NEW i \in DOMAIN p.form.existing, ~p.form.existing[i].dirty PROVE Kept(p.form.existing[i], o)'
    <3>1. PICK r : r = p.form.existing[i]
      OBVIOUS
    <3>2. r.id \in DOMAIN items /\ Kept(r, o) /\ r.id # n
      BY <1>3, <1>4, <1>9, <2>2, <3>1 DEF RowsRight, Distinct, CaptionsRight
    <3>3. Kept(r, o)'
      BY <2>1, <3>2
    <3> QED BY <3>1, <3>3
  <2>3. ASSUME NEW i \in DOMAIN p.sent.existing, NEW r, r = p.sent.existing[i], ~r.dirty \/ r \notin p.todo
        PROVE  Kept(r, o)'
    <3>1. r.id \in DOMAIN items /\ Kept(r, o)
      BY <1>3, <2>3 DEF RowsRight, Distinct, CaptionsRight
    <3>2. r.id = n => r = m
      BY <1>3, <1>4, <1>9, <2>3 DEF RowsRight, Distinct
    <3>3. r.id # n
      BY <1>4, <2>3, <3>2
    <3> QED BY <2>1, <3>1, <3>3
  <2>4. ASSUME state = "ok" PROVE Kept(First(p.todo), o)'
    BY <1>2, <1>9, <1>12, <2>4 DEF Kept
  <2> QED BY <1>6, <2>2, <2>3, <2>4 DEF CaptionsRight
<1>16. TextRight(p2, o)'
  BY <1>3, <1>6, <1>7 DEF TabRight, TextRight, Renamed
<1>17. \A i \in DOMAIN items : items'[i].file = items[i].file
  BY <1>12
<1>18. /\ \A x : Copies(x)' = Copies(x)
       /\ \A i \in DOMAIN items' : items'[i].file =< typed'
  BY <1>7, <1>12, <1>17, SameCopies
<1>19. FilesRight(p2, e \notin lost)' /\ WorkRight(e, p2, e \notin lost)'
  <2>1. ~Finished(p2) /\ Files(p2) = Files(p)
    BY <1>6 DEF Finished, Files
  <2> QED BY <1>3, <1>6, <1>7, <1>18, <2>1 DEF TabRight, FilesRight, WorkRight
<1>20. TabRight(e, p2, others[e], e \notin lost)'
  <2>1. Flow(p2)'
    <3>1. state \in {"ok", "refused"}
      BY <1>5
    <3> QED BY <1>3, <1>6, <3>1 DEF Flow
  <2> QED BY <1>2, <1>7, <1>13, <1>14, <1>15, <1>16, <1>19, <2>1 DEF TabRight
<1>21. /\ typed' \in Nat /\ typed =< typed' /\ lost' \subseteq Tab
       /\ Files(p2) \subseteq Files(page[e]) \cup (typed + 1 .. typed')
       /\ works' \in Seq(WorkState) /\ Len(works') >= 1 /\ works'[1].by = "none"
       /\ DOMAIN items \subseteq DOMAIN items'
       /\ \A f \in Tab : f # e =>
            /\ f \in lost' <=> f \in lost
            /\ works'[1].text = works[1].text
            /\ Mine(f)' = Mine(f) /\ \A w \in Mine(f) : works'[w].text = works[w].text
  BY <1>1, <1>2, <1>6, <1>7, <1>12 DEF Files, ComposeTypes, Mine
<1> QED BY <1>6, <1>7, <1>12, <1>13, <1>18, <1>20, <1>21, OneTab

LEMMA ServeRemoveStep ==
  ASSUME ComposeInv, NEW e \in Tab, NEW q \in page[e].removals, Compose!ServeRemove(e, q)
  PROVE  ComposeInv'
<1>1. /\ ComposeTypes /\ page[e] \in PageState /\ page \in [Tab -> PageState] /\ typed \in Nat /\ lost \subseteq Tab
      /\ others \in [Tab -> SUBSET Nat]
  BY DEF ComposeInv, ComposeTypes
<1>2. PICK p, o, n : p = page[e] /\ o = others[e] /\ p \in PageState /\ n = q.id
  BY <1>1
<1>3. TabRight(e, p, o, e \notin lost) /\ Flow(p) /\ RowsRight(p) /\ CaptionsRight(p, o)
  BY <1>2 DEF ComposeInv, TabRight
<1>4. PICK state, q2 : /\ state = (IF items[n].live THEN "ok" ELSE "refused")
                       /\ q2 = [q EXCEPT !.state = state]
  OBVIOUS
<1>5. q \in Removal /\ q2 \in Removal /\ n \in Nat
  <2>1. q \in Removal
    BY <1>1 DEF PageState
  <2>2. state \in {"ok", "refused"}
    BY <1>4
  <2> QED BY <1>2, <1>4, <2>1, <2>2 DEF Removal
<1>6. PICK rs, p2 : rs = (p.removals \ {q}) \cup {q2} /\ p2 = [p EXCEPT !.removals = rs]
  OBVIOUS
<1>7. /\ p2 \in PageState /\ p2.phase = p.phase /\ p2.form = p.form /\ p2.edit = p.edit /\ p2.sent = p.sent
      /\ p2.step = p.step /\ p2.state = p.state /\ p2.todo = p.todo
  <2>1. rs \in SUBSET Removal
    BY <1>2, <1>5, <1>6 DEF PageState
  <2> QED BY <1>2, <1>6, <2>1 DEF PageState
<1>8. /\ page' = [page EXCEPT ![e] = p2] /\ UNCHANGED <<works, typed, lost>> /\ Compose!Wrote(e, n)
      /\ items' = [items EXCEPT ![n].live = FALSE]
  BY <1>1, <1>2, <1>4, <1>6 DEF Compose!ServeRemove
<1>9. items \in Seq(ItemState) /\ Len(items) \in Nat /\ DOMAIN items = 1 .. Len(items)
  BY <1>1 DEF ComposeTypes
<1>10. PICK item : item = [items[n] EXCEPT !.live = FALSE]
  OBVIOUS
<1>11. /\ items' \in Seq(ItemState) /\ DOMAIN items' = DOMAIN items
       /\ \A i \in DOMAIN items : i # n => items'[i] = items[i]
       /\ n \in DOMAIN items => items'[n].file = items[n].file /\ items'[n].caption = items[n].caption /\ ~items'[n].live
  <2>1. CASE n \notin DOMAIN items
    <3>1. items = [i \in 1 .. Len(items) |-> items[i]]
      <4> HIDE DEF ItemState
      <4> QED BY <1>9
    <3>2. items' = items
      <4> HIDE DEF ItemState
      <4> QED BY <1>8, <1>9, <2>1, <3>1
    <3> QED BY <1>9, <2>1, <3>2
  <2>2. CASE n \in DOMAIN items
    <3>1. items[n] \in ItemState
      BY <1>9, <2>2
    <3>2. item \in ItemState /\ item.file = items[n].file /\ item.caption = items[n].caption /\ ~item.live
      BY <1>10, <3>1 DEF ItemState
    <3>3. items' = [items EXCEPT ![n] = item]
      BY <1>8, <1>10
    <3>4. /\ items' \in Seq(ItemState) /\ DOMAIN items' = DOMAIN items /\ items'[n] = item
          /\ \A i \in DOMAIN items : i # n => items'[i] = items[i]
      <4> HIDE DEF ItemState
      <4> QED BY <1>9, <2>2, <3>2, <3>3
    <3> QED BY <3>2, <3>4
  <2> QED BY <2>1, <2>2
<1>12. /\ others' \in [Tab -> SUBSET Nat] /\ others'[e] = o /\ Quiet(o, o)
       /\ \A f \in Tab : f # e => Quiet(others[f], others'[f]) /\ (0 \notin others'[f] => 0 \notin others[f])
  <2>1. \A v, w : v \subseteq w => Quiet(v, w)
    BY <1>11 DEF Quiet
  <2>2. /\ others' \in [Tab -> SUBSET Nat] /\ others'[e] = o
        /\ \A f \in Tab : f # e => others'[f] = others[f] \cup {n}
    BY <1>1, <1>2, <1>5, <1>8, WroteIs
  <2> QED BY <2>1, <2>2
<1>13. RowsRight(p2)' /\ CaptionsRight(p2, o)'
  <2>1. RowsRight(p)' /\ CaptionsRight(p, o)'
    BY <1>1, <1>2, <1>3, <1>11, <1>12, RowsStay, CaptionsStay
  <2> QED BY <1>7, <2>1 DEF RowsRight, CaptionsRight
<1>14. TextRight(p2, o)'
  BY <1>3, <1>7, <1>8 DEF TabRight, TextRight, Renamed
<1>15. \A i \in DOMAIN items : items'[i].file = items[i].file
  BY <1>11
<1>16. /\ \A x : Copies(x)' = Copies(x)
       /\ \A i \in DOMAIN items' : items'[i].file =< typed'
  BY <1>8, <1>11, <1>15, SameCopies
<1>17. FilesRight(p2, e \notin lost)' /\ WorkRight(e, p2, e \notin lost)'
  <2>1. (Finished(p2) <=> Finished(p)) /\ Files(p2) = Files(p)
    BY <1>7 DEF Finished, Files
  <2>2. FilesRight(p2, e \notin lost)'
    BY <1>3, <1>7, <1>8, <1>16, <2>1 DEF TabRight, FilesRight
  <2>3. WorkRight(e, p2, e \notin lost)'
    BY <1>3, <1>7, <1>8, <2>1 DEF TabRight, WorkRight, Mine
  <2> QED BY <2>2, <2>3
<1>18. TabRight(e, p2, others[e], e \notin lost)'
  <2>1. Flow(p2)'
    BY <1>3, <1>7 DEF Flow
  <2> QED BY <1>2, <1>8, <1>12, <1>13, <1>14, <1>17, <2>1 DEF TabRight
<1>19. /\ typed' \in Nat /\ typed =< typed' /\ lost' \subseteq Tab
       /\ Files(p2) \subseteq Files(page[e]) \cup (typed + 1 .. typed')
       /\ works' \in Seq(WorkState) /\ Len(works') >= 1 /\ works'[1].by = "none"
       /\ DOMAIN items \subseteq DOMAIN items'
       /\ \A f \in Tab : f # e =>
            /\ f \in lost' <=> f \in lost
            /\ works'[1].text = works[1].text
            /\ Mine(f)' = Mine(f) /\ \A w \in Mine(f) : works'[w].text = works[w].text
  BY <1>1, <1>2, <1>7, <1>8, <1>11 DEF Files, ComposeTypes, Mine
<1> QED BY <1>7, <1>8, <1>11, <1>12, <1>16, <1>18, <1>19, OneTab

-----------------------------------------------------------------------------
(* Every step, and what it means.                                             *)

LEMMA ComposeInit == Compose!Init => ComposeInv
<1> SUFFICES ASSUME Compose!Init PROVE ComposeInv
  OBVIOUS
<1>1. /\ works \in Seq(WorkState) /\ Len(works) = 1 /\ DOMAIN works = {1} /\ works[1].by = "none"
  <2>1. PICK work : work = [text |-> 0, by |-> "none"]
    OBVIOUS
  <2>2. work \in WorkState /\ work.by = "none"
    BY <2>1 DEF WorkState
  <2>3. works = <<work>>
    BY <2>1 DEF Compose!Init
  <2> HIDE DEF WorkState
  <2> QED BY <2>2, <2>3
<1>2. items \in Seq(ItemState) /\ DOMAIN items = 1 .. FirstItems /\ \A i \in DOMAIN items : items[i].file = 0
  <2>1. PICK item : item = [work |-> 1, file |-> 0, caption |-> 0, live |-> TRUE]
    OBVIOUS
  <2>2. item \in ItemState /\ item.file = 0
    BY <2>1 DEF ItemState
  <2>3. items = [i \in 1 .. FirstItems |-> item]
    BY <2>1 DEF Compose!Init
  <2> HIDE DEF ItemState
  <2> QED BY <2>2, <2>3, ItemsCounted
<1>3. Compose!Nothing \in FormState /\ Compose!Nothing.files = {} /\ Compose!Nothing.existing = <<>> /\ Compose!Dirty(Compose!Nothing) = {}
  <2>1. Compose!Nothing \in FormState /\ Compose!Nothing.files = {} /\ Compose!Nothing.existing = <<>>
    <3>1. <<>> \in Seq(RowState)
      OBVIOUS
    <3> HIDE DEF RowState
    <3> QED BY <3>1 DEF Compose!Nothing, FormState
  <2>2. Compose!Range(<<>>) = {}
    BY DEF Compose!Range
  <2> QED BY <2>1, <2>2 DEF Compose!Dirty
<1>4. ASSUME NEW e \in Tab
      PROVE  /\ page[e] \in PageState /\ page[e].form = Compose!Nothing /\ page[e].sent = Compose!Nothing /\ page[e].step = "none"
             /\ page[e].todo = {} /\ page[e].state = "none" /\ others[e] = {}
             /\ \/ page[e].edit /\ page[e].phase = "loading"
                \/ ~page[e].edit /\ page[e].phase = "ready"
  <2>1. page[e] \in {Compose!Blank, [Compose!Blank EXCEPT !.edit = FALSE, !.phase = "ready"]} /\ others[e] = {}
    BY DEF Compose!Init
  <2>3. CASE page[e] = Compose!Blank
    BY <1>3, <2>1, <2>3 DEF Compose!Blank, PageState
  <2>4. CASE page[e] = [Compose!Blank EXCEPT !.edit = FALSE, !.phase = "ready"]
    BY <1>3, <2>1, <2>4 DEF Compose!Blank, PageState
  <2> QED BY <2>1, <2>3, <2>4
<1>5. page \in [Tab -> PageState]
  <2>1. page = [e \in Tab |-> page[e]]
    BY DEF Compose!Init
  <2> HIDE DEF PageState
  <2> QED BY <1>4, <2>1
<1>6. ComposeTypes
  BY <1>1, <1>2, <1>5 DEF Compose!Init, ComposeTypes
<1>7. ASSUME NEW e \in Tab PROVE TabRight(e, page[e], others[e], e \notin lost)
  <2>1. PICK p : p = page[e] /\ p.form.existing = <<>> /\ p.sent.existing = <<>> /\ p.form = Compose!Nothing /\ p.sent = Compose!Nothing
    BY <1>3, <1>4
  <2>2. Flow(p)
    BY <1>4, <2>1 DEF Flow
  <2>3. \A i \in DOMAIN <<>> : FALSE
    OBVIOUS
  <2>4. RowsRight(p) /\ CaptionsRight(p, {})
    BY <1>4, <2>1, <2>3 DEF RowsRight, Distinct, CaptionsRight
  <2>5. ~Finished(p) /\ ~Renamed(p) /\ Files(p) = {}
    BY <1>3, <1>4, <2>1 DEF Finished, Renamed, Files
  <2>6. Mine(e) = {}
    BY <1>1, NoneIsNoTab DEF Mine
  <2> QED BY <1>4, <2>1, <2>2, <2>4, <2>5, <2>6 DEF TabRight, TextRight, FilesRight, WorkRight
<1>8. \A e \in Tab : Files(page[e]) = {}
  BY <1>3, <1>4 DEF Files
<1>9. \A i \in DOMAIN items : items[i].file =< typed
  BY <1>2 DEF Compose!Init
<1> QED BY <1>6, <1>7, <1>8, <1>9 DEF ComposeInv

LEMMA ComposeStep == ComposeInv /\ [Compose!Next]_(Compose!pageVars) => ComposeInv'
<1> SUFFICES ASSUME ComposeInv, [Compose!Next]_(Compose!pageVars) PROVE ComposeInv'
  OBVIOUS
<1>1. CASE UNCHANGED Compose!pageVars
  <2>1. ComposeTypes' /\ (\A i \in DOMAIN items : items[i].file =< typed)'
    BY <1>1 DEF ComposeInv, ComposeTypes, Compose!pageVars
  <2>2. (\A e, f \in Tab : e # f => Files(page[e]) \cap Files(page[f]) = {})'
    BY <1>1 DEF ComposeInv, Files, Compose!pageVars
  <2>3. ASSUME NEW e \in Tab PROVE TabRight(e, page[e], others[e], e \notin lost)'
    <3>1. PICK p, o, clean : p = page[e] /\ o = others[e] /\ clean = (e \notin lost)
      OBVIOUS
    <3>2. TabRight(e, p, o, clean) /\ page'[e] = p /\ others'[e] = o /\ clean = (e \notin lost')
      BY <1>1, <3>1 DEF ComposeInv, Compose!pageVars
    <3>3. RowsRight(p)' /\ CaptionsRight(p, o)' /\ TextRight(p, o)' /\ WorkRight(e, p, clean)'
      BY <1>1, <3>2, SameData DEF TabRight, Compose!pageVars
    <3>4. FilesRight(p, clean)' /\ Flow(p)'
      BY <1>1, <3>2 DEF TabRight, FilesRight, Copies, Compose!pageVars
    <3> QED BY <3>2, <3>3, <3>4 DEF TabRight
  <2> QED BY <2>1, <2>2, <2>3 DEF ComposeInv
<1>2. ASSUME NEW e \in Tab, Compose!Load(e) \/ Compose!Submit(e) \/ Compose!Arrive(e) \/ Compose!GoesWrong(e) PROVE ComposeInv'
  BY <1>2, LoadStep, SubmitStep, ArriveStep, GoesWrongStep
<1>3. ASSUME NEW e \in Tab, Compose!ServeCreate(e) \/ Compose!ServeText(e) \/ Compose!ServeCaption(e) \/ Compose!ServeFiles(e) PROVE ComposeInv'
  BY <1>3, ServeCreateStep, ServeTextStep, ServeCaptionStep, ServeFilesStep
<1>4. ASSUME NEW e \in Tab, NEW q \in page[e].removals, Compose!ServeRemove(e, q) PROVE ComposeInv'
  BY <1>4, ServeRemoveStep
<1> QED BY <1>1, <1>2, <1>3, <1>4, FieldSteps DEF Compose!Next

(* What was sent is there.                                                    *)
LEMMA ComposeMeans == ComposeInv => Compose!SavedAsSent
<1> SUFFICES ASSUME ComposeInv, NEW e \in Tab, page[e].phase = "left", NEW s, s = page[e].sent
             PROVE  /\ \A f \in s.files : Compose!Stored(f) >= 1 /\ (e \notin lost => Compose!Stored(f) = 1)
                    /\ ~page[e].edit => Mine(e) # {} /\ (e \notin lost => Cardinality(Mine(e)) = 1)
                                      /\ \E w \in Mine(e) : works[w].text = s.text
                    /\ page[e].edit /\ 0 \notin others[e] => works[1].text = s.text
                    /\ \A m \in Compose!Range(s.existing) :
                         m.id \notin others[e] /\ items[m.id].live => items[m.id].caption = m.caption
  BY SameLibrary DEF Compose!SavedAsSent, Mine
<1>1. PICK p, o : p = page[e] /\ o = others[e]
  OBVIOUS
<1>2. TabRight(e, p, o, e \notin lost) /\ p \in PageState /\ Len(items) \in Nat /\ DOMAIN items = 1 .. Len(items)
  BY <1>1 DEF ComposeInv, ComposeTypes
<1>3. Finished(p) /\ Renamed(p) /\ p.todo = {}
  BY <1>1, <1>2, FlowIs DEF TabRight, Finished, Renamed
<1>4. ASSUME NEW f \in s.files PROVE Compose!Stored(f) >= 1 /\ (e \notin lost => Compose!Stored(f) = 1)
  <2>1. Copies(f) # {} /\ (e \notin lost => \E i : Copies(f) = {i})
    BY <1>1, <1>2, <1>3 DEF TabRight, FilesRight, Files
  <2>2. Copies(f) \in SUBSET (1 .. Len(items)) /\ Compose!Stored(f) = Cardinality(Copies(f))
    BY <1>2, SameLibrary DEF Copies, Compose!Stored
  <2>3. IsFiniteSet(Copies(f))
    BY <1>2, <2>2, Numbered
  <2>4. Cardinality(Copies(f)) \in Nat /\ Cardinality(Copies(f)) # 0
    BY <2>1, <2>3, FS_CardinalityType, FS_EmptySet
  <2>5. e \notin lost => Cardinality(Copies(f)) = 1
    BY <2>1, FS_Singleton
  <2> QED BY <2>2, <2>4, <2>5
<1>5. ~page[e].edit => Mine(e) # {} /\ (e \notin lost => Cardinality(Mine(e)) = 1)
                     /\ \E w \in Mine(e) : works[w].text = s.text
  BY <1>1, <1>2, <1>3, FS_Singleton DEF TabRight, WorkRight
<1>6. page[e].edit /\ 0 \notin others[e] => works[1].text = s.text
  BY <1>1, <1>2, <1>3 DEF TabRight, TextRight
<1>7. ASSUME NEW m \in Compose!Range(s.existing) PROVE m.id \notin others[e] /\ items[m.id].live => items[m.id].caption = m.caption
  <2>1. PICK i \in DOMAIN p.sent.existing : m = p.sent.existing[i]
    BY <1>1 DEF Compose!Range
  <2>2. Kept(p.sent.existing[i], o)
    BY <1>1, <1>2, <1>3 DEF TabRight, CaptionsRight
  <2> QED BY <1>1, <2>1, <2>2 DEF Kept
<1> QED BY <1>4, <1>5, <1>6, <1>7

(* However saves fail and are tried again, in whatever order the tabs of one album   *)
(* write, and whatever is typed, picked and removed meanwhile: a form that went on   *)
(* to its page left on the server what it last sent, other tabs' writes aside.      *)
THEOREM SavedRight == Compose!Spec => []SavedAsSent
<1>1. ComposeInv => SavedAsSent
  BY ComposeMeans DEF SavedAsSent
<1> QED BY ComposeInit, ComposeStep, <1>1, PTL DEF Compose!Spec

-----------------------------------------------------------------------------
(* The run's specification is that of its three parts, so each theorem above is     *)
(* about the run's behaviours, too.                                          *)
THEOREM ReadersCompose == MCSpec => Spec /\ Pages!Spec /\ Compose!Spec
<1>1. Scenes => Init /\ Pages!Init /\ Compose!Init
  BY DEF Scenes
<1>2. [Steps]_<<scene, vars, pageVars, formVars>> =>
        [Next]_vars /\ [Pages!Next]_(Pages!vars) /\ [Compose!Next]_(Compose!pageVars)
  BY DEF Steps, pageVars, formVars, Pages!vars, Compose!pageVars
<1> QED BY <1>1, <1>2, PTL DEF MCSpec, Spec, Pages!Spec, Compose!Spec
=============================================================================
