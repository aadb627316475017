# riposte-social in TLA+

A verification project for riposte-social, a self-hosted social site: one Rust
server (axum, SeaORM, PostgreSQL, an S3 store, an OIDC provider) and two React
front ends, one for readers and authors, one for administrators. The modules
here model the parts of it that have a protocol, TLC checks them on small
instances, and TLAPS proves what matters most for instances of any size.

Paths below are those of the repository (`src/...` for the server).

## 1. Inventory

| Part | State it keeps | Operations | What is hard about it | What makes it correct |
|---|---|---|---|---|
| **Invites and activation** (`src/invites`, `src/admin/auth/backend.rs`, `src/auth/handlers.rs`) | rows of `invite_codes` and `users`; a row lock; one of two sign-in modes per process | issue, revoke, expire; accept by password or by OIDC, binding a pre-made inert account or minting a new one | several requests redeem one code; rows are read before the transaction that relies on them; requests are dropped; the process restarts in the other mode | a code brings one account alive, the right one, once; an inert account stays redeemable |
| **Archive parser** (`src/imports/facebook/parser.rs`) | none | manifests to posts and albums, keys, albums-win, text repair, links | the same item comes again in the next export, changed; a text that only looks doubly encoded | nothing is imported twice or lost by a key or a rule; a text comes out as it was written |
| **Facebook importer** (`src/imports`) | rows of `import_job`, `posts`, `post_media`; objects in S3; futures of one spawned task | upload, scan, look-up of imported items, concurrent imports, progress, log, boot sweep | uploads and a transaction with failures between them; crash at any point; two jobs on one archive; read-modify-write of a JSON column | rows have their objects; items are imported once; a job's outcome is final and its counters add up |
| **Article composer** (`useArticleDraft.ts`, `ComposeArticle.tsx`) | fields, id, timer, retry count, pending and dirty flags, a promise chain, localStorage | edit, autosave, retry, Save, Publish, inline image, cover, leave | timers, answers and clicks in any order; an id many callers want; a channel beside the chain | one article; no edit forgotten; the last choice is what is published |
| **Articles** (`src/articles`) | `posts` with `article_details` | create, update, publish, delete, list | decisions on a stale `is_draft` | a draft is private, a publication is not undone |
| **Posts and media** (`src/posts`) | `posts`, `post_media` (unique post and ordinal), S3 objects, variants | compose, append, delete, caption, reorder, serve, feed | uploads before transactions, ordinals computed early, a reorder by two shifts | every row has its object; ordinals stay distinct; a refused append leaves nothing behind |
| **Albums and the forms of posts** (`src/albums`, `Compose.tsx`, `ComposeAlbum.tsx`) | posts of kind album and their media; what is on a form | create, update metadata and order, append, caption, remove; save as a chain of requests, save again | a chain that stops half way and is sent again whole; removals beside it; two pages on one album | what was submitted last is what is stored, each file once |
| **Accounts** (`src/admin/auth/backend.rs`, `src/admin/users.rs`, `src/admin/handlers.rs`) | `users`: password, TOTP, MFA failures and lock, reset and verification tokens, active flag, role | sign-in, MFA, reset, verify, deactivate, change role | counters and last-administrator checks read before they are written; token cooldowns on an expiry | wrong codes are bounded; a token resets once; an administrator remains |
| **Visibility and categories** (`src/visibility`, `src/categories`) | visibility tiers, categories, members | listing predicate, row predicate, member changes | the same rule in SQL and in Rust; membership replaced as a whole | a page never shows what a listing hides, and the other way round |
| **Engagement and moderation** (`src/engagement`, `src/admin/moderation.rs`) | comments, reactions | add, edit, soft-delete, react, bulk delete | checks on a post that changes before the write | one reaction per user and target; nothing new on a deleted post |
| **Lists** (`Feed.tsx`, `Articles.tsx`, `posts/queries.rs`) | rows shown, a cursor, a filter | open, load more, switch the filter | pages of a list that changes, answers to another filter | no hole, no row twice |
| **Follows** (`src/follows`) | pairs | follow, unfollow, paged lists | keyset pagination over a changing list | no pair twice |
| **Profiles** (`src/profile`) | handle, avatar object, locale | patch, upload and delete avatar, mint handle | row and object replaced in two steps | the row's avatar exists; handles are unique |
| **Settings** (`src/settings.rs`) | key, category, entity | get, upsert | read, then insert | one row per key |
| **Subscriptions, contact, orders** | subscribers with tokens; access log as cooldown; phone look-ups | subscribe, verify, send, order | cooldown written after the action it limits | mail goes out once per window |
| **Access codes** (`src/admin/access_codes.rs`) | rows, files in S3 named after the code | create, delete, serve | uploads before the unique insert | a code's files exist |
| **Sign-in and sessions** (`src/auth`, `src/middleware/admin_auth.rs`, `src/admin/handlers.rs`) | the session's record, cookies | sign in by password or OIDC, MFA, change of password, gates, log-out | a record read at the start of a request and written back at its end; rows that change in between | a session is worth the credentials it was made with |
| **Mail, rendering, secrets, schema** | none, or kept by the database | | | out of scope, see section 7 |

The parts meet in the tables (`users`, `posts`, `post_media`), in the object
store, and in calls within one handler. Server handlers run concurrently on a
multi-threaded runtime; PostgreSQL runs READ COMMITTED, so each statement
outside a transaction is a step of its own. A handler's future is dropped when
its client goes away; a spawned task lives as long as its process.

## 2. Plan

Written in this order, the most important protocol first:

1. `Invites` with the abstract `InviteRegistry`, and `InvitesProofs`;
2. `FacebookImport` and `FacebookImportProofs`;
3. `ArticleDraft`, which composes the composer and the server's article handlers,
   and `ArticleDraftProofs`;
4. `Credentials` and `Administrators`, with their proofs: the parts of the
   accounts where several requests meet on one row, or on the set of them;
5. `PostMedia`: attachments of posts and albums, their ordinals and objects;
   `Files`: the same row-and-object protocol for avatars and access codes; both
   with their proofs;
6. `Audience`: the two predicates as operators, compared over every viewer, tier
   and category, with categories' members changing under the readers;
   `FeedPages`: a list's cursor over changing rows; their proofs, with those of
   `ComposePages`, in `ReadersProofs`;
7. `Reactions` and `Comments`, each with the page that calls the handlers, and
   `EngagementProofs`;
8. `Forms`: contact, newsletter and orders, their cooldowns and tokens;
   `Sessions`: a browser's session and the gates; both with their proofs, which are
   in `ServicesProofs` with those of `Administrators` and `Files`;
9. `ComposePages`: the forms of posts and albums with their chains of requests;
   `Archive` and `ArchiveText`: what the importer makes of an archive.

What is left, in this order: the abstract specification of `PostMedia` (a map from
post to a sequence of stored attachments) and the refinement; several accounts in
one browser for `Sessions`; profiles' handles; settings' `upsert`.

Each module takes its sets as CONSTANTS with named assumptions, has an action per
operation and no RECURSIVE operator, so that theorems can be proved about it.
Modules that share no state are put side by side in one MC module as scenes: a
variable `scene` says which of them a behaviour is about, and the others rest in
one initial state each. `MCArchive`, `MCReaders`, `MCServices` and `MCEngagement`
are made so; a run of theirs is the runs of its scenes, one after the other.

## 3. Modules

### Invites, InviteRegistry, InvitesProofs, MCInvites

`Invites` keeps a function or set per column of `invite_codes` and `users`, the
sign-in mode of the process, the invites' row locks, and for each acceptance
request where it is (`pc`) and what it has read (`claim`). A request is
`idle`, `validated` (`validate_invite_code` said yes), `prepared` (a flow's
checks passed), `locked` (`lock_unused_invite` inside the transaction) and then
commits or is rejected. A request with a subject came through the OIDC callback,
one without through the password form.

| Code | Action |
|---|---|
| `create_invite`, `create_admin_user`, `bootstrap-admin`, `register` | `CreateInvite`, `CreateAdminUser`, `Register` |
| `revoke_invite` | `RevokeRead`, `RevokeWrite`: two statements |
| the clock, the setting, `deactivate_user`, `reactivate_user`, `update_admin_user` | `Expire`, `SetInvitesEnabled`, `Deactivate`, `Reactivate`, `ChangeRole` |
| `accept_invite_password`, `oidc_callback` | `AcceptPassword`, `OidcCallback` |
| the four acceptance flows up to their transaction | `PrepareBind`, `PrepareMint` |
| `lock_unused_invite` | `LockInvite` |
| the rest of the transaction, with `mark_used` | `CommitBind`, `CommitMint` |
| `change_password` (an administrator's or one's own), `reset_password_with_token` | `SetPassword`, on any row |
| every refusal; a dropped or failed handler; a restart | `Reject`, `Abort`, `Restart` |

Inside the transaction only the lock and the commit can be told apart by anybody
else. Reads between `validated` and `prepared` are one step: the flow reads one
row by its primary key or unique index, and what it compares it with is in the
claim. No writer of a password's hash looks at `oidc_sub` or at the row's state, so
`SetPassword` may come at any time and on any row, live or inert, bound or not; what
lets a request do it (a session, a reset token) only narrows when. `credential` says
of a hash where it comes from: "chosen" for one written on a row without a subject,
the marker `oidc_user`, and "late" for one written over the marker, which the row
keeps and nothing reads. The rest of account administration is bounded to rows that
are still inert, since no acceptance reads those columns of the others. `main.rs` can
also seed an administrator for tests (675-770); that is not modelled.

`InviteRegistry` is the promise: an invite is handed out once, redeemed at most
once, and its redemption brings one account alive that was not. `Invites`
implements it with `holder <- usedBy` and `live <- activated`.

### FacebookImport, FacebookImportProofs, MCFacebookImport

A job is one upload of the same archive. `status`, `progress` and `log` are the
columns of `import_job`; `worker` is where the handler and then the spawned task
is; `item` is the state of each item's future (waiting, uploading, erred,
logging, ready, consumed); `already` is what the two look-ups found; `tally`
the atomics. `posts` and `objects` are the committed attempts and what is in S3.
Three history variables record which jobs overlapped, which objects a crash or a
failing delete left, and which were left by an attachment that did not decode.

| Code | Action |
|---|---|
| `create_facebook_import`, dropped between its INSERT and its spawn | `CreateFacebookImport`, `CreateDropped` |
| `run_facebook_import` outside its streams | `MarkRunning`, `Scan`, `DedupPosts`, `DedupAlbums`, `StreamEnds`, `FinalFlush`, `WorkerFails` |
| `finish` | `Finish`, whose own failure is ignored as in the code |
| the futures of `buffer_unordered(IMPORT_CONCURRENCY)` | `Skip`, `Start`, `Upload`, `DecodeFails`, `ImportFails` with `Rollback`, `Insert`, `ReadLog`, `WriteLog` |
| the loop over outcomes | `Consume` |
| process death, boot, `sweep_stale_running_jobs` | `Restart` with `Sweep` |

Of the log lines only "started", "finished" and the items' failures are kept;
the others are written in the same places by the same function. An S3 put or a
COMMIT either happens or fails; one whose outcome is unknown is not modelled,
nor is a panic of the worker.

### Credentials, CredentialsProofs, MCCredentials

One account's row: the second factor with its counter and lock, the reset token
whose expiry doubles as the cooldown, the verification link, and the flags. A
request is at one place (`pc`) and holds what it read (`seen`) or was given
(`claim`). Tokens are identities; that a row's token has not expired is a flag
beside it, which the clock takes down. `reset_password_with_token` compares the
expiry with a time taken before its locked read: a request whose hour is over when it
takes the time is `late`, and only a token stored after that is `InTime` for it. The history variables count what the
properties speak of.

| Code | Action |
|---|---|
| `mfa_verify`, `forgot_password_verify_mfa` up to the code | `MfaVerify`, `ForgotPassword` |
| `record_mfa_failure`: find, update | `WrongCode`, `RecordFailure` |
| `reset_mfa_failures`; its 24 hours | `RightCode`; `LockRunsOut` |
| `create_password_reset_token`: find, update | `CheckCooldown`, `MintReset` |
| `validate_reset_token`, the hashing, the transaction | `ValidateReset`, `TakeTime`, `ResetPassword` or `RefuseReset` |
| `verify_email`: find, update | `OpenLink`, `VerifyEmail` |
| `update_totp`, `update_admin_user`, `regenerate_verification_token`, `deactivate_user`, `reactivate_user` on this row | `EnableMfa`, `DisableMfa`, `ResetLockout`, `SetVerified`, `ResendLink`, `Deactivate`, `Reactivate` |

Operations whose write does not depend on what they read, other than the guard,
are one step. Left out: which password is in force, the forced change of an
assigned one, and the session's own mark that its second factor was verified.

### Administrators, ServicesProofs (a scene of MCServices)

The columns `active` and `role` of all accounts, live sessions, and requests of
administrators about others. `deactivate_user` is its three statements
(`FindTarget`, `CountAdmins`, `SwitchOff`); `SwitchOn`, `AssignPassword`,
`WriteRole` are the rest of `update_admin_user`, `Refuse` every error in between,
after which what has been written stays. `disturbed` records that the active
administrators changed between a deactivation's look and its write.

### ArticleDraft, ArticleDraftProofs, MCArticleDraft

The five editable fields are one version number; visibility is kept beside it,
because the server rewrites it. `chain` is `writeChainRef` as a queue of tasks,
its head with a request under way; `timer`, `attempt`, `pending`, `dirty` and
`shadow` are the refs and localStorage. Two channels carry requests: the chain's,
and the cover buttons', which go around it. On the server a PATCH is two steps,
`ReadArticle` and `UpdateArticle`, because `update_article` reads `is_draft`
before its transaction and decides on it.

| Code | Action |
|---|---|
| `setField` and what follows from it | `Edit`, `PickVisibility`, `InsertImage` |
| `handleSaveDraft`, `handlePublish`, `handleInlineImage`, `handleCoverChange`, `handleRemoveCover` | `ClickSave`, `ClickPublish`, `DropImage`, `ChooseCover`, `RemoveCover` |
| `flushPatch`: up to its await, after it | `TimerFires` with `Flush`; `AutosaveDone`, `AutosaveFailed` with `Refire`, `BackOff` |
| `runExclusive`, `mintDraft` | `StartPatch`, `StartMint`, `MintKnown`, `MintDone`, `MintFailed` |
| the ends of Save and Publish, unmount | `SaveDone`, `PublishDone`, `ClickFailed`, `Leave` |
| `uploadCover`, `removeCover` | `CoverUploaded`, `CoverAnswered` |
| `create_article`, `update_article`, the network | `CreateArticle`, `ReadArticle`, `UpdateArticle`, `RequestFails` |

Assumed: one tab; a title is there; at most one image and one cover upload at a
time; a promise continuation (`Start`) runs before any other event, as
microtasks do; a request that fails was either done or dropped by the server by
the time its caller learns of it. Fields stay editable during a publication, as
on the page, where only the buttons are disabled.

### PostMedia, PostMediaProofs, MCPostMedia

One post or album: its rows of `post_media` as a function from ids to ordinals,
its objects, and requests of its author served at once. `lost` and `left` record
rows whose COMMIT was answered by an error, and objects whose removal failed or
was never reached, or whose put was answered by an error, so that the roll-back's
list does not have them (`src/posts/media/upload.rs:57-72`).

| Code | Action |
|---|---|
| `create_post`, `create_album` with files: `commit_compose` | `Compose`, `Upload`, `Insert`, `CommitLost`, `UploadFails`; `PutLost`, a put that is done and answered by an error |
| `append_media`: the next ordinal, the body, the uploads, the transaction | `BeginAppend`, `PlanAppend`, `Upload`, `Insert`, `InsertConflicts` |
| `rollback_uploads` | `RollbackOne`, `RollbackDone` |
| `delete_media` | `DeleteMedia`, `DeleteObject` |
| `reorder_media`: the checks, then two passes of updates in a transaction | `Reorder`, `CheckCover`; `TwoPhases` with `ReorderCommits`, `ReorderAborts` |
| `update_album` with a cover; `update_album_media` | `ListForCover`; `UpdateAlbumMedia` |
| `delete_post`; refusals; a dropped handler | `DeletePost`; `Refuse`; `Drop` |

Ordinals have the width of three bits and wrap, the offset of the reorder is
scaled with them. A transaction is one step at its COMMIT: it writes rows by id,
and the unique index makes a later one wait for it.

### Files, Forms, Sessions, ServicesProofs, MCServices

`Files` is an avatar (`PutAvatar`, `FindUser`, `UpdateUser`, `DeletePrevious`: the
new object first, the row, then the old object) and an access code with its two
documents (`CheckCode`, `PutIndex`, `PutDocument`, `InsertCode` or `InsertFails`
with `CleanIndex`, `CleanDocument`; `FindCode`, `DeleteCode`).

`Forms` is a clock, the access log, subscribers, the cache of numbers and the
submissions. `Admit` is the cooldown's look at the log, `SendMail` the mail,
`LogAttempt` the line that is written after it, as far as `logging` admits it.
`AskService`, `ServiceAnswers`, `KeepAnswer`, `UseCache`, `PassUnchecked` are the
look-up of an order's number, `PlaceOrder` the order.

`Sessions` is one account, one browser and the requests of its session. A
request reads the record at its arrival (`Arrive`), meets the account in
axum-login's layer (`Recognise`), passes or not the gates of its route (`Enter`),
does its handler's steps, and writes the whole record back when it changed it
(`Respond`, `Store`), as tower-sessions does; two requests of one browser can
therefore undo each other's writes. The hash in the record is compared with one
of the row's password, secret and e-mail at every recognition. Others change the
row beside it (`OtherPassword`, `DisableFactor`, `DeactivateUser`,
`ReactivateUser`), a session can expire, and the cookie of a pending invite comes
and goes. The role is fixed in a behaviour. The two libraries are outside the
repository and modelled from how the code uses them.

### Audience, FeedPages, ComposePages, MCReaders, ReadersProofs

`Audience` is the tables that say who may read what. `FeedCondition` is the SQL
of `feed_condition` on one row, `PermitsRead` the method of that name;
`AccessibleCategories` what both take the caller's categories from. A reading
request is its statements: `FindRow`, `FindCategory`, and `Serve` or `Refuse` with
the caller's categories read last; `GrantArticle` and `ServeArticle` are
`get_article`, which reads the details after it. The other actions are the
handlers that write posts, categories, members and roles. `replace_members` is
`TakeUpList` (the DELETE, which locks the rows it meets) and `ReplaceMembers`
(the INSERTs and the COMMIT). `ever` and `public` of a request record whether its
caller, or everybody, has been entitled at some instant since it came.

`FeedPages` is the page's state (`filter`, `posts`, `cursor`, `hasMore`, `loading`)
and its requests: `Open` is the effect that runs at a change of filter, `LoadMore`
the button, `AnswerPage` the server's query behind the cursor, `ShowPage` what the
page does with an answer, whichever filter it is to. A request of an earlier filter
disturbs the list when it ends, whichever way: its answer is shown among the rows of
the new filter, and if it fails instead, the `finally` that clears `loading` opens
"load more" while the new filter's own page is still on its way, so that the same
cursor is asked for twice and its page is listed twice. `stale` (`Late`) records that
one has ended, and what is said of the list is said until then. The second of the two
takes four requests, one more than the run has; it was the proof that showed it.

`ComposePages` is the form of a new post or album, or of an album that is edited:
`Load`, typing, `AddFile`, `Submit`, and then one request after the other
(`ServeCreate`; `ServeText`, `ServeCaption`, `ServeFiles`), each with its answer
(`Arrive`) or failure (`GoesWrong`: the request was done or was not, the form is
ready again with everything on it). `RemoveItem`, `ServeRemove`, `Removed`,
`RemoveFails` are the button on an item, which works beside all that and takes
the row off the form by the index it had. A new file's caption travels with the
file; a name is never empty; the limit of media is not kept.

### Reactions, Comments, MCEngagement, EngagementProofs

`Reactions` is the rows, a bar per user (or two) with what it shows, and the click
it is busy with: `Click` shows the outcome, then `Gate` (`load_visible_post`),
`WriteReaction`, `ReadCounts`, `ReadMine` (the two reads of the answer) and `Arrive`
for the removal and again for the addition; `CallFails` takes the bar back to its
props. A bar in a lightbox moves between pictures (`Move`) and loads (`LoadCounts`,
`LoadMine`, `LoadArrives`, `LoadFails`). A bar under a comment or on a profile can
`Leave` and `Return`: an edit puts a form where the comment and its bar were, another
tab takes the posts away. What returns is a new bar that starts from the entry of the
list, which no click has changed since it was loaded, or which the answer of an edit
has replaced by one without counts or kinds (`Blank`). `stale` records bars that came
back with other kinds than the server has, `clicked` those that were then clicked.
A returning bar waits for the click that was under way when it left; in the page it
need not, so that bar counts as crossed. A list that is loaded anew makes new bars.

`Comments` is the rows and the threads that show them. `Submit` with `GateCreate`
and `InsertComment`; `Edit` with `FindComment` and `SaveEdit`; `Delete` with
`FindComment` and `SoftDelete`; the moderators' `BulkDelete`; `Arrive` puts an
answer into the list, in whatever order answers come.

### Archive, ArchiveText, MCArchive

`Archive` is the account at Facebook (`WritePost`, `StartAlbum`, `AddPhoto`, `Touch`)
and uploads of its export (`Upload`), each with some of the manifests not
decoding. `NormalPost`, `NormalAlbum`, `ExternalId`, `Suppressed`, `Known` are
`normalize_post`, `normalize_album`, `compute_external_id`, the albums-win rule and
the look-ups of `run_facebook_import`, whose inserts are `FacebookImport`'s matter:
here an upload is imported as a whole. A hash is the tuple it is made of.

`ArchiveText` takes every short text through the exporter (`Export`: each byte of
its UTF-8 becomes a character) and the parser (`Import`: `Trim`, `FixMojibake`, then
`WrapBareUrls` with `Kept`, which is `trim_url_punctuation`). Its recursions are recursive
functions, so that they can be proved about (`Count` counts places instead).

## 4. Runs

| Run | Instance | Checks | Result |
|---|---|---|---|
| `invites` | 2 invites, 2 accounts, 2 addresses, 1 subject, 2 tiers, 2 requests | the safety properties, `DeadStaysDead`, refinement of `InviteRegistry` | holds, 1.1 million states |
| `invites_live` | the same with 1 invite | `AcceptanceAnswered` | holds, 66,004 states |
| `import` | 2 jobs on 1 post and 1 album of 1 picture each, concurrency 2; an account of up to 3 posts, albums and changes, 2 pictures, 2 uploads; texts of up to 4 of 10 code points | `RowsHaveObjects`, `ImportedOnce`; `ArchiveKept`; `TextRestored` | holds, 1.0 million states |
| `import_one` | 1 job on an empty post, a post and an album of 2 pictures, after a job that died when it had imported any of them | `OrphansExplained`, `SucceededAccounts`, `WorkersEnd` | holds, 16,376 states |
| `import_log` | 1 job, without an earlier one | `LogOnlyGrows` | **violated** |
| `draft` | 2 tiers, 2 edits, 2 failures, 1 retry | `OneArticle`, `DraftsStayPrivate`, `LastChoiceWins`, `EventuallySaved` | holds, 611,483 states |
| `credentials` | 2 requests, 3 tokens, lock after 3, 1 lapse of the lock | `TokenSpentOnce`, `WrongCodesBounded`, `MailsPerWindow`, `DeactivationRevokes` | holds, 2.0 million states |
| `media` | 2 requests, 3 attachments, 1 fault, ordinals of 3 bits | `RowsHaveObjects`, `ObjectsAccounted`, `CoverStays`, `ReorderSucceeds` | holds, 809,908 states |
| `readers` | every content of 1 row and 1 category for 2 users, 1 reader, 1 write; 2 member lists at once; 3 rows on pages of 1, 3 requests, 1 change; 2 forms, 2 items, 2 things typed, 1 failure | `ListingAgreesWithPage`, `ServedWasReadable`; `NoMixedLists`; `ListFollowsRows`; `SavedAsSent` | holds, 852,685 states |
| `readers_drafts` | as `readers`, without forms | `DraftsAreInvisible` | **violated** |
| `services` | 3 accounts and 2 requests of administrators; 3 requests on an avatar and a code; 2 submissions and 3 ticks; 3 requests of a browser | `AdministratorsRemain`; `RowsHaveFiles`; `MailsSpaced`, `OrdersVetted`; `SessionsHold` | holds, 809,578 states |
| `engagement` | 2 users, 2 bars (one goes and comes back), 2 items, 2 kinds, 2 clicks; 2 threads, 2 calls, 2 comments, 3 writes; 1 event | `RestingBarIsRight`, `OneKindUnlessDisturbed`; `OwnCommentsRight` | holds, 1.5 million states |

What the properties say, in the modules' own comments. In short:

* `SingleUse`, `HintIsKept`, `InertRowsRedeemable`, `OneCredentialEach`,
  `CredentialsSettle`, `DeadStaysDead`: who an invite brings alive, once, with
  which credential, and what stays true of it afterwards. `OneCredentialEach` does
  not say that a row bound to SSO holds no password, which would be false: it says that
  none from before the binding is left there, and that no row that signs in by
  password holds the marker.
* `RowsHaveObjects`, `ImportedOnce`, `OrphansExplained`, `SucceededAccounts`,
  `WorkersEnd`: what an import leaves in the tables, in the store and on its job,
  whatever fails.
* `ArchiveKept`: no picture an upload has met is missing from what was imported,
  but those that came to an album or a post after its import, and an album is
  imported once however it grows. `TextRestored`: the repair of the encoding is
  the inverse of the exporter on every text, ASCII, foreign or mixed, but for the
  blanks around it, and a link with balanced brackets comes out whole. It excepts
  the texts whose last byte `trim` takes for white space (section 5).
* `OneArticle`, `DraftsStayPrivate`, `LastChoiceWins`, `EventuallySaved`: what the
  composer owes its author. The two exceptions they name (`midMint`, `raced`) are
  the two defects of section 5.
* `RowsHaveObjects` of `PostMedia`, `ObjectsAccounted`, `CoverStays`,
  `ReorderSucceeds`: rows and objects of a post, and what the early read of the next
  ordinal and the early check of a reorder can do: an append that has read too
  early is refused or goes behind the cover it had seen, and a checked reorder
  meets the unique index only for one of the three reasons named, an attachment that
  came or went since the check among them.
* `ListingAgreesWithPage`, `ServedWasReadable`, `NoMixedLists`: the two predicates
  are one; reads spread over several statements serve nothing that was not
  readable at some instant, unless the row or the role itself changed; lists of
  members sent together are not mixed.
* `ListFollowsRows`, `SavedAsSent`: what is on the reader's and the author's
  screen against what is in the tables.
* `RestingBarIsRight`, `OneKindUnlessDisturbed`, `OwnCommentsRight`: a bar or a
  thread nothing of which failed or crossed shows what the server has. The first two
  except a bar that came back with other kinds than the server's, until its next
  click is answered, and a bar that was clicked so (section 5).
* `RowsHaveFiles`, `MailsSpaced`, `OrdersVetted`, `SessionsHold`: rows against
  their files, mails against the log that limits them, orders against the
  service's answers, sessions against the credentials they were made with. Each
  names what it leaves out: requests on one code that overlap, submissions that
  overlap or that the log missed. What is left of `MailsSpaced` is the cooldown's
  boundary against the age at which the log is cleaned up.
* `TokenSpentOnce`, `MailsPerWindow`, `DeactivationRevokes`: what reset tokens
  and links are good for. `WrongCodesBounded` puts a number on the lost updates
  of the failure counter, as a formula in the requests and the threshold: one
  request at a time gets three wrong codes before the lock
  (`src/admin/auth/backend.rs:276`), two at once get seven, three twelve, no more.
* `AdministratorsRemain`: "Cannot deactivate self or the last active admin"
  (`src/admin/auth/backend.rs:309`), with the two ways around it named: a change
  of role, which no check guards, and a deactivation during whose count and
  write another request changes who administers.

Bounds. Two requests and two invites are the fewest with which an acceptance
can race another on the same code and on the same account; a third request would
add a waiter that behaves like the second. Two jobs are the fewest that overlap
or follow one another; one picture each is enough for rows against objects, two
pictures for a partial upload (`import_one`, where the job that died only leaves what
it had imported, so that items are skipped). The log's cap is one or two, so
that trimming happens; the flush interval is two in `import_one`, so that a count
is left over for the final flush, and three in the other, which has no use for it. On an account, two
requests are the fewest that lose an update, and three tokens the fewest that
could break the cooldown; the counter stops at four, one past the lock, where
requests that were let in before the lock can still take it; further values
behave like the fourth (a run up to six and two lapses gives the same seven).
Three accounts leave one that neither of two requests is about. Two edits are the fewest where one is in flight and one is
newer; one retry is enough to reach the end of the schedule. Three attachments
and two requests let an append cross a reorder of two. One write beside a reader,
whose initial state is any at all, is every change of one row between two reads.
Three pages of one row have a middle; two things typed on two forms let a save be
repeated with a caption and a file. Three changes let an album start, grow and be
touched, or two posts cross an album. Four code points hold a link in brackets
with something foreign in it; one of the ten code points ends in a byte that is a blank. Three ticks let every cooldown and life run out.
Three requests of a browser are a sign-in, a change and one that uses the session. Deadlock checking
is off in all runs: the bounded instances run out of ids, jobs and edits.

Fairness. `Invites`: a handler that nobody drops runs on (weak fairness of
`Accept`), and PostgreSQL queues the waiters for a row lock (strong fairness of
getting it or being refused); `Abort` and administrators owe nothing.
`FacebookImport`: a spawned task is polled while its process lives (weak
fairness of `WorkerStep`). `ArticleDraft`: timers fire, settled promises run,
uploads end, the server answers; authors and failures owe nothing.

## 5. What the violated runs show, and other disagreements

* `import_log`: `append_log` rewrites the column from what it read, trusting
  that there is no concurrent writer (`src/imports/mod.rs:126-128`); the items of
  a batch are.
* `readers_drafts`: "a draft is invisible to everyone except its author"
  (`src/articles/handlers.rs:228-234`) is asked by `get_article` only; the pictures of
  a draft that is filed in a category are served by the category's audience,
  which overrides the visibility a draft is pinned to.

The following disagree with a comment or a document as well and have no run of
their own; where a formula is named, the module states it and TLC violates it:

* "If already used or revoked, revocation is a no-op"
  (`src/invites/handlers.rs:147`) is decided on an earlier read
  (`RevokingUsedIsNoop` of `Invites`).
* The importer's roll-back is skipped when an attachment does not decode
  (`src/imports/facebook/insert.rs:114`, `257`; `NoOrphans` of `FacebookImport`).
* Fields changed while the composer's first create is under way are only in
  localStorage, which the create's answer clears (`LeavingDropsNothing` of
  `ArticleDraft`).
* A cover request goes around the write chain, and the server pins a row to
  private from a stale `is_draft`: the article just published is private
  (`PublishWins`).
* "A user only ever has one kind per target" (`ReactionBar.tsx:49-51`) is kept by
  the order of the bar's two requests, not by the unique index, which has the kind
  in it: two bars of one user, or a failed removal, leave two kinds.
* A bar that comes back is not what the server has. `edit_comment` answers with an
  empty engagement (`src/engagement/comments.rs:282`), which the thread puts into the
  bar's props (`CommentThread.tsx:125`); and an edit, saved or cancelled, or a
  profile's tab mounts a new bar with the list's old props. It shows no kind, or an
  old one, where its user has another; the next click on another finds nothing to
  remove and adds a second kind. The same comment of `ReactionBar.tsx` says that the
  server's response is authoritative (52-53).
* A text whose last byte is 0x85 or 0xA0 stays as it was exported: `trim`
  (`src/imports/facebook/parser.rs:410`, also 373 and 381) takes the byte off before
  `fix_facebook_mojibake` can read it. Such are texts that end in "à" or "Å", in many
  other characters, or in a no-break space.
* A row bound to an SSO subject can get a password: an administrator's `new_password`
  (`src/admin/users.rs:216-238`) and the reset of a forgotten one
  (`src/admin/auth/backend.rs:395-532`) do not look at `oidc_sub`. The hash is never
  read (`backend.rs:636-641`): the reset answers that it was done, and the new password
  does not sign in.
* `ENABLE_ACCESS_LOGGING` and `LOG_SUCCESSFUL_ATTEMPTS` (`README.md:228-230`) read
  like switches of a log; they also switch off the cooldown of 24 hours that is
  read from it (`src/subscriptions/handlers.rs:100`). `MailsSpaced` therefore
  speaks of `logging = "all"` only.
* An album that has grown since its import has its old key and is skipped as
  already imported, while the albums-win rule drops the posts that carry its new
  pictures: these never arrive. `ArchiveKept` leaves them out (`outgrown`).
* `deleteExistingMedia` (`ComposeAlbum.tsx:219`) takes an item off the form by the
  index of when it was asked; with two removals under way another item's row goes,
  with the caption typed into it. An item whose caption was changed and that was
  removed elsewhere makes every later save of the form stop at its caption (404).
* `refresh()` after one category is saved (`Categories.tsx:68`) resets what is typed
  in the other rows; not modelled.

## 6. Proofs

Every theorem is about the specification its run checks, for every value of the
constants that its assumptions admit. The assumptions are named in the module that
declares the constants; TLC evaluates them in each run.

`InvitesProofs`, for every set of invites, accounts, addresses, subjects, tiers and
requests: `TypeOK`, `SingleUse`, `InertRowsRedeemable`, `HintIsKept`,
`OneCredentialEach`, `CredentialsSettle`, `DeadStaysDead` and that `Invites`
implements `InviteRegistry`. Assumed: the two named tiers are tiers, NULL is no
value, and the hash of a typed password is neither the marker of an OIDC account nor
one written over it (`HashIsNoMarker`). `SingleUse` is not inductive: that a commit may consume an
invite rests on `LockInv` (who is `locked` holds the row, and the row is unused),
`ClaimInv` (what a request has read of columns that never change is still true) and
`RowInv` (rows point at issued invites, with their address or none).
`OneCredentialEach` needs of the rows that one which is not alive has no subject
(`ModeInv`): a password set while a binding is under way is overwritten by its commit,
and one set later is told from it. `CredentialsSettle` lets a password change write the
hash of a live account, and nothing else. The
refinement, `CredentialsSettle` and `DeadStaysDead` are action properties, proved
from the same invariant: a step that redeems finds its invite unused and its row
inert.

`FacebookImportProofs`, for any number of jobs, a finite archive, any attachments,
concurrency and flush interval: `TypeOK`, `RowsHaveObjects`, `ImportedOnce`,
`OrphansExplained`, `SucceededAccounts` and `TerminalIsFinal`. The invariant adds
`StreamInv` (items move only while their worker streams), `RowInv` (a committed
item never starts over), `ObjectInv` (what an uploading item has is in the store),
`StatusInv` (a terminal job has no worker) and `DedupInv` (what another job
committed is either known to a streaming worker or was committed beside it). On top
of it, `OwnerInv` names an owner for each object (a row, an upload under way, a
crash or a failure that is recorded), and `BookInv` balances the books of a job:
what the atomics and the column count against the outcomes taken so far
(`TallyOf`), an item's outcome against the look-up and the table (`OutcomeOf`), the
stream against the place the worker is at (`PhaseOf`).

It also proves `ArchiveKept` of `Archive`, for any pictures, texts, changes and uploads
and any dates that are numbers (`DatesAreNumbers`). That no picture is dropped needs no
invariant: what an upload has met it inserts, or knows, or it suppresses a post whose
pictures an album brings that is met by the same upload. That an album is imported once
rests on `KeysStay`: the key in an album's row is still the key of the album, since its
first picture is no younger than those behind it (`AlbumsOk`) and neither it nor the
name changes, so its key is that of its first picture (`KeyOfDated`).
Last comes `TextRestored` of `ArchiveText`, for texts of any length over any characters
(`PointsAreCharacters`: numbers below 1114112 that are no surrogates). What the parser
computes on a text is a recursion along it, and the library's induction theorems take an
operator the provers cannot instantiate. So induction is stated about sets: `Induction`
takes the least number outside a set (`WFMin`), `Backwards` goes from a text's end to
its first character, and `Recursion` builds, rank by rank, a solution of any definition
whose step looks only at smaller ranks. `DecodedObeys`, `FlattenObeys`, `KeptObeys`,
`UnwrappedObeys` and `WrapObeys` apply it: each recursive function obeys the equation it
is written as. From there

* `MojibakeUndone`: a character's bytes are read as that character (`BytesAre`,
  `CharacterDecodes`), the bytes of a text are those of its characters at the places
  they are laid at (`Utf8Lays`), so they decode to the text (`Utf8Decodes`); a text with
  a character beyond ASCII has more bytes than characters and a byte beyond ASCII, so the
  parser's three conditions hold for it, and any other text is its own bytes
  (`Utf8Widens`);
* trimming the bytes of a text leaves the bytes of the trimmed text (`TrimBytes`): the
  first byte of a character beyond ASCII is no blank (`FirstByte`), its last one is none
  by the property's hypothesis, and a part of a text has a part of its bytes
  (`LaidPart`);
* `WrapUnwraps`: without angle brackets a wrapped text is the text without them, link by
  link (`UnwrappedJoins`, `WrappedUnwraps`);
* `LinkWhole`: a link ends before a character that is in none (`LinkEndIs`), so no link
  before it reaches into it, and `trim_url_punctuation` keeps it whole, since its last
  character, if it closes, has its opener (`WholeKept`).

`ImportComposes` says that `ArchiveSpec` implies the specification of each of its
three parts.

`ArticleDraftProofs`, for any number of tiers, edits and failures and at least one
retry (`SomeRetries`; the code has a schedule of three): `OneArticle`,
`DraftsStayPrivate` and `LastChoiceWins`. None of them is near to inductive. `FlowInv`
says that the chain runs one task at a time and that before the id is known there is
nothing but creates in it; `MintsInv`, that a create which finds the id known runs
before any other event; `ClickInv`, that one click is in the chain at a time, and
`pending` is up only with an autosave there; `CountInv`, that the rows are the known
one, or the one whose answer is on its way, and those named as stray; `DraftInv`, what
each request has read of the draft flag against the row; `SendInv`, that what has not
been sent is on its way (a timer is armed, an autosave is known to be stale, or a task
waits), or the request under way carries it, or the row has it; `PublishInv`, that a
publication with an older visibility than the one chosen since has an autosave behind
it.

`CredentialsProofs`, for any number of requests, tokens, attempts and lapses:
`TypeOK`, `TokenSpentOnce`, `WrongCodesBounded`, `MailsPerWindow` and
`DeactivationRevokes`, for finitely many requests. The invariant adds `SpentInv` (a
token given up never comes back into the row), `RevokeInv` (what is revoked is
neither in the row nor in the hands of a later request), `WindowInv` (mails sent and
requests about to mint are together no more than the requests) and `TriesInv`. The
last is about lost updates. Give each request the value it has written or would write
(`Level`), and count how many are at or below each value under the threshold
(`Standing`). A write lowers the count at the value written and raises none before it
(`WriteClimbs`), a wrong code looked at changes none; so no standing comes twice
(`Climbing`), although the counter itself goes back as often as a late write likes.
`Standings`, a finite set, bounds the writes before the lock, and the requests in
flight what follows it; the bound is reached, for one and two requests, in the run.

`ServicesProofs` is about the modules of `MCServices`, each on its instance, and
about the run: `ServicesCompose` says that `MCSpec` implies the specification of each
of the four, so what is proved of them holds in every scene.

* `AdministratorsRemain` for any finite set of accounts. `CountInv` is what an
  undisturbed deactivation knows: whether its target administers, and once it has
  counted, that there is another.
* `RowsHaveFiles` for any number of requests. A key is written into the row once, by
  the request that drew it; what a request will delete has been in the row before, so
  it is neither there now nor the key of an upload still to be written (`KeyInv`). Of
  a code's documents, `DocumentInv` says what the one request about it has done so
  far, as long as no other overlaps it.
* `MailsSpaced` for any number of submissions, ticks, lives and cooldowns, under one
  hypothesis that the theorem states: the cooldown is no longer than the log is kept.
  The code does not enforce it. `ACCESS_LOG_RETENTION_DAYS` can be set to anything;
  its smallest sensible value, one day, is the cooldown exactly. The invariant
  (`SpacingInv`) says that a mail is in the log, or too old to matter, or its
  submission is about to write the line; that at most one submission about one
  address is past the look; and that the last mail to the address of one that is
  about to send was long ago.
* `OrdersVetted`: a verdict is kept with the time it was given (`VerdictInv`), in the
  answer, in the cache and in the request.
* `SessionsHold` for any number of requests and of changes of the account. A record's
  hash was made of the credentials its sign-in was checked against, in the store and
  in every request's copy of it, so writing a whole record back cannot mix two of
  them; an invite in a record came with the redirect that the record waits for, and
  the callback takes both out (`SoundSession`, `SoundRequest`).

`PostMediaProofs`, for any number of requests, attachments, faults and any width of
ordinals: `TypeOK`, `RowsHaveObjects`, `ObjectsAccounted`, `CoverStays` and
`ReorderSucceeds`. `Owned` says that a batch is not in the table before its rows are
inserted, with what has been uploaded of it in the store, that a roll-back's ids are in
the table only by a lost COMMIT, and that an erased row is gone before its object;
`Apart`, that no two requests have ids in common; both rest on ids being fresh
(`Used`). `ObjectsAccounted` needs, of the shape of requests, that one at rest has
uploaded nothing; an object whose put was answered by an error is in `left` at once. The two action properties have an invariant of their own (`OInv`):
ordinals are distinct and of the column's width (`OrdinalInv`), the next ordinal that
an append holds is behind every row it has seen while nobody has rewritten them
(`Behind`), and the ids of a checked list are those it was checked against, each once
(`Listed`), so that its first pass moves the rows to places nobody is at and its second
to places that are free again.

`ReadersProofs` proves `TypeOK`, `ListingAgreesWithPage`, `NoMixedLists` and the
action property `ServedWasReadable` of `Audience` for any accounts, categories, posts, requests and
writes; that nobody is no user is assumed. The agreement is a lemma on one row
(`OneRule`), with the foreign keys in the invariant (`FiledInv`). For reads,
`Reading` says that as long as the row and the role have not changed, what the request
holds is what the tables hold, and that whoever is entitled now has been noted. For
lists, `Replacing` says that a request that has taken its list up still accounts for
every member, or the owner has come back with another list, whose row its own INSERT
will meet. The sets of the two, with `TypeOK`, are inductive.

It proves `ListFollowsRows` for any rows, kinds, requests and changes. Ids and times
are numbers, there are finitely many rows and a page has room (`PagesAreFinite`).
`Follows` says of a sequence that it is a part of the rows that could be read all the
time, from one place of the order to another, without a hole; the list is so from the
start to its cursor, a page on its way from the cursor it was asked with to its own
(`ListInv`), and it is the only one of this filter (`Alone`). That the order the server
sorts by lists every row once (`SortedIs`) is a bijection onto ranks, and that two such
parts make one (`Joined`) is the step that shows a page.

And it proves `SavedAsSent` for any tabs, items, texts, files and failures, from
`"none"` naming no tab and the items being counted (`NoneIsNoTab`, `ItemsCounted`).
`CaptionsRight` says which captions the server may not have: of the form's rows those
that are marked, of what was sent those still to do, and any that another form has
written since; that a row once marked stays so while another version of it is being sent
(`RowsRight`) is what keeps a caption typed during a save from being taken for saved.
`FilesRight` says that a file is one form's and has no item before the request that
makes one is done, and then one only, unless an answer was lost. One lemma for all steps
(`OneTab`) says what a step of one form must leave the others (`Quiet`), so each action
is proved for its own form. `ReadersCompose` says that `MCSpec` implies all three
specifications.

`EngagementProofs`, for finitely many users and any bars, items and kinds
(`FewUsers`, `NilIsNoKind`): `TypeOK` of `Reactions`, `RestingBarIsRight` and
`OneKindUnlessDisturbed`; for any threads, calls and comments (`RoomForComments`):
`OwnCommentsRight`; and `EngagementComposes`, that `MCSpec` implies both
specifications. A bar is followed through its two requests (`Resting`,
`Clicking`): nobody else writes the rows of its user on its item, so at each place of
the chain its state says which kind is in the table, and `OneKind` is part of what it
says. A bar that has come back stale says nothing of the table until a click is
answered; that what it starts from is well formed (`Sound`: one of its kinds first,
each of them counted) holds all the same, and for one never clicked while stale, that
the kind it removes is the only one there is. The counts are cardinalities of sets of users, which is where finitely many is
needed.

A thread follows its user's comments (`OwnInv`): while one lives, the answer to its
creation is on its way and nobody has asked for anything else about it (`Arriving`), or
it is on the list, as it is or with the answer to an edit on its way (`Listed`); once it
is dead it is off the list, or the answer to a deletion is on its way (`Gone`). So the
order of answers cannot matter: an edit's answer changes an entry and adds none, and a
deletion's comes after every creation's. `CallInv` says what an answer under way
implies for the row. The lists rest on four lemmas: what appending, updating and sifting
do to the places of an entry, and that sifting numbers what it keeps (`Places`, by a
bijection, where counting would take an induction); `Sifted` is written without
recursion for that.

`TerminalIsFinal` and the modules' `TypeOK` are proved and not in a run, where the
properties that could fail take their place; each `TypeOK` holds on the instances
above.

Only model-checked: the three liveness properties (`AcceptanceAnswered`, `WorkersEnd`,
`EventuallySaved`), which need fairness and ENABLED.

## 7. Not modelled

Encryption, rendering, mail, metrics, e-mail templates and the schema's data
migrations have no protocol of their own: their results are inputs of the modules
above, their failures a choice. CSRF tokens and rate limits belong to libraries
outside the repository. Follows are one idempotent statement each. Settings'
`upsert`, profiles' handles, an album's metadata and order saved in one request,
the serving of access codes, the administrators' lists and the front ends' pages
of one request are left out; so are, in the parser, the names of manifests, bodies
that are cut and entries of several parts. `PROJECT.json` lists each part with its
sources and what of it is missing, and each hazard with the line where it bites.
