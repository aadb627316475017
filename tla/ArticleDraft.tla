---------------------------- MODULE ArticleDraft ----------------------------
(***************************************************************************)
(* Composing an article: the browser's draft hook (useArticleDraft.ts and    *)
(* the page around it) against the server's create and update handlers       *)
(* (src/src/articles/handlers.rs).                                          *)
(*                                                                          *)
(* The editable fields are a version, counting every change of any of them;  *)
(* only the visibility is kept beside it, for the server rewrites it.  One   *)
(* browser tab edits one article.  Requests of the write chain and of the    *)
(* cover buttons travel on two channels, at most one on each at a time; a    *)
(* request that fails is either done or dropped by the server when its       *)
(* caller learns of it.                                                     *)
(***************************************************************************)
EXTENDS Naturals, Sequences

CONSTANTS Vis, Private,  \* visibility tiers; a draft's
          Retries,       \* length of RETRY_DELAYS_MS
          MaxEdits,      \* bound on changes of the fields
          MaxFailures    \* bound on failing requests

ASSUME PrivateIsATier == Private \in Vis
\* RETRY_DELAYS_MS has three entries; with none an autosave that fails is not tried again.
ASSUME SomeRetries == Retries \in Nat \ {0}
ASSUME BoundsAreNats == MaxEdits \in Nat /\ MaxFailures \in Nat

Channel == {"chain", "cover"}

VARIABLES
  version, vis,      \* fieldsRef
  status, shadow,    \* statusRef (the id is known unless it is "unsaved"); localStorage
  timer, attempt,    \* timerRef, armed or not; retryAttemptRef
  pending, dirty,    \* autosavePendingRef, autosaveDirtyRef
  chain,             \* writeChainRef: its tasks, the head may have a request under way
  button, chosen,    \* the Save or Publish click in progress; the visibility it passed
  image, cover,      \* the image and the cover upload in progress
  mounted,
  req,               \* the request on each channel
  row, rows,         \* the article on the server; how many there are
  failures,
  told,              \* history: a write failed, and said so, since the last that succeeded
  midMint,           \* history: fields changed while the create was under way
  raced, strayRows   \* history: a cover request wrote the visibility of a draft on an
                     \* article published since; rows whose id never reached the browser

editor == <<version, vis, status, shadow, timer, attempt, pending, dirty, chain>>
page   == <<button, chosen, image, cover, mounted>>
server == <<row, rows>>
hist   == <<failures, told, midMint, raced, strayRows>>
vars == <<editor, page, req, server, hist>>

Idle  == [at |-> "none", text |-> 0, vis |-> Private, publish |-> FALSE, draft |-> TRUE]
NoRow == [text |-> 0, vis |-> Private, draft |-> TRUE]

Mints == {"mintSave", "mintPublish", "mintImage", "mintCover"}

(* A new article, or one loaded into the composer.                           *)
Init ==
  /\ version = 0
  /\ status \in {"unsaved", "draft", "published"}
  /\ vis \in Vis
  /\ row = [text |-> 0, vis |-> vis, draft |-> status # "published"]
  /\ status # "published" => vis = Private
  /\ rows = (IF status = "unsaved" THEN 0 ELSE 1)
  /\ shadow = FALSE /\ timer = FALSE /\ attempt = 0
  /\ pending = FALSE /\ dirty = FALSE /\ chain = <<>>
  /\ button = "idle" /\ chosen = Private /\ image = "idle" /\ cover = "idle"
  /\ mounted = TRUE
  /\ req = [ch \in Channel |-> Idle]
  /\ failures = 0 /\ told = FALSE /\ midMint = FALSE /\ raced = FALSE /\ strayRows = 0

-----------------------------------------------------------------------------
(* Pieces of the hook.                                                       *)

Known == status # "unsaved"

Minting == chain # <<>> /\ Head(chain) \in Mints /\ req["chain"].at # "none"

(* A task whose turn has come starts in a microtask, before any other event. *)
Start == chain # <<>> /\ req["chain"].at = "none"

Enqueue(task) == chain' = Append(chain, task)

(* setField: before the article exists only localStorage is written,         *)
(* afterwards the autosave is armed and the retry schedule starts over.      *)
SetField ==
  /\ version < MaxEdits
  /\ version' = version + 1
  /\ IF Known
     THEN timer' = TRUE /\ attempt' = 0 /\ UNCHANGED <<shadow, midMint>>
     ELSE shadow' = TRUE /\ midMint' = (midMint \/ Minting) /\ UNCHANGED <<timer, attempt>>
  /\ UNCHANGED <<status, pending, dirty, chain, failures, told, raced, strayRows>>

(* flushPatch up to its await, on the given tail of the chain.               *)
Flush(tail) ==
  IF pending THEN dirty' = TRUE /\ chain' = tail /\ UNCHANGED pending
             ELSE pending' = TRUE /\ dirty' = FALSE /\ chain' = Append(tail, "autosave")

-----------------------------------------------------------------------------
(* What the author does.                                                     *)

Edit ==
  /\ mounted /\ ~Start
  /\ SetField
  /\ UNCHANGED <<vis, page, req, server>>

PickVisibility(v) ==
  /\ mounted /\ ~Start
  /\ v # vis
  /\ vis' = v
  /\ SetField
  /\ UNCHANGED <<page, req, server>>

ClickSave ==
  /\ mounted /\ ~Start /\ button = "idle"
  /\ status # "published"
  /\ button' = "save"
  /\ timer' = FALSE
  /\ Enqueue(IF Known THEN "save" ELSE "mintSave")
  /\ UNCHANGED <<version, vis, status, shadow, attempt, pending, dirty, chosen, image, cover,
                 mounted, req, server, hist>>

ClickPublish ==
  /\ mounted /\ ~Start /\ button = "idle"
  /\ button' = "publish"
  /\ chosen' = vis
  /\ timer' = FALSE
  /\ Enqueue(IF Known THEN "publish" ELSE "mintPublish")
  /\ UNCHANGED <<version, vis, status, shadow, attempt, pending, dirty, image, cover, mounted,
                 req, server, hist>>

DropImage ==
  /\ mounted /\ ~Start /\ image = "idle"
  /\ IF Known THEN image' = "uploading" /\ UNCHANGED chain
              ELSE image' = "minting" /\ Enqueue("mintImage")
  /\ UNCHANGED <<version, vis, status, shadow, timer, attempt, pending, dirty, button, chosen,
                 cover, mounted, req, server, hist>>

ChooseCover ==
  /\ mounted /\ ~Start /\ cover = "idle"
  /\ IF Known THEN cover' = "uploading" /\ UNCHANGED chain
              ELSE cover' = "minting" /\ Enqueue("mintCover")
  /\ UNCHANGED <<version, vis, status, shadow, timer, attempt, pending, dirty, button, chosen,
                 image, mounted, req, server, hist>>

SendCover ==
  /\ cover' = "patching"
  /\ req' = [req EXCEPT !["cover"] = [Idle EXCEPT !.at = "sent"]]

RemoveCover ==
  /\ mounted /\ ~Start /\ cover = "idle" /\ Known
  /\ SendCover
  /\ UNCHANGED <<editor, button, chosen, image, mounted, server, hist>>

(* Mutant: an armed timer is only cleared.                                   *)
UnmountDropping(tail) ==
  /\ mounted' = FALSE /\ timer' = FALSE /\ chain' = tail
  /\ UNCHANGED <<pending, dirty>>

(* The unmount effect flushes an armed timer; promises under way go on.      *)
Unmount(tail) ==
  /\ mounted' = FALSE
  /\ IF mounted /\ timer THEN timer' = FALSE /\ Flush(tail)
                         ELSE chain' = tail /\ UNCHANGED <<timer, pending, dirty>>

Leave ==
  /\ mounted /\ ~Start
  /\ Unmount(chain)
  /\ UNCHANGED <<version, vis, status, shadow, attempt, button, chosen, image, cover, req,
                 server, hist>>

-----------------------------------------------------------------------------
(* What the hook does by itself.                                             *)

TimerFires ==
  /\ timer /\ ~Start
  /\ timer' = FALSE
  /\ Flush(chain)
  /\ UNCHANGED <<version, vis, status, shadow, attempt, page, req, server, hist>>

StartPatch ==
  LET task == Head(chain)
      sent == [at |-> "sent", text |-> version, draft |-> TRUE,
               vis |-> IF task = "publish" THEN chosen ELSE vis,
               publish |-> task = "publish" /\ status # "published"]
  IN
  /\ Start
  /\ task \notin Mints
  /\ req' = [req EXCEPT !["chain"] = sent]
  /\ midMint' = (midMint /\ sent.vis # vis)
  /\ UNCHANGED <<editor, page, server, failures, told, raced, strayRows>>

(* What waits for a mint goes on when it has the id.                         *)
AfterMint(task) ==
  /\ chain' = IF task = "mintPublish" THEN Append(Tail(chain), "publish") ELSE Tail(chain)
  /\ button' = IF task = "mintSave" THEN "idle" ELSE button
  /\ image' = IF task = "mintImage" THEN "uploading" ELSE image
  /\ cover' = IF task = "mintCover" THEN "uploading" ELSE cover

(* Mutant: no check in the chain for an id that came meanwhile.              *)
MintNeeded == TRUE

MintNeededNow == ~Known

StartMint ==
  /\ Start
  /\ Head(chain) \in Mints
  /\ MintNeededNow
  /\ req' = [req EXCEPT !["chain"] = [Idle EXCEPT !.at = "sent", !.text = version]]
  /\ UNCHANGED <<editor, page, server, hist>>

MintKnown ==
  /\ Start
  /\ Head(chain) \in Mints
  /\ ~MintNeededNow
  /\ AfterMint(Head(chain))
  /\ UNCHANGED <<version, vis, status, shadow, timer, attempt, pending, dirty, chosen, mounted,
                 req, server, hist>>

Answered(task, at) ==
  /\ chain # <<>> /\ Head(chain) = task
  /\ req["chain"].at = at
  /\ req' = [req EXCEPT !["chain"] = Idle]

MintDone(task) ==
  /\ Answered(task, "ok")
  /\ status' = "draft"
  /\ shadow' = FALSE
  /\ AfterMint(task)
  /\ told' = FALSE
  /\ UNCHANGED <<version, vis, timer, attempt, pending, dirty, chosen, mounted, server,
                 failures, midMint, raced, strayRows>>

MintFailed(task) ==
  /\ Answered(task, "failed")
  /\ chain' = Tail(chain)
  /\ button' = IF task \in {"mintSave", "mintPublish"} THEN "idle" ELSE button
  /\ image' = IF task = "mintImage" THEN "idle" ELSE image
  /\ cover' = IF task = "mintCover" THEN "idle" ELSE cover
  /\ told' = TRUE
  /\ UNCHANGED <<version, vis, status, shadow, timer, attempt, pending, dirty, chosen, mounted,
                 server, failures, midMint, raced, strayRows>>

(* Mutant: what changed while the autosave was under way is not sent again.  *)
RefireNothing ==
  pending' = FALSE /\ dirty' = FALSE /\ chain' = Tail(chain)

(* The autosave has settled: it goes once more if anything changed meanwhile. *)
Refire ==
  IF dirty THEN pending' = TRUE /\ dirty' = FALSE /\ chain' = Append(Tail(chain), "autosave")
           ELSE pending' = FALSE /\ dirty' = FALSE /\ chain' = Tail(chain)

AutosaveDone ==
  /\ Answered("autosave", "ok")
  /\ Refire
  /\ attempt' = 0
  /\ told' = FALSE
  /\ UNCHANGED <<version, vis, status, shadow, timer, page, server, failures, midMint, raced,
                 strayRows>>

(* The retry takes the timer's slot.                                         *)
BackOff ==
  IF attempt < Retries THEN attempt' = attempt + 1 /\ timer' = TRUE
                       ELSE UNCHANGED <<attempt, timer>>

AutosaveFailed ==
  /\ Answered("autosave", "failed")
  /\ pending' = FALSE
  /\ chain' = Tail(chain)
  /\ told' = TRUE
  /\ BackOff
  /\ UNCHANGED <<version, vis, status, shadow, dirty, page, server, failures, midMint, raced,
                 strayRows>>

SaveDone ==
  /\ Answered("save", "ok")
  /\ chain' = Tail(chain)
  /\ button' = "idle"
  /\ attempt' = 0
  /\ told' = FALSE
  /\ UNCHANGED <<version, vis, status, shadow, timer, pending, dirty, chosen, image, cover,
                 mounted, server, failures, midMint, raced, strayRows>>

(* The page navigates to the article, which unmounts the composer.           *)
PublishDone ==
  /\ Answered("publish", "ok")
  /\ status' = "published"
  /\ attempt' = 0
  /\ Unmount(Tail(chain))
  /\ told' = FALSE
  /\ UNCHANGED <<version, vis, shadow, button, chosen, image, cover, server, failures, midMint,
                 raced, strayRows>>

ClickFailed(task) ==
  /\ Answered(task, "failed")
  /\ chain' = Tail(chain)
  /\ button' = "idle"
  /\ told' = TRUE
  /\ UNCHANGED <<version, vis, status, shadow, timer, attempt, pending, dirty, chosen, image,
                 cover, mounted, server, failures, midMint, raced, strayRows>>

(* The upload is over: the picture's markdown goes into the body.            *)
InsertImage ==
  /\ image = "uploading" /\ ~Start
  /\ image' = "idle"
  /\ \/ SetField
     \/ UNCHANGED <<version, status, shadow, timer, attempt, pending, dirty, chain, hist>>
  /\ UNCHANGED <<vis, button, chosen, cover, mounted, req, server>>

CoverUploaded ==
  /\ cover = "uploading" /\ ~Start
  /\ \/ SendCover
     \/ cover' = "idle" /\ UNCHANGED req
  /\ UNCHANGED <<editor, button, chosen, image, mounted, server, hist>>

CoverAnswered ==
  /\ req["cover"].at \in {"ok", "failed"} /\ ~Start
  /\ req' = [req EXCEPT !["cover"] = Idle]
  /\ cover' = "idle"
  /\ UNCHANGED <<editor, button, chosen, image, mounted, server, hist>>

-----------------------------------------------------------------------------
(* The server.                                                               *)

CreateArticle ==
  /\ Minting
  /\ req["chain"].at = "sent"
  /\ row' = [text |-> req["chain"].text, vis |-> Private, draft |-> TRUE]
  /\ rows' = rows + 1
  /\ req' = [req EXCEPT !["chain"].at = "ok"]
  /\ UNCHANGED <<editor, page, hist>>

(* update_article reads is_draft first and decides on it what it writes.     *)
ReadArticle(ch) ==
  /\ req[ch].at = "sent"
  /\ ch = "chain" => ~Minting
  /\ req' = [req EXCEPT ![ch].at = "read", ![ch].draft = row.draft]
  /\ UNCHANGED <<editor, page, server, hist>>

(* Mutant: the visibility that was sent is written, draft or not.            *)
VisibilityAsSent(ch) == IF ch = "cover" THEN row.vis ELSE req[ch].vis

(* A draft stays private; a cover request names no visibility.               *)
VisibilityAfter(ch) ==
  IF req[ch].draft /\ ~req[ch].publish THEN Private
  ELSE IF ch = "cover" THEN row.vis ELSE req[ch].vis

UpdateArticle(ch) ==
  /\ req[ch].at = "read"
  /\ row' = [text |-> IF ch = "cover" THEN row.text ELSE req[ch].text,
             vis |-> VisibilityAfter(ch),
             draft |-> row.draft /\ ~req[ch].publish]
  /\ req' = [req EXCEPT ![ch].at = "ok"]
  /\ raced' = IF ch = "cover" THEN raced \/ (req[ch].draft /\ ~row.draft)
                              ELSE FALSE
  /\ UNCHANGED <<editor, page, rows, failures, told, midMint, strayRows>>

RequestFails(ch) ==
  /\ req[ch].at \in {"sent", "read", "ok"}
  /\ failures < MaxFailures
  /\ failures' = failures + 1
  /\ req' = [req EXCEPT ![ch].at = "failed"]
  /\ strayRows' = IF ch = "chain" /\ Minting /\ req[ch].at = "ok" THEN strayRows + 1
                                                                 ELSE strayRows
  /\ UNCHANGED <<editor, page, server, told, midMint, raced>>

-----------------------------------------------------------------------------
Author ==
  \/ Edit
  \/ \E v \in Vis : PickVisibility(v)
  \/ ClickSave \/ ClickPublish \/ DropImage \/ ChooseCover \/ RemoveCover \/ Leave

Hook ==
  \/ StartPatch \/ StartMint \/ MintKnown
  \/ \E task \in Mints : MintDone(task) \/ MintFailed(task)
  \/ AutosaveDone \/ AutosaveFailed \/ SaveDone \/ PublishDone
  \/ \E task \in {"save", "publish"} : ClickFailed(task)

Uploads == InsertImage \/ CoverUploaded \/ CoverAnswered

Serve(ch) == ReadArticle(ch) \/ UpdateArticle(ch)

Next ==
  \/ Author \/ TimerFires \/ Hook \/ Uploads
  \/ CreateArticle
  \/ \E ch \in Channel : Serve(ch) \/ RequestFails(ch)

Spec == Init /\ [][Next]_vars

(* Timers fire, settled promises run what waits for them, and the server     *)
(* answers; authors and failures owe nothing.                                *)
FairSpec ==
  /\ Spec
  /\ WF_vars(TimerFires) /\ WF_vars(Hook) /\ WF_vars(Uploads) /\ WF_vars(CreateArticle)
  /\ \A ch \in Channel : WF_vars(Serve(ch))

-----------------------------------------------------------------------------
Task == Mints \cup {"autosave", "save", "publish"}

TypeOK ==
  /\ version \in 0 .. MaxEdits /\ vis \in Vis
  /\ status \in {"unsaved", "draft", "published"}
  /\ shadow \in BOOLEAN /\ timer \in BOOLEAN /\ attempt \in 0 .. Retries
  /\ pending \in BOOLEAN /\ dirty \in BOOLEAN
  /\ chain \in Seq(Task)
  /\ button \in {"idle", "save", "publish"} /\ chosen \in Vis
  /\ image \in {"idle", "minting", "uploading"}
  /\ cover \in {"idle", "minting", "uploading", "patching"}
  /\ mounted \in BOOLEAN
  /\ req \in [Channel -> [at : {"none", "sent", "read", "ok", "failed"}, text : Nat, vis : Vis,
                          publish : BOOLEAN, draft : BOOLEAN]]
  /\ row \in [text : Nat, vis : Vis, draft : BOOLEAN] /\ rows \in Nat
  /\ failures \in 0 .. MaxFailures /\ strayRows \in Nat
  /\ told \in BOOLEAN /\ midMint \in BOOLEAN /\ raced \in BOOLEAN

(* However many callers need an id at once, the composer makes one article;  *)
(* a second one can only follow a create whose answer never came.            *)
OneArticle == rows <= 1 + strayRows

(* A draft is private on the server whatever the composer sends, and however *)
(* its writes overlap: no listing can show it to anybody but its author.     *)
DraftsStayPrivate == row.draft => row.vis = Private

(* Something is still going to send the latest fields, or the author has     *)
(* been told that they are not saved.                                        *)
Covered ==
  \/ timer \/ (pending /\ dirty) \/ told
  \/ ~Known /\ shadow
  \/ req["chain"].at \in {"sent", "read"} /\ req["chain"].text = version
  \/ req["chain"].at = "failed"
  \/ \E i \in (IF req["chain"].at = "none" THEN 1 ELSE 2) .. Len(chain) :
       chain[i] \in {"autosave", "save", "publish", "mintPublish"}

Quiet == chain = <<>> /\ ~timer /\ \A ch \in Channel : req[ch].at = "none"

(* When everything has settled, a published article has the fields and the   *)
(* visibility its author chose last, unless a cover request overtook the     *)
(* publication.                                                              *)
LastChoiceWins ==
  Quiet /\ status = "published" /\ ~told /\ ~midMint =>
    row.text = version /\ ~row.draft /\ (row.vis = vis \/ raced)

(* Once the author stops and requests stop failing, what was typed last gets *)
(* to the server, or the author was told.                                    *)
EventuallySaved == <>[](~Known \/ told \/ midMint \/ row.text = version)

(* What the unmount effect's comment promises of the last edit: leaving the  *)
(* page after typing does not drop it.                                       *)
LeavingDropsNothing ==
  [][mounted /\ ~mounted' /\ row.text < version => Covered']_vars

(* What publish's comment promises: its overrides land last and win.         *)
PublishWins ==
  Quiet /\ status = "published" /\ ~told /\ ~midMint => row.vis = vis

=============================================================================
