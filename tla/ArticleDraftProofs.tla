------------------------- MODULE ArticleDraftProofs -------------------------
(***************************************************************************)
(* ArticleDraft.tla for any number of edits, failures and tiers.             *)
(*                                                                          *)
(* What the browser has not sent yet is on its way: a timer is armed, an       *)
(* autosave under way is known to be stale, or a task waits in the chain.  Of  *)
(* a visibility passed to publish and chosen anew since, an autosave comes      *)
(* after the publication.                                                    *)
(***************************************************************************)
EXTENDS ArticleDraft, TLAPS

Current == req["chain"].at

InFlight == Current # "none"

(* The chain runs one task at a time; a task that mints does so before the id is   *)
(* known, and until then there are no others, no timer and no cover request.       *)
FlowInv ==
  /\ InFlight => chain # <<>>
  /\ InFlight /\ chain[1] \in Mints => ~Known /\ Current # "read"
  /\ ~Known => /\ ~timer /\ \A i \in DOMAIN chain : chain[i] \in Mints
               /\ cover \notin {"uploading", "patching"} /\ req["cover"].at = "none"
  /\ ~req["cover"].publish

(* A task that mints and finds the id known is next to run, before any other event. *)
MintsInv ==
  \A i \in DOMAIN chain :
    Known /\ chain[i] \in Mints =>
      /\ ~InFlight /\ ~timer /\ ~pending
      /\ \A j \in DOMAIN chain : chain[j] # "autosave" /\ (j < i => chain[j] \in Mints)

(* One click at a time, and its button stays busy until it is answered; the flag   *)
(* of a pending autosave is up only while there is one.                        *)
Click == {"save", "mintSave", "publish", "mintPublish"}
Publication == {"publish", "mintPublish"}

ClickInv ==
  /\ \A i, j \in DOMAIN chain : chain[i] \in Click /\ chain[j] \in Click => i = j
  /\ \A i \in DOMAIN chain : chain[i] \in Publication => button = "publish"
  /\ \A i \in DOMAIN chain : chain[i] \in {"save", "mintSave"} => button = "save"
  /\ pending => \E i \in DOMAIN chain : chain[i] = "autosave"

(* A row is the composer's own, or of a create whose answer is still to come, or   *)
(* of one whose answer never came.                                            *)
Unanswered == InFlight /\ chain[1] \in Mints /\ Current = "ok"

CountInv == rows = strayRows + (IF Known \/ Unanswered THEN 1 ELSE 0)

(* What a request has read of the draft flag.                                  *)
DraftInv ==
  /\ DraftsStayPrivate
  /\ Current = "read" => req["chain"].draft = row.draft
  /\ req["cover"].at = "read" /\ row.draft => req["cover"].draft
  /\ status = "published" => ~row.draft
  /\ InFlight /\ chain[1] = "publish" =>
       /\ Current \in {"sent", "read"} => req["chain"].publish \/ status = "published"
       /\ Current = "ok" => ~row.draft
  /\ Unanswered => row.draft

Waits(i) == i \in DOMAIN chain /\ (InFlight => i # 1)

Sending == {"autosave", "save", "publish", "mintPublish"}

Later == timer \/ (pending /\ dirty) \/ \E i \in DOMAIN chain : Waits(i) /\ chain[i] \in Sending

(* The fields the request under way carries are the latest, or more comes.       *)
Carries == Later \/ (req["chain"].text = version /\ (req["chain"].vis = vis \/ midMint))

Carried == row.text = req["chain"].text /\ (row.draft \/ row.vis = req["chain"].vis \/ raced)

Latest == row.text = version /\ (row.draft \/ row.vis = vis \/ raced)

SendInv ==
  /\ Known /\ ~InFlight => told \/ midMint \/ Later \/ Latest
  /\ InFlight /\ chain[1] \notin Mints =>
       /\ Current \in {"sent", "read", "ok"} => Carries
       /\ Current = "ok" => Carried
  /\ InFlight /\ chain[1] \in Mints =>
       /\ Current \in {"sent", "ok"} => midMint \/ req["chain"].text = version
       /\ Current = "ok" => row.text = req["chain"].text

(* After a publication with an older visibility than the chosen one an autosave     *)
(* comes: it is in the chain, or a timer or a stale autosave will put it there.     *)
Follows(i) ==
  \/ \E j \in DOMAIN chain : j > i /\ chain[j] = "autosave"
  \/ timer /\ (pending => attempt = 0)
  \/ pending /\ dirty /\ attempt = 0

PublishInv ==
  \A i \in DOMAIN chain :
    chain[i] \in Publication /\ (chain[i] = "publish" => Waits(i)) =>
      chosen = vis \/ Follows(i) \/ (midMint /\ \A j \in DOMAIN chain : j < i => chain[j] \in Mints)

IInv ==
  TypeOK /\ FlowInv /\ MintsInv /\ ClickInv /\ CountInv /\ DraftInv /\ SendInv /\ PublishInv

-----------------------------------------------------------------------------
(* The chain loses its head, or not, and gets a task at its end, or none.        *)

Goes(s, t, k, x) ==
  /\ t \in Seq(Task)
  /\ \A i \in DOMAIN s : i > k => i - k \in DOMAIN t /\ t[i - k] = s[i]
  /\ \A j \in DOMAIN t : \/ j + k \in DOMAIN s /\ t[j] = s[j + k]
                         \/ x # "none" /\ j + k = Len(s) + 1 /\ t[j] = x
  /\ x # "none" => Len(s) + 1 - k \in DOMAIN t /\ t[Len(s) + 1 - k] = x

ChainGoes(k, x) == Goes(chain, chain', k, x)

LEMMA TasksHaveNames == "none" \notin Task
  BY DEF Task, Mints

LEMMA Indexed ==
  ASSUME NEW s \in Seq(Task)
  PROVE  /\ Len(s) \in Nat /\ DOMAIN s = 1 .. Len(s)
         /\ \A i \in 1 .. Len(s) : s[i] \in Task
         /\ s # <<>> => Head(s) = s[1] /\ Len(s) > 0
         /\ s = <<>> => Len(s) = 0
  OBVIOUS

LEMMA Stays == ASSUME NEW s \in Seq(Task) PROVE Goes(s, s, 0, "none")
<1>1. Len(s) \in Nat /\ DOMAIN s = 1 .. Len(s)
  BY Indexed
<1>2. \A i \in DOMAIN s : i > 0 => i - 0 \in DOMAIN s /\ s[i - 0] = s[i]
  <2> TAKE i \in DOMAIN s
  <2>1. i - 0 = i
    BY <1>1
  <2> QED BY <2>1
<1>3. \A j \in DOMAIN s : j + 0 \in DOMAIN s /\ s[j] = s[j + 0]
  <2> TAKE j \in DOMAIN s
  <2>1. j + 0 = j
    BY <1>1
  <2> QED BY <2>1
<1> QED BY <1>2, <1>3 DEF Goes

LEMMA Grows == ASSUME NEW s \in Seq(Task), NEW x \in Task PROVE Goes(s, Append(s, x), 0, x)
<1> DEFINE t == Append(s, x)
<1>1. Len(s) \in Nat /\ DOMAIN s = 1 .. Len(s)
  BY Indexed
<1>2. /\ t \in Seq(Task) /\ DOMAIN t = 1 .. Len(s) + 1 /\ t[Len(s) + 1] = x
      /\ \A i \in 1 .. Len(s) : t[i] = s[i]
  BY <1>1
<1> HIDE DEF t
<1>3. \A i \in DOMAIN s : i > 0 => i - 0 \in DOMAIN t /\ t[i - 0] = s[i]
  <2> TAKE i \in DOMAIN s
  <2>1. i - 0 = i /\ i \in DOMAIN t
    BY <1>1, <1>2
  <2> QED BY <2>1, <1>2, <1>1
<1>4. \A j \in DOMAIN t : \/ j + 0 \in DOMAIN s /\ t[j] = s[j + 0]
                          \/ x # "none" /\ j + 0 = Len(s) + 1 /\ t[j] = x
  <2> TAKE j \in DOMAIN t
  <2>1. j + 0 = j /\ (j \in DOMAIN s \/ j = Len(s) + 1)
    BY <1>1, <1>2
  <2> QED BY <2>1, <1>2, <1>1, TasksHaveNames
<1>5. Len(s) + 1 - 0 = Len(s) + 1 /\ Len(s) + 1 \in DOMAIN t
  BY <1>1, <1>2
<1>6. Goes(s, t, 0, x)
  BY <1>2, <1>3, <1>4, <1>5 DEF Goes
<1> QED BY <1>6 DEF t

LEMMA Drops == ASSUME NEW s \in Seq(Task), s # <<>> PROVE Goes(s, Tail(s), 1, "none")
<1> DEFINE t == Tail(s)
<1>1. Len(s) \in Nat /\ DOMAIN s = 1 .. Len(s)
  BY Indexed
<1>2. /\ t \in Seq(Task) /\ DOMAIN t = 1 .. Len(s) - 1
      /\ \A i \in 1 .. Len(s) - 1 : t[i] = s[i + 1]
  BY <1>1
<1> HIDE DEF t
<1>3. \A i \in DOMAIN s : i > 1 => i - 1 \in DOMAIN t /\ t[i - 1] = s[i]
  <2> SUFFICES ASSUME NEW i \in DOMAIN s, i > 1 PROVE i - 1 \in DOMAIN t /\ t[i - 1] = s[i]
    OBVIOUS
  <2>1. i - 1 \in 1 .. Len(s) - 1 /\ i - 1 + 1 = i
    BY <1>1
  <2> QED BY <2>1, <1>2
<1>4. \A j \in DOMAIN t : j + 1 \in DOMAIN s /\ t[j] = s[j + 1]
  BY <1>1, <1>2
<1>5. Goes(s, t, 1, "none")
  BY <1>2, <1>3, <1>4 DEF Goes
<1> QED BY <1>5 DEF t

LEMMA Turns ==
  ASSUME NEW s \in Seq(Task), s # <<>>, NEW x \in Task
  PROVE  Goes(s, Append(Tail(s), x), 1, x)
<1> DEFINE r == Tail(s)
           t == Append(r, x)
<1>1. Len(s) \in Nat /\ DOMAIN s = 1 .. Len(s) /\ Len(s) > 0
  BY Indexed
<1>2. /\ r \in Seq(Task) /\ Len(r) = Len(s) - 1
      /\ \A i \in 1 .. Len(s) - 1 : r[i] = s[i + 1]
  BY <1>1
<1> HIDE DEF r
<1>3. /\ t \in Seq(Task) /\ DOMAIN t = 1 .. Len(s) /\ t[Len(s)] = x
      /\ \A i \in 1 .. Len(s) - 1 : t[i] = s[i + 1]
  <2>1. /\ t \in Seq(Task) /\ DOMAIN t = 1 .. Len(r) + 1 /\ t[Len(r) + 1] = x
        /\ \A i \in 1 .. Len(r) : t[i] = r[i]
    BY <1>2
  <2>2. Len(r) + 1 = Len(s) /\ 1 .. Len(r) = 1 .. Len(s) - 1
    BY <1>1, <1>2
  <2> HIDE DEF t
  <2> QED BY <2>1, <2>2, <1>2
<1> HIDE DEF t
<1>4. \A i \in DOMAIN s : i > 1 => i - 1 \in DOMAIN t /\ t[i - 1] = s[i]
  <2> SUFFICES ASSUME NEW i \in DOMAIN s, i > 1 PROVE i - 1 \in DOMAIN t /\ t[i - 1] = s[i]
    OBVIOUS
  <2>1. i - 1 \in 1 .. Len(s) - 1 /\ i - 1 + 1 = i /\ i - 1 \in 1 .. Len(s)
    BY <1>1
  <2> QED BY <2>1, <1>3
<1>5. \A j \in DOMAIN t : \/ j + 1 \in DOMAIN s /\ t[j] = s[j + 1]
                          \/ x # "none" /\ j + 1 = Len(s) + 1 /\ t[j] = x
  <2> TAKE j \in DOMAIN t
  <2>1. (j \in 1 .. Len(s) - 1 /\ j + 1 \in DOMAIN s) \/ j = Len(s)
    BY <1>1, <1>3
  <2> QED BY <2>1, <1>3, <1>1, TasksHaveNames
<1>6. Len(s) + 1 - 1 = Len(s) /\ Len(s) \in DOMAIN t
  BY <1>1, <1>3
<1>7. Goes(s, t, 1, x)
  BY <1>3, <1>4, <1>5, <1>6 DEF Goes
<1> QED BY <1>7 DEF t, r

(* What becomes of the requests.                                              *)
Request == [at : {"none", "sent", "read", "ok", "failed"}, text : Nat, vis : Vis,
            publish : BOOLEAN, draft : BOOLEAN]

Requests == [Channel -> Request]

LEMMA Sent ==
  ASSUME TypeOK, NEW ch \in Channel, NEW q \in Request, req' = [req EXCEPT ![ch] = q]
  PROVE  req' \in Requests /\ req'[ch] = q /\ \A c \in Channel \ {ch} : req'[c] = req[c]
  BY DEF TypeOK, Requests, Request

LEMMA IdleRequest ==
  /\ Idle \in Request /\ Idle.at = "none" /\ ~Idle.publish /\ Idle.draft
  BY PrivateIsATier DEF Idle, Request

LEMMA Advanced ==
  ASSUME TypeOK, NEW ch \in Channel, NEW at \in {"sent", "read", "ok", "failed"},
         req' = [req EXCEPT ![ch].at = at]
  PROVE  /\ req' \in Requests /\ \A c \in Channel \ {ch} : req'[c] = req[c]
         /\ req'[ch].at = at /\ req'[ch].text = req[ch].text /\ req'[ch].vis = req[ch].vis
         /\ req'[ch].publish = req[ch].publish /\ req'[ch].draft = req[ch].draft
<1> DEFINE q == [req[ch] EXCEPT !.at = at]
<1>1. req[ch] \in Request
  BY DEF TypeOK, Request
<1>2. /\ q \in Request /\ q.at = at /\ q.text = req[ch].text /\ q.vis = req[ch].vis
      /\ q.publish = req[ch].publish /\ q.draft = req[ch].draft
  BY <1>1 DEF Request
<1>3. req' = [req EXCEPT ![ch] = q]
  OBVIOUS
<1> HIDE DEF q
<1> QED BY <1>2, <1>3, Sent

-----------------------------------------------------------------------------
(* The author's steps.                                                        *)

LEMMA NoMintWaits ==
  ASSUME IInv, ~Start, Known
  PROVE  \A i \in DOMAIN chain : chain[i] \notin Mints
BY Indexed DEF IInv, MintsInv, Start, InFlight, Current, TypeOK

LEMMA OthersPend ==
  ASSUME IInv, ~Known
  PROVE  ~pending
BY DEF IInv, FlowInv, ClickInv, Mints

LEMMA FieldStep ==
  ASSUME IInv, ~Start, SetField, vis' \in Vis, image' \in {"idle", image},
         UNCHANGED <<button, chosen, cover, mounted, req, server>>
  PROVE  IInv'
<1> USE DEF SetField, server, IInv
<1>1. TypeOK'
  <2>1. attempt' \in 0 .. Retries /\ version' \in 0 .. MaxEdits
    BY SomeRetries, BoundsAreNats DEF TypeOK
  <2>2. /\ shadow' \in BOOLEAN /\ timer' \in BOOLEAN /\ midMint' \in BOOLEAN
        /\ image' \in {"idle", "minting", "uploading"}
    BY Zenon DEF TypeOK
  <2> QED BY <2>1, <2>2 DEF TypeOK
<1>2. FlowInv' /\ MintsInv'
  BY NoMintWaits DEF FlowInv, MintsInv, InFlight, Current, Known
<1>3. ClickInv'
  BY DEF ClickInv
<1>4. CountInv'
  BY DEF CountInv, Unanswered, InFlight, Current, Known
<1>5. DraftInv'
  BY DEF DraftInv, DraftsStayPrivate, Unanswered, InFlight, Current
<1>6. SendInv'
  <2>1. CASE Known
    BY <2>1 DEF SendInv, FlowInv, InFlight, Current, Known, Later, Carries, Carried
  <2>2. CASE ~Known
    <3>1. InFlight => chain # <<>> /\ chain[1] \in Mints /\ Minting
      <4> SUFFICES ASSUME InFlight PROVE chain # <<>> /\ chain[1] \in Mints /\ Minting
        OBVIOUS
      <4>1. chain # <<>> /\ 1 \in DOMAIN chain /\ Head(chain) = chain[1]
        BY Indexed DEF FlowInv, TypeOK
      <4> QED BY <4>1, <2>2 DEF FlowInv, Minting, InFlight, Current
    <3> QED BY <2>2, <3>1 DEF SendInv, InFlight, Current, Known
  <2> QED BY <2>1, <2>2
<1>7. PublishInv'
  <2>1. CASE Known
    BY <2>1 DEF PublishInv, Follows, Waits, InFlight, Current
  <2>2. CASE ~Known /\ chain = <<>>
    BY <2>2 DEF PublishInv
  <2>3. CASE ~Known /\ InFlight /\ chain # <<>>
    <3>1. \A i \in DOMAIN chain : chain[i] \in Mints
      BY <2>3 DEF FlowInv
    <3>2. Minting
      BY <2>3, <3>1, Indexed DEF Minting, InFlight, Current, TypeOK
    <3> QED BY <2>3, <3>1, <3>2 DEF PublishInv
  <2> QED BY <2>1, <2>2, <2>3 DEF Start, InFlight, Current
<1> QED BY <1>1, <1>2, <1>3, <1>4, <1>5, <1>6, <1>7

LEMMA ImageStep ==
  ASSUME IInv, image' \in {"idle", "minting", "uploading"},
         cover' \in {"idle", "minting", "uploading", "patching"},
         cover' \in {"uploading", "patching"} => Known,
         UNCHANGED <<version, vis, status, shadow, timer, attempt, pending, dirty, chain, button, chosen,
                     mounted, req, server, hist>>
  PROVE  IInv'
<1> USE DEF server, hist, IInv
<1>1. TypeOK'
  BY DEF TypeOK
<1>2. FlowInv' /\ MintsInv'
  BY DEF FlowInv, MintsInv, InFlight, Current, Known
<1>3. ClickInv'
  BY DEF ClickInv
<1>4. CountInv' /\ DraftInv'
  BY DEF CountInv, DraftInv, DraftsStayPrivate, Unanswered, InFlight, Current, Known
<1>5. SendInv' /\ PublishInv'
  BY DEF SendInv, Carries, Carried, Latest, Later, PublishInv, Follows, Waits, InFlight, Current, Known
<1> QED BY <1>1, <1>2, <1>3, <1>4, <1>5

(* A click or a drop puts its task at the end of the chain.                     *)
LEMMA EnqueueStep ==
  ASSUME IInv, ~Start, NEW task \in Task \ {"autosave"}, Enqueue(task),
         task \in Mints <=> ~Known,
         task \in Click => button = "idle" /\ timer' = FALSE,
         task \notin Click => UNCHANGED timer,
         button' = IF task \in Publication THEN "publish"
                   ELSE IF task \in Click THEN "save" ELSE button,
         chosen' = IF task \in Publication THEN vis ELSE chosen,
         image' \in {"minting", image}, cover' \in {"minting", cover},
         UNCHANGED <<version, vis, status, shadow, attempt, pending, dirty, mounted, req, server, hist>>
  PROVE  IInv'
<1> USE DEF server, hist, IInv
<1> DEFINE last == Len(chain) + 1
<1>1. /\ Len(chain) \in Nat /\ DOMAIN chain = 1 .. Len(chain) /\ chain' \in Seq(Task)
      /\ DOMAIN chain' = 1 .. last /\ chain'[last] = task /\ last \in Nat \ {0}
      /\ \A i \in DOMAIN chain : i \in DOMAIN chain' /\ chain'[i] = chain[i] /\ i # last
      /\ \A i \in DOMAIN chain' : i \in DOMAIN chain \/ i = last
      /\ last \in DOMAIN chain' /\ (InFlight => last # 1)
  <2>1. chain \in Seq(Task) /\ chain' = Append(chain, task)
    BY DEF TypeOK, Enqueue
  <2>2. InFlight => Len(chain) # 0
    BY <2>1 DEF FlowInv
  <2> QED BY <2>1, <2>2
<1> HIDE DEF last
<1>2. TypeOK'
  <2>1. /\ button' \in {"idle", "save", "publish"} /\ chosen' \in Vis /\ timer' \in BOOLEAN
        /\ image' \in {"idle", "minting", "uploading"}
        /\ cover' \in {"idle", "minting", "uploading", "patching"}
    BY Zenon DEF TypeOK
  <2> QED BY <1>1, <2>1 DEF TypeOK
<1>3. FlowInv'
  BY <1>1 DEF FlowInv, InFlight, Current, Known
<1>4. MintsInv'
  BY <1>1, NoMintWaits DEF MintsInv, InFlight, Current, Known
<1>5. ClickInv'
  BY <1>1 DEF ClickInv, Click, Publication
<1>6. CountInv' /\ DraftInv'
  BY <1>1 DEF CountInv, DraftInv, DraftsStayPrivate, Unanswered, InFlight, Current, Known, FlowInv
<1>7. SendInv'
  BY <1>1
  DEF SendInv, Carries, Carried, Latest, Later, Waits, Sending, InFlight, Current, Known, FlowInv,
      Click, Mints, Task
<1>8. PublishInv'
  BY <1>1 DEF PublishInv, Follows, Waits, InFlight, Current, Click, Publication, ClickInv
<1> QED BY <1>2, <1>3, <1>4, <1>5, <1>6, <1>7, <1>8

(* The page is left with nothing to flush.                                              *)
LEMMA PageLeft ==
  ASSUME IInv, mounted' \in BOOLEAN,
         UNCHANGED <<version, vis, status, shadow, timer, attempt, pending, dirty, chain, button, chosen,
                     image, cover, req, server, hist>>
  PROVE  IInv'
<1> USE DEF server, hist, IInv
<1>1. TypeOK'
  BY DEF TypeOK
<1>2. FlowInv' /\ MintsInv'
  BY DEF FlowInv, MintsInv, InFlight, Current, Known
<1>3. ClickInv'
  BY DEF ClickInv
<1>4. CountInv' /\ DraftInv'
  BY DEF CountInv, DraftInv, DraftsStayPrivate, Unanswered, InFlight, Current, Known
<1>5. SendInv' /\ PublishInv'
  BY DEF SendInv, Carries, Carried, Latest, Later, PublishInv, Follows, Waits, InFlight, Current, Known
<1> QED BY <1>1, <1>2, <1>3, <1>4, <1>5

(* A request of the cover buttons goes out, or its answer is taken.               *)
LEMMA CoverStep ==
  ASSUME IInv, Known, NEW q \in {Idle, [Idle EXCEPT !.at = "sent"]}, req' = [req EXCEPT !["cover"] = q],
         cover' \in {"idle", "patching"},
         UNCHANGED <<editor, button, chosen, image, mounted, server, hist>>
  PROVE  IInv'
<1> USE DEF editor, server, hist, IInv
<1>1. q \in Request /\ q.at \in {"none", "sent"} /\ ~q.publish
  BY IdleRequest DEF Request, Idle
<1>2. req' \in Requests /\ req'["cover"] = q /\ req'["chain"] = req["chain"]
  BY <1>1, Sent DEF Channel
<1>3. TypeOK'
  BY <1>2 DEF TypeOK, Requests, Request
<1>4. FlowInv' /\ MintsInv'
  BY <1>1, <1>2 DEF FlowInv, MintsInv, InFlight, Current, Known
<1>5. ClickInv'
  BY DEF ClickInv
<1>6. CountInv' /\ DraftInv'
  BY <1>1, <1>2 DEF CountInv, DraftInv, DraftsStayPrivate, Unanswered, InFlight, Current, Known
<1>7. SendInv' /\ PublishInv'
  BY <1>2 DEF SendInv, Carries, Carried, Latest, Later, PublishInv, Follows, Waits, InFlight, Current, Known
<1> QED BY <1>3, <1>4, <1>5, <1>6, <1>7

(* The armed timer sends what is pending.                                          *)
LEMMA FlushStep ==
  ASSUME IInv, ~Start, timer, timer' = FALSE, Flush(chain), mounted' \in BOOLEAN,
         UNCHANGED <<version, vis, status, shadow, attempt, button, chosen, image, cover, req, server, hist>>
  PROVE  IInv'
<1> USE DEF server, hist, IInv
<1>1. Known /\ \A i \in DOMAIN chain : chain[i] \notin Mints
  BY NoMintWaits DEF FlowInv
<1>2. CASE pending
  <2> USE <1>2 DEF Flush
  <2>1. TypeOK'
    <3>1. timer' \in BOOLEAN /\ dirty' \in BOOLEAN /\ pending' \in BOOLEAN
      BY Zenon DEF TypeOK
    <3> QED BY <3>1 DEF TypeOK
  <2>2. FlowInv' /\ MintsInv'
    BY <1>1 DEF FlowInv, MintsInv, InFlight, Current, Known
  <2>3. ClickInv'
    BY DEF ClickInv
  <2>4. CountInv' /\ DraftInv'
    BY DEF CountInv, DraftInv, DraftsStayPrivate, Unanswered, InFlight, Current, Known
  <2>5. SendInv' /\ PublishInv'
    BY DEF SendInv, Carries, Carried, Latest, Later, PublishInv, Follows, Waits, InFlight, Current, Known
  <2> QED BY <2>1, <2>2, <2>3, <2>4, <2>5
<1>3. CASE ~pending
  <2> DEFINE last == Len(chain) + 1
  <2>1. pending' = TRUE /\ dirty' = FALSE /\ chain' = Append(chain, "autosave")
    BY <1>3 DEF Flush
  <2>2. /\ Len(chain) \in Nat /\ DOMAIN chain = 1 .. Len(chain) /\ chain' \in Seq(Task)
        /\ DOMAIN chain' = 1 .. last /\ chain'[last] = "autosave" /\ last \in Nat \ {0}
        /\ \A i \in DOMAIN chain : i \in DOMAIN chain' /\ chain'[i] = chain[i] /\ i # last /\ i < last
        /\ \A i \in DOMAIN chain' : i \in DOMAIN chain \/ i = last
        /\ last \in DOMAIN chain' /\ (InFlight => last # 1)
    <3>1. chain \in Seq(Task) /\ "autosave" \in Task
      BY DEF TypeOK, Task
    <3>2. InFlight => Len(chain) # 0
      BY <3>1 DEF FlowInv
    <3> QED BY <2>1, <3>1, <3>2
  <2> HIDE DEF last
  <2>3. TypeOK'
    <3>1. timer' \in BOOLEAN /\ dirty' \in BOOLEAN /\ pending' \in BOOLEAN
      BY <2>1, Zenon DEF TypeOK
    <3> QED BY <2>2, <3>1 DEF TypeOK
  <2>4. FlowInv' /\ MintsInv'
    BY <1>1, <2>1, <2>2 DEF FlowInv, MintsInv, InFlight, Current, Known, Mints
  <2>5. ClickInv'
    BY <2>1, <2>2 DEF ClickInv, Click, Publication
  <2>6. CountInv' /\ DraftInv'
    BY <1>1, <2>2 DEF CountInv, DraftInv, DraftsStayPrivate, Unanswered, InFlight, Current, Known, FlowInv
  <2>7. SendInv'
    BY <1>1, <2>1, <2>2
    DEF SendInv, Carries, Carried, Latest, Later, Waits, Sending, InFlight, Current, Known, FlowInv
  <2>8. PublishInv'
    BY <2>1, <2>2 DEF PublishInv, Follows, Waits, InFlight, Current, Publication
  <2> QED BY <2>3, <2>4, <2>5, <2>6, <2>7, <2>8
<1> QED BY <1>2, <1>3

-----------------------------------------------------------------------------
(* A task of the chain sends its request.                                          *)

LEMMA StartPatchStep ==
  ASSUME IInv, StartPatch
  PROVE  IInv'
<1> USE DEF editor, page, server, IInv
<1> DEFINE sent == [at |-> "sent", text |-> version, draft |-> TRUE,
                    vis |-> IF Head(chain) = "publish" THEN chosen ELSE vis,
                    publish |-> Head(chain) = "publish" /\ status # "published"]
<1>1. /\ chain # <<>> /\ Head(chain) = chain[1] /\ 1 \in DOMAIN chain /\ DOMAIN chain = 1 .. Len(chain)
      /\ Len(chain) \in Nat
  BY Indexed DEF StartPatch, Start, TypeOK
<1>2. ~InFlight /\ chain[1] \notin Mints /\ Known
  BY <1>1 DEF StartPatch, Start, InFlight, Current, FlowInv
<1>3. /\ req' = [req EXCEPT !["chain"] = sent]
      /\ midMint' = (midMint /\ sent.vis # vis)
  BY DEF StartPatch
<1>4. /\ sent \in Request /\ sent.at = "sent" /\ sent.text = version
      /\ sent.vis = (IF chain[1] = "publish" THEN chosen ELSE vis)
      /\ sent.publish <=> chain[1] = "publish" /\ status # "published"
  <2> DEFINE publish == Head(chain) = "publish" /\ status # "published"
             tier == IF Head(chain) = "publish" THEN chosen ELSE vis
  <2>1. version \in Nat /\ tier \in Vis
    BY BoundsAreNats DEF TypeOK
  <2>2. publish \in BOOLEAN
    BY Zenon
  <2>3. /\ sent = [at |-> "sent", text |-> version, draft |-> TRUE, vis |-> tier, publish |-> publish]
        /\ tier = (IF chain[1] = "publish" THEN chosen ELSE vis)
        /\ publish <=> chain[1] = "publish" /\ status # "published"
    BY <1>1
  <2> HIDE DEF publish, tier, sent
  <2> QED BY <2>1, <2>2, <2>3 DEF Request
<1> HIDE DEF sent
<1>5. req' \in Requests /\ req'["chain"] = sent /\ req'["cover"] = req["cover"]
  BY <1>3, <1>4, Sent DEF Channel
<1>6. UNCHANGED <<editor, page, server, failures, told, raced, strayRows>> /\ midMint' \in BOOLEAN
  BY <1>3, Zenon DEF StartPatch, TypeOK
<1>7. TypeOK'
  BY <1>5, <1>6 DEF TypeOK, Requests, Request
<1>8. FlowInv'
  BY <1>1, <1>2, <1>4, <1>5, <1>6 DEF FlowInv, InFlight, Current, Known
<1>9. MintsInv'
  <2>1. \A i \in DOMAIN chain : chain[i] \notin Mints
    BY <1>1, <1>2 DEF MintsInv
  <2> QED BY <1>6, <2>1 DEF MintsInv
<1>10. ClickInv'
  BY <1>6 DEF ClickInv
<1>11. CountInv' /\ DraftInv'
  BY <1>2, <1>4, <1>5, <1>6
  DEF CountInv, DraftInv, DraftsStayPrivate, Unanswered, InFlight, Current, Known
<1>12. SendInv'
  <2>1. Current' = "sent" /\ InFlight' /\ chain'[1] \notin Mints
    BY <1>2, <1>4, <1>5, <1>6 DEF Current, InFlight
  <2>2. CASE sent.vis = vis
    BY <1>4, <1>5, <1>6, <2>1, <2>2 DEF SendInv, Carries
  <2>3. CASE sent.vis # vis
    <3>1. chain[1] = "publish" /\ chosen # vis
      BY <1>4, <2>3
    <3>2. Follows(1) \/ midMint
      BY <1>1, <1>2, <3>1 DEF PublishInv, Waits, Publication
    <3>3. CASE Follows(1)
      <4>1. Later'
        BY <1>1, <1>6, <3>3 DEF Follows, Later, Waits, Sending
      <4> QED BY <2>1, <4>1 DEF SendInv, Carries
    <3>4. CASE midMint
      <4>1. midMint'
        BY <1>3, <2>3, <3>4
      <4> QED BY <1>4, <1>5, <1>6, <2>1, <4>1 DEF SendInv, Carries
    <3> QED BY <3>2, <3>3, <3>4
  <2> QED BY <2>2, <2>3
<1>13. PublishInv'
  <2> SUFFICES ASSUME NEW i \in DOMAIN chain, chain[i] \in Publication, chain[i] = "publish" => i # 1
               PROVE  chosen = vis \/ Follows(i)'
    BY <1>4, <1>5, <1>6 DEF PublishInv, Waits, InFlight, Current
  <2>1. i # 1 /\ ~(\A j \in DOMAIN chain : j < i => chain[j] \in Mints)
    BY <1>1, <1>2 DEF Publication, Mints
  <2>2. chosen = vis \/ Follows(i)
    BY <1>2, <2>1 DEF PublishInv, Waits
  <2> QED BY <1>6, <2>2 DEF Follows
<1> QED BY <1>7, <1>8, <1>9, <1>10, <1>11, <1>12, <1>13

LEMMA StartMintStep ==
  ASSUME IInv, StartMint
  PROVE  IInv'
<1> USE DEF editor, page, server, hist, IInv, StartMint
<1> DEFINE sent == [Idle EXCEPT !.at = "sent", !.text = version]
<1>1. chain # <<>> /\ Head(chain) = chain[1] /\ 1 \in DOMAIN chain
  BY Indexed DEF Start, TypeOK
<1>2. ~InFlight /\ chain[1] \in Mints /\ ~Known
  BY <1>1 DEF Start, InFlight, Current, MintNeededNow
<1>3. sent \in Request /\ sent.at = "sent" /\ sent.text = version
  <2>1. version \in Nat
    BY BoundsAreNats DEF TypeOK
  <2> QED BY <2>1, IdleRequest DEF Request
<1>4. req' = [req EXCEPT !["chain"] = sent]
  OBVIOUS
<1> HIDE DEF sent
<1>5. req' \in Requests /\ req'["chain"] = sent /\ req'["cover"] = req["cover"]
  BY <1>3, <1>4, Sent DEF Channel
<1>6. UNCHANGED <<editor, page, server, hist>>
  OBVIOUS
<1> HIDE DEF StartMint
<1>7. TypeOK'
  BY <1>5, <1>6 DEF TypeOK, Requests, Request
<1>8. FlowInv' /\ MintsInv'
  BY <1>1, <1>2, <1>3, <1>5, <1>6 DEF FlowInv, MintsInv, InFlight, Current, Known
<1>9. ClickInv'
  BY <1>6 DEF ClickInv
<1>10. CountInv' /\ DraftInv'
  BY <1>2, <1>3, <1>5, <1>6
  DEF CountInv, DraftInv, DraftsStayPrivate, Unanswered, InFlight, Current, Known, Mints
<1>11. SendInv'
  BY <1>2, <1>3, <1>5, <1>6 DEF SendInv, InFlight, Current, Known
<1>12. PublishInv'
  BY <1>2, <1>6 DEF PublishInv, Follows, Waits, FlowInv, Mints
<1> QED BY <1>7, <1>8, <1>9, <1>10, <1>11, <1>12

-----------------------------------------------------------------------------
(* The head of the chain is done, and its answer, if there was one, taken.           *)

LEMMA Settled ==
  ASSUME IInv, NEW task, NEW at \in {"ok", "failed"}, Answered(task, at)
  PROVE  /\ chain # <<>> /\ chain[1] = task /\ 1 \in DOMAIN chain /\ Current = at /\ InFlight
         /\ ~InFlight' /\ req' \in Requests /\ req'["chain"] = Idle /\ req'["cover"] = req["cover"]
<1>1. chain # <<>> /\ Head(chain) = task /\ req["chain"].at = at /\ req' = [req EXCEPT !["chain"] = Idle]
  BY DEF Answered
<1>2. chain[1] = Head(chain) /\ 1 \in DOMAIN chain
  BY <1>1, Indexed DEF IInv, TypeOK
<1>3. req' \in Requests /\ req'["chain"] = Idle /\ req'["cover"] = req["cover"]
  BY <1>1, IdleRequest, Sent DEF Channel, IInv
<1> QED BY <1>1, <1>2, <1>3, IdleRequest DEF Current, InFlight

LEMMA Dropped ==
  ASSUME IInv, chain # <<>>, chain' = Tail(chain)
  PROVE  ChainGoes(1, "none")
BY Drops DEF IInv, TypeOK, ChainGoes

LEMMA Turned ==
  ASSUME IInv, chain # <<>>, NEW x \in Task, chain' = Append(Tail(chain), x)
  PROVE  ChainGoes(1, x)
BY Turns DEF IInv, TypeOK, ChainGoes

LEMMA InRange ==
  ASSUME IInv
  PROVE  /\ Len(chain) \in Nat /\ DOMAIN chain = 1 .. Len(chain)
         /\ \A i \in DOMAIN chain : chain[i] \in Task /\ i \in Nat \ {0}
BY Indexed DEF IInv, TypeOK

LEMMA Shifted ==
  ASSUME IInv, NEW x, ChainGoes(1, x)
  PROVE  /\ chain' \in Seq(Task)
         /\ \A i \in DOMAIN chain : i > 1 => i - 1 \in DOMAIN chain' /\ chain'[i - 1] = chain[i]
         /\ \A j \in DOMAIN chain' : \/ j + 1 \in DOMAIN chain /\ chain'[j] = chain[j + 1]
                                     \/ x # "none" /\ j = Len(chain) /\ chain'[j] = x
         /\ x # "none" => Len(chain) \in DOMAIN chain' /\ chain'[Len(chain)] = x
         /\ \A j \in DOMAIN chain' : j \in Nat \ {0}
<1>1. \A j \in DOMAIN chain' : j \in Nat \ {0}
  BY Indexed DEF ChainGoes, Goes
<1>2. Len(chain) \in Nat /\ Len(chain) + 1 - 1 = Len(chain)
  BY InRange
<1>3. \A j \in DOMAIN chain' : j + 1 = Len(chain) + 1 => j = Len(chain)
  BY <1>1, <1>2
<1> QED BY <1>1, <1>2, <1>3 DEF ChainGoes, Goes

(* What waited for the id goes on: of the tasks before a mint's all mint too, and so *)
(* a publication still comes after nothing but mints.                                *)
LEMMA AfterMintStep ==
  ASSUME IInv, NEW task \in Mints, chain # <<>>, chain[1] = task, AfterMint(task), ~InFlight', Known',
         ~timer, ~pending, \A j \in DOMAIN chain : chain[j] # "autosave",
         \A i, j \in DOMAIN chain : chain[i] \in Mints /\ j < i => chain[j] \in Mints,
         \A j \in DOMAIN chain : chain[1] = "mintPublish" => chain[j] \in Mints,
         UNCHANGED <<version, vis, timer, attempt, pending, dirty, chosen, midMint>>
  PROVE  /\ chain' \in Seq(Task) /\ MintsInv' /\ ClickInv' /\ PublishInv'
         /\ Later => Later'
<1> USE DEF IInv
<1> DEFINE x == IF task = "mintPublish" THEN "publish" ELSE "none"
<1>1. ChainGoes(1, x)
  <2>1. CASE task = "mintPublish"
    BY <2>1, Turned DEF AfterMint, Task
  <2>2. CASE task # "mintPublish"
    BY <2>2, Dropped DEF AfterMint
  <2> QED BY <2>1, <2>2
<1>2. /\ chain' \in Seq(Task)
      /\ \A i \in DOMAIN chain : i > 1 => i - 1 \in DOMAIN chain' /\ chain'[i - 1] = chain[i]
      /\ \A j \in DOMAIN chain' : \/ j + 1 \in DOMAIN chain /\ chain'[j] = chain[j + 1]
                                  \/ task = "mintPublish" /\ j = Len(chain) /\ chain'[j] = "publish"
      /\ task = "mintPublish" => Len(chain) \in DOMAIN chain' /\ chain'[Len(chain)] = "publish"
      /\ \A j \in DOMAIN chain' : j \in Nat \ {0}
  <2>1. (x # "none" <=> task = "mintPublish") /\ (x # "none" => x = "publish")
    OBVIOUS
  <2> HIDE DEF x
  <2> QED BY <1>1, <2>1, Shifted
<1> HIDE DEF x
<1>3. 1 \in DOMAIN chain
  BY InRange
<1>4. MintsInv'
  BY <1>2, InRange DEF MintsInv, Mints
<1>5. ClickInv'
  BY <1>2, <1>3, InRange DEF ClickInv, AfterMint, Click, Publication, Mints
<1>6. PublishInv'
  BY <1>2, <1>3, InRange DEF PublishInv, Follows, Waits, Publication, Mints, ClickInv, Click
<1>7. Later => Later'
  BY <1>2, <1>3, InRange DEF Later, Waits, Sending, Mints
<1> QED BY <1>2, <1>4, <1>5, <1>6, <1>7

LEMMA MintKnownStep ==
  ASSUME IInv, MintKnown
  PROVE  IInv'
<1> USE DEF page, server, hist, IInv
<1>1. chain # <<>> /\ Head(chain) = chain[1] /\ 1 \in DOMAIN chain
  BY Indexed DEF MintKnown, Start, TypeOK
<1>2. /\ ~InFlight /\ chain[1] \in Mints /\ Known /\ AfterMint(chain[1])
      /\ UNCHANGED <<version, vis, status, shadow, timer, attempt, pending, dirty, chosen, mounted, req,
                     server, hist>>
  BY <1>1 DEF MintKnown, Start, InFlight, Current, MintNeededNow
<1>3. /\ ~timer /\ ~pending /\ ~InFlight' /\ Known'
      /\ \A j \in DOMAIN chain : chain[j] # "autosave"
      /\ \A i, j \in DOMAIN chain : chain[i] \in Mints /\ j < i => chain[j] \in Mints
  BY <1>1, <1>2 DEF MintsInv, InFlight, Current, Known
<1>4. ASSUME chain[1] = "mintPublish", NEW j \in DOMAIN chain PROVE chain[j] \in Mints
  <2>1. chain[j] \in Click => chain[j] = "mintPublish"
    BY <1>1, <1>4 DEF ClickInv, Click
  <2> QED BY <1>3, <2>1, InRange DEF Task, Click, Mints
<1>5. /\ chain' \in Seq(Task) /\ MintsInv' /\ ClickInv' /\ PublishInv'
      /\ Later => Later'
  BY <1>1, <1>2, <1>3, <1>4, AfterMintStep
<1>6. TypeOK'
  <2>1. /\ button' \in {"idle", "save", "publish"} /\ image' \in {"idle", "minting", "uploading"}
        /\ cover' \in {"idle", "minting", "uploading", "patching"}
    BY <1>2 DEF AfterMint, TypeOK
  <2> QED BY <1>2, <1>5, <2>1 DEF TypeOK
<1>7. FlowInv'
  BY <1>2, <1>3 DEF FlowInv
<1>8. CountInv' /\ DraftInv'
  BY <1>2, <1>3
  DEF CountInv, DraftInv, DraftsStayPrivate, Unanswered, InFlight, Current, Known
<1>9. SendInv'
  BY <1>2, <1>3, <1>5 DEF SendInv, Latest, InFlight, Current, Known
<1> QED BY <1>5, <1>6, <1>7, <1>8, <1>9

LEMMA MintDoneStep ==
  ASSUME IInv, NEW task \in Mints, MintDone(task)
  PROVE  IInv'
<1> USE DEF server, hist, IInv
<1>1. /\ chain # <<>> /\ chain[1] = task /\ 1 \in DOMAIN chain /\ Current = "ok" /\ InFlight
      /\ ~InFlight' /\ req' \in Requests /\ req'["chain"] = Idle /\ req'["cover"] = req["cover"]
  BY Settled DEF MintDone
<1>2. /\ AfterMint(chain[1]) /\ status' = "draft" /\ shadow' = FALSE /\ told' = FALSE
      /\ UNCHANGED <<version, vis, timer, attempt, pending, dirty, chosen, mounted, server, failures,
                     midMint, raced, strayRows>>
  BY <1>1 DEF MintDone
<1>3. ~Known /\ Known'
  BY <1>1, <1>2 DEF FlowInv, Known
<1>4. ~timer /\ ~pending /\ \A j \in DOMAIN chain : chain[j] \in Mints
  BY <1>3, OthersPend DEF FlowInv
<1>5. /\ chain' \in Seq(Task) /\ MintsInv' /\ ClickInv' /\ PublishInv'
      /\ Later => Later'
  <2>1. \A j \in DOMAIN chain : chain[j] # "autosave"
    BY <1>4 DEF Mints
  <2> QED BY <1>1, <1>2, <1>3, <1>4, <2>1, AfterMintStep
<1>6. TypeOK'
  <2>1. /\ button' \in {"idle", "save", "publish"} /\ image' \in {"idle", "minting", "uploading"}
        /\ cover' \in {"idle", "minting", "uploading", "patching"}
    BY <1>2 DEF AfterMint, TypeOK
  <2> QED BY <1>1, <1>2, <1>5, <2>1 DEF TypeOK, Requests, Request
<1>7. FlowInv'
  BY <1>1, <1>3 DEF FlowInv
<1>8. CountInv'
  BY <1>1, <1>2, <1>3 DEF CountInv, Unanswered
<1>9. DraftInv'
  BY <1>1, <1>2, <1>3, IdleRequest DEF DraftInv, DraftsStayPrivate, Unanswered, Current, Known
<1>10. SendInv'
  BY <1>1, <1>2, <1>3 DEF SendInv, DraftInv, Unanswered, Latest
<1> QED BY <1>5, <1>6, <1>7, <1>8, <1>9, <1>10

(* A task is gone from the head of the chain, and no other came.                     *)
LEMMA TailStep ==
  ASSUME IInv, chain # <<>>, chain' = Tail(chain),
         button' \in {"idle", button}, chain[1] \in Click <=> button' = "idle" /\ button # "idle",
         pending' => pending /\ chain[1] # "autosave", UNCHANGED <<status, chosen, vis>>, InFlight,
         ~InFlight', chain[1] \in Mints => UNCHANGED midMint,
         \A i \in DOMAIN chain : chain[i] \in Publication /\ Follows(i) =>
           \/ timer' /\ (pending' => attempt' = 0)
           \/ pending' /\ dirty' /\ attempt' = 0
           \/ \E j \in DOMAIN chain : j > i /\ chain[j] = "autosave"
  PROVE  chain' \in Seq(Task) /\ MintsInv' /\ ClickInv' /\ PublishInv'
<1> USE DEF IInv
<1>1. /\ chain' \in Seq(Task)
      /\ \A i \in DOMAIN chain : i > 1 => i - 1 \in DOMAIN chain' /\ chain'[i - 1] = chain[i]
      /\ \A j \in DOMAIN chain' : j + 1 \in DOMAIN chain /\ chain'[j] = chain[j + 1]
      /\ \A j \in DOMAIN chain' : j \in Nat \ {0}
  BY Dropped, Shifted
<1>2. 1 \in DOMAIN chain
  BY InRange
<1>3. MintsInv'
  BY <1>1, <1>2, InRange DEF MintsInv, FlowInv, Known
<1>4. ClickInv'
  <2>1. \A i, j \in DOMAIN chain' : chain'[i] \in Click /\ chain'[j] \in Click => i = j
    <3> SUFFICES ASSUME NEW i \in DOMAIN chain', NEW j \in DOMAIN chain',
                        chain'[i] \in Click, chain'[j] \in Click
                 PROVE  i = j
      OBVIOUS
    <3>1. i + 1 = j + 1
      BY <1>1 DEF ClickInv
    <3> QED BY <1>1, <3>1
  <2>2. ASSUME NEW i \in DOMAIN chain', chain'[i] \in Click PROVE button' = button
    <3>1. i + 1 \in DOMAIN chain /\ chain[i + 1] \in Click /\ i + 1 # 1
      BY <1>1, <2>2
    <3>2. chain[1] \notin Click
      BY <1>2, <3>1 DEF ClickInv
    <3> QED BY <3>2
  <2>3. ASSUME pending' PROVE \E i \in DOMAIN chain' : chain'[i] = "autosave"
    <3>1. PICK i \in DOMAIN chain : chain[i] = "autosave"
      BY <2>3 DEF ClickInv
    <3>2. i > 1
      BY <2>3, <3>1, InRange
    <3> QED BY <1>1, <3>1, <3>2
  <2>4. Publication \subseteq Click /\ {"save", "mintSave"} \subseteq Click
    BY DEF Publication, Click
  <2> QED BY <1>1, <2>1, <2>2, <2>3, <2>4 DEF ClickInv
<1>5. PublishInv'
  <2> SUFFICES ASSUME NEW i \in DOMAIN chain', chain'[i] \in Publication
               PROVE  \/ chosen' = vis' \/ Follows(i)'
                      \/ midMint' /\ \A j \in DOMAIN chain' : j < i => chain'[j] \in Mints
    BY DEF PublishInv
  <2>1. i \in Nat \ {0} /\ i + 1 \in DOMAIN chain /\ chain[i + 1] \in Publication /\ i + 1 # 1
    BY <1>1
  <2>2. \/ chosen = vis \/ Follows(i + 1)
        \/ midMint /\ \A j \in DOMAIN chain : j < i + 1 => chain[j] \in Mints
    BY <2>1 DEF PublishInv, Waits
  <2>3. ASSUME NEW j \in DOMAIN chain, j > i + 1, chain[j] = "autosave" PROVE Follows(i)'
    <3>1. j > 1 /\ j - 1 > i
      BY <2>1, <2>3, InRange
    <3> QED BY <1>1, <2>3, <3>1 DEF Follows
  <2>4. Follows(i + 1) => Follows(i)'
    BY <2>1, <2>3 DEF Follows
  <2>5. ASSUME midMint, \A j \in DOMAIN chain : j < i + 1 => chain[j] \in Mints
        PROVE  midMint' /\ \A j \in DOMAIN chain' : j < i => chain'[j] \in Mints
    <3>1. chain[1] \in Mints
      BY <1>2, <2>1, <2>5
    <3>2. ASSUME NEW j \in DOMAIN chain', j < i PROVE chain'[j] \in Mints
      BY <1>1, <2>1, <2>5, <3>2
    <3> QED BY <2>5, <3>1, <3>2
  <2> QED BY <2>2, <2>4, <2>5
<1> QED BY <1>1, <1>3, <1>4, <1>5

LEMMA MintFailedStep ==
  ASSUME IInv, NEW task \in Mints, MintFailed(task)
  PROVE  IInv'
<1> USE DEF server, hist, IInv
<1>1. /\ chain # <<>> /\ chain[1] = task /\ 1 \in DOMAIN chain /\ Current = "failed" /\ InFlight
      /\ ~InFlight' /\ req' \in Requests /\ req'["chain"] = Idle /\ req'["cover"] = req["cover"]
  BY Settled DEF MintFailed
<1>2. /\ chain' = Tail(chain) /\ told' = TRUE
      /\ UNCHANGED <<version, vis, status, shadow, timer, attempt, pending, dirty, chosen, mounted, server,
                     failures, midMint, raced, strayRows>>
      /\ button' \in {"idle", button} /\ (task \in {"mintSave", "mintPublish"} => button' = "idle")
      /\ task \notin {"mintSave", "mintPublish"} => button' = button
      /\ image' \in {"idle", image} /\ cover' \in {"idle", cover}
  BY <1>1 DEF MintFailed
<1>3. ~Known /\ ~Known' /\ ~timer /\ ~pending
  BY <1>1, <1>2, OthersPend DEF FlowInv, Known
<1>4. chain' \in Seq(Task) /\ MintsInv' /\ ClickInv' /\ PublishInv'
  <2>1. chain[1] \in Click <=> task \in {"mintSave", "mintPublish"}
    BY <1>1 DEF Click, Mints
  <2>2. chain[1] \in Click => button # "idle"
    BY <1>1 DEF ClickInv, Click, Publication
  <2>3. chain[1] \in Click <=> button' = "idle" /\ button # "idle"
    BY <1>2, <2>1, <2>2
  <2> QED BY <1>1, <1>2, <1>3, <2>3, TailStep DEF Follows
<1>5. TypeOK'
  BY <1>1, <1>2, <1>4 DEF TypeOK, Requests, Request
<1>6. FlowInv'
  <2>1. \A j \in DOMAIN chain' : j + 1 \in DOMAIN chain /\ chain'[j] = chain[j + 1]
    BY <1>1, <1>2, Dropped, Shifted
  <2> QED BY <1>1, <1>2, <1>3, <2>1 DEF FlowInv
<1>7. CountInv'
  BY <1>1, <1>2, <1>3 DEF CountInv, Unanswered
<1>8. DraftInv'
  BY <1>1, <1>2, <1>3, IdleRequest DEF DraftInv, DraftsStayPrivate, Unanswered, Current, Known
<1>9. SendInv'
  BY <1>1, <1>2, <1>3 DEF SendInv
<1> QED BY <1>4, <1>5, <1>6, <1>7, <1>8, <1>9

(* Of what waits to be sent, the tasks behind the head still wait.                   *)
LEMMA LaterStays ==
  ASSUME IInv, chain # <<>>, InFlight, Later, ~InFlight',
         NEW x, ChainGoes(1, x),
         timer => timer' \/ (x \in Sending),
         pending /\ dirty => (pending' /\ dirty') \/ (x \in Sending)
  PROVE  Later'
<1>1. /\ \A i \in DOMAIN chain : i > 1 => i - 1 \in DOMAIN chain' /\ chain'[i - 1] = chain[i]
      /\ x # "none" => Len(chain) \in DOMAIN chain' /\ chain'[Len(chain)] = x
  BY Shifted
<1>2. ~InFlight' => \A j \in DOMAIN chain' : Waits(j)'
  BY DEF Waits
<1>3. CASE x \in Sending
  BY <1>1, <1>2, <1>3 DEF Later, Sending
<1>4. ASSUME NEW i \in DOMAIN chain, Waits(i), chain[i] \in Sending PROVE Later'
  <2>1. i > 1
    BY <1>4, InRange DEF Waits
  <2> QED BY <1>1, <1>2, <1>4, <2>1 DEF Later
<1> QED BY <1>3, <1>4 DEF Later, Waits

(* A write the server took has brought the latest fields, unless more comes.          *)
LEMMA WrittenThrough ==
  ASSUME IInv, InFlight, chain[1] \notin Mints, Current = "ok", ~InFlight', Later => Later',
         UNCHANGED <<row, version, vis, raced, midMint>>
  PROVE  told' \/ midMint' \/ Later' \/ Latest'
BY DEF IInv, SendInv, Carries, Carried, Latest

LEMMA AutosaveDoneStep ==
  ASSUME IInv, AutosaveDone
  PROVE  IInv'
<1> USE DEF page, server, IInv
<1>1. /\ chain # <<>> /\ chain[1] = "autosave" /\ 1 \in DOMAIN chain /\ Current = "ok" /\ InFlight
      /\ ~InFlight' /\ req' \in Requests /\ req'["chain"] = Idle /\ req'["cover"] = req["cover"]
  BY Settled DEF AutosaveDone
<1>2. /\ Refire /\ attempt' = 0 /\ told' = FALSE
      /\ UNCHANGED <<version, vis, status, shadow, timer, page, server, failures, midMint, raced, strayRows>>
  BY DEF AutosaveDone
<1>3. Known /\ Known' /\ \A j \in DOMAIN chain : chain[j] \notin Mints
  BY <1>1, <1>2 DEF FlowInv, MintsInv, Known, Mints
<1> DEFINE x == IF dirty THEN "autosave" ELSE "none"
<1>4. ChainGoes(1, x)
  BY <1>1, <1>2, Dropped, Turned DEF Refire, Task
<1>5. /\ chain' \in Seq(Task)
      /\ \A i \in DOMAIN chain : i > 1 => i - 1 \in DOMAIN chain' /\ chain'[i - 1] = chain[i]
      /\ \A j \in DOMAIN chain' : \/ j + 1 \in DOMAIN chain /\ chain'[j] = chain[j + 1]
                                  \/ chain'[j] = "autosave"
      /\ dirty => Len(chain) \in DOMAIN chain' /\ chain'[Len(chain)] = "autosave"
      /\ \A j \in DOMAIN chain' : j \in Nat \ {0}
  <2>1. (x # "none" <=> dirty) /\ (x # "none" => x = "autosave")
    OBVIOUS
  <2> HIDE DEF x
  <2> QED BY <1>4, <2>1, Shifted
<1>6. TypeOK'
  <2>1. attempt' \in 0 .. Retries /\ pending' \in BOOLEAN /\ dirty' \in BOOLEAN /\ told' \in BOOLEAN
    <3>1. attempt' \in 0 .. Retries
      BY <1>2, SomeRetries
    <3>2. pending' \in BOOLEAN /\ dirty' \in BOOLEAN /\ told' \in BOOLEAN
      BY <1>2, Zenon DEF Refire
    <3> QED BY <3>1, <3>2
  <2> QED BY <1>1, <1>2, <1>5, <2>1 DEF TypeOK, Requests, Request
<1>7. FlowInv'
  BY <1>1, <1>3, <1>5 DEF FlowInv
<1>8. MintsInv'
  BY <1>3, <1>5 DEF MintsInv, Mints
<1>9. ClickInv'
  <2>1. \A j \in DOMAIN chain' : chain'[j] # "autosave" => j + 1 \in DOMAIN chain /\ chain'[j] = chain[j + 1]
    BY <1>5
  <2>2. "autosave" \notin Click /\ Publication \subseteq Click /\ {"save", "mintSave"} \subseteq Click
    BY DEF Click, Publication
  <2>3. \A i, j \in DOMAIN chain' : chain'[i] \in Click /\ chain'[j] \in Click => i = j
    <3> SUFFICES ASSUME NEW i \in DOMAIN chain', NEW j \in DOMAIN chain',
                        chain'[i] \in Click, chain'[j] \in Click
                 PROVE  i = j
      OBVIOUS
    <3>1. i + 1 = j + 1
      BY <2>1, <2>2 DEF ClickInv
    <3> QED BY <1>5, <3>1
  <2>4. pending' => \E i \in DOMAIN chain' : chain'[i] = "autosave"
    BY <1>2, <1>5 DEF Refire
  <2> QED BY <1>2, <2>1, <2>2, <2>3, <2>4 DEF ClickInv
<1>10. CountInv'
  BY <1>1, <1>2, <1>3 DEF CountInv, Unanswered
<1>11. DraftInv'
  BY <1>1, <1>2, IdleRequest DEF DraftInv, DraftsStayPrivate, Unanswered, Current
<1>12. SendInv'
  <2>1. Later => Later'
    <3>1. dirty => x \in Sending
      BY DEF Sending
    <3> HIDE DEF x
    <3> QED BY <1>1, <1>2, <1>4, <3>1, LaterStays
  <2>2. told' \/ midMint' \/ Later' \/ Latest'
    BY <1>1, <1>2, <2>1, WrittenThrough DEF Mints
  <2> QED BY <1>1, <2>2 DEF SendInv
<1>13. PublishInv'
  <2> SUFFICES ASSUME NEW i \in DOMAIN chain', chain'[i] \in Publication
               PROVE  chosen' = vis' \/ Follows(i)'
    BY DEF PublishInv
  <2>1. i \in Nat \ {0} /\ i + 1 \in DOMAIN chain /\ chain[i + 1] \in Publication /\ i + 1 # 1 /\ 1 < i + 1
    BY <1>5 DEF Publication
  <2>2. chosen = vis \/ Follows(i + 1)
    BY <1>1, <2>1 DEF PublishInv, Waits, Mints
  <2>3. ASSUME NEW j \in DOMAIN chain, j > i + 1, chain[j] = "autosave" PROVE Follows(i)'
    <3>1. j > 1 /\ j - 1 > i
      BY <2>1, <2>3, InRange
    <3> QED BY <1>5, <2>3, <3>1 DEF Follows
  <2>4. ASSUME timer PROVE Follows(i)'
    BY <1>2, <2>4 DEF Follows
  <2>5. ASSUME dirty PROVE Follows(i)'
    <3>1. Len(chain) > i
      BY <2>1, InRange
    <3> QED BY <1>5, <2>5, <3>1 DEF Follows
  <2> QED BY <1>2, <2>2, <2>3, <2>4, <2>5 DEF Follows
<1> QED BY <1>6, <1>7, <1>8, <1>9, <1>10, <1>11, <1>12, <1>13

LEMMA AutosaveFailedStep ==
  ASSUME IInv, AutosaveFailed
  PROVE  IInv'
<1> USE DEF page, server, IInv
<1>1. /\ chain # <<>> /\ chain[1] = "autosave" /\ 1 \in DOMAIN chain /\ Current = "failed" /\ InFlight
      /\ ~InFlight' /\ req' \in Requests /\ req'["chain"] = Idle /\ req'["cover"] = req["cover"]
  BY Settled DEF AutosaveFailed
<1>2. /\ pending' = FALSE /\ chain' = Tail(chain) /\ told' = TRUE /\ BackOff
      /\ UNCHANGED <<version, vis, status, shadow, dirty, page, server, failures, midMint, raced, strayRows>>
  BY DEF AutosaveFailed
<1>3. Known /\ Known'
  BY <1>1, <1>2 DEF FlowInv, Known, Mints
<1>4. (timer => timer') /\ (attempt = 0 => timer') /\ timer' \in BOOLEAN /\ attempt' \in 0 .. Retries
  <2>1. CASE attempt < Retries
    <3>1. timer' = TRUE /\ attempt' = attempt + 1
      BY <1>2, <2>1 DEF BackOff
    <3> QED BY <2>1, <3>1, SomeRetries DEF TypeOK
  <2>2. CASE ~(attempt < Retries)
    <3>1. timer' = timer /\ attempt' = attempt
      BY <1>2, <2>2 DEF BackOff
    <3> QED BY <2>2, <3>1, SomeRetries DEF TypeOK
  <2> QED BY <2>1, <2>2
<1>5. chain' \in Seq(Task) /\ MintsInv' /\ ClickInv' /\ PublishInv'
  <2>1. chain[1] \notin Click /\ chain[1] \notin Mints
    BY <1>1 DEF Click, Mints
  <2>2. ASSUME NEW i \in DOMAIN chain, Follows(i)
        PROVE  \/ timer' /\ (pending' => attempt' = 0)
               \/ \E j \in DOMAIN chain : j > i /\ chain[j] = "autosave"
    BY <1>2, <1>4, <2>2 DEF Follows
  <2> QED BY <1>1, <1>2, <2>1, <2>2, TailStep
<1>6. TypeOK'
  <2>1. pending' \in BOOLEAN /\ told' \in BOOLEAN
    BY <1>2, Zenon
  <2> QED BY <1>1, <1>2, <1>4, <1>5, <2>1 DEF TypeOK, Requests, Request
<1>7. FlowInv'
  BY <1>1, <1>3 DEF FlowInv
<1>8. CountInv'
  BY <1>1, <1>2, <1>3 DEF CountInv, Unanswered
<1>9. DraftInv'
  BY <1>1, <1>2, IdleRequest DEF DraftInv, DraftsStayPrivate, Unanswered, Current
<1>10. SendInv'
  BY <1>1, <1>2 DEF SendInv
<1> QED BY <1>5, <1>6, <1>7, <1>8, <1>9, <1>10

(* A click is answered, well or not, its button free again.                           *)
LEMMA ClickGone ==
  ASSUME IInv, chain # <<>>, chain[1] \in {"save", "publish"}, InFlight, ~InFlight',
         button' \in {"idle", button}
  PROVE  /\ Known /\ button # "idle" /\ 1 \in DOMAIN chain
         /\ \A j \in DOMAIN chain : chain[j] \notin Mints
         /\ \A i \in DOMAIN chain : chain[i] \in Publication => i = 1
<1>1. 1 \in DOMAIN chain
  BY InRange
<1>2. Known /\ \A j \in DOMAIN chain : chain[j] \notin Mints
  BY <1>1 DEF IInv, FlowInv, MintsInv, Mints
<1>3. button # "idle" /\ \A i \in DOMAIN chain : chain[i] \in Publication => i = 1
  BY <1>1 DEF IInv, ClickInv, Publication, Click
<1> QED BY <1>1, <1>2, <1>3

LEMMA SaveDoneStep ==
  ASSUME IInv, SaveDone
  PROVE  IInv'
<1> USE DEF server, IInv
<1>1. /\ chain # <<>> /\ chain[1] = "save" /\ 1 \in DOMAIN chain /\ Current = "ok" /\ InFlight
      /\ ~InFlight' /\ req' \in Requests /\ req'["chain"] = Idle /\ req'["cover"] = req["cover"]
  BY Settled DEF SaveDone
<1>2. /\ chain' = Tail(chain) /\ button' = "idle" /\ attempt' = 0 /\ told' = FALSE
      /\ UNCHANGED <<version, vis, status, shadow, timer, pending, dirty, chosen, image, cover, mounted,
                     server, failures, midMint, raced, strayRows>>
  BY DEF SaveDone
<1>3. /\ Known /\ Known' /\ button # "idle"
      /\ \A i \in DOMAIN chain : chain[i] \in Publication => i = 1
  BY <1>1, <1>2, ClickGone DEF Known
<1>4. chain' \in Seq(Task) /\ MintsInv' /\ ClickInv' /\ PublishInv'
  <2>1. chain[1] \in Click /\ chain[1] \notin Mints /\ chain[1] \notin Publication
    BY <1>1 DEF Click, Mints, Publication
  <2> QED BY <1>1, <1>2, <1>3, <2>1, TailStep
<1>5. TypeOK'
  <2>1. attempt' \in 0 .. Retries
    BY <1>2, SomeRetries
  <2>2. told' \in BOOLEAN /\ button' \in {"idle", "save", "publish"}
    BY <1>2, Zenon
  <2>3. req' \in [Channel -> Request]
    BY <1>1 DEF Requests
  <2> QED BY <1>2, <1>4, <2>1, <2>2, <2>3 DEF TypeOK, Request
<1>6. FlowInv'
  BY <1>1, <1>3 DEF FlowInv
<1>7. CountInv'
  BY <1>1, <1>2, <1>3 DEF CountInv, Unanswered
<1>8. DraftInv'
  BY <1>1, <1>2, IdleRequest DEF DraftInv, DraftsStayPrivate, Unanswered, Current
<1>9. SendInv'
  <2>1. Later => Later'
    BY <1>1, <1>2, Dropped, LaterStays
  <2>2. told' \/ midMint' \/ Later' \/ Latest'
    BY <1>1, <1>2, <2>1, WrittenThrough DEF Mints
  <2> QED BY <1>1, <2>2 DEF SendInv
<1> QED BY <1>4, <1>5, <1>6, <1>7, <1>8, <1>9

LEMMA ClickFailedStep ==
  ASSUME IInv, NEW task \in {"save", "publish"}, ClickFailed(task)
  PROVE  IInv'
<1> USE DEF server, IInv
<1>1. /\ chain # <<>> /\ chain[1] = task /\ 1 \in DOMAIN chain /\ Current = "failed" /\ InFlight
      /\ ~InFlight' /\ req' \in Requests /\ req'["chain"] = Idle /\ req'["cover"] = req["cover"]
  BY Settled DEF ClickFailed
<1>2. /\ chain' = Tail(chain) /\ button' = "idle" /\ told' = TRUE
      /\ UNCHANGED <<version, vis, status, shadow, timer, attempt, pending, dirty, chosen, image, cover,
                     mounted, server, failures, midMint, raced, strayRows>>
  BY DEF ClickFailed
<1>3. Known /\ Known' /\ button # "idle"
  BY <1>1, <1>2, ClickGone DEF Known
<1>4. chain' \in Seq(Task) /\ MintsInv' /\ ClickInv' /\ PublishInv'
  <2>1. chain[1] \in Click /\ chain[1] \notin Mints /\ chain[1] # "autosave"
    BY <1>1 DEF Click, Mints
  <2> QED BY <1>1, <1>2, <1>3, <2>1, TailStep DEF Follows
<1>5. TypeOK'
  BY <1>1, <1>2, <1>4 DEF TypeOK, Requests, Request
<1>6. FlowInv'
  BY <1>1, <1>3 DEF FlowInv
<1>7. CountInv'
  BY <1>1, <1>2, <1>3 DEF CountInv, Unanswered
<1>8. DraftInv'
  BY <1>1, <1>2, IdleRequest DEF DraftInv, DraftsStayPrivate, Unanswered, Current
<1>9. SendInv'
  BY <1>1, <1>2 DEF SendInv
<1> QED BY <1>4, <1>5, <1>6, <1>7, <1>8, <1>9

(* The publication is over: the page unmounts, and an armed timer is flushed.           *)
LEMMA PublishDoneStep ==
  ASSUME IInv, PublishDone
  PROVE  IInv'
<1> USE DEF server, IInv
<1>1. /\ chain # <<>> /\ chain[1] = "publish" /\ 1 \in DOMAIN chain /\ Current = "ok" /\ InFlight
      /\ ~InFlight' /\ req' \in Requests /\ req'["chain"] = Idle /\ req'["cover"] = req["cover"]
  BY Settled DEF PublishDone
<1>2. /\ status' = "published" /\ attempt' = 0 /\ Unmount(Tail(chain)) /\ told' = FALSE
      /\ UNCHANGED <<version, vis, shadow, button, chosen, image, cover, server, failures, midMint, raced,
                     strayRows>>
  BY DEF PublishDone
<1>3. /\ Known /\ Known' /\ \A j \in DOMAIN chain : chain[j] \notin Mints
      /\ \A i \in DOMAIN chain : chain[i] \in Publication => i = 1
  BY <1>1, <1>2, ClickGone DEF Known
<1> DEFINE x == IF mounted /\ timer /\ ~pending THEN "autosave" ELSE "none"
<1>4. /\ ChainGoes(1, x)
      /\ mounted' \in BOOLEAN /\ timer' \in BOOLEAN /\ pending' \in BOOLEAN /\ dirty' \in BOOLEAN
      /\ timer => timer' \/ (x = "autosave") \/ (pending' /\ dirty')
      /\ pending' => pending \/ x = "autosave"
      /\ pending /\ dirty => pending' /\ dirty'
  <2>1. CASE mounted /\ timer /\ pending
    <3>1. /\ mounted' = FALSE /\ timer' = FALSE /\ dirty' = TRUE /\ chain' = Tail(chain)
          /\ pending' = pending
      BY <1>2, <2>1 DEF Unmount, Flush
    <3>2. x = "none"
      BY <2>1
    <3>3. mounted' \in BOOLEAN /\ timer' \in BOOLEAN /\ pending' \in BOOLEAN /\ dirty' \in BOOLEAN
      BY <3>1, Zenon DEF TypeOK
    <3> QED BY <1>1, <2>1, <3>1, <3>2, <3>3, Dropped
  <2>2. CASE mounted /\ timer /\ ~pending
    <3>1. /\ mounted' = FALSE /\ timer' = FALSE /\ dirty' = FALSE /\ pending' = TRUE
          /\ chain' = Append(Tail(chain), "autosave")
      BY <1>2, <2>2 DEF Unmount, Flush
    <3>2. x = "autosave" /\ "autosave" \in Task
      BY <2>2 DEF Task
    <3>3. mounted' \in BOOLEAN /\ timer' \in BOOLEAN /\ pending' \in BOOLEAN /\ dirty' \in BOOLEAN
      BY <3>1, Zenon
    <3> QED BY <1>1, <2>2, <3>1, <3>2, <3>3, Turned
  <2>3. CASE ~(mounted /\ timer)
    <3>1. mounted' = FALSE /\ chain' = Tail(chain) /\ timer' = timer /\ pending' = pending /\ dirty' = dirty
      BY <1>2, <2>3 DEF Unmount
    <3>2. x = "none"
      BY <2>3
    <3>3. mounted' \in BOOLEAN /\ timer' \in BOOLEAN /\ pending' \in BOOLEAN /\ dirty' \in BOOLEAN
      BY <3>1, Zenon DEF TypeOK
    <3> QED BY <1>1, <3>1, <3>2, <3>3, Dropped
  <2> QED BY <2>1, <2>2, <2>3
<1>5. x \in {"none", "autosave"}
  OBVIOUS
<1> HIDE DEF x
<1>6. /\ chain' \in Seq(Task)
      /\ \A i \in DOMAIN chain : i > 1 => i - 1 \in DOMAIN chain' /\ chain'[i - 1] = chain[i]
      /\ \A j \in DOMAIN chain' : \/ j + 1 \in DOMAIN chain /\ chain'[j] = chain[j + 1]
                                  \/ chain'[j] = "autosave"
      /\ x = "autosave" => Len(chain) \in DOMAIN chain' /\ chain'[Len(chain)] = "autosave"
      /\ \A j \in DOMAIN chain' : j \in Nat \ {0}
  BY <1>4, <1>5, Shifted
<1>7. \A j \in DOMAIN chain' : chain'[j] \notin Click /\ chain'[j] \notin Mints
  <2> TAKE j \in DOMAIN chain'
  <2>1. CASE chain'[j] = "autosave"
    BY <2>1 DEF Click, Mints
  <2>2. CASE j + 1 \in DOMAIN chain /\ chain'[j] = chain[j + 1]
    <3>1. j + 1 # 1 /\ chain[1] \in Click
      BY <1>1, <1>6 DEF Click
    <3> QED BY <1>1, <1>3, <2>2, <3>1 DEF ClickInv
  <2> QED BY <1>6, <2>1, <2>2
<1>8. TypeOK'
  <2>1. attempt' \in 0 .. Retries
    BY <1>2, SomeRetries
  <2> QED BY <1>1, <1>2, <1>4, <1>6, <2>1 DEF TypeOK, Requests, Request
<1>9. FlowInv' /\ MintsInv'
  BY <1>1, <1>3, <1>7 DEF FlowInv, MintsInv
<1>10. ClickInv'
  <2>1. ASSUME pending' PROVE \E i \in DOMAIN chain' : chain'[i] = "autosave"
    <3>1. CASE x = "autosave"
      BY <1>6, <3>1
    <3>2. CASE pending
      <4>1. PICK i \in DOMAIN chain : chain[i] = "autosave"
        BY <3>2 DEF ClickInv
      <4>2. i > 1
        BY <1>1, <4>1, InRange
      <4> QED BY <1>6, <4>1, <4>2
    <3> QED BY <1>4, <2>1, <3>1, <3>2
  <2>2. Publication \subseteq Click /\ {"save", "mintSave"} \subseteq Click
    BY DEF Click, Publication
  <2> QED BY <1>7, <2>1, <2>2 DEF ClickInv
<1>11. CountInv'
  BY <1>1, <1>2, <1>3 DEF CountInv, Unanswered
<1>12. DraftInv'
  BY <1>1, <1>2, IdleRequest DEF DraftInv, DraftsStayPrivate, Unanswered, Current
<1>13. SendInv'
  <2>1. x = "autosave" => x \in Sending
    BY DEF Sending
  <2>2. Later => Later'
    <3>1. CASE pending' /\ dirty'
      BY <3>1 DEF Later
    <3>2. CASE ~(pending' /\ dirty')
      BY <1>1, <1>4, <2>1, <3>2, LaterStays
    <3> QED BY <3>1, <3>2
  <2>3. told' \/ midMint' \/ Later' \/ Latest'
    BY <1>1, <1>2, <2>2, WrittenThrough DEF Mints
  <2> QED BY <1>1, <2>3 DEF SendInv
<1>14. PublishInv'
  BY <1>7 DEF PublishInv, Publication, Click
<1> QED BY <1>8, <1>9, <1>10, <1>11, <1>12, <1>13, <1>14

-----------------------------------------------------------------------------
(* The server's steps leave the browser alone.                                         *)

LEMMA BrowserKept ==
  ASSUME IInv, UNCHANGED <<editor, page, midMint>>, InFlight' <=> InFlight
  PROVE  /\ MintsInv' /\ ClickInv' /\ PublishInv' /\ Later' = Later /\ Known' = Known
<1> USE DEF editor, page, IInv
<1>1. MintsInv'
  BY DEF MintsInv, Known
<1>2. ClickInv'
  BY DEF ClickInv
<1>3. PublishInv'
  BY DEF PublishInv, Follows, Waits
<1>4. Later' = Later
  BY DEF Later, Waits
<1>5. Known' = Known
  BY DEF Known
<1> QED BY <1>1, <1>2, <1>3, <1>4, <1>5

LEMMA CreateStep ==
  ASSUME IInv, CreateArticle
  PROVE  IInv'
<1> USE DEF editor, page, hist, IInv
<1>1. /\ chain # <<>> /\ Head(chain) \in Mints /\ Current = "sent"
      /\ row' = [text |-> req["chain"].text, vis |-> Private, draft |-> TRUE] /\ rows' = rows + 1
      /\ req' = [req EXCEPT !["chain"].at = "ok"]
      /\ UNCHANGED <<editor, page, hist>>
  BY DEF CreateArticle, Minting, Current
<1>2. chain[1] \in Mints /\ InFlight /\ ~Known
  BY <1>1, Indexed DEF TypeOK, InFlight, FlowInv
<1>3. /\ req' \in Requests /\ req'["cover"] = req["cover"] /\ req'["chain"].at = "ok"
      /\ req'["chain"].text = req["chain"].text /\ req'["chain"].vis = req["chain"].vis
  BY <1>1, Advanced DEF Channel
<1>4. Current' = "ok" /\ InFlight'
  BY <1>3 DEF Current, InFlight
<1>5. MintsInv' /\ ClickInv' /\ PublishInv' /\ Known' = Known
  BY <1>1, <1>2, <1>4, BrowserKept
<1>6. TypeOK'
  <2>1. row' \in [text : Nat, vis : Vis, draft : BOOLEAN] /\ rows' \in Nat
    BY <1>1, PrivateIsATier DEF TypeOK, Channel
  <2> QED BY <1>1, <1>3, <2>1 DEF TypeOK, Requests, Request
<1>7. FlowInv'
  BY <1>1, <1>2, <1>3, <1>4, <1>5 DEF FlowInv
<1>8. CountInv'
  BY <1>1, <1>2, <1>4, <1>5 DEF CountInv, Unanswered, TypeOK
<1>9. DraftInv'
  BY <1>1, <1>2, <1>3, <1>4 DEF DraftInv, DraftsStayPrivate, FlowInv, Known, Mints
<1>10. SendInv'
  BY <1>1, <1>2, <1>3, <1>4, <1>5 DEF SendInv
<1> QED BY <1>5, <1>6, <1>7, <1>8, <1>9, <1>10

LEMMA ReadStep ==
  ASSUME IInv, NEW ch \in Channel, ReadArticle(ch)
  PROVE  IInv'
<1> USE DEF editor, page, server, hist, IInv
<1>1. /\ req[ch].at = "sent" /\ (ch = "chain" => ~Minting)
      /\ req' = [req EXCEPT ![ch].at = "read", ![ch].draft = row.draft]
      /\ UNCHANGED <<editor, page, server, hist>>
  BY DEF ReadArticle
<1> DEFINE q == [req[ch] EXCEPT !.at = "read", !.draft = row.draft]
<1>2. /\ q \in Request /\ q.at = "read" /\ q.text = req[ch].text /\ q.vis = req[ch].vis
      /\ q.publish = req[ch].publish /\ q.draft = row.draft
  BY DEF TypeOK, Request
<1>3. req' = [req EXCEPT ![ch] = q]
  BY <1>1
<1> HIDE DEF q
<1>4. req' \in Requests /\ req'[ch] = q /\ \A c \in Channel \ {ch} : req'[c] = req[c]
  BY <1>2, <1>3, Sent
<1>5. InFlight' <=> InFlight
  BY <1>1, <1>2, <1>4 DEF InFlight, Current, Channel
<1>6. MintsInv' /\ ClickInv' /\ PublishInv' /\ Later' = Later /\ Known' = Known
  BY <1>1, <1>5, BrowserKept
<1>7. TypeOK'
  BY <1>1, <1>4 DEF TypeOK, Requests, Request
<1>8. CASE ch = "chain"
  <2>1. /\ req'["chain"] = q /\ req'["cover"] = req["cover"] /\ Current = "sent" /\ Current' = "read"
        /\ InFlight
    BY <1>1, <1>2, <1>4, <1>8 DEF Channel, Current, InFlight
  <2>2. chain # <<>> /\ chain[1] \notin Mints
    BY <1>1, <1>8, <2>1, Indexed DEF FlowInv, Minting, TypeOK, Current
  <2>3. FlowInv' /\ CountInv'
    BY <1>1, <1>2, <1>5, <1>6, <2>1, <2>2 DEF FlowInv, CountInv, Unanswered
  <2>4. DraftInv'
    BY <1>1, <1>2, <1>8, <2>1, <2>2 DEF DraftInv, DraftsStayPrivate, Unanswered
  <2>5. SendInv'
    BY <1>1, <1>2, <1>5, <1>6, <1>8, <2>1, <2>2 DEF SendInv, Carries
  <2> QED BY <1>6, <1>7, <2>3, <2>4, <2>5
<1>9. CASE ch = "cover"
  <2>1. req'["cover"] = q /\ req'["chain"] = req["chain"] /\ Current' = Current
    BY <1>4, <1>9 DEF Channel, Current
  <2>2. FlowInv'
    BY <1>1, <1>2, <1>5, <1>6, <1>9, <2>1 DEF FlowInv
  <2>3. CountInv'
    BY <1>1, <1>5, <1>6, <2>1 DEF CountInv, Unanswered
  <2>4. DraftInv'
    BY <1>1, <1>2, <1>5, <1>9, <2>1 DEF DraftInv, DraftsStayPrivate, Unanswered
  <2>5. SendInv'
    BY <1>1, <1>5, <1>6, <2>1 DEF SendInv, Carries, Carried, Latest
  <2> QED BY <1>6, <1>7, <2>2, <2>3, <2>4, <2>5
<1> QED BY <1>8, <1>9 DEF Channel

LEMMA UpdateStep ==
  ASSUME IInv, NEW ch \in Channel, UpdateArticle(ch)
  PROVE  IInv'
<1> USE DEF editor, page, IInv
<1> DEFINE new == [text |-> IF ch = "cover" THEN row.text ELSE req[ch].text,
                   vis |-> VisibilityAfter(ch),
                   draft |-> row.draft /\ ~req[ch].publish]
<1>1. /\ req[ch].at = "read" /\ row' = new
      /\ req' = [req EXCEPT ![ch].at = "ok"]
      /\ raced' = (IF ch = "cover" THEN raced \/ (req[ch].draft /\ ~row.draft) ELSE FALSE)
      /\ UNCHANGED <<editor, page, rows, failures, told, midMint, strayRows>>
  BY DEF UpdateArticle
<1>2. /\ req' \in Requests /\ \A c \in Channel \ {ch} : req'[c] = req[c]
      /\ req'[ch].at = "ok" /\ req'[ch].text = req[ch].text /\ req'[ch].vis = req[ch].vis
      /\ req'[ch].publish = req[ch].publish /\ req'[ch].draft = req[ch].draft
  BY <1>1, Advanced
<1>3. /\ new.text = (IF ch = "cover" THEN row.text ELSE req[ch].text)
      /\ new.draft <=> row.draft /\ ~req[ch].publish
      /\ req[ch].draft /\ ~req[ch].publish => new.vis = Private
      /\ ~(req[ch].draft /\ ~req[ch].publish) =>
           new.vis = (IF ch = "cover" THEN row.vis ELSE req[ch].vis)
  <2> DEFINE tier == VisibilityAfter(ch)
             draft == row.draft /\ ~req[ch].publish
  <2>1. /\ req[ch].draft /\ ~req[ch].publish => tier = Private
        /\ ~(req[ch].draft /\ ~req[ch].publish) =>
             tier = (IF ch = "cover" THEN row.vis ELSE req[ch].vis)
    BY DEF VisibilityAfter
  <2>2. draft <=> row.draft /\ ~req[ch].publish
    OBVIOUS
  <2>3. new = [text |-> IF ch = "cover" THEN row.text ELSE req[ch].text, vis |-> tier, draft |-> draft]
    OBVIOUS
  <2> HIDE DEF tier, draft, new
  <2>4. /\ new.text = (IF ch = "cover" THEN row.text ELSE req[ch].text) /\ new.vis = tier
        /\ new.draft = draft
    BY <2>3
  <2> QED BY <2>1, <2>2, <2>4
<1>4. new \in [text : Nat, vis : Vis, draft : BOOLEAN]
  <2>1. (row.draft /\ ~req[ch].publish) \in BOOLEAN
    BY Zenon
  <2>2. (IF ch = "cover" THEN row.text ELSE req[ch].text) \in Nat /\ VisibilityAfter(ch) \in Vis
    BY PrivateIsATier DEF TypeOK, VisibilityAfter
  <2> QED BY <2>1, <2>2
<1> HIDE DEF new
<1>5. InFlight' <=> InFlight
  BY <1>1, <1>2 DEF InFlight, Current, Channel
<1>6. MintsInv' /\ ClickInv' /\ PublishInv' /\ Later' = Later /\ Known' = Known
  BY <1>1, <1>5, BrowserKept
<1>7. TypeOK'
  <2>1. raced' \in BOOLEAN
    BY <1>1, Zenon DEF TypeOK
  <2>2. req' \in [Channel -> Request] /\ row' \in [text : Nat, vis : Vis, draft : BOOLEAN]
    BY <1>1, <1>2, <1>4 DEF Requests
  <2>3. UNCHANGED <<editor, page, rows, failures, told, midMint, strayRows>>
    BY <1>1
  <2> QED BY <2>1, <2>2, <2>3 DEF TypeOK, Request
<1>8. CASE ch = "chain"
  <2>1. /\ req'["cover"] = req["cover"] /\ Current = "read" /\ Current' = "ok" /\ InFlight
        /\ raced' = FALSE
    BY <1>1, <1>2, <1>8 DEF Channel, Current, InFlight
  <2>2. chain[1] \notin Mints
    BY <2>1 DEF FlowInv
  <2>3. FlowInv' /\ CountInv'
    BY <1>1, <1>5, <1>6, <2>1, <2>2 DEF FlowInv, CountInv, Unanswered
  <2>4. DraftInv'
    <3>1. req["chain"].draft = row.draft
      BY <2>1 DEF DraftInv
    <3>2. DraftsStayPrivate'
      BY <1>1, <1>3, <1>8, <3>1 DEF DraftsStayPrivate
    <3>3. new.draft => row.draft
      BY <1>3
    <3>4. chain[1] = "publish" => ~new.draft
      BY <1>3, <1>8, <2>1 DEF DraftInv
    <3> QED BY <1>1, <2>1, <2>2, <3>2, <3>3, <3>4 DEF DraftInv, Unanswered
  <2>5. SendInv'
    <3>1. req["chain"].draft = row.draft
      BY <2>1 DEF DraftInv
    <3>2. Carried'
      BY <1>1, <1>2, <1>3, <1>8, <3>1 DEF Carried
    <3>3. Carries'
      BY <1>1, <1>2, <1>6, <1>8, <2>1, <2>2 DEF SendInv, Carries
    <3> QED BY <1>1, <1>5, <2>1, <2>2, <3>2, <3>3 DEF SendInv
  <2> QED BY <1>6, <1>7, <2>3, <2>4, <2>5
<1>9. CASE ch = "cover"
  <2>1. /\ req'["chain"] = req["chain"] /\ Current' = Current
        /\ ~req["cover"].publish /\ Known
    BY <1>1, <1>2, <1>9 DEF Channel, Current, FlowInv
  <2>2. /\ new.text = row.text /\ new.draft = row.draft
        /\ req["cover"].draft => new.vis = Private
        /\ ~req["cover"].draft => new.vis = row.vis
    <3>1. new.draft \in BOOLEAN /\ row.draft \in BOOLEAN
      BY <1>4 DEF TypeOK
    <3> QED BY <1>3, <1>9, <2>1, <3>1
  <2>3. (row.draft => req["cover"].draft) /\ (raced => raced') /\ (req["cover"].draft /\ ~row.draft => raced')
    BY <1>1, <1>9 DEF DraftInv
  <2>4. FlowInv' /\ CountInv'
    BY <1>1, <1>2, <1>5, <1>6, <1>9, <2>1 DEF FlowInv, CountInv, Unanswered
  <2>5. DraftInv'
    BY <1>1, <1>2, <1>5, <1>9, <2>1, <2>2, <2>3 DEF DraftInv, DraftsStayPrivate, Unanswered
  <2>6. SendInv'
    BY <1>1, <1>5, <1>6, <2>1, <2>2, <2>3 DEF SendInv, Carries, Carried, Latest
  <2> QED BY <1>6, <1>7, <2>4, <2>5, <2>6
<1> QED BY <1>8, <1>9 DEF Channel

(* A create that was carried out and whose answer does not come leaves its row behind.  *)
LEMMA FailsStep ==
  ASSUME IInv, NEW ch \in Channel, RequestFails(ch)
  PROVE  IInv'
<1> USE DEF editor, page, server, IInv
<1>1. /\ req[ch].at \in {"sent", "read", "ok"} /\ failures < MaxFailures /\ failures' = failures + 1
      /\ req' = [req EXCEPT ![ch].at = "failed"]
      /\ strayRows' = IF ch = "chain" /\ Minting /\ req[ch].at = "ok" THEN strayRows + 1 ELSE strayRows
      /\ UNCHANGED <<editor, page, server, told, midMint, raced>>
  BY DEF RequestFails
<1>2. /\ req' \in Requests /\ \A c \in Channel \ {ch} : req'[c] = req[c]
      /\ req'[ch].at = "failed" /\ req'[ch].publish = req[ch].publish
  BY <1>1, Advanced
<1>3. InFlight' <=> InFlight
  BY <1>1, <1>2 DEF InFlight, Current, Channel
<1>4. MintsInv' /\ ClickInv' /\ PublishInv' /\ Later' = Later /\ Known' = Known
  BY <1>1, <1>3, BrowserKept
<1>5. TypeOK'
  BY <1>1, <1>2, BoundsAreNats DEF TypeOK, Requests, Request
<1>6. CASE ch = "chain"
  <2>1. /\ req'["cover"] = req["cover"] /\ Current' = "failed" /\ InFlight /\ Current = req[ch].at
    BY <1>1, <1>2, <1>6 DEF Channel, Current, InFlight
  <2>2. FlowInv'
    BY <1>1, <1>3, <1>4, <2>1 DEF FlowInv
  <2>3. Unanswered <=> Minting /\ req[ch].at = "ok"
    BY <2>1, Indexed DEF Unanswered, Minting, FlowInv, TypeOK, Current
  <2>4. CountInv'
    <3>1. Unanswered => ~Known
      BY DEF Unanswered, FlowInv
    <3> QED BY <1>1, <1>4, <1>6, <2>1, <2>3, <3>1 DEF CountInv, Unanswered, TypeOK
  <2>5. DraftInv' /\ SendInv'
    BY <1>1, <1>3, <2>1 DEF DraftInv, DraftsStayPrivate, Unanswered, SendInv
  <2> QED BY <1>4, <1>5, <2>2, <2>4, <2>5
<1>7. CASE ch = "cover"
  <2>1. req'["chain"] = req["chain"] /\ Current' = Current /\ strayRows' = strayRows
    BY <1>1, <1>2, <1>7 DEF Channel, Current
  <2>2. FlowInv' /\ CountInv'
    BY <1>1, <1>2, <1>3, <1>4, <1>7, <2>1 DEF FlowInv, CountInv, Unanswered
  <2>3. DraftInv'
    BY <1>1, <1>2, <1>3, <1>7, <2>1 DEF DraftInv, DraftsStayPrivate, Unanswered
  <2>4. SendInv'
    BY <1>1, <1>3, <1>4, <2>1 DEF SendInv, Carries, Carried, Latest
  <2> QED BY <1>4, <1>5, <2>2, <2>3, <2>4
<1> QED BY <1>6, <1>7 DEF Channel

-----------------------------------------------------------------------------
(* The steps together.                                                                  *)

LEMMA InitHolds ==
  ASSUME Init
  PROVE  IInv
<1> USE DEF Init, Known, InFlight, Current, Idle, Channel
<1>1. TypeOK
  <2>1. /\ version \in 0 .. MaxEdits /\ attempt \in 0 .. Retries /\ failures \in 0 .. MaxFailures
        /\ chain \in Seq(Task) /\ strayRows \in Nat /\ rows \in Nat /\ chosen \in Vis
    BY PrivateIsATier, SomeRetries, BoundsAreNats
  <2>2. req \in [Channel -> Request]
    BY PrivateIsATier DEF Request
  <2>3. (status # "published") \in BOOLEAN
    BY Zenon
  <2>4. row \in [text : Nat, vis : Vis, draft : BOOLEAN]
    BY <2>3
  <2> QED BY <2>1, <2>2, <2>4, Zenon DEF TypeOK, Request
<1>2. DOMAIN chain = {} /\ req["chain"] = Idle /\ req["cover"] = Idle
  OBVIOUS
<1>3. FlowInv /\ MintsInv /\ ClickInv /\ PublishInv
  BY <1>2 DEF FlowInv, MintsInv, ClickInv, PublishInv
<1>4. CountInv
  BY <1>2 DEF CountInv, Unanswered
<1>5. DraftInv
  BY <1>2 DEF DraftInv, DraftsStayPrivate, Unanswered
<1>6. SendInv
  BY <1>2 DEF SendInv, Latest
<1> QED BY <1>1, <1>3, <1>4, <1>5, <1>6 DEF IInv

LEMMA AuthorStep ==
  ASSUME IInv, Author
  PROVE  IInv'
<1>1. CASE Edit
  <2>1. vis' \in Vis /\ image' \in {"idle", image}
    BY <1>1 DEF Edit, page, IInv, TypeOK
  <2> QED BY <1>1, <2>1, FieldStep DEF Edit, page
<1>2. ASSUME NEW v \in Vis, PickVisibility(v) PROVE IInv'
  BY <1>2, FieldStep DEF PickVisibility, page
<1>3. CASE ClickSave
  <2>1. PICK task \in {"save", "mintSave"} : task = (IF Known THEN "save" ELSE "mintSave")
    OBVIOUS
  <2>2. /\ task \in Task \ {"autosave"} /\ (task \in Mints <=> ~Known)
        /\ task \in Click /\ task \notin Publication
    BY <2>1 DEF Task, Mints, Click, Publication
  <2> QED BY <1>3, <2>1, <2>2, EnqueueStep DEF ClickSave
<1>4. CASE ClickPublish
  <2>1. PICK task \in {"publish", "mintPublish"} : task = (IF Known THEN "publish" ELSE "mintPublish")
    OBVIOUS
  <2>2. /\ task \in Task \ {"autosave"} /\ (task \in Mints <=> ~Known)
        /\ task \in Click /\ task \in Publication
    BY <2>1 DEF Task, Mints, Click, Publication
  <2> QED BY <1>4, <2>1, <2>2, EnqueueStep DEF ClickPublish
<1>5. CASE DropImage /\ Known
  BY <1>5, ImageStep DEF DropImage, IInv, FlowInv, TypeOK
<1>6. CASE DropImage /\ ~Known
  <2>1. "mintImage" \in Task \ {"autosave"} /\ "mintImage" \in Mints /\ "mintImage" \notin Click
        /\ "mintImage" \notin Publication
    BY DEF Task, Mints, Click, Publication
  <2> QED BY <1>6, <2>1, EnqueueStep DEF DropImage
<1>7. CASE ChooseCover /\ Known
  BY <1>7, ImageStep DEF ChooseCover, IInv, FlowInv, TypeOK
<1>8. CASE ChooseCover /\ ~Known
  <2>1. "mintCover" \in Task \ {"autosave"} /\ "mintCover" \in Mints /\ "mintCover" \notin Click
        /\ "mintCover" \notin Publication
    BY DEF Task, Mints, Click, Publication
  <2> QED BY <1>8, <2>1, EnqueueStep DEF ChooseCover
<1>9. CASE RemoveCover
  BY <1>9, CoverStep DEF RemoveCover, SendCover
<1>10. CASE Leave
  <2>1. CASE timer
    BY <1>10, <2>1, FlushStep DEF Leave, Unmount
  <2>2. CASE ~timer
    <3>1. mounted' = FALSE /\ UNCHANGED <<chain, timer, pending, dirty>>
      BY <1>10, <2>2 DEF Leave, Unmount
    <3>2. UNCHANGED <<version, vis, status, shadow, attempt, button, chosen, image, cover, req, server, hist>>
      BY <1>10 DEF Leave
    <3> QED BY <3>1, <3>2, PageLeft
  <2> QED BY <2>1, <2>2
<1> QED BY <1>1, <1>2, <1>3, <1>4, <1>5, <1>6, <1>7, <1>8, <1>9, <1>10 DEF Author

LEMMA UploadStep ==
  ASSUME IInv, Uploads
  PROVE  IInv'
<1>1. CASE InsertImage /\ SetField
  BY <1>1, FieldStep DEF InsertImage, IInv, TypeOK
<1>2. CASE InsertImage /\ ~SetField
  BY <1>2, ImageStep DEF InsertImage, IInv, TypeOK, FlowInv
<1>3. CASE CoverUploaded
  <2>1. Known
    BY <1>3 DEF CoverUploaded, IInv, FlowInv
  <2>2. CASE SendCover
    BY <1>3, <2>1, <2>2, CoverStep DEF CoverUploaded, SendCover
  <2>3. CASE ~SendCover
    <3>1. cover' = "idle" /\ UNCHANGED <<req, editor, button, chosen, image, mounted, server, hist>>
      BY <1>3, <2>3 DEF CoverUploaded
    <3>2. image' \in {"idle", "minting", "uploading"}
      BY <3>1 DEF IInv, TypeOK
    <3> QED BY <3>1, <3>2, ImageStep DEF editor
  <2> QED BY <2>2, <2>3
<1>4. CASE CoverAnswered
  <2>1. Known
    BY <1>4 DEF CoverAnswered, IInv, FlowInv
  <2> QED BY <1>4, <2>1, CoverStep DEF CoverAnswered
<1> QED BY <1>1, <1>2, <1>3, <1>4 DEF Uploads

(* The composer, its write chain and the server keep the inductive invariant.             *)
THEOREM Inductive == Spec => []IInv
<1>1. Init => IInv
  BY InitHolds
<1>2. IInv /\ [Next]_vars => IInv'
  <2> SUFFICES ASSUME IInv, [Next]_vars PROVE IInv'
    OBVIOUS
  <2>1. CASE Author
    BY <2>1, AuthorStep
  <2>2. CASE TimerFires
    <3>1. mounted' \in BOOLEAN
      BY <2>2 DEF TimerFires, page, IInv, TypeOK
    <3> QED BY <2>2, <3>1, FlushStep DEF TimerFires, page
  <2>3. CASE Hook
    BY <2>3, StartPatchStep, StartMintStep, MintKnownStep, MintDoneStep, MintFailedStep, AutosaveDoneStep,
       AutosaveFailedStep, SaveDoneStep, PublishDoneStep, ClickFailedStep
    DEF Hook
  <2>4. CASE Uploads
    BY <2>4, UploadStep
  <2>5. CASE CreateArticle
    BY <2>5, CreateStep
  <2>6. ASSUME NEW ch \in Channel, Serve(ch) \/ RequestFails(ch) PROVE IInv'
    BY <2>6, ReadStep, UpdateStep, FailsStep DEF Serve
  <2>7. CASE UNCHANGED vars
    <3>1. UNCHANGED <<version, vis, status, shadow, timer, attempt, pending, dirty, chain, button, chosen,
                      mounted, req, server, hist>> /\ UNCHANGED <<image, cover>>
      BY <2>7 DEF vars, editor, page
    <3>2. /\ image' \in {"idle", "minting", "uploading"}
          /\ cover' \in {"idle", "minting", "uploading", "patching"}
          /\ cover' \in {"uploading", "patching"} => Known
      BY <3>1 DEF IInv, TypeOK, FlowInv
    <3> QED BY <3>1, <3>2, ImageStep
  <2> QED BY <2>1, <2>2, <2>3, <2>4, <2>5, <2>6, <2>7 DEF Next
<1> QED BY <1>1, <1>2, PTL DEF Spec

(* Every variable keeps its type.                                                        *)
THEOREM Typed == Spec => []TypeOK
<1>1. IInv => TypeOK
  BY DEF IInv
<1> QED BY <1>1, Inductive, PTL

(* However many callers want an id, and whatever fails, the composer makes one article   *)
(* and at most one more for every create whose answer was lost.                          *)
THEOREM ArticlesCounted == Spec => []OneArticle
<1>1. IInv => OneArticle
  BY DEF IInv, TypeOK, CountInv, OneArticle
<1> QED BY <1>1, Inductive, PTL

(* No sequence of clicks, autosaves, retries and cover requests, however their handlers   *)
(* overlap on the server, leaves a draft with another visibility than private.            *)
THEOREM DraftsPrivate == Spec => []DraftsStayPrivate
<1>1. IInv => DraftsStayPrivate
  BY DEF IInv, DraftInv
<1> QED BY <1>1, Inductive, PTL

(* When all is quiet the published article is the one last chosen: an autosave that was    *)
(* overtaken, a publication with an older visibility and a retry all end in a write of      *)
(* the latest fields.                                                                     *)
THEOREM LastWriteWins == Spec => []LastChoiceWins
<1>1. IInv => LastChoiceWins
  <2> SUFFICES ASSUME IInv, Quiet, status = "published", ~told, ~midMint
               PROVE  row.text = version /\ ~row.draft /\ (row.vis = vis \/ raced)
    BY DEF LastChoiceWins
  <2>1. Known /\ ~InFlight /\ DOMAIN chain = {} /\ ~timer
    BY DEF Quiet, Known, InFlight, Current, Channel
  <2>2. ~pending /\ ~row.draft
    BY <2>1 DEF IInv, ClickInv, DraftInv
  <2>3. Latest
    BY <2>1, <2>2 DEF IInv, SendInv, Later
  <2> QED BY <2>2, <2>3 DEF Latest
<1> QED BY <1>1, Inductive, PTL

=============================================================================
