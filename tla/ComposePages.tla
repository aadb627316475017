---------------------------- MODULE ComposePages ----------------------------
(***************************************************************************)
(* The forms a post and an album are written with                           *)
(* (src/social-frontend/src/features/compose/Compose.tsx, ComposeAlbum.tsx):  *)
(* a new one goes to the server in one request, a change of an album in        *)
(* several, its name and text, each caption, the new files, and an item is      *)
(* removed at once.  Tabs may have the same album open.  What is typed while    *)
(* the form is being saved is not sent any more, and gone with the page.        *)
(***************************************************************************)
EXTENDS Naturals, SequencesExt

CONSTANTS Tab,       \* open forms
          FirstItems, \* items that one has to begin with
          MaxTyped,  \* bound on texts typed, files picked and items removed
          MaxFails   \* bound on requests without an answer

VARIABLES
  works,   \* posts and albums: [text, by], by history: the form that made it
  items,   \* media: [work, file, caption, live]
  page,    \* the forms, each of the first album (edit) or of a new one
  typed,   \* how many of these there have been
  others,  \* history: for each form, what others wrote (items, 0 for the text)
  lost,    \* history: forms whose request was done without an answer
  fails    \* how many requests had no answer

pageVars == <<works, items, page, typed, others, lost, fails>>

(* Rows of existingMedia; entries of pendingFiles, whose captions go with them.    *)
Nothing == [text |-> 0, existing |-> <<>>, files |-> {}]
Blank == [edit |-> TRUE, phase |-> "loading", form |-> Nothing, sent |-> Nothing, step |-> "none", todo |-> {},
          state |-> "none", removals |-> {}]

Init ==
  /\ works = <<[text |-> 0, by |-> "none"]>>
  /\ items = [i \in 1 .. FirstItems |-> [work |-> 1, file |-> 0, caption |-> 0, live |-> TRUE]]
  /\ page \in [Tab -> {Blank, [Blank EXCEPT !.edit = FALSE, !.phase = "ready"]}]
  /\ typed = 0 /\ others = [e \in Tab |-> {}] /\ lost = {} /\ fails = 0

(* A set of numbers as a sequence.                                           *)
InOrder(S) == [k \in 1 .. Cardinality(S) |-> CHOOSE n \in S : Cardinality({m \in S : m < n}) = k - 1]

RowOf(i) == [id |-> i, caption |-> items[i].caption, dirty |-> FALSE]

Rows == LET ids == InOrder({i \in DOMAIN items : items[i].work = 1 /\ items[i].live})
        IN [k \in DOMAIN ids |-> RowOf(ids[k])]

(* fetchAlbumForEdit.                                                        *)
Load(e) ==
  /\ page[e].phase = "loading"
  /\ page' = [page EXCEPT ![e].phase = "ready",
                ![e].form = [text |-> works[1].text, files |-> {}, existing |-> Rows]]
  /\ others' = [others EXCEPT ![e] = {}]
  /\ UNCHANGED <<works, items, typed, lost, fails>>

-----------------------------------------------------------------------------
(* The fields, which stay open while the form is saved.                       *)

Open(e) == page[e].phase \in {"ready", "saving"}

Type(e, form) ==
  /\ Open(e) /\ typed < MaxTyped
  /\ typed' = typed + 1
  /\ page' = [page EXCEPT ![e].form = form]
  /\ UNCHANGED <<works, items, others, lost, fails>>

SetText(e) == Type(e, [page[e].form EXCEPT !.text = typed + 1])

(* Mutant: a changed caption is not marked.                                   *)
PlainCaption(m) == [m EXCEPT !.caption = typed + 1]

NewCaption(m) == [m EXCEPT !.caption = typed + 1, !.dirty = TRUE]

(* setExistingCaption.                                                       *)
SetCaption(e, k) == Type(e, [page[e].form EXCEPT !.existing[k] = NewCaption(@)])

AddFile(e) == Type(e, [page[e].form EXCEPT !.files = @ \cup {typed + 1}])

RemovePending(e, f) ==
  /\ Open(e)
  /\ page' = [page EXCEPT ![e].form.files = @ \ {f}]
  /\ UNCHANGED <<works, items, typed, others, lost, fails>>

-----------------------------------------------------------------------------
(* Saving.                                                                   *)

Dirty(form) == {m \in Range(form.existing) : m.dirty}

(* handleSubmit: what is sent is what the form holds now.                      *)
Submit(e) ==
  /\ page[e].phase = "ready"
  /\ page' = [page EXCEPT ![e].phase = "saving", ![e].sent = page[e].form,
                          ![e].step = IF page[e].edit THEN "text" ELSE "create",
                          ![e].todo = Dirty(page[e].form), ![e].state = "asked"]
  /\ UNCHANGED <<works, items, typed, others, lost, fails>>

Answered(e, state) == page' = [page EXCEPT ![e].state = state]
Wrote(e, thing) == others' = [f \in Tab |-> IF f = e THEN others[f] ELSE others[f] \cup {thing}]

(* The files become items of w.                                              *)
Added(w, files) ==
  [k \in DOMAIN InOrder(files) |-> [work |-> w, file |-> InOrder(files)[k], caption |-> 0, live |-> TRUE]]

(* create_post, create_album: one transaction.                                *)
ServeCreate(e) ==
  /\ page[e].step = "create" /\ page[e].state = "asked"
  /\ works' = Append(works, [text |-> page[e].sent.text, by |-> e])
  /\ items' = items \o Added(Len(works) + 1, page[e].sent.files)
  /\ Answered(e, "ok")
  /\ UNCHANGED <<typed, others, lost, fails>>

(* update_album.                                                             *)
ServeText(e) ==
  /\ page[e].step = "text" /\ page[e].state = "asked"
  /\ works' = [works EXCEPT ![1].text = page[e].sent.text]
  /\ Wrote(e, 0) /\ Answered(e, "ok")
  /\ UNCHANGED <<items, typed, lost, fails>>

(* The captions go in the items' order, which is that of their ids.             *)
Due(e) == CHOOSE m \in page[e].todo : \A n \in page[e].todo : m.id <= n.id

(* update_album_media; an item that is gone is not found.                      *)
ServeCaption(e) ==
  LET m == Due(e) IN
  /\ page[e].step = "caption" /\ page[e].state = "asked"
  /\ IF items[m.id].live
     THEN /\ items' = [items EXCEPT ![m.id].caption = m.caption]
          /\ Wrote(e, m.id) /\ Answered(e, "ok")
     ELSE Answered(e, "refused") /\ UNCHANGED <<items, others>>
  /\ UNCHANGED <<works, typed, lost, fails>>

(* append_album_media.                                                       *)
ServeFiles(e) ==
  /\ page[e].step = "files" /\ page[e].state = "asked"
  /\ items' = items \o Added(1, page[e].sent.files)
  /\ Answered(e, "ok")
  /\ UNCHANGED <<works, typed, others, lost, fails>>

(* The answer: the next request, or on to the page of the post or album.        *)
Arrive(e) ==
  LET p == page[e]
      left == IF p.step = "caption" THEN p.todo \ {Due(e)} ELSE p.todo
      next == CASE p.step = "create" -> "none"
                [] p.step \in {"text", "caption"} /\ left # {} -> "caption"
                [] p.step \in {"text", "caption"} /\ left = {} /\ p.sent.files # {} -> "files"
                [] OTHER -> "none" IN
  /\ p.state = "ok"
  /\ page' = [page EXCEPT ![e].todo = left, ![e].step = next,
                          ![e].phase = IF next = "none" THEN "left" ELSE @,
                          ![e].state = IF next = "none" THEN "none" ELSE "asked"]
  /\ UNCHANGED <<works, items, typed, others, lost, fails>>

(* An error, or no answer, though the server may have done it: the form stays as   *)
(* it is, and may be saved again.                                             *)
GoesWrong(e) ==
  /\ page[e].state # "none"
  /\ IF page[e].state = "refused" THEN UNCHANGED fails ELSE fails < MaxFails /\ fails' = fails + 1
  /\ lost' = IF page[e].state = "ok" /\ page[e].step \in {"create", "files"} THEN lost \cup {e} ELSE lost
  /\ page' = [page EXCEPT ![e].phase = "ready", ![e].step = "none", ![e].state = "none", ![e].todo = {}]
  /\ UNCHANGED <<works, items, typed, others>>

-----------------------------------------------------------------------------
(* deleteExistingMedia, at any time, also while the form is saved, and also of     *)
(* several items at once.                                                    *)

RemoveItem(e, k) ==
  LET id == page[e].form.existing[k].id IN
  /\ Open(e) /\ \A q \in page[e].removals : q.id # id
  /\ typed < MaxTyped /\ typed' = typed + 1
  /\ page' = [page EXCEPT ![e].removals = @ \cup {[at |-> k, id |-> id, state |-> "asked"]}]
  /\ UNCHANGED <<works, items, others, lost, fails>>

(* delete_album_media.                                                       *)
ServeRemove(e, q) ==
  LET state == IF items[q.id].live THEN "ok" ELSE "refused" IN
  /\ q.state = "asked"
  /\ items' = [items EXCEPT ![q.id].live = FALSE]
  /\ page' = [page EXCEPT ![e].removals = (@ \ {q}) \cup {[q EXCEPT !.state = state]}]
  /\ Wrote(e, q.id)
  /\ UNCHANGED <<works, typed, lost, fails>>

(* The row that goes is the one that is where the removed one was when asked.   *)
Removed(e, q) ==
  /\ q.state = "ok"
  /\ page' = [page EXCEPT ![e].removals = @ \ {q},
                          ![e].form.existing = IF q.at \in DOMAIN @ THEN RemoveAt(@, q.at) ELSE @]
  /\ UNCHANGED <<works, items, typed, others, lost, fails>>

RemoveFails(e, q) ==
  /\ IF q.state = "refused" THEN UNCHANGED fails ELSE fails < MaxFails /\ fails' = fails + 1
  /\ page' = [page EXCEPT ![e].removals = @ \ {q}]
  /\ UNCHANGED <<works, items, typed, others, lost>>

-----------------------------------------------------------------------------
Next ==
  \E e \in Tab :
    \/ Load(e) \/ SetText(e) \/ AddFile(e) \/ Submit(e) \/ Arrive(e) \/ GoesWrong(e)
    \/ \E k \in DOMAIN page[e].form.existing : SetCaption(e, k) \/ RemoveItem(e, k)
    \/ \E f \in page[e].form.files : RemovePending(e, f)
    \/ ServeCreate(e) \/ ServeText(e) \/ ServeCaption(e) \/ ServeFiles(e)
    \/ \E q \in page[e].removals : ServeRemove(e, q) \/ Removed(e, q) \/ RemoveFails(e, q)

Spec == Init /\ [][Next]_pageVars

-----------------------------------------------------------------------------
(* How often the file was stored, by whichever request.                       *)
Stored(f) == Cardinality({i \in DOMAIN items : items[i].file = f})

(* The form went on to the page: whatever failed and was tried again before, the   *)
(* server has the text, the captions and the files of the last submission, other    *)
(* tabs' writes aside; and each file, each new post or album, is there once,        *)
(* unless a request was done and its answer lost.                              *)
SavedAsSent ==
  \A e \in Tab :
    page[e].phase = "left" =>
      LET s == page[e].sent
          mine == {w \in DOMAIN works : works[w].by = e} IN
      /\ \A f \in s.files : Stored(f) >= 1 /\ (e \notin lost => Stored(f) = 1)
      /\ ~page[e].edit => mine # {} /\ (e \notin lost => Cardinality(mine) = 1)
                        /\ \E w \in mine : works[w].text = s.text
      /\ page[e].edit /\ 0 \notin others[e] => works[1].text = s.text
      /\ \A m \in Range(s.existing) :
           m.id \notin others[e] /\ items[m.id].live => items[m.id].caption = m.caption
=============================================================================
