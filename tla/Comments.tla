------------------------------ MODULE Comments ------------------------------
(***************************************************************************)
(* The comments of a post or a picture: the handlers of                      *)
(* src/src/engagement/comments.rs and media_comments.rs, the moderators'      *)
(* bulk deletion (src/src/admin/moderation.rs), and the thread on the page    *)
(* (social-frontend/src/features/engagement/CommentThread.tsx).              *)
(*                                                                          *)
(* A handler looks (at the post's visibility, or for the live comment and     *)
(* whose it is) in one statement and writes in the next; a page may have      *)
(* several calls under way, besides the load it began with.                  *)
(***************************************************************************)
EXTENDS Naturals, FiniteSets, Sequences

CONSTANTS Thread,     \* threads on screens, one to a signed-in user
          Moderators, \* administrators among the threads' users, a subset of Thread
          Call,       \* calls under way at a time
          MaxComments, MaxWrites, MaxEvents \* bounds: comments, calls, failures and losses of sight

VARIABLES
  comments, \* rows in the order of their creation: [by, body, live]
  readers,  \* who may read the post
  thread,   \* the threads: the list, the load under way
  calls,    \* the calls under way
  touched,  \* history: comments somebody other than their author wrote to
  upset,    \* history: threads with a refused or failed call or load, or that submitted while loading
  spent     \* how many calls and events there have been

commentVars == <<comments, readers, thread, calls, touched, upset, spent>>

Body == {"first", "edited"}
None == [pc |-> "none"]
Entry == [id : 1 .. MaxComments, body : Body]

TypeOK ==
  /\ Len(comments) <= MaxComments
  /\ \A i \in DOMAIN comments : comments[i] \in [by : Thread, body : Body, live : BOOLEAN]
  /\ readers \subseteq Thread /\ upset \subseteq Thread /\ touched \subseteq DOMAIN comments
  /\ \A t \in Thread : /\ thread[t].load \in {"sent", "read", "done"}
                       /\ \A i \in DOMAIN thread[t].list : thread[t].list[i] \in Entry

(* Pages are opened on a post with one comment or none.                       *)
Init ==
  /\ comments \in {<<>>} \cup {<<[by |-> t, body |-> "first", live |-> l]>> : t \in Thread, l \in BOOLEAN}
  /\ readers = Thread
  /\ thread = [t \in Thread |-> [load |-> "sent", read |-> <<>>, list |-> <<>>]]
  /\ calls = [c \in Call |-> None]
  /\ touched = {} /\ upset = {} /\ spent = [write |-> 0, event |-> 0]

Spend(what, max) == spent[what] < max /\ spent' = [spent EXCEPT ![what] = @ + 1]

Busy(c) == calls[c].pc # "none"
Goto(c, place) == calls' = [calls EXCEPT ![c].pc = place]
Allowed(t, i) == comments[i].by = t \/ t \in Moderators
Ids(list) == {list[n].id : n \in DOMAIN list}

-----------------------------------------------------------------------------
(* The load at mount.                                                        *)

Written(i) == [id |-> i, body |-> comments[i].body]

(* The entries of a list that are in S, in their order (SelectSeq, told by the    *)
(* place each of them gets).                                                 *)
Sifted(list, S) ==
  LET kept == {n \in DOMAIN list : list[n] \in S}
      place(n) == Cardinality({k \in kept : k =< n}) IN
  [m \in 1 .. Cardinality(kept) |-> list[CHOOSE n \in kept : place(n) = m]]

(* list_comments: live rows in order of creation, for readers of the post.     *)
Live == Sifted([i \in DOMAIN comments |-> Written(i)], {Written(i) : i \in {j \in DOMAIN comments : comments[j].live}})

LoadReads(t) ==
  /\ thread[t].load = "sent"
  /\ thread' = [thread EXCEPT ![t].load = "read", ![t].read = IF t \in readers THEN Live ELSE <<>>]
  /\ upset' = IF t \in readers THEN upset ELSE upset \cup {t}
  /\ UNCHANGED <<comments, readers, calls, touched, spent>>

LoadArrives(t) ==
  /\ thread[t].load = "read"
  /\ thread' = [thread EXCEPT ![t].load = "done", ![t].list = thread[t].read, ![t].read = <<>>]
  /\ UNCHANGED <<comments, readers, calls, touched, upset, spent>>

LoadFails(t) ==
  /\ thread[t].load # "done"
  /\ Spend("event", MaxEvents)
  /\ thread' = [thread EXCEPT ![t].load = "done", ![t].read = <<>>]
  /\ upset' = upset \cup {t}
  /\ UNCHANGED <<comments, readers, calls, touched>>

-----------------------------------------------------------------------------
(* Calls of the page.                                                        *)

Send(c, t, what, i) ==
  /\ ~Busy(c) /\ Spend("write", MaxWrites)
  /\ calls' = [calls EXCEPT ![c] = [pc |-> "sent", by |-> t, what |-> what, id |-> i, body |-> "first"]]
  /\ UNCHANGED <<comments, readers, thread, touched>>

(* handleSubmit, one at a time; the form is there while the list still loads.  *)
Submit(c, t) ==
  /\ \A d \in Call : Busy(d) => ~(calls[d].by = t /\ calls[d].what = "create")
  /\ Send(c, t, "create", 0)
  /\ upset' = IF thread[t].load = "done" THEN upset ELSE upset \cup {t}

OnScreen(t, i) == thread[t].load = "done" /\ i \in Ids(thread[t].list) /\ Allowed(t, i)

(* handleDelete: nothing keeps a second one, or an edit, from following.        *)
Delete(c, t, i) == OnScreen(t, i) /\ Send(c, t, "delete", i) /\ upset' = upset

(* saveEdit, while no edit of this comment is being saved: the buttons of the   *)
(* others are hidden meanwhile.                                              *)
Edit(c, t, i) ==
  /\ OnScreen(t, i)
  /\ \A d \in Call : Busy(d) => ~(calls[d].by = t /\ calls[d].what = "edit" /\ calls[d].id = i)
  /\ Send(c, t, "edit", i) /\ upset' = upset

(* create_comment: load_visible_post.                                        *)
GateCreate(c) ==
  /\ calls[c].pc = "sent" /\ calls[c].what = "create" /\ calls[c].by \in readers
  /\ Goto(c, "found")
  /\ UNCHANGED <<comments, readers, thread, touched, upset, spent>>

InsertComment(c) ==
  /\ calls[c].pc = "found" /\ calls[c].what = "create" /\ Len(comments) < MaxComments
  /\ comments' = Append(comments, [by |-> calls[c].by, body |-> "first", live |-> TRUE])
  /\ calls' = [calls EXCEPT ![c].pc = "answered", ![c].id = Len(comments) + 1]
  /\ UNCHANGED <<readers, thread, touched, upset, spent>>

(* edit_comment, delete_comment: the live row and whose it is.                *)
FindComment(c) ==
  LET q == calls[c] IN
  /\ q.pc = "sent" /\ q.what \in {"edit", "delete"}
  /\ comments[q.id].live /\ Allowed(q.by, q.id)
  /\ Goto(c, "found")
  /\ UNCHANGED <<comments, readers, thread, touched, upset, spent>>

(* An ActiveModel writes the columns that were set.                           *)
EditedRow(row) == [row EXCEPT !.body = "edited"]

Touch(c) == touched' = IF comments[calls[c].id].by = calls[c].by THEN touched ELSE touched \cup {calls[c].id}

(* The body, whatever has become of the row.                                  *)
SaveEdit(c) ==
  LET i == calls[c].id IN
  /\ calls[c].pc = "found" /\ calls[c].what = "edit"
  /\ comments' = [comments EXCEPT ![i] = EditedRow(@)]
  /\ calls' = [calls EXCEPT ![c].pc = "answered", ![c].body = "edited"]
  /\ Touch(c)
  /\ UNCHANGED <<readers, thread, upset, spent>>

SoftDelete(c) ==
  LET i == calls[c].id IN
  /\ calls[c].pc = "found" /\ calls[c].what = "delete"
  /\ comments' = [comments EXCEPT ![i].live = FALSE]
  /\ Goto(c, "answered")
  /\ Touch(c)
  /\ UNCHANGED <<readers, thread, upset, spent>>

(* bulk_delete_comments: one UPDATE, of the live ones among them.              *)
BulkDelete(t, ids) ==
  /\ t \in Moderators /\ ids # {}
  /\ Spend("write", MaxWrites)
  /\ comments' = [i \in DOMAIN comments |-> IF i \in ids THEN [comments[i] EXCEPT !.live = FALSE] ELSE comments[i]]
  /\ touched' = touched \cup {i \in ids : comments[i].live}
  /\ UNCHANGED <<readers, thread, calls, upset>>

(* Mutant: an edited comment that is not on the list is put there.             *)
UpsertEntry(list, e) ==
  IF e.id \in Ids(list) THEN [n \in DOMAIN list |-> IF list[n].id = e.id THEN e ELSE list[n]]
  ELSE Append(list, e)

(* handleEdit's map.                                                         *)
Updated(list, e) == [n \in DOMAIN list |-> IF list[n].id = e.id THEN e ELSE list[n]]

(* What an answer does to the list of its thread.                            *)
Shown(list, q) ==
  LET entry == [id |-> q.id, body |-> q.body] IN
  CASE q.what = "create" -> Append(list, entry)
    [] q.what = "edit"   -> Updated(list, entry)
    [] OTHER             -> Sifted(list, {e \in Entry : e.id # q.id})

Arrive(c) ==
  /\ calls[c].pc = "answered"
  /\ thread' = [thread EXCEPT ![calls[c].by].list = Shown(@, calls[c])]
  /\ calls' = [calls EXCEPT ![c] = None]
  /\ UNCHANGED <<comments, readers, touched, upset, spent>>

Refused(q) ==
  /\ q.pc = "sent"
  /\ IF q.what = "create" THEN q.by \notin readers ELSE ~comments[q.id].live

(* Refused, or lost on the way there or back: an error on the page.            *)
CallFails(c) ==
  /\ Busy(c)
  /\ IF Refused(calls[c]) THEN spent' = spent ELSE Spend("event", MaxEvents)
  /\ calls' = [calls EXCEPT ![c] = None]
  /\ upset' = upset \cup {calls[c].by}
  /\ UNCHANGED <<comments, readers, thread, touched>>

(* The post is hidden or deleted.                                            *)
Hide(t) ==
  /\ t \in readers /\ Spend("event", MaxEvents)
  /\ readers' = readers \ {t}
  /\ UNCHANGED <<comments, thread, calls, touched, upset>>

-----------------------------------------------------------------------------
Next ==
  \/ \E t \in Thread : \/ LoadReads(t) \/ LoadArrives(t) \/ LoadFails(t) \/ Hide(t)
                       \/ \E ids \in SUBSET DOMAIN comments : BulkDelete(t, ids)
  \/ \E c \in Call :
       \/ \E t \in Thread : Submit(c, t) \/ \E i \in DOMAIN comments : Delete(c, t, i) \/ Edit(c, t, i)
       \/ GateCreate(c) \/ InsertComment(c) \/ FindComment(c) \/ SaveEdit(c) \/ SoftDelete(c)
       \/ Arrive(c) \/ CallFails(c)

Spec == Init /\ [][Next]_commentVars

-----------------------------------------------------------------------------
(* A page at rest, nothing of which failed: it has each living comment of its    *)
(* user once, as the server has it, and none of the dead ones, in whatever order *)
(* the answers came, and also if an edit found a comment alive and wrote after it  *)
(* was deleted; moderators' work on them aside.                               *)
OwnCommentsRight ==
  \A t \in Thread :
    (t \notin upset /\ thread[t].load = "done" /\ \A c \in Call : Busy(c) => calls[c].by # t) =>
      \A i \in DOMAIN comments \ touched :
        comments[i].by = t =>
          LET at == {n \in DOMAIN thread[t].list : thread[t].list[n].id = i} IN
          IF comments[i].live THEN \E n \in at : at = {n} /\ thread[t].list[n] = Written(i)
          ELSE at = {}
=============================================================================
