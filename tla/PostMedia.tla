----------------------------- MODULE PostMedia -----------------------------
(***************************************************************************)
(* The attachments of one post or album: src/src/posts/media and             *)
(* src/src/albums/handlers.rs on the table post_media, whose unique index    *)
(* on (post_id, ordinal) orders them, and on the objects in S3.              *)
(*                                                                          *)
(* Several requests of the author, or of an administrator, are served at     *)
(* once.  An append reads the next ordinal, then reads its body, uploads     *)
(* file by file and inserts in one transaction; a reorder checks the list    *)
(* outside its transaction.  The transactions write rows by id and ordinal   *)
(* only, so the unique index, which makes the later one wait, lets them      *)
(* take effect one after the other, at COMMIT.  Two that wait for each       *)
(* other are aborted by the database: they are among the failures below.     *)
(*                                                                          *)
(* The width of an ordinal and the OFFSET of the reorder are scaled down;    *)
(* a release build has no overflow checks, so ordinals wrap.                 *)
(***************************************************************************)
EXTENDS Integers, Sequences, FiniteSets, Functions

CONSTANTS Request,   \* requests served at once
          MaxMedia,  \* ids allotted: media are 1 .. MaxMedia, in the order they are planned
          MaxFiles,  \* media_files_max_for_kind
          Half,      \* ordinals are -Half .. Half - 1
          Offset,    \* OFFSET of reorder_media
          Typed,     \* ordinals a client of the media's PATCH or of the reorder writes
          MaxFaults  \* bound on failed removals, lost answers and dropped handlers

ASSUME OrdinalsHoldTwoOffsets == Offset \in Nat \ {0} /\ Half \in Nat /\ 2 * Offset =< Half
ASSUME TypedAreOrdinals == Typed \subseteq -Half .. Half - 1
ASSUME BoundsArePositive == MaxMedia \in Nat \ {0} /\ MaxFiles \in Nat \ {0}

Media == 1 .. MaxMedia
Ordinal == -Half .. Half - 1
Wrap(n) == ((n + Half) % (2 * Half)) - Half

VARIABLES
  post,     \* none, live or deleted
  ordinal,  \* the rows of post_media: a function from ids to ordinals
  objects,  \* ids whose object is in S3
  planned,  \* ids allotted so far
  req,      \* the requests
  lost,     \* history: rows whose COMMIT was answered by an error
  left,     \* history: objects whose removal failed or never came to be called, or whose
            \* put was answered by an error
  faults    \* how many faults there have been

vars == <<post, ordinal, objects, planned, req, lost, left, faults>>

Rows == DOMAIN ordinal
CoverOf(f) == {m \in DOMAIN f : \A n \in DOMAIN f : f[m] =< f[n]}

Idle == [pc |-> "idle", batch |-> <<>>, base |-> 0, up |-> 0, target |-> 0, order |-> <<>>,
         to |-> <<>>, seen |-> {}, calm |-> TRUE]

Places == {"idle", "reading", "uploading", "undoing", "erasing", "listed", "checked"}

TypeOK ==
  /\ post \in {"none", "live", "deleted"}
  /\ Rows \subseteq Media /\ \A m \in Rows : ordinal[m] \in Ordinal
  /\ objects \subseteq Media /\ planned \in 0 .. MaxMedia
  /\ \A r \in Request :
       /\ req[r].pc \in Places /\ req[r].base \in Ordinal
       /\ req[r].batch \in Seq(1 .. planned) /\ req[r].up \in 0 .. Len(req[r].batch)
       /\ req[r].seen \subseteq Media /\ req[r].calm \in BOOLEAN

Init ==
  /\ post = "none" /\ ordinal = <<>> /\ objects = {} /\ planned = 0
  /\ req = [r \in Request |-> Idle]
  /\ lost = {} /\ left = {} /\ faults = 0

Fault == faults < MaxFaults /\ faults' = faults + 1

Goto(r, place) == req' = [req EXCEPT ![r].pc = place]
Answer(r) == req' = [req EXCEPT ![r] = Idle]

(* History: the answer to one that rewrote ordinals, while appends rely on them. *)
AnswerRewritten(r) ==
  req' = [q \in Request |->
            IF q = r THEN Idle
            ELSE [req[q] EXCEPT !.calm = @ /\ req[q].pc \notin {"reading", "uploading"}]]

Undo(r) ==
  req' = [req EXCEPT ![r] = [Idle EXCEPT !.pc = "undoing", !.batch = req[r].batch, !.up = req[r].up]]

-----------------------------------------------------------------------------
(* Compose and append.                                                       *)

(* build_media_plan: n fresh ids, and ordinals from the base on.               *)
Plan(r, n) ==
  /\ planned + n =< MaxMedia /\ n =< MaxFiles
  /\ planned' = planned + n
  /\ req' = [req EXCEPT ![r].pc = "uploading", ![r].batch = [i \in 1 .. n |-> planned + i]]

Slot(r, i) == Wrap(req[r].base + i - 1)
Slots(r) == {Slot(r, i) : i \in 1 .. Len(req[r].batch)}

(* commit_compose up to the uploads; a post may have no attachment at all.    *)
Compose(r, n) ==
  /\ post = "none" /\ \A q \in Request : req[q].pc = "idle"
  /\ Plan(r, n)
  /\ UNCHANGED <<post, ordinal, objects, lost, left, faults>>

(* Mutant: the first free ordinal instead of the one after the highest.       *)
FirstFree ==
  CHOOSE o \in 0 .. Cardinality(Rows) :
    /\ \A m \in Rows : ordinal[m] # o
    /\ \A p \in 0 .. o - 1 : \E m \in Rows : ordinal[m] = p

NextOrdinal ==
  IF Rows = {} THEN 0
  ELSE Wrap(1 + ordinal[CHOOSE m \in Rows : \A n \in Rows : ordinal[n] =< ordinal[m]])

(* append_media's look at the rows, before it reads the request's body.        *)
BeginAppend(r) ==
  /\ req[r].pc = "idle" /\ post = "live"
  /\ req' = [req EXCEPT ![r].pc = "reading", ![r].base = NextOrdinal, ![r].seen = Rows]
  /\ UNCHANGED <<post, ordinal, objects, planned, lost, left, faults>>

(* At least one file, no more than the cap, each of them decoded.             *)
PlanAppend(r, n) ==
  /\ req[r].pc = "reading" /\ n > 0
  /\ Plan(r, n)
  /\ UNCHANGED <<post, ordinal, objects, lost, left, faults>>

Upload(r) ==
  LET q == req[r] IN
  /\ q.pc = "uploading" /\ q.up < Len(q.batch)
  /\ objects' = objects \cup {q.batch[q.up + 1]}
  /\ req' = [req EXCEPT ![r].up = @ + 1]
  /\ UNCHANGED <<post, ordinal, planned, lost, left, faults>>

(* Mutant: the error is answered at once.                                    *)
UploadFailsAtOnce(r) ==
  /\ req[r].pc = "uploading"
  /\ Answer(r)
  /\ UNCHANGED <<post, ordinal, objects, planned, lost, left, faults>>

(* A put or the transaction fails: what has been uploaded is rolled back.     *)
UploadFails(r) ==
  /\ req[r].pc = "uploading"
  /\ Undo(r)
  /\ UNCHANGED <<post, ordinal, objects, planned, lost, left, faults>>

(* Mutant: the rows do not wait for the last upload.                          *)
SomeUploaded(r) == req[r].pc = "uploading"

AllUploaded(r) == req[r].pc = "uploading" /\ req[r].up = Len(req[r].batch)

Fits(r) == \A m \in Rows : ordinal[m] \notin Slots(r)

Batch(r) == {req[r].batch[i] : i \in 1 .. Len(req[r].batch)}

InsertedBy(r) ==
  [m \in Rows \cup Batch(r) |->
     IF m \in Rows THEN ordinal[m]
     ELSE Slot(r, CHOOSE i \in 1 .. Len(req[r].batch) : req[r].batch[i] = m)]

(* The rows of a compose come with the post's own; an append does not look at  *)
(* the post again.                                                           *)
Inserted(r) ==
  /\ AllUploaded(r) /\ Fits(r)
  /\ ordinal' = InsertedBy(r)
  /\ post' = IF post = "none" THEN "live" ELSE post

Insert(r) ==
  /\ Inserted(r)
  /\ Answer(r)
  /\ UNCHANGED <<objects, planned, lost, left, faults>>

(* A put is done, and its answer lost: the roll-back does not know of the object. *)
PutLost(r) ==
  LET q == req[r] IN
  /\ q.pc = "uploading" /\ q.up < Len(q.batch)
  /\ objects' = objects \cup {q.batch[q.up + 1]}
  /\ left' = left \cup {q.batch[q.up + 1]}
  /\ Undo(r) /\ Fault
  /\ UNCHANGED <<post, ordinal, planned, lost>>

(* The rows are committed, and the connection breaks before the answer.       *)
CommitLost(r) ==
  /\ Inserted(r)
  /\ lost' = lost \cup Batch(r)
  /\ Undo(r) /\ Fault
  /\ UNCHANGED <<objects, planned, left>>

(* The unique index refuses a slot: 409, after the roll-back.                 *)
InsertConflicts(r) ==
  /\ AllUploaded(r) /\ ~Fits(r)
  /\ Undo(r)
  /\ UNCHANGED <<post, ordinal, objects, planned, lost, left, faults>>

(* rollback_uploads, key by key; a removal that fails is ignored.             *)
RollbackOne(r) ==
  LET m == Head(req[r].batch) IN
  /\ req[r].pc = "undoing" /\ req[r].up > 0
  /\ \/ objects' = objects \ {m} /\ left' = left \ {m} /\ UNCHANGED faults
     \/ objects' = objects /\ left' = left \cup {m} /\ Fault
  /\ req' = [req EXCEPT ![r].up = @ - 1, ![r].batch = Tail(@)]
  /\ UNCHANGED <<post, ordinal, planned, lost>>

RollbackDone(r) ==
  /\ req[r].pc = "undoing" /\ req[r].up = 0
  /\ Answer(r)
  /\ UNCHANGED <<post, ordinal, objects, planned, lost, left, faults>>

(* The handler is dropped with its connection, or the server stops.           *)
Drop(r) ==
  LET q == req[r] IN
  /\ q.pc \in {"uploading", "undoing", "erasing"}
  /\ left' = left \cup (IF q.pc = "erasing" THEN {q.target} \cap objects
                        ELSE {q.batch[i] : i \in 1 .. q.up} \ Rows)
  /\ Answer(r) /\ Fault
  /\ UNCHANGED <<post, ordinal, objects, planned, lost>>

(* An error, or a dropped handler, where nothing is to be undone: a body that   *)
(* does not parse, a row or a post that is gone, a statement that fails.      *)
Refuse(r) ==
  /\ req[r].pc \in {"reading", "listed", "checked"}
  /\ Answer(r)
  /\ UNCHANGED <<post, ordinal, objects, planned, lost, left, faults>>

-----------------------------------------------------------------------------
(* Deletion, order, and the post itself.                                     *)

(* delete_media: the row first, the object second.  That it looks for the row    *)
(* before decides nothing: two requests may find it, and delete it again.     *)
DeleteMedia(r, m) ==
  /\ req[r].pc = "idle" /\ post = "live" /\ m \in Rows
  /\ ordinal' = [n \in Rows \ {m} |-> ordinal[n]]
  /\ lost' = lost \ {m}
  /\ req' = [req EXCEPT ![r].pc = "erasing", ![r].target = m]
  /\ UNCHANGED <<post, objects, planned, left, faults>>

DeleteObject(r) ==
  LET m == req[r].target IN
  /\ req[r].pc = "erasing"
  /\ \/ objects' = objects \ {m} /\ left' = left \ {m} /\ UNCHANGED faults
     \/ objects' = objects /\ left' = left \cup ({m} \cap objects) /\ Fault
  /\ Answer(r)
  /\ UNCHANGED <<post, ordinal, planned, lost>>

(* update_album_media: a row found is written by its id and only in the columns *)
(* of the request, so it is one step; any ordinal that is free will do.        *)
UpdateAlbumMedia(r, m, o) ==
  /\ req[r].pc = "idle" /\ post = "live"
  /\ m \in Rows /\ \A n \in Rows \ {m} : ordinal[n] # o
  /\ ordinal' = [ordinal EXCEPT ![m] = o]
  /\ AnswerRewritten(r)
  /\ UNCHANGED <<post, objects, planned, lost, left, faults>>

Ascending(S) ==
  CHOOSE s \in [1 .. Cardinality(S) -> S] :
    \A i, j \in DOMAIN s : i < j => ordinal[s[i]] < ordinal[s[j]]

(* update_album with a cover, its metadata saved: it lists the rows in order and *)
(* sends the cover to 0 and the others to 1, 2, ... behind it.                *)
ListForCover(r, m) ==
  LET order == <<m>> \o Ascending(Rows \ {m}) IN
  /\ req[r].pc = "idle" /\ post = "live"
  /\ req' = [req EXCEPT ![r].pc = "listed", ![r].target = m, ![r].order = order,
                        ![r].to = [i \in 1 .. Len(order) |-> Wrap(i - 1)]]
  /\ UNCHANGED <<post, ordinal, objects, planned, lost, left, faults>>

(* reorder_media's checks, on the rows as they are before its transaction:      *)
(* each row once, no ordinal negative, none twice.                           *)
ListIsComplete(order, to) ==
  /\ Len(order) = Cardinality(Rows)
  /\ {order[i] : i \in 1 .. Len(order)} = Rows
  /\ \A i, j \in 1 .. Len(order) : to[i] >= 0 /\ (to[i] = to[j] => i = j)

CheckCover(r) ==
  /\ req[r].pc = "listed" /\ post = "live"
  /\ ListIsComplete(req[r].order, req[r].to)
  /\ req' = [req EXCEPT ![r].pc = "checked", ![r].seen = Rows]
  /\ UNCHANGED <<post, ordinal, objects, planned, lost, left, faults>>

(* A reorder as the client lists it.                                         *)
Reorder(r, order, to) ==
  /\ req[r].pc = "idle" /\ post = "live"
  /\ ListIsComplete(order, to)
  /\ req' = [req EXCEPT ![r].pc = "checked", ![r].order = order, ![r].to = to, ![r].seen = Rows]
  /\ UNCHANGED <<post, ordinal, objects, planned, lost, left, faults>>

(* Ordinals f when n updates of a phase have been made: the rows on the list    *)
(* before have moved to their place in to, the others are where they were.     *)
Moved(r, n, to, f) ==
  [m \in DOMAIN f |-> IF \E i \in 1 .. n : req[r].order[i] = m
                      THEN to[CHOOSE i \in 1 .. n : req[r].order[i] = m] ELSE f[m]]

(* An update meets no row and fails, or meets another row's ordinal.          *)
PhaseRuns(r, to, f) ==
  \A n \in 1 .. Len(req[r].order) :
    /\ req[r].order[n] \in DOMAIN f
    /\ \A m \in DOMAIN f \ {req[r].order[n]} : Moved(r, n - 1, to, f)[m] # to[n]

(* Mutant: one phase, straight to the new ordinals.                          *)
OnePhase(r) == PhaseRuns(r, req[r].to, ordinal)

TwoPhases(r) ==
  LET shifted == [i \in DOMAIN req[r].to |-> Wrap(req[r].to[i] + Offset)]
      between == Moved(r, Len(req[r].order), shifted, ordinal)
  IN PhaseRuns(r, shifted, ordinal) /\ PhaseRuns(r, req[r].to, between)

ReorderCommits(r) ==
  /\ req[r].pc = "checked" /\ TwoPhases(r)
  /\ ordinal' = Moved(r, Len(req[r].order), req[r].to, ordinal)
  /\ AnswerRewritten(r)
  /\ UNCHANGED <<post, objects, planned, lost, left, faults>>

ReorderAborts(r) ==
  /\ req[r].pc = "checked" /\ ~TwoPhases(r)
  /\ Answer(r)
  /\ UNCHANGED <<post, ordinal, objects, planned, lost, left, faults>>

(* delete_post, delete_album: the rows and the objects stay.                  *)
DeletePost ==
  /\ post = "live"
  /\ post' = "deleted"
  /\ UNCHANGED <<ordinal, objects, planned, req, lost, left, faults>>

-----------------------------------------------------------------------------
Lists ==
  LET n == Cardinality(Rows) IN {o \in [1 .. n -> Rows] : IsInjective(o)} \X {t \in [1 .. n -> Typed] : IsInjective(t)}

Serve(r) ==
  \/ \E n \in 0 .. MaxFiles : Compose(r, n) \/ PlanAppend(r, n)
  \/ BeginAppend(r) \/ Upload(r) \/ UploadFails(r) \/ PutLost(r)
  \/ Insert(r) \/ CommitLost(r) \/ InsertConflicts(r) \/ RollbackOne(r) \/ RollbackDone(r)
  \/ Drop(r) \/ Refuse(r)
  \/ \E m \in Rows : DeleteMedia(r, m) \/ ListForCover(r, m) \/ \E o \in Typed : UpdateAlbumMedia(r, m, o)
  \/ DeleteObject(r) \/ CheckCover(r) \/ ReorderCommits(r) \/ ReorderAborts(r)
  \/ \E l \in Lists : Reorder(r, l[1], l[2])

Next == DeletePost \/ \E r \in Request : Serve(r)

Spec == Init /\ [][Next]_vars

-----------------------------------------------------------------------------
(* delete_media ("a stale S3 object is preferable to a stale DB row") and the  *)
(* roll-backs: no attachment points at an object that is not there, whatever    *)
(* fails or interleaves; the one way is a COMMIT whose answer never came and   *)
(* whose uploads were therefore rolled back.                                 *)
RowsHaveObjects == Rows \ lost \subseteq objects

(* commit_compose ("so the transaction's rollback doesn't leave orphans"):      *)
(* an object without a row belongs to a request still under way, or a removal   *)
(* of it failed or was never reached, or its put was taken for failed.         *)
ObjectsAccounted ==
  objects \subseteq Rows \cup left
    \cup (UNION {{req[r].batch[i] : i \in 1 .. req[r].up} : r \in Request})
    \cup {req[r].target : r \in {q \in Request : req[q].pc = "erasing"}}

(* append_media reads the next ordinal long before it inserts: yet it puts its  *)
(* files in front of the implicit cover only if all it had seen then is gone,   *)
(* if the ordinals were rewritten since, or if it ran over the highest one.    *)
CoverStays ==
  [][\A r \in Request :
       Insert(r) /\ Rows # {} /\ CoverOf(ordinal') # CoverOf(ordinal) =>
         \/ req[r].seen \cap Rows = {}
         \/ ~req[r].calm
         \/ \E o \in Slots(r) : o < 0]_vars

(* reorder_media, "so per-row updates don't transiently collide": a list that    *)
(* has been checked only meets the unique index when attachments came or went   *)
(* since the check, or when an ordinal is beyond the offset; that others moved   *)
(* them meanwhile does it no harm.                                           *)
ReorderSucceeds ==
  [][\A r \in Request :
       ReorderAborts(r) =>
         \/ req[r].seen # Rows
         \/ \E m \in Rows : ordinal[m] >= Offset
         \/ \E i \in DOMAIN req[r].to : req[r].to[i] >= Offset]_vars
=============================================================================
