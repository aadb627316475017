-------------------------- MODULE PostMediaProofs --------------------------
(***************************************************************************)
(* PostMedia.tla for any number of requests, attachments and faults and any     *)
(* width of ordinals: no attachment points at an object that is not there, no     *)
(* object is forgotten, appends go behind what they have seen, and a list that     *)
(* has been checked can be applied.                                            *)
(***************************************************************************)
EXTENDS PostMedia, FiniteSetTheorems, SequenceTheorems, WellFoundedInduction, TLAPS

Fields == {"pc", "batch", "base", "up", "target", "order", "to", "seen", "calm"}

(* A request at rest neither has nor removes objects.                           *)
Resting == {"idle", "reading", "listed", "checked"}

(* What a step needs to know of a request: it has its fields, and has uploaded no   *)
(* more than it plans.                                                       *)
Shaped(q) ==
  /\ q = [f \in Fields |-> q[f]]
  /\ q.batch \in Seq(Nat) /\ q.up \in 0 .. Len(q.batch)
  /\ q.pc \in Resting \cup {"erasing"} => q.batch = <<>> /\ q.up = 0

Types ==
  /\ planned \in Nat
  /\ req = [r \in Request |-> req[r]]
  /\ \A r \in Request : Shaped(req[r])

Ready(r) == {req[r].batch[i] : i \in 1 .. req[r].up}

Uploading(r) == req[r].pc = "uploading"
Undoing(r) == req[r].pc = "undoing"
Erasing(r) == req[r].pc = "erasing"

(* Ids are fresh: what is in use has been planned.                              *)
Used ==
  /\ Rows \subseteq 1 .. planned
  /\ \A r \in Request : Batch(r) \subseteq 1 .. planned /\ (Erasing(r) => req[r].target \in 1 .. planned)

(* Before the rows come, the batch is nobody else's and what is uploaded is there;  *)
(* an object is only removed when no row, or one of a lost COMMIT, points at it.  *)
Owned ==
  \A r \in Request :
    /\ Uploading(r) => Batch(r) \cap Rows = {} /\ Ready(r) \subseteq objects
    /\ Undoing(r) => Batch(r) \cap Rows \subseteq lost
    /\ Erasing(r) => req[r].target \notin Rows

Apart ==
  \A r, q \in Request : Uploading(r) /\ r # q =>
    /\ Uploading(q) \/ Undoing(q) => Batch(r) \cap Batch(q) = {}
    /\ Erasing(q) => req[q].target \notin Batch(r)

IInv == Types /\ Used /\ Owned /\ Apart /\ RowsHaveObjects

-----------------------------------------------------------------------------
LEMMA ShapedIdle == Shaped(Idle)
<1>1. Idle = [f \in Fields |-> Idle[f]]
  BY DEF Idle, Fields
<1>2. << >> \in Seq(Nat) /\ Len(<< >>) = 0
  OBVIOUS
<1> QED BY <1>1, <1>2 DEF Idle, Shaped

LEMMA InitInv == Init => IInv
<1> SUFFICES ASSUME Init PROVE IInv
  OBVIOUS
<1>1. planned = 0 /\ Rows = {} /\ req = [r \in Request |-> Idle]
  BY DEF Init, Rows
<1>2. \A r \in Request : req[r].pc = "idle" /\ Batch(r) = {}
  BY <1>1 DEF Idle, Batch
<1>3. Types
  BY <1>1, ShapedIdle DEF Types
<1> QED BY <1>1, <1>2, <1>3 DEF IInv, Used, Owned, Apart, Uploading, Undoing, Erasing, RowsHaveObjects

(* The rest of the requests go on as they were.                                *)
Same(q) ==
  /\ req'[q].pc = req[q].pc /\ req'[q].target = req[q].target
  /\ Batch(q)' = Batch(q) /\ Ready(q)' = Ready(q)

Others(r) == \A q \in Request \ {r} : Same(q)

(* A request becomes q.                                                       *)
LEMMA Becomes ==
  ASSUME Types, NEW r \in Request, NEW q, Shaped(q), req' = [req EXCEPT ![r] = q], planned' \in Nat
  PROVE  Types' /\ Others(r) /\ req'[r] = q
<1>1. req' = [s \in Request |-> IF s = r THEN q ELSE req[s]]
  BY DEF Types
<1>2. req' = [s \in Request |-> req'[s]] /\ \A s \in Request : Shaped(req'[s])
  BY <1>1 DEF Types
<1>3. req'[r] = q /\ \A s \in Request \ {r} : req'[s] = req[s]
  BY <1>1
<1>4. Others(r)
  BY <1>3 DEF Others, Same, Batch, Ready
<1>5. Types'
  BY <1>2 DEF Types, Shaped
<1> QED BY <1>3, <1>4, <1>5

(* Ordinals are rewritten: of the others only the history changes.               *)
LEMMA Rewritten ==
  ASSUME Types, NEW r \in Request, AnswerRewritten(r), planned' \in Nat
  PROVE  Types' /\ Others(r) /\ req'[r] = Idle
<1> DEFINE calm(s) == req[s].calm /\ req[s].pc \notin {"reading", "uploading"}
<1>1. req' = [s \in Request |-> IF s = r THEN Idle ELSE [req[s] EXCEPT !.calm = calm(s)]]
  BY DEF AnswerRewritten
<1> HIDE DEF calm
<1>2. ASSUME NEW s \in Request, s # r
      PROVE  /\ Shaped(req'[s]) /\ req'[s].pc = req[s].pc /\ req'[s].target = req[s].target
             /\ req'[s].batch = req[s].batch /\ req'[s].up = req[s].up
  <2>1. req'[s] = [req[s] EXCEPT !.calm = calm(s)] /\ Shaped(req[s])
    BY <1>1, <1>2 DEF Types
  <2>2. req[s] = [f \in Fields |-> req[s][f]]
    BY <2>1 DEF Shaped
  <2>3. req'[s] = [f \in Fields |-> IF f = "calm" THEN calm(s) ELSE req[s][f]]
    BY <2>1, <2>2 DEF Fields
  <2>4. /\ req'[s].pc = req[s].pc /\ req'[s].target = req[s].target
        /\ req'[s].batch = req[s].batch /\ req'[s].up = req[s].up
    BY <2>3 DEF Fields
  <2>5. req'[s] = [f \in Fields |-> req'[s][f]]
    BY <2>3
  <2> QED BY <2>1, <2>4, <2>5 DEF Shaped
<1>3. Others(r)
  BY <1>2 DEF Others, Same, Batch, Ready
<1>4. req'[r] = Idle /\ req' = [s \in Request |-> req'[s]]
  BY <1>1
<1>5. \A s \in Request : Shaped(req'[s])
  BY <1>2, <1>4, ShapedIdle
<1>6. Types'
  BY <1>4, <1>5 DEF Types, Shaped
<1> QED BY <1>3, <1>4, <1>6

(* A request comes to rest.                                                   *)
LEMMA Rests ==
  ASSUME IInv, NEW r \in Request, Types', Others(r), req'[r].pc \in Resting,
         Batch(r)' \subseteq Batch(r),
         DOMAIN ordinal' = DOMAIN ordinal, UNCHANGED <<objects, planned, lost>>
  PROVE  IInv'
<1>1. Rows' = Rows
  BY DEF Rows
<1>2. ~Uploading(r)' /\ ~Undoing(r)' /\ ~Erasing(r)'
  BY DEF Uploading, Undoing, Erasing, Resting
<1>3. \A q \in Request \ {r} : /\ Uploading(q)' = Uploading(q) /\ Undoing(q)' = Undoing(q)
                               /\ Erasing(q)' = Erasing(q)
  BY DEF Others, Same, Uploading, Undoing, Erasing
<1>4. Used'
  BY <1>1, <1>2, <1>3 DEF IInv, Used, Others, Same
<1>5. Owned'
  BY <1>1, <1>2, <1>3 DEF IInv, Owned, Others, Same
<1>6. Apart'
  BY <1>2, <1>3 DEF IInv, Apart, Others, Same
<1>7. RowsHaveObjects'
  BY <1>1 DEF IInv, RowsHaveObjects
<1> QED BY <1>4, <1>5, <1>6, <1>7 DEF IInv

LEMMA EmptyIdle == ASSUME NEW r, req'[r] = Idle PROVE Batch(r)' = {} /\ req'[r].pc \in Resting
BY DEF Idle, Batch, Resting

LEMMA AnswerShape ==
  ASSUME Types, NEW r \in Request, Answer(r), planned' \in Nat
  PROVE  Types' /\ Others(r) /\ req'[r] = Idle /\ Batch(r)' = {}
<1>1. Types' /\ Others(r) /\ req'[r] = Idle
  BY ShapedIdle, Becomes DEF Answer
<1> QED BY <1>1, EmptyIdle

LEMMA Answered ==
  ASSUME IInv, NEW r \in Request, Answer(r), DOMAIN ordinal' = DOMAIN ordinal,
         UNCHANGED <<objects, planned, lost>>
  PROVE  IInv'
<1>1. Types' /\ Others(r) /\ req'[r] = Idle
  BY AnswerShape DEF IInv, Types
<1> QED BY <1>1, EmptyIdle, Rests

(* The roll-back begins, with everything that was planned.                       *)
LEMMA UndoShape ==
  ASSUME Types, NEW r \in Request, Undo(r), UNCHANGED planned
  PROVE  /\ Types' /\ Others(r)
         /\ req'[r].pc = "undoing" /\ Batch(r)' = Batch(r) /\ Ready(r)' = Ready(r)
<1> DEFINE q == [Idle EXCEPT !.pc = "undoing", !.batch = req[r].batch, !.up = req[r].up]
<1>1. Shaped(req[r])
  BY DEF Types
<1>2. q.pc = "undoing" /\ q.batch = req[r].batch /\ q.up = req[r].up
  BY DEF Idle
<1>3. q = [f \in Fields |-> q[f]]
  BY DEF Idle, Fields
<1>4. req' = [req EXCEPT ![r] = q]
  BY DEF Undo
<1> HIDE DEF q
<1>5. Shaped(q)
  BY <1>1, <1>2, <1>3 DEF Shaped, Resting
<1>6. Types' /\ Others(r) /\ req'[r] = q
  BY <1>4, <1>5, Becomes DEF Types
<1>7. Batch(r)' = Batch(r) /\ Ready(r)' = Ready(r)
  BY <1>2, <1>6 DEF Batch, Ready
<1> QED BY <1>2, <1>6, <1>7

-----------------------------------------------------------------------------
(* A fresh batch.                                                            *)
LEMMA PlanShape ==
  ASSUME Types, NEW r \in Request, NEW n \in Nat, Plan(r, n), req[r].pc \in {"idle", "reading"}
  PROVE  /\ Types' /\ Others(r) /\ req'[r].pc = "uploading" /\ Ready(r)' = {}
         /\ Batch(r)' \subseteq 1 .. planned' /\ Batch(r)' \cap (1 .. planned) = {}
         /\ 1 .. planned \subseteq 1 .. planned'
<1> DEFINE b == [i \in 1 .. n |-> planned + i]
           q == [req[r] EXCEPT !.pc = "uploading", !.batch = b]
<1>1. planned \in Nat /\ planned' = planned + n /\ planned' \in Nat /\ 1 .. planned \subseteq 1 .. planned'
  <2>1. planned \in Nat /\ planned' = planned + n
    BY DEF Plan, Types
  <2> QED BY <2>1
<1>2. b \in Seq(Nat) /\ Len(b) = n
  BY <1>1
<1>3. \A i \in 1 .. n : b[i] \in 1 .. planned' /\ b[i] \notin 1 .. planned
  BY <1>1
<1>4. Shaped(req[r]) /\ req[r].up = 0 /\ req' = [req EXCEPT ![r] = q]
  BY DEF Types, Shaped, Resting, Plan
<1> HIDE DEF b
<1>5. q = [f \in Fields |-> IF f = "pc" THEN "uploading" ELSE IF f = "batch" THEN b ELSE req[r][f]]
  BY <1>4 DEF Shaped, Fields
<1>6. q.pc = "uploading" /\ q.batch = b /\ q.up = 0 /\ q = [f \in Fields |-> q[f]]
  BY <1>4, <1>5 DEF Fields
<1> HIDE DEF q
<1>7. Shaped(q)
  BY <1>2, <1>6 DEF Shaped, Resting
<1>8. Types' /\ Others(r) /\ req'[r] = q
  BY <1>1, <1>4, <1>7, Becomes
<1>9. Batch(r)' = {b[i] : i \in 1 .. n} /\ Ready(r)' = {} /\ req'[r].pc = "uploading"
  BY <1>2, <1>6, <1>8 DEF Batch, Ready
<1>10. Batch(r)' \subseteq 1 .. planned' /\ Batch(r)' \cap (1 .. planned) = {}
  BY <1>3, <1>9
<1> QED BY <1>1, <1>8, <1>9, <1>10

LEMMA StepPlan ==
  ASSUME IInv, NEW r \in Request, NEW n \in Nat, Plan(r, n), req[r].pc \in {"idle", "reading"},
         UNCHANGED <<ordinal, objects, lost>>
  PROVE  IInv'
<1>1. /\ Types' /\ Others(r) /\ req'[r].pc = "uploading" /\ Ready(r)' = {}
      /\ Batch(r)' \subseteq 1 .. planned' /\ Batch(r)' \cap (1 .. planned) = {}
      /\ 1 .. planned \subseteq 1 .. planned'
  BY PlanShape DEF IInv
<1>2. Uploading(r)' /\ ~Undoing(r)' /\ ~Erasing(r)' /\ Rows' = Rows
  BY <1>1 DEF Uploading, Undoing, Erasing, Rows
<1>3. \A s \in Request \ {r} :
         /\ Uploading(s)' = Uploading(s) /\ Undoing(s)' = Undoing(s) /\ Erasing(s)' = Erasing(s)
         /\ req'[s].target = req[s].target /\ Batch(s)' = Batch(s) /\ Ready(s)' = Ready(s)
  BY <1>1 DEF Others, Same, Uploading, Undoing, Erasing
<1>4. Used'
  <2>1. Rows' \subseteq 1 .. planned'
    BY <1>1, <1>2 DEF IInv, Used
  <2>2. ASSUME NEW s \in Request
        PROVE  Batch(s)' \subseteq 1 .. planned' /\ (Erasing(s)' => req'[s].target \in 1 .. planned')
    <3>1. CASE s = r
      BY <1>1, <1>2, <3>1
    <3>2. CASE s # r
      BY <1>1, <1>3, <3>2 DEF IInv, Used
    <3> QED BY <3>1, <3>2
  <2> QED BY <2>1, <2>2 DEF Used
<1>5. Owned'
  BY <1>1, <1>2, <1>3 DEF IInv, Owned, Used
<1>6. Apart'
  BY <1>1, <1>2, <1>3 DEF IInv, Apart, Used
<1>7. RowsHaveObjects'
  BY <1>2 DEF IInv, RowsHaveObjects
<1> QED BY <1>1, <1>4, <1>5, <1>6, <1>7 DEF IInv

LEMMA UploadShape ==
  ASSUME Types, NEW r \in Request, Upload(r)
  PROVE  /\ Types' /\ Others(r) /\ req[r].pc = "uploading" /\ req'[r].pc = "uploading"
         /\ Batch(r)' = Batch(r) /\ UNCHANGED <<ordinal, planned, lost, left>>
         /\ \E m : Ready(r)' = Ready(r) \cup {m} /\ objects' = objects \cup {m}
<1> DEFINE q == [req[r] EXCEPT !.up = @ + 1]
           m == req[r].batch[req[r].up + 1]
<1>1. /\ Shaped(req[r]) /\ req[r].pc = "uploading" /\ req[r].up < Len(req[r].batch)
      /\ req' = [req EXCEPT ![r] = q] /\ objects' = objects \cup {m}
      /\ UNCHANGED <<ordinal, planned, lost, left>>
  BY DEF Types, Upload
<1>2. req[r].up \in Nat /\ Len(req[r].batch) \in Nat /\ req[r].up + 1 \in 0 .. Len(req[r].batch)
  BY <1>1 DEF Shaped
<1>3. q = [f \in Fields |-> IF f = "up" THEN req[r].up + 1 ELSE req[r][f]]
  BY <1>1 DEF Shaped, Fields
<1>4. q.pc = "uploading" /\ q.batch = req[r].batch /\ q.up = req[r].up + 1 /\ q = [f \in Fields |-> q[f]]
  BY <1>1, <1>3 DEF Fields
<1> HIDE DEF q, m
<1>5. Shaped(q)
  BY <1>1, <1>2, <1>4 DEF Shaped
<1>6. Types' /\ Others(r) /\ req'[r] = q
  BY <1>1, <1>5, Becomes DEF Types
<1>7. Batch(r)' = Batch(r) /\ Ready(r)' = Ready(r) \cup {m} /\ req'[r].pc = "uploading"
  <2>1. Batch(r)' = Batch(r) /\ req'[r].pc = "uploading"
    BY <1>4, <1>6 DEF Batch
  <2>2. Ready(r)' = {req[r].batch[i] : i \in 1 .. req[r].up + 1}
    BY <1>4, <1>6 DEF Ready
  <2>3. 1 .. req[r].up + 1 = (1 .. req[r].up) \cup {req[r].up + 1}
    BY <1>2
  <2> QED BY <2>1, <2>2, <2>3 DEF Ready, m
<1> QED BY <1>1, <1>6, <1>7

LEMMA StepUpload ==
  ASSUME IInv, NEW r \in Request, Upload(r)
  PROVE  IInv'
<1>1. /\ Types' /\ Others(r) /\ req[r].pc = "uploading" /\ req'[r].pc = "uploading"
      /\ Batch(r)' = Batch(r) /\ UNCHANGED <<ordinal, planned, lost>>
      /\ \E m : Ready(r)' = Ready(r) \cup {m} /\ objects' = objects \cup {m}
  BY UploadShape DEF IInv
<1>2. Uploading(r) /\ Uploading(r)' /\ ~Undoing(r)' /\ ~Erasing(r)' /\ Rows' = Rows
  BY <1>1 DEF Uploading, Undoing, Erasing, Rows
<1>3. \A s \in Request \ {r} :
         /\ Uploading(s)' = Uploading(s) /\ Undoing(s)' = Undoing(s) /\ Erasing(s)' = Erasing(s)
         /\ req'[s].target = req[s].target /\ Batch(s)' = Batch(s) /\ Ready(s)' = Ready(s)
  BY <1>1 DEF Others, Same, Uploading, Undoing, Erasing
<1>4. Used'
  BY <1>1, <1>2, <1>3 DEF IInv, Used
<1>5. Owned'
  BY <1>1, <1>2, <1>3 DEF IInv, Owned
<1>6. Apart'
  BY <1>1, <1>2, <1>3 DEF IInv, Apart
<1>7. RowsHaveObjects'
  BY <1>1, <1>2 DEF IInv, RowsHaveObjects
<1> QED BY <1>1, <1>4, <1>5, <1>6, <1>7 DEF IInv

(* A failure, or a conflict: nothing has been committed.                         *)
LEMMA StepUndo ==
  ASSUME IInv, NEW r \in Request, Undo(r), Uploading(r), UNCHANGED <<ordinal, objects, planned, lost>>
  PROVE  IInv'
<1>1. Types' /\ Others(r) /\ req'[r].pc = "undoing" /\ Batch(r)' = Batch(r)
  BY UndoShape DEF IInv
<1>2. Undoing(r)' /\ ~Uploading(r)' /\ ~Erasing(r)' /\ Rows' = Rows
  BY <1>1 DEF Uploading, Undoing, Erasing, Rows
<1>3. \A s \in Request \ {r} :
         /\ Uploading(s)' = Uploading(s) /\ Undoing(s)' = Undoing(s) /\ Erasing(s)' = Erasing(s)
         /\ req'[s].target = req[s].target /\ Batch(s)' = Batch(s) /\ Ready(s)' = Ready(s)
  BY <1>1 DEF Others, Same, Uploading, Undoing, Erasing
<1>4. Used'
  BY <1>1, <1>2, <1>3 DEF IInv, Used
<1>5. Owned'
  BY <1>1, <1>2, <1>3 DEF IInv, Owned
<1>6. Apart'
  BY <1>1, <1>2, <1>3 DEF IInv, Apart
<1>7. RowsHaveObjects'
  BY <1>2 DEF IInv, RowsHaveObjects
<1> QED BY <1>1, <1>4, <1>5, <1>6, <1>7 DEF IInv

(* A put taken for failed: there is an object more.                               *)
LEMMA StepPutLost ==
  ASSUME IInv, NEW r \in Request, PutLost(r)
  PROVE  IInv'
<1>1. /\ Types' /\ Others(r) /\ req'[r].pc = "undoing" /\ Batch(r)' = Batch(r)
      /\ req[r].pc = "uploading" /\ objects \subseteq objects' /\ UNCHANGED <<ordinal, planned, lost>>
  BY UndoShape DEF IInv, PutLost
<1>2. Undoing(r)' /\ ~Uploading(r)' /\ ~Erasing(r)' /\ Rows' = Rows /\ Uploading(r)
  BY <1>1 DEF Uploading, Undoing, Erasing, Rows
<1>3. \A s \in Request \ {r} :
         /\ Uploading(s)' = Uploading(s) /\ Undoing(s)' = Undoing(s) /\ Erasing(s)' = Erasing(s)
         /\ req'[s].target = req[s].target /\ Batch(s)' = Batch(s) /\ Ready(s)' = Ready(s)
  BY <1>1 DEF Others, Same, Uploading, Undoing, Erasing
<1>4. Used'
  BY <1>1, <1>2, <1>3 DEF IInv, Used
<1>5. Owned'
  BY <1>1, <1>2, <1>3 DEF IInv, Owned
<1>6. Apart'
  BY <1>1, <1>2, <1>3 DEF IInv, Apart
<1>7. RowsHaveObjects'
  BY <1>1, <1>2 DEF IInv, RowsHaveObjects
<1> QED BY <1>1, <1>4, <1>5, <1>6, <1>7 DEF IInv

LEMMA AllReady ==
  ASSUME IInv, NEW r \in Request, AllUploaded(r)
  PROVE  Uploading(r) /\ Batch(r) \subseteq objects /\ Batch(r) \cap Rows = {}
BY DEF IInv, AllUploaded, Owned, Uploading, Ready, Batch

(* The rows are committed; the handler ends, or takes them for not committed.      *)
LEMMA StepInserted ==
  ASSUME IInv, NEW r \in Request, Inserted(r), UNCHANGED <<objects, planned>>,
         Types', Others(r), Batch(r)' \subseteq Batch(r),
         \/ UNCHANGED lost /\ req'[r].pc = "idle"
         \/ lost' = lost \cup Batch(r) /\ req'[r].pc = "undoing"
  PROVE  IInv'
<1>1. Uploading(r) /\ Batch(r) \subseteq objects /\ Batch(r) \cap Rows = {}
  BY AllReady DEF Inserted
<1>2. Rows' = Rows \cup Batch(r)
  BY DEF Inserted, InsertedBy, Rows
<1>3. ~Uploading(r)' /\ ~Erasing(r)' /\ (Undoing(r)' => Batch(r) \subseteq lost') /\ lost \subseteq lost'
  BY DEF Uploading, Undoing, Erasing
<1>4. \A s \in Request \ {r} :
         /\ Uploading(s)' = Uploading(s) /\ Undoing(s)' = Undoing(s) /\ Erasing(s)' = Erasing(s)
         /\ req'[s].target = req[s].target /\ Batch(s)' = Batch(s) /\ Ready(s)' = Ready(s)
  BY DEF Others, Same, Uploading, Undoing, Erasing
<1>5. Used'
  BY <1>2, <1>3, <1>4 DEF IInv, Used
<1>6. Owned'
  BY <1>1, <1>2, <1>3, <1>4 DEF IInv, Owned, Apart
<1>7. Apart'
  BY <1>1, <1>3, <1>4 DEF IInv, Apart
<1>8. RowsHaveObjects'
  BY <1>1, <1>2, <1>3 DEF IInv, RowsHaveObjects
<1> QED BY <1>5, <1>6, <1>7, <1>8 DEF IInv

LEMMA RollbackShape ==
  ASSUME Types, NEW r \in Request, RollbackOne(r)
  PROVE  /\ Types' /\ Others(r) /\ req[r].pc = "undoing" /\ req'[r].pc = "undoing"
         /\ Batch(r)' \subseteq Batch(r) /\ UNCHANGED <<ordinal, planned, lost>>
         /\ \E m \in Batch(r) : /\ Ready(r) \subseteq Ready(r)' \cup {m}
                               /\ \/ objects' = objects \ {m} /\ left' = left \ {m}
                                  \/ objects' = objects /\ left' = left \cup {m}
<1> DEFINE m == Head(req[r].batch)
           b == Tail(req[r].batch)
           q == [req[r] EXCEPT !.up = @ - 1, !.batch = Tail(@)]
<1>1. /\ Shaped(req[r]) /\ req[r].pc = "undoing" /\ req[r].up > 0
      /\ req' = [req EXCEPT ![r] = q] /\ UNCHANGED <<ordinal, planned, lost>>
      /\ \/ objects' = objects \ {m} /\ left' = left \ {m}
         \/ objects' = objects /\ left' = left \cup {m}
  BY DEF Types, RollbackOne
<1>2. /\ req[r].batch \in Seq(Nat) /\ Len(req[r].batch) > 0 /\ req[r].up - 1 \in 0 .. Len(b)
      /\ b \in Seq(Nat) /\ m \in Batch(r)
      /\ Len(b) = Len(req[r].batch) - 1 /\ \A i \in 1 .. Len(b) : b[i] = req[r].batch[i + 1]
      /\ m = req[r].batch[1]
  <2>1. req[r].batch \in Seq(Nat) /\ req[r].up \in 0 .. Len(req[r].batch) /\ req[r].up > 0
    BY <1>1 DEF Shaped
  <2>2. Len(req[r].batch) \in Nat /\ Len(req[r].batch) > 0 /\ req[r].batch # << >>
    BY <2>1
  <2>3. /\ b \in Seq(Nat) /\ Len(b) = Len(req[r].batch) - 1 /\ m = req[r].batch[1]
        /\ \A i \in 1 .. Len(b) : b[i] = req[r].batch[i + 1]
    BY <2>1, <2>2
  <2>4. m \in Batch(r)
    BY <2>2, <2>3 DEF Batch
  <2> QED BY <2>1, <2>2, <2>3, <2>4
<1>3. {b[i] : i \in 1 .. Len(b)} \subseteq Batch(r)
  BY <1>2 DEF Batch
<1>4. q = [f \in Fields |-> IF f = "up" THEN req[r].up - 1 ELSE IF f = "batch" THEN b ELSE req[r][f]]
  BY <1>1 DEF Shaped, Fields
<1>5. q.pc = "undoing" /\ q.batch = b /\ q.up = req[r].up - 1 /\ q = [f \in Fields |-> q[f]]
  BY <1>1, <1>4 DEF Fields
<1> HIDE DEF q, m, b
<1>6. Shaped(q)
  BY <1>1, <1>2, <1>5 DEF Shaped
<1>7. Types' /\ Others(r) /\ req'[r] = q
  BY <1>1, <1>6, Becomes DEF Types
<1>8. Batch(r)' \subseteq Batch(r) /\ req'[r].pc = "undoing"
  BY <1>3, <1>5, <1>7 DEF Batch
<1>9. Ready(r) \subseteq Ready(r)' \cup {m}
  <2>1. Ready(r)' = {b[i] : i \in 1 .. req[r].up - 1}
    BY <1>5, <1>7 DEF Ready
  <2>2. ASSUME NEW i \in 1 .. req[r].up PROVE req[r].batch[i] \in Ready(r)' \cup {m}
    <3>0. req[r].up \in Nat /\ req[r].up - 1 \in 0 .. Len(b)
      BY <1>1, <1>2 DEF Shaped
    <3>1. CASE i = 1
      BY <1>2, <3>1
    <3>2. CASE i # 1
      <4>1. i - 1 \in 1 .. Len(b) /\ i - 1 \in 1 .. req[r].up - 1 /\ (i - 1) + 1 = i
        <5>1. i \in Nat /\ i >= 1 /\ i =< req[r].up /\ i # 1 /\ Len(b) \in Nat
          BY <1>2, <3>0, <3>2
        <5> QED BY <3>0, <5>1
      <4>2. b[i - 1] = req[r].batch[(i - 1) + 1]
        BY <1>2, <4>1
      <4>3. b[i - 1] = req[r].batch[i]
        BY <4>1, <4>2
      <4> QED BY <2>1, <4>1, <4>3
    <3> QED BY <3>1, <3>2
  <2> QED BY <2>2 DEF Ready
<1> QED BY <1>1, <1>2, <1>7, <1>8, <1>9

LEMMA StepRollback ==
  ASSUME IInv, NEW r \in Request, RollbackOne(r)
  PROVE  IInv'
<1>1. /\ Types' /\ Others(r) /\ req[r].pc = "undoing" /\ req'[r].pc = "undoing"
      /\ Batch(r)' \subseteq Batch(r) /\ UNCHANGED <<ordinal, planned, lost>>
  BY RollbackShape DEF IInv
<1>2. PICK m \in Batch(r) : objects \ {m} \subseteq objects'
  BY RollbackShape DEF IInv
<1>3. Undoing(r) /\ Undoing(r)' /\ ~Uploading(r)' /\ ~Erasing(r)' /\ Rows' = Rows
  BY <1>1 DEF Uploading, Undoing, Erasing, Rows
<1>4. \A s \in Request \ {r} :
         /\ Uploading(s)' = Uploading(s) /\ Undoing(s)' = Undoing(s) /\ Erasing(s)' = Erasing(s)
         /\ req'[s].target = req[s].target /\ Batch(s)' = Batch(s) /\ Ready(s)' = Ready(s)
  BY <1>1 DEF Others, Same, Uploading, Undoing, Erasing
<1>5. Used'
  BY <1>1, <1>3, <1>4 DEF IInv, Used
<1>6. \A s \in Request \ {r} : Uploading(s) => Ready(s) \subseteq Batch(s) /\ m \notin Batch(s)
  <2> SUFFICES ASSUME NEW s \in Request \ {r}, Uploading(s)
               PROVE  Ready(s) \subseteq Batch(s) /\ m \notin Batch(s)
    OBVIOUS
  <2>1. Ready(s) \subseteq Batch(s)
    BY DEF IInv, Types, Shaped, Ready, Batch
  <2>2. Batch(s) \cap Batch(r) = {}
    BY <1>3 DEF IInv, Apart
  <2> QED BY <1>2, <2>1, <2>2
<1>7. Owned'
  BY <1>1, <1>2, <1>3, <1>4, <1>6 DEF IInv, Owned
<1>8. Apart'
  BY <1>1, <1>3, <1>4 DEF IInv, Apart
<1>9. RowsHaveObjects'
  BY <1>1, <1>2, <1>3 DEF IInv, RowsHaveObjects, Owned
<1> QED BY <1>1, <1>5, <1>7, <1>8, <1>9 DEF IInv

LEMMA DeleteShape ==
  ASSUME Types, NEW r \in Request, NEW m \in Rows, DeleteMedia(r, m)
  PROVE  /\ Types' /\ Others(r) /\ req[r].pc = "idle" /\ req'[r].pc = "erasing" /\ req'[r].target = m
         /\ Batch(r)' = Batch(r) /\ Rows' = Rows \ {m} /\ lost' = lost \ {m}
         /\ UNCHANGED <<objects, planned, left>>
<1> DEFINE q == [req[r] EXCEPT !.pc = "erasing", !.target = m]
<1>1. /\ Shaped(req[r]) /\ req[r].pc = "idle" /\ req' = [req EXCEPT ![r] = q]
      /\ Rows' = Rows \ {m} /\ lost' = lost \ {m} /\ UNCHANGED <<objects, planned, left>>
  BY DEF Types, DeleteMedia, Rows
<1>2. q = [f \in Fields |-> IF f = "pc" THEN "erasing" ELSE IF f = "target" THEN m ELSE req[r][f]]
  BY <1>1 DEF Shaped, Fields
<1>3. /\ q.pc = "erasing" /\ q.target = m /\ q.batch = req[r].batch /\ q.up = req[r].up
      /\ q = [f \in Fields |-> q[f]]
  BY <1>1, <1>2 DEF Fields
<1> HIDE DEF q
<1>4. Shaped(q)
  BY <1>1, <1>3 DEF Shaped, Resting
<1>5. Types' /\ Others(r) /\ req'[r] = q
  BY <1>1, <1>4, Becomes DEF Types
<1>6. Batch(r)' = Batch(r) /\ req'[r].target = m /\ req'[r].pc = "erasing"
  BY <1>3, <1>5 DEF Batch
<1> QED BY <1>1, <1>5, <1>6

LEMMA StepDelete ==
  ASSUME IInv, NEW r \in Request, NEW m \in Rows, DeleteMedia(r, m)
  PROVE  IInv'
<1>1. /\ Types' /\ Others(r) /\ req'[r].pc = "erasing" /\ req'[r].target = m /\ Batch(r)' = Batch(r)
      /\ Rows' = Rows \ {m} /\ lost' = lost \ {m} /\ UNCHANGED <<objects, planned>>
  BY DeleteShape DEF IInv
<1>2. Erasing(r)' /\ ~Uploading(r)' /\ ~Undoing(r)'
  BY <1>1 DEF Uploading, Undoing, Erasing
<1>3. \A s \in Request \ {r} :
         /\ Uploading(s)' = Uploading(s) /\ Undoing(s)' = Undoing(s) /\ Erasing(s)' = Erasing(s)
         /\ req'[s].target = req[s].target /\ Batch(s)' = Batch(s) /\ Ready(s)' = Ready(s)
  BY <1>1 DEF Others, Same, Uploading, Undoing, Erasing
<1>4. Used'
  BY <1>1, <1>2, <1>3 DEF IInv, Used
<1>5. Owned'
  BY <1>1, <1>2, <1>3 DEF IInv, Owned
<1>6. Apart'
  BY <1>1, <1>2, <1>3 DEF IInv, Apart, Owned
<1>7. RowsHaveObjects'
  BY <1>1 DEF IInv, RowsHaveObjects
<1> QED BY <1>1, <1>4, <1>5, <1>6, <1>7 DEF IInv

LEMMA StepDeleteObject ==
  ASSUME IInv, NEW r \in Request, DeleteObject(r)
  PROVE  IInv'
<1> DEFINE m == req[r].target
<1>1. /\ Answer(r) /\ req[r].pc = "erasing"
      /\ objects \ {m} \subseteq objects' /\ UNCHANGED <<ordinal, planned, lost>>
  BY DEF DeleteObject
<1>2. Types' /\ Others(r) /\ req'[r] = Idle
  BY <1>1, AnswerShape DEF IInv, Types
<1>3. Erasing(r) /\ Rows' = Rows /\ m \notin Rows
  BY <1>1 DEF IInv, Owned, Erasing, Rows
<1>4. Batch(r)' = {} /\ ~Uploading(r)' /\ ~Undoing(r)' /\ ~Erasing(r)'
  BY <1>2 DEF Idle, Batch, Uploading, Undoing, Erasing
<1>5. \A s \in Request \ {r} :
         /\ Uploading(s)' = Uploading(s) /\ Undoing(s)' = Undoing(s) /\ Erasing(s)' = Erasing(s)
         /\ req'[s].target = req[s].target /\ Batch(s)' = Batch(s) /\ Ready(s)' = Ready(s)
  BY <1>2 DEF Others, Same, Uploading, Undoing, Erasing
<1>6. \A s \in Request \ {r} : Uploading(s) => Ready(s) \subseteq Batch(s) /\ m \notin Batch(s)
  <2> SUFFICES ASSUME NEW s \in Request \ {r}, Uploading(s)
               PROVE  Ready(s) \subseteq Batch(s) /\ m \notin Batch(s)
    OBVIOUS
  <2>1. Ready(s) \subseteq Batch(s)
    BY DEF IInv, Types, Shaped, Ready, Batch
  <2> QED BY <1>3, <2>1 DEF IInv, Apart
<1> HIDE DEF m
<1>7. Used'
  BY <1>1, <1>3, <1>4, <1>5 DEF IInv, Used
<1>8. Owned'
  BY <1>1, <1>3, <1>4, <1>5, <1>6 DEF IInv, Owned
<1>9. Apart'
  BY <1>4, <1>5 DEF IInv, Apart
<1>10. RowsHaveObjects'
  BY <1>1, <1>3 DEF IInv, RowsHaveObjects
<1> QED BY <1>2, <1>7, <1>8, <1>9, <1>10 DEF IInv

(* Requests that only look at the rows keep what they have uploaded, which is      *)
(* nothing, or end.                                                          *)
Look(q, pc, base, target, order, to, seen) ==
  [q EXCEPT !.pc = pc, !.base = base, !.target = target, !.order = order, !.to = to, !.seen = seen]

LooksAs(r, pc, base, target, order, to, seen) ==
  req' = [req EXCEPT ![r] = Look(req[r], pc, base, target, order, to, seen)]

(* What is left of such a step.                                               *)
Rested(r) ==
  /\ req[r].pc \in Resting /\ req'[r].pc \in Resting /\ Batch(r)' \subseteq Batch(r)
  /\ Types' /\ Others(r)
  /\ DOMAIN ordinal' = DOMAIN ordinal /\ UNCHANGED <<objects, planned, lost, left>>

LEMMA Looks ==
  ASSUME IInv, NEW r \in Request, req[r].pc \in Resting, NEW pc \in {"reading", "listed", "checked"},
         NEW base, NEW target, NEW order, NEW to, NEW seen,
         LooksAs(r, pc, base, target, order, to, seen),
         UNCHANGED <<ordinal, objects, planned, lost, left>>
  PROVE  Rested(r)
<1> DEFINE q == Look(req[r], pc, base, target, order, to, seen)
<1>1. Shaped(req[r])
  BY DEF IInv, Types
<1>2. q = [f \in Fields |-> IF f = "pc" THEN pc ELSE IF f = "base" THEN base ELSE IF f = "target" THEN target
                          ELSE IF f = "order" THEN order ELSE IF f = "to" THEN to
                          ELSE IF f = "seen" THEN seen ELSE req[r][f]]
  BY <1>1 DEF Shaped, Look, Fields
<1>3. q.pc = pc /\ q.batch = req[r].batch /\ q.up = req[r].up /\ q = [f \in Fields |-> q[f]]
  BY <1>2 DEF Fields
<1>4. req' = [req EXCEPT ![r] = q]
  BY DEF LooksAs
<1> HIDE DEF q
<1>5. Shaped(q)
  BY <1>1, <1>3 DEF Shaped, Resting
<1>6. Types' /\ Others(r) /\ req'[r] = q
  BY <1>4, <1>5, Becomes DEF IInv, Types
<1>7. Batch(r)' = Batch(r) /\ req'[r].pc \in Resting
  BY <1>3, <1>6 DEF Batch, Resting
<1> QED BY <1>6, <1>7 DEF Rested

LEMMA StepLooks ==
  ASSUME IInv, NEW r \in Request,
         \/ BeginAppend(r) \/ CheckCover(r)
         \/ \E m \in Rows : ListForCover(r, m)
         \/ \E l \in Lists : Reorder(r, l[1], l[2])
  PROVE  Rested(r)
<1> DEFINE q == req[r]
<1>1. q = [f \in Fields |-> q[f]]
  BY DEF IInv, Types, Shaped
<1>2. CASE BeginAppend(r)
  <2> DEFINE o == NextOrdinal
  <2>1. req' = [req EXCEPT ![r] = [q EXCEPT !.pc = "reading", !.base = o, !.seen = Rows]] /\ q.pc = "idle"
    BY <1>2 DEF BeginAppend
  <2> HIDE DEF o
  <2>2. [q EXCEPT !.pc = "reading", !.base = o, !.seen = Rows]
          = Look(q, "reading", o, q.target, q.order, q.to, Rows)
    BY <1>1 DEF Look, Fields
  <2>3. LooksAs(r, "reading", o, q.target, q.order, q.to, Rows)
    BY <2>1, <2>2, Zenon DEF LooksAs
  <2>4. UNCHANGED <<ordinal, objects, planned, lost, left>> /\ req[r].pc \in Resting
    BY <1>2 DEF BeginAppend, Resting
  <2> QED BY <2>1, <2>3, <2>4, Looks
<1>3. CASE CheckCover(r)
  <2>1. req' = [req EXCEPT ![r] = [q EXCEPT !.pc = "checked", !.seen = Rows]]
    BY <1>3 DEF CheckCover
  <2>2. [q EXCEPT !.pc = "checked", !.seen = Rows] = Look(q, "checked", q.base, q.target, q.order, q.to, Rows)
    BY <1>1 DEF Look, Fields
  <2>3. LooksAs(r, "checked", q.base, q.target, q.order, q.to, Rows)
    BY <2>1, <2>2, Zenon DEF LooksAs
  <2>4. UNCHANGED <<ordinal, objects, planned, lost, left>> /\ req[r].pc \in Resting
    BY <1>3 DEF CheckCover, Resting
  <2> QED BY <2>1, <2>3, <2>4, Looks
<1>4. ASSUME NEW m \in Rows, ListForCover(r, m) PROVE Rested(r)
  <2> DEFINE order == <<m>> \o Ascending(Rows \ {m})
             to == [i \in 1 .. Len(order) |-> Wrap(i - 1)]
  <2>1. req' = [req EXCEPT ![r] = [q EXCEPT !.pc = "listed", !.target = m, !.order = order, !.to = to]]
    BY <1>4 DEF ListForCover
  <2> HIDE DEF order, to
  <2>2. [q EXCEPT !.pc = "listed", !.target = m, !.order = order, !.to = to]
          = Look(q, "listed", q.base, m, order, to, q.seen)
    BY <1>1 DEF Look, Fields
  <2>3. LooksAs(r, "listed", q.base, m, order, to, q.seen)
    BY <2>1, <2>2, Zenon DEF LooksAs
  <2>4. UNCHANGED <<ordinal, objects, planned, lost, left>> /\ req[r].pc \in Resting
    BY <1>4 DEF ListForCover, Resting
  <2> QED BY <2>1, <2>3, <2>4, Looks
<1>5. ASSUME NEW l \in Lists, Reorder(r, l[1], l[2]) PROVE Rested(r)
  <2>1. req' = [req EXCEPT ![r] = [q EXCEPT !.pc = "checked", !.order = l[1], !.to = l[2], !.seen = Rows]]
    BY <1>5 DEF Reorder
  <2>2. [q EXCEPT !.pc = "checked", !.order = l[1], !.to = l[2], !.seen = Rows]
          = Look(q, "checked", q.base, q.target, l[1], l[2], Rows)
    BY <1>1 DEF Look, Fields
  <2>3. LooksAs(r, "checked", q.base, q.target, l[1], l[2], Rows)
    BY <2>1, <2>2, Zenon DEF LooksAs
  <2>4. UNCHANGED <<ordinal, objects, planned, lost, left>> /\ req[r].pc \in Resting
    BY <1>5 DEF Reorder, Resting
  <2> QED BY <2>1, <2>3, <2>4, Looks
<1> QED BY <1>2, <1>3, <1>4, <1>5

LEMMA StepRewrites ==
  ASSUME IInv, NEW r \in Request, req[r].pc \in Resting, AnswerRewritten(r),
         DOMAIN ordinal' = DOMAIN ordinal, UNCHANGED <<objects, planned, lost, left>>
  PROVE  Rested(r)
<1>1. Types' /\ Others(r) /\ req'[r] = Idle
  BY Rewritten DEF IInv, Types
<1> QED BY <1>1, EmptyIdle DEF Rested

LEMMA StepRefuses ==
  ASSUME IInv, NEW r \in Request, Refuse(r) \/ ReorderAborts(r)
  PROVE  Rested(r)
<1>1. Answer(r) /\ UNCHANGED <<ordinal, objects, planned, lost, left>> /\ req[r].pc \in Resting
  BY DEF Refuse, ReorderAborts, Resting
<1>2. Types' /\ Others(r) /\ req'[r] = Idle
  BY <1>1, AnswerShape DEF IInv, Types
<1> QED BY <1>1, <1>2, EmptyIdle DEF Rested

(* The actions by what they do to the objects.                                   *)
Begins(r) ==
  \E n \in Nat : /\ Plan(r, n) /\ req[r].pc \in {"idle", "reading"}
                /\ UNCHANGED <<post, ordinal, objects, lost, left>>

LEMMA Kinds ==
  ASSUME IInv, NEW r \in Request, Serve(r)
  PROVE  \/ Begins(r) \/ Upload(r) \/ UploadFails(r) \/ PutLost(r) \/ InsertConflicts(r)
         \/ Insert(r) \/ CommitLost(r) \/ RollbackOne(r) \/ RollbackDone(r) \/ Drop(r)
         \/ (\E m \in Rows : DeleteMedia(r, m)) \/ DeleteObject(r) \/ Rested(r)
<1>1. ASSUME NEW n \in 0 .. MaxFiles, Compose(r, n) \/ PlanAppend(r, n) PROVE Begins(r)
  <2>1. n \in Nat
    BY BoundsArePositive
  <2> QED BY <1>1, <2>1 DEF Compose, PlanAppend, Begins
<1>2. CASE Refuse(r) \/ ReorderAborts(r)
  BY <1>2, StepRefuses
<1>3. ASSUME NEW m \in Rows, NEW o \in Typed, UpdateAlbumMedia(r, m, o) PROVE Rested(r)
  BY <1>3, StepRewrites DEF UpdateAlbumMedia, Resting
<1>4. CASE ReorderCommits(r)
  BY <1>4, StepRewrites DEF ReorderCommits, Moved, Resting
<1>5. CASE BeginAppend(r) \/ CheckCover(r) \/ (\E m \in Rows : ListForCover(r, m))
              \/ \E l \in Lists : Reorder(r, l[1], l[2])
  BY <1>5, StepLooks
<1> QED BY <1>1, <1>2, <1>3, <1>4, <1>5 DEF Serve

LEMMA StepServe ==
  ASSUME IInv, NEW r \in Request, Serve(r)
  PROVE  IInv'
<1>1. CASE Begins(r)
  BY <1>1, StepPlan DEF Begins
<1>2. CASE Upload(r)
  BY <1>2, StepUpload
<1>3. CASE UploadFails(r) \/ InsertConflicts(r)
  BY <1>3, StepUndo DEF UploadFails, InsertConflicts, AllUploaded, Uploading
<1>4. CASE Insert(r)
  <2>1. Types' /\ Others(r) /\ req'[r] = Idle
    BY <1>4, AnswerShape DEF IInv, Types, Insert
  <2>2. Batch(r)' \subseteq Batch(r) /\ req'[r].pc = "idle"
    BY <2>1, EmptyIdle DEF Idle
  <2> QED BY <1>4, <2>1, <2>2, StepInserted DEF Insert
<1>5. CASE CommitLost(r)
  <2>1. Types' /\ Others(r) /\ req'[r].pc = "undoing" /\ Batch(r)' = Batch(r)
    BY <1>5, UndoShape DEF IInv, CommitLost
  <2> QED BY <1>5, <2>1, StepInserted DEF CommitLost
<1>6. CASE RollbackOne(r)
  BY <1>6, StepRollback
<1>7. CASE RollbackDone(r) \/ Drop(r)
  BY <1>7, Answered DEF RollbackDone, Drop
<1>8. ASSUME NEW m \in Rows, DeleteMedia(r, m) PROVE IInv'
  BY <1>8, StepDelete
<1>9. CASE DeleteObject(r)
  BY <1>9, StepDeleteObject
<1>10. CASE Rested(r)
  BY <1>10, Rests DEF Rested
<1>11. CASE PutLost(r)
  BY <1>11, StepPutLost
<1> QED BY <1>1, <1>2, <1>3, <1>4, <1>5, <1>6, <1>7, <1>8, <1>9, <1>10, <1>11, Kinds

LEMMA StepInv == IInv /\ [Next]_vars => IInv'
<1> SUFFICES ASSUME IInv, [Next]_vars PROVE IInv'
  OBVIOUS
<1>1. CASE DeletePost \/ UNCHANGED vars
  <2>1. UNCHANGED <<ordinal, objects, planned, req, lost>>
    BY <1>1 DEF DeletePost, vars
  <2>2. /\ Rows' = Rows
        /\ \A r \in Request : /\ Batch(r)' = Batch(r) /\ Ready(r)' = Ready(r) /\ Uploading(r)' = Uploading(r)
                             /\ Undoing(r)' = Undoing(r) /\ Erasing(r)' = Erasing(r)
    BY <2>1 DEF Rows, Batch, Ready, Uploading, Undoing, Erasing
  <2>3. Types'
    BY <2>1 DEF IInv, Types, Shaped
  <2>4. Used'
    BY <2>1, <2>2 DEF IInv, Used
  <2>5. Owned'
    BY <2>1, <2>2 DEF IInv, Owned
  <2>6. Apart'
    BY <2>1, <2>2 DEF IInv, Apart
  <2>7. RowsHaveObjects'
    BY <2>1, <2>2 DEF IInv, RowsHaveObjects
  <2> QED BY <2>3, <2>4, <2>5, <2>6, <2>7 DEF IInv
<1>2. ASSUME NEW r \in Request, Serve(r) PROVE IInv'
  BY <1>2, StepServe
<1> QED BY <1>1, <1>2 DEF Next

-----------------------------------------------------------------------------
(* Every object has a row, a reason, or a request that will see to it.             *)
Holds(r, m) == m \in Ready(r) \/ (Erasing(r) /\ req[r].target = m)

Accounted == \A m \in objects : m \in Rows \cup left \/ \E r \in Request : Holds(r, m)

LEMMA AccountedSame == Accounted <=> ObjectsAccounted
<1>1. \A m : (m \in UNION {{req[r].batch[i] : i \in 1 .. req[r].up} : r \in Request})
                <=> \E r \in Request : m \in Ready(r)
  BY DEF Ready
<1>2. \A m : (m \in {req[r].target : r \in {q \in Request : req[q].pc = "erasing"}})
                <=> \E r \in Request : Erasing(r) /\ req[r].target = m
  BY DEF Erasing
<1> QED BY <1>1, <1>2 DEF Accounted, ObjectsAccounted, Holds

(* A step of one request leaves what the others hold to them.                     *)
LEMMA Passes ==
  ASSUME Accounted, NEW r \in Request, Others(r),
         \A m \in objects' : \/ m \in Rows' \cup left'
                             \/ Holds(r, m)'
                             \/ m \in objects /\ ~Holds(r, m) /\ m \notin Rows \cup left
  PROVE  Accounted'
<1>1. ASSUME NEW q \in Request \ {r}, NEW m, Holds(q, m) PROVE Holds(q, m)'
  BY <1>1 DEF Others, Same, Holds, Erasing
<1>2. ASSUME NEW m \in objects' PROVE m \in Rows' \cup left' \/ \E q \in Request : Holds(q, m)'
  <2>1. CASE m \in objects /\ ~Holds(r, m) /\ m \notin Rows \cup left
    <3>1. PICK q \in Request : Holds(q, m)
      BY <2>1 DEF Accounted
    <3>2. q # r
      BY <2>1, <3>1
    <3> QED BY <1>1, <3>1, <3>2
  <2>2. CASE m \in Rows' \cup left' \/ Holds(r, m)'
    BY <2>2
  <2> QED BY <1>2, <2>1, <2>2
<1> QED BY <1>2 DEF Accounted

LEMMA Bare ==
  ASSUME Types, NEW r \in Request, req[r].pc \in Resting \cup {"erasing"}
  PROVE  Ready(r) = {}
<1>1. req[r].up = 0
  BY DEF Types, Shaped
<1> QED BY <1>1 DEF Ready

LEMMA AccountServe ==
  ASSUME IInv, Accounted, NEW r \in Request, Serve(r)
  PROVE  Accounted'
<1>0. Types /\ planned \in Nat
  BY DEF IInv, Types
<1>1. CASE Begins(r)
  <2>1. Others(r) /\ Rows' = Rows /\ UNCHANGED <<objects, left>>
    BY <1>0, <1>1, PlanShape DEF Begins, Rows
  <2>2. Ready(r) = {} /\ ~Erasing(r)
    BY <1>0, <1>1, Bare DEF Begins, Resting, Erasing
  <2> QED BY <2>1, <2>2, Passes DEF Holds
<1>2. CASE Upload(r)
  <2>1. /\ Others(r) /\ UNCHANGED <<ordinal, left>> /\ req[r].pc = "uploading"
        /\ \E m : Ready(r)' = Ready(r) \cup {m} /\ objects' = objects \cup {m}
    BY <1>0, <1>2, UploadShape
  <2> QED BY <2>1, Passes DEF Holds, Rows, Erasing
<1>3. CASE UploadFails(r) \/ InsertConflicts(r)
  <2>1. Undo(r) /\ UNCHANGED <<ordinal, objects, planned, left>> /\ req[r].pc = "uploading"
    BY <1>3 DEF UploadFails, InsertConflicts, AllUploaded
  <2>2. Others(r) /\ Ready(r)' = Ready(r)
    BY <1>0, <2>1, UndoShape
  <2> QED BY <2>1, <2>2, Passes DEF Holds, Rows, Erasing
<1>4. CASE Insert(r)
  <2>1. Others(r) /\ UNCHANGED <<objects, left>>
    BY <1>0, <1>4, AnswerShape DEF Insert
  <2>2. AllUploaded(r) /\ Rows' = Rows \cup Batch(r)
    BY <1>4 DEF Insert, Inserted, InsertedBy, Rows
  <2>3. Ready(r) = Batch(r) /\ ~Erasing(r)
    BY <2>2 DEF AllUploaded, Ready, Batch, Erasing
  <2> QED BY <2>1, <2>2, <2>3, Passes DEF Holds
<1>5. CASE CommitLost(r)
  <2>1. Undo(r) /\ AllUploaded(r) /\ UNCHANGED <<objects, planned, left>> /\ Rows' = Rows \cup Batch(r)
    BY <1>5 DEF CommitLost, Inserted, InsertedBy, Rows
  <2>2. Others(r) /\ Ready(r)' = Ready(r) /\ ~Erasing(r)
    BY <1>0, <2>1, UndoShape DEF AllUploaded, Erasing
  <2> QED BY <2>1, <2>2, Passes DEF Holds
<1>6. CASE RollbackOne(r)
  <2>1. Others(r) /\ UNCHANGED ordinal /\ ~Erasing(r)
    BY <1>0, <1>6, RollbackShape DEF Erasing
  <2>2. \E m \in Batch(r) : /\ Ready(r) \subseteq Ready(r)' \cup {m}
                           /\ \/ objects' = objects \ {m} /\ left' = left \ {m}
                              \/ objects' = objects /\ left' = left \cup {m}
    BY <1>0, <1>6, RollbackShape
  <2> QED BY <2>1, <2>2, Passes DEF Holds, Rows
<1>7. CASE RollbackDone(r)
  <2>1. Others(r) /\ UNCHANGED <<ordinal, objects, left>> /\ req[r].pc = "undoing" /\ req[r].up = 0
    BY <1>0, <1>7, AnswerShape DEF RollbackDone
  <2>2. Ready(r) = {}
    BY <2>1 DEF Ready
  <2> QED BY <2>1, <2>2, Passes DEF Holds, Rows, Erasing
<1>8. CASE Drop(r)
  <2>1. /\ Others(r) /\ UNCHANGED <<ordinal, objects>>
        /\ left' = left \cup (IF Erasing(r) THEN {req[r].target} \cap objects ELSE Ready(r) \ Rows)
    BY <1>0, <1>8, AnswerShape DEF Drop, Erasing, Ready
  <2>2. Erasing(r) => Ready(r) = {}
    BY <1>0, Bare DEF Erasing
  <2> QED BY <2>1, <2>2, Passes DEF Holds, Rows
<1>9. ASSUME NEW m \in Rows, DeleteMedia(r, m) PROVE Accounted'
  <2>1. /\ Others(r) /\ req[r].pc = "idle" /\ Erasing(r)' /\ req'[r].target = m
        /\ Rows' = Rows \ {m} /\ UNCHANGED <<objects, left>>
    BY <1>0, <1>9, DeleteShape DEF Erasing
  <2>2. Ready(r) = {} /\ ~Erasing(r)
    BY <1>0, <2>1, Bare DEF Resting, Erasing
  <2> QED BY <2>1, <2>2, Passes DEF Holds
<1>10. CASE DeleteObject(r)
  <2> DEFINE m == req[r].target
  <2>1. /\ Others(r) /\ UNCHANGED ordinal /\ Erasing(r)
        /\ \/ objects' = objects \ {m} /\ left' = left \ {m}
           \/ objects' = objects /\ left' = left \cup ({m} \cap objects)
    BY <1>0, <1>10, AnswerShape DEF DeleteObject, Erasing
  <2>2. Ready(r) = {}
    BY <1>0, <2>1, Bare DEF Erasing
  <2> QED BY <2>1, <2>2, Passes DEF Holds, Rows
<1>11. CASE Rested(r)
  <2>1. Others(r) /\ Rows' = Rows /\ UNCHANGED <<objects, left>> /\ req[r].pc \in Resting
    BY <1>11 DEF Rested, Rows
  <2>2. Ready(r) = {} /\ ~Erasing(r)
    BY <1>0, <2>1, Bare DEF Resting, Erasing
  <2> QED BY <2>1, <2>2, Passes DEF Holds
<1>12. CASE PutLost(r)
  <2>1. /\ Undo(r) /\ UNCHANGED <<ordinal, planned>> /\ req[r].pc = "uploading"
        /\ \E m : objects' = objects \cup {m} /\ left' = left \cup {m}
    BY <1>12 DEF PutLost
  <2>2. Others(r) /\ Ready(r)' = Ready(r)
    BY <1>0, <2>1, UndoShape
  <2> QED BY <2>1, <2>2, Passes DEF Holds, Rows, Erasing
<1> QED BY <1>1, <1>2, <1>3, <1>4, <1>5, <1>6, <1>7, <1>8, <1>9, <1>10, <1>11, <1>12, Kinds

LEMMA StepAccounted == IInv /\ Accounted /\ [Next]_vars => Accounted'
<1> SUFFICES ASSUME IInv, Accounted, [Next]_vars PROVE Accounted'
  OBVIOUS
<1>1. CASE DeletePost \/ UNCHANGED vars
  <2>1. UNCHANGED <<ordinal, objects, req, left>>
    BY <1>1 DEF DeletePost, vars
  <2>2. Rows' = Rows /\ \A r, m : Holds(r, m)' <=> Holds(r, m)
    BY <2>1 DEF Rows, Holds, Ready, Erasing
  <2> QED BY <2>1, <2>2 DEF Accounted
<1>2. ASSUME NEW r \in Request, Serve(r) PROVE Accounted'
  BY <1>2, AccountServe
<1> QED BY <1>1, <1>2 DEF Next

-----------------------------------------------------------------------------
(* commit_compose, append_media and delete_media, with their roll-backs, lost      *)
(* answers, failed removals and dropped handlers, in any order: no row points at   *)
(* an object that is not there, unless the answer of its COMMIT was lost.         *)
THEOREM NoDanglingRow == Spec => []RowsHaveObjects
<1>1. IInv => RowsHaveObjects
  BY DEF IInv
<1> QED BY InitInv, StepInv, <1>1, PTL DEF Spec

(* No object is forgotten: each has a row, or a request that will see to it, or its *)
(* removal failed or was never reached, or its put was taken for failed.          *)
THEOREM NothingForgotten == Spec => []ObjectsAccounted
<1>1. Init => Accounted
  BY DEF Init, Accounted
<1> QED BY InitInv, StepInv, StepAccounted, <1>1, AccountedSame, PTL DEF Spec
-----------------------------------------------------------------------------
(* Ordinals.                                                                 *)
LEMMA HalfIsPositive == Half \in Nat \ {0} /\ Offset \in Nat \ {0} /\ 2 * Offset =< Half
BY OrdinalsHoldTwoOffsets

LEMMA WrapRange == ASSUME NEW n \in Int PROVE Wrap(n) \in Ordinal
<1>1. 2 * Half \in Nat \ {0} /\ n + Half \in Int
  BY HalfIsPositive
<1>2. (n + Half) % (2 * Half) \in 0 .. 2 * Half - 1
  BY <1>1
<1> QED BY <1>2, HalfIsPositive DEF Wrap, Ordinal

LEMMA WrapSmall == ASSUME NEW n \in Ordinal PROVE Wrap(n) = n
<1>1. 2 * Half \in Nat \ {0} /\ n + Half \in Nat /\ n + Half < 2 * Half
  BY HalfIsPositive DEF Ordinal
<1>2. (n + Half) % (2 * Half) = n + Half
  BY <1>1
<1> QED BY <1>2, HalfIsPositive DEF Wrap, Ordinal

LEMMA WrapHalf == Wrap(Half) = -Half
<1>1. (Half + Half) % (2 * Half) = 0
  BY HalfIsPositive
<1> QED BY <1>1, HalfIsPositive DEF Wrap

(* Among ordinals there is a highest.                                        *)
LEMMA Highest ==
  ASSUME NEW S, S # {}, NEW f, \A m \in S : f[m] \in Ordinal
  PROVE  \E m \in S : \A n \in S : f[n] =< f[m]
<1> DEFINE Under == {Half - f[m] : m \in S}
           Before == {ss \in Nat \X Nat : ss[1] < ss[2]}
<1>1. Under \subseteq Nat /\ Under # {}
  BY HalfIsPositive DEF Ordinal
<1>2. IsWellFoundedOn(Before, Nat)
  BY NatLessThanWellFounded DEF OpToRel
<1>3. PICK x \in Under : \A y \in Under : <<y, x>> \notin Before
  BY <1>1, <1>2, WFMin
<1>4. PICK m \in S : x = Half - f[m]
  BY <1>3
<1>5. ASSUME NEW n \in S PROVE f[n] =< f[m]
  <2>1. Half - f[n] \in Under /\ Half - f[n] \in Nat /\ x \in Nat
    BY <1>1, <1>3
  <2>2. ~(Half - f[n] < x)
    BY <1>3, <2>1
  <2> QED BY <1>4, <2>2, HalfIsPositive DEF Ordinal
<1> QED BY <1>5

-----------------------------------------------------------------------------
(* What requests know of the ordinals.                                         *)
OrdinalInv ==
  /\ post \in {"none", "live", "deleted"} /\ planned \in 0 .. MaxMedia /\ objects \subseteq 1 .. planned
  /\ \A m \in Rows : ordinal[m] \in Ordinal

(* An append goes behind all it has seen and that is left, unless the ordinals were  *)
(* rewritten, or the highest was the last there is.                              *)
Behind(r) ==
  req[r].pc \in {"reading", "uploading"} /\ req[r].calm =>
    \A m \in req[r].seen \cap Rows : ordinal[m] < req[r].base \/ req[r].base = -Half

(* A list that has been checked has all rows of then, and no ordinal twice.        *)
Listed(r) ==
  /\ req[r].pc = "listed" => req[r].to = [i \in 1 .. Len(req[r].order) |-> Wrap(i - 1)]
  /\ req[r].pc = "checked" =>
       /\ DOMAIN req[r].to = 1 .. Len(req[r].order)
       /\ req[r].seen = {req[r].order[i] : i \in 1 .. Len(req[r].order)}
       /\ Len(req[r].order) \in Nat
       /\ \A i \in 1 .. Len(req[r].order) : req[r].to[i] \in 0 .. Half - 1
       /\ \A i, j \in 1 .. Len(req[r].order) : req[r].to[i] = req[r].to[j] => i = j

Knows(r) ==
  /\ req[r].pc \in Places /\ req[r].base \in Ordinal /\ req[r].calm \in BOOLEAN
  /\ req[r].seen \subseteq 1 .. planned /\ (req[r].pc = "idle" => req[r].seen = {})
  /\ Behind(r) /\ Listed(r)

(* Ids are fresh: nobody has seen those of an upload.                             *)
Unseen == \A r, q \in Request : Uploading(q) => Batch(q) \cap req[r].seen = {}

OInv == OrdinalInv /\ Unseen /\ \A r \in Request : Knows(r)

(* A request that is not served in a step may only lose its calm.                  *)
Keeps(q) ==
  /\ req'[q].pc = req[q].pc /\ req'[q].base = req[q].base /\ req'[q].seen = req[q].seen
  /\ req'[q].order = req[q].order /\ req'[q].to = req[q].to /\ Batch(q)' = Batch(q)
  /\ req'[q].calm \in BOOLEAN /\ (req'[q].calm => req[q].calm)

LEMMA KeepsKnowing ==
  ASSUME NEW q \in Request, Knows(q), Keeps(q), planned \in Nat, planned' \in Nat, planned =< planned',
         (Rows' \ Rows) \cap req[q].seen = {},
         \/ \A m \in Rows \cap Rows' : ordinal'[m] = ordinal[m]
         \/ req[q].pc \in {"reading", "uploading"} => ~req'[q].calm
  PROVE  Knows(q)'
<1>1. Behind(q)'
  BY DEF Knows, Keeps, Behind
<1>2. Listed(q)'
  BY DEF Knows, Keeps, Listed
<1>3. 1 .. planned \subseteq 1 .. planned'
  OBVIOUS
<1> QED BY <1>1, <1>2, <1>3 DEF Knows, Keeps

LEMMA Sets ==
  ASSUME Types, \A q \in Request : Knows(q), NEW r \in Request, NEW x, req' = [req EXCEPT ![r] = x]
  PROVE  /\ req'[r] = x
         /\ \A q \in Request \ {r} : Keeps(q) /\ Uploading(q)' = Uploading(q)
<1>1. req'[r] = x /\ \A q \in Request \ {r} : req'[q] = req[q]
  BY DEF Types
<1>2. \A q \in Request \ {r} : req[q].calm \in BOOLEAN
  BY DEF Knows
<1> QED BY <1>1, <1>2 DEF Keeps, Batch, Uploading

(* A request ends, or goes on to remove something; at most rows it has uploaded came. *)
LEMMA Ends ==
  ASSUME IInv, OInv, NEW r \in Request, NEW x, req' = [req EXCEPT ![r] = x],
         x.pc \in {"idle", "undoing", "erasing"}, x.base \in Ordinal, x.calm \in BOOLEAN,
         x.seen \subseteq req[r].seen, x.pc = "idle" => x.seen = {},
         UNCHANGED planned, Rows' \ Rows # {} => Uploading(r), Rows' \ Rows \subseteq Batch(r),
         \A m \in Rows \cap Rows' : ordinal'[m] = ordinal[m], OrdinalInv'
  PROVE  OInv'
<1>1. req'[r] = x /\ \A q \in Request \ {r} : Keeps(q) /\ Uploading(q)' = Uploading(q)
  BY Sets DEF IInv, OInv
<1>2. planned \in Nat /\ planned' = planned
  BY DEF OInv, OrdinalInv
<1>3. \A q \in Request : (Rows' \ Rows) \cap req[q].seen = {}
  BY DEF OInv, Unseen
<1>4. ASSUME NEW q \in Request \ {r} PROVE Knows(q)'
  BY <1>1, <1>2, <1>3, KeepsKnowing DEF OInv
<1>5. Knows(r)'
  <2>1. req[r].seen \subseteq 1 .. planned /\ x.pc \in Places
    BY DEF OInv, Knows, Places
  <2>2. Behind(r)' /\ Listed(r)'
    BY <1>1 DEF Behind, Listed
  <2> QED BY <1>1, <1>2, <2>1, <2>2 DEF Knows
<1>6. ~Uploading(r)'
  BY <1>1 DEF Uploading
<1>7. \A q \in Request : req'[q].seen \subseteq req[q].seen
  BY <1>1 DEF Keeps
<1>8. Unseen'
  BY <1>1, <1>6, <1>7 DEF OInv, Unseen, Keeps
<1> QED BY <1>4, <1>5, <1>8 DEF OInv

LEMMA IdleKnows == Idle.pc = "idle" /\ Idle.base \in Ordinal /\ Idle.calm \in BOOLEAN /\ Idle.seen = {}
BY HalfIsPositive DEF Idle, Ordinal

(* The rows of an upload get slots of their own.                                  *)
LEMMA InsertedOrdinals ==
  ASSUME IInv, OInv, NEW r \in Request, Inserted(r), UNCHANGED <<objects, planned>>
  PROVE  /\ Uploading(r) /\ Rows' = Rows \cup Batch(r) /\ Rows' \ Rows \subseteq Batch(r)
         /\ \A m \in Rows \cap Rows' : ordinal'[m] = ordinal[m]
         /\ \A m \in Batch(r) \ Rows : \E i \in 1 .. Len(req[r].batch) : ordinal'[m] = Slot(r, i)
         /\ OrdinalInv'
<1>1. Uploading(r) /\ ordinal' = InsertedBy(r) /\ post' \in {"none", "live", "deleted"}
  BY DEF Inserted, AllUploaded, Uploading, OInv, OrdinalInv
<1>2. /\ Rows' = Rows \cup Batch(r)
      /\ \A m \in Rows : ordinal'[m] = ordinal[m]
      /\ \A m \in Batch(r) \ Rows :
            ordinal'[m] = Slot(r, CHOOSE i \in 1 .. Len(req[r].batch) : req[r].batch[i] = m)
  BY <1>1 DEF InsertedBy, Rows
<1>3. ASSUME NEW m \in Batch(r) \ Rows PROVE \E i \in 1 .. Len(req[r].batch) : ordinal'[m] = Slot(r, i)
  <2>1. \E i \in 1 .. Len(req[r].batch) : req[r].batch[i] = m
    BY DEF Batch
  <2>2. (CHOOSE i \in 1 .. Len(req[r].batch) : req[r].batch[i] = m) \in 1 .. Len(req[r].batch)
    BY <2>1
  <2> QED BY <1>2, <2>2
<1>4. \A i \in 1 .. Len(req[r].batch) : Slot(r, i) \in Ordinal
  <2> TAKE i \in 1 .. Len(req[r].batch)
  <2>1. req[r].base \in Int /\ Len(req[r].batch) \in Nat
    BY HalfIsPositive DEF OInv, Knows, Ordinal, IInv, Types, Shaped
  <2>2. req[r].base + i - 1 \in Int
    BY <2>1
  <2> QED BY <2>2, WrapRange DEF Slot
<1>5. \A m \in Rows' : ordinal'[m] \in Ordinal
  BY <1>2, <1>3, <1>4 DEF OInv, OrdinalInv
<1> QED BY <1>1, <1>2, <1>3, <1>5 DEF OInv, OrdinalInv

LEMMA EndIdle ==
  ASSUME IInv, OInv, NEW r \in Request, Answer(r), UNCHANGED planned,
         Rows' \ Rows # {} => Uploading(r), Rows' \ Rows \subseteq Batch(r),
         \A m \in Rows \cap Rows' : ordinal'[m] = ordinal[m], OrdinalInv'
  PROVE  OInv'
<1>1. req' = [req EXCEPT ![r] = Idle]
  BY DEF Answer
<1> QED BY <1>1, IdleKnows, Ends

LEMMA EndUndo ==
  ASSUME IInv, OInv, NEW r \in Request, Undo(r), UNCHANGED planned,
         Rows' \ Rows # {} => Uploading(r), Rows' \ Rows \subseteq Batch(r),
         \A m \in Rows \cap Rows' : ordinal'[m] = ordinal[m], OrdinalInv'
  PROVE  OInv'
<1> DEFINE x == [Idle EXCEPT !.pc = "undoing", !.batch = req[r].batch, !.up = req[r].up]
<1>1. req' = [req EXCEPT ![r] = x]
  BY DEF Undo
<1>2. x.pc = "undoing" /\ x.base = Idle.base /\ x.calm = Idle.calm /\ x.seen = Idle.seen
  BY DEF Idle
<1> HIDE DEF x
<1> QED BY <1>1, <1>2, IdleKnows, Ends

LEMMA EndKeeps ==
  ASSUME IInv, OInv, NEW r \in Request, NEW x, req' = [req EXCEPT ![r] = x],
         x.pc \in {"undoing", "erasing"}, x.base = req[r].base, x.calm = req[r].calm, x.seen = req[r].seen,
         UNCHANGED planned, Rows' \subseteq Rows,
         \A m \in Rows \cap Rows' : ordinal'[m] = ordinal[m], OrdinalInv'
  PROVE  OInv'
<1>1. x.base \in Ordinal /\ x.calm \in BOOLEAN
  BY DEF OInv, Knows
<1>2. Rows' \ Rows = {}
  OBVIOUS
<1> QED BY <1>1, <1>2, Ends

LEMMA StepEnds ==
  ASSUME IInv, OInv, NEW r \in Request,
         \/ Insert(r) \/ CommitLost(r) \/ UploadFails(r) \/ PutLost(r) \/ InsertConflicts(r)
         \/ RollbackDone(r) \/ Drop(r) \/ Refuse(r) \/ ReorderAborts(r) \/ DeleteObject(r)
  PROVE  OInv'
<1>1. CASE Insert(r)
  BY <1>1, InsertedOrdinals, EndIdle DEF Insert
<1>2. CASE CommitLost(r)
  BY <1>2, InsertedOrdinals, EndUndo DEF CommitLost
<1>3. CASE UNCHANGED <<post, ordinal, planned>> /\ objects' \subseteq objects /\ (Answer(r) \/ Undo(r))
  <2>1. Rows' = Rows /\ OrdinalInv'
    BY <1>3 DEF OInv, OrdinalInv, Rows
  <2> QED BY <1>3, <2>1, EndIdle, EndUndo
<1>4. CASE UploadFails(r) \/ InsertConflicts(r) \/ RollbackDone(r) \/ Drop(r) \/ Refuse(r) \/ ReorderAborts(r)
  BY <1>3, <1>4 DEF UploadFails, InsertConflicts, RollbackDone, Drop, Refuse, ReorderAborts
<1>5. CASE DeleteObject(r)
  BY <1>3, <1>5 DEF DeleteObject
<1>6. CASE PutLost(r)
  <2>1. /\ req[r].up < Len(req[r].batch) /\ objects' = objects \cup {req[r].batch[req[r].up + 1]}
        /\ Undo(r) /\ UNCHANGED <<post, ordinal, planned>>
    BY <1>6 DEF PutLost
  <2>2. req[r].up \in Nat /\ Len(req[r].batch) \in Nat
    BY DEF IInv, Types, Shaped
  <2>3. req[r].up + 1 \in 1 .. Len(req[r].batch)
    BY <2>1, <2>2
  <2>4. req[r].batch[req[r].up + 1] \in 1 .. planned
    BY <2>3 DEF IInv, Used, Batch
  <2>5. Rows' = Rows /\ OrdinalInv'
    BY <2>1, <2>4 DEF OInv, OrdinalInv, Rows
  <2> QED BY <2>1, <2>5, EndUndo
<1> QED BY <1>1, <1>2, <1>4, <1>5, <1>6

LEMMA StepRemoves ==
  ASSUME IInv, OInv, NEW r \in Request, RollbackOne(r) \/ \E m \in Rows : DeleteMedia(r, m)
  PROVE  OInv'
<1>0. Shaped(req[r]) /\ planned \in Nat
  BY DEF IInv, Types
<1>1. CASE RollbackOne(r)
  <2> DEFINE x == [req[r] EXCEPT !.up = @ - 1, !.batch = Tail(@)]
  <2>1. req' = [req EXCEPT ![r] = x] /\ req[r].pc = "undoing" /\ UNCHANGED <<post, ordinal, planned>>
        /\ objects' \subseteq objects
    BY <1>1 DEF RollbackOne
  <2>2. x.pc = "undoing" /\ x.base = req[r].base /\ x.calm = req[r].calm /\ x.seen = req[r].seen
    BY <1>0, <2>1 DEF Shaped, Fields
  <2> HIDE DEF x
  <2>3. Rows' = Rows /\ OrdinalInv'
    BY <2>1 DEF OInv, OrdinalInv, Rows
  <2> QED BY <2>1, <2>2, <2>3, EndKeeps
<1>2. ASSUME NEW m \in Rows, DeleteMedia(r, m) PROVE OInv'
  <2> DEFINE x == [req[r] EXCEPT !.pc = "erasing", !.target = m]
  <2>1. req' = [req EXCEPT ![r] = x] /\ UNCHANGED <<post, objects, planned>>
        /\ ordinal' = [n \in Rows \ {m} |-> ordinal[n]]
    <3>1. /\ req' = [req EXCEPT ![r].pc = "erasing", ![r].target = m]
          /\ UNCHANGED <<post, objects, planned>> /\ ordinal' = [n \in Rows \ {m} |-> ordinal[n]]
      BY <1>2 DEF DeleteMedia
    <3>2. [req EXCEPT ![r].pc = "erasing", ![r].target = m] = [req EXCEPT ![r] = x]
      BY <1>0
    <3> QED BY <3>1, <3>2
  <2>2. x.pc = "erasing" /\ x.base = req[r].base /\ x.calm = req[r].calm /\ x.seen = req[r].seen
    BY <1>0 DEF Shaped, Fields
  <2> HIDE DEF x
  <2>3. Rows' = Rows \ {m} /\ \A n \in Rows' : ordinal'[n] = ordinal[n]
    BY <2>1 DEF Rows
  <2>4. OrdinalInv'
    BY <2>1, <2>3 DEF OInv, OrdinalInv
  <2> QED BY <2>1, <2>2, <2>3, <2>4, EndKeeps
<1> QED BY <1>1, <1>2

(* An upload is planned or goes on: it knows what it knew.                         *)
LEMMA StepGrows ==
  ASSUME IInv, OInv, NEW r \in Request, Upload(r) \/ Begins(r)
  PROVE  OInv'
<1>0. Shaped(req[r]) /\ planned \in Nat /\ req[r].pc \in Places
  BY DEF IInv, Types, OInv, Knows
<1>1. CASE Upload(r)
  <2> DEFINE x == [req[r] EXCEPT !.up = @ + 1]
             m == req[r].batch[req[r].up + 1]
  <2>1. /\ req' = [req EXCEPT ![r] = x] /\ req[r].pc = "uploading" /\ UNCHANGED <<post, ordinal, planned>>
        /\ objects' = objects \cup {m}
    BY <1>1 DEF Upload
  <2>2. /\ x.pc = "uploading" /\ x.base = req[r].base /\ x.calm = req[r].calm /\ x.seen = req[r].seen
        /\ x.order = req[r].order /\ x.to = req[r].to /\ x.batch = req[r].batch
    BY <1>0, <2>1 DEF Shaped, Fields
  <2>3. m \in Batch(r)
    <3>1. req[r].up \in Nat /\ Len(req[r].batch) \in Nat /\ req[r].up < Len(req[r].batch)
      BY <1>0, <1>1 DEF Shaped, Upload
    <3>2. req[r].up + 1 \in 1 .. Len(req[r].batch)
      BY <3>1
    <3> QED BY <3>2 DEF Batch
  <2> HIDE DEF x, m
  <2>4. Rows' = Rows /\ OrdinalInv'
    BY <2>1, <2>3 DEF OInv, OrdinalInv, Rows, IInv, Used
  <2>5. req'[r] = x /\ \A q \in Request \ {r} : Keeps(q) /\ Uploading(q)' = Uploading(q)
    BY <2>1, Sets DEF IInv, OInv
  <2>6. Keeps(r) /\ Uploading(r)' = Uploading(r)
    BY <2>1, <2>2, <2>5 DEF Keeps, Batch, Uploading, OInv, Knows
  <2>7. \A q \in Request : Knows(q)'
    BY <1>0, <2>1, <2>4, <2>5, <2>6, KeepsKnowing DEF OInv
  <2>8. Unseen'
    BY <2>5, <2>6 DEF OInv, Unseen, Keeps
  <2> QED BY <2>4, <2>7, <2>8 DEF OInv
<1>2. CASE Begins(r)
  <2>1. PICK n \in Nat : Plan(r, n) /\ req[r].pc \in {"idle", "reading"}
    BY <1>2 DEF Begins
  <2> DEFINE b == [i \in 1 .. n |-> planned + i]
             x == [req[r] EXCEPT !.pc = "uploading", !.batch = b]
  <2>2. /\ req' = [req EXCEPT ![r] = x] /\ UNCHANGED <<ordinal, objects>>
        /\ planned' = planned + n /\ planned' =< MaxMedia /\ planned' \in Nat
    <3>1. /\ req' = [req EXCEPT ![r].pc = "uploading", ![r].batch = b] /\ planned' = planned + n
          /\ planned + n =< MaxMedia
      BY <2>1 DEF Plan
    <3>2. req' = [req EXCEPT ![r] = x]
      BY <1>0, <3>1 DEF IInv, Types, Shaped
    <3>3. UNCHANGED <<ordinal, objects>>
      BY <1>2 DEF Begins
    <3>4. planned' =< MaxMedia /\ planned' \in Nat
      BY <1>0, <3>1
    <3> QED BY <3>1, <3>2, <3>3, <3>4, Zenon
  <2>3. x.pc = "uploading" /\ x.base = req[r].base /\ x.calm = req[r].calm /\ x.seen = req[r].seen
    BY <1>0 DEF Shaped, Fields
  <2> HIDE DEF x
  <2>4. Batch(r)' \cap (1 .. planned) = {} /\ 1 .. planned \subseteq 1 .. planned' /\ planned =< planned'
    BY <1>0, <2>1, <2>2, PlanShape DEF IInv
  <2>5. post' = post
    BY <1>2 DEF Begins
  <2>6. Rows' = Rows /\ OrdinalInv'
    BY <2>2, <2>4, <2>5, BoundsArePositive DEF OInv, OrdinalInv, Rows
  <2>7. req'[r] = x /\ \A q \in Request \ {r} : Keeps(q) /\ Uploading(q)' = Uploading(q)
    BY <2>2, Sets DEF IInv, OInv
  <2>8. ASSUME NEW q \in Request \ {r} PROVE Knows(q)'
    BY <1>0, <2>2, <2>4, <2>6, <2>7, KeepsKnowing DEF OInv
  <2>9. Knows(r)'
    <3>1. Knows(r) /\ req'[r].seen = req[r].seen /\ req'[r].base = req[r].base /\ req'[r].calm = req[r].calm
      BY <2>3, <2>7 DEF OInv
    <3>2. Behind(r)'
      BY <2>1, <2>2, <2>6, <3>1 DEF Knows, Behind
    <3>3. Listed(r)' /\ req'[r].pc = "uploading"
      BY <2>3, <2>7 DEF Listed
    <3> QED BY <2>4, <3>1, <3>2, <3>3 DEF Knows, Places
  <2>10. \A q \in Request : req'[q].seen = req[q].seen /\ req[q].seen \subseteq 1 .. planned
    BY <2>3, <2>7 DEF Keeps, OInv, Knows
  <2>11. Unseen'
    BY <2>4, <2>7, <2>10 DEF OInv, Unseen, Keeps
  <2> QED BY <2>6, <2>8, <2>9, <2>11 DEF OInv
<1> QED BY <1>1, <1>2

(* A look at the rows.                                                        *)
LEMMA LooksKnow ==
  ASSUME IInv, OInv, NEW r \in Request, NEW x, req' = [req EXCEPT ![r] = x],
         x.pc \in {"reading", "listed", "checked"}, x.base \in Ordinal, x.calm = req[r].calm,
         x.seen = Rows \/ x.seen = req[r].seen,
         UNCHANGED <<post, ordinal, objects, planned>>, Behind(r)', Listed(r)'
  PROVE  OInv'
<1>1. req'[r] = x /\ \A q \in Request \ {r} : Keeps(q) /\ Uploading(q)' = Uploading(q)
  BY Sets DEF IInv, OInv
<1>2. planned \in Nat /\ Rows' = Rows /\ OrdinalInv' /\ Rows \subseteq 1 .. planned
  BY DEF OInv, OrdinalInv, Rows, IInv, Used
<1>3. ASSUME NEW q \in Request \ {r} PROVE Knows(q)'
  BY <1>1, <1>2, KeepsKnowing DEF OInv
<1>4. Knows(r)'
  BY <1>1, <1>2 DEF OInv, Knows, Places
<1>5. ~Uploading(r)'
  BY <1>1 DEF Uploading
<1>6. \A q \in Request : Uploading(q) => Batch(q) \cap Rows = {}
  BY DEF IInv, Owned
<1>7. \A q \in Request : req'[q].seen = Rows \/ req'[q].seen = req[q].seen
  BY <1>1 DEF Keeps
<1>8. Unseen'
  BY <1>1, <1>5, <1>6, <1>7 DEF OInv, Unseen, Keeps
<1> QED BY <1>2, <1>3, <1>4, <1>8 DEF OInv

LEMMA NextIsBehind ==
  ASSUME OInv
  PROVE  /\ NextOrdinal \in Ordinal
         /\ \A m \in Rows : ordinal[m] < NextOrdinal \/ NextOrdinal = -Half
<1>1. CASE Rows = {}
  BY <1>1, HalfIsPositive DEF NextOrdinal, Ordinal
<1>2. CASE Rows # {}
  <2> DEFINE top == CHOOSE m \in Rows : \A n \in Rows : ordinal[n] =< ordinal[m]
  <2>1. \E m \in Rows : \A n \in Rows : ordinal[n] =< ordinal[m]
    BY <1>2, Highest DEF OInv, OrdinalInv
  <2>2. top \in Rows /\ \A n \in Rows : ordinal[n] =< ordinal[top]
    BY <2>1
  <2>3. NextOrdinal = Wrap(1 + ordinal[top])
    BY <1>2 DEF NextOrdinal
  <2> HIDE DEF top
  <2>4. \A n \in Rows : ordinal[n] \in -Half .. Half - 1
    BY DEF OInv, OrdinalInv, Ordinal
  <2>5. CASE ordinal[top] = Half - 1
    <3>1. 1 + ordinal[top] = Half
      BY <2>5, HalfIsPositive
    <3> QED BY <2>3, <3>1, WrapHalf, HalfIsPositive DEF Ordinal
  <2>6. CASE ordinal[top] # Half - 1
    <3>1. 1 + ordinal[top] \in Ordinal
      BY <2>2, <2>4, <2>6, HalfIsPositive DEF Ordinal
    <3>2. NextOrdinal = 1 + ordinal[top]
      BY <2>3, <3>1, WrapSmall
    <3>3. \A n \in Rows : ordinal[n] < 1 + ordinal[top]
      BY <2>2, <2>4, HalfIsPositive
    <3> QED BY <3>1, <3>2, <3>3
  <2> QED BY <2>5, <2>6
<1> QED BY <1>1, <1>2

LEMMA FewRows ==
  ASSUME IInv
  PROVE  IsFiniteSet(Rows) /\ Cardinality(Rows) \in Nat
<1>1. planned \in Nat /\ Rows \subseteq 1 .. planned
  BY DEF IInv, Types, Used
<1>2. IsFiniteSet(1 .. planned)
  BY <1>1, FS_Interval
<1> QED BY <1>1, <1>2, FS_Subset, FS_CardinalityType

LEMMA CompleteListed ==
  ASSUME IInv, NEW r \in Request, ListIsComplete(req'[r].order, req'[r].to),
         req'[r].pc = "checked", req'[r].seen = Rows, DOMAIN req'[r].to = 1 .. Len(req'[r].order),
         \A i \in 1 .. Len(req'[r].order) : req'[r].to[i] \in Ordinal
  PROVE  Listed(r)'
<1>1. Len(req'[r].order) \in Nat
  BY FewRows DEF ListIsComplete
<1>2. \A i \in 1 .. Len(req'[r].order) : req'[r].to[i] \in 0 .. Half - 1
  BY HalfIsPositive DEF ListIsComplete, Ordinal
<1> QED BY <1>1, <1>2 DEF Listed, ListIsComplete

LEMMA StepLooking ==
  ASSUME IInv, OInv, NEW r \in Request,
         \/ BeginAppend(r) \/ CheckCover(r)
         \/ \E m \in Rows : ListForCover(r, m)
         \/ \E l \in Lists : Reorder(r, l[1], l[2])
  PROVE  OInv'
<1> DEFINE q == req[r]
<1>0. q = [f \in Fields |-> q[f]] /\ q.base \in Ordinal
  BY DEF IInv, Types, Shaped, OInv, Knows
<1>1. CASE BeginAppend(r)
  <2> DEFINE o == NextOrdinal
             x == [q EXCEPT !.pc = "reading", !.base = o, !.seen = Rows]
  <2>1. req' = [req EXCEPT ![r] = x] /\ UNCHANGED <<post, ordinal, objects, planned>>
    BY <1>1 DEF BeginAppend
  <2>2. o \in Ordinal /\ \A m \in Rows : ordinal[m] < o \/ o = -Half
    BY NextIsBehind
  <2> HIDE DEF o
  <2>3. x.pc = "reading" /\ x.base = o /\ x.seen = Rows /\ x.calm = q.calm
    BY <1>0 DEF Fields
  <2> HIDE DEF x
  <2>4. req'[r] = x
    BY <2>1, Sets DEF IInv, OInv
  <2>5. Behind(r)' /\ Listed(r)'
    BY <2>1, <2>2, <2>3, <2>4 DEF Behind, Listed, Rows
  <2> QED BY <2>1, <2>2, <2>3, <2>5, LooksKnow
<1>2. CASE CheckCover(r)
  <2> DEFINE x == [q EXCEPT !.pc = "checked", !.seen = Rows]
  <2>1. /\ req' = [req EXCEPT ![r] = x] /\ UNCHANGED <<post, ordinal, objects, planned>>
        /\ ListIsComplete(q.order, q.to) /\ q.pc = "listed"
    BY <1>2 DEF CheckCover
  <2>2. /\ x.pc = "checked" /\ x.base = q.base /\ x.seen = Rows /\ x.calm = q.calm
        /\ x.order = q.order /\ x.to = q.to
    BY <1>0 DEF Fields
  <2> HIDE DEF x
  <2>3. req'[r] = x
    BY <2>1, Sets DEF IInv, OInv
  <2>4. q.to = [i \in 1 .. Len(q.order) |-> Wrap(i - 1)] /\ Len(q.order) \in Nat
    BY <2>1, FewRows DEF OInv, Knows, Listed, ListIsComplete
  <2>5. \A i \in 1 .. Len(q.order) : q.to[i] \in Ordinal
    BY <2>4, WrapRange
  <2>6. Behind(r)' /\ Listed(r)'
    BY <2>1, <2>2, <2>3, <2>4, <2>5, CompleteListed DEF Behind
  <2> QED BY <1>0, <2>1, <2>2, <2>6, LooksKnow
<1>3. ASSUME NEW m \in Rows, ListForCover(r, m) PROVE OInv'
  <2> DEFINE order == <<m>> \o Ascending(Rows \ {m})
             to == [i \in 1 .. Len(order) |-> Wrap(i - 1)]
             x == [q EXCEPT !.pc = "listed", !.target = m, !.order = order, !.to = to]
  <2>1. req' = [req EXCEPT ![r] = x] /\ UNCHANGED <<post, ordinal, objects, planned>>
    BY <1>3 DEF ListForCover
  <2> HIDE DEF order
  <2>2. /\ x.pc = "listed" /\ x.base = q.base /\ x.seen = q.seen /\ x.calm = q.calm
        /\ x.order = order /\ x.to = to
    BY <1>0 DEF Fields
  <2> HIDE DEF x
  <2>3. req'[r] = x
    BY <2>1, Sets DEF IInv, OInv
  <2>4. Behind(r)' /\ Listed(r)'
    BY <2>2, <2>3 DEF Behind, Listed
  <2> QED BY <1>0, <2>1, <2>2, <2>4, LooksKnow
<1>4. ASSUME NEW l \in Lists, Reorder(r, l[1], l[2]) PROVE OInv'
  <2> DEFINE x == [q EXCEPT !.pc = "checked", !.order = l[1], !.to = l[2], !.seen = Rows]
  <2>1. /\ req' = [req EXCEPT ![r] = x] /\ UNCHANGED <<post, ordinal, objects, planned>>
        /\ ListIsComplete(l[1], l[2])
    <3>1. req' = [req EXCEPT ![r] = x]
      BY <1>4 DEF Reorder
    <3> QED BY <1>4, <3>1 DEF Reorder
  <2>2. /\ x.pc = "checked" /\ x.base = q.base /\ x.seen = Rows /\ x.calm = q.calm
        /\ x.order = l[1] /\ x.to = l[2]
    BY <1>0 DEF Fields
  <2> HIDE DEF x
  <2>3. req'[r] = x
    BY <2>1, Sets DEF IInv, OInv
  <2>4. Len(l[1]) = Cardinality(Rows) /\ l[2] \in [1 .. Cardinality(Rows) -> Typed]
    BY <2>1 DEF Lists, ListIsComplete
  <2>5. DOMAIN l[2] = 1 .. Len(l[1]) /\ \A i \in 1 .. Len(l[1]) : l[2][i] \in Ordinal
    BY <2>4, TypedAreOrdinals DEF Ordinal
  <2>6. Behind(r)' /\ Listed(r)'
    BY <2>1, <2>2, <2>3, <2>5, CompleteListed DEF Behind
  <2> QED BY <1>0, <2>1, <2>2, <2>6, LooksKnow
<1> QED BY <1>1, <1>2, <1>3, <1>4

(* Whoever rewrites ordinals takes the calm of every append under way.             *)
LEMMA RewrittenKeeps ==
  ASSUME Types, \A q \in Request : Knows(q), NEW r \in Request, AnswerRewritten(r)
  PROVE  /\ req'[r] = Idle
         /\ \A q \in Request \ {r} : /\ Keeps(q) /\ Uploading(q)' = Uploading(q)
                                     /\ req[q].pc \in {"reading", "uploading"} => ~req'[q].calm
<1> DEFINE calm(s) == req[s].calm /\ req[s].pc \notin {"reading", "uploading"}
<1>1. req' = [s \in Request |-> IF s = r THEN Idle ELSE [req[s] EXCEPT !.calm = calm(s)]]
  BY DEF AnswerRewritten
<1>2. \A s \in Request : /\ calm(s) \in BOOLEAN /\ (calm(s) => req[s].calm)
                         /\ req[s].pc \in {"reading", "uploading"} => ~calm(s)
  BY Zenon
<1> HIDE DEF calm
<1>3. ASSUME NEW s \in Request, s # r
      PROVE  /\ req'[s].calm = calm(s) /\ req'[s].pc = req[s].pc /\ req'[s].base = req[s].base
             /\ req'[s].seen = req[s].seen /\ req'[s].order = req[s].order /\ req'[s].to = req[s].to
             /\ req'[s].batch = req[s].batch
  <2>1. req'[s] = [req[s] EXCEPT !.calm = calm(s)] /\ Shaped(req[s])
    BY <1>1, <1>3 DEF Types
  <2>2. req[s] = [f \in Fields |-> req[s][f]]
    BY <2>1 DEF Shaped
  <2>3. req'[s] = [f \in Fields |-> IF f = "calm" THEN calm(s) ELSE req[s][f]]
    BY <2>1, <2>2 DEF Fields
  <2> QED BY <2>3 DEF Fields
<1>4. req'[r] = Idle
  BY <1>1
<1>5. ASSUME NEW s \in Request, s # r
      PROVE  /\ Keeps(s) /\ Uploading(s)' = Uploading(s)
             /\ req[s].pc \in {"reading", "uploading"} => ~req'[s].calm
  <2>1. Batch(s)' = Batch(s) /\ Uploading(s)' = Uploading(s)
    BY <1>3, <1>5 DEF Batch, Uploading
  <2>2. req'[s].calm \in BOOLEAN /\ (req'[s].calm => req[s].calm)
    BY <1>2, <1>3, <1>5
  <2> QED BY <1>2, <1>3, <1>5, <2>1, <2>2 DEF Keeps
<1> QED BY <1>4, <1>5

LEMMA StepRewriting ==
  ASSUME IInv, OInv, NEW r \in Request,
         ReorderCommits(r) \/ \E m \in Rows, o \in Typed : UpdateAlbumMedia(r, m, o)
  PROVE  OInv'
<1>1. AnswerRewritten(r) /\ Rows' = Rows /\ UNCHANGED <<post, objects, planned>>
  BY DEF ReorderCommits, UpdateAlbumMedia, Moved, Rows
<1>2. \A m \in Rows : ordinal'[m] \in Ordinal
  <2>1. CASE ReorderCommits(r)
    <3> DEFINE n == Len(req[r].order)
               named(m) == \E i \in 1 .. n : req[r].order[i] = m
               place(m) == CHOOSE i \in 1 .. n : req[r].order[i] = m
    <3>1. \A i \in 1 .. n : req[r].to[i] \in Ordinal
      <4>1. Listed(r) /\ req[r].pc = "checked"
        BY <2>1 DEF ReorderCommits, OInv, Knows
      <4>2. \A i \in 1 .. n : req[r].to[i] \in 0 .. Half - 1
        BY <4>1 DEF Listed
      <4> QED BY <4>2, HalfIsPositive DEF Ordinal
    <3>2. \A m : named(m) => place(m) \in 1 .. n
      OBVIOUS
    <3>3. \A m \in Rows : ordinal'[m] = IF named(m) THEN req[r].to[place(m)] ELSE ordinal[m]
      BY <2>1 DEF ReorderCommits, Moved, Rows
    <3> HIDE DEF named, place, n
    <3> QED BY <3>1, <3>2, <3>3 DEF OInv, OrdinalInv
  <2>2. ASSUME NEW m \in Rows, NEW o \in Typed, UpdateAlbumMedia(r, m, o)
        PROVE  \A n \in Rows : ordinal'[n] \in Ordinal
    BY <2>2, TypedAreOrdinals DEF UpdateAlbumMedia, OInv, OrdinalInv, Ordinal, Rows
  <2> QED BY <2>1, <2>2
<1>3. OrdinalInv' /\ planned \in Nat
  BY <1>1, <1>2 DEF OInv, OrdinalInv
<1>4. /\ req'[r] = Idle
      /\ \A q \in Request \ {r} : /\ Keeps(q) /\ Uploading(q)' = Uploading(q)
                                  /\ req[q].pc \in {"reading", "uploading"} => ~req'[q].calm
  BY <1>1, RewrittenKeeps DEF IInv, OInv
<1>5. ASSUME NEW q \in Request \ {r} PROVE Knows(q)'
  BY <1>1, <1>3, <1>4, KeepsKnowing DEF OInv
<1>6. Knows(r)'
  <2>1. Behind(r)' /\ Listed(r)'
    BY <1>4, IdleKnows DEF Behind, Listed
  <2> QED BY <1>4, <2>1, IdleKnows DEF Knows, Places
<1>7. Unseen'
  BY <1>4, IdleKnows DEF OInv, Unseen, Keeps, Uploading
<1> QED BY <1>3, <1>5, <1>6, <1>7 DEF OInv

LEMMA InitOrdinals == Init => OInv
<1> SUFFICES ASSUME Init PROVE OInv
  OBVIOUS
<1>1. post = "none" /\ planned = 0 /\ Rows = {} /\ objects = {} /\ req = [r \in Request |-> Idle]
  BY DEF Init, Rows
<1>2. OrdinalInv
  BY <1>1, BoundsArePositive DEF OrdinalInv
<1>3. \A r \in Request : req[r] = Idle
  BY <1>1
<1>4. \A r \in Request : Knows(r)
  BY <1>3, IdleKnows DEF Knows, Behind, Listed, Places
<1>5. Unseen
  BY <1>3, IdleKnows DEF Unseen
<1> QED BY <1>2, <1>4, <1>5 DEF OInv

LEMMA StepOrdinals == IInv /\ OInv /\ [Next]_vars => OInv'
<1> SUFFICES ASSUME IInv, OInv, [Next]_vars PROVE OInv'
  OBVIOUS
<1>1. CASE DeletePost \/ UNCHANGED vars
  <2>1. UNCHANGED <<ordinal, objects, planned, req>> /\ post' \in {"none", "live", "deleted"}
    BY <1>1 DEF DeletePost, vars, OInv, OrdinalInv
  <2>2. OrdinalInv'
    BY <2>1 DEF OInv, OrdinalInv, Rows
  <2>3. Unseen'
    BY <2>1 DEF OInv, Unseen, Uploading, Batch
  <2>4. \A r \in Request : Knows(r)'
    BY <2>1 DEF OInv, Knows, Behind, Listed, Rows
  <2> QED BY <2>2, <2>3, <2>4 DEF OInv
<1>2. ASSUME NEW r \in Request, Serve(r) PROVE OInv'
  <2>1. ASSUME NEW n \in 0 .. MaxFiles, Compose(r, n) \/ PlanAppend(r, n) PROVE OInv'
    <3>1. n \in Nat
      BY BoundsArePositive
    <3> QED BY <2>1, <3>1, StepGrows DEF Compose, PlanAppend, Begins
  <2>2. CASE BeginAppend(r) \/ CheckCover(r) \/ (\E m \in Rows : ListForCover(r, m))
               \/ \E l \in Lists : Reorder(r, l[1], l[2])
    BY <2>2, StepLooking
  <2>3. CASE ReorderCommits(r) \/ \E m \in Rows, o \in Typed : UpdateAlbumMedia(r, m, o)
    BY <2>3, StepRewriting
  <2>4. CASE RollbackOne(r) \/ \E m \in Rows : DeleteMedia(r, m)
    BY <2>4, StepRemoves
  <2>5. CASE \/ Insert(r) \/ CommitLost(r) \/ UploadFails(r) \/ PutLost(r) \/ InsertConflicts(r)
             \/ RollbackDone(r) \/ Drop(r) \/ Refuse(r) \/ ReorderAborts(r) \/ DeleteObject(r)
    BY <2>5, StepEnds
  <2>6. CASE Upload(r)
    BY <2>6, StepGrows
  <2> QED BY <1>2, <2>1, <2>2, <2>3, <2>4, <2>5, <2>6 DEF Serve
<1> QED BY <1>1, <1>2 DEF Next

-----------------------------------------------------------------------------
(* Slots that do not run over the highest ordinal go up from the base.              *)
LEMMA SlotsGoUp ==
  ASSUME NEW base \in Ordinal, NEW n \in Nat, \A i \in 1 .. n : Wrap(base + i - 1) >= 0
  PROVE  \A i \in 1 .. n : Wrap(base + i - 1) >= base
<1> SUFFICES ASSUME NEW k \in 1 .. n PROVE Wrap(base + k - 1) >= base
  OBVIOUS
<1>1. base \in Int /\ -Half =< base /\ base < Half /\ k \in Nat /\ k >= 1 /\ k =< n
  BY HalfIsPositive DEF Ordinal
<1>2. base + k - 1 < Half
  <2> SUFFICES ASSUME base + k - 1 >= Half PROVE FALSE
    BY <1>1, HalfIsPositive
  <2> DEFINE i == Half - base + 1
  <2>1. i \in 1 .. n /\ base + i - 1 = Half
    BY <1>1, HalfIsPositive
  <2>2. Wrap(base + i - 1) = -Half
    BY <2>1, WrapHalf
  <2>3. Wrap(base + i - 1) >= 0
    BY <2>1
  <2> QED BY <2>2, <2>3, HalfIsPositive
<1>3. base + k - 1 \in Ordinal
  BY <1>1, <1>2, HalfIsPositive DEF Ordinal
<1>4. Wrap(base + k - 1) = base + k - 1
  BY <1>3, WrapSmall
<1> QED BY <1>1, <1>4

LEMMA CoverKept ==
  ASSUME IInv, OInv, NEW r \in Request, Insert(r),
         req[r].seen \cap Rows # {}, req[r].calm, ~\E o \in Slots(r) : o < 0
  PROVE  CoverOf(ordinal') = CoverOf(ordinal)
<1> DEFINE base == req[r].base
           n == Len(req[r].batch)
<1>1. /\ Rows' = Rows \cup Batch(r) /\ \A m \in Rows : ordinal'[m] = ordinal[m]
      /\ \A m \in Batch(r) \ Rows : \E i \in 1 .. n : ordinal'[m] = Slot(r, i)
      /\ Uploading(r) /\ Batch(r) \cap Rows = {}
  BY InsertedOrdinals, AllReady DEF Insert, Inserted
<1>2. base \in Ordinal /\ n \in Nat
  BY DEF OInv, Knows, IInv, Types, Shaped
<1>3. \A i \in 1 .. n : Wrap(base + i - 1) \in Ordinal /\ Wrap(base + i - 1) >= 0
  <2> TAKE i \in 1 .. n
  <2>1. base + i - 1 \in Int
    BY <1>2, HalfIsPositive DEF Ordinal
  <2>2. Wrap(base + i - 1) \in Slots(r) /\ Wrap(base + i - 1) \in Ordinal
    BY <2>1, WrapRange DEF Slots, Slot
  <2> QED BY <2>2, HalfIsPositive DEF Ordinal
<1>4. \A i \in 1 .. n : Slot(r, i) >= base
  BY <1>2, <1>3, SlotsGoUp DEF Slot
<1>5. PICK w \in Rows : n = 0 \/ ordinal[w] < base
  <2>1. PICK w \in req[r].seen \cap Rows : ordinal[w] < base \/ base = -Half
    BY <1>1 DEF OInv, Knows, Behind, Uploading
  <2>2. ASSUME n # 0 PROVE base # -Half
    <3>1. 1 \in 1 .. n
      BY <1>2, <2>2
    <3>2. Wrap(base + 1 - 1) >= 0 /\ base + 1 - 1 = base
      BY <1>2, <1>3, <3>1, HalfIsPositive DEF Ordinal
    <3>3. Wrap(base) = base
      BY <1>2, WrapSmall
    <3> QED BY <3>2, <3>3, HalfIsPositive
  <2> QED BY <2>1, <2>2
<1>6. \A m \in Rows : ordinal[m] \in Int
  BY HalfIsPositive DEF OInv, OrdinalInv, Ordinal
<1>7. ASSUME NEW m \in Batch(r) PROVE ordinal'[m] \in Int /\ ordinal[w] < ordinal'[m]
  <2>1. PICK i \in 1 .. n : ordinal'[m] = Slot(r, i)
    BY <1>1
  <2>2. n # 0 /\ Slot(r, i) \in Int
    BY <1>2, <1>3, <2>1, HalfIsPositive DEF Slot, Ordinal
  <2>3. base \in Int
    BY <1>2, HalfIsPositive DEF Ordinal
  <2> QED BY <1>4, <1>5, <1>6, <2>1, <2>2, <2>3
<1>8. DOMAIN ordinal' = Rows \cup Batch(r)
  BY <1>1 DEF Rows
<1> HIDE DEF base, n
<1>9. ASSUME NEW m \in CoverOf(ordinal) PROVE m \in CoverOf(ordinal')
  <2>1. m \in Rows /\ \A k \in Rows : ordinal[m] =< ordinal[k]
    BY <1>9 DEF CoverOf, Rows
  <2>2. \A k \in Batch(r) : ordinal[m] =< ordinal'[k]
    BY <1>6, <1>7, <2>1
  <2> QED BY <1>1, <1>8, <2>1, <2>2 DEF CoverOf
<1>10. ASSUME NEW m \in CoverOf(ordinal') PROVE m \in CoverOf(ordinal)
  <2>1. m \in Rows \cup Batch(r) /\ \A k \in Rows \cup Batch(r) : ordinal'[m] =< ordinal'[k]
    BY <1>8, <1>10 DEF CoverOf
  <2>2. ordinal'[m] =< ordinal[w]
    BY <1>1, <2>1
  <2>3. m \in Rows
    BY <1>6, <1>7, <2>1, <2>2
  <2> QED BY <1>1, <2>1, <2>3 DEF CoverOf, Rows
<1> QED BY <1>9, <1>10

(* A phase of updates runs when each update finds its row, and its ordinal at no row.  *)
LEMMA PhaseIsFree ==
  ASSUME NEW r, NEW to, NEW f, Len(req[r].order) \in Nat,
         \A i \in 1 .. Len(req[r].order) : req[r].order[i] \in DOMAIN f,
         \A i, j \in 1 .. Len(req[r].order) : to[i] = to[j] => i = j,
         \A m \in DOMAIN f, i \in 1 .. Len(req[r].order) : f[m] # to[i]
  PROVE  PhaseRuns(r, to, f)
<1> SUFFICES ASSUME NEW n \in 1 .. Len(req[r].order), NEW m \in DOMAIN f, m # req[r].order[n]
             PROVE  Moved(r, n - 1, to, f)[m] # to[n]
  BY DEF PhaseRuns
<1> DEFINE named == \E i \in 1 .. n - 1 : req[r].order[i] = m
           place == CHOOSE i \in 1 .. n - 1 : req[r].order[i] = m
<1>1. Moved(r, n - 1, to, f)[m] = IF named THEN to[place] ELSE f[m]
  BY DEF Moved
<1>2. named => place \in 1 .. n - 1 /\ req[r].order[place] = m
  OBVIOUS
<1>3. \A p \in 1 .. n - 1 : p \in 1 .. Len(req[r].order) /\ p # n
  OBVIOUS
<1> HIDE DEF named, place
<1> QED BY <1>1, <1>2, <1>3

LEMMA ReorderRuns ==
  ASSUME IInv, OInv, NEW r \in Request, req[r].pc = "checked", req[r].seen = Rows,
         \A m \in Rows : ordinal[m] < Offset, \A i \in DOMAIN req[r].to : req[r].to[i] < Offset
  PROVE  TwoPhases(r)
<1> DEFINE order == req[r].order
           to == req[r].to
           n == Len(req[r].order)
           shifted == [i \in DOMAIN to |-> Wrap(to[i] + Offset)]
           between == Moved(r, n, shifted, ordinal)
<1>1. /\ DOMAIN to = 1 .. n /\ n \in Nat /\ Rows = {order[i] : i \in 1 .. n}
      /\ \A i \in 1 .. n : to[i] \in 0 .. Half - 1
      /\ \A i, j \in 1 .. n : to[i] = to[j] => i = j
  BY DEF OInv, Knows, Listed
<1>2. ASSUME NEW i \in 1 .. n PROVE to[i] \in Nat /\ to[i] < Offset /\ shifted[i] = to[i] + Offset
  <2>1. to[i] \in Nat /\ to[i] < Offset
    BY <1>1
  <2>2. to[i] + Offset \in Ordinal
    BY <2>1, HalfIsPositive DEF Ordinal
  <2> QED BY <1>1, <2>1, <2>2, WrapSmall
<1> HIDE DEF shifted
<1>3. PhaseRuns(r, shifted, ordinal)
  <2>1. \A i \in 1 .. n : order[i] \in DOMAIN ordinal
    BY <1>1 DEF Rows
  <2>2. \A i, j \in 1 .. n : shifted[i] = shifted[j] => i = j
    BY <1>1, <1>2, HalfIsPositive
  <2>3. ASSUME NEW m \in DOMAIN ordinal, NEW i \in 1 .. n PROVE ordinal[m] # shifted[i]
    <3>1. ordinal[m] \in Int /\ ordinal[m] < Offset
      BY HalfIsPositive DEF OInv, OrdinalInv, Ordinal, Rows
    <3> QED BY <1>2, <3>1, HalfIsPositive
  <2> QED BY <1>1, <2>1, <2>2, <2>3, PhaseIsFree
<1>4. DOMAIN between = Rows /\ \A m \in Rows : \E i \in 1 .. n : between[m] = shifted[i]
  <2> DEFINE place(m) == CHOOSE i \in 1 .. n : order[i] = m
  <2>1. \A m \in Rows : place(m) \in 1 .. n
    BY <1>1
  <2>2. DOMAIN between = Rows /\ \A m \in Rows : between[m] = shifted[place(m)]
    BY <1>1 DEF Moved, Rows
  <2> HIDE DEF place, between
  <2> QED BY <2>1, <2>2
<1> HIDE DEF between
<1>5. PhaseRuns(r, to, between)
  <2>1. \A i \in 1 .. n : order[i] \in DOMAIN between
    BY <1>1, <1>4
  <2>2. ASSUME NEW m \in DOMAIN between, NEW i \in 1 .. n PROVE between[m] # to[i]
    <3>1. PICK j \in 1 .. n : between[m] = shifted[j]
      BY <1>4
    <3> QED BY <1>2, <3>1, HalfIsPositive
  <2> QED BY <1>1, <2>1, <2>2, PhaseIsFree
<1> QED BY <1>3, <1>5 DEF TwoPhases, between, shifted

-----------------------------------------------------------------------------
(* Every variable keeps its type: ordinals stay within their width whatever is       *)
(* appended, typed or sorted.                                                  *)
THEOREM TypeCorrect == Spec => []TypeOK
<1>1. IInv /\ OInv => TypeOK
  <2> SUFFICES ASSUME IInv, OInv PROVE TypeOK
    OBVIOUS
  <2>1. planned \in Nat /\ 1 .. planned \subseteq Media
    BY BoundsArePositive DEF OInv, OrdinalInv, Media
  <2>2. Rows \subseteq Media /\ objects \subseteq Media
    BY <2>1 DEF IInv, Used, OInv, OrdinalInv
  <2>3. ASSUME NEW r \in Request
        PROVE  /\ req[r].batch \in Seq(1 .. planned) /\ req[r].up \in 0 .. Len(req[r].batch)
               /\ req[r].pc \in Places /\ req[r].base \in Ordinal
               /\ req[r].seen \subseteq Media /\ req[r].calm \in BOOLEAN
    <3>1. req[r].batch \in Seq(Nat) /\ req[r].up \in 0 .. Len(req[r].batch)
      BY DEF IInv, Types, Shaped
    <3>2. \A i \in 1 .. Len(req[r].batch) : req[r].batch[i] \in 1 .. planned
      BY DEF IInv, Used, Batch
    <3>3. req[r].batch \in Seq(1 .. planned)
      <4>1. /\ Len(req[r].batch) \in Nat
            /\ req[r].batch = [i \in 1 .. Len(req[r].batch) |-> req[r].batch[i]]
        BY <3>1
      <4>2. req[r].batch \in [1 .. Len(req[r].batch) -> 1 .. planned]
        BY <3>2, <4>1
      <4> QED BY <4>1, <4>2, SeqDef
    <3> QED BY <2>1, <3>1, <3>3 DEF OInv, Knows
  <2> QED BY <2>2, <2>3 DEF TypeOK, OInv, OrdinalInv
<1> QED BY InitInv, StepInv, InitOrdinals, StepOrdinals, <1>1, PTL DEF Spec

(* append_media's early look at the ordinals: its files go behind the cover it had     *)
(* seen, for any number of requests in between, unless nothing it had seen is left,    *)
(* the ordinals were rewritten, or it ran over the highest.                        *)
THEOREM AppendsGoBehind == Spec => CoverStays
<1>1. IInv /\ OInv /\ [Next]_vars
        => [\A r \in Request :
              Insert(r) /\ Rows # {} /\ CoverOf(ordinal') # CoverOf(ordinal) =>
                \/ req[r].seen \cap Rows = {}
                \/ ~req[r].calm
                \/ \E o \in Slots(r) : o < 0]_vars
  BY CoverKept
<1> QED BY InitInv, StepInv, InitOrdinals, StepOrdinals, <1>1, PTL DEF Spec, CoverStays

(* reorder_media's two phases never meet the unique index on a list that has been      *)
(* checked, unless attachments came or went since, or an ordinal is beyond the offset. *)
THEOREM ChecksSuffice == Spec => ReorderSucceeds
<1>1. IInv /\ OInv /\ [Next]_vars
        => [\A r \in Request :
              ReorderAborts(r) =>
                \/ req[r].seen # Rows
                \/ \E m \in Rows : ordinal[m] >= Offset
                \/ \E i \in DOMAIN req[r].to : req[r].to[i] >= Offset]_vars
  <2> SUFFICES ASSUME IInv, OInv, NEW r \in Request, ReorderAborts(r), req[r].seen = Rows,
                      ~\E m \in Rows : ordinal[m] >= Offset,
                      ~\E i \in DOMAIN req[r].to : req[r].to[i] >= Offset
               PROVE  FALSE
    OBVIOUS
  <2>1. req[r].pc = "checked" /\ ~TwoPhases(r)
    BY DEF ReorderAborts
  <2>2. \A m \in Rows : ordinal[m] < Offset
    BY HalfIsPositive DEF OInv, OrdinalInv, Ordinal
  <2>3. \A i \in DOMAIN req[r].to : req[r].to[i] < Offset
    <3>1. \A i \in DOMAIN req[r].to : req[r].to[i] \in 0 .. Half - 1
      BY <2>1 DEF OInv, Knows, Listed
    <3> QED BY <3>1, HalfIsPositive
  <2> QED BY <2>1, <2>2, <2>3, ReorderRuns
<1> QED BY InitInv, StepInv, InitOrdinals, StepOrdinals, <1>1, PTL DEF Spec, ReorderSucceeds
=============================================================================
