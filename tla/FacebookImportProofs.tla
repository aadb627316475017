------------------------ MODULE FacebookImportProofs ------------------------
(***************************************************************************)
(* FacebookImport.tla for any number of uploads of an archive of any size.  *)
(* That a row keeps its objects and an item its single row rests on four     *)
(* facts about the workers: items move only while their worker is in its     *)
(* stream (StreamInv), a committed item never starts over (RowInv), what an  *)
(* uploading item has is there (ObjectInv), and whatever another job has     *)
(* committed is either known to a worker in its stream or was committed      *)
(* beside it (DedupInv).  Then Archive.tla, for archives and uploads of any    *)
(* number and size, and ArchiveText.tla, for texts of any length: its          *)
(* recursive functions obey the equations they are written as (Recursion), and *)
(* what they compute follows by induction along the text.                      *)
(***************************************************************************)
EXTENDS MCArchive, FiniteSetTheorems, SequenceTheorems, WellFoundedInduction, TLAPS

StreamInv ==
  \A j \in Job : worker[j] # "importing" =>
    \A x \in Item : item[j][x].at \in {"waiting", "consumed"}

RowInv ==
  \A j \in Job, x \in Item : <<j, x>> \in posts =>
    /\ worker[j] # "none"
    /\ worker[j] = "gone" \/ item[j][x].at \in {"ready", "consumed"}

ObjectInv ==
  \A j \in Job, x \in Item : item[j][x].at = "uploading" =>
    /\ x \notin already[j]
    /\ \A n \in 1 .. item[j][x].up : <<j, x, n>> \in objects

StatusInv ==
  \A j \in Job : /\ Terminal(j) => worker[j] = "gone"
                 /\ worker[j] = "none" => status[j] = "none"

Known(j) == CASE worker[j] = "postsRead" -> Post
              [] worker[j] = "importing" -> Item
              [] OTHER -> {}

DedupInv ==
  /\ \A j, k \in Job : j # k /\ Alive(j) /\ Alive(k) => {j, k} \in overlapped
  /\ \A j, k \in Job : \A x \in Known(j) :
       j # k /\ <<k, x>> \in posts => x \in already[j] \/ {j, k} \in overlapped

IInv == TypeOK /\ StreamInv /\ RowInv /\ ObjectInv /\ StatusInv /\ DedupInv
        /\ RowsHaveObjects /\ ImportedOnce

-----------------------------------------------------------------------------
(* Helpers: what the operators on counters, logs and futures return.         *)

LEMMA ItemCount == Cardinality(Item) \in Nat
  BY ArchiveIsFinite, FS_CardinalityType DEF Item

LEMMA PushType ==
  ASSUME NEW l \in Log, NEW e \in {"started", "finished"} \cup Item
  PROVE  Push(l, e) \in Log
<1> DEFINE Line == {"started", "finished"} \cup Item
           all == Append(l.entries, e)
           over == IF Len(all) > LogCap THEN Len(all) - LogCap ELSE 0
<1>1. l.entries \in Seq(Line) /\ l.dropped \in Nat
  BY DEF Log
<1>2. all \in Seq(Line) /\ Len(all) \in Nat
  BY <1>1, AppendProperties
<1>3. over \in Nat
  BY <1>2, BoundsArePositive
<1>4. \A i \in over + 1 .. Len(all) : all[i] \in Line
  BY <1>2, <1>3
<1>5. SubSeq(all, over + 1, Len(all)) \in Seq(Line)
  <2> HIDE DEF all, over, Line
  <2> QED BY <1>2, <1>3, <1>4, SubSeqProperties
<1>6. Push(l, e) = [entries |-> SubSeq(all, over + 1, Len(all)), dropped |-> l.dropped + over]
  BY DEF Push
<1> HIDE DEF all, over
<1> QED
  BY <1>1, <1>3, <1>5, <1>6 DEF Log

LEMMA CountTypes ==
  ASSUME NEW t \in Count, NEW n \in Nat, NEW o
  PROVE  [t EXCEPT !.total = n] \in Count /\ Counted(t, o) \in Count
<1>1. [t EXCEPT !.total = n] \in Count
  BY DEF Count
<1>2. /\ (IF o = "succeeded" THEN t.succeeded + 1 ELSE t.succeeded) \in Nat
      /\ (IF o = "skipped" THEN t.skipped + 1 ELSE t.skipped) \in Nat
      /\ (IF o = "failed" THEN t.failed + 1 ELSE t.failed) \in Nat
      /\ t.processed + 1 \in Nat
  BY DEF Count
<1>3. Counted(t, o) \in Count
  BY <1>2 DEF Count, Counted
<1> QED
  BY <1>1, <1>3

LEMMA FutureTypes ==
  ASSUME NEW f \in Future, NEW l \in Log
  PROVE  /\ [f EXCEPT !.at = "erred"] \in Future
         /\ [f EXCEPT !.at = "consumed"] \in Future
         /\ [f EXCEPT !.at = "uploading"] \in Future
         /\ [f EXCEPT !.up = f.up + 1] \in Future
         /\ [f EXCEPT !.at = "logging", !.seen = l] \in Future
         /\ [f EXCEPT !.at = "ready", !.out = "succeeded"] \in Future
         /\ [f EXCEPT !.at = "ready", !.out = "skipped"] \in Future
         /\ [f EXCEPT !.at = "ready", !.out = "failed", !.seen = l] \in Future
<1> USE DEF Future
<1>1. [f EXCEPT !.at = "erred"] \in Future
  OBVIOUS
<1>2. [f EXCEPT !.at = "consumed"] \in Future
  OBVIOUS
<1>3. [f EXCEPT !.at = "uploading"] \in Future
  OBVIOUS
<1>4. [f EXCEPT !.up = f.up + 1] \in Future
  OBVIOUS
<1>5. [f EXCEPT !.at = "logging", !.seen = l] \in Future
  OBVIOUS
<1>6. [f EXCEPT !.at = "ready", !.out = "succeeded"] \in Future
  OBVIOUS
<1>7. [f EXCEPT !.at = "ready", !.out = "skipped"] \in Future
  OBVIOUS
<1>8. [f EXCEPT !.at = "ready", !.out = "failed", !.seen = l] \in Future
  OBVIOUS
<1> HIDE DEF Future
<1> QED
  BY <1>1, <1>2, <1>3, <1>4, <1>5, <1>6, <1>7, <1>8

LEMMA FutureFields ==
  ASSUME NEW f \in Future, NEW l \in Log
  PROVE  /\ [f EXCEPT !.at = "erred"].at = "erred"
         /\ [f EXCEPT !.at = "consumed"].at = "consumed"
         /\ [f EXCEPT !.up = f.up + 1].at = f.at
         /\ [f EXCEPT !.up = f.up + 1].up = f.up + 1
         /\ [f EXCEPT !.at = "logging", !.seen = l].at = "logging"
         /\ [f EXCEPT !.at = "ready", !.out = "succeeded"].at = "ready"
         /\ [f EXCEPT !.at = "ready", !.out = "failed", !.seen = l].at = "ready"
         /\ f.up \in Nat
  BY DEF Future

LEMMA UploadedType ==
  ASSUME NEW j \in Job, NEW x \in Item, item[j][x] \in Future
  PROVE  Uploaded(j, x) \in SUBSET (Job \X Item \X Nat)
  BY DEF Uploaded, Future

LEMMA InitialTypes ==
  /\ NoCount \in Count /\ NoLog \in Log /\ Waiting \in Future /\ Fresh \in [Item -> Future]
<1>1. <<>> \in Seq({"started", "finished"} \cup Item)
  OBVIOUS
<1>2. NoCount \in Count
  BY DEF NoCount, Count
<1>3. NoLog \in Log
  BY <1>1 DEF NoLog, Log
<1>4. Waiting \in Future
  BY <1>3 DEF Waiting, Future
<1> QED
  BY <1>2, <1>3, <1>4 DEF Fresh

(* Writing a well-typed future keeps the futures well typed, and says what    *)
(* each of them is afterwards.                                               *)
LEMMA BecomeType ==
  ASSUME TypeOK, NEW j \in Job, NEW x \in Item, NEW rec \in Future, Become(j, x, rec)
  PROVE  /\ item' \in [Job -> [Item -> Future]]
         /\ \A k \in Job, y \in Item :
              item'[k][y] = IF k = j /\ y = x THEN rec ELSE item[k][y]
  BY DEF TypeOK, Become

LEMMA WaitingIs ==
  Waiting.at = "waiting" /\ Waiting.up = 0 /\ \A j \in Job, x \in Item : Fresh[x].at = "waiting"
  BY DEF Waiting, Fresh

-----------------------------------------------------------------------------
LEMMA InitIInv == Init => IInv
<1> SUFFICES ASSUME Init PROVE IInv
  OBVIOUS
<1>1. TypeOK
  BY InitialTypes DEF Init, TypeOK
<1> QED
  BY <1>1, WaitingIs
  DEF Init, IInv, StreamInv, RowInv, ObjectInv, StatusInv, DedupInv, Known, Alive, Terminal,
      RowsHaveObjects, ImportedOnce

(* Every column, counter and future keeps its type.                          *)
LEMMA TypePreserved == ASSUME TypeOK, [Next]_vars PROVE TypeOK'
<1> USE DEF TypeOK
<1>1. ASSUME NEW j \in Job, CreateFacebookImport(j) \/ CreateDropped(j)
      PROVE  TypeOK'
<2>1. {{j, k} : k \in Live} \in SUBSET SUBSET Job
  BY DEF Live
<2>2. overlapped' \in SUBSET SUBSET Job
  BY <1>1, <2>1 DEF CreateFacebookImport, CreateDropped, hist
<2> QED
  BY <1>1, <2>2 DEF CreateFacebookImport, CreateDropped, hist
<1>2. ASSUME NEW j \in Job, NEW e \in {"started", "finished"}, LogLine(j, e)
      PROVE  log' \in [Job -> Log]
  <2>1. Push(log[j], e) \in Log
    BY PushType
  <2> QED
    BY <1>2, <2>1 DEF LogLine
<1>3. ASSUME NEW j \in Job, MarkRunning(j)
      PROVE  TypeOK'
  BY <1>2, <1>3 DEF MarkRunning, hist
<1>4. ASSUME NEW j \in Job, Scan(j)
      PROVE  TypeOK'
  <2>1. [tally[j] EXCEPT !.total = Cardinality(Item)] \in Count
    BY ItemCount, CountTypes
  <2>2. tally' = [tally EXCEPT ![j] = [tally[j] EXCEPT !.total = Cardinality(Item)]]
    BY <1>4 DEF Scan
  <2>3. tally' \in [Job -> Count] /\ tally'[j] \in Count
    BY <2>1, <2>2
  <2> QED
    BY <1>4, <2>3 DEF Scan, hist
<1>5. ASSUME NEW j \in Job, DedupPosts(j) \/ DedupAlbums(j)
      PROVE  TypeOK'
  <2>1. \A xs \in SUBSET Item : Imported(xs) \in SUBSET Item
    BY DEF Imported
  <2>2. Imported(Post) \in SUBSET Item /\ Imported(Album) \in SUBSET Item
    BY <2>1 DEF Item
  <2>3. CASE DedupPosts(j)
    BY <2>2, <2>3 DEF DedupPosts, row, hist
  <2>4. CASE DedupAlbums(j)
    <3>1. already[j] \cup Imported(Album) \in SUBSET Item
      BY <2>2
    <3>2. already' \in [Job -> SUBSET Item]
      BY <2>4, <3>1 DEF DedupAlbums
    <3> QED
      BY <2>4, <3>2 DEF DedupAlbums, row, hist
  <2> QED
    BY <1>5, <2>3, <2>4
<1>6. ASSUME NEW j \in Job, WorkerFails(j) \/ StreamEnds(j)
      PROVE  TypeOK'
  BY <1>6 DEF WorkerFails, StreamEnds, row, hist
<1>7. ASSUME NEW j \in Job, FinalFlush(j)
      PROVE  TypeOK'
  BY <1>2, <1>7 DEF FinalFlush, hist
<1>8. ASSUME NEW j \in Job, Finish(j)
      PROVE  TypeOK'
  BY <1>8, InitialTypes DEF Finish, hist
<1>9. ASSUME NEW j \in Job, NEW x \in Item, Skip(j, x) \/ Start(j, x)
      PROVE  TypeOK'
  <2>1. /\ [Waiting EXCEPT !.at = "ready", !.out = "skipped"] \in Future
        /\ [Waiting EXCEPT !.at = "uploading"] \in Future
        /\ [Waiting EXCEPT !.at = "ready", !.out = "succeeded"] \in Future
        /\ [Waiting EXCEPT !.at = "erred"] \in Future
    BY InitialTypes, FutureTypes
  <2> QED
    BY <1>9, <2>1, BecomeType DEF Skip, Start, row, hist
<1>10. ASSUME NEW j \in Job, NEW x \in Item, Upload(j, x)
       PROVE  TypeOK'
  <2>1. item[j][x].up + 1 \in Nat
    BY DEF Future
  <2>2. [item[j][x] EXCEPT !.up = item[j][x].up + 1] \in Future
    <3>1. item[j][x] \in Future /\ log[j] \in Log
      OBVIOUS
    <3> QED
      BY <3>1, FutureTypes
  <2>3. item' \in [Job -> [Item -> Future]]
    BY <1>10, <2>2, BecomeType DEF Upload
  <2> QED
    BY <1>10, <2>1, <2>3 DEF Upload, row, hist
<1>11. ASSUME NEW j \in Job, NEW x \in Item
       PROVE  /\ Uploaded(j, x) \in SUBSET (Job \X Item \X Nat)
              /\ [item[j][x] EXCEPT !.at = "erred"] \in Future
              /\ [item[j][x] EXCEPT !.at = "consumed"] \in Future
              /\ [item[j][x] EXCEPT !.at = "logging", !.seen = log[j]] \in Future
              /\ [item[j][x] EXCEPT !.at = "ready", !.out = "failed", !.seen = NoLog] \in Future
              /\ [item[j][x] EXCEPT !.at = "ready", !.out = "succeeded"] \in Future
<2>1. item[j][x] \in Future /\ log[j] \in Log
  OBVIOUS
<2> QED
  BY <2>1, InitialTypes, FutureTypes, UploadedType
<1>12. ASSUME NEW j \in Job, NEW x \in Item, DecodeFails(j, x)
       PROVE  TypeOK'
  <2>1. item' \in [Job -> [Item -> Future]]
    BY <1>11, <1>12, BecomeType DEF DecodeFails
  <2> QED
    BY <1>11, <1>12, <2>1 DEF DecodeFails, row
<1>13. ASSUME NEW j \in Job, NEW x \in Item, ImportFails(j, x)
       PROVE  TypeOK'
  <2>1. item' \in [Job -> [Item -> Future]]
    BY <1>11, <1>13, BecomeType DEF ImportFails
  <2>2. PICK kept \in SUBSET Uploaded(j, x) :
          /\ objects' = objects \ (Uploaded(j, x) \ kept)
          /\ excused' = excused \cup kept
          /\ UNCHANGED <<overlapped, undecoded>>
    BY <1>13 DEF ImportFails, Rollback
  <2> QED
    BY <1>11, <1>13, <2>1, <2>2 DEF ImportFails, row
<1>14. ASSUME NEW j \in Job, NEW x \in Item, Insert(j, x)
       PROVE  TypeOK'
  <2>1. item' \in [Job -> [Item -> Future]]
    <3>1. Become(j, x, [item[j][x] EXCEPT !.at = "ready", !.out = "succeeded"])
      BY <1>14 DEF Insert
    <3> QED
      BY <1>11, <3>1, BecomeType
  <2> QED
    BY <1>14, <2>1 DEF Insert, row, hist
<1>15. ASSUME NEW j \in Job, NEW x \in Item, ReadLog(j, x)
       PROVE  TypeOK'
  BY <1>11, <1>15, BecomeType DEF ReadLog, row, hist
<1>16. ASSUME NEW j \in Job, NEW x \in Item, WriteLog(j, x)
       PROVE  TypeOK'
  <2>1. Push(item[j][x].seen, x) \in Log
    <3>1. item[j][x].seen \in Log
      BY DEF Future
    <3> QED
      BY <3>1, PushType
  <2>2. item' \in [Job -> [Item -> Future]]
    BY <1>11, <1>16, BecomeType DEF WriteLog
  <2>3. log' \in [Job -> Log]
    BY <1>16, <2>1 DEF WriteLog
  <2> QED
    BY <1>16, <2>1, <2>2, <2>3 DEF WriteLog, hist
<1>17. ASSUME NEW j \in Job, NEW x \in Item, Consume(j, x)
       PROVE  TypeOK'
  <2>1. Counted(tally[j], item[j][x].out) \in Count
    BY CountTypes, ItemCount
  <2>2. tally' \in [Job -> Count] /\ progress' \in [Job -> Count]
    BY <1>17, <2>1 DEF Consume
  <2>3. item' \in [Job -> [Item -> Future]]
    BY <1>11, <1>17, BecomeType DEF Consume
  <2> QED
    BY <1>17, <2>2, <2>3 DEF Consume, hist
<1>18. ASSUME Restart
       PROVE  TypeOK'
  <2>1. UNION {Uploaded(a[1], a[2]) : a \in Uploading} \in SUBSET (Job \X Item \X Nat)
    <3>1. \A a \in Uploading : a[1] \in Job /\ a[2] \in Item
      BY DEF Uploading
    <3>2. \A a \in Uploading : Uploaded(a[1], a[2]) \in SUBSET (Job \X Item \X Nat)
      BY <1>11, <3>1
    <3> QED
      BY <3>2
  <2>2. item' \in [Job -> [Item -> Future]] /\ tally' \in [Job -> Count]
    BY <1>18, InitialTypes DEF Restart
  <2> QED
    BY <1>18, <2>1, <2>2 DEF Restart, Sweep
<1>19. CASE UNCHANGED vars
  BY <1>19 DEF vars, row, hist
<1> QED
  BY <1>1, <1>3, <1>4, <1>5, <1>6, <1>7, <1>8, <1>9, <1>10, <1>12, <1>13, <1>14, <1>15, <1>16,
     <1>17, <1>18, <1>19 DEF Next, WorkerStep, ItemStep

-----------------------------------------------------------------------------
(* A step of one item's future that neither commits nor touches an object.   *)
LEMMA LightItemStep ==
  ASSUME IInv, TypeOK', NEW j \in Job, NEW x \in Item, NEW rec \in Future, Become(j, x, rec),
         worker[j] = "importing",
         UNCHANGED <<status, posts, objects, worker, already, overlapped>>,
         rec.at = "uploading" => x \notin already[j] /\ rec.up = 0,
         item[j][x].at \in {"ready", "consumed"} => rec.at \in {"ready", "consumed"}
  PROVE  IInv'
<1>1. /\ TypeOK
      /\ \A k \in Job, y \in Item : item'[k][y] = IF k = j /\ y = x THEN rec ELSE item[k][y]
  BY BecomeType DEF IInv
<1>2. StreamInv'
  BY <1>1 DEF IInv, StreamInv
<1>3. RowInv'
  BY <1>1 DEF IInv, RowInv
<1>4. ObjectInv'
  BY <1>1 DEF IInv, ObjectInv
<1>5. StatusInv' /\ DedupInv' /\ RowsHaveObjects' /\ ImportedOnce'
  BY DEF IInv, StatusInv, DedupInv, RowsHaveObjects, ImportedOnce, Terminal, Alive, Known
<1> QED
  BY <1>2, <1>3, <1>4, <1>5 DEF IInv

(* An item that is under way has its worker in the stream.                   *)
LEMMA UnderWay ==
  ASSUME IInv, NEW j \in Job, NEW x \in Item, item[j][x].at \notin {"waiting", "consumed"}
  PROVE  worker[j] = "importing"
  BY DEF IInv, StreamInv

LEMMA LightItemSteps ==
  ASSUME IInv, TypeOK', NEW j \in Job, NEW x \in Item,
         Skip(j, x) \/ Start(j, x) \/ DecodeFails(j, x) \/ ReadLog(j, x) \/ WriteLog(j, x)
           \/ Consume(j, x)
  PROVE  IInv'
<1>1. /\ TypeOK
      /\ item[j][x] \in Future /\ log[j] \in Log /\ NoLog \in Log /\ Waiting \in Future
  BY InitialTypes DEF IInv, TypeOK
<1>2. CASE Skip(j, x)
  <2> DEFINE rec == [Waiting EXCEPT !.at = "ready", !.out = "skipped"]
  <2>1. rec \in Future /\ rec.at = "ready"
    BY <1>1, FutureTypes DEF Waiting
  <2> QED
    BY <1>2, <2>1, LightItemStep DEF Skip, Admit, row, hist
<1>3. CASE Start(j, x)
  <2>1. ASSUME NEW rec \in Future, Become(j, x, rec), rec.up = 0 PROVE IInv'
    BY <1>3, <2>1, LightItemStep DEF Start, Admit, row, hist
  <2>2. /\ [Waiting EXCEPT !.at = "uploading"].up = 0
        /\ [Waiting EXCEPT !.at = "ready", !.out = "succeeded"].up = 0
        /\ [Waiting EXCEPT !.at = "erred"].up = 0
    BY DEF Waiting
  <2>3. /\ [Waiting EXCEPT !.at = "uploading"] \in Future
        /\ [Waiting EXCEPT !.at = "ready", !.out = "succeeded"] \in Future
        /\ [Waiting EXCEPT !.at = "erred"] \in Future
    BY <1>1, FutureTypes
  <2> QED
    BY <1>3, <2>1, <2>2, <2>3 DEF Start
<1>4. CASE DecodeFails(j, x)
  <2> DEFINE rec == [item[j][x] EXCEPT !.at = "erred"]
  <2>1. rec \in Future /\ rec.at = "erred"
    BY <1>1, FutureTypes, FutureFields
  <2> QED
    BY <1>4, <2>1, LightItemStep, UnderWay DEF DecodeFails, row
<1>5. CASE ReadLog(j, x)
  <2> DEFINE rec == [item[j][x] EXCEPT !.at = "logging", !.seen = log[j]]
  <2>1. rec \in Future /\ rec.at = "logging"
    BY <1>1, FutureTypes, FutureFields
  <2> QED
    BY <1>5, <2>1, LightItemStep, UnderWay DEF ReadLog, row, hist
<1>6. CASE WriteLog(j, x)
  <2> DEFINE rec == [item[j][x] EXCEPT !.at = "ready", !.out = "failed", !.seen = NoLog]
  <2>1. rec \in Future /\ rec.at = "ready"
    BY <1>1, FutureTypes, FutureFields
  <2> QED
    BY <1>6, <2>1, LightItemStep, UnderWay DEF WriteLog, hist
<1>7. CASE Consume(j, x)
  <2> DEFINE rec == [item[j][x] EXCEPT !.at = "consumed"]
  <2>1. rec \in Future /\ rec.at = "consumed"
    BY <1>1, FutureTypes, FutureFields
  <2> QED
    BY <1>7, <2>1, LightItemStep, UnderWay DEF Consume, hist
<1> QED
  BY <1>2, <1>3, <1>4, <1>5, <1>6, <1>7

(* An upload adds the next object of its attempt.                            *)
LEMMA UploadPreserves ==
  ASSUME IInv, TypeOK', NEW j \in Job, NEW x \in Item, Upload(j, x)
  PROVE  IInv'
<1> DEFINE n == item[j][x].up + 1
           rec == [item[j][x] EXCEPT !.up = n]
<1>1. TypeOK /\ item[j][x] \in Future /\ NoLog \in Log
  BY InitialTypes DEF IInv, TypeOK
<1>2. rec \in Future /\ rec.at = "uploading" /\ rec.up = n /\ n \in Nat
  <2>1. item[j][x].at = "uploading"
    BY DEF Upload
  <2>2. rec \in Future
    BY <1>1, FutureTypes
  <2>3. rec.at = item[j][x].at /\ rec.up = n /\ n \in Nat
    BY <1>1, FutureFields
  <2> QED
    BY <2>1, <2>2, <2>3
<1>3. /\ Become(j, x, rec) /\ objects' = objects \cup {<<j, x, n>>}
      /\ UNCHANGED <<status, posts, worker, already, overlapped>>
  BY DEF Upload, row, hist
<1>4. \A k \in Job, y \in Item : item'[k][y] = IF k = j /\ y = x THEN rec ELSE item[k][y]
  BY <1>1, <1>2, <1>3, BecomeType
<1> HIDE DEF rec
<1>5. item[j][x].at = "uploading" /\ worker[j] = "importing"
  BY UnderWay DEF Upload
<1>6. StreamInv' /\ RowInv'
  BY <1>2, <1>3, <1>4, <1>5 DEF IInv, StreamInv, RowInv
<1>7. ObjectInv'
  <2> SUFFICES ASSUME NEW k \in Job, NEW y \in Item, item'[k][y].at = "uploading"
               PROVE  /\ y \notin already'[k]
                      /\ \A m \in 1 .. item'[k][y].up : <<k, y, m>> \in objects'
    BY DEF ObjectInv
  <2>1. CASE k = j /\ y = x
    BY <1>1, <1>2, <1>3, <1>4, <1>5, <2>1, FutureFields DEF IInv, ObjectInv
  <2>2. CASE ~(k = j /\ y = x)
    BY <1>3, <1>4, <2>2 DEF IInv, ObjectInv
  <2> QED
    BY <2>1, <2>2
<1>8. RowsHaveObjects'
  BY <1>3 DEF IInv, RowsHaveObjects
<1>9. StatusInv' /\ DedupInv' /\ ImportedOnce'
  BY <1>3 DEF IInv, StatusInv, DedupInv, ImportedOnce, Terminal, Alive, Known
<1> QED
  BY <1>6, <1>7, <1>8, <1>9 DEF IInv

(* A failed attempt takes back objects of its own only, and it has no row.   *)
LEMMA ImportFailsPreserves ==
  ASSUME IInv, TypeOK', NEW j \in Job, NEW x \in Item, ImportFails(j, x)
  PROVE  IInv'
<1> DEFINE rec == [item[j][x] EXCEPT !.at = "erred"]
<1>1. TypeOK /\ item[j][x] \in Future /\ NoLog \in Log
  BY InitialTypes DEF IInv, TypeOK
<1>2. rec \in Future /\ rec.at = "erred"
  BY <1>1, FutureTypes, FutureFields
<1>3. /\ Become(j, x, rec) /\ \A o \in objects : o \in objects' \/ o \in Uploaded(j, x)
      /\ UNCHANGED <<status, posts, worker, already, overlapped>>
  BY DEF ImportFails, Rollback, row
<1>4. \A k \in Job, y \in Item : item'[k][y] = IF k = j /\ y = x THEN rec ELSE item[k][y]
  BY <1>1, <1>2, <1>3, BecomeType
<1> HIDE DEF rec
<1>5. item[j][x].at = "uploading" /\ worker[j] = "importing"
  BY UnderWay DEF ImportFails
<1>6. StreamInv' /\ RowInv'
  BY <1>2, <1>3, <1>4, <1>5 DEF IInv, StreamInv, RowInv
<1>7. \A k \in Job, y \in Item, m \in Nat :
        <<k, y, m>> \in objects /\ (k # j \/ y # x) => <<k, y, m>> \in objects'
  BY <1>3 DEF Uploaded
<1>8. ObjectInv'
  <2> SUFFICES ASSUME NEW k \in Job, NEW y \in Item, item'[k][y].at = "uploading"
               PROVE  /\ y \notin already'[k]
                      /\ \A m \in 1 .. item'[k][y].up : <<k, y, m>> \in objects'
    BY DEF ObjectInv
  <2>1. (k # j \/ y # x) /\ item'[k][y] = item[k][y]
    BY <1>2, <1>4
  <2>2. item[k][y].up \in Nat
    BY <1>1, FutureFields DEF TypeOK
  <2> QED
    BY <1>3, <1>7, <2>1, <2>2 DEF IInv, ObjectInv
<1>9. RowsHaveObjects'
  <2> SUFFICES ASSUME NEW a \in posts, NEW n \in 1 .. Media[a[2]]
               PROVE  <<a[1], a[2], n>> \in objects'
    BY <1>3 DEF RowsHaveObjects
  <2>1. a[1] \in Job /\ a[2] \in Item /\ a = <<a[1], a[2]>>
    BY <1>1 DEF TypeOK
  <2>2. a[1] # j \/ a[2] # x
    BY <1>5, <2>1 DEF IInv, RowInv
  <2>3. <<a[1], a[2], n>> \in objects /\ n \in Nat
    BY <2>1, ItemsHaveMedia DEF IInv, RowsHaveObjects
  <2> QED
    BY <1>7, <2>1, <2>2, <2>3
<1>10. StatusInv' /\ DedupInv' /\ ImportedOnce'
  BY <1>3 DEF IInv, StatusInv, DedupInv, ImportedOnce, Terminal, Alive, Known
<1> QED
  BY <1>6, <1>8, <1>9, <1>10 DEF IInv

(* A commit: its objects are there, and every other row of the item belongs  *)
(* to a job that ran beside this one, or the look-up would have found it.    *)
LEMMA InsertPreserves ==
  ASSUME IInv, TypeOK', NEW j \in Job, NEW x \in Item, Insert(j, x)
  PROVE  IInv'
<1> DEFINE rec == [item[j][x] EXCEPT !.at = "ready", !.out = "succeeded"]
<1>1. TypeOK /\ item[j][x] \in Future /\ NoLog \in Log
  BY InitialTypes DEF IInv, TypeOK
<1>2. rec \in Future /\ rec.at = "ready"
  BY <1>1, FutureTypes, FutureFields
<1>3. /\ Become(j, x, rec) /\ posts' = posts \cup {<<j, x>>}
      /\ UNCHANGED <<status, objects, worker, already, overlapped>>
  BY DEF Insert, row, hist
<1>4. \A k \in Job, y \in Item : item'[k][y] = IF k = j /\ y = x THEN rec ELSE item[k][y]
  BY <1>1, <1>2, <1>3, BecomeType
<1> HIDE DEF rec
<1>5. item[j][x].at = "uploading" /\ item[j][x].up = Media[x] /\ worker[j] = "importing"
  BY UnderWay DEF Insert
<1>6. StreamInv' /\ RowInv' /\ ObjectInv' /\ StatusInv'
  BY <1>2, <1>3, <1>4, <1>5
  DEF IInv, StreamInv, RowInv, ObjectInv, StatusInv, Terminal
<1>7. RowsHaveObjects'
  <2> SUFFICES ASSUME NEW a \in posts', NEW n \in 1 .. Media[a[2]]
               PROVE  <<a[1], a[2], n>> \in objects
    BY <1>3 DEF RowsHaveObjects
  <2>1. CASE a \in posts
    BY <2>1 DEF IInv, RowsHaveObjects
  <2>2. CASE a = <<j, x>>
    BY <1>5, <2>2 DEF IInv, ObjectInv
  <2> QED
    BY <1>3, <2>1, <2>2
<1>8. \A k \in Job : k # j /\ <<k, x>> \in posts => {j, k} \in overlapped
  BY <1>5 DEF IInv, DedupInv, ObjectInv, Known
<1>9. ImportedOnce'
  <2> SUFFICES ASSUME NEW a \in posts', NEW b \in posts', a[2] = b[2], a # b
               PROVE  {a[1], b[1]} \in overlapped
    BY <1>3 DEF ImportedOnce
  <2>1. /\ a = <<a[1], a[2]>> /\ a[1] \in Job
        /\ b = <<b[1], b[2]>> /\ b[1] \in Job
    BY DEF TypeOK
  <2>2. CASE a \in posts /\ b \in posts
    BY <2>2 DEF IInv, ImportedOnce
  <2>3. CASE a = <<j, x>>
    BY <1>3, <1>8, <2>1, <2>3
  <2>4. CASE b = <<j, x>>
    <3>1. {j, a[1]} \in overlapped
      BY <1>3, <1>8, <2>1, <2>4
    <3>2. {j, a[1]} = {a[1], j}
      OBVIOUS
    <3> QED
      BY <2>4, <3>1, <3>2
  <2> QED
    BY <1>3, <2>2, <2>3, <2>4
<1>10. DedupInv'
  <2>1. \A k, l \in Job : k # l /\ Alive(k) /\ Alive(l) => {k, l} \in overlapped
    BY DEF IInv, DedupInv
  <2>2. ASSUME NEW k \in Job, NEW l \in Job, NEW y \in Known(k), k # l, <<l, y>> \in posts'
        PROVE  y \in already[k] \/ {k, l} \in overlapped
    <3>1. CASE <<l, y>> \in posts
      BY <2>2, <3>1 DEF IInv, DedupInv
    <3>2. CASE l = j
      <4>1. Alive(j) /\ Alive(k)
        BY <1>5, <2>2 DEF Alive, Known
      <4> QED
        BY <2>1, <2>2, <3>2, <4>1
    <3> QED
      BY <1>3, <2>2, <3>1, <3>2
  <2> QED
    BY <1>3, <2>1, <2>2 DEF DedupInv, Alive, Known
<1> QED
  BY <1>6, <1>7, <1>9, <1>10 DEF IInv

-----------------------------------------------------------------------------
(* A step of a worker outside its stream, other than the look-ups.           *)
LEMMA QuietWorkerStep ==
  ASSUME IInv, TypeOK', NEW j \in Job, NEW w, worker' = [worker EXCEPT ![j] = w],
         w \in {"running", "scanned", "flushing", "succeeded", "failed"},
         Alive(j),
         \A x \in Item : item[j][x].at \in {"waiting", "consumed"},
         UNCHANGED <<posts, objects, already, item, overlapped>>,
         \A k \in Job : status'[k] # status[k] => k = j /\ status'[k] = "running"
  PROVE  IInv'
<1>1. \A k \in Job : worker'[k] = IF k = j THEN w ELSE worker[k]
  BY DEF IInv, TypeOK
<1>2. StreamInv' /\ RowInv' /\ ObjectInv'
  BY <1>1 DEF IInv, StreamInv, RowInv, ObjectInv, Alive
<1>3. StatusInv'
  BY <1>1 DEF IInv, StatusInv, Alive, Terminal
<1>4. DedupInv'
  BY <1>1 DEF IInv, DedupInv, Alive, Known
<1>5. RowsHaveObjects' /\ ImportedOnce'
  BY DEF IInv, RowsHaveObjects, ImportedOnce
<1> QED
  BY <1>2, <1>3, <1>4, <1>5 DEF IInv

LEMMA QuietWorkerSteps ==
  ASSUME IInv, TypeOK', NEW j \in Job,
         MarkRunning(j) \/ Scan(j) \/ WorkerFails(j) \/ FinalFlush(j) \/ StreamEnds(j)
  PROVE  IInv'
<1>1. TypeOK /\ (worker[j] # "importing" => \A x \in Item : item[j][x].at \in {"waiting", "consumed"})
  BY DEF IInv, StreamInv
<1>2. CASE MarkRunning(j)
  <2>1. \A k \in Job : status'[k] # status[k] => k = j /\ status'[k] = "running"
    BY <1>1, <1>2 DEF MarkRunning, TypeOK
  <2> QED
    BY <1>1, <1>2, <2>1, QuietWorkerStep DEF MarkRunning, Alive, hist
<1>3. CASE Scan(j)
  BY <1>1, <1>3, QuietWorkerStep DEF Scan, Alive, hist
<1>4. CASE WorkerFails(j)
  BY <1>1, <1>4, QuietWorkerStep DEF WorkerFails, Alive, row, hist
<1>5. CASE FinalFlush(j)
  BY <1>1, <1>5, QuietWorkerStep DEF FinalFlush, Alive, hist
<1>6. CASE StreamEnds(j)
  BY <1>6, QuietWorkerStep DEF StreamEnds, Alive, row, hist
<1> QED
  BY <1>2, <1>3, <1>4, <1>5, <1>6

(* A look-up: from here on the worker knows what others had committed.       *)
LEMMA DedupPreserves ==
  ASSUME IInv, TypeOK', NEW j \in Job, DedupPosts(j) \/ DedupAlbums(j)
  PROVE  IInv'
<1>1. /\ worker[j] \in {"scanned", "postsRead"}
      /\ worker' = [worker EXCEPT ![j] = IF DedupPosts(j) THEN "postsRead" ELSE "importing"]
      /\ UNCHANGED <<status, posts, objects, item, overlapped>>
  BY DEF DedupPosts, DedupAlbums, row, hist
<1>2. \A k \in Job : k # j => worker'[k] = worker[k] /\ already'[k] = already[k]
  BY DEF IInv, TypeOK, DedupPosts, DedupAlbums
<1>3. worker'[j] \in {"postsRead", "importing"}
  BY <1>1 DEF IInv, TypeOK
<1>4. \A x \in Known(j)' : \A k \in Job : <<k, x>> \in posts /\ k # j =>
        x \in already'[j] \/ {j, k} \in overlapped
  <2> SUFFICES ASSUME NEW x \in Known(j)', NEW k \in Job, <<k, x>> \in posts, k # j
               PROVE  x \in already'[j] \/ {j, k} \in overlapped
    OBVIOUS
  <2>1. CASE DedupPosts(j)
    <3>1. worker'[j] = "postsRead" /\ already'[j] = Imported(Post)
      BY <2>1 DEF IInv, TypeOK, DedupPosts
    <3> QED
      BY <3>1 DEF Known, Imported
  <2>2. CASE DedupAlbums(j)
    <3>1. /\ worker[j] = "postsRead" /\ worker'[j] = "importing"
          /\ already'[j] = already[j] \cup Imported(Album)
      BY <2>2 DEF IInv, TypeOK, DedupAlbums
    <3>2. CASE x \in Post
      BY <3>1, <3>2 DEF IInv, DedupInv, Known
    <3>3. CASE x \in Album
      BY <3>1, <3>3 DEF Imported
    <3> QED
      BY <3>1, <3>2, <3>3 DEF Known, Item
  <2> QED
    BY <2>1, <2>2
<1>5. \A x \in Item : item[j][x].at \in {"waiting", "consumed"}
  BY <1>1 DEF IInv, StreamInv
<1>6. StreamInv' /\ RowInv' /\ ObjectInv'
  BY <1>1, <1>2, <1>3, <1>5 DEF IInv, StreamInv, RowInv, ObjectInv
<1>7. StatusInv'
  BY <1>1, <1>2, <1>3 DEF IInv, StatusInv, Terminal
<1>8. DedupInv'
  BY <1>1, <1>2, <1>3, <1>4 DEF IInv, DedupInv, Alive, Known
<1>9. RowsHaveObjects' /\ ImportedOnce'
  BY <1>1 DEF IInv, RowsHaveObjects, ImportedOnce
<1> QED
  BY <1>6, <1>7, <1>8, <1>9 DEF IInv

(* A worker leaves; its attempts can never run again.                        *)
LEMMA FinishPreserves ==
  ASSUME IInv, TypeOK', NEW j \in Job, Finish(j)
  PROVE  IInv'
<1>1. /\ worker[j] \in {"succeeded", "failed"} /\ worker' = [worker EXCEPT ![j] = "gone"]
      /\ item' = [item EXCEPT ![j] = Fresh]
      /\ \A k \in Job : k # j => status'[k] = status[k]
      /\ UNCHANGED <<posts, objects, already, overlapped>>
  BY DEF IInv, TypeOK, Finish, hist
<1>2. \A k \in Job : /\ worker'[k] = IF k = j THEN "gone" ELSE worker[k]
                     /\ item'[k] = IF k = j THEN Fresh ELSE item[k]
  BY <1>1 DEF IInv, TypeOK
<1>3. StreamInv' /\ RowInv' /\ ObjectInv' /\ StatusInv'
  BY <1>1, <1>2, WaitingIs DEF IInv, StreamInv, RowInv, ObjectInv, StatusInv, Terminal
<1>4. DedupInv'
  BY <1>1, <1>2 DEF IInv, DedupInv, Alive, Known
<1>5. RowsHaveObjects' /\ ImportedOnce'
  BY <1>1 DEF IInv, RowsHaveObjects, ImportedOnce
<1> QED
  BY <1>3, <1>4, <1>5 DEF IInv

LEMMA CreatePreserves ==
  ASSUME IInv, TypeOK', NEW j \in Job, CreateFacebookImport(j) \/ CreateDropped(j)
  PROVE  IInv'
<1>1. /\ worker[j] = "none"
      /\ status' = [status EXCEPT ![j] = "queued"]
      /\ UNCHANGED <<posts, objects, already, item>>
      /\ \A o \in overlapped : o \in overlapped'
  BY DEF CreateFacebookImport, CreateDropped, hist
<1>2. /\ \A k \in Job : k # j => worker'[k] = worker[k] /\ status'[k] = status[k]
      /\ worker'[j] \in {"spawned", "gone"} /\ status'[j] = "queued"
  BY DEF IInv, TypeOK, CreateFacebookImport, CreateDropped
<1>3. StreamInv' /\ RowInv' /\ ObjectInv' /\ StatusInv'
  BY <1>1, <1>2 DEF IInv, StreamInv, RowInv, ObjectInv, StatusInv, Terminal
<1>4. \A k \in Job : k # j /\ Alive(k) /\ Alive(j)' => {j, k} \in overlapped' /\ {k, j} \in overlapped'
  <2>1. CASE CreateFacebookImport(j)
    <3>1. \A k \in Job : k # j /\ Alive(k) => {j, k} \in overlapped'
      BY <2>1 DEF CreateFacebookImport, Live
    <3>2. \A k : {j, k} = {k, j}
      OBVIOUS
    <3> QED
      BY <3>1, <3>2
  <2>2. CASE CreateDropped(j)
    BY <2>2 DEF IInv, TypeOK, CreateDropped, Alive
  <2> QED
    BY <2>1, <2>2
<1>5. DedupInv'
  BY <1>1, <1>2, <1>4 DEF IInv, DedupInv, Alive, Known
<1>6. RowsHaveObjects' /\ ImportedOnce'
  BY <1>1 DEF IInv, RowsHaveObjects, ImportedOnce
<1> QED
  BY <1>3, <1>5, <1>6 DEF IInv

LEMMA RestartPreserves ==
  ASSUME IInv, TypeOK', Restart
  PROVE  IInv'
<1>1. /\ \A k \in Job : worker'[k] = IF Alive(k) THEN "gone" ELSE worker[k]
      /\ \A k \in Job : item'[k] = Fresh
      /\ UNCHANGED <<posts, objects, already, overlapped>>
      /\ \A k \in Job : status'[k] = status[k] \/ (status[k] = "running" /\ status'[k] = "failed")
  BY DEF IInv, TypeOK, Restart, Sweep
<1>2. StreamInv' /\ ObjectInv'
  BY <1>1, WaitingIs DEF StreamInv, ObjectInv
<1>3. RowInv' /\ StatusInv'
  BY <1>1 DEF IInv, RowInv, StatusInv, Alive, Terminal
<1>4. DedupInv'
  BY <1>1 DEF IInv, DedupInv, Alive, Known
<1>5. RowsHaveObjects' /\ ImportedOnce'
  BY <1>1 DEF IInv, RowsHaveObjects, ImportedOnce
<1> QED
  BY <1>2, <1>3, <1>4, <1>5 DEF IInv

-----------------------------------------------------------------------------
LEMMA NextPreserves == ASSUME IInv, [Next]_vars PROVE IInv'
<1>1. TypeOK'
  BY TypePreserved DEF IInv
<1>2. CASE UNCHANGED vars
  BY <1>1, <1>2
  DEF vars, row, hist, IInv, StreamInv, RowInv, ObjectInv, StatusInv, DedupInv, RowsHaveObjects,
      ImportedOnce, Alive, Known, Terminal
<1>3. ASSUME NEW j \in Job, NEW x \in Item, ItemStep(j, x) PROVE IInv'
  BY <1>1, <1>3, LightItemSteps, UploadPreserves, ImportFailsPreserves, InsertPreserves DEF ItemStep
<1>4. ASSUME NEW j \in Job, WorkerStep(j) PROVE IInv'
  BY <1>1, <1>3, <1>4, QuietWorkerSteps, DedupPreserves, FinishPreserves DEF WorkerStep
<1> QED
  BY <1>1, <1>2, <1>4, CreatePreserves, RestartPreserves DEF Next

(* The invariant of the importer, for any number of jobs and items.          *)
THEOREM Invariance == Spec => []IInv
<1> QED
  BY InitIInv, NextPreserves, PTL DEF Spec

THEOREM TypeCorrect == Spec => []TypeOK
<1>1. IInv => TypeOK
  BY DEF IInv
<1> QED
  BY <1>1, Invariance, PTL

(* No imported post ever loses an object, however attempts fail or jobs      *)
(* overlap.                                                                  *)
THEOREM RowsKeepObjects == Spec => []RowsHaveObjects
<1>1. IInv => RowsHaveObjects
  BY DEF IInv
<1> QED
  BY <1>1, Invariance, PTL

(* Only jobs that ran side by side can import an item twice.                 *)
THEOREM SingleImport == Spec => []ImportedOnce
<1>1. IInv => ImportedOnce
  BY DEF IInv
<1> QED
  BY <1>1, Invariance, PTL

(* A job's outcome is written once.                                          *)
THEOREM OutcomeIsFinal == Spec => TerminalIsFinal
<1>1. ASSUME IInv, [Next]_vars, NEW j \in Job, Terminal(j) PROVE status'[j] = status[j]
  <2>1. worker[j] = "gone" /\ TypeOK
    BY <1>1 DEF IInv, StatusInv
  <2>2. CASE UNCHANGED vars
    BY <2>2 DEF vars, row
  <2>3. ASSUME NEW k \in Job, CreateFacebookImport(k) \/ CreateDropped(k) PROVE status'[j] = status[j]
    BY <2>1, <2>3 DEF TypeOK, CreateFacebookImport, CreateDropped
  <2>4. ASSUME NEW k \in Job, MarkRunning(k) \/ Finish(k) PROVE status'[j] = status[j]
    BY <2>1, <2>4 DEF TypeOK, MarkRunning, Finish
  <2>5. ASSUME NEW k \in Job, \/ Scan(k) \/ DedupPosts(k) \/ DedupAlbums(k) \/ WorkerFails(k)
                              \/ StreamEnds(k) \/ FinalFlush(k)
        PROVE status' = status
    BY <2>5 DEF Scan, DedupPosts, DedupAlbums, WorkerFails, StreamEnds, FinalFlush, row
  <2>6. ASSUME NEW k \in Job, NEW x \in Item, ItemStep(k, x) PROVE status' = status
    BY <2>6 DEF ItemStep, Skip, Start, Upload, DecodeFails, ImportFails, Insert, ReadLog,
                WriteLog, Consume, row
  <2>7. CASE Restart
    BY <1>1, <2>1, <2>7 DEF TypeOK, Restart, Sweep, Terminal
  <2> QED
    BY <1>1, <2>2, <2>3, <2>4, <2>5, <2>6, <2>7 DEF Next, WorkerStep
<1>2. ASSUME IInv, [Next]_vars
      PROVE  [\A j \in Job : Terminal(j) => status'[j] = status[j]]_vars
  BY <1>1, <1>2
<1> QED
  BY <1>2, Invariance, PTL DEF Spec, TerminalIsFinal

-----------------------------------------------------------------------------
(* Orphans.  An object belongs to a committed row, to an attempt that is      *)
(* still uploading, or to one of the two explained leftovers; between two     *)
(* steps there is no moment at which it is nobody's.                          *)
Owned(o) ==
  \/ <<o[1], o[2]>> \in posts
  \/ item[o[1]][o[2]].at = "uploading" /\ o \in Uploaded(o[1], o[2])
  \/ o \in excused \cup undecoded

OwnerInv == \A o \in objects : Owned(o)

(* Objects that stay keep their owner when rows and leftovers only grow and   *)
(* the item they hang on, if it uploads, goes on doing so.                    *)
LEMMA OwnerKept ==
  ASSUME TypeOK, OwnerInv,
         objects' \subseteq objects, posts \subseteq posts',
         excused \subseteq excused', undecoded \subseteq undecoded',
         \A o \in objects' : item[o[1]][o[2]].at = "uploading" /\ o \in Uploaded(o[1], o[2]) =>
                               Owned(o)'
  PROVE  OwnerInv'
  BY DEF OwnerInv, Owned

LEMMA OwnerItemSteps ==
  ASSUME IInv, OwnerInv, NEW j \in Job, NEW x \in Item, ItemStep(j, x)
  PROVE  OwnerInv'
<1>1. TypeOK /\ item[j][x] \in Future /\ log[j] \in Log /\ NoLog \in Log /\ Waiting \in Future
  BY InitialTypes DEF IInv, TypeOK
<1>2. \A o \in objects : o[1] \in Job /\ o[2] \in Item /\ o[3] \in Nat /\ o = <<o[1], o[2], o[3]>>
  BY <1>1 DEF TypeOK
<1>3. ASSUME NEW rec \in Future, Become(j, x, rec)
      PROVE  \A o \in objects : o[1] # j \/ o[2] # x =>
               /\ item'[o[1]][o[2]] = item[o[1]][o[2]]
               /\ Uploaded(o[1], o[2])' = Uploaded(o[1], o[2])
  BY <1>1, <1>2, <1>3, BecomeType DEF Uploaded
<1>4. ASSUME NEW rec \in Future, Become(j, x, rec), item[j][x].at # "uploading",
             UNCHANGED <<posts, objects, excused, undecoded>>
      PROVE  OwnerInv'
  <2>1. \A o \in objects : item[o[1]][o[2]].at = "uploading" => o[1] # j \/ o[2] # x
    BY <1>4
  <2> QED
    BY <1>1, <1>3, <1>4, <2>1, OwnerKept DEF Owned
<1>5. CASE Skip(j, x)
  <2>1. [Waiting EXCEPT !.at = "ready", !.out = "skipped"] \in Future
    BY <1>1, FutureTypes
  <2> QED
    BY <1>4, <1>5, <2>1 DEF Skip, Admit, hist
<1>6. CASE Start(j, x)
  <2>1. /\ [Waiting EXCEPT !.at = "uploading"] \in Future
        /\ [Waiting EXCEPT !.at = "ready", !.out = "succeeded"] \in Future
        /\ [Waiting EXCEPT !.at = "erred"] \in Future
    BY <1>1, FutureTypes
  <2> QED
    BY <1>4, <1>6, <2>1 DEF Start, Admit, hist
<1>7. CASE Upload(j, x)
  <2> DEFINE n == item[j][x].up + 1
             rec == [item[j][x] EXCEPT !.up = n]
  <2>1. /\ item[j][x].at = "uploading" /\ objects' = objects \cup {<<j, x, n>>}
        /\ UNCHANGED <<posts, excused, undecoded>> /\ Become(j, x, rec)
    BY <1>7 DEF Upload, hist
  <2>2. rec \in Future /\ rec.at = "uploading" /\ rec.up = n /\ n - 1 = item[j][x].up /\ n \in Nat
    <3>1. item[j][x].up \in Nat /\ rec.at = item[j][x].at /\ rec.up = n
      BY <1>1, FutureFields
    <3>2. rec \in Future
      BY <1>1, FutureTypes
    <3> HIDE DEF rec
    <3> QED
      BY <2>1, <3>1, <3>2
  <2>3. item'[j][x] = rec
    BY <1>1, <2>1, <2>2, BecomeType
  <2> HIDE DEF rec
  <2>4. Uploaded(j, x)' = Uploaded(j, x) \cup {<<j, x, n>>}
    BY <1>1, <2>2, <2>3, FutureFields DEF Uploaded
  <2>5. ASSUME NEW o \in objects' PROVE Owned(o)'
    <3>1. CASE o = <<j, x, n>>
      BY <2>2, <2>3, <2>4, <3>1 DEF Owned
    <3>2. CASE o \in objects /\ o[1] = j /\ o[2] = x
      BY <2>1, <2>2, <2>3, <2>4, <3>2 DEF OwnerInv, Owned
    <3>3. CASE o \in objects /\ (o[1] # j \/ o[2] # x)
      BY <1>3, <2>1, <2>2, <3>3 DEF OwnerInv, Owned
    <3> QED
      BY <2>1, <2>5, <3>1, <3>2, <3>3
  <2> QED
    BY <2>5 DEF OwnerInv
<1>8. CASE DecodeFails(j, x)
  <2> DEFINE rec == [item[j][x] EXCEPT !.at = "erred"]
  <2>1. /\ rec \in Future /\ Become(j, x, rec) /\ UNCHANGED <<posts, objects, excused>>
        /\ undecoded' = undecoded \cup Uploaded(j, x)
    BY <1>1, <1>8, FutureTypes DEF DecodeFails
  <2> HIDE DEF rec
  <2>2. ASSUME NEW o \in objects, o \in Uploaded(o[1], o[2]), item[o[1]][o[2]].at = "uploading"
        PROVE  Owned(o)'
    BY <1>3, <2>1, <2>2 DEF Owned
  <2> QED
    BY <1>1, <2>1, <2>2, OwnerKept
<1>9. CASE ImportFails(j, x)
  <2> DEFINE rec == [item[j][x] EXCEPT !.at = "erred"]
  <2>1. PICK kept \in SUBSET Uploaded(j, x) :
          /\ objects' = objects \ (Uploaded(j, x) \ kept)
          /\ excused' = excused \cup kept
          /\ undecoded' = undecoded
    BY <1>9 DEF ImportFails, Rollback
  <2>2. rec \in Future /\ Become(j, x, rec) /\ posts' = posts
    BY <1>1, <1>9, FutureTypes DEF ImportFails
  <2> HIDE DEF rec
  <2>3. ASSUME NEW o \in objects', o \in Uploaded(o[1], o[2]), item[o[1]][o[2]].at = "uploading"
        PROVE  Owned(o)'
    BY <1>3, <2>1, <2>2, <2>3 DEF Owned
  <2> QED
    BY <1>1, <2>1, <2>2, <2>3, OwnerKept
<1>10. CASE Insert(j, x)
  <2> DEFINE rec == [item[j][x] EXCEPT !.at = "ready", !.out = "succeeded"]
  <2>1. rec \in Future /\ Become(j, x, rec)
    BY <1>1, <1>10, FutureTypes DEF Insert
  <2> HIDE DEF rec
  <2>2. posts' = posts \cup {<<j, x>>} /\ UNCHANGED <<objects, excused, undecoded>>
    BY <1>10 DEF Insert, hist
  <2>3. ASSUME NEW o \in objects, o \in Uploaded(o[1], o[2]), item[o[1]][o[2]].at = "uploading"
        PROVE  Owned(o)'
    BY <1>3, <2>1, <2>2, <2>3 DEF Owned
  <2> QED
    BY <1>1, <2>2, <2>3, OwnerKept
<1>11. CASE ReadLog(j, x)
  <2>1. [item[j][x] EXCEPT !.at = "logging", !.seen = log[j]] \in Future
    BY <1>1, FutureTypes
  <2> QED
    BY <1>4, <1>11, <2>1 DEF ReadLog, hist
<1>12. CASE WriteLog(j, x)
  <2>1. [item[j][x] EXCEPT !.at = "ready", !.out = "failed", !.seen = NoLog] \in Future
    BY <1>1, FutureTypes
  <2> QED
    BY <1>4, <1>12, <2>1 DEF WriteLog, hist
<1>13. CASE Consume(j, x)
  <2>1. [item[j][x] EXCEPT !.at = "consumed"] \in Future
    BY <1>1, FutureTypes
  <2> QED
    BY <1>4, <1>13, <2>1 DEF Consume, hist
<1> QED
  BY <1>5, <1>6, <1>7, <1>8, <1>9, <1>10, <1>11, <1>12, <1>13 DEF ItemStep

(* A crash: what was uploading is recorded as left behind.                    *)
LEMMA OwnerRestart == ASSUME IInv, OwnerInv, Restart PROVE OwnerInv'
<1>1. /\ excused' = excused \cup (UNION {Uploaded(a[1], a[2]) : a \in Uploading})
      /\ UNCHANGED <<posts, objects, undecoded>>
  BY DEF Restart
<1>2. ASSUME NEW o \in objects, item[o[1]][o[2]].at = "uploading", o \in Uploaded(o[1], o[2])
      PROVE  Owned(o)'
  <2>1. o[1] \in Job /\ o[2] \in Item
    BY DEF IInv, TypeOK
  <2> DEFINE a == <<o[1], o[2]>>
  <2>2. a \in Uploading /\ o \in Uploaded(a[1], a[2])
    BY <1>2, <2>1 DEF Uploading
  <2> HIDE DEF a
  <2>3. o \in UNION {Uploaded(b[1], b[2]) : b \in Uploading}
    BY <2>2
  <2> QED
    BY <1>1, <2>3 DEF Owned
<1> QED
  BY <1>1, <1>2, OwnerKept DEF IInv

LEMMA OwnerPreserved == ASSUME IInv, OwnerInv, [Next]_vars PROVE OwnerInv'
<1>1. TypeOK
  BY DEF IInv
<1>2. ASSUME UNCHANGED <<posts, objects, excused, undecoded, item>> PROVE OwnerInv'
  BY <1>2 DEF OwnerInv, Owned, Uploaded
<1>3. ASSUME NEW j \in Job, CreateFacebookImport(j) \/ CreateDropped(j) PROVE OwnerInv'
  BY <1>2, <1>3 DEF CreateFacebookImport, CreateDropped, hist
<1>4. ASSUME NEW j \in Job, \/ MarkRunning(j) \/ Scan(j) \/ DedupPosts(j) \/ DedupAlbums(j)
                            \/ WorkerFails(j) \/ StreamEnds(j) \/ FinalFlush(j)
      PROVE  OwnerInv'
  BY <1>2, <1>4
  DEF MarkRunning, Scan, DedupPosts, DedupAlbums, WorkerFails, StreamEnds, FinalFlush, hist
<1>5. ASSUME NEW j \in Job, Finish(j) PROVE OwnerInv'
  <2>1. /\ \A x \in Item : item[j][x].at # "uploading"
        /\ item' = [item EXCEPT ![j] = Fresh]
        /\ UNCHANGED <<posts, objects, excused, undecoded>>
    BY <1>5 DEF IInv, StreamInv, Finish, hist
  <2>2. \A o \in objects : o[1] \in Job /\ o[2] \in Item
    BY <1>1 DEF TypeOK
  <2>3. \A o \in objects : o[1] # j => item'[o[1]] = item[o[1]]
    BY <1>1, <2>1, <2>2 DEF TypeOK
  <2>4. ASSUME NEW o \in objects, item[o[1]][o[2]].at = "uploading", o \in Uploaded(o[1], o[2])
        PROVE  Owned(o)'
    BY <2>1, <2>2, <2>3, <2>4 DEF Owned, Uploaded
  <2> QED
    BY <1>1, <2>1, <2>4, OwnerKept
<1>6. CASE UNCHANGED vars
  BY <1>2, <1>6 DEF vars, hist
<1> QED
  BY <1>3, <1>4, <1>5, <1>6, OwnerItemSteps, OwnerRestart DEF Next, WorkerStep

(* Nothing is left in the store without a row but by a crash, by a delete    *)
(* that failed, or beside an attachment that did not decode.                 *)
THEOREM OrphansAreExplained == Spec => []OrphansExplained
<1>1. Init => OwnerInv
  BY DEF Init, OwnerInv
<1>2. IInv /\ OwnerInv => OrphansExplained
  BY DEF IInv, TypeOK, OwnerInv, Owned, OrphansExplained, Orphan, Uploading
<1> QED
  BY <1>1, <1>2, OwnerPreserved, Invariance, PTL DEF Spec

-----------------------------------------------------------------------------
(* Accounts.  The counters a worker keeps count the outcomes it has taken     *)
(* (TallyInv); an outcome says what became of its item (OutcomeInv); a worker *)
(* has no outcome before its stream and has them all after it (PhaseInv).     *)
(* What follows from the three at the last flush stays on the row.            *)
Consumed(j) == {x \in Item : item[j][x].at = "consumed"}
CountedAs(j, out) == {x \in Consumed(j) : item[j][x].out = out}

TallyOf(j) ==
  /\ tally[j].processed = Cardinality(Consumed(j))
  /\ tally[j].succeeded = Cardinality(CountedAs(j, "succeeded"))
  /\ tally[j].skipped = Cardinality(CountedAs(j, "skipped"))
  /\ tally[j].failed = Cardinality(CountedAs(j, "failed"))
  /\ tally[j].succeeded + tally[j].skipped + tally[j].failed = tally[j].processed

OutcomeOf(j, x) ==
  /\ item[j][x].at \in {"uploading", "erred", "logging"} => x \notin already[j]
  /\ item[j][x].at \in {"ready", "consumed"} =>
       /\ item[j][x].out \in {"succeeded", "skipped", "failed"}
       /\ item[j][x].out = "skipped" <=> x \in already[j]
       /\ item[j][x].out = "succeeded" => <<j, x>> \in posts \/ x \in Empty
       /\ <<j, x>> \in posts => item[j][x].out = "succeeded"

PhaseOf(j) ==
  /\ worker[j] \in {"none", "spawned", "running", "scanned", "postsRead"} =>
       \A x \in Item : item[j][x].at = "waiting"
  /\ worker[j] = "flushing" => \A x \in Item : item[j][x].at = "consumed"

Closed(j) == worker[j] = "succeeded" \/ status[j] = "succeeded"

BookOf(j) ==
  /\ TallyOf(j)
  /\ \A x \in Item : OutcomeOf(j, x)
  /\ PhaseOf(j)
  /\ already[j] \subseteq Imported(Item)
  /\ Closed(j) => Accounts(j)

BookInv == \A j \in Job : BookOf(j)

LEMMA ItemsAreFinite == \A S \in SUBSET Item : IsFiniteSet(S) /\ Cardinality(S) \in Nat
  BY ArchiveIsFinite, FS_Subset, FS_CardinalityType DEF Item

LEMMA FewerItems ==
  ASSUME NEW S \in SUBSET Item, NEW T \in SUBSET S
  PROVE  Cardinality(T) <= Cardinality(S)
  BY ItemsAreFinite, FS_Subset

(* The counters go on counting while no outcome is taken.                     *)
LEMMA TallyKept ==
  ASSUME NEW j \in Job, TallyOf(j),
         tally'[j].processed = tally[j].processed,
         tally'[j].succeeded = tally[j].succeeded,
         tally'[j].skipped = tally[j].skipped,
         tally'[j].failed = tally[j].failed,
         \A x \in Item : item'[j][x].at = "consumed" <=> item[j][x].at = "consumed",
         \A x \in Item : item[j][x].at = "consumed" => item'[j][x].out = item[j][x].out
  PROVE  TallyOf(j)'
<1>1. Consumed(j)' = Consumed(j)
  BY DEF Consumed
<1>2. \A out : CountedAs(j, out)' = CountedAs(j, out)
  BY DEF Consumed, CountedAs
<1> QED
  BY <1>1, <1>2 DEF TallyOf

LEMMA TallyTakes ==
  ASSUME TypeOK, NEW j \in Job, NEW x \in Item, Consume(j, x), TallyOf(j), OutcomeOf(j, x)
  PROVE  TallyOf(j)'
<1> DEFINE rec == [item[j][x] EXCEPT !.at = "consumed"]
           o == item[j][x].out
<1>1. item[j][x] \in Future /\ tally[j] \in Count /\ NoLog \in Log
  BY InitialTypes DEF TypeOK
<1>2. rec \in Future /\ rec.at = "consumed" /\ rec.out = o /\ Become(j, x, rec)
  <2>1. rec \in Future
    BY <1>1, FutureTypes
  <2>2. rec.at = "consumed" /\ rec.out = o
    BY <1>1 DEF Future
  <2>3. Become(j, x, rec)
    BY DEF Consume
  <2> HIDE DEF rec
  <2> QED
    BY <2>1, <2>2, <2>3
<1> HIDE DEF rec
<1>3. \A y \in Item : item'[j][y] = IF y = x THEN rec ELSE item[j][y]
  BY <1>2, BecomeType
<1>4. item[j][x].at = "ready" /\ o \in {"succeeded", "skipped", "failed"}
  BY DEF Consume, OutcomeOf
<1>5. Consumed(j)' = Consumed(j) \cup {x} /\ x \notin Consumed(j)
  BY <1>2, <1>3, <1>4 DEF Consumed
<1>6. \A out : /\ CountedAs(j, out)' = IF out = o THEN CountedAs(j, out) \cup {x} ELSE CountedAs(j, out)
               /\ x \notin CountedAs(j, out)
  <2>1. \A out : x \notin CountedAs(j, out)
    BY <1>5 DEF CountedAs
  <2>2. \A out, y : y \in CountedAs(j, out)' <=>
                      y \in CountedAs(j, out) \/ (y = x /\ out = o)
    BY <1>2, <1>3, <1>5 DEF CountedAs, Consumed
  <2> QED
    BY <2>1, <2>2
<1>7. \A S \in SUBSET Item : x \notin S => Cardinality(S \cup {x}) = Cardinality(S) + 1
  BY ItemsAreFinite, FS_AddElement
<1>8. Consumed(j) \in SUBSET Item /\ \A out : CountedAs(j, out) \in SUBSET Item
  BY DEF Consumed, CountedAs
<1>9. /\ Cardinality(Consumed(j))' = Cardinality(Consumed(j)) + 1
      /\ \A out : Cardinality(CountedAs(j, out)') =
                    Cardinality(CountedAs(j, out)) + (IF out = o THEN 1 ELSE 0)
  <2>1. \A out : Cardinality(CountedAs(j, out)) \in Nat
    BY <1>8, ItemsAreFinite
  <2> QED
    BY <1>5, <1>6, <1>7, <1>8, <2>1
<1>10. /\ tally[j].processed \in Nat /\ tally[j].succeeded \in Nat
       /\ tally[j].skipped \in Nat /\ tally[j].failed \in Nat
  BY <1>1 DEF Count
<1>11. tally'[j] = Counted(tally[j], o)
  BY DEF TypeOK, Consume
<1>12. /\ tally'[j].processed = tally[j].processed + 1
       /\ tally'[j].succeeded = IF o = "succeeded" THEN tally[j].succeeded + 1 ELSE tally[j].succeeded
       /\ tally'[j].skipped = IF o = "skipped" THEN tally[j].skipped + 1 ELSE tally[j].skipped
       /\ tally'[j].failed = IF o = "failed" THEN tally[j].failed + 1 ELSE tally[j].failed
  BY <1>1, <1>11 DEF Counted, Count
<1>13. /\ tally'[j].processed = Cardinality(Consumed(j))'
       /\ tally'[j].succeeded = Cardinality(CountedAs(j, "succeeded")')
       /\ tally'[j].skipped = Cardinality(CountedAs(j, "skipped")')
       /\ tally'[j].failed = Cardinality(CountedAs(j, "failed")')
  BY <1>9, <1>10, <1>12 DEF TallyOf
<1>14. tally'[j].succeeded + tally'[j].skipped + tally'[j].failed = tally'[j].processed
  BY <1>4, <1>10, <1>12 DEF TallyOf
<1> QED
  BY <1>13, <1>14 DEF TallyOf

(* What is on the row of a job that is done stays true while its own rows     *)
(* stay as they are and the rows of others only grow.                         *)
LEMMA AccountsKept ==
  ASSUME NEW j \in Job, Accounts(j), progress'[j] = progress[j], already'[j] = already[j],
         posts \subseteq posts',
         \A x \in Item : <<j, x>> \in posts' => <<j, x>> \in posts,
         progress[j].failed \in Nat
  PROVE  Accounts(j)'
<1>1. {x \in Item : <<j, x>> \in posts}' = {x \in Item : <<j, x>> \in posts}
  OBVIOUS
<1> DEFINE missing == (Item \ Empty) \ Imported(Item)
<1>2. missing \in SUBSET Item /\ missing' \in SUBSET missing
  BY DEF Imported
<1>3. Cardinality(missing') <= Cardinality(missing)
  BY <1>2, FewerItems
<1>4. Cardinality(missing) \in Nat /\ Cardinality(missing') \in Nat
  BY <1>2, ItemsAreFinite
<1>5. Cardinality(missing) <= progress[j].failed
  BY DEF Accounts
<1>6. Cardinality(missing') <= progress[j].failed
  <2> HIDE DEF missing
  <2> QED BY <1>3, <1>4, <1>5
<1> QED
  BY <1>1, <1>6 DEF Accounts

LEMMA Untouched ==
  ASSUME TypeOK, NEW j \in Job, BookOf(j),
         status'[j] = status[j], worker'[j] = worker[j], item'[j] = item[j],
         tally'[j] = tally[j], progress'[j] = progress[j], already'[j] = already[j],
         posts \subseteq posts',
         \A x \in Item : <<j, x>> \in posts' => <<j, x>> \in posts
  PROVE  BookOf(j)'
<1>1. TallyOf(j)'
  BY TallyKept DEF BookOf
<1>2. \A x \in Item : OutcomeOf(j, x)'
  BY DEF BookOf, OutcomeOf
<1>3. PhaseOf(j)' /\ already'[j] \subseteq Imported(Item)'
  BY DEF BookOf, PhaseOf, Imported
<1>4. progress[j].failed \in Nat
  BY DEF TypeOK, Count
<1>5. Closed(j)' => Accounts(j)'
  BY <1>4, AccountsKept DEF BookOf, Closed
<1> QED
  BY <1>1, <1>2, <1>3, <1>5 DEF BookOf

(* The last flush writes counters that account for every item.               *)
LEMMA FlushAccounts ==
  ASSUME IInv, NEW j \in Job, BookOf(j), FinalFlush(j)
  PROVE  Accounts(j)'
<1> DEFINE t == tally[j]
           mine == {x \in Item : <<j, x>> \in posts}
           missing == (Item \ Empty) \ Imported(Item)
<1>1. TypeOK /\ t \in Count
  BY DEF IInv, TypeOK
<1>2. progress'[j] = t /\ UNCHANGED <<posts, already>>
  BY <1>1 DEF FinalFlush, TypeOK
<1>3. \A x \in Item : item[j][x].at = "consumed"
  BY DEF BookOf, PhaseOf, FinalFlush
<1>4. /\ Consumed(j) = Item
      /\ CountedAs(j, "skipped") = already[j]
      /\ mine \in SUBSET CountedAs(j, "succeeded")
      /\ CountedAs(j, "succeeded") \in SUBSET (mine \cup Empty)
      /\ missing \in SUBSET CountedAs(j, "failed")
  <2>1. Consumed(j) = Item
    BY <1>3 DEF Consumed
  <2>2. \A x \in Item :
          /\ item[j][x].out \in {"succeeded", "skipped", "failed"}
          /\ item[j][x].out = "skipped" <=> x \in already[j]
          /\ item[j][x].out = "succeeded" => <<j, x>> \in posts \/ x \in Empty
          /\ <<j, x>> \in posts => item[j][x].out = "succeeded"
    BY <1>3 DEF BookOf, OutcomeOf
  <2>3. already[j] \in SUBSET Item /\ already[j] \subseteq Imported(Item)
    BY <1>1 DEF TypeOK, BookOf
  <2>4. CountedAs(j, "skipped") = already[j]
    BY <2>1, <2>2, <2>3 DEF CountedAs
  <2>5. mine \in SUBSET CountedAs(j, "succeeded")
    BY <2>1, <2>2 DEF CountedAs
  <2>6. CountedAs(j, "succeeded") \in SUBSET (mine \cup Empty)
    BY <2>1, <2>2 DEF CountedAs
  <2>7. missing \in SUBSET CountedAs(j, "failed")
    BY <2>1, <2>2, <2>3 DEF CountedAs, Imported
  <2> QED
    BY <2>1, <2>4, <2>5, <2>6, <2>7
<1>5. mine \cup Empty \in SUBSET Item /\ \A out : CountedAs(j, out) \in SUBSET Item
  BY ItemsHaveMedia DEF CountedAs, Consumed
<1>6. /\ Cardinality(mine) <= Cardinality(CountedAs(j, "succeeded"))
      /\ Cardinality(CountedAs(j, "succeeded")) <= Cardinality(mine \cup Empty)
      /\ Cardinality(missing) <= Cardinality(CountedAs(j, "failed"))
  <2> HIDE DEF mine, missing
  <2> QED BY <1>4, <1>5, FewerItems
<1>7. /\ t.processed = Cardinality(Item) /\ t.skipped = Cardinality(already[j])
      /\ t.succeeded + t.skipped + t.failed = t.processed
      /\ Cardinality(mine) <= t.succeeded
      /\ t.succeeded <= Cardinality(mine \cup Empty)
      /\ Cardinality(missing) <= t.failed
  <2> HIDE DEF mine, missing
  <2> QED BY <1>4, <1>6 DEF BookOf, TallyOf
<1>8. {x \in Item : <<j, x>> \in posts'} = mine /\ Imported(Item)' = Imported(Item)
  BY <1>2 DEF Imported
<1> QED
  BY <1>2, <1>7, <1>8 DEF Accounts

(* The worker's own steps.                                                    *)
LEMMA BookWorkerSteps ==
  ASSUME IInv, NEW j \in Job, BookOf(j),
         \/ MarkRunning(j) \/ Scan(j) \/ DedupPosts(j) \/ DedupAlbums(j)
         \/ WorkerFails(j) \/ StreamEnds(j) \/ FinalFlush(j)
         \/ CreateFacebookImport(j) \/ CreateDropped(j)
  PROVE  BookOf(j)'
<1>1. TypeOK
  BY DEF IInv
<1>2. /\ UNCHANGED <<item, posts>>
      /\ worker'[j] \in {"spawned", "gone", "running", "scanned", "postsRead", "importing",
                         "failed", "flushing", "succeeded"}
  BY <1>1 DEF TypeOK, MarkRunning, Scan, DedupPosts, DedupAlbums, WorkerFails, StreamEnds,
              FinalFlush, CreateFacebookImport, CreateDropped, hist, row
<1>3. TallyOf(j)'
  <2>1. /\ tally'[j].processed = tally[j].processed /\ tally'[j].succeeded = tally[j].succeeded
        /\ tally'[j].skipped = tally[j].skipped /\ tally'[j].failed = tally[j].failed
    <3>1. CASE tally' = tally
      BY <3>1
    <3>2. CASE Scan(j)
      <4>1. tally[j] \in Count /\ tally'[j] = [tally[j] EXCEPT !.total = Cardinality(Item)]
        BY <1>1, <3>2 DEF Scan, TypeOK
      <4> QED
        BY <4>1 DEF Count
    <3> QED
      BY <3>1, <3>2 DEF MarkRunning, DedupPosts, DedupAlbums, WorkerFails, StreamEnds,
              FinalFlush, CreateFacebookImport, CreateDropped
  <2> QED
    BY <1>2, <2>1, TallyKept DEF BookOf
<1>4. /\ \A x \in Item : OutcomeOf(j, x)'
      /\ already'[j] \subseteq Imported(Item)'
  <2>1. CASE already' = already
    BY <1>2, <2>1 DEF BookOf, OutcomeOf, Imported
  <2>2. CASE DedupPosts(j) \/ DedupAlbums(j)
    <3>1. \A x \in Item : item[j][x].at = "waiting"
      BY <2>2 DEF BookOf, PhaseOf, DedupPosts, DedupAlbums
    <3>2. already'[j] \subseteq Imported(Item)
      <4>1. Imported(Post) \subseteq Imported(Item) /\ Imported(Album) \subseteq Imported(Item)
        BY DEF Imported, Item
      <4>2. already'[j] = Imported(Post) \/ already'[j] = already[j] \cup Imported(Album)
        BY <1>1, <2>2 DEF TypeOK, DedupPosts, DedupAlbums
      <4> QED
        BY <4>1, <4>2 DEF BookOf
    <3> QED
      BY <1>2, <3>1, <3>2 DEF OutcomeOf, Imported
  <2> QED
    BY <2>1, <2>2 DEF MarkRunning, Scan, WorkerFails, StreamEnds, FinalFlush,
                      CreateFacebookImport, CreateDropped
<1>5. PhaseOf(j)'
  <2>1. CASE StreamEnds(j)
    BY <1>1, <1>2, <2>1 DEF StreamEnds, PhaseOf, TypeOK
  <2>2. CASE ~StreamEnds(j)
    <3>1. /\ worker'[j] # "flushing"
          /\ worker'[j] \in {"spawned", "running", "scanned", "postsRead"} =>
               worker[j] \in {"none", "spawned", "running", "scanned"}
      BY <1>1, <2>2 DEF TypeOK, MarkRunning, Scan, DedupPosts, DedupAlbums, WorkerFails,
              FinalFlush, CreateFacebookImport, CreateDropped
    <3> QED
      BY <1>2, <3>1 DEF BookOf, PhaseOf
  <2> QED
    BY <2>1, <2>2
<1>6. Closed(j)' => Accounts(j)'
  <2>1. CASE FinalFlush(j)
    BY <2>1, FlushAccounts
  <2>2. CASE ~FinalFlush(j)
    <3>1. worker[j] # "gone" /\ worker'[j] # "succeeded"
      BY <1>1, <2>2 DEF TypeOK, MarkRunning, Scan, DedupPosts, DedupAlbums, WorkerFails, StreamEnds,
              CreateFacebookImport, CreateDropped
    <3>2. status[j] # "succeeded" /\ status'[j] # "succeeded"
      BY <1>1, <2>2, <3>1 DEF IInv, StatusInv, Terminal, TypeOK, MarkRunning, Scan, DedupPosts,
              DedupAlbums, WorkerFails, StreamEnds, CreateFacebookImport, CreateDropped, row
    <3> QED
      BY <3>1, <3>2 DEF Closed
  <2> QED
    BY <2>1, <2>2
<1> QED
  BY <1>3, <1>4, <1>5, <1>6 DEF BookOf

(* A worker that leaves, of itself or with its process: nothing is under way. *)
LEMMA EmptyTally ==
  ASSUME NEW j \in Job, item'[j] = Fresh, tally'[j] = NoCount
  PROVE  TallyOf(j)' /\ \A x \in Item : OutcomeOf(j, x)'
<1>1. \A x \in Item : item'[j][x].at = "waiting"
  BY WaitingIs
<1>2. Consumed(j)' = {} /\ \A out : CountedAs(j, out)' = {}
  BY <1>1 DEF Consumed, CountedAs
<1>3. TallyOf(j)'
  BY <1>2, FS_EmptySet DEF TallyOf, NoCount
<1> QED
  BY <1>1, <1>3 DEF OutcomeOf

LEMMA BookFinish ==
  ASSUME IInv, NEW j \in Job, BookOf(j), Finish(j)
  PROVE  BookOf(j)'
<1>1. TypeOK /\ progress[j].failed \in Nat
  BY DEF IInv, TypeOK, Count
<1>2. /\ item'[j] = Fresh /\ tally'[j] = NoCount /\ worker'[j] = "gone"
      /\ worker[j] \in {"succeeded", "failed"}
      /\ status'[j] \in {status[j], worker[j]}
      /\ UNCHANGED <<progress, posts, already>>
  BY <1>1 DEF Finish, TypeOK, hist
<1>3. Closed(j)' => Closed(j)
  BY <1>2 DEF Closed
<1> QED
  BY <1>1, <1>2, <1>3, EmptyTally, AccountsKept DEF BookOf, PhaseOf, Imported

LEMMA BookRestart ==
  ASSUME IInv, NEW j \in Job, BookOf(j), Restart
  PROVE  BookOf(j)'
<1>1. TypeOK /\ progress[j].failed \in Nat
  BY DEF IInv, TypeOK, Count
<1>2. /\ item'[j] = Fresh /\ tally'[j] = NoCount
      /\ worker'[j] \in {"none", "gone"}
      /\ status'[j] \in {status[j], "failed"}
      /\ UNCHANGED <<progress, posts, already>>
  BY <1>1 DEF Restart, Sweep, TypeOK, Alive
<1>3. Closed(j)' => Closed(j)
  BY <1>2 DEF Closed
<1> QED
  BY <1>1, <1>2, <1>3, EmptyTally, AccountsKept, WaitingIs DEF BookOf, PhaseOf, Imported

(* A step of an item's future that takes no outcome: it is enough that the    *)
(* outcome it may come to says what became of the item.                       *)
LEMMA BookItemStep ==
  ASSUME IInv, NEW j \in Job, BookOf(j), NEW x \in Item, NEW rec \in Future, Become(j, x, rec),
         item[j][x].at # "consumed", rec.at # "consumed", worker[j] = "importing",
         UNCHANGED <<status, progress, worker, already, tally>>,
         posts \subseteq posts',
         \A y \in Item \ {x} : <<j, y>> \in posts' => <<j, y>> \in posts,
         OutcomeOf(j, x)'
  PROVE  BookOf(j)'
<1>1. TypeOK /\ \A y \in Item : item'[j][y] = IF y = x THEN rec ELSE item[j][y]
  BY BecomeType DEF IInv
<1>2. TallyOf(j)'
  BY <1>1, TallyKept DEF BookOf
<1>3. ASSUME NEW y \in Item PROVE OutcomeOf(j, y)'
  <2>1. CASE y # x
    BY <1>1, <2>1 DEF BookOf, OutcomeOf
  <2> QED
    BY <2>1
<1>4. PhaseOf(j)' /\ already'[j] \subseteq Imported(Item)'
  BY DEF BookOf, PhaseOf, Imported
<1>5. ~Closed(j)'
  BY DEF IInv, StatusInv, Terminal, Closed
<1> QED
  BY <1>2, <1>3, <1>4, <1>5 DEF BookOf

(* The outcome an item's new state can come to.                               *)
LEMMA OutcomeBecomes ==
  ASSUME TypeOK, NEW j \in Job, NEW x \in Item, NEW rec \in Future, Become(j, x, rec),
         already' = already,
         rec.at \in {"uploading", "erred", "logging"} => x \notin already[j],
         rec.at \in {"ready", "consumed"} =>
           /\ rec.out \in {"succeeded", "skipped", "failed"}
           /\ rec.out = "skipped" <=> x \in already[j]
           /\ rec.out = "succeeded" => <<j, x>> \in posts' \/ x \in Empty
           /\ <<j, x>> \in posts' => rec.out = "succeeded"
  PROVE  OutcomeOf(j, x)'
<1>1. item'[j][x] = rec
  BY BecomeType
<1> QED
  BY <1>1 DEF OutcomeOf

LEMMA BookItemSteps ==
  ASSUME IInv, NEW j \in Job, BookOf(j), NEW x \in Item, ItemStep(j, x)
  PROVE  BookOf(j)'
<1> DEFINE f == item[j][x]
<1>1. /\ TypeOK /\ f \in Future /\ log[j] \in Log /\ NoLog \in Log /\ Waiting \in Future
      /\ OutcomeOf(j, x)
  BY InitialTypes DEF IInv, TypeOK, BookOf
<1>2. worker[j] = "importing" /\ (f.at \notin {"ready", "consumed"} => <<j, x>> \notin posts)
  <2>1. worker[j] = "importing"
    BY UnderWay DEF ItemStep, Skip, Start, Admit, Upload, DecodeFails, ImportFails, Insert, ReadLog,
                    WriteLog, Consume
  <2> QED
    BY <2>1 DEF IInv, RowInv
<1>3. CASE Skip(j, x)
  <2> DEFINE rec == [Waiting EXCEPT !.at = "ready", !.out = "skipped"]
  <2>1. rec \in Future /\ rec.at = "ready" /\ rec.out = "skipped"
    BY <1>1, FutureTypes DEF Waiting
  <2> HIDE DEF rec
  <2>2. /\ Become(j, x, rec) /\ f.at = "waiting" /\ x \in already[j]
        /\ UNCHANGED <<status, progress, posts, worker, already, tally>>
    BY <1>3 DEF rec, Skip, Admit, row
  <2>3. OutcomeOf(j, x)'
    BY <1>1, <1>2, <2>1, <2>2, OutcomeBecomes
  <2> QED
    BY <1>2, <2>1, <2>2, <2>3, BookItemStep
<1>4. CASE Start(j, x)
  <2>1. PICK rec \in Future :
          /\ Become(j, x, rec)
          /\ \/ rec.at \in {"uploading", "erred"}
             \/ rec.at = "ready" /\ rec.out = "succeeded" /\ x \in Empty
    <3> DEFINE a == [Waiting EXCEPT !.at = "uploading"]
               b == [Waiting EXCEPT !.at = "ready", !.out = "succeeded"]
               c == [Waiting EXCEPT !.at = "erred"]
    <3>1. a \in Future /\ b \in Future /\ c \in Future
      BY <1>1, FutureTypes
    <3>2. a.at = "uploading" /\ b.at = "ready" /\ b.out = "succeeded" /\ c.at = "erred"
      BY DEF Waiting
    <3>3. Become(j, x, a) \/ (x \in Empty /\ Become(j, x, b)) \/ Become(j, x, c)
      BY <1>4 DEF Start
    <3> HIDE DEF a, b, c
    <3> QED
      BY <3>1, <3>2, <3>3
  <2>2. /\ f.at = "waiting" /\ x \notin already[j]
        /\ UNCHANGED <<status, progress, posts, worker, already, tally>>
    BY <1>4 DEF Start, Admit, row
  <2>3. OutcomeOf(j, x)'
    BY <1>1, <1>2, <2>1, <2>2, OutcomeBecomes
  <2> QED
    BY <1>2, <2>1, <2>2, <2>3, BookItemStep
<1>5. ASSUME NEW rec \in Future, Become(j, x, rec), f.at \in {"uploading", "erred"},
             rec.at \in {"uploading", "erred", "logging"},
             UNCHANGED <<status, progress, posts, worker, already, tally>>
      PROVE  BookOf(j)'
  <2>1. x \notin already[j]
    BY <1>1, <1>5 DEF OutcomeOf
  <2>2. OutcomeOf(j, x)'
    BY <1>1, <1>5, <2>1, OutcomeBecomes
  <2> QED
    BY <1>2, <1>5, <2>2, BookItemStep
<1>6. CASE Upload(j, x)
  <2> DEFINE rec == [f EXCEPT !.up = f.up + 1]
  <2>1. rec \in Future /\ rec.at = f.at
    BY <1>1, FutureTypes, FutureFields
  <2> HIDE DEF rec
  <2>2. /\ Become(j, x, rec) /\ f.at = "uploading"
        /\ UNCHANGED <<status, progress, posts, worker, already, tally>>
    BY <1>6 DEF rec, Upload, row
  <2> QED
    BY <1>5, <2>1, <2>2
<1>7. CASE DecodeFails(j, x) \/ ImportFails(j, x)
  <2> DEFINE rec == [f EXCEPT !.at = "erred"]
  <2>1. rec \in Future /\ rec.at = "erred"
    BY <1>1, FutureTypes, FutureFields
  <2> HIDE DEF rec
  <2>2. /\ Become(j, x, rec) /\ f.at = "uploading"
        /\ UNCHANGED <<status, progress, posts, worker, already, tally>>
    BY <1>7 DEF rec, DecodeFails, ImportFails, row
  <2> QED
    BY <1>5, <2>1, <2>2
<1>8. CASE ReadLog(j, x)
  <2> DEFINE rec == [f EXCEPT !.at = "logging", !.seen = log[j]]
  <2>1. rec \in Future /\ rec.at = "logging"
    BY <1>1, FutureTypes, FutureFields
  <2> HIDE DEF rec
  <2>2. /\ Become(j, x, rec) /\ f.at = "erred"
        /\ UNCHANGED <<status, progress, posts, worker, already, tally>>
    BY <1>8 DEF rec, ReadLog, row
  <2> QED
    BY <1>5, <2>1, <2>2
<1>9. CASE Insert(j, x)
  <2> DEFINE rec == [f EXCEPT !.at = "ready", !.out = "succeeded"]
  <2>1. rec \in Future
    BY <1>1, FutureTypes
  <2>2. rec.at = "ready" /\ rec.out = "succeeded"
    BY <1>1 DEF Future
  <2> HIDE DEF rec
  <2>3. /\ Become(j, x, rec) /\ f.at = "uploading" /\ posts' = posts \cup {<<j, x>>}
        /\ UNCHANGED <<status, progress, worker, already, tally>>
    BY <1>9 DEF rec, Insert, row
  <2>4. x \notin already[j]
    BY <1>1, <2>3 DEF OutcomeOf
  <2>5. OutcomeOf(j, x)'
    BY <1>1, <2>1, <2>2, <2>3, <2>4, OutcomeBecomes
  <2> QED
    BY <1>2, <2>1, <2>2, <2>3, <2>5, BookItemStep
<1>10. CASE WriteLog(j, x)
  <2> DEFINE rec == [f EXCEPT !.at = "ready", !.out = "failed", !.seen = NoLog]
  <2>1. rec \in Future
    BY <1>1, FutureTypes
  <2>2. rec.at = "ready" /\ rec.out = "failed"
    BY <1>1 DEF Future
  <2> HIDE DEF rec
  <2>3. /\ Become(j, x, rec) /\ f.at = "logging"
        /\ UNCHANGED <<status, progress, posts, worker, already, tally>>
    BY <1>10 DEF rec, WriteLog
  <2>4. x \notin already[j] /\ <<j, x>> \notin posts
    BY <1>1, <1>2, <2>3 DEF OutcomeOf
  <2>5. OutcomeOf(j, x)'
    BY <1>1, <2>1, <2>2, <2>3, <2>4, OutcomeBecomes
  <2> QED
    BY <1>2, <2>1, <2>2, <2>3, <2>5, BookItemStep
<1>11. CASE Consume(j, x)
  <2> DEFINE rec == [f EXCEPT !.at = "consumed"]
  <2>1. rec \in Future
    BY <1>1, FutureTypes
  <2>2. rec.at = "consumed" /\ rec.out = f.out
    BY <1>1 DEF Future
  <2> HIDE DEF rec
  <2>3. /\ Become(j, x, rec) /\ f.at = "ready"
        /\ UNCHANGED <<status, posts, worker, already>>
    BY <1>11 DEF rec, Consume
  <2>4. TallyOf(j)'
    BY <1>1, <1>11, TallyTakes DEF BookOf
  <2>5. OutcomeOf(j, x)'
    <3> HIDE DEF f
    <3>1. /\ f.out \in {"succeeded", "skipped", "failed"}
          /\ f.out = "skipped" <=> x \in already[j]
          /\ f.out = "succeeded" => <<j, x>> \in posts \/ x \in Empty
          /\ <<j, x>> \in posts => f.out = "succeeded"
      BY <1>1, <2>3 DEF OutcomeOf, f
    <3> QED
      BY <1>1, <2>1, <2>2, <2>3, <3>1, OutcomeBecomes
  <2>6. \A y \in Item \ {x} : item'[j][y] = item[j][y]
    BY <1>1, <2>1, <2>3, BecomeType
  <2>7. ASSUME NEW y \in Item PROVE OutcomeOf(j, y)'
    <3>1. CASE y # x
      BY <2>3, <2>6, <3>1 DEF BookOf, OutcomeOf
    <3> QED
      BY <2>5, <3>1
  <2>8. PhaseOf(j)' /\ already'[j] \subseteq Imported(Item)' /\ ~Closed(j)'
    BY <1>2, <2>3 DEF BookOf, PhaseOf, Imported, IInv, StatusInv, Terminal, Closed
  <2> QED
    BY <2>4, <2>7, <2>8 DEF BookOf
<1> QED
  BY <1>3, <1>4, <1>6, <1>7, <1>8, <1>9, <1>10, <1>11 DEF ItemStep

(* A step of one job leaves the books of the others as they are.              *)
LEMMA BookOfOthers ==
  ASSUME IInv, NEW j \in Job, NEW k \in Job, k # j, BookOf(k),
         CreateFacebookImport(j) \/ CreateDropped(j) \/ WorkerStep(j)
  PROVE  BookOf(k)'
<1>1. TypeOK
  BY DEF IInv
<1>2. \/ posts' = posts
      \/ \E x \in Item : posts' = posts \cup {<<j, x>>}
  BY DEF CreateFacebookImport, CreateDropped, WorkerStep, MarkRunning, Scan, DedupPosts, DedupAlbums,
         WorkerFails, StreamEnds, FinalFlush, Finish, ItemStep, Skip, Start, Upload, DecodeFails,
         ImportFails, Insert, ReadLog, WriteLog, Consume
<1>3. item'[k] = item[k]
  BY <1>1 DEF TypeOK, Become, CreateFacebookImport, CreateDropped, WorkerStep, MarkRunning, Scan,
         DedupPosts, DedupAlbums, WorkerFails, StreamEnds, FinalFlush, Finish, ItemStep, Skip, Start,
         Upload, DecodeFails, ImportFails, Insert, ReadLog, WriteLog, Consume
<1>4. status'[k] = status[k] /\ worker'[k] = worker[k] /\ already'[k] = already[k]
  BY <1>1 DEF TypeOK, CreateFacebookImport, CreateDropped, WorkerStep, MarkRunning, Scan,
         DedupPosts, DedupAlbums, WorkerFails, StreamEnds, FinalFlush, Finish, ItemStep, Skip, Start,
         Upload, DecodeFails, ImportFails, Insert, ReadLog, WriteLog, Consume, row
<1>5. tally'[k] = tally[k] /\ progress'[k] = progress[k]
  BY <1>1 DEF TypeOK, CreateFacebookImport, CreateDropped, WorkerStep, MarkRunning, Scan,
         DedupPosts, DedupAlbums, WorkerFails, StreamEnds, FinalFlush, Finish, ItemStep, Skip, Start,
         Upload, DecodeFails, ImportFails, Insert, ReadLog, WriteLog, Consume, row
<1> QED
  BY <1>1, <1>2, <1>3, <1>4, <1>5, Untouched

LEMMA BookPreserved == ASSUME IInv, BookInv, [Next]_vars PROVE BookInv'
<1> SUFFICES ASSUME NEW k \in Job PROVE BookOf(k)'
  BY DEF BookInv
<1>1. BookOf(k) /\ TypeOK
  BY DEF BookInv, IInv
<1>2. CASE UNCHANGED vars
  BY <1>1, <1>2, Untouched DEF vars, row
<1>3. CASE Restart
  BY <1>1, <1>3, BookRestart
<1>4. ASSUME NEW j \in Job, CreateFacebookImport(j) \/ CreateDropped(j) \/ WorkerStep(j)
      PROVE  BookOf(k)'
  <2>1. CASE k = j
    BY <1>1, <1>4, <2>1, BookWorkerSteps, BookItemSteps, BookFinish DEF WorkerStep
  <2> QED
    BY <1>1, <1>4, <2>1, BookOfOthers
<1> QED
  BY <1>2, <1>3, <1>4 DEF Next

LEMMA InitBooks == Init => BookInv
<1> SUFFICES ASSUME Init, NEW j \in Job PROVE BookOf(j)
  BY DEF BookInv
<1>1. \A x \in Item : item[j][x].at = "waiting"
  BY WaitingIs DEF Init
<1>2. Consumed(j) = {} /\ \A out : CountedAs(j, out) = {}
  BY <1>1 DEF Consumed, CountedAs
<1>3. TallyOf(j)
  BY <1>2, FS_EmptySet DEF Init, TallyOf, NoCount
<1> QED
  BY <1>1, <1>3 DEF Init, BookOf, OutcomeOf, PhaseOf, Closed

(* A job that ended well accounts for every item of its archive, whatever    *)
(* ran beside it and whatever came after it.                                 *)
THEOREM SuccessAccounts == Spec => []SucceededAccounts
<1>1. BookInv => SucceededAccounts
  BY DEF BookInv, BookOf, Closed, SucceededAccounts
<1> QED
  BY <1>1, InitBooks, BookPreserved, Invariance, PTL DEF Spec

-----------------------------------------------------------------------------
(* Archive.tla, for any archive that grows between any number of uploads.  An    *)
(* upload keeps what it meets whatever came before it; that an album is not       *)
(* imported again rests on its key, which is the one of its first picture, and on  *)
(* that picture being the oldest (AlbumsOk, KeysStay).                          *)

Photo == [uri : Uri, at : Time]
Manifest == [name : Text, touched : Time, photos : Seq(Photo)]

(* An album has a picture, and none older than the first.                     *)
Grown(a) == a.photos # <<>> /\ \A i \in DOMAIN a.photos : a.photos[1].at =< a.photos[i].at

AlbumsOk == albums \in Seq(Manifest) /\ \A n \in DOMAIN albums : Grown(albums[n])

NameAt(a, at) == IF Parsing!Trimmed(a.name) = Parsing!Nothing THEN Parsing!Untitled(at) ELSE Parsing!Trimmed(a.name)

Key(a) == Parsing!ExternalId(Parsing!AlbumDate(a), Parsing!AlbumName(a), Parsing!Uris(a))

(* An album whose first picture is dated keeps the key it was imported with.   *)
KeysStay ==
  \A r \in rows : r.kind = "album" =>
    /\ r.of \in DOMAIN albums
    /\ albums[r.of].photos[1].at # 0 => r.id = Key(albums[r.of])

ArchiveInv == AlbumsOk /\ KeysStay /\ Parsing!AlbumsOnce

(* What is in a list of albums, and in an album.                              *)
LEMMA ManifestOfAlbum ==
  ASSUME NEW s \in Seq(Manifest), NEW n \in DOMAIN s
  PROVE  s[n] \in Manifest
OBVIOUS

LEMMA PhotoOfAlbum ==
  ASSUME NEW a \in Manifest
  PROVE  /\ a.photos \in Seq(Photo) /\ a.name \in Text /\ a.touched \in Time
         /\ \A i \in DOMAIN a.photos : a.photos[i] \in Photo /\ a.photos[i].at \in Nat
<1>1. a.photos \in Seq(Photo) /\ a.name \in Text /\ a.touched \in Time
  BY DEF Manifest
<1>2. \A i \in DOMAIN a.photos : a.photos[i] \in Photo
  BY <1>1
<1>3. \A p \in Photo : p.at \in Nat
  BY DatesAreNumbers DEF Photo
<1> QED BY <1>1, <1>2, <1>3

(* The key of an album whose first picture is dated.                          *)
LEMMA KeyOfDated ==
  ASSUME NEW a \in Manifest, Grown(a), a.photos[1].at # 0
  PROVE  Key(a) = <<a.photos[1].at,
                    NameAt(a, a.photos[1].at),
                    <<a.photos[1].uri>> >>
<1> DEFINE first == a.photos[1].at
<1>2. 1 \in DOMAIN a.photos
  BY PhotoOfAlbum DEF Grown
<1>3. \A i \in DOMAIN a.photos : a.photos[i].at \in Nat /\ first =< a.photos[i].at
  BY PhotoOfAlbum DEF Grown
<1>4. first \in Parsing!Dates(a) /\ \A d \in Parsing!Dates(a) : d \in Nat /\ first =< d
  BY <1>2, <1>3 DEF Parsing!Dates
<1>5. Parsing!Min(Parsing!Dates(a)) = first
  <2>1. \A x \in Parsing!Dates(a) : (\A y \in Parsing!Dates(a) : x =< y) => x = first
    BY <1>4
  <2> QED BY <1>4, <2>1 DEF Parsing!Min
<1>6. /\ Parsing!AlbumDate(a) = first
      /\ Parsing!AlbumName(a) = NameAt(a, first)
  BY <1>4, <1>5 DEF Parsing!AlbumDate, Parsing!AlbumName, NameAt
<1>7. Parsing!Uris(a) # <<>> /\ Parsing!Uris(a)[1] = a.photos[1].uri
  BY <1>2 DEF Parsing!Uris
<1> QED
  BY <1>6, <1>7 DEF Key, Parsing!ExternalId

(* Whatever the user does to albums, they keep their names and first pictures.  *)
LEMMA KeysKept ==
  ASSUME AlbumsOk, AlbumsOk', KeysStay, Parsing!AlbumsOnce, UNCHANGED rows,
         \A n \in DOMAIN albums :
           /\ n \in DOMAIN albums'
           /\ albums'[n].name = albums[n].name /\ albums'[n].photos[1] = albums[n].photos[1]
  PROVE  KeysStay' /\ Parsing!AlbumsOnce'
<1>1. \A n \in DOMAIN albums : albums[n].photos[1].at # 0 => Key(albums'[n]) = Key(albums[n])
  <2> SUFFICES ASSUME NEW n \in DOMAIN albums, albums[n].photos[1].at # 0
               PROVE  Key(albums'[n]) = Key(albums[n])
    OBVIOUS
  <2>1. albums[n] \in Manifest /\ Grown(albums[n]) /\ albums'[n] \in Manifest /\ Grown(albums'[n])
    BY ManifestOfAlbum DEF AlbumsOk
  <2>2. albums'[n].photos[1].at # 0
    OBVIOUS
  <2> QED BY <2>1, <2>2, KeyOfDated DEF NameAt
<1>2. KeysStay'
  BY <1>1 DEF KeysStay
<1>3. Parsing!AlbumsOnce'
  BY <1>2 DEF Parsing!AlbumsOnce, KeysStay
<1> QED BY <1>2, <1>3

(* The user's steps, one by one.                                             *)
LEMMA PostWritten ==
  ASSUME ArchiveInv, Parsing!NothingLost, NEW at, NEW text, NEW uris, Parsing!WritePost(at, text, uris)
  PROVE  ArchiveInv' /\ Parsing!NothingLost'
<1>1. UNCHANGED <<albums, rows, met, outgrown>>
  BY DEF Parsing!WritePost, Parsing!Works
<1> QED BY <1>1 DEF ArchiveInv, AlbumsOk, KeysStay, Parsing!AlbumsOnce, Parsing!NothingLost

LEMMA AlbumStarted ==
  ASSUME ArchiveInv, Parsing!NothingLost, NEW name \in Text, NEW u \in Uri, NEW at \in Time, NEW touched \in Time,
         Parsing!StartAlbum(name, u, at, touched)
  PROVE  ArchiveInv' /\ Parsing!NothingLost'
<1> DEFINE new == [name |-> name, touched |-> touched, photos |-> <<[uri |-> u, at |-> at]>>]
<1>1. albums' = Append(albums, new) /\ UNCHANGED <<rows, met, outgrown>>
  BY DEF Parsing!StartAlbum, Parsing!Works
<1>2. new \in Manifest /\ Grown(new)
  <2>1. [uri |-> u, at |-> at] \in Photo /\ at \in Nat
    BY DatesAreNumbers DEF Photo
  <2>2. <<[uri |-> u, at |-> at]>> \in Seq(Photo)
    BY <2>1
  <2> QED BY <2>1, <2>2 DEF Manifest, Grown
<1> HIDE DEF new
<1>3. albums \in Seq(Manifest) /\ \A n \in DOMAIN albums : Grown(albums[n])
  BY DEF ArchiveInv, AlbumsOk
<1>4. albums' \in Seq(Manifest) /\ DOMAIN albums' = 1 .. Len(albums) + 1 /\ DOMAIN albums = 1 .. Len(albums)
  BY <1>1, <1>2, <1>3
<1>5. \A n \in DOMAIN albums : n \in DOMAIN albums' /\ albums'[n] = albums[n]
  BY <1>1, <1>3, <1>4
<1>6. albums'[Len(albums) + 1] = new
  BY <1>1, <1>3
<1>7. \A n \in DOMAIN albums' : n \in DOMAIN albums \/ n = Len(albums) + 1
  BY <1>3, <1>4
<1>8. AlbumsOk'
  BY <1>2, <1>3, <1>4, <1>5, <1>6, <1>7 DEF AlbumsOk
<1> QED BY <1>1, <1>5, <1>8, KeysKept DEF ArchiveInv, Parsing!NothingLost

LEMMA PhotoAdded ==
  ASSUME ArchiveInv, Parsing!NothingLost, NEW a \in DOMAIN albums, NEW u \in Uri, NEW at \in Time, NEW touched \in Time,
         Parsing!AddPhoto(a, u, at, touched)
  PROVE  ArchiveInv' /\ Parsing!NothingLost'
<1> DEFINE old == albums[a]
           new == [old EXCEPT !.photos = Append(@, [uri |-> u, at |-> at]), !.touched = touched]
<1>1. albums' = [albums EXCEPT ![a] = new] /\ UNCHANGED <<rows, met, outgrown>>
  BY DEF Parsing!AddPhoto, Parsing!Works
<1>2. albums \in Seq(Manifest) /\ \A n \in DOMAIN albums : Grown(albums[n])
  BY DEF ArchiveInv, AlbumsOk
<1>3. old \in Manifest /\ Grown(old) /\ old.photos \in Seq(Photo)
  BY <1>2, ManifestOfAlbum, PhotoOfAlbum
<1>4. \A i \in DOMAIN old.photos : old.photos[i].at =< at
  BY DEF Parsing!AddPhoto
<1>5. [uri |-> u, at |-> at] \in Photo
  BY DEF Photo
<1>6. new.photos = Append(old.photos, [uri |-> u, at |-> at]) /\ new.name = old.name
  BY <1>3 DEF Manifest
<1>7. new.photos \in Seq(Photo) /\ Len(new.photos) = Len(old.photos) + 1
  BY <1>3, <1>5, <1>6
<1>8. new \in Manifest
  BY <1>3, <1>7 DEF Manifest
<1> HIDE DEF new, old
<1>9. old.photos # <<>> /\ 1 \in DOMAIN old.photos /\ new.photos[1] = old.photos[1]
  BY <1>3, <1>6 DEF Grown
<1>10. \A i \in DOMAIN new.photos : \/ i \in DOMAIN old.photos /\ new.photos[i] = old.photos[i]
                                    \/ new.photos[i] = [uri |-> u, at |-> at]
  BY <1>3, <1>6, <1>7
<1>11. Grown(new)
  BY <1>3, <1>4, <1>7, <1>9, <1>10 DEF Grown
<1>12. albums' \in Seq(Manifest) /\ DOMAIN albums' = DOMAIN albums
  BY <1>1, <1>2, <1>8
<1>13. \A n \in DOMAIN albums : albums'[n] = (IF n = a THEN new ELSE albums[n])
  BY <1>1, <1>2
<1>14. AlbumsOk'
  BY <1>2, <1>11, <1>12, <1>13 DEF AlbumsOk
<1>15. \A n \in DOMAIN albums : albums'[n].name = albums[n].name /\ albums'[n].photos[1] = albums[n].photos[1]
  BY <1>6, <1>9, <1>13 DEF old
<1> QED BY <1>1, <1>12, <1>14, <1>15, KeysKept DEF ArchiveInv, Parsing!NothingLost

LEMMA AlbumTouched ==
  ASSUME ArchiveInv, Parsing!NothingLost, NEW a \in DOMAIN albums, NEW touched \in Time, Parsing!Touch(a, touched)
  PROVE  ArchiveInv' /\ Parsing!NothingLost'
<1> DEFINE new == [albums[a] EXCEPT !.touched = touched]
<1>1. albums' = [albums EXCEPT ![a] = new] /\ UNCHANGED <<rows, met, outgrown>>
  BY DEF Parsing!Touch, Parsing!Works
<1>2. albums \in Seq(Manifest) /\ \A n \in DOMAIN albums : Grown(albums[n])
  BY DEF ArchiveInv, AlbumsOk
<1>3. albums[a] \in Manifest /\ Grown(albums[a])
  BY <1>2, ManifestOfAlbum
<1>4. new \in Manifest /\ new.photos = albums[a].photos /\ new.name = albums[a].name
  BY <1>3 DEF Manifest
<1> HIDE DEF new
<1>5. Grown(new)
  BY <1>3, <1>4 DEF Grown
<1>6. albums' \in Seq(Manifest) /\ DOMAIN albums' = DOMAIN albums
  BY <1>1, <1>2, <1>4
<1>7. \A n \in DOMAIN albums : albums'[n] = (IF n = a THEN new ELSE albums[n])
  BY <1>1, <1>2
<1>8. AlbumsOk'
  BY <1>2, <1>5, <1>6, <1>7 DEF AlbumsOk
<1>9. \A n \in DOMAIN albums : albums'[n].name = albums[n].name /\ albums'[n].photos[1] = albums[n].photos[1]
  BY <1>4, <1>7
<1> QED BY <1>1, <1>6, <1>8, <1>9, KeysKept DEF ArchiveInv, Parsing!NothingLost

-----------------------------------------------------------------------------
Pictures(p) == UNION {r.uris : r \in {q \in rows : q.id = p.id}}

(* An upload keeps the pictures of whatever it has found.                     *)
LEMMA FoundAreKept ==
  ASSUME NEW found, NEW p \in found,
         rows' = rows \cup {Parsing!Row(q) : q \in {x \in found : ~Parsing!Known(x)}},
         outgrown' = outgrown \cup UNION {q.uris \ Pictures(q) : q \in {x \in found : Parsing!Known(x)}}
  PROVE  p.uris \subseteq outgrown' \cup UNION {r.uris : r \in rows'}
<1>1. CASE Parsing!Known(p)
  <2>1. p.uris \ Pictures(p) \subseteq outgrown'
    BY <1>1
  <2>2. Pictures(p) \subseteq UNION {r.uris : r \in rows}
    BY DEF Pictures
  <2> QED BY <2>1, <2>2
<1>2. CASE ~Parsing!Known(p)
  <2>1. Parsing!Row(p) \in rows' /\ Parsing!Row(p).uris = p.uris
    BY <1>2 DEF Parsing!Row
  <2> QED BY <2>1
<1> QED BY <1>1, <1>2

(* What an upload has met it keeps; an album it knows it does not insert again.  *)
LEMMA UploadKept ==
  ASSUME ArchiveInv, Parsing!NothingLost, NEW decoded \in SUBSET DOMAIN albums, NEW postsDecode \in BOOLEAN,
         Parsing!Upload(decoded, postsDecode)
  PROVE  ArchiveInv' /\ Parsing!NothingLost'
<1> DEFINE readable == {n \in decoded : Parsing!IsAlbum(albums[n])}
           found == Parsing!ParsedAlbums(decoded) \cup (IF postsDecode THEN Parsing!ParsedPosts(decoded) ELSE {})
           kept == outgrown' \cup UNION {r.uris : r \in rows'}
<1>1. /\ rows' = rows \cup {Parsing!Row(q) : q \in {x \in found : ~Parsing!Known(x)}}
      /\ outgrown' = outgrown \cup UNION {q.uris \ Pictures(q) : q \in {x \in found : Parsing!Known(x)}}
      /\ UNCHANGED <<entries, albums>>
      /\ met' = met \cup Parsing!AlbumUris(readable)
                \cup UNION {Parsing!Range(p.uris) : p \in {q \in entries : postsDecode /\ Parsing!IsPost(q)}}
  <2>1. rows' = rows \cup {Parsing!Row(q) : q \in {x \in found : ~Parsing!Known(x)}} /\ UNCHANGED <<entries, albums>>
    BY DEF Parsing!Upload
  <2>2. outgrown' = outgrown \cup UNION {q.uris \ Pictures(q) : q \in {x \in found : Parsing!Known(x)}}
    BY DEF Parsing!Upload, Pictures
  <2>3. met' = met \cup Parsing!AlbumUris(readable)
                \cup UNION {Parsing!Range(p.uris) : p \in {q \in entries : postsDecode /\ Parsing!IsPost(q)}}
    BY DEF Parsing!Upload
  <2> QED BY <2>1, <2>2, <2>3
<1>2. Parsing!ParsedAlbums(decoded) = {Parsing!NormalAlbum(n) : n \in readable}
  BY DEF Parsing!ParsedAlbums
<1>3. postsDecode =>
        Parsing!ParsedPosts(decoded) = {p \in {Parsing!NormalPost(q) : q \in {x \in entries : Parsing!IsPost(x)}} :
                                  ~Parsing!Suppressed(p, Parsing!AlbumUris(readable))}
  BY DEF Parsing!ParsedPosts
<1>4. \A p \in Parsing!ParsedPosts(decoded) : p.kind = "post"
  BY DEF Parsing!ParsedPosts, Parsing!NormalPost
<1>5. \A p \in found : p.uris \subseteq kept
  BY <1>1, FoundAreKept
<1>6. Parsing!AlbumUris(readable) \subseteq kept
  <2>1. \A n \in readable : /\ Parsing!NormalAlbum(n) \in found
                             /\ Parsing!NormalAlbum(n).uris = Parsing!Range(Parsing!Uris(albums[n]))
    BY <1>2 DEF Parsing!NormalAlbum
  <2> HIDE DEF found, kept, readable
  <2> QED BY <1>5, <2>1 DEF Parsing!AlbumUris
<1>7. ASSUME NEW q \in entries, Parsing!IsPost(q), postsDecode
      PROVE  Parsing!Range(q.uris) \subseteq kept
  <2>1. Parsing!NormalPost(q).uris = Parsing!Range(q.uris)
    BY DEF Parsing!NormalPost
  <2>2. CASE Parsing!Suppressed(Parsing!NormalPost(q), Parsing!AlbumUris(readable))
    BY <1>6, <2>1, <2>2 DEF Parsing!Suppressed
  <2>3. CASE ~Parsing!Suppressed(Parsing!NormalPost(q), Parsing!AlbumUris(readable))
    <3>1. Parsing!NormalPost(q) \in found
      BY <1>3, <1>7, <2>3
    <3> QED BY <1>5, <2>1, <3>1
  <2> QED BY <2>2, <2>3
<1>8. met \subseteq kept
  BY <1>1 DEF Parsing!NothingLost
<1>9. Parsing!NothingLost'
  <2> HIDE DEF kept, readable
  <2>1. met' \subseteq kept
    BY <1>1, <1>6, <1>7, <1>8
  <2> QED BY <2>1 DEF Parsing!NothingLost, kept
<1>10. AlbumsOk'
  BY <1>1 DEF ArchiveInv, AlbumsOk
<1>11. \A n \in readable : /\ Parsing!NormalAlbum(n).kind = "album" /\ Parsing!NormalAlbum(n).of = n
                            /\ Parsing!NormalAlbum(n).id = Key(albums[n])
  BY DEF Parsing!NormalAlbum, Key
(* A new row of an album has a key that no row of an album had.                *)
<1>12. ASSUME NEW r \in rows' \ rows, r.kind = "album"
       PROVE  \E n \in readable : /\ r = Parsing!Row(Parsing!NormalAlbum(n)) /\ ~Parsing!Known(Parsing!NormalAlbum(n))
                                   /\ r.of = n /\ r.id = Key(albums[n])
  <2>1. PICK q \in found : r = Parsing!Row(q) /\ ~Parsing!Known(q)
    BY <1>1
  <2>2. q.kind = "album" /\ r.of = q.of /\ r.id = q.id
    BY <1>12, <2>1 DEF Parsing!Row
  <2>3. PICK n \in readable : q = Parsing!NormalAlbum(n)
    BY <1>2, <1>4, <2>2
  <2> HIDE DEF readable, found
  <2> QED BY <1>11, <2>1, <2>2, <2>3
<1>13. KeysStay'
  <2> HIDE DEF found, kept
  <2> QED BY <1>1, <1>12 DEF ArchiveInv, KeysStay
<1>14. ASSUME NEW r \in rows' \ rows, NEW s \in rows, r.kind = "album", s.kind = "album", r.of = s.of,
              albums[r.of].photos[1].at # 0
       PROVE  FALSE
  <2>1. PICK n \in readable : r.of = n /\ r.id = Key(albums[n]) /\ ~Parsing!Known(Parsing!NormalAlbum(n))
    BY <1>12, <1>14
  <2>2. s.id = Key(albums[n])
    BY <1>14, <2>1 DEF ArchiveInv, KeysStay
  <2> QED BY <1>11, <1>14, <2>1, <2>2 DEF Parsing!Known
<1>15. Parsing!AlbumsOnce'
  <2> SUFFICES ASSUME NEW r \in rows', NEW s \in rows', r.kind = "album", s.kind = "album", r.of = s.of,
                      albums[r.of].photos[1].at # 0
               PROVE  r = s
    BY <1>1 DEF Parsing!AlbumsOnce
  <2>1. CASE r \in rows /\ s \in rows
    BY <2>1 DEF ArchiveInv, Parsing!AlbumsOnce
  <2>2. CASE r \notin rows /\ s \notin rows
    BY <1>12, <2>2
  <2> HIDE DEF found, kept, readable
  <2>3. CASE r \notin rows /\ s \in rows
    BY <1>14, <2>3
  <2>4. CASE r \in rows /\ s \notin rows
    BY <1>14, <2>4
  <2> QED BY <2>1, <2>2, <2>3, <2>4
<1> QED BY <1>9, <1>10, <1>13, <1>15 DEF ArchiveInv

(* No picture an upload has met is lost but those an entry got after its import,   *)
(* and an album whose first picture is dated is imported once.                 *)
THEOREM NothingDropped == Parsing!Spec => []ArchiveKept
<1>1. Parsing!Init => ArchiveInv /\ Parsing!NothingLost
  BY DEF Parsing!Init, ArchiveInv, AlbumsOk, KeysStay, Parsing!AlbumsOnce, Parsing!NothingLost
<1>2. ArchiveInv /\ Parsing!NothingLost /\ [Parsing!Next]_(Parsing!vars) => (ArchiveInv /\ Parsing!NothingLost)'
  <2> SUFFICES ASSUME ArchiveInv, Parsing!NothingLost, [Parsing!Next]_(Parsing!vars)
               PROVE  ArchiveInv' /\ Parsing!NothingLost'
    OBVIOUS
  <2>1. CASE UNCHANGED Parsing!vars
    BY <2>1 DEF Parsing!vars, ArchiveInv, AlbumsOk, KeysStay, Parsing!AlbumsOnce, Parsing!NothingLost
  <2>2. CASE Parsing!UserWorks
    BY <2>2, PostWritten, AlbumStarted, PhotoAdded, AlbumTouched DEF Parsing!UserWorks
  <2>3. ASSUME NEW decoded \in SUBSET DOMAIN albums, NEW postsDecode \in BOOLEAN, Parsing!Upload(decoded, postsDecode)
        PROVE  ArchiveInv' /\ Parsing!NothingLost'
    BY <2>3, UploadKept
  <2> QED BY <2>1, <2>2, <2>3 DEF Parsing!Next
<1>3. ArchiveInv /\ Parsing!NothingLost => ArchiveKept
  BY DEF ArchiveInv, ArchiveKept, Parsing!ArchiveKept
<1> QED BY <1>1, <1>2, <1>3, PTL DEF Parsing!Spec

-----------------------------------------------------------------------------
(* Induction over the numbers, about a set: the least number outside it      *)
(* cannot be there.                                                          *)
LEMMA Induction ==
  ASSUME NEW S, 0 \in S, \A n \in Nat : n \in S => n + 1 \in S
  PROVE  \A n \in Nat : n \in S
<1> DEFINE Out == Nat \ S
<1> SUFFICES ASSUME Out # {} PROVE FALSE
  OBVIOUS
<1>1. IsWellFoundedOn(OpToRel(<, Nat), Nat)
  BY NatLessThanWellFounded
<1>2. PICK x \in Out : \A y \in Out : ~(<<y, x>> \in OpToRel(<, Nat))
  BY <1>1, WFMin
<1>3. \A y \in Out : ~(y < x)
  BY <1>2 DEF OpToRel
<1>4. x # 0 /\ x \in Nat
  OBVIOUS
<1>5. x - 1 \in Nat /\ x - 1 < x /\ x - 1 + 1 = x
  BY <1>4
<1>6. x - 1 \in S
  BY <1>3, <1>5
<1> QED BY <1>5, <1>6

(* What a recursive definition on D needs to have a solution: a bounded rank,*)
(* and a step that looks only at what has a smaller one.                     *)
Ranked(D, rank, N) == rank \in [D -> Nat] /\ N \in Nat /\ \A i \in D : rank[i] =< N

Recursive(D, V, rank, step) ==
  /\ V # {} /\ step \in [D -> [[D -> V] -> V]]
  /\ \A i \in D : \A g, h \in [D -> V] :
       (\A j \in D : rank[j] < rank[i] => g[j] = h[j]) => step[i][g] = step[i][h]

Solves(f, D, V, step) == f \in [D -> V] /\ \A i \in D : f[i] = step[i][f]

(* By induction on the rank, such a definition has a solution: each recursive*)
(* function of the model obeys the equation it is written as (DecodedObeys,  *)
(* FlattenObeys, KeptObeys, UnwrappedObeys, WrapObeys).                      *)
LEMMA Recursion ==
  ASSUME NEW D, NEW V, NEW rank, NEW step, NEW N, Ranked(D, rank, N), Recursive(D, V, rank, step)
  PROVE  \E f : Solves(f, D, V, step)
<1> USE DEF Ranked, Recursive, Solves
<1> DEFINE S == {n \in Nat : \E f \in [D -> V] : \A i \in D : rank[i] < n => f[i] = step[i][f]}
<1>1. 0 \in S
  <2>1. PICK v \in V : TRUE
    OBVIOUS
  <2>2. [i \in D |-> v] \in [D -> V]
    BY <2>1
  <2>3. \A i \in D : ~(rank[i] < 0)
    OBVIOUS
  <2> QED BY <2>2, <2>3
<1>2. ASSUME NEW n \in Nat, n \in S PROVE n + 1 \in S
  <2>1. PICK f \in [D -> V] : \A i \in D : rank[i] < n => f[i] = step[i][f]
    BY <1>2
  <2> DEFINE g == [i \in D |-> IF rank[i] = n THEN step[i][f] ELSE f[i]]
  <2>2. g \in [D -> V]
    OBVIOUS
  <2>3. \A j \in D : rank[j] < n => g[j] = f[j]
    OBVIOUS
  <2>4. ASSUME NEW i \in D, rank[i] < n + 1 PROVE g[i] = step[i][g]
    <3>1. \A j \in D : rank[j] < rank[i] => g[j] = f[j]
      BY <2>3, <2>4
    <3>2. step[i][g] = step[i][f]
      BY <2>2, <3>1
    <3>3. rank[i] = n \/ rank[i] < n
      <4>1. rank[i] \in Nat /\ n \in Nat
        OBVIOUS
      <4>2. \A m, k \in Nat : m < k + 1 => m = k \/ m < k
        OBVIOUS
      <4> QED BY <2>4, <4>1, <4>2
    <3>4. CASE rank[i] = n
      BY <3>2, <3>4
    <3>5. CASE rank[i] < n
      BY <2>1, <2>3, <3>2, <3>5
    <3> QED BY <3>3, <3>4, <3>5
  <2> HIDE DEF g
  <2> QED BY <2>2, <2>4
<1> HIDE DEF S
<1>3. N + 1 \in S
  BY <1>1, <1>2, Induction
<1>4. PICK f \in [D -> V] : \A i \in D : rank[i] < N + 1 => f[i] = step[i][f]
  BY <1>3 DEF S
<1>5. \A i \in D : rank[i] < N + 1
  OBVIOUS
<1> QED BY <1>4, <1>5

-----------------------------------------------------------------------------
(* UTF-8, one character at a time.                                           *)
LEMMA WidthType ==
  ASSUME NEW b
  PROVE  Mending!Width(b) \in 0 .. 4
BY SMT DEF Mending!Width

Decodes(f, s) ==
  f = [i \in 1 .. Len(s) + 1 |->
         IF i > Len(s) THEN <<>>
         ELSE IF ~Mending!Begins(s, i) THEN Mending!Invalid
         ELSE LET rest == f[i + Mending!Width(s[i])]
              IN IF rest = Mending!Invalid THEN Mending!Invalid ELSE <<Mending!Character(s, i)>> \o rest]

LEMMA DecodedObeys ==
  ASSUME NEW s \in Seq(Nat)
  PROVE  \E f : Mending!Decoded(s) = f[1] /\ Decodes(f, s)
<1> DEFINE E(g, i) == IF i > Len(s) THEN <<>>
                      ELSE IF ~Mending!Begins(s, i) THEN Mending!Invalid
                      ELSE LET rest == g[i + Mending!Width(s[i])]
                           IN IF rest = Mending!Invalid THEN Mending!Invalid ELSE <<Mending!Character(s, i)>> \o rest
<1>1. \E f : f = [i \in 1 .. Len(s) + 1 |-> E(f, i)]
  <2> DEFINE D == 1 .. Len(s) + 1
             V == Seq({Mending!Character(s, i) : i \in D} \cup {-1})
             rank == [i \in D |-> Len(s) + 1 - i]
             step == [i \in D |-> [g \in [D -> V] |-> E(g, i)]]
  <2>1. \A i \in D : Mending!Begins(s, i) => i + Mending!Width(s[i]) \in D /\ i + Mending!Width(s[i]) > i
    <3> SUFFICES ASSUME NEW i \in D, Mending!Begins(s, i) PROVE i + Mending!Width(s[i]) \in D /\ i + Mending!Width(s[i]) > i
      OBVIOUS
    <3>1. Mending!Width(s[i]) > 0 /\ i + Mending!Width(s[i]) - 1 =< Len(s)
      BY DEF Mending!Begins
    <3>2. Mending!Width(s[i]) \in Nat
      BY WidthType
    <3> QED BY <3>1, <3>2
  <2>2. <<>> \in V /\ Mending!Invalid \in V /\ \A i \in D, v \in V : <<Mending!Character(s, i)>> \o v \in V
    <3>1. \A i \in D : <<Mending!Character(s, i)>> \in V
      OBVIOUS
    <3>2. \A v, u \in V : u \o v \in V
      OBVIOUS
    <3> QED BY <3>1, <3>2 DEF Mending!Invalid
  <2> HIDE DEF V
  <2>3. \A i \in D, g \in [D -> V] : E(g, i) \in V
    <3> SUFFICES ASSUME NEW i \in D, NEW g \in [D -> V] PROVE E(g, i) \in V
      OBVIOUS
    <3>1. CASE i > Len(s) \/ ~Mending!Begins(s, i)
      BY <2>2, <3>1
    <3>2. CASE ~(i > Len(s)) /\ Mending!Begins(s, i)
      <4>1. g[i + Mending!Width(s[i])] \in V
        BY <2>1, <3>2
      <4> QED BY <2>2, <3>2, <4>1
    <3> QED BY <3>1, <3>2
  <2>4. ASSUME NEW i \in D, NEW g \in [D -> V], NEW h \in [D -> V], \A j \in D : rank[j] < rank[i] => g[j] = h[j]
        PROVE  E(g, i) = E(h, i)
    <3>1. ~Mending!Begins(s, i) => E(g, i) = E(h, i)
      OBVIOUS
    <3>2. ASSUME Mending!Begins(s, i) PROVE g[i + Mending!Width(s[i])] = h[i + Mending!Width(s[i])]
      <4>1. i + Mending!Width(s[i]) \in D /\ i + Mending!Width(s[i]) > i
        BY <2>1, <3>2
      <4>2. rank[i + Mending!Width(s[i])] < rank[i]
        BY <4>1
      <4> QED BY <2>4, <4>1, <4>2
    <3> QED BY <3>1, <3>2
  <2>5. rank \in [D -> Nat] /\ \A i \in D : rank[i] =< Len(s)
    OBVIOUS
  <2> HIDE DEF rank, D, E
  <2>6. step \in [D -> [[D -> V] -> V]]
    BY <2>3
  <2>7. \A i \in D : \A g, h \in [D -> V] :
          (\A j \in D : rank[j] < rank[i] => g[j] = h[j]) => step[i][g] = step[i][h]
    BY <2>4
  <2> HIDE DEF step
  <2>8. PICK f : Solves(f, D, V, step)
    <3>1. Ranked(D, rank, Len(s))
      BY <2>5 DEF Ranked
    <3>2. Recursive(D, V, rank, step)
      BY <2>2, <2>6, <2>7 DEF Recursive
    <3> QED BY <3>1, <3>2, Recursion
  <2>9. f = [i \in D |-> E(f, i)]
    BY <2>8 DEF step, Solves
  <2> QED BY <2>9 DEF D
<1> DEFINE from[i \in 1 .. Len(s) + 1] ==
        IF i > Len(s) THEN <<>>
        ELSE IF ~Mending!Begins(s, i) THEN Mending!Invalid
        ELSE LET rest == from[i + Mending!Width(s[i])]
             IN IF rest = Mending!Invalid THEN Mending!Invalid ELSE <<Mending!Character(s, i)>> \o rest
<1>2. from = [i \in 1 .. Len(s) + 1 |-> E(from, i)]
  BY <1>1, Zenon
<1>3. Mending!Decoded(s) = from[1]
  BY Zenon DEF Mending!Decoded
<1>4. Decodes(from, s)
  BY <1>2, Zenon DEF Decodes
<1> HIDE DEF from
<1> QED BY <1>3, <1>4, Zenon

LEMMA Division ==
  ASSUME NEW n \in Nat
  PROVE  \E q \in Nat, r \in 0 .. 63 : q = n \div 64 /\ r = n % 64 /\ n = q * 64 + r
<1>1. \A q, r \in Nat : q = n \div 64 /\ r = n % 64 => n = q * 64 + r
  BY SMT
<1>2. PICK q \in Nat : q = n \div 64
  BY SMT
<1>3. PICK r \in 0 .. 63 : r = n % 64
  BY SMT
<1> QED BY <1>1, <1>2, <1>3, SMT

LEMMA Higher ==
  ASSUME NEW n \in Nat
  PROVE  /\ n \div 4096 = (n \div 64) \div 64
         /\ n \div 262144 = ((n \div 64) \div 64) \div 64
<1>1. n \div 4096 = (n \div 64) \div 64
  BY SMT
<1>2. n \div 262144 = ((n \div 64) \div 64) \div 64
  BY SMT
<1> QED BY <1>1, <1>2, SMT

LEMMA BytesRaw ==
  ASSUME NEW c \in Nat
  PROVE  /\ c < 128 => Mending!Bytes(c) = <<c>>
         /\ 128 =< c /\ c < 2048 => Mending!Bytes(c) = <<192 + c \div 64, 128 + (c % 64)>>
         /\ 2048 =< c /\ c < 65536 => Mending!Bytes(c) = <<224 + c \div 4096, 128 + ((c \div 64) % 64), 128 + (c % 64)>>
         /\ 65536 =< c => Mending!Bytes(c) = <<240 + c \div 262144, 128 + ((c \div 4096) % 64), 128 + ((c \div 64) % 64), 128 + (c % 64)>>
<1>1. ASSUME c < 128 PROVE Mending!Bytes(c) = <<c>>
  BY <1>1, SMT DEF Mending!Bytes
<1>2. ASSUME 128 =< c, c < 2048 PROVE Mending!Bytes(c) = <<192 + c \div 64, 128 + (c % 64)>>
  BY <1>2, SMT DEF Mending!Bytes
<1>3. ASSUME 2048 =< c, c < 65536 PROVE Mending!Bytes(c) = <<224 + c \div 4096, 128 + ((c \div 64) % 64), 128 + (c % 64)>>
  BY <1>3, SMT DEF Mending!Bytes
<1>4. ASSUME 65536 =< c PROVE Mending!Bytes(c) = <<240 + c \div 262144, 128 + ((c \div 4096) % 64), 128 + ((c \div 64) % 64), 128 + (c % 64)>>
  BY <1>4, SMT DEF Mending!Bytes
<1> QED BY <1>1, <1>2, <1>3, <1>4, SMT

Digits(c, t, x, y, z) ==
  /\ t \in Nat /\ t =< 4 /\ x \in 0 .. 63 /\ y \in 0 .. 63 /\ z \in 0 .. 63
  /\ c = ((t * 64 + x) * 64 + y) * 64 + z

(* What a character's bytes are, by the digits of its number in base 64.     *)
LEMMA BytesAre ==
  ASSUME NEW c \in Nat, Mending!Scalar(c)
  PROVE  \E t, x, y, z \in Nat :
           /\ Digits(c, t, x, y, z)
           /\ c < 128 => Mending!Bytes(c) = <<c>>
           /\ 128 =< c /\ c < 2048 => t = 0 /\ x = 0 /\ y \in 2 .. 31 /\ Mending!Bytes(c) = <<192 + y, 128 + z>>
           /\ 2048 =< c /\ c < 65536 => t = 0 /\ x \in 0 .. 15 /\ Mending!Bytes(c) = <<224 + x, 128 + y, 128 + z>>
           /\ 65536 =< c => Mending!Bytes(c) = <<240 + t, 128 + x, 128 + y, 128 + z>>
<1> DEFINE q == c \div 64
           r == c \div 4096
           t == c \div 262144
           x == (c \div 4096) % 64
           y == (c \div 64) % 64
           z == c % 64
<1>1. /\ c < 128 => Mending!Bytes(c) = <<c>>
      /\ 128 =< c /\ c < 2048 => Mending!Bytes(c) = <<192 + q, 128 + z>>
      /\ 2048 =< c /\ c < 65536 => Mending!Bytes(c) = <<224 + r, 128 + y, 128 + z>>
      /\ 65536 =< c => Mending!Bytes(c) = <<240 + t, 128 + x, 128 + y, 128 + z>>
  BY BytesRaw, SMT
<1>2. c < 1114112
  BY SMT DEF Mending!Scalar
<1>3. q \in Nat /\ z \in 0 .. 63 /\ c = q * 64 + z
  BY Division, SMT
<1>4. r \in Nat /\ y \in 0 .. 63 /\ q = r * 64 + y
  <2>1. r = q \div 64 /\ y = q % 64
    BY Higher, SMT
  <2>2. q \in Nat
    BY <1>3
  <2> HIDE DEF r, y, q
  <2> QED BY <2>1, <2>2, Division, SMT
<1>5. t \in Nat /\ x \in 0 .. 63 /\ r = t * 64 + x
  <2>1. t = r \div 64 /\ x = r % 64
    BY Higher, SMT
  <2>2. r \in Nat
    BY <1>4
  <2> HIDE DEF r, t, x
  <2> QED BY <2>1, <2>2, Division, SMT
<1> HIDE DEF q, r, t, x, y, z
<1>6. t =< 4
  BY <1>2, <1>3, <1>4, <1>5, SMT
<1>7. 128 =< c /\ c < 2048 => t = 0 /\ x = 0 /\ q = y /\ y \in 2 .. 31
  BY <1>3, <1>4, <1>5, SMT
<1>8. 2048 =< c /\ c < 65536 => t = 0 /\ r = x /\ x \in 0 .. 15
  BY <1>3, <1>4, <1>5, SMT
<1>9. Digits(c, t, x, y, z)
  BY <1>3, <1>4, <1>5, <1>6, SMT DEF Digits
<1>10. x \in Nat /\ y \in Nat /\ z \in Nat /\ t \in Nat
  BY <1>3, <1>4, <1>5, SMT
<1>11. 128 =< c /\ c < 2048 => Mending!Bytes(c) = <<192 + y, 128 + z>>
  BY <1>1, <1>7, SMT
<1>12. 2048 =< c /\ c < 65536 => Mending!Bytes(c) = <<224 + x, 128 + y, 128 + z>>
  BY <1>1, <1>8, SMT
<1>13. 65536 =< c => Mending!Bytes(c) = <<240 + t, 128 + x, 128 + y, 128 + z>>
  BY <1>1
<1>14. c < 128 => Mending!Bytes(c) = <<c>>
  BY <1>1
<1> QED
  BY <1>7, <1>8, <1>9, <1>10, <1>11, <1>12, <1>13, <1>14, SMT

LEMMA BytesType ==
  ASSUME NEW c \in Nat, Mending!Scalar(c)
  PROVE  /\ Mending!Bytes(c) \in Seq(0 .. 255) /\ Len(Mending!Bytes(c)) \in 1 .. 4
         /\ c < 128 => Mending!Bytes(c) = <<c>>
         /\ 128 =< c => Len(Mending!Bytes(c)) > 1 /\ Mending!Bytes(c)[1] >= 128
<1>1. PICK t, x, y, z \in Nat :
           /\ Digits(c, t, x, y, z)
           /\ c < 128 => Mending!Bytes(c) = <<c>>
           /\ 128 =< c /\ c < 2048 => t = 0 /\ x = 0 /\ y \in 2 .. 31 /\ Mending!Bytes(c) = <<192 + y, 128 + z>>
           /\ 2048 =< c /\ c < 65536 => t = 0 /\ x \in 0 .. 15 /\ Mending!Bytes(c) = <<224 + x, 128 + y, 128 + z>>
           /\ 65536 =< c => Mending!Bytes(c) = <<240 + t, 128 + x, 128 + y, 128 + z>>
  BY BytesAre, SMT
<1>2. t \in 0 .. 4 /\ x \in 0 .. 63 /\ y \in 0 .. 63 /\ z \in 0 .. 63
  BY <1>1, SMT DEF Digits
<1>3. CASE c < 128
  <2>1. Mending!Bytes(c) = <<c>> /\ c \in 0 .. 255
    BY <1>1, <1>3, SMT
  <2> QED BY <1>3, <2>1, SMT
<1>4. CASE 128 =< c /\ c < 2048
  <2>1. Mending!Bytes(c) = <<192 + y, 128 + z>> /\ 192 + y \in 0 .. 255 /\ 128 + z \in 0 .. 255
    BY <1>1, <1>2, <1>4, SMT
  <2> QED BY <1>4, <2>1, SMT
<1>5. CASE 2048 =< c /\ c < 65536
  <2>1. Mending!Bytes(c) = <<224 + x, 128 + y, 128 + z>> /\ 224 + x \in 0 .. 255 /\ 128 + y \in 0 .. 255 /\ 128 + z \in 0 .. 255
    BY <1>1, <1>2, <1>5, SMT
  <2> QED BY <1>5, <2>1, SMT
<1>6. CASE 65536 =< c
  <2>1. /\ Mending!Bytes(c) = <<240 + t, 128 + x, 128 + y, 128 + z>>
        /\ 240 + t \in 0 .. 255 /\ 128 + x \in 0 .. 255 /\ 128 + y \in 0 .. 255 /\ 128 + z \in 0 .. 255
    BY <1>1, <1>2, <1>6, SMT
  <2> QED BY <1>6, <2>1, SMT
<1> QED BY <1>3, <1>4, <1>5, <1>6, SMT

LEMMA Widths ==
  ASSUME NEW b \in Nat
  PROVE  /\ b < 128 => Mending!Width(b) = 1
         /\ b \in 194 .. 223 => Mending!Width(b) = 2
         /\ b \in 224 .. 239 => Mending!Width(b) = 3
         /\ b \in 240 .. 244 => Mending!Width(b) = 4
BY SMT DEF Mending!Width

LEMMA Character1 ==
  ASSUME NEW s, NEW i, Mending!Width(s[i]) = 1
  PROVE  Mending!Character(s, i) = s[i]
BY SMT DEF Mending!Character

LEMMA Character2 ==
  ASSUME NEW s, NEW i, Mending!Width(s[i]) = 2
  PROVE  Mending!Character(s, i) = (s[i] - 192) * 64 + (s[i + 1] - 128)
BY SMT DEF Mending!Character

LEMMA Character3 ==
  ASSUME NEW s, NEW i, Mending!Width(s[i]) = 3
  PROVE  Mending!Character(s, i) = ((s[i] - 224) * 64 + (s[i + 1] - 128)) * 64 + (s[i + 2] - 128)
BY SMT DEF Mending!Character

LEMMA Character4 ==
  ASSUME NEW s, NEW i, Mending!Width(s[i]) = 4
  PROVE  Mending!Character(s, i) = (((s[i] - 240) * 64 + (s[i + 1] - 128)) * 64 + (s[i + 2] - 128)) * 64 + (s[i + 3] - 128)
BY SMT DEF Mending!Character

LEMMA WiderSequence ==
  ASSUME NEW S, NEW T, S \subseteq T, NEW b \in Seq(S)
  PROVE  b \in Seq(T)
<1>1. Len(b) \in Nat /\ b = [k \in 1 .. Len(b) |-> b[k]]
  OBVIOUS
<1>2. \A k \in 1 .. Len(b) : b[k] \in T
  BY ElementOfSeq
<1> QED BY <1>1, <1>2

(* Where the bytes of a character stand, that character is read, and no      *)
(* further.                                                                  *)
LEMMA CharacterDecodes ==
  ASSUME NEW c \in Nat, Mending!Scalar(c), NEW s \in Seq(Nat), NEW i \in 1 .. Len(s),
         i + Len(Mending!Bytes(c)) - 1 =< Len(s),
         \A k \in 1 .. Len(Mending!Bytes(c)) : s[i + k - 1] = Mending!Bytes(c)[k]
  PROVE  Mending!Begins(s, i) /\ Mending!Width(s[i]) = Len(Mending!Bytes(c)) /\ Mending!Character(s, i) = c
<1>1. PICK t, x, y, z \in Nat :
           /\ Digits(c, t, x, y, z)
           /\ c < 128 => Mending!Bytes(c) = <<c>>
           /\ 128 =< c /\ c < 2048 => t = 0 /\ x = 0 /\ y \in 2 .. 31 /\ Mending!Bytes(c) = <<192 + y, 128 + z>>
           /\ 2048 =< c /\ c < 65536 => t = 0 /\ x \in 0 .. 15 /\ Mending!Bytes(c) = <<224 + x, 128 + y, 128 + z>>
           /\ 65536 =< c => Mending!Bytes(c) = <<240 + t, 128 + x, 128 + y, 128 + z>>
  BY BytesAre, SMT
<1>2. /\ t \in 0 .. 4 /\ x \in 0 .. 63 /\ y \in 0 .. 63 /\ z \in 0 .. 63
      /\ c = ((t * 64 + x) * 64 + y) * 64 + z
  BY <1>1, SMT DEF Digits
<1> DEFINE w == Len(Mending!Bytes(c))
<1>3. /\ Mending!Width(s[i]) = w /\ Mending!Character(s, i) = c /\ w \in 1 .. 4
      /\ \A k \in 1 .. w - 1 : s[i + k] \in 128 .. 191
  <2>1. CASE c < 128
    <3>1. Mending!Bytes(c) = <<c>> /\ w = 1
      BY <1>1, <2>1, SMT
    <3>2. s[i] = c
      BY <3>1, SMT
    <3> HIDE DEF w
    <3>3. Mending!Width(s[i]) = 1
      BY <2>1, <3>2, Widths, SMT
    <3>4. Mending!Character(s, i) = c
      BY <3>2, <3>3, Character1
    <3> QED BY <3>1, <3>2, <3>3, <3>4, SMT
  <2>2. CASE 128 =< c /\ c < 2048
    <3>1. Mending!Bytes(c) = <<192 + y, 128 + z>> /\ w = 2 /\ c = y * 64 + z /\ y \in 2 .. 31
      BY <1>1, <1>2, <2>2, SMT
    <3>2. s[i] = 192 + y /\ s[i + 1] = 128 + z
      BY <3>1, SMT
    <3> HIDE DEF w
    <3>3. Mending!Width(s[i]) = 2
      <4>1. 192 + y \in Nat /\ 192 + y \in 194 .. 223
        BY <1>2, <3>1, SMT
      <4> QED BY <3>2, <4>1, Widths, SMT
    <3>4. Mending!Character(s, i) = c
      <4>1. Mending!Character(s, i) = (s[i] - 192) * 64 + (s[i + 1] - 128)
        BY <3>3, Character2
      <4>2. (192 + y) - 192 = y /\ (128 + z) - 128 = z
        BY SMT
      <4>3. s[i] - 192 = y /\ s[i + 1] - 128 = z
        BY <3>2, <4>2
      <4>4. Mending!Character(s, i) = y * 64 + z
        BY <4>1, <4>3
      <4> QED BY <1>2, <3>1, <4>4
    <3>5. ASSUME NEW k \in 1 .. w - 1 PROVE s[i + k] \in 128 .. 191
      <4>1. k = 1
        BY <3>1, SMT
      <4>2. s[i + 1] \in 128 .. 191
        BY <1>2, <3>1, <3>2, SMT
      <4> QED BY <4>1, <4>2, SMT
    <3> QED BY <3>1, <3>3, <3>4, <3>5, SMT
  <2>3. CASE 2048 =< c /\ c < 65536
    <3>1. Mending!Bytes(c) = <<224 + x, 128 + y, 128 + z>> /\ w = 3 /\ c = (x * 64 + y) * 64 + z /\ x \in 0 .. 15
      BY <1>1, <1>2, <2>3, SMT
    <3>2. s[i] = 224 + x /\ s[i + 1] = 128 + y /\ s[i + 2] = 128 + z
      BY <3>1, SMT
    <3> HIDE DEF w
    <3>3. Mending!Width(s[i]) = 3
      <4>1. 224 + x \in Nat /\ 224 + x \in 224 .. 239
        BY <1>2, <3>1, SMT
      <4> QED BY <3>2, <4>1, Widths, SMT
    <3>4. Mending!Character(s, i) = c
      <4>1. Mending!Character(s, i) = ((s[i] - 224) * 64 + (s[i + 1] - 128)) * 64 + (s[i + 2] - 128)
        BY <3>3, Character3
      <4>2. (224 + x) - 224 = x /\ (128 + y) - 128 = y /\ (128 + z) - 128 = z
        BY SMT
      <4>3. s[i] - 224 = x /\ s[i + 1] - 128 = y /\ s[i + 2] - 128 = z
        BY <3>2, <4>2
      <4>4. Mending!Character(s, i) = (x * 64 + y) * 64 + z
        BY <4>1, <4>3
      <4> QED BY <1>2, <3>1, <4>4
    <3>5. ASSUME NEW k \in 1 .. w - 1 PROVE s[i + k] \in 128 .. 191
      <4>1. k = 1 \/ k = 2
        BY <3>1, SMT
      <4>2. 128 + y \in 128 .. 191 /\ 128 + z \in 128 .. 191
        BY <1>2, SMT
      <4>3. CASE k = 1
        BY <3>2, <4>2, <4>3
      <4>4. CASE k = 2
        BY <3>2, <4>2, <4>4
      <4> QED BY <4>1, <4>3, <4>4
    <3> QED BY <3>1, <3>3, <3>4, <3>5, SMT
  <2>4. CASE 65536 =< c
    <3>1. Mending!Bytes(c) = <<240 + t, 128 + x, 128 + y, 128 + z>> /\ w = 4
      BY <1>1, <2>4, SMT
    <3>2. s[i] = 240 + t /\ s[i + 1] = 128 + x /\ s[i + 2] = 128 + y /\ s[i + 3] = 128 + z
      BY <3>1, SMT
    <3> HIDE DEF w
    <3>3. Mending!Width(s[i]) = 4
      <4>1. 240 + t \in Nat /\ 240 + t \in 240 .. 244
        BY <1>2, <3>1, SMT
      <4> QED BY <3>2, <4>1, Widths, SMT
    <3>4. Mending!Character(s, i) = c
      <4>1. Mending!Character(s, i) = (((s[i] - 240) * 64 + (s[i + 1] - 128)) * 64 + (s[i + 2] - 128)) * 64 + (s[i + 3] - 128)
        BY <3>3, Character4, SMTT(60)
      <4>2. (240 + t) - 240 = t /\ (128 + x) - 128 = x /\ (128 + y) - 128 = y /\ (128 + z) - 128 = z
        BY SMT
      <4>3. s[i] - 240 = t /\ s[i + 1] - 128 = x /\ s[i + 2] - 128 = y /\ s[i + 3] - 128 = z
        BY <3>2, <4>2
      <4>4. Mending!Character(s, i) = ((t * 64 + x) * 64 + y) * 64 + z
        BY <4>1, <4>3
      <4> QED BY <1>2, <3>1, <4>4
    <3>5. ASSUME NEW k \in 1 .. w - 1 PROVE s[i + k] \in 128 .. 191
      <4>1. k = 1 \/ k = 2 \/ k = 3
        BY <3>1, SMT
      <4>2. 128 + x \in 128 .. 191 /\ 128 + y \in 128 .. 191 /\ 128 + z \in 128 .. 191
        BY <1>2, SMT
      <4>3. CASE k = 1
        BY <3>2, <4>2, <4>3
      <4>4. CASE k = 2
        BY <3>2, <4>2, <4>4
      <4>5. CASE k = 3
        BY <3>2, <4>2, <4>5
      <4> QED BY <4>1, <4>3, <4>4, <4>5
    <3> QED BY <3>1, <3>3, <3>4, <3>5, SMT
  <2> HIDE DEF w
  <2> QED BY <2>1, <2>2, <2>3, <2>4, SMT
<1>4. Mending!Bytes(c) = SubSeq(s, i, i + w - 1)
  <2>1. Mending!Bytes(c) \in Seq(0 .. 255)
    BY BytesType, SMT
  <2>2. SubSeq(s, i, i + w - 1) \in Seq(Nat) /\ Len(SubSeq(s, i, i + w - 1)) = w
    BY <1>3, SMT
  <2>3. \A k \in 1 .. w : SubSeq(s, i, i + w - 1)[k] = Mending!Bytes(c)[k]
    BY <1>3, SMT
  <2>5. 0 .. 255 \subseteq Nat
    OBVIOUS
  <2>6. Len(Mending!Bytes(c)) = w
    OBVIOUS
  <2>7. Mending!Bytes(c) \in Seq(Nat)
    BY <2>1, <2>5, WiderSequence, Zenon
  <2> HIDE DEF w
  <2> QED BY <2>2, <2>3, <2>6, <2>7, SeqEqual
<1>5. Mending!Bytes(Mending!Character(s, i)) = SubSeq(s, i, i + Mending!Width(s[i]) - 1)
  BY <1>3, <1>4, SMT
<1>6. Mending!Scalar(Mending!Character(s, i))
  BY <1>3, SMT
<1> HIDE DEF w
<1> QED
  BY <1>3, <1>5, <1>6, SMT DEF Mending!Begins, w

-----------------------------------------------------------------------------
Flattens(f, seqs) == f = [i \in 1 .. Len(seqs) |-> IF i = 1 THEN seqs[i] ELSE f[i - 1] \o seqs[i]]

(* UTF-8, a whole text: where each of its characters begins in its bytes.    *)
LEMMA FlattenObeys ==
  ASSUME NEW X, NEW seqs \in Seq(Seq(X)), seqs # <<>>
  PROVE  \E f : Mending!FlattenSeq(seqs) = f[Len(seqs)] /\ Flattens(f, seqs)
<1> DEFINE E(g, i) == IF i = 1 THEN seqs[i] ELSE g[i - 1] \o seqs[i]
<1>1. \E f : f = [i \in 1 .. Len(seqs) |-> E(f, i)]
  <2> DEFINE D == 1 .. Len(seqs)
             V == Seq(X)
             rank == [i \in D |-> i]
             step == [i \in D |-> [g \in [D -> V] |-> E(g, i)]]
  <2>1. \A i \in D, g \in [D -> V] : E(g, i) \in V
    <3> SUFFICES ASSUME NEW i \in D, NEW g \in [D -> V], i # 1 PROVE g[i - 1] \o seqs[i] \in V
      OBVIOUS
    <3>1. i - 1 \in D
      OBVIOUS
    <3>2. seqs[i] \in V
      OBVIOUS
    <3> HIDE DEF D
    <3>3. g[i - 1] \in V
      BY <3>1
    <3> QED BY <3>2, <3>3
  <2>2. \A i \in D : \A g, h \in [D -> V] :
          (\A j \in D : rank[j] < rank[i] => g[j] = h[j]) => step[i][g] = step[i][h]
    <3> SUFFICES ASSUME NEW i \in D, NEW g \in [D -> V], NEW h \in [D -> V],
                        \A j \in D : rank[j] < rank[i] => g[j] = h[j]
                 PROVE  E(g, i) = E(h, i)
      OBVIOUS
    <3>1. i # 1 => g[i - 1] = h[i - 1]
      OBVIOUS
    <3> QED BY <3>1
  <2>3. Ranked(D, rank, Len(seqs))
    BY DEF Ranked
  <2>4. V # {}
    OBVIOUS
  <2> HIDE DEF V, E
  <2>5. step \in [D -> [[D -> V] -> V]]
    BY <2>1
  <2> HIDE DEF rank, D, step
  <2>6. PICK f : Solves(f, D, V, step)
    <3>1. Recursive(D, V, rank, step)
      BY <2>2, <2>4, <2>5 DEF Recursive
    <3> QED BY <2>3, <3>1, Recursion
  <2>7. f = [i \in D |-> E(f, i)] /\ f \in [D -> V]
    BY <2>6 DEF step, Solves
  <2> QED BY <2>7 DEF D
<1> DEFINE flatten[i \in 1 .. Len(seqs)] == IF i = 1 THEN seqs[i] ELSE flatten[i - 1] \o seqs[i]
<1>2. flatten = [i \in 1 .. Len(seqs) |-> E(flatten, i)]
  BY <1>1, Zenon
<1>3. Mending!FlattenSeq(seqs) = flatten[Len(seqs)]
  <2>1. Len(seqs) # 0
    OBVIOUS
  <2> QED BY <2>1, Zenon DEF Mending!FlattenSeq
<1>4. Flattens(flatten, seqs)
  BY <1>2, Zenon DEF Flattens
<1> HIDE DEF flatten
<1> QED BY <1>3, <1>4, Zenon

Stages(f, X, seqs) ==
  /\ f \in [1 .. Len(seqs) -> Seq(X)]
  /\ f[1] = seqs[1]
  /\ \A i \in 2 .. Len(seqs) : f[i] = f[i - 1] \o seqs[i]

LEMMA FlattenType ==
  ASSUME NEW X, NEW seqs \in Seq(Seq(X)), seqs # <<>>, NEW f, Flattens(f, seqs)
  PROVE  Stages(f, X, seqs)
<1>1. f[1] = seqs[1]
  <2>1. 1 \in 1 .. Len(seqs)
    OBVIOUS
  <2> QED BY <2>1 DEF Flattens
<1>2. ASSUME NEW i \in 2 .. Len(seqs) PROVE f[i] = f[i - 1] \o seqs[i]
  <2>1. i \in 1 .. Len(seqs) /\ i # 1
    OBVIOUS
  <2> QED BY <2>1 DEF Flattens
<1> DEFINE S == {n \in Nat : \A i \in 1 .. Len(seqs) : i = n + 1 => f[i] \in Seq(X)}
<1>3. 0 \in S
  <2>1. 1 \in 1 .. Len(seqs) /\ seqs[1] \in Seq(X)
    OBVIOUS
  <2> QED BY <1>1, <2>1
<1>4. ASSUME NEW n \in Nat, n \in S PROVE n + 1 \in S
  <2> SUFFICES ASSUME NEW i \in 1 .. Len(seqs), i = n + 1 + 1 PROVE f[i] \in Seq(X)
    OBVIOUS
  <2>1. i - 1 \in 1 .. Len(seqs) /\ i \in 2 .. Len(seqs) /\ i - 1 = n + 1
    OBVIOUS
  <2>2. f[i - 1] \in Seq(X) /\ seqs[i] \in Seq(X)
    BY <1>4, <2>1
  <2>3. f[i] = f[i - 1] \o seqs[i]
    BY <1>2, <2>1
  <2>4. \A u, v \in Seq(X) : u \o v \in Seq(X)
    OBVIOUS
  <2> QED BY <2>2, <2>3, <2>4, Zenon
<1> HIDE DEF S
<1>5. \A n \in Nat : n \in S
  BY <1>3, <1>4, Induction
<1>6. ASSUME NEW i \in 1 .. Len(seqs) PROVE f[i] \in Seq(X)
  <2>1. i - 1 \in Nat /\ i - 1 + 1 = i
    OBVIOUS
  <2> QED BY <1>5, <2>1 DEF S
<1>7. f \in [1 .. Len(seqs) -> Seq(X)]
  BY <1>6 DEF Flattens
<1> QED BY <1>1, <1>2, <1>7, Zenon DEF Stages

(* The bytes of the text's k-th character are those after pos[k - 1], up to  *)
(* pos[k].                                                                   *)
Laid(t, s, pos) ==
  /\ pos \in [0 .. Len(t) -> Nat] /\ pos[0] = 0 /\ pos[Len(t)] = Len(s)
  /\ \A k \in 1 .. Len(t) :
       /\ pos[k] = pos[k - 1] + Len(Mending!Bytes(t[k]))
       /\ \A j \in 1 .. Len(Mending!Bytes(t[k])) : s[pos[k - 1] + j] = Mending!Bytes(t[k])[j]

LEMMA Concatenation ==
  ASSUME NEW X, NEW u \in Seq(X), NEW v \in Seq(X)
  PROVE  /\ u \o v \in Seq(X)
         /\ Len(u \o v) = Len(u) + Len(v)
         /\ \A n \in 1 .. Len(u) : (u \o v)[n] = u[n]
         /\ \A j \in 1 .. Len(v) : (u \o v)[Len(u) + j] = v[j]
OBVIOUS

LEMMA FlattenLays ==
  ASSUME NEW X, NEW seqs \in Seq(Seq(X)), seqs # <<>>
  PROVE  /\ Mending!FlattenSeq(seqs) \in Seq(X)
         /\ \E pos \in [0 .. Len(seqs) -> Nat] :
              /\ pos[0] = 0 /\ pos[Len(seqs)] = Len(Mending!FlattenSeq(seqs))
              /\ \A k \in 1 .. Len(seqs) :
                   /\ pos[k] = pos[k - 1] + Len(seqs[k])
                   /\ \A j \in 1 .. Len(seqs[k]) : Mending!FlattenSeq(seqs)[pos[k - 1] + j] = seqs[k][j]
<1>1. PICK f : Mending!FlattenSeq(seqs) = f[Len(seqs)] /\ Flattens(f, seqs)
  BY FlattenObeys
<1>2. /\ f \in [1 .. Len(seqs) -> Seq(X)]
      /\ f[1] = seqs[1]
      /\ \A i \in 2 .. Len(seqs) : f[i] = f[i - 1] \o seqs[i]
  <2>1. Stages(f, X, seqs)
    BY <1>1, FlattenType
  <2> QED BY <2>1, Zenon DEF Stages
<1> DEFINE L == Len(seqs)
           pos == [k \in 0 .. L |-> IF k = 0 THEN 0 ELSE Len(f[k])]
<1>3. L \in Nat /\ L > 0 /\ \A k \in 1 .. L : seqs[k] \in Seq(X)
  OBVIOUS
<1> HIDE DEF L
<1>4. ASSUME NEW k \in 2 .. L
      PROVE  /\ Len(f[k]) = Len(f[k - 1]) + Len(seqs[k])
             /\ \A n \in 1 .. Len(f[k - 1]) : f[k][n] = f[k - 1][n]
             /\ \A j \in 1 .. Len(seqs[k]) : f[k][Len(f[k - 1]) + j] = seqs[k][j]
  <2>1. k - 1 \in 1 .. L /\ k \in 1 .. L
    BY <1>3
  <2>2. f[k - 1] \in Seq(X) /\ seqs[k] \in Seq(X) /\ f[k] = f[k - 1] \o seqs[k]
    BY <1>2, <1>3, <2>1 DEF L
  <2>3. PICK u \in Seq(X), v \in Seq(X) : u = f[k - 1] /\ v = seqs[k] /\ f[k] = u \o v
    BY <2>2
  <2>4. /\ Len(u \o v) = Len(u) + Len(v)
        /\ \A n \in 1 .. Len(u) : (u \o v)[n] = u[n]
        /\ \A j \in 1 .. Len(v) : (u \o v)[Len(u) + j] = v[j]
    BY Concatenation
  <2> QED BY <2>3, <2>4, Zenon
<1>5. \A k \in 1 .. L : \A n \in 1 .. Len(f[k]) : f[L][n] = f[k][n]
  <2> DEFINE S == {m \in Nat : \A k \in 1 .. L : k + m = L => \A n \in 1 .. Len(f[k]) : f[L][n] = f[k][n]}
  <2>1. 0 \in S
    BY <1>3
  <2>2. ASSUME NEW m \in Nat, m \in S PROVE m + 1 \in S
    <3> SUFFICES ASSUME NEW k \in 1 .. L, k + (m + 1) = L, NEW n \in 1 .. Len(f[k]) PROVE f[L][n] = f[k][n]
      OBVIOUS
    <3>1. k + 1 \in 2 .. L /\ k + 1 \in 1 .. L /\ (k + 1) + m = L /\ (k + 1) - 1 = k
      BY <1>3
    <3>2. Len(f[k]) \in Nat /\ Len(seqs[k + 1]) \in Nat
      BY <1>2, <1>3, <3>1 DEF L
    <3>3. f[k + 1][n] = f[k][n] /\ Len(f[k + 1]) = Len(f[k]) + Len(seqs[k + 1])
      <4>1. PICK i \in 2 .. L : i = k + 1 /\ i - 1 = k
        BY <3>1
      <4>2. Len(f[i]) = Len(f[i - 1]) + Len(seqs[i])
        BY <1>4
      <4>3. \A q \in 1 .. Len(f[i - 1]) : f[i][q] = f[i - 1][q]
        BY <1>4
      <4> QED BY <4>1, <4>2, <4>3
    <3>4. n \in 1 .. Len(f[k + 1])
      <4>1. \A a, b \in Nat : n \in 1 .. a => n \in 1 .. a + b
        OBVIOUS
      <4> QED BY <3>2, <3>3, <4>1
    <3>5. f[L][n] = f[k + 1][n]
      BY <2>2, <3>1, <3>4
    <3> QED BY <3>3, <3>5
  <2> HIDE DEF S
  <2>3. \A m \in Nat : m \in S
    BY <2>1, <2>2, Induction
  <2> SUFFICES ASSUME NEW k \in 1 .. L PROVE \A n \in 1 .. Len(f[k]) : f[L][n] = f[k][n]
    OBVIOUS
  <2>4. L - k \in Nat /\ k + (L - k) = L
    BY <1>3
  <2> QED BY <2>3, <2>4 DEF S
<1>6. pos \in [0 .. L -> Nat] /\ pos[0] = 0 /\ pos[L] = Len(Mending!FlattenSeq(seqs))
  <2>1. \A k \in 1 .. L : Len(f[k]) \in Nat
    BY <1>2 DEF L
  <2>2. \A k \in 0 .. L : k # 0 => k \in 1 .. L
    BY <1>3
  <2>3. pos \in [0 .. L -> Nat]
    BY <2>1, <2>2
  <2>4. pos[0] = 0 /\ pos[L] = Len(f[L])
    BY <1>3
  <2> QED BY <1>1, <2>3, <2>4 DEF L
<1>7. ASSUME NEW k \in 1 .. L
      PROVE  /\ pos[k] = pos[k - 1] + Len(seqs[k])
             /\ \A j \in 1 .. Len(seqs[k]) : f[k][pos[k - 1] + j] = seqs[k][j]
             /\ \A j \in 1 .. Len(seqs[k]) : pos[k - 1] + j \in 1 .. Len(f[k])
  <2>1. CASE k = 1
    <3>1. pos[k - 1] = 0 /\ pos[k] = Len(f[k])
      BY <1>3, <2>1
    <3>2. Len(seqs[k]) \in Nat /\ f[k] = seqs[k]
      BY <1>2, <1>3, <2>1
    <3> HIDE DEF pos
    <3>3. \A j \in 1 .. Len(seqs[k]) : 0 + j = j
      OBVIOUS
    <3> QED BY <3>1, <3>2, <3>3
  <2>2. CASE k # 1
    <3>1. k \in 2 .. L /\ k - 1 \in 1 .. L
      BY <1>3, <2>2
    <3>2. pos[k - 1] = Len(f[k - 1]) /\ pos[k] = Len(f[k])
      BY <3>1
    <3>3. Len(f[k - 1]) \in Nat /\ Len(seqs[k]) \in Nat
      BY <1>2, <1>3, <3>1 DEF L
    <3>4. /\ Len(f[k]) = Len(f[k - 1]) + Len(seqs[k])
          /\ \A j \in 1 .. Len(seqs[k]) : f[k][Len(f[k - 1]) + j] = seqs[k][j]
      BY <1>4, <3>1
    <3> HIDE DEF pos
    <3>5. \A j \in 1 .. Len(seqs[k]) : pos[k - 1] + j \in 1 .. Len(f[k])
      <4>1. \A a, b \in Nat : \A j \in 1 .. b : a + j \in 1 .. a + b
        OBVIOUS
      <4> QED BY <3>2, <3>3, <3>4, <4>1
    <3> QED BY <3>2, <3>4, <3>5
  <2> QED BY <2>1, <2>2
<1> HIDE DEF pos
<1>8. ASSUME NEW k \in 1 .. L, NEW j \in 1 .. Len(seqs[k]) PROVE Mending!FlattenSeq(seqs)[pos[k - 1] + j] = seqs[k][j]
  BY <1>1, <1>5, <1>7 DEF L
<1>9. Mending!FlattenSeq(seqs) \in Seq(X)
  BY <1>1, <1>2, <1>3 DEF L
<1>10. \A k \in 1 .. L : pos[k] = pos[k - 1] + Len(seqs[k])
  BY <1>7
<1> QED BY <1>6, <1>8, <1>9, <1>10, Zenon DEF L

LEMMA Utf8Lays ==
  ASSUME NEW t \in Seq(Nat), \A k \in DOMAIN t : Mending!Scalar(t[k])
  PROVE  Mending!Utf8(t) \in Seq(Nat) /\ (\A n \in 1 .. Len(Mending!Utf8(t)) : Mending!Utf8(t)[n] < 256) /\ \E pos : Laid(t, Mending!Utf8(t), pos)
<1> DEFINE seqs == [i \in DOMAIN t |-> Mending!Bytes(t[i])]
<1>1. \A i \in 1 .. Len(t) : Mending!Bytes(t[i]) \in Seq(0 .. 255)
  <2> SUFFICES ASSUME NEW i \in 1 .. Len(t) PROVE Mending!Bytes(t[i]) \in Seq(0 .. 255)
    OBVIOUS
  <2>1. t[i] \in Nat /\ Mending!Scalar(t[i])
    OBVIOUS
  <2> QED BY <2>1, BytesType
<1>2. DOMAIN t = 1 .. Len(t) /\ Len(t) \in Nat
  OBVIOUS
<1>3. seqs \in Seq(Seq(0 .. 255)) /\ Len(seqs) = Len(t) /\ \A k \in 1 .. Len(t) : seqs[k] = Mending!Bytes(t[k])
  BY <1>1, <1>2
<1>4. Mending!Utf8(t) = Mending!FlattenSeq(seqs)
  BY DEF Mending!Utf8
<1> HIDE DEF seqs
<1>5. ASSUME NEW v \in Seq(0 .. 255) PROVE v \in Seq(Nat) /\ \A n \in 1 .. Len(v) : v[n] < 256
  <2>1. ASSUME NEW n \in 1 .. Len(v) PROVE v[n] \in Nat /\ v[n] < 256
    <3>1. v[n] \in 0 .. 255
      BY ElementOfSeq
    <3>2. \A b \in 0 .. 255 : b \in Nat /\ b < 256
      OBVIOUS
    <3> QED BY <3>1, <3>2
  <2>2. Len(v) \in Nat /\ v = [n \in 1 .. Len(v) |-> v[n]]
    OBVIOUS
  <2>3. v \in Seq(Nat)
    BY <2>1, <2>2
  <2> QED BY <2>1, <2>3
<1>6. CASE seqs = <<>>
  <2>1. Mending!Utf8(t) = <<>> /\ Len(t) = 0
    BY <1>3, <1>4, <1>6 DEF Mending!FlattenSeq
  <2> DEFINE pos == [k \in 0 .. 0 |-> 0]
  <2>2. Laid(t, Mending!Utf8(t), pos)
    BY <2>1 DEF Laid
  <2> HIDE DEF pos
  <2> QED BY <2>1, <2>2
<1>7. CASE seqs # <<>>
  <2>1. Mending!FlattenSeq(seqs) \in Seq(0 .. 255)
    BY <1>3, <1>7, FlattenLays
  <2>2. PICK pos \in [0 .. Len(seqs) -> Nat] :
              /\ pos[0] = 0 /\ pos[Len(seqs)] = Len(Mending!FlattenSeq(seqs))
              /\ \A k \in 1 .. Len(seqs) :
                   /\ pos[k] = pos[k - 1] + Len(seqs[k])
                   /\ \A j \in 1 .. Len(seqs[k]) : Mending!FlattenSeq(seqs)[pos[k - 1] + j] = seqs[k][j]
    BY <1>3, <1>7, FlattenLays
  <2>3. Laid(t, Mending!Utf8(t), pos)
    <3>1. Len(seqs) = Len(t)
      BY <1>3
    <3>2. pos \in [0 .. Len(t) -> Nat] /\ pos[0] = 0 /\ pos[Len(t)] = Len(Mending!Utf8(t))
      BY <1>4, <2>2, <3>1
    <3>3. ASSUME NEW k \in 1 .. Len(t)
          PROVE  /\ pos[k] = pos[k - 1] + Len(Mending!Bytes(t[k]))
                 /\ \A j \in 1 .. Len(Mending!Bytes(t[k])) : Mending!Utf8(t)[pos[k - 1] + j] = Mending!Bytes(t[k])[j]
      <4>1. seqs[k] = Mending!Bytes(t[k])
        BY <1>3
      <4>2. /\ pos[k] = pos[k - 1] + Len(seqs[k])
            /\ \A j \in 1 .. Len(seqs[k]) : Mending!FlattenSeq(seqs)[pos[k - 1] + j] = seqs[k][j]
        BY <2>2, <3>1
      <4> QED BY <1>4, <4>1, <4>2
    <3> QED BY <3>2, <3>3 DEF Laid
  <2> QED BY <1>4, <1>5, <2>1, <2>3
<1> QED BY <1>6, <1>7

(* The bytes of a text read as the text: from its last character back to its *)
(* first.                                                                    *)
LEMMA Utf8Decodes ==
  ASSUME NEW t \in Seq(Nat), \A k \in DOMAIN t : Mending!Scalar(t[k])
  PROVE  Mending!Decoded(Mending!Utf8(t)) = t
<1> DEFINE s == Mending!Utf8(t)
<1>1. s \in Seq(Nat)
  BY Utf8Lays
<1>2. PICK pos : Laid(t, s, pos)
  BY Utf8Lays
<1> HIDE DEF s
<1>3. PICK f : Mending!Decoded(s) = f[1] /\ Decodes(f, s)
  BY <1>1, DecodedObeys
<1> DEFINE L == Len(t)
<1>4. L \in Nat /\ Len(s) \in Nat /\ pos[0] = 0 /\ pos[L] = Len(s) /\ \A k \in 0 .. L : pos[k] \in Nat
  <2>1. L \in Nat /\ Len(s) \in Nat
    BY <1>1
  <2>2. pos[0] = 0 /\ pos[L] = Len(s) /\ pos \in [0 .. L -> Nat]
    BY <1>2 DEF Laid
  <2> QED BY <2>1, <2>2
<1>5. \A k \in 1 .. L : t[k] \in Nat /\ Mending!Scalar(t[k]) /\ Len(Mending!Bytes(t[k])) \in 1 .. 4
  <2> SUFFICES ASSUME NEW k \in 1 .. L PROVE t[k] \in Nat /\ Mending!Scalar(t[k]) /\ Len(Mending!Bytes(t[k])) \in 1 .. 4
    OBVIOUS
  <2>1. t[k] \in Nat /\ Mending!Scalar(t[k])
    OBVIOUS
  <2> QED BY <2>1, BytesType
<1> HIDE DEF L
<1>6. \A k \in 0 .. L : pos[k] =< Len(s)
  <2> DEFINE S == {m \in Nat : \A k \in 0 .. L : k + m = L => pos[k] =< Len(s)}
  <2>1. 0 \in S
    BY <1>4
  <2>2. ASSUME NEW m \in Nat, m \in S PROVE m + 1 \in S
    <3> SUFFICES ASSUME NEW k \in 0 .. L, k + (m + 1) = L PROVE pos[k] =< Len(s)
      OBVIOUS
    <3>1. PICK i \in 1 .. L : i = k + 1 /\ i - 1 = k /\ i + m = L /\ i \in 0 .. L
      BY <1>4
    <3>2. pos[i] = pos[i - 1] + Len(Mending!Bytes(t[i]))
      BY <1>2 DEF Laid, L
    <3>3. pos[i] =< Len(s)
      BY <2>2, <3>1
    <3>4. pos[i] \in Nat /\ pos[k] \in Nat /\ Len(Mending!Bytes(t[i])) \in Nat
      BY <1>4, <1>5, <3>1
    <3> QED BY <1>4, <3>1, <3>2, <3>3, <3>4
  <2> HIDE DEF S
  <2>3. \A m \in Nat : m \in S
    BY <2>1, <2>2, Induction
  <2> SUFFICES ASSUME NEW k \in 0 .. L PROVE pos[k] =< Len(s)
    OBVIOUS
  <2>4. L - k \in Nat /\ k + (L - k) = L
    BY <1>4
  <2> QED BY <2>3, <2>4 DEF S
<1> DEFINE S == {m \in Nat : \A k \in 0 .. L : k + m = L => f[pos[k] + 1] = SubSeq(t, k + 1, L)}
<1>7. 0 \in S
  <2> SUFFICES f[pos[L] + 1] = SubSeq(t, L + 1, L)
    <3>1. \A k \in 0 .. L : k + 0 = L => k = L
      BY <1>4
    <3> QED BY <3>1
  <2>1. Len(s) + 1 \in 1 .. Len(s) + 1 /\ Len(s) + 1 > Len(s)
    BY <1>4
  <2>2. f[Len(s) + 1] = <<>>
    BY <1>3, <2>1 DEF Decodes
  <2>3. SubSeq(t, L + 1, L) = <<>>
    BY <1>4
  <2> QED BY <1>4, <2>2, <2>3
<1>8. ASSUME NEW m \in Nat, m \in S PROVE m + 1 \in S
  <2> SUFFICES ASSUME NEW k \in 0 .. L, k + (m + 1) = L PROVE f[pos[k] + 1] = SubSeq(t, k + 1, L)
    OBVIOUS
  <2>1. PICK i \in 1 .. L : i = k + 1 /\ i - 1 = k /\ i + m = L /\ i \in 0 .. L
    BY <1>4
  <2>2. t[i] \in Nat /\ Mending!Scalar(t[i]) /\ Len(Mending!Bytes(t[i])) \in 1 .. 4
    BY <1>5
  <2>3. /\ pos[i] = pos[k] + Len(Mending!Bytes(t[i]))
        /\ \A j \in 1 .. Len(Mending!Bytes(t[i])) : s[pos[k] + j] = Mending!Bytes(t[i])[j]
    BY <1>2, <2>1 DEF Laid, L
  <2>4. pos[k] \in Nat /\ pos[i] \in Nat /\ pos[i] =< Len(s)
    BY <1>4, <1>6, <2>1
  <2> DEFINE a == pos[k] + 1
             w == Len(Mending!Bytes(t[i]))
  <2>5. a \in 1 .. Len(s) /\ a + w - 1 =< Len(s) /\ w \in Nat /\ a + w = pos[i] + 1 /\ ~(a > Len(s))
    <3>1. \A p, q, l \in Nat, v \in 1 .. 4 : q = p + v /\ q =< l =>
            p + 1 \in 1 .. l /\ (p + 1) + v - 1 =< l /\ (p + 1) + v = q + 1 /\ ~(p + 1 > l)
      OBVIOUS
    <3>2. /\ pos[k] \in Nat /\ pos[i] \in Nat /\ Len(s) \in Nat /\ w \in 1 .. 4
          /\ pos[i] = pos[k] + w /\ pos[i] =< Len(s)
      BY <1>4, <2>2, <2>3, <2>4
    <3> HIDE DEF w
    <3>3. a \in 1 .. Len(s) /\ a + w - 1 =< Len(s) /\ a + w = pos[i] + 1 /\ ~(a > Len(s))
      BY <3>1, <3>2
    <3> QED BY <3>2, <3>3
  <2>6. \A j \in 1 .. w : s[a + j - 1] = Mending!Bytes(t[i])[j]
    <3>1. \A j \in 1 .. w : a + j - 1 = pos[k] + j
      BY <2>4
    <3> QED BY <2>3, <3>1
  <2>7. Mending!Begins(s, a) /\ Mending!Width(s[a]) = w /\ Mending!Character(s, a) = t[i]
    BY <1>1, <2>2, <2>5, <2>6, CharacterDecodes
  <2>8. f[pos[i] + 1] = SubSeq(t, i + 1, L)
    BY <1>8, <2>1
  <2> HIDE DEF a, w
  <2>9. f[a] = IF f[a + w] = Mending!Invalid THEN Mending!Invalid ELSE <<t[i]>> \o f[a + w]
    <3>1. a \in 1 .. Len(s) + 1
      BY <1>4, <2>5
    <3> QED BY <1>3, <2>5, <2>7, <3>1 DEF Decodes
  <2>10. SubSeq(t, i + 1, L) \in Seq(Nat) /\ SubSeq(t, i + 1, L) # Mending!Invalid
    <3>1. SubSeq(t, i + 1, L) \in Seq(Nat)
      BY <1>4 DEF L
    <3>2. Mending!Invalid \notin Seq(Nat)
      <4>1. ASSUME NEW v \in Seq(Nat), Len(v) = 1 PROVE v[1] # -1
        <5>1. v[1] \in Nat
          BY <4>1, 1 \in 1 .. 1, ElementOfSeq
        <5> QED BY <5>1
      <4>2. Len(Mending!Invalid) = 1 /\ Mending!Invalid[1] = -1
        BY DEF Mending!Invalid
      <4> QED BY <4>1, <4>2
    <3> QED BY <3>1, <3>2
  <2>11. f[a] = <<t[i]>> \o SubSeq(t, i + 1, L)
    BY <2>5, <2>8, <2>9, <2>10
  <2>12. SubSeq(t, i, L) = <<t[i]>> \o SubSeq(t, i + 1, L)
    BY <1>4 DEF L
  <2> QED BY <2>1, <2>11, <2>12 DEF a
<1> HIDE DEF S
<1>9. \A m \in Nat : m \in S
  BY <1>7, <1>8, Induction
<1>10. f[1] = SubSeq(t, 1, L)
  <2>1. L \in Nat /\ 0 \in 0 .. L /\ 0 + L = L /\ pos[0] + 1 = 1 /\ 0 + 1 = 1
    BY <1>4
  <2> QED BY <1>9, <2>1 DEF S
<1>11. SubSeq(t, 1, L) = t
  BY DEF L
<1> QED BY <1>3, <1>10, <1>11 DEF s
(* A text of ASCII is its own bytes; any other has more bytes than           *)
(* characters, some of them beyond ASCII.                                    *)
LEMMA Utf8Widens ==
  ASSUME NEW t \in Seq(Nat), \A k \in DOMAIN t : Mending!Scalar(t[k])
  PROVE  /\ (\A k \in 1 .. Len(t) : t[k] < 128) => Mending!Utf8(t) = t
         /\ \A k \in 1 .. Len(t) : 128 =< t[k] =>
              Len(t) < Len(Mending!Utf8(t)) /\ \E n \in 1 .. Len(Mending!Utf8(t)) : Mending!Utf8(t)[n] >= 128
<1> DEFINE s == Mending!Utf8(t)
           L == Len(t)
<1>1. s \in Seq(Nat)
  BY Utf8Lays
<1>2. PICK pos : Laid(t, s, pos)
  BY Utf8Lays
<1> HIDE DEF s
<1>3. L \in Nat /\ Len(s) \in Nat
  BY <1>1
<1>4. /\ pos[0] = 0 /\ pos[L] = Len(s) /\ pos \in [0 .. L -> Nat]
      /\ \A k \in 1 .. L : /\ pos[k] = pos[k - 1] + Len(Mending!Bytes(t[k]))
                           /\ \A j \in 1 .. Len(Mending!Bytes(t[k])) : s[pos[k - 1] + j] = Mending!Bytes(t[k])[j]
  BY <1>2 DEF Laid
<1>5. ASSUME NEW k \in 1 .. L
      PROVE  /\ t[k] \in Nat /\ Len(Mending!Bytes(t[k])) \in 1 .. 4
             /\ t[k] < 128 => Mending!Bytes(t[k]) = <<t[k]>>
             /\ 128 =< t[k] => Len(Mending!Bytes(t[k])) > 1 /\ Mending!Bytes(t[k])[1] >= 128
  <2>1. t[k] \in Nat /\ Mending!Scalar(t[k])
    OBVIOUS
  <2> QED BY <2>1, BytesType
<1> HIDE DEF L
<1>6. ASSUME \A k \in 1 .. L : t[k] < 128 PROVE s = t
  <2>1. ASSUME NEW k \in 1 .. L PROVE pos[k] = pos[k - 1] + 1 /\ s[pos[k - 1] + 1] = t[k]
    <3>1. Mending!Bytes(t[k]) = <<t[k]>>
      BY <1>5, <1>6
    <3>2. Len(Mending!Bytes(t[k])) = 1 /\ Mending!Bytes(t[k])[1] = t[k]
      BY <3>1
    <3>3. 1 \in 1 .. 1
      OBVIOUS
    <3> QED BY <1>4, <3>2, <3>3
  <2> DEFINE S == {n \in Nat : n =< L => pos[n] = n}
  <2>2. 0 \in S
    BY <1>4
  <2>3. ASSUME NEW n \in Nat, n \in S PROVE n + 1 \in S
    <3> SUFFICES ASSUME n + 1 =< L PROVE pos[n + 1] = n + 1
      OBVIOUS
    <3>1. PICK k \in 1 .. L : k = n + 1 /\ k - 1 = n
      BY <1>3
    <3>2. pos[n] = n
      BY <1>3, <2>3
    <3> QED BY <2>1, <3>1, <3>2
  <2> HIDE DEF S
  <2>4. \A n \in Nat : n \in S
    BY <2>2, <2>3, Induction
  <2>5. \A n \in 0 .. L : pos[n] = n
    BY <1>3, <2>4 DEF S
  <2>6. Len(s) = L
    BY <1>3, <1>4, <2>5
  <2>7. ASSUME NEW k \in 1 .. L PROVE s[k] = t[k]
    <3>1. pos[k - 1] = k - 1 /\ (k - 1) + 1 = k
      BY <1>3, <2>5
    <3> QED BY <2>1, <3>1
  <2> QED BY <1>1, <2>6, <2>7, SeqEqual DEF L
<1>7. ASSUME NEW i \in 1 .. L, 128 =< t[i]
      PROVE  L < Len(s) /\ \E n \in 1 .. Len(s) : s[n] >= 128
  <2>1. \A k \in 1 .. L : pos[k] > pos[k - 1] /\ pos[k] \in Nat /\ pos[k - 1] \in Nat
    <3> SUFFICES ASSUME NEW k \in 1 .. L PROVE pos[k] > pos[k - 1] /\ pos[k] \in Nat /\ pos[k - 1] \in Nat
      OBVIOUS
    <3>1. k \in 0 .. L /\ k - 1 \in 0 .. L
      BY <1>3
    <3>2. pos[k] \in Nat /\ pos[k - 1] \in Nat
      BY <1>4, <3>1
    <3>3. pos[k] = pos[k - 1] + Len(Mending!Bytes(t[k])) /\ Len(Mending!Bytes(t[k])) \in 1 .. 4
      BY <1>4, <1>5
    <3>4. \A p, q \in Nat, b \in 1 .. 4 : q = p + b => q > p
      OBVIOUS
    <3> QED BY <3>2, <3>3, <3>4
  <2>2. pos[i] > pos[i - 1] + 1
    <3>1. pos[i] = pos[i - 1] + Len(Mending!Bytes(t[i])) /\ Len(Mending!Bytes(t[i])) > 1 /\ Len(Mending!Bytes(t[i])) \in 1 .. 4
      BY <1>4, <1>5, <1>7
    <3> QED BY <2>1, <3>1
  <2> DEFINE S == {n \in Nat : n =< L => pos[n] >= n /\ (n >= i => pos[n] > n)}
  <2>3. 0 \in S
    BY <1>3, <1>4
  <2>4. ASSUME NEW n \in Nat, n \in S PROVE n + 1 \in S
    <3> SUFFICES ASSUME n + 1 =< L PROVE pos[n + 1] >= n + 1 /\ (n + 1 >= i => pos[n + 1] > n + 1)
      OBVIOUS
    <3>1. PICK k \in 1 .. L : k = n + 1 /\ k - 1 = n
      BY <1>3
    <3>2. pos[n] >= n /\ (n >= i => pos[n] > n)
      BY <1>3, <2>4
    <3>3. pos[k] > pos[n] /\ pos[k] \in Nat /\ pos[n] \in Nat
      BY <2>1, <3>1
    <3>4. CASE k = i
      BY <2>2, <3>1, <3>2, <3>3, <3>4
    <3>5. CASE k # i
      <4>1. k >= i => n >= i
        BY <3>1, <3>5
      <4> QED BY <3>1, <3>2, <3>3, <4>1
    <3> QED BY <3>4, <3>5
  <2> HIDE DEF S
  <2>5. \A n \in Nat : n \in S
    BY <2>3, <2>4, Induction
  <2>6. L < Len(s)
    BY <1>3, <1>4, <2>5 DEF S
  <2>7. pos[i - 1] + 1 =< Len(s)
    <3> DEFINE U == {m \in Nat : \A k \in 0 .. L : k + m = L => pos[k] =< Len(s)}
    <3>1. 0 \in U
      BY <1>3, <1>4
    <3>2. ASSUME NEW m \in Nat, m \in U PROVE m + 1 \in U
      <4> SUFFICES ASSUME NEW k \in 0 .. L, k + (m + 1) = L PROVE pos[k] =< Len(s)
        OBVIOUS
      <4>1. PICK q \in 1 .. L : q = k + 1 /\ q - 1 = k /\ q + m = L /\ q \in 0 .. L
        BY <1>3
      <4>2. pos[q] =< Len(s)
        BY <3>2, <4>1
      <4> QED BY <1>3, <2>1, <4>1, <4>2
    <3> HIDE DEF U
    <3>3. \A m \in Nat : m \in U
      BY <3>1, <3>2, Induction
    <3>4. L - i \in Nat /\ i + (L - i) = L /\ i \in 0 .. L
      BY <1>3
    <3>5. pos[i] =< Len(s)
      BY <3>3, <3>4 DEF U
    <3> QED BY <1>3, <2>1, <2>2, <3>5
  <2>8. s[pos[i - 1] + 1] = Mending!Bytes(t[i])[1] /\ Mending!Bytes(t[i])[1] >= 128
    <3>1. 1 \in 1 .. Len(Mending!Bytes(t[i]))
      BY <1>5
    <3> QED BY <1>4, <1>5, <1>7, <3>1
  <2>9. pos[i - 1] + 1 \in 1 .. Len(s)
    BY <1>3, <2>1, <2>7
  <2> QED BY <2>6, <2>8, <2>9
<1> QED BY <1>6, <1>7 DEF s, L

(* fix_facebook_mojibake undoes what the exporter does to a text, for every  *)
(* text of characters, of any length: also where it mends nothing, since a   *)
(* text all of whose characters are ASCII is exported as it is.              *)
THEOREM MojibakeUndone ==
  ASSUME NEW t \in Seq(Nat), \A k \in DOMAIN t : Mending!Scalar(t[k])
  PROVE  Mending!FixMojibake(Mending!Utf8(t)) = t
<1> DEFINE s == Mending!Utf8(t)
<1>1. s \in Seq(Nat) /\ \A n \in 1 .. Len(s) : s[n] < 256
  BY Utf8Lays
<1>2. Mending!Decoded(s) = t
  BY Utf8Decodes
<1>3. /\ (\A k \in 1 .. Len(t) : t[k] < 128) => s = t
      /\ \A k \in 1 .. Len(t) : 128 =< t[k] => Len(t) < Len(s) /\ \E n \in 1 .. Len(s) : s[n] >= 128
  BY Utf8Widens
<1> HIDE DEF s
<1>4. t # Mending!Invalid
  <2>1. t = Mending!Invalid => Len(t) = 1 /\ t[1] = -1
    BY DEF Mending!Invalid
  <2>2. Len(t) = 1 => t[1] \in Nat
    BY 1 \in 1 .. 1, ElementOfSeq
  <2> QED BY <2>1, <2>2
<1>5. \A k \in 1 .. Len(t) : t[k] \in Nat
  OBVIOUS
<1>6. DOMAIN s = 1 .. Len(s) /\ \A n \in 1 .. Len(s) : s[n] \in Nat
  BY <1>1
<1>7. CASE \A k \in 1 .. Len(t) : t[k] < 128
  <2>1. s = t
    BY <1>3, <1>7
  <2>2. ~\E i \in DOMAIN s : s[i] \in 128 .. 255
    <3>1. ASSUME NEW i \in 1 .. Len(s), s[i] \in 128 .. 255 PROVE FALSE
      <4>1. s[i] \in Nat /\ s[i] < 128
        BY <1>6, <1>7, <2>1
      <4>2. \A b \in Nat : b < 128 => b \notin 128 .. 255
        OBVIOUS
      <4> QED BY <3>1, <4>1, <4>2
    <3> QED BY <1>6, <3>1
  <2> QED BY <2>1, <2>2 DEF Mending!FixMojibake, s
<1>8. CASE \E k \in 1 .. Len(t) : 128 =< t[k]
  <2>1. Len(t) < Len(s)
    BY <1>3, <1>8
  <2>2. PICK n \in 1 .. Len(s) : s[n] >= 128
    BY <1>3, <1>8
  <2>3. s[n] \in 128 .. 255
    <3>1. s[n] \in Nat /\ s[n] < 256
      BY <1>1, <1>6
    <3>2. \A b \in Nat : b >= 128 /\ b < 256 => b \in 128 .. 255
      OBVIOUS
    <3> QED BY <2>2, <3>1, <3>2
  <2>4. /\ \E i \in DOMAIN s : s[i] \in 128 .. 255
        /\ \A i \in DOMAIN s : s[i] < 256
    BY <1>1, <1>6, <2>3
  <2>5. Mending!FixMojibake(s) = Mending!Decoded(s)
    BY <1>2, <1>4, <2>1, <2>4 DEF Mending!FixMojibake
  <2> QED BY <1>2, <2>5 DEF s
<1> QED BY <1>5, <1>7, <1>8

-----------------------------------------------------------------------------
(* Where the characters of a text lie among its bytes.                       *)
LEMMA LaidGrows ==
  ASSUME NEW t \in Seq(Nat), \A k \in DOMAIN t : Mending!Scalar(t[k]), NEW s, NEW pos, Laid(t, s, pos)
  PROVE  /\ pos[0] = 0 /\ pos[Len(t)] = Len(s) /\ Len(t) \in Nat
         /\ \A k \in 0 .. Len(t) : pos[k] \in Nat
         /\ \A k \in 1 .. Len(t) :
              /\ t[k] \in Nat /\ Mending!Scalar(t[k]) /\ Len(Mending!Bytes(t[k])) \in 1 .. 4
              /\ pos[k] = pos[k - 1] + Len(Mending!Bytes(t[k]))
              /\ \A j \in 1 .. Len(Mending!Bytes(t[k])) : s[pos[k - 1] + j] = Mending!Bytes(t[k])[j]
         /\ \A i, k \in 0 .. Len(t) : i =< k => pos[i] =< pos[k]
<1> DEFINE L == Len(t)
<1>1. L \in Nat /\ \A k \in 1 .. L : t[k] \in Nat /\ Mending!Scalar(t[k])
  OBVIOUS
<1>2. \A k \in 1 .. L : Len(Mending!Bytes(t[k])) \in 1 .. 4
  <2> SUFFICES ASSUME NEW k \in 1 .. L PROVE Len(Mending!Bytes(t[k])) \in 1 .. 4
    OBVIOUS
  <2> QED BY <1>1, BytesType
<1>3. /\ pos[0] = 0 /\ pos[L] = Len(s) /\ pos \in [0 .. L -> Nat]
      /\ \A k \in 1 .. L : /\ pos[k] = pos[k - 1] + Len(Mending!Bytes(t[k]))
                           /\ \A j \in 1 .. Len(Mending!Bytes(t[k])) : s[pos[k - 1] + j] = Mending!Bytes(t[k])[j]
  BY DEF Laid
<1> HIDE DEF L
<1>4. \A k \in 0 .. L : pos[k] \in Nat
  BY <1>3
<1> DEFINE S == {n \in Nat : \A i, k \in 0 .. L : k = i + n => pos[i] =< pos[k]}
<1>5. 0 \in S
  BY <1>4
<1>6. ASSUME NEW n \in Nat, n \in S PROVE n + 1 \in S
  <2> SUFFICES ASSUME NEW i \in 0 .. L, NEW k \in 0 .. L, k = i + (n + 1) PROVE pos[i] =< pos[k]
    OBVIOUS
  <2>1. PICK h \in 0 .. L : h = k - 1 /\ h = i + n /\ k \in 1 .. L
    BY <1>1
  <2>2. pos[i] =< pos[h]
    BY <1>6, <2>1
  <2>3. pos[k] = pos[h] + Len(Mending!Bytes(t[k])) /\ Len(Mending!Bytes(t[k])) \in 1 .. 4
    BY <1>2, <1>3, <2>1
  <2> QED BY <1>4, <2>2, <2>3
<1> HIDE DEF S
<1>7. \A n \in Nat : n \in S
  BY <1>5, <1>6, Induction
<1>8. ASSUME NEW i \in 0 .. L, NEW k \in 0 .. L, i =< k PROVE pos[i] =< pos[k]
  <2>1. k - i \in Nat /\ k = i + (k - i)
    BY <1>1, <1>8
  <2> QED BY <1>7, <2>1 DEF S
<1> QED BY <1>1, <1>2, <1>3, <1>4, <1>8 DEF L

LEMMA LaidCovers ==
  ASSUME NEW t \in Seq(Nat), \A k \in DOMAIN t : Mending!Scalar(t[k]), NEW s, NEW pos, Laid(t, s, pos),
         NEW n \in 1 .. Len(s)
  PROVE  \E k \in 1 .. Len(t) : \E j \in 1 .. Len(Mending!Bytes(t[k])) : n = pos[k - 1] + j
<1> DEFINE L == Len(t)
           Covered == \E k \in 1 .. L : \E j \in 1 .. Len(Mending!Bytes(t[k])) : n = pos[k - 1] + j
           S == {m \in Nat : m =< L /\ n =< pos[m] => Covered}
<1>1. /\ pos[0] = 0 /\ pos[L] = Len(s) /\ L \in Nat
      /\ \A k \in 0 .. L : pos[k] \in Nat
      /\ \A k \in 1 .. L : /\ Len(Mending!Bytes(t[k])) \in 1 .. 4
                           /\ pos[k] = pos[k - 1] + Len(Mending!Bytes(t[k]))
  BY LaidGrows
<1> HIDE DEF L
<1>2. 0 \in S
  BY <1>1
<1>3. ASSUME NEW m \in Nat, m \in S PROVE m + 1 \in S
  <2> SUFFICES ASSUME m + 1 =< L, n =< pos[m + 1] PROVE Covered
    OBVIOUS
  <2>1. PICK k \in 1 .. L : k = m + 1 /\ k - 1 = m /\ m \in 0 .. L
    BY <1>1
  <2>2. CASE n =< pos[m]
    BY <1>1, <1>3, <2>2
  <2>3. CASE ~(n =< pos[m])
    <3>1. pos[k] = pos[k - 1] + Len(Mending!Bytes(t[k])) /\ Len(Mending!Bytes(t[k])) \in 1 .. 4
          /\ pos[k - 1] \in Nat
      BY <1>1, <2>1
    <3>2. \A x, q, r \in Nat, w \in 1 .. 4 :
            r = q + w /\ x =< r /\ ~(x =< q) => x - q \in 1 .. w /\ x = q + (x - q)
      OBVIOUS
    <3>3. n \in Nat /\ pos[k] \in Nat /\ n =< pos[k] /\ ~(n =< pos[k - 1])
      BY <1>1, <2>1, <2>3
    <3>4. n - pos[k - 1] \in 1 .. Len(Mending!Bytes(t[k])) /\ n = pos[k - 1] + (n - pos[k - 1])
      BY <3>1, <3>2, <3>3
    <3> QED BY <3>4
  <2> QED BY <2>2, <2>3
<1> HIDE DEF S, Covered
<1>4. \A m \in Nat : m \in S
  BY <1>2, <1>3, Induction
<1>5. Covered
  BY <1>1, <1>4 DEF S
<1> QED BY <1>5 DEF Covered, L

(* So a text has one sequence of bytes.                                      *)
LEMMA LaidSame ==
  ASSUME NEW t \in Seq(Nat), \A k \in DOMAIN t : Mending!Scalar(t[k]),
         NEW s, s \in Seq(Nat), NEW u, u \in Seq(Nat), NEW pos, NEW qos, Laid(t, s, pos), Laid(t, u, qos)
  PROVE  s = u
<1> DEFINE L == Len(t)
           S == {n \in Nat : n =< L => pos[n] = qos[n]}
<1>1. /\ pos[0] = 0 /\ pos[L] = Len(s) /\ L \in Nat
      /\ \A k \in 1 .. L : /\ pos[k] = pos[k - 1] + Len(Mending!Bytes(t[k]))
                           /\ \A j \in 1 .. Len(Mending!Bytes(t[k])) : s[pos[k - 1] + j] = Mending!Bytes(t[k])[j]
  BY DEF Laid
<1>2. /\ qos[0] = 0 /\ qos[L] = Len(u)
      /\ \A k \in 1 .. L : /\ qos[k] = qos[k - 1] + Len(Mending!Bytes(t[k]))
                           /\ \A j \in 1 .. Len(Mending!Bytes(t[k])) : u[qos[k - 1] + j] = Mending!Bytes(t[k])[j]
  BY DEF Laid
<1> HIDE DEF L
<1>3. 0 \in S
  BY <1>1, <1>2
<1>4. ASSUME NEW n \in Nat, n \in S PROVE n + 1 \in S
  <2> SUFFICES ASSUME n + 1 =< L PROVE pos[n + 1] = qos[n + 1]
    OBVIOUS
  <2>1. PICK k \in 1 .. L : k = n + 1 /\ k - 1 = n
    BY <1>1
  <2>2. pos[n] = qos[n]
    BY <1>1, <1>4
  <2> QED BY <1>1, <1>2, <2>1, <2>2
<1> HIDE DEF S
<1>5. \A n \in Nat : n \in S
  BY <1>3, <1>4, Induction
<1>6. \A n \in 0 .. L : pos[n] = qos[n]
  BY <1>1, <1>5 DEF S
<1>7. Len(s) = Len(u)
  BY <1>1, <1>2, <1>6
<1>8. ASSUME NEW n \in 1 .. Len(s) PROVE s[n] = u[n]
  <2>1. PICK k \in 1 .. L : \E j \in 1 .. Len(Mending!Bytes(t[k])) : n = pos[k - 1] + j
    BY LaidCovers DEF L
  <2>2. PICK j \in 1 .. Len(Mending!Bytes(t[k])) : n = pos[k - 1] + j
    BY <2>1
  <2>3. pos[k - 1] = qos[k - 1]
    BY <1>1, <1>6
  <2>4. s[n] = Mending!Bytes(t[k])[j]
    BY <1>1, <2>2
  <2>5. u[n] = Mending!Bytes(t[k])[j]
    BY <1>2, <2>2, <2>3
  <2> QED BY <2>4, <2>5
<1> QED BY <1>7, <1>8, SeqEqual

LEMMA Stretch ==
  ASSUME NEW p \in Nat, NEW q \in Nat, p =< q
  PROVE  /\ p + 1 \in Int /\ q \in Int
         /\ (IF p + 1 =< q THEN q - (p + 1) + 1 ELSE 0) = q - p
         /\ q - (p + 1) + 1 = q - p /\ \A i \in 1 .. q - p : (p + 1) + i - 1 = p + i
OBVIOUS

LEMMA Shifted ==
  ASSUME NEW p \in Nat, NEW q \in Nat, NEW x \in Nat, NEW y \in Nat, NEW w \in Nat,
         x = y + w, p =< y, x =< q
  PROVE  /\ x - p = (y - p) + w
         /\ \A v \in 1 .. w : (y - p) + v \in 1 .. q - p /\ p + ((y - p) + v) = y + v
OBVIOUS

(* The bytes of a part of a text are a part of its bytes.                    *)
LEMMA LaidPart ==
  ASSUME NEW m \in Seq(Nat), \A k \in DOMAIN m : Mending!Scalar(m[k]),
         NEW pos, Laid(m, Mending!Utf8(m), pos), NEW a \in 1 .. Len(m), NEW b \in a .. Len(m)
  PROVE  Mending!Utf8(SubSeq(m, a, b)) = SubSeq(Mending!Utf8(m), pos[a - 1] + 1, pos[b])
<1>1. PICK s : s = Mending!Utf8(m)
  OBVIOUS
<1>2. s \in Seq(Nat) /\ Laid(m, s, pos)
  BY <1>1, Utf8Lays
<1> DEFINE L == Len(m)
           n == b - a + 1
<1>3. /\ pos[L] = Len(s) /\ L \in Nat
      /\ \A k \in 0 .. L : pos[k] \in Nat
      /\ \A k \in 1 .. L :
              /\ Len(Mending!Bytes(m[k])) \in 1 .. 4
              /\ pos[k] = pos[k - 1] + Len(Mending!Bytes(m[k]))
              /\ \A j \in 1 .. Len(Mending!Bytes(m[k])) : s[pos[k - 1] + j] = Mending!Bytes(m[k])[j]
      /\ \A i, k \in 0 .. L : i =< k => pos[i] =< pos[k]
  BY <1>2, LaidGrows
<1>4. PICK t \in Seq(Nat) : /\ t = SubSeq(m, a, b) /\ Len(t) = n
                            /\ \A k \in 1 .. n : t[k] = m[a - 1 + k]
  <2>1. /\ SubSeq(m, a, b) \in Seq(Nat) /\ Len(SubSeq(m, a, b)) = n
        /\ \A k \in 1 .. n : SubSeq(m, a, b)[k] = m[a - 1 + k]
    OBVIOUS
  <2> QED BY <2>1
<1> HIDE DEF L, n
<1>5. a \in 1 .. L /\ b \in a .. L /\ n \in Nat /\ n = b - a + 1 /\ n > 0 /\ a - 1 \in 0 .. L /\ b \in 0 .. L
  BY <1>3 DEF L, n
<1>6. PICK p \in Nat, q \in Nat : p = pos[a - 1] /\ q = pos[b] /\ p =< q /\ q =< Len(s)
  <2>1. a - 1 \in 0 .. L /\ b \in 0 .. L /\ L \in 0 .. L /\ a - 1 =< b /\ b =< L
    BY <1>3, <1>5
  <2>2. pos[a - 1] \in Nat /\ pos[b] \in Nat /\ pos[a - 1] =< pos[b] /\ pos[b] =< Len(s)
    BY <1>3, <2>1
  <2> QED BY <2>2
<1>7. PICK u \in Seq(Nat) : /\ u = SubSeq(s, p + 1, q) /\ Len(u) = q - p
                            /\ \A i \in 1 .. q - p : u[i] = s[p + i]
  <2>1. /\ p + 1 \in Int /\ q \in Int
        /\ (IF p + 1 =< q THEN q - (p + 1) + 1 ELSE 0) = q - p
        /\ q - (p + 1) + 1 = q - p /\ \A i \in 1 .. q - p : (p + 1) + i - 1 = p + i
    BY <1>6, Stretch, Zenon
  <2>2. \A i \in p + 1 .. q : s[i] \in Nat
    <3>1. \A i \in p + 1 .. q : i \in 1 .. Len(s)
      BY <1>6
    <3> QED BY <1>2, <3>1, ElementOfSeq
  <2>3. /\ SubSeq(s, p + 1, q) \in Seq(Nat)
        /\ Len(SubSeq(s, p + 1, q)) = q - p
        /\ \A i \in 1 .. q - p : SubSeq(s, p + 1, q)[i] = s[p + i]
    BY <2>1, <2>2, SubSeqProperties
  <2> QED BY <2>3
<1> DEFINE qos == [k \in 0 .. n |-> pos[a - 1 + k] - p]
<1>8. \A k \in 0 .. n : /\ a - 1 + k \in 0 .. L /\ pos[a - 1 + k] \in Nat
                        /\ p =< pos[a - 1 + k] /\ pos[a - 1 + k] =< q
  <2> SUFFICES ASSUME NEW k \in 0 .. n
               PROVE  /\ a - 1 + k \in 0 .. L /\ pos[a - 1 + k] \in Nat
                      /\ p =< pos[a - 1 + k] /\ pos[a - 1 + k] =< q
    OBVIOUS
  <2>1. PICK i \in 0 .. L : i = a - 1 + k /\ a - 1 =< i /\ i =< b
    BY <1>3, <1>5
  <2> QED BY <1>3, <1>5, <1>6, <2>1
<1>9. qos \in [0 .. n -> Nat]
  <2>1. \A x \in Nat : p =< x => x - p \in Nat
    OBVIOUS
  <2>2. \A k \in 0 .. n : pos[a - 1 + k] - p \in Nat
    BY <1>8, <2>1, Zenon
  <2> QED BY <2>2
<1>10. qos[0] = 0 /\ qos[n] = Len(u)
  <2>1. 0 \in 0 .. n /\ n \in 0 .. n /\ a - 1 + 0 = a - 1 /\ a - 1 + n = b
    BY <1>5
  <2>2. qos[0] = p - p /\ qos[n] = q - p
    BY <1>6, <2>1
  <2> QED BY <1>6, <1>7, <2>2
<1>11. ASSUME NEW k \in 1 .. n
       PROVE  /\ qos[k] = qos[k - 1] + Len(Mending!Bytes(t[k]))
              /\ \A j \in 1 .. Len(Mending!Bytes(t[k])) : u[qos[k - 1] + j] = Mending!Bytes(t[k])[j]
  <2>1. PICK i \in 1 .. L : i = a - 1 + k /\ i - 1 = a - 1 + (k - 1) /\ k - 1 \in 0 .. n /\ k \in 0 .. n
    BY <1>3, <1>5
  <2>2. t[k] = m[i]
    BY <1>4, <2>1
  <2>3. /\ pos[i] = pos[i - 1] + Len(Mending!Bytes(m[i])) /\ Len(Mending!Bytes(m[i])) \in 1 .. 4
        /\ \A j \in 1 .. Len(Mending!Bytes(m[i])) : s[pos[i - 1] + j] = Mending!Bytes(m[i])[j]
    BY <1>3
  <2>4. qos[k] = pos[i] - p /\ qos[k - 1] = pos[i - 1] - p
    BY <2>1
  <2>5. pos[i] \in Nat /\ pos[i - 1] \in Nat /\ p =< pos[i - 1] /\ pos[i] =< q
    BY <1>8, <2>1
  <2> HIDE DEF qos
  <2>6. PICK x \in Nat, y \in Nat, w \in Nat :
          x = pos[i] /\ y = pos[i - 1] /\ w = Len(Mending!Bytes(m[i])) /\ x = y + w /\ p =< y /\ x =< q
    <3>1. Len(Mending!Bytes(m[i])) \in Nat
      BY <2>3
    <3> QED BY <2>3, <2>5, <3>1, Zenon
  <2>7. /\ x - p = (y - p) + w
        /\ \A v \in 1 .. w : (y - p) + v \in 1 .. q - p /\ p + ((y - p) + v) = y + v
    <3>1. x = y + w /\ p =< y /\ x =< q
      BY <2>6
    <3> QED BY <3>1, Shifted
  <2>8. qos[k] = qos[k - 1] + Len(Mending!Bytes(t[k]))
    BY <2>2, <2>4, <2>6, <2>7
  <2>9. ASSUME NEW j \in 1 .. Len(Mending!Bytes(t[k])) PROVE u[qos[k - 1] + j] = Mending!Bytes(t[k])[j]
    <3>1. qos[k - 1] + j \in 1 .. q - p /\ p + (qos[k - 1] + j) = pos[i - 1] + j
      <4>1. j \in 1 .. w
        BY <2>2, <2>6
      <4>2. (y - p) + j \in 1 .. q - p /\ p + ((y - p) + j) = y + j
        BY <2>7, <4>1
      <4> QED BY <2>4, <2>6, <4>2
    <3>2. u[qos[k - 1] + j] = s[pos[i - 1] + j]
      BY <1>7, <3>1
    <3> QED BY <2>2, <2>3, <3>2
  <2> QED BY <2>8, <2>9
<1>12. Laid(t, u, qos)
  <2> HIDE DEF qos
  <2> QED BY <1>4, <1>9, <1>10, <1>11 DEF Laid
<1> HIDE DEF qos
<1>13. \A k \in DOMAIN t : Mending!Scalar(t[k])
  <2>1. DOMAIN t = 1 .. n
    BY <1>4
  <2>2. \A k \in 1 .. n : a - 1 + k \in DOMAIN m
    BY <1>3, <1>5 DEF L
  <2> QED BY <1>4, <2>1, <2>2
<1>14. PICK ros : Mending!Utf8(t) \in Seq(Nat) /\ Laid(t, Mending!Utf8(t), ros)
  BY <1>13, Utf8Lays
<1>15. Mending!Utf8(t) = u
  BY <1>7, <1>12, <1>13, <1>14, LaidSame
<1> QED BY <1>1, <1>4, <1>6, <1>7, <1>15

-----------------------------------------------------------------------------
(* What is left of a sequence that is trimmed.                               *)
Bounds(s, space, a, b) ==
  /\ a \in 1 .. Len(s) /\ b \in a .. Len(s) /\ s[a] \notin space /\ s[b] \notin space
  /\ \A k \in 1 .. Len(s) : k < a \/ b < k => s[k] \in space

LEMMA Least ==
  ASSUME NEW S, S \subseteq Nat, S # {}
  PROVE  \E a \in S : \A k \in S : a =< k
<1>1. IsWellFoundedOn(OpToRel(<, Nat), Nat)
  BY NatLessThanWellFounded
<1>2. PICK a \in S : \A k \in S : ~(<<k, a>> \in OpToRel(<, Nat))
  BY <1>1, WFMin
<1>3. \A k \in S : ~(k < a)
  BY <1>2 DEF OpToRel
<1> QED BY <1>3

LEMMA TrimIs ==
  ASSUME NEW s \in Seq(Nat), NEW space, NEW a, NEW b, Bounds(s, space, a, b)
  PROVE  Mending!Trim(s, space) = SubSeq(s, a, b)
<1> DEFINE kept == {i \in DOMAIN s : s[i] \notin space}
<1>1. /\ a \in 1 .. Len(s) /\ b \in a .. Len(s) /\ s[a] \notin space /\ s[b] \notin space
      /\ \A k \in 1 .. Len(s) : k < a \/ b < k => s[k] \in space
  BY DEF Bounds
<1>2. Len(s) \in Nat /\ DOMAIN s = 1 .. Len(s)
  OBVIOUS
<1>3. a \in kept /\ b \in kept /\ \A k \in kept : k \in Nat /\ a =< k /\ k =< b
  BY <1>1, <1>2
<1>4. Mending!Trim(s, space) = IF kept = {} THEN <<>> ELSE SubSeq(s, Mending!Min(kept), Mending!Max(kept))
  BY DEF Mending!Trim
<1>5. a \in Nat /\ b \in Nat
  BY <1>3
<1> HIDE DEF kept
<1>6. Mending!Min(kept) = a
  <2>1. \A x \in kept : (\A y \in kept : x =< y) => x = a
    BY <1>3, <1>5
  <2> QED BY <1>3, <2>1 DEF Mending!Min
<1>7. Mending!Max(kept) = b
  <2>1. \A x \in kept : (\A y \in kept : x >= y) => x = b
    BY <1>3, <1>5
  <2>2. \A y \in kept : b >= y
    BY <1>3, <1>5
  <2> QED BY <1>3, <2>1, <2>2 DEF Mending!Max
<1> QED BY <1>3, <1>4, <1>6, <1>7

LEMMA TrimOf ==
  ASSUME NEW s \in Seq(Nat), NEW space
  PROVE  \/ Mending!Trim(s, space) = <<>> /\ \A k \in 1 .. Len(s) : s[k] \in space
         \/ \E a, b : Bounds(s, space, a, b)
<1> DEFINE kept == {i \in DOMAIN s : s[i] \notin space}
           back == {Len(s) - i : i \in kept}
<1>1. Len(s) \in Nat /\ DOMAIN s = 1 .. Len(s)
  OBVIOUS
<1>2. CASE kept = {}
  BY <1>1, <1>2 DEF Mending!Trim
<1>3. CASE kept # {}
  <2>1. kept \subseteq 1 .. Len(s) /\ kept \subseteq Nat /\ back \subseteq Nat /\ back # {}
    BY <1>1, <1>3
  <2>2. PICK a \in kept : \A k \in kept : a =< k
    BY <1>3, <2>1, Least
  <2>3. PICK d \in back : \A k \in back : d =< k
    BY <2>1, Least
  <2>4. PICK b \in kept : d = Len(s) - b
    BY <2>3
  <2>5. \A k \in kept : k =< b
    <3> SUFFICES ASSUME NEW k \in kept PROVE k =< b
      OBVIOUS
    <3>1. Len(s) - k \in back
      OBVIOUS
    <3>2. Len(s) - b =< Len(s) - k /\ k \in Nat /\ b \in Nat
      BY <2>1, <2>3, <2>4, <3>1
    <3> QED BY <1>1, <3>2
  <2>6. \A k \in 1 .. Len(s) : k \in kept \/ s[k] \in space
    BY <1>1
  <2>7. s[a] \notin space /\ s[b] \notin space
    OBVIOUS
  <2> HIDE DEF kept
  <2>8. a \in 1 .. Len(s) /\ b \in 1 .. Len(s) /\ a =< b
    BY <2>1, <2>2
  <2>9. \A k \in 1 .. Len(s) : k < a \/ b < k => k \notin kept
    BY <2>2, <2>5, <2>8
  <2>10. b \in a .. Len(s)
    BY <1>1, <2>8
  <2> QED BY <2>6, <2>7, <2>8, <2>9, <2>10, Zenon DEF Bounds
<1> QED BY <1>2, <1>3

(* A character beyond ASCII does not begin like white space; it may end so.  *)
LEMMA FirstByte ==
  ASSUME NEW c \in Nat, Mending!Scalar(c)
  PROVE  128 =< c => Mending!Bytes(c)[1] > 160
<1>1. PICK t, x, y, z \in Nat :
           /\ Digits(c, t, x, y, z)
           /\ c < 128 => Mending!Bytes(c) = <<c>>
           /\ 128 =< c /\ c < 2048 => t = 0 /\ x = 0 /\ y \in 2 .. 31 /\ Mending!Bytes(c) = <<192 + y, 128 + z>>
           /\ 2048 =< c /\ c < 65536 => t = 0 /\ x \in 0 .. 15 /\ Mending!Bytes(c) = <<224 + x, 128 + y, 128 + z>>
           /\ 65536 =< c => Mending!Bytes(c) = <<240 + t, 128 + x, 128 + y, 128 + z>>
  BY BytesAre, SMT
<1>2. CASE 128 =< c /\ c < 2048
  BY <1>1, <1>2, SMT
<1>3. CASE 2048 =< c /\ c < 65536
  BY <1>1, <1>3, SMT
<1>4. CASE 65536 =< c
  BY <1>1, <1>4, SMT
<1> QED BY <1>2, <1>3, <1>4, SMT

LEMMA Blanks ==
  ASSUME NEW c \in Nat
  PROVE  /\ c \in Mending!AsciiSpace => c < 128 /\ c \in Mending!Space
         /\ c < 128 /\ c \notin Mending!AsciiSpace => c \notin Mending!Space
         /\ 160 < c => c \notin Mending!Space
BY SMT DEF Mending!AsciiSpace, Mending!Space

(* Trimming the bytes of a text leaves the bytes of the text trimmed of its  *)
(* ASCII white space, unless those end in a byte that is white space too.    *)
LEMMA TrimBytes ==
  ASSUME NEW m \in Seq(Nat), \A k \in DOMAIN m : Mending!Scalar(m[k]),
         NEW a, NEW b, Bounds(m, Mending!AsciiSpace, a, b),
         Mending!Bytes(m[b])[Len(Mending!Bytes(m[b]))] \notin Mending!Space
  PROVE  Mending!Trim(Mending!Utf8(m), Mending!Space) = Mending!Utf8(SubSeq(m, a, b))
<1>1. PICK pos : Laid(m, Mending!Utf8(m), pos)
  BY Utf8Lays
<1>2. PICK s \in Seq(Nat) : s = Mending!Utf8(m) /\ Laid(m, s, pos)
  BY <1>1, Utf8Lays
<1> DEFINE L == Len(m)
<1>3. /\ pos[L] = Len(s) /\ L \in Nat
      /\ \A k \in 0 .. L : pos[k] \in Nat
      /\ \A k \in 1 .. L :
              /\ m[k] \in Nat /\ Mending!Scalar(m[k]) /\ Len(Mending!Bytes(m[k])) \in 1 .. 4
              /\ pos[k] = pos[k - 1] + Len(Mending!Bytes(m[k]))
              /\ \A j \in 1 .. Len(Mending!Bytes(m[k])) : s[pos[k - 1] + j] = Mending!Bytes(m[k])[j]
      /\ \A i, k \in 0 .. L : i =< k => pos[i] =< pos[k]
  BY <1>2, LaidGrows
<1>4. /\ a \in 1 .. L /\ b \in a .. L /\ m[a] \notin Mending!AsciiSpace /\ m[b] \notin Mending!AsciiSpace
      /\ \A k \in 1 .. L : k < a \/ b < k => m[k] \in Mending!AsciiSpace
  BY DEF Bounds
<1>5. Mending!Utf8(SubSeq(m, a, b)) = SubSeq(s, pos[a - 1] + 1, pos[b])
  BY <1>1, <1>2, <1>4, LaidPart
<1>6. \A n \in 1 .. Len(s) : \E k \in 1 .. L : \E j \in 1 .. Len(Mending!Bytes(m[k])) : n = pos[k - 1] + j
  BY <1>2, LaidCovers
<1> HIDE DEF L
<1>7. PICK p \in Nat, q \in Nat : p = pos[a - 1] /\ q = pos[b] /\ p =< q /\ q =< Len(s) /\ p < q
  <2>1. a - 1 \in 0 .. L /\ a \in 0 .. L /\ b \in 0 .. L /\ L \in 0 .. L /\ a =< b /\ b =< L /\ a \in 1 .. L
    BY <1>3, <1>4
  <2>2. pos[a] \in Nat /\ pos[a - 1] \in Nat /\ pos[b] \in Nat /\ pos[a] =< pos[b] /\ pos[b] =< Len(s)
    BY <1>3, <2>1
  <2>3. PICK w \in Nat : w = Len(Mending!Bytes(m[a])) /\ w > 0 /\ pos[a] = pos[a - 1] + w
    <3>1. Len(Mending!Bytes(m[a])) \in 1 .. 4 /\ pos[a] = pos[a - 1] + Len(Mending!Bytes(m[a]))
      BY <1>3, <2>1
    <3>2. \A v \in 1 .. 4 : v \in Nat /\ v > 0
      OBVIOUS
    <3> QED BY <3>1, <3>2, Zenon
  <2>4. pos[a - 1] < pos[b] /\ pos[a - 1] =< pos[b]
    <3>1. \A x, y, z, v \in Nat : v > 0 /\ y = x + v /\ y =< z => x < z /\ x =< z
      OBVIOUS
    <3> QED BY <2>2, <2>3, <3>1, Zenon
  <2> QED BY <2>2, <2>4
<1>8. s[p + 1] \notin Mending!Space
  <2>1. s[p + 1] = Mending!Bytes(m[a])[1]
    <3>1. 1 \in 1 .. Len(Mending!Bytes(m[a]))
      <4>1. Len(Mending!Bytes(m[a])) \in 1 .. 4
        BY <1>3, <1>4
      <4>2. \A v \in 1 .. 4 : 1 \in 1 .. v
        OBVIOUS
      <4> QED BY <4>1, <4>2, Zenon
    <3>2. s[pos[a - 1] + 1] = Mending!Bytes(m[a])[1]
      BY <1>3, <1>4, <3>1
    <3> QED BY <1>7, <3>2
  <2>2. m[a] \in Nat /\ Mending!Scalar(m[a])
    BY <1>3, <1>4
  <2>3. CASE m[a] < 128
    <3>1. Mending!Bytes(m[a]) = <<m[a]>>
      BY <2>2, <2>3, BytesType
    <3>2. s[p + 1] = m[a]
      BY <2>1, <3>1
    <3> QED BY <1>4, <2>2, <2>3, <3>2, Blanks
  <2>4. CASE 128 =< m[a]
    <3>1. s[p + 1] > 160
      BY <2>1, <2>2, <2>4, FirstByte
    <3>2. s[p + 1] \in Nat
      <4>1. p + 1 \in 1 .. Len(s)
        BY <1>2, <1>7
      <4> QED BY <4>1, ElementOfSeq
    <3> QED BY <3>1, <3>2, Blanks
  <2> QED BY <2>2, <2>3, <2>4
<1>9. s[q] \notin Mending!Space
  <2>1. b \in 1 .. L
    BY <1>3, <1>4
  <2>2. Len(Mending!Bytes(m[b])) \in 1 .. Len(Mending!Bytes(m[b]))
    <3>1. Len(Mending!Bytes(m[b])) \in 1 .. 4
      BY <1>3, <2>1
    <3>2. \A v \in 1 .. 4 : v \in 1 .. v
      OBVIOUS
    <3> QED BY <3>1, <3>2, Zenon
  <2>3. pos[b] = pos[b - 1] + Len(Mending!Bytes(m[b]))
    BY <1>3, <2>1
  <2>4. s[pos[b - 1] + Len(Mending!Bytes(m[b]))] = Mending!Bytes(m[b])[Len(Mending!Bytes(m[b]))]
    BY <1>3, <2>1, <2>2
  <2>5. s[q] = Mending!Bytes(m[b])[Len(Mending!Bytes(m[b]))]
    BY <1>7, <2>3, <2>4, Zenon
  <2> QED BY <2>5
<1>10. ASSUME NEW n \in 1 .. Len(s), n < p + 1 \/ q < n PROVE s[n] \in Mending!Space
  <2>1. PICK k \in 1 .. L : \E j \in 1 .. Len(Mending!Bytes(m[k])) : n = pos[k - 1] + j
    BY <1>6
  <2>2. PICK j \in 1 .. Len(Mending!Bytes(m[k])) : n = pos[k - 1] + j
    BY <2>1
  <2>3. PICK x \in Nat, y \in Nat, w \in Nat : x = pos[k] /\ y = pos[k - 1] /\ w = Len(Mending!Bytes(m[k])) /\ x = y + w
    <3>1. k - 1 \in 0 .. L /\ k \in 0 .. L
      BY <1>3
    <3>2. pos[k] \in Nat /\ pos[k - 1] \in Nat /\ Len(Mending!Bytes(m[k])) \in Nat
      BY <1>3, <3>1
    <3> QED BY <1>3, <3>2
  <2>4. k < a \/ b < k
    <3> SUFFICES ASSUME ~(k < a), ~(b < k) PROVE FALSE
      OBVIOUS
    <3>1. a - 1 \in 0 .. L /\ k - 1 \in 0 .. L /\ k \in 0 .. L /\ b \in 0 .. L /\ a - 1 =< k - 1 /\ k =< b
      BY <1>3, <1>4
    <3>2. p =< y /\ x =< q
      BY <1>3, <1>7, <2>3, <3>1
    <3>3. j \in 1 .. w /\ n = y + j
      BY <2>2, <2>3
    <3>4. \A e, f, g, h, v \in Nat : \A i \in 1 .. v :
            g = h + v /\ e =< h /\ g =< f => ~(h + i < e + 1) /\ ~(f < h + i)
      OBVIOUS
    <3> QED BY <1>10, <2>3, <3>2, <3>3, <3>4, Zenon
  <2>5. m[k] \in Mending!AsciiSpace /\ m[k] \in Nat /\ Mending!Scalar(m[k])
    BY <1>3, <1>4, <2>4
  <2>6. Mending!Bytes(m[k]) = <<m[k]>>
    BY <2>5, Blanks, BytesType
  <2>7. s[n] = Mending!Bytes(m[k])[j]
    BY <1>3, <2>2
  <2>8. j = 1
    BY <2>2, <2>6
  <2>9. s[n] = m[k]
    BY <2>6, <2>7, <2>8
  <2> QED BY <2>5, <2>9, Blanks
<1>11. Bounds(s, Mending!Space, p + 1, q)
  <2>1. p + 1 \in 1 .. Len(s) /\ q \in p + 1 .. Len(s)
    BY <1>2, <1>7
  <2> QED BY <1>8, <1>9, <1>10, <2>1 DEF Bounds
<1>12. Mending!Trim(s, Mending!Space) = SubSeq(s, p + 1, q)
  BY <1>11, TrimIs
<1> QED BY <1>2, <1>5, <1>7, <1>12

LEMMA TrimAllBytes ==
  ASSUME NEW m \in Seq(Nat), \A k \in 1 .. Len(m) : m[k] \in Mending!AsciiSpace
  PROVE  Mending!Trim(Mending!Utf8(m), Mending!Space) = <<>> /\ Mending!Utf8(<<>>) = <<>>
<1>1. \A k \in 1 .. Len(m) : m[k] \in Nat /\ m[k] < 128 /\ m[k] \in Mending!Space
  <2> SUFFICES ASSUME NEW k \in 1 .. Len(m) PROVE m[k] \in Nat /\ m[k] < 128 /\ m[k] \in Mending!Space
    OBVIOUS
  <2>1. m[k] \in Nat
    BY ElementOfSeq
  <2> QED BY <2>1, Blanks
<1>2. \A k \in DOMAIN m : Mending!Scalar(m[k])
  <2>1. DOMAIN m = 1 .. Len(m)
    OBVIOUS
  <2> QED BY <1>1, <2>1, SMT DEF Mending!Scalar
<1>3. Mending!Utf8(m) = m
  BY <1>1, <1>2, Utf8Widens
<1>4. Mending!Trim(m, Mending!Space) = <<>>
  <2>1. DOMAIN m = 1 .. Len(m)
    OBVIOUS
  <2>2. {i \in DOMAIN m : m[i] \notin Mending!Space} = {}
    BY <1>1, <2>1
  <2> QED BY <2>2 DEF Mending!Trim
<1>5. Mending!Utf8(<<>>) = <<>>
  <2>1. PICK t \in Seq(Nat) : t = <<>> /\ Len(t) = 0
    <3>1. <<>> \in Seq(Nat) /\ Len(<<>>) = 0
      OBVIOUS
    <3> QED BY <3>1, Zenon
  <2>2. \A k \in DOMAIN t : Mending!Scalar(t[k])
    BY <2>1
  <2>3. \A k \in 1 .. Len(t) : t[k] < 128
    BY <2>1
  <2>4. Mending!Utf8(t) = t
    BY <2>2, <2>3, Utf8Widens
  <2> QED BY <2>1, <2>4
<1> QED BY <1>3, <1>4, <1>5

(* What is written of a text is its bytes again once both are trimmed.       *)
LEMMA Trimmed ==
  ASSUME NEW m \in Seq(Nat), \A k \in DOMAIN m : Mending!Scalar(m[k])
  PROVE  /\ Mending!Trim(m, Mending!AsciiSpace) \in Seq(Nat)
         /\ \A k \in DOMAIN Mending!Trim(m, Mending!AsciiSpace) : Mending!Scalar(Mending!Trim(m, Mending!AsciiSpace)[k])
         /\ Mending!Last(Mending!Bytes(Mending!Last(Mending!Trim(m, Mending!AsciiSpace)))) \notin Mending!Space =>
              Mending!Trim(Mending!Utf8(m), Mending!Space) = Mending!Utf8(Mending!Trim(m, Mending!AsciiSpace))
<1> DEFINE t == Mending!Trim(m, Mending!AsciiSpace)
<1>1. CASE t = <<>> /\ \A k \in 1 .. Len(m) : m[k] \in Mending!AsciiSpace
  <2>1. Mending!Trim(Mending!Utf8(m), Mending!Space) = <<>> /\ Mending!Utf8(<<>>) = <<>>
    BY <1>1, TrimAllBytes
  <2>2. <<>> \in Seq(Nat) /\ DOMAIN <<>> = {}
    OBVIOUS
  <2> QED BY <1>1, <2>1, <2>2
<1>2. CASE \E a, b : Bounds(m, Mending!AsciiSpace, a, b)
  <2>1. PICK a, b : Bounds(m, Mending!AsciiSpace, a, b)
    BY <1>2
  <2>2. t = SubSeq(m, a, b)
    BY <2>1, TrimIs
  <2>3. a \in 1 .. Len(m) /\ b \in a .. Len(m)
    BY <2>1 DEF Bounds
  <2>4. /\ SubSeq(m, a, b) \in Seq(Nat) /\ Len(SubSeq(m, a, b)) = b - a + 1
        /\ \A k \in 1 .. b - a + 1 : SubSeq(m, a, b)[k] = m[a - 1 + k]
    BY <2>3
  <2>5. \A k \in DOMAIN SubSeq(m, a, b) : Mending!Scalar(SubSeq(m, a, b)[k])
    <3>1. DOMAIN SubSeq(m, a, b) = 1 .. b - a + 1
      BY <2>4
    <3>2. \A k \in 1 .. b - a + 1 : a - 1 + k \in DOMAIN m
      BY <2>3
    <3> QED BY <2>4, <3>1, <3>2
  <2>6. Mending!Last(SubSeq(m, a, b)) = m[b]
    <3>1. b - a + 1 \in 1 .. b - a + 1 /\ a - 1 + (b - a + 1) = b
      BY <2>3
    <3>2. SubSeq(m, a, b)[b - a + 1] = m[b]
      BY <2>4, <3>1
    <3> QED BY <2>4, <3>2 DEF Mending!Last
  <2>7. Mending!Last(Mending!Bytes(m[b])) = Mending!Bytes(m[b])[Len(Mending!Bytes(m[b]))]
    BY DEF Mending!Last
  <2>8. Mending!Last(Mending!Bytes(m[b])) \notin Mending!Space =>
          Mending!Trim(Mending!Utf8(m), Mending!Space) = Mending!Utf8(SubSeq(m, a, b))
    BY <2>1, <2>7, TrimBytes
  <2> QED BY <2>2, <2>4, <2>5, <2>6, <2>8
<1> QED BY <1>1, <1>2, TrimOf

-----------------------------------------------------------------------------
(* A link ends where the first character that cannot be in one stands.       *)
LEMMA LinkEndIs ==
  ASSUME NEW t \in Seq(Nat), NEW i \in 1 .. Len(t), Mending!IsLink(t, i)
  PROVE  /\ Mending!LinkEnd(t, i) \in i .. Len(t)
         /\ Mending!LinkEnd(t, i) = Len(t) \/ ~Mending!InLink(t[Mending!LinkEnd(t, i) + 1])
         /\ \A k \in i .. Mending!LinkEnd(t, i) : Mending!InLink(t[k])
<1> DEFINE End(e) == (e = Len(t) \/ ~Mending!InLink(t[e + 1])) /\ \A k \in i .. e : Mending!InLink(t[k])
<1>1. \E e \in i .. Len(t) : End(e)
  <2> SUFFICES ASSUME ~\E e \in i .. Len(t) : End(e) PROVE FALSE
    OBVIOUS
  <2> DEFINE S == {m \in Nat : i + m =< Len(t) => \A k \in i .. i + m : Mending!InLink(t[k])}
  <2>1. 0 \in S
    <3>1. Mending!InLink(t[i])
      BY SMT DEF Mending!IsLink, Mending!Scheme, Mending!InLink, Mending!Less, Mending!More
    <3>2. \A k \in i .. i + 0 : k = i
      OBVIOUS
    <3> QED BY <3>1, <3>2
  <2>2. ASSUME NEW m \in Nat, m \in S PROVE m + 1 \in S
    <3> SUFFICES ASSUME i + (m + 1) =< Len(t), NEW k \in i .. i + (m + 1) PROVE Mending!InLink(t[k])
      OBVIOUS
    <3>1. \A q \in i .. i + m : Mending!InLink(t[q])
      BY <2>2
    <3>2. i + m \in i .. Len(t) /\ i + m # Len(t)
      OBVIOUS
    <3>3. Mending!InLink(t[i + m + 1])
      BY <3>1, <3>2
    <3>4. k \in i .. i + m \/ k = i + m + 1
      OBVIOUS
    <3> QED BY <3>1, <3>3, <3>4
  <2> HIDE DEF S
  <2>3. \A m \in Nat : m \in S
    BY <2>1, <2>2, Induction
  <2>4. Len(t) - i \in Nat /\ i + (Len(t) - i) = Len(t) /\ Len(t) \in i .. Len(t)
    OBVIOUS
  <2>5. \A k \in i .. Len(t) : Mending!InLink(t[k])
    <3>1. PICK m \in Nat : i + m = Len(t)
      BY <2>4
    <3>2. m \in S
      BY <2>3
    <3>3. \A k \in i .. i + m : Mending!InLink(t[k])
      BY <3>1, <3>2 DEF S
    <3> QED BY <3>1, <3>3
  <2> QED BY <2>4, <2>5
<1>2. Mending!LinkEnd(t, i) = CHOOSE e \in i .. Len(t) : End(e)
  BY Zenon DEF Mending!LinkEnd
<1>3. Mending!LinkEnd(t, i) \in i .. Len(t) /\ End(Mending!LinkEnd(t, i))
  <2> HIDE DEF End
  <2> QED BY <1>1, <1>2, Zenon
<1> QED BY <1>3

Backs(f, link) == f = [n \in 0 .. Len(link) |-> IF n = 0 \/ ~Mending!Peels(link, n) THEN n ELSE f[n - 1]]

LEMMA KeptObeys ==
  ASSUME NEW link \in Seq(Nat)
  PROVE  \E f : Mending!Kept(link) = f[Len(link)] /\ Backs(f, link)
<1> DEFINE E(g, n) == IF n = 0 \/ ~Mending!Peels(link, n) THEN n ELSE g[n - 1]
<1>1. \E f : f = [n \in 0 .. Len(link) |-> E(f, n)]
  <2> DEFINE D == 0 .. Len(link)
             V == Nat
             rank == [i \in D |-> i]
             step == [i \in D |-> [g \in [D -> V] |-> E(g, i)]]
  <2>1. \A i \in D, g \in [D -> V] : E(g, i) \in V
    <3> SUFFICES ASSUME NEW i \in D, NEW g \in [D -> V] PROVE E(g, i) \in V
      OBVIOUS
    <3>1. i # 0 => i - 1 \in D
      OBVIOUS
    <3> QED BY <3>1
  <2>2. ASSUME NEW i \in D, NEW g \in [D -> V], NEW h \in [D -> V], \A j \in D : rank[j] < rank[i] => g[j] = h[j]
        PROVE  E(g, i) = E(h, i)
    <3>1. i # 0 => i - 1 \in D /\ i - 1 < i
      OBVIOUS
    <3>2. i # 0 => g[i - 1] = h[i - 1]
      BY <2>2, <3>1
    <3> QED BY <3>2
  <2>3. Ranked(D, rank, Len(link))
    BY DEF Ranked
  <2> HIDE DEF E, D, rank
  <2>4. step \in [D -> [[D -> V] -> V]]
    BY <2>1
  <2>5. \A i \in D : \A g, h \in [D -> V] :
          (\A j \in D : rank[j] < rank[i] => g[j] = h[j]) => step[i][g] = step[i][h]
    BY <2>2
  <2> HIDE DEF step
  <2>6. PICK f : Solves(f, D, V, step)
    <3>1. Recursive(D, V, rank, step)
      BY <2>4, <2>5 DEF Recursive
    <3> QED BY <2>3, <3>1, Recursion
  <2>7. f = [n \in D |-> E(f, n)]
    BY <2>6 DEF step, Solves
  <2> QED BY <2>7 DEF D
<1> DEFINE back[n \in 0 .. Len(link)] == IF n = 0 \/ ~Mending!Peels(link, n) THEN n ELSE back[n - 1]
<1>2. back = [n \in 0 .. Len(link) |-> E(back, n)]
  BY <1>1, Zenon
<1>3. Mending!Kept(link) = back[Len(link)]
  BY Zenon DEF Mending!Kept
<1>4. Backs(back, link)
  BY <1>2, Zenon DEF Backs
<1> HIDE DEF back
<1> QED BY <1>3, <1>4, Zenon

LEMMA KeptIs ==
  ASSUME NEW link \in Seq(Nat)
  PROVE  Mending!Kept(link) \in 0 .. Len(link) /\ (link # <<>> /\ ~Mending!Peels(link, Len(link)) => Mending!Kept(link) = Len(link))
<1>1. PICK f : Mending!Kept(link) = f[Len(link)] /\ Backs(f, link)
  BY KeptObeys
<1>2. Len(link) \in Nat
  OBVIOUS
<1>3. ASSUME NEW n \in 0 .. Len(link) PROVE f[n] = IF n = 0 \/ ~Mending!Peels(link, n) THEN n ELSE f[n - 1]
  BY <1>1 DEF Backs
<1> DEFINE S == {n \in Nat : n =< Len(link) => f[n] \in 0 .. n}
<1>4. 0 \in S
  BY <1>2, <1>3
<1>5. ASSUME NEW n \in Nat, n \in S PROVE n + 1 \in S
  <2> SUFFICES ASSUME n + 1 =< Len(link) PROVE f[n + 1] \in 0 .. n + 1
    OBVIOUS
  <2>1. PICK k \in 0 .. Len(link) : k = n + 1 /\ k - 1 = n /\ k \in Nat /\ k # 0
    BY <1>2
  <2>2. f[k - 1] \in 0 .. n
    BY <1>2, <1>5, <2>1
  <2>3. f[k] = k \/ f[k] = f[k - 1]
    BY <1>3
  <2> QED BY <2>1, <2>2, <2>3
<1> HIDE DEF S
<1>6. \A n \in Nat : n \in S
  BY <1>4, <1>5, Induction
<1>7. Mending!Kept(link) \in 0 .. Len(link)
  BY <1>1, <1>2, <1>6 DEF S
<1>8. ASSUME ~Mending!Peels(link, Len(link)) PROVE Mending!Kept(link) = Len(link)
  BY <1>1, <1>2, <1>3, <1>8
<1> QED BY <1>7, <1>8

(* A balanced link with no punctuation at its end is kept whole: its last    *)
(* character, if a closer, has its opener.                                   *)
LEMMA WholeKept ==
  ASSUME NEW link \in Seq(Nat), link # <<>>, Mending!Balanced(link), Mending!Last(link) \notin Mending!Sentence
  PROVE  Mending!Kept(link) = Len(link)
<1>1. Mending!Last(link) = link[Len(link)]
  BY DEF Mending!Last
<1>2. SubSeq(link, 1, Len(link)) = link
  OBVIOUS
<1>3. ASSUME link[Len(link)] \in Mending!Closers
      PROVE  ~(Mending!Count(SubSeq(link, 1, Len(link)), link[Len(link)]) > Mending!Count(link, Mending!Opener(link[Len(link)])))
  <2> DEFINE c == link[Len(link)]
  <2>1. Mending!Count(link, c) = Mending!Count(link, Mending!Opener(c))
    BY <1>3 DEF Mending!Balanced
  <2>2. Mending!Count(link, c) \in Nat
    <3>1. {i \in DOMAIN link : link[i] = c} \subseteq 1 .. Len(link)
      OBVIOUS
    <3>2. IsFiniteSet(1 .. Len(link))
      BY FS_Interval
    <3>3. IsFiniteSet({i \in DOMAIN link : link[i] = c})
      BY <3>1, <3>2, FS_Subset
    <3>4. Mending!Count(link, c) = Cardinality({i \in DOMAIN link : link[i] = c})
      BY Zenon DEF Mending!Count, Mending!Cardinality, Cardinality
    <3> QED BY <3>3, <3>4, FS_CardinalityType
  <2> HIDE DEF c
  <2>3. ~(Mending!Count(link, c) > Mending!Count(link, Mending!Opener(c)))
    BY <2>1, <2>2
  <2> QED BY <1>2, <2>3 DEF c
<1>4. ~Mending!Peels(link, Len(link))
  BY <1>1, <1>3 DEF Mending!Peels
<1> QED BY <1>4, KeptIs

-----------------------------------------------------------------------------
Unwraps(f, t) ==
  f = [n \in 0 .. Len(t) |-> IF n = 0 THEN <<>> ELSE IF t[n] \in {Mending!Less, Mending!More} THEN f[n - 1] ELSE Append(f[n - 1], t[n])]

LEMMA UnwrappedObeys ==
  ASSUME NEW t \in Seq(Nat)
  PROVE  \E f : Mending!Unwrapped(t) = f[Len(t)] /\ Unwraps(f, t)
<1> DEFINE E(g, n) == IF n = 0 THEN <<>> ELSE IF t[n] \in {Mending!Less, Mending!More} THEN g[n - 1] ELSE Append(g[n - 1], t[n])
<1>1. \E f : f = [n \in 0 .. Len(t) |-> E(f, n)]
  <2> DEFINE D == 0 .. Len(t)
             V == Seq(Nat)
             rank == [i \in D |-> i]
             step == [i \in D |-> [g \in [D -> V] |-> E(g, i)]]
  <2>1. \A i \in D, g \in [D -> V] : E(g, i) \in V
    <3> SUFFICES ASSUME NEW i \in D, NEW g \in [D -> V] PROVE E(g, i) \in V
      OBVIOUS
    <3>1. i # 0 => i - 1 \in D /\ t[i] \in Nat
      OBVIOUS
    <3> HIDE DEF D
    <3>2. i # 0 => g[i - 1] \in V
      BY <3>1
    <3>3. \A v \in V, c \in Nat : Append(v, c) \in V
      OBVIOUS
    <3>4. <<>> \in V
      OBVIOUS
    <3> HIDE DEF V
    <3> QED BY <3>1, <3>2, <3>3, <3>4
  <2>2. ASSUME NEW i \in D, NEW g \in [D -> V], NEW h \in [D -> V], \A j \in D : rank[j] < rank[i] => g[j] = h[j]
        PROVE  E(g, i) = E(h, i)
    <3>1. i # 0 => i - 1 \in D /\ i - 1 < i
      OBVIOUS
    <3>2. i # 0 => g[i - 1] = h[i - 1]
      BY <2>2, <3>1
    <3> QED BY <3>2
  <2>3. Ranked(D, rank, Len(t)) /\ V # {}
    BY DEF Ranked
  <2> HIDE DEF E, D, rank, V
  <2>4. step \in [D -> [[D -> V] -> V]]
    BY <2>1
  <2>5. \A i \in D : \A g, h \in [D -> V] :
          (\A j \in D : rank[j] < rank[i] => g[j] = h[j]) => step[i][g] = step[i][h]
    BY <2>2
  <2> HIDE DEF step
  <2>6. PICK f : Solves(f, D, V, step)
    <3>1. Recursive(D, V, rank, step)
      BY <2>3, <2>4, <2>5 DEF Recursive
    <3> QED BY <2>3, <3>1, Recursion
  <2>7. f = [n \in D |-> E(f, n)]
    BY <2>6 DEF step, Solves
  <2> QED BY <2>7 DEF D
<1> DEFINE upto[n \in 0 .. Len(t)] ==
        IF n = 0 THEN <<>> ELSE IF t[n] \in {Mending!Less, Mending!More} THEN upto[n - 1] ELSE Append(upto[n - 1], t[n])
<1>2. upto = [n \in 0 .. Len(t) |-> E(upto, n)]
  BY <1>1, Zenon
<1>3. Mending!Unwrapped(t) = upto[Len(t)]
  BY Zenon DEF Mending!Unwrapped
<1>4. Unwraps(upto, t)
  BY <1>2, Zenon DEF Unwraps
<1> HIDE DEF upto
<1> QED BY <1>3, <1>4, Zenon

LEMMA UnwrapsTo ==
  ASSUME NEW t \in Seq(Nat), NEW f, Unwraps(f, t)
  PROVE  /\ f[0] = <<>>
         /\ \A n \in 1 .. Len(t) : f[n] = IF t[n] \in {Mending!Less, Mending!More} THEN f[n - 1] ELSE Append(f[n - 1], t[n])
         /\ \A n \in 0 .. Len(t) : f[n] \in Seq(Nat)
<1>1. f[0] = <<>>
  BY 0 \in 0 .. Len(t) DEF Unwraps
<1>2. ASSUME NEW n \in 1 .. Len(t)
      PROVE  f[n] = IF t[n] \in {Mending!Less, Mending!More} THEN f[n - 1] ELSE Append(f[n - 1], t[n])
  <2>1. n \in 0 .. Len(t) /\ n # 0
    OBVIOUS
  <2> QED BY <2>1 DEF Unwraps
<1> DEFINE S == {n \in Nat : n =< Len(t) => f[n] \in Seq(Nat)}
<1>3. 0 \in S
  <2>1. <<>> \in Seq(Nat)
    OBVIOUS
  <2> QED BY <1>1, <2>1
<1>4. ASSUME NEW n \in Nat, n \in S PROVE n + 1 \in S
  <2> SUFFICES ASSUME n + 1 =< Len(t) PROVE f[n + 1] \in Seq(Nat)
    OBVIOUS
  <2>1. PICK k \in 1 .. Len(t) : k = n + 1 /\ k - 1 = n
    OBVIOUS
  <2>2. f[k - 1] \in Seq(Nat) /\ t[k] \in Nat
    BY <1>4, <2>1
  <2>3. \A v \in Seq(Nat), c \in Nat : Append(v, c) \in Seq(Nat)
    OBVIOUS
  <2>4. Append(f[k - 1], t[k]) \in Seq(Nat)
    BY <2>2, <2>3
  <2>5. f[k] \in Seq(Nat)
    BY <1>2, <2>2, <2>4
  <2> QED BY <2>1, <2>5
<1> HIDE DEF S
<1>5. \A n \in Nat : n \in S
  BY <1>3, <1>4, Induction
<1>6. \A n \in 0 .. Len(t) : f[n] \in Seq(Nat)
  BY <1>5 DEF S
<1> QED BY <1>1, <1>2, <1>6

LEMMA Associative ==
  ASSUME NEW v \in Seq(Nat), NEW w \in Seq(Nat), NEW e \in Seq(Nat)
  PROVE  (v \o w) \o e = v \o (w \o e)
BY ConcatAssociative

LEMMA AppendOver ==
  ASSUME NEW v \in Seq(Nat), NEW w \in Seq(Nat), NEW d \in Nat
  PROVE  Append(v \o w, d) = v \o Append(w, d)
<1>1. <<d>> \in Seq(Nat) /\ v \o w \in Seq(Nat)
  OBVIOUS
<1>2. Append(w, d) = w \o <<d>> /\ Append(v \o w, d) = (v \o w) \o <<d>>
  BY <1>1, AppendIsConcat
<1>3. (v \o w) \o <<d>> = v \o (w \o <<d>>)
  BY <1>1, Associative
<1> QED BY <1>2, <1>3, Zenon

(* Taking the angle brackets out of two texts, one after the other, is taking*)
(* them out of both.                                                         *)
LEMMA UnwrappedJoins ==
  ASSUME NEW a \in Seq(Nat), NEW b \in Seq(Nat)
  PROVE  Mending!Unwrapped(a \o b) = Mending!Unwrapped(a) \o Mending!Unwrapped(b)
<1> DEFINE c == a \o b
           La == Len(a)
           Lb == Len(b)
<1>1. /\ c \in Seq(Nat) /\ Len(c) = La + Lb /\ La \in Nat /\ Lb \in Nat
      /\ \A n \in 1 .. La : c[n] = a[n]
      /\ \A n \in 1 .. Lb : c[La + n] = b[n]
  OBVIOUS
<1> HIDE DEF c
<1>2. PICK f : Mending!Unwrapped(a) = f[La] /\ Unwraps(f, a)
  BY UnwrappedObeys
<1>3. PICK g : Mending!Unwrapped(b) = g[Lb] /\ Unwraps(g, b)
  BY UnwrappedObeys
<1>4. PICK h : Mending!Unwrapped(c) = h[Len(c)] /\ Unwraps(h, c)
  BY <1>1, UnwrappedObeys
<1>5. /\ f[0] = <<>> /\ \A n \in 0 .. La : f[n] \in Seq(Nat)
      /\ \A n \in 1 .. La : f[n] = IF a[n] \in {Mending!Less, Mending!More} THEN f[n - 1] ELSE Append(f[n - 1], a[n])
  BY <1>2, UnwrapsTo
<1>6. /\ g[0] = <<>> /\ \A n \in 0 .. Lb : g[n] \in Seq(Nat)
      /\ \A n \in 1 .. Lb : g[n] = IF b[n] \in {Mending!Less, Mending!More} THEN g[n - 1] ELSE Append(g[n - 1], b[n])
  BY <1>3, UnwrapsTo
<1>7. /\ h[0] = <<>>
      /\ \A n \in 1 .. La + Lb : h[n] = IF c[n] \in {Mending!Less, Mending!More} THEN h[n - 1] ELSE Append(h[n - 1], c[n])
  <2>1. /\ h[0] = <<>>
        /\ \A n \in 1 .. Len(c) : h[n] = IF c[n] \in {Mending!Less, Mending!More} THEN h[n - 1] ELSE Append(h[n - 1], c[n])
    BY <1>1, <1>4, UnwrapsTo
  <2> QED BY <1>1, <2>1
<1>8. \A n \in 1 .. Lb : b[n] \in Nat
  OBVIOUS
<1> HIDE DEF La, Lb
<1> DEFINE S == {n \in Nat : n =< La => h[n] = f[n]}
<1>9. 0 \in S
  BY <1>5, <1>7
<1>10. ASSUME NEW n \in Nat, n \in S PROVE n + 1 \in S
  <2> SUFFICES ASSUME n + 1 =< La PROVE h[n + 1] = f[n + 1]
    OBVIOUS
  <2>1. PICK k \in 1 .. La : k = n + 1 /\ k - 1 = n /\ k \in 1 .. La + Lb
    BY <1>1
  <2>2. h[k - 1] = f[k - 1] /\ c[k] = a[k]
    BY <1>1, <1>10, <2>1
  <2>3. h[k] = f[k]
    BY <1>5, <1>7, <2>1, <2>2
  <2> QED BY <2>1, <2>3
<1> HIDE DEF S
<1>11. \A n \in Nat : n \in S
  BY <1>9, <1>10, Induction
<1>12. h[La] = f[La]
  BY <1>1, <1>11 DEF S
<1> DEFINE J(n) == f[La] \o g[n]
           U == {n \in Nat : n =< Lb => h[La + n] = J(n)}
<1>13. 0 \in U
  <2>1. f[La] \in Seq(Nat) /\ La + 0 = La
    BY <1>1, <1>5
  <2>2. \A v \in Seq(Nat) : v \o <<>> = v
    OBVIOUS
  <2>3. f[La] \o g[0] = f[La]
    BY <1>6, <2>1, <2>2
  <2> QED BY <1>12, <2>1, <2>3
<1> HIDE DEF J
<1>14. ASSUME NEW n \in Nat, n \in U PROVE n + 1 \in U
  <2> SUFFICES ASSUME n + 1 =< Lb PROVE h[La + (n + 1)] = J(n + 1)
    OBVIOUS
  <2>1. PICK k \in 1 .. Lb : k = n + 1 /\ k - 1 = n
    BY <1>1
  <2>2. PICK m \in 1 .. La + Lb : m = La + k /\ m - 1 = La + n /\ m = La + (n + 1)
    BY <1>1, <2>1
  <2>3. h[m - 1] = f[La] \o g[k - 1] /\ c[m] = b[k]
    <3>1. h[m - 1] = J(n)
      <4>1. n =< Lb
        BY <1>1
      <4>2. h[La + n] = J(n)
        BY <1>14, <4>1
      <4> QED BY <2>2, <4>2
    <3> QED BY <1>1, <2>1, <2>2, <3>1 DEF J
  <2>4. f[La] \in Seq(Nat) /\ g[k - 1] \in Seq(Nat) /\ b[k] \in Nat
    <3>1. La \in 0 .. La /\ k - 1 \in 0 .. Lb
      BY <1>1
    <3> QED BY <1>5, <1>6, <1>8, <3>1
  <2>5. \A v, w \in Seq(Nat), d \in Nat : Append(v \o w, d) = v \o Append(w, d)
    BY AppendOver
  <2>6. h[m] = f[La] \o g[k]
    <3>1. h[m] = IF b[k] \in {Mending!Less, Mending!More} THEN f[La] \o g[k - 1] ELSE Append(f[La] \o g[k - 1], b[k])
      BY <1>7, <2>3
    <3>2. g[k] = IF b[k] \in {Mending!Less, Mending!More} THEN g[k - 1] ELSE Append(g[k - 1], b[k])
      BY <1>6
    <3>3. Append(f[La] \o g[k - 1], b[k]) = f[La] \o Append(g[k - 1], b[k])
      BY <2>4, <2>5
    <3> QED BY <3>1, <3>2, <3>3, Zenon
  <2> QED BY <2>1, <2>2, <2>6 DEF J
<1> HIDE DEF U
<1>15. \A n \in Nat : n \in U
  BY <1>13, <1>14, Induction
<1>16. h[La + Lb] = f[La] \o g[Lb]
  <2>1. Lb \in U /\ Lb =< Lb
    BY <1>1, <1>15
  <2>2. h[La + Lb] = J(Lb)
    BY <2>1 DEF U
  <2> QED BY <2>2 DEF J
<1> QED BY <1>1, <1>2, <1>3, <1>4, <1>16, Zenon DEF c

LEMMA UnwrappedOne ==
  ASSUME NEW c \in Nat
  PROVE  /\ c \in {Mending!Less, Mending!More} => Mending!Unwrapped(<<c>>) = <<>>
         /\ c \notin {Mending!Less, Mending!More} => Mending!Unwrapped(<<c>>) = <<c>>
<1> DEFINE t == <<c>>
<1>1. t \in Seq(Nat) /\ Len(t) = 1 /\ t[1] = c
  OBVIOUS
<1> HIDE DEF t
<1>2. PICK f : Mending!Unwrapped(t) = f[Len(t)] /\ Unwraps(f, t)
  BY <1>1, UnwrappedObeys
<1>3. /\ f[0] = <<>>
      /\ \A n \in 1 .. Len(t) : f[n] = IF t[n] \in {Mending!Less, Mending!More} THEN f[n - 1] ELSE Append(f[n - 1], t[n])
  BY <1>1, <1>2, UnwrapsTo
<1>4. PICK k \in 1 .. Len(t) : k = 1 /\ k - 1 = 0
  BY <1>1
<1>5. f[k] = IF c \in {Mending!Less, Mending!More} THEN <<>> ELSE Append(<<>>, c)
  BY <1>1, <1>3, <1>4
<1>6. Append(<<>>, c) = <<c>>
  OBVIOUS
<1> QED BY <1>1, <1>2, <1>4, <1>5, <1>6 DEF t

LEMMA UnwrappedType ==
  ASSUME NEW t \in Seq(Nat)
  PROVE  Mending!Unwrapped(t) \in Seq(Nat) /\ Mending!Unwrapped(<<>>) = <<>>
<1>1. PICK f : Mending!Unwrapped(t) = f[Len(t)] /\ Unwraps(f, t)
  BY UnwrappedObeys
<1>2. Mending!Unwrapped(t) \in Seq(Nat)
  BY <1>1, UnwrapsTo, Len(t) \in 0 .. Len(t)
<1>3. <<>> \in Seq(Nat) /\ Len(<<>>) = 0
  OBVIOUS
<1>4. PICK g : Mending!Unwrapped(<<>>) = g[Len(<<>>)] /\ Unwraps(g, <<>>)
  BY <1>3, UnwrappedObeys
<1>5. g[0] = <<>>
  BY <1>3, <1>4, UnwrapsTo
<1> QED BY <1>2, <1>3, <1>4, <1>5

KeptEnd(t, i) == i + Mending!Kept(SubSeq(t, i, Mending!LinkEnd(t, i))) - 1

Wrapped(t, i, rest) ==
  <<Mending!Less>> \o SubSeq(t, i, KeptEnd(t, i)) \o <<Mending!More>> \o SubSeq(t, KeptEnd(t, i) + 1, Mending!LinkEnd(t, i)) \o rest

Wraps(f, t) ==
  f = [i \in 1 .. Len(t) + 1 |->
         IF i > Len(t) THEN <<>>
         ELSE IF ~Mending!IsLink(t, i) THEN <<t[i]>> \o f[i + 1]
         ELSE Wrapped(t, i, f[Mending!LinkEnd(t, i) + 1])]

LEMMA KeptEndIs ==
  ASSUME NEW t \in Seq(Nat), NEW i \in 1 .. Len(t), Mending!IsLink(t, i)
  PROVE  /\ KeptEnd(t, i) \in i - 1 .. Mending!LinkEnd(t, i)
         /\ Mending!LinkEnd(t, i) \in i .. Len(t)
         /\ SubSeq(t, i, Mending!LinkEnd(t, i)) \in Seq(Nat)
         /\ Len(SubSeq(t, i, Mending!LinkEnd(t, i))) = Mending!LinkEnd(t, i) - i + 1
<1> DEFINE end == Mending!LinkEnd(t, i)
           link == SubSeq(t, i, end)
<1>1. end \in i .. Len(t)
  BY LinkEndIs
<1> HIDE DEF end
<1>2. link \in Seq(Nat) /\ Len(link) = end - i + 1
  BY <1>1
<1> HIDE DEF link
<1>3. Mending!Kept(link) \in 0 .. Len(link)
  BY <1>2, KeptIs
<1>4. i + Mending!Kept(link) - 1 \in i - 1 .. end
  BY <1>1, <1>2, <1>3
<1> QED BY <1>1, <1>2, <1>4 DEF end, link, KeptEnd

LEMMA WrappedType ==
  ASSUME NEW t \in Seq(Nat), NEW i \in 1 .. Len(t), Mending!IsLink(t, i), NEW rest \in Seq(Nat)
  PROVE  /\ Wrapped(t, i, rest) \in Seq(Nat)
         /\ SubSeq(t, i, KeptEnd(t, i)) \in Seq(Nat)
         /\ SubSeq(t, KeptEnd(t, i) + 1, Mending!LinkEnd(t, i)) \in Seq(Nat)
<1>1. PICK k \in i - 1 .. Mending!LinkEnd(t, i) : k = KeptEnd(t, i)
  BY KeptEndIs
<1>2. PICK e \in i .. Len(t) : e = Mending!LinkEnd(t, i)
  BY KeptEndIs
<1>3. SubSeq(t, i, k) \in Seq(Nat) /\ SubSeq(t, k + 1, e) \in Seq(Nat)
  BY <1>1, <1>2
<1>4. <<Mending!Less>> \in Seq(Nat) /\ <<Mending!More>> \in Seq(Nat)
  BY DEF Mending!Less, Mending!More
<1>5. \A u, v \in Seq(Nat) : u \o v \in Seq(Nat)
  OBVIOUS
<1>6. <<Mending!Less>> \o SubSeq(t, i, k) \in Seq(Nat)
  BY <1>3, <1>4, <1>5, Zenon
<1>7. <<Mending!Less>> \o SubSeq(t, i, k) \o <<Mending!More>> \in Seq(Nat)
  BY <1>4, <1>5, <1>6, Zenon
<1>8. <<Mending!Less>> \o SubSeq(t, i, k) \o <<Mending!More>> \o SubSeq(t, k + 1, e) \in Seq(Nat)
  BY <1>3, <1>5, <1>7, Zenon
<1>9. <<Mending!Less>> \o SubSeq(t, i, k) \o <<Mending!More>> \o SubSeq(t, k + 1, e) \o rest \in Seq(Nat)
  BY <1>5, <1>8, Zenon
<1> QED BY <1>1, <1>2, <1>3, <1>9, Zenon DEF Wrapped

LEMMA WrapObeys ==
  ASSUME NEW t \in Seq(Nat)
  PROVE  \E f : Mending!WrapBareUrls(t) = f[1] /\ Wraps(f, t)
<1> DEFINE E(g, i) == IF i > Len(t) THEN <<>>
                      ELSE IF ~Mending!IsLink(t, i) THEN <<t[i]>> \o g[i + 1]
                      ELSE Wrapped(t, i, g[Mending!LinkEnd(t, i) + 1])
<1>1. \E f : f = [i \in 1 .. Len(t) + 1 |-> E(f, i)]
  <2> DEFINE D == 1 .. Len(t) + 1
             V == Seq(Nat)
             rank == [i \in D |-> Len(t) + 1 - i]
             step == [i \in D |-> [g \in [D -> V] |-> E(g, i)]]
  <2>1. ASSUME NEW i \in D, ~(i > Len(t)) PROVE i \in 1 .. Len(t) /\ i + 1 \in D /\ rank[i + 1] < rank[i]
    BY <2>1
  <2>2. ASSUME NEW i \in D, ~(i > Len(t)), Mending!IsLink(t, i)
        PROVE  Mending!LinkEnd(t, i) + 1 \in D /\ rank[Mending!LinkEnd(t, i) + 1] < rank[i]
    <3>1. PICK e \in i .. Len(t) : e = Mending!LinkEnd(t, i)
      BY <2>1, <2>2, KeptEndIs
    <3>2. e + 1 \in D /\ Len(t) + 1 - (e + 1) < Len(t) + 1 - i
      BY <3>1
    <3> QED BY <3>1, <3>2
  <2>3. Ranked(D, rank, Len(t)) /\ V # {} /\ <<>> \in V
    BY DEF Ranked
  <2>4. \A i \in 1 .. Len(t) : <<t[i]>> \in V
    OBVIOUS
  <2>5. \A u, v \in V : u \o v \in V
    OBVIOUS
  <2>6. \A i \in 1 .. Len(t) : \A v \in V : Mending!IsLink(t, i) => Wrapped(t, i, v) \in V
    BY WrappedType
  <2> HIDE DEF D, rank, V
  <2>7. ASSUME NEW i \in D, NEW g \in [D -> V] PROVE E(g, i) \in V
    <3>1. CASE i > Len(t)
      BY <2>3, <3>1
    <3>2. CASE ~(i > Len(t)) /\ ~Mending!IsLink(t, i)
      <4>1. g[i + 1] \in V /\ <<t[i]>> \in V
        BY <2>1, <2>4, <3>2
      <4> QED BY <2>5, <3>2, <4>1
    <3>3. CASE ~(i > Len(t)) /\ Mending!IsLink(t, i)
      <4>1. g[Mending!LinkEnd(t, i) + 1] \in V /\ i \in 1 .. Len(t)
        BY <2>1, <2>2, <3>3
      <4> QED BY <2>6, <3>3, <4>1
    <3> QED BY <3>1, <3>2, <3>3
  <2>8. ASSUME NEW i \in D, NEW g \in [D -> V], NEW h \in [D -> V], \A j \in D : rank[j] < rank[i] => g[j] = h[j]
        PROVE  E(g, i) = E(h, i)
    <3>1. ~(i > Len(t)) => g[i + 1] = h[i + 1]
      BY <2>1, <2>8
    <3>2. ~(i > Len(t)) /\ Mending!IsLink(t, i) => g[Mending!LinkEnd(t, i) + 1] = h[Mending!LinkEnd(t, i) + 1]
      BY <2>2, <2>8
    <3> QED BY <3>1, <3>2
  <2> HIDE DEF E
  <2>9. step \in [D -> [[D -> V] -> V]]
    BY <2>7
  <2>10. \A i \in D : \A g, h \in [D -> V] :
          (\A j \in D : rank[j] < rank[i] => g[j] = h[j]) => step[i][g] = step[i][h]
    BY <2>8
  <2> HIDE DEF step
  <2>11. PICK f : Solves(f, D, V, step)
    <3>1. Recursive(D, V, rank, step)
      BY <2>3, <2>9, <2>10 DEF Recursive
    <3> QED BY <2>3, <3>1, Recursion
  <2>12. f = [i \in D |-> E(f, i)]
    BY <2>11 DEF step, Solves
  <2> QED BY <2>12 DEF D
<1> DEFINE from[i \in 1 .. Len(t) + 1] ==
        IF i > Len(t) THEN <<>>
        ELSE IF ~Mending!IsLink(t, i) THEN <<t[i]>> \o from[i + 1]
        ELSE LET end == Mending!LinkEnd(t, i)  kept == i + Mending!Kept(SubSeq(t, i, end)) - 1
             IN <<Mending!Less>> \o SubSeq(t, i, kept) \o <<Mending!More>> \o SubSeq(t, kept + 1, end) \o from[end + 1]
<1>2. from = [i \in 1 .. Len(t) + 1 |-> E(from, i)]
  BY <1>1, Zenon DEF Wrapped, KeptEnd
<1>3. Mending!WrapBareUrls(t) = from[1]
  BY Zenon DEF Mending!WrapBareUrls
<1>4. Wraps(from, t)
  BY <1>2, Zenon DEF Wraps
<1> HIDE DEF from
<1> QED BY <1>3, <1>4, Zenon

LEMMA WrapsTo ==
  ASSUME NEW t \in Seq(Nat), NEW f, Wraps(f, t)
  PROVE  /\ f[Len(t) + 1] = <<>>
         /\ \A i \in 1 .. Len(t) : f[i] = IF ~Mending!IsLink(t, i) THEN <<t[i]>> \o f[i + 1]
                                          ELSE Wrapped(t, i, f[Mending!LinkEnd(t, i) + 1])
         /\ \A i \in 1 .. Len(t) : Mending!IsLink(t, i) => Mending!LinkEnd(t, i) \in i .. Len(t)
<1>1. Len(t) \in Nat
  OBVIOUS
<1>2. f[Len(t) + 1] = <<>>
  <2>1. Len(t) + 1 \in 1 .. Len(t) + 1 /\ Len(t) + 1 > Len(t)
    BY <1>1
  <2> QED BY <2>1 DEF Wraps
<1>3. ASSUME NEW i \in 1 .. Len(t)
      PROVE  f[i] = IF ~Mending!IsLink(t, i) THEN <<t[i]>> \o f[i + 1] ELSE Wrapped(t, i, f[Mending!LinkEnd(t, i) + 1])
  <2>1. i \in 1 .. Len(t) + 1 /\ ~(i > Len(t))
    BY <1>1
  <2> QED BY <2>1 DEF Wraps
<1>4. \A i \in 1 .. Len(t) : Mending!IsLink(t, i) => Mending!LinkEnd(t, i) \in i .. Len(t)
  BY KeptEndIs
<1> QED BY <1>2, <1>3, <1>4

(* What holds past the last character, and before a character whenever it    *)
(* holds after it, holds before every one.                                   *)
LEMMA Backwards ==
  ASSUME NEW L \in Nat, NEW P, L + 1 \in P,
         \A i \in 1 .. L : (\A j \in i + 1 .. L + 1 : j \in P) => i \in P
  PROVE  \A i \in 1 .. L + 1 : i \in P
<1> DEFINE S == {m \in Nat : \A i \in 1 .. L + 1 : L + 1 =< i + m => i \in P}
<1>1. 0 \in S
  <2>1. \A i \in 1 .. L + 1 : L + 1 =< i + 0 => i = L + 1
    OBVIOUS
  <2> QED BY <2>1
<1>2. ASSUME NEW m \in Nat, m \in S PROVE m + 1 \in S
  <2> SUFFICES ASSUME NEW i \in 1 .. L + 1, L + 1 =< i + (m + 1) PROVE i \in P
    OBVIOUS
  <2>1. CASE i = L + 1
    BY <2>1
  <2>2. CASE i # L + 1
    <3>1. i \in 1 .. L
      BY <2>2
    <3>2. \A j \in i + 1 .. L + 1 : j \in 1 .. L + 1 /\ L + 1 =< j + m
      OBVIOUS
    <3>3. \A j \in i + 1 .. L + 1 : j \in P
      BY <1>2, <3>2
    <3> QED BY <3>1, <3>3
  <2> QED BY <2>1, <2>2
<1> HIDE DEF S
<1>3. L \in S
  BY <1>1, <1>2, Induction
<1> QED BY <1>3 DEF S

LEMMA WrapsType ==
  ASSUME NEW t \in Seq(Nat), NEW f, Wraps(f, t)
  PROVE  \A i \in 1 .. Len(t) + 1 : f[i] \in Seq(Nat)
<1> DEFINE L == Len(t)
           P == {i \in 1 .. L + 1 : f[i] \in Seq(Nat)}
<1>1. L \in Nat
  OBVIOUS
<1>2. L + 1 \in P
  <2>1. f[L + 1] = <<>> /\ L + 1 \in 1 .. L + 1
    BY <1>1, WrapsTo
  <2>2. <<>> \in Seq(Nat)
    OBVIOUS
  <2> QED BY <2>1, <2>2
<1>3. ASSUME NEW i \in 1 .. L, \A j \in i + 1 .. L + 1 : j \in P PROVE i \in P
  <2>1. \A j \in i + 1 .. L + 1 : f[j] \in Seq(Nat)
    BY <1>3
  <2>2. i + 1 \in i + 1 .. L + 1 /\ i \in 1 .. L + 1
    BY <1>1
  <2> HIDE DEF L
  <2>3. CASE ~Mending!IsLink(t, i)
    <3>1. f[i] = <<t[i]>> \o f[i + 1]
      BY <2>3, WrapsTo DEF L
    <3>2. f[i + 1] \in Seq(Nat)
      BY <2>1, <2>2
    <3>3. <<t[i]>> \in Seq(Nat)
      BY DEF L
    <3>4. <<t[i]>> \o f[i + 1] \in Seq(Nat)
      BY <3>2, <3>3, ConcatProperties
    <3> QED BY <2>2, <3>1, <3>4
  <2>4. CASE Mending!IsLink(t, i)
    <3>1. f[i] = Wrapped(t, i, f[Mending!LinkEnd(t, i) + 1])
      BY <2>4, WrapsTo DEF L
    <3>2. PICK e \in i .. L : e = Mending!LinkEnd(t, i)
      BY <2>4, KeptEndIs DEF L
    <3>3. e + 1 \in i + 1 .. L + 1
      BY <1>1, <3>2
    <3>4. f[Mending!LinkEnd(t, i) + 1] \in Seq(Nat)
      BY <2>1, <3>2, <3>3
    <3>5. Wrapped(t, i, f[Mending!LinkEnd(t, i) + 1]) \in Seq(Nat)
      BY <2>4, <3>4, WrappedType DEF L
    <3> QED BY <2>2, <3>1, <3>5
  <2> QED BY <2>3, <2>4
<1> HIDE DEF P
<1>4. \A i \in 1 .. L + 1 : i \in P
  BY <1>1, <1>2, <1>3, Backwards
<1> QED BY <1>4 DEF P

LEMMA Splits ==
  ASSUME NEW t \in Seq(Nat), NEW i \in 1 .. Len(t)
  PROVE  /\ SubSeq(t, i, Len(t)) = <<t[i]>> \o SubSeq(t, i + 1, Len(t))
         /\ \A k \in i - 1 .. Len(t) : \A e \in k .. Len(t) :
              SubSeq(t, i, Len(t)) = SubSeq(t, i, k) \o SubSeq(t, k + 1, e) \o SubSeq(t, e + 1, Len(t))
<1>1. SubSeq(t, i, Len(t)) = <<t[i]>> \o SubSeq(t, i + 1, Len(t))
  OBVIOUS
<1>2. ASSUME NEW k \in i - 1 .. Len(t), NEW e \in k .. Len(t)
      PROVE  SubSeq(t, i, Len(t)) = SubSeq(t, i, k) \o SubSeq(t, k + 1, e) \o SubSeq(t, e + 1, Len(t))
  <2>1. /\ i \in 1 .. Len(t) + 1 /\ k \in i - 1 .. Len(t) /\ e \in k .. Len(t)
        /\ e \in i - 1 .. Len(t) /\ Len(t) \in e .. Len(t)
    OBVIOUS
  <2>2. SubSeq(t, i, k) \o SubSeq(t, k + 1, e) = SubSeq(t, i, e)
    BY <2>1, ConcatAdjacentSubSeq
  <2>3. SubSeq(t, i, e) \o SubSeq(t, e + 1, Len(t)) = SubSeq(t, i, Len(t))
    BY <2>1, ConcatAdjacentSubSeq
  <2> QED BY <2>2, <2>3, Zenon
<1> QED BY <1>1, <1>2, Zenon

LEMMA BracketBefore ==
  ASSUME NEW l \in Seq(Nat), NEW a \in Seq(Nat), Mending!Unwrapped(l) = <<>>
  PROVE  l \o a \in Seq(Nat) /\ Mending!Unwrapped(l \o a) = Mending!Unwrapped(a)
<1>1. Mending!Unwrapped(l \o a) = Mending!Unwrapped(l) \o Mending!Unwrapped(a)
  BY UnwrappedJoins
<1>2. Mending!Unwrapped(a) \in Seq(Nat)
  BY UnwrappedType
<1>3. <<>> \o Mending!Unwrapped(a) = Mending!Unwrapped(a)
  BY <1>2, ConcatEmptySeq
<1> QED BY <1>1, <1>3, ConcatProperties

LEMMA BracketAfter ==
  ASSUME NEW a \in Seq(Nat), NEW m \in Seq(Nat), Mending!Unwrapped(m) = <<>>
  PROVE  a \o m \in Seq(Nat) /\ Mending!Unwrapped(a \o m) = Mending!Unwrapped(a)
<1>1. Mending!Unwrapped(a \o m) = Mending!Unwrapped(a) \o Mending!Unwrapped(m)
  BY UnwrappedJoins
<1>2. Mending!Unwrapped(a) \in Seq(Nat)
  BY UnwrappedType
<1>3. Mending!Unwrapped(a) \o <<>> = Mending!Unwrapped(a)
  BY <1>2, ConcatEmptySeq
<1> QED BY <1>1, <1>3, ConcatProperties

LEMMA WrappedUnwraps ==
  ASSUME NEW t \in Seq(Nat), NEW i \in 1 .. Len(t), Mending!IsLink(t, i), NEW rest \in Seq(Nat),
         Mending!Unwrapped(rest) = Mending!Unwrapped(SubSeq(t, Mending!LinkEnd(t, i) + 1, Len(t)))
  PROVE  Mending!Unwrapped(Wrapped(t, i, rest)) = Mending!Unwrapped(SubSeq(t, i, Len(t)))
<1>1. PICK e \in i .. Len(t) : e = Mending!LinkEnd(t, i)
  BY KeptEndIs
<1>2. PICK k \in i - 1 .. e : k = KeptEnd(t, i)
  BY <1>1, KeptEndIs
<1>3. PICK a \in Seq(Nat) : a = SubSeq(t, i, k)
  BY <1>1, <1>2, WrappedType
<1>4. PICK b \in Seq(Nat) : b = SubSeq(t, k + 1, e)
  BY <1>1, <1>2, WrappedType
<1>5. PICK c \in Seq(Nat) : c = SubSeq(t, e + 1, Len(t))
  <2>1. SubSeq(t, e + 1, Len(t)) \in Seq(Nat)
    BY <1>1
  <2> QED BY <2>1
<1>6. PICK l \in Seq(Nat) : l = <<Mending!Less>> /\ Mending!Unwrapped(l) = <<>>
  <2>1. Mending!Less \in Nat /\ Mending!Less \in {Mending!Less, Mending!More}
    BY DEF Mending!Less, Mending!More
  <2>2. <<Mending!Less>> \in Seq(Nat)
    BY <2>1
  <2>3. Mending!Unwrapped(<<Mending!Less>>) = <<>>
    BY <2>1, UnwrappedOne
  <2> QED BY <2>2, <2>3
<1>7. PICK m \in Seq(Nat) : m = <<Mending!More>> /\ Mending!Unwrapped(m) = <<>>
  <2>1. Mending!More \in Nat /\ Mending!More \in {Mending!Less, Mending!More}
    BY DEF Mending!Less, Mending!More
  <2>2. <<Mending!More>> \in Seq(Nat)
    BY <2>1
  <2>3. Mending!Unwrapped(<<Mending!More>>) = <<>>
    BY <2>1, UnwrappedOne
  <2> QED BY <2>2, <2>3
<1>8. Wrapped(t, i, rest) = l \o a \o m \o b \o rest
  BY <1>1, <1>2, <1>3, <1>4, <1>6, <1>7, Zenon DEF Wrapped
<1>9. SubSeq(t, i, Len(t)) = a \o b \o c
  <2>1. k \in i - 1 .. Len(t) /\ e \in k .. Len(t)
    BY <1>1, <1>2
  <2> QED BY <1>3, <1>4, <1>5, <2>1, Splits
<1>10. Mending!Unwrapped(rest) = Mending!Unwrapped(c)
  BY <1>1, <1>5
<1>11. PICK u \in Seq(Nat) : u = l \o a /\ Mending!Unwrapped(u) = Mending!Unwrapped(a)
  BY <1>6, BracketBefore, Zenon
<1>12. PICK v \in Seq(Nat) : v = u \o m /\ Mending!Unwrapped(v) = Mending!Unwrapped(u)
  BY <1>7, BracketAfter, Zenon
<1>13. PICK x \in Seq(Nat) : x = v \o b /\ Mending!Unwrapped(x) = Mending!Unwrapped(v) \o Mending!Unwrapped(b)
  BY UnwrappedJoins, ConcatProperties, Zenon
<1>14. Mending!Unwrapped(x \o rest) = Mending!Unwrapped(x) \o Mending!Unwrapped(rest)
  BY UnwrappedJoins, Zenon
<1>15. PICK y \in Seq(Nat) : y = a \o b /\ Mending!Unwrapped(y) = Mending!Unwrapped(a) \o Mending!Unwrapped(b)
  BY UnwrappedJoins, ConcatProperties, Zenon
<1>16. Mending!Unwrapped(y \o c) = Mending!Unwrapped(y) \o Mending!Unwrapped(c)
  BY UnwrappedJoins, Zenon
<1>17. Mending!Unwrapped(Wrapped(t, i, rest)) = Mending!Unwrapped(a) \o Mending!Unwrapped(b) \o Mending!Unwrapped(c)
  BY <1>8, <1>10, <1>11, <1>12, <1>13, <1>14, Zenon
<1>18. Mending!Unwrapped(SubSeq(t, i, Len(t))) = Mending!Unwrapped(a) \o Mending!Unwrapped(b) \o Mending!Unwrapped(c)
  BY <1>9, <1>15, <1>16, Zenon
<1> QED BY <1>17, <1>18

(* Wrapping puts brackets in and moves nothing: what is between the brackets *)
(* stays as it was.                                                          *)
LEMMA WrapUnwraps ==
  ASSUME NEW t \in Seq(Nat)
  PROVE  Mending!Unwrapped(Mending!WrapBareUrls(t)) = Mending!Unwrapped(t)
<1>1. PICK f : Mending!WrapBareUrls(t) = f[1] /\ Wraps(f, t)
  BY WrapObeys
<1> DEFINE L == Len(t)
           P == {i \in 1 .. L + 1 : Mending!Unwrapped(f[i]) = Mending!Unwrapped(SubSeq(t, i, L))}
<1>2. L \in Nat
  OBVIOUS
<1>3. \A i \in 1 .. L + 1 : f[i] \in Seq(Nat)
  BY <1>1, WrapsType
<1>4. /\ f[L + 1] = <<>>
      /\ \A i \in 1 .. L : f[i] = IF ~Mending!IsLink(t, i) THEN <<t[i]>> \o f[i + 1]
                                       ELSE Wrapped(t, i, f[Mending!LinkEnd(t, i) + 1])
  BY <1>1, WrapsTo
<1> HIDE DEF L
<1>5. L + 1 \in P
  <2>1. SubSeq(t, L + 1, L) = <<>> /\ L + 1 \in 1 .. L + 1
    BY <1>2 DEF L
  <2> QED BY <1>4, <2>1
<1>6. ASSUME NEW i \in 1 .. L, \A j \in i + 1 .. L + 1 : j \in P PROVE i \in P
  <2>1. \A j \in i + 1 .. L + 1 : Mending!Unwrapped(f[j]) = Mending!Unwrapped(SubSeq(t, j, L))
    BY <1>6
  <2>2. i + 1 \in i + 1 .. L + 1 /\ i \in 1 .. L + 1
    BY <1>2
  <2>3. CASE ~Mending!IsLink(t, i)
    <3>1. f[i] = <<t[i]>> \o f[i + 1]
      BY <1>4, <2>3
    <3>2. SubSeq(t, i, L) = <<t[i]>> \o SubSeq(t, i + 1, L)
      BY Splits DEF L
    <3>3. PICK c \in Seq(Nat) : c = <<t[i]>>
      <4>1. <<t[i]>> \in Seq(Nat)
        BY DEF L
      <4> QED BY <4>1
    <3>4. PICK s \in Seq(Nat) : s = SubSeq(t, i + 1, L)
      <4>1. SubSeq(t, i + 1, L) \in Seq(Nat)
        BY <1>2 DEF L
      <4> QED BY <4>1
    <3>5. PICK g \in Seq(Nat) : g = f[i + 1] /\ Mending!Unwrapped(g) = Mending!Unwrapped(s)
      <4>1. i + 1 \in 1 .. L + 1
        BY <1>2
      <4>2. f[i + 1] \in Seq(Nat)
        BY <1>3, <4>1
      <4>3. Mending!Unwrapped(f[i + 1]) = Mending!Unwrapped(s)
        BY <2>1, <2>2, <3>4
      <4> QED BY <4>2, <4>3
    <3>6. Mending!Unwrapped(c \o g) = Mending!Unwrapped(c) \o Mending!Unwrapped(g) /\ Mending!Unwrapped(c \o s) = Mending!Unwrapped(c) \o Mending!Unwrapped(s)
      BY UnwrappedJoins, Zenon
    <3>7. Mending!Unwrapped(f[i]) = Mending!Unwrapped(SubSeq(t, i, L))
      BY <3>1, <3>2, <3>3, <3>4, <3>5, <3>6, Zenon
    <3> QED BY <2>2, <3>7
  <2>4. CASE Mending!IsLink(t, i)
    <3>1. f[i] = Wrapped(t, i, f[Mending!LinkEnd(t, i) + 1])
      BY <1>4, <2>4
    <3>2. PICK e \in i .. L : e = Mending!LinkEnd(t, i)
      BY <2>4, KeptEndIs DEF L
    <3>3. e + 1 \in i + 1 .. L + 1 /\ e + 1 \in 1 .. L + 1
      BY <1>2, <3>2
    <3>4. PICK g \in Seq(Nat) : g = f[e + 1] /\ Mending!Unwrapped(g) = Mending!Unwrapped(SubSeq(t, e + 1, L))
      <4>1. f[e + 1] \in Seq(Nat)
        BY <1>3, <3>3
      <4>2. Mending!Unwrapped(f[e + 1]) = Mending!Unwrapped(SubSeq(t, e + 1, L))
        BY <2>1, <3>3
      <4> QED BY <4>1, <4>2
    <3>5. Mending!Unwrapped(g) = Mending!Unwrapped(SubSeq(t, Mending!LinkEnd(t, i) + 1, Len(t)))
      BY <3>2, <3>4 DEF L
    <3>6. Mending!Unwrapped(Wrapped(t, i, g)) = Mending!Unwrapped(SubSeq(t, i, Len(t)))
      BY <2>4, <3>5, WrappedUnwraps DEF L
    <3>7. Mending!Unwrapped(f[i]) = Mending!Unwrapped(SubSeq(t, i, L))
      BY <3>1, <3>2, <3>4, <3>6 DEF L
    <3> QED BY <2>2, <3>7
  <2> QED BY <2>3, <2>4
<1> HIDE DEF P
<1>7. \A i \in 1 .. L + 1 : i \in P
  BY <1>2, <1>5, <1>6, Backwards
<1>8. Mending!Unwrapped(f[1]) = Mending!Unwrapped(SubSeq(t, 1, L))
  BY <1>2, <1>7, 1 \in 1 .. L + 1 DEF P
<1>9. SubSeq(t, 1, L) = t
  BY DEF L
<1> QED BY <1>1, <1>8, <1>9

-----------------------------------------------------------------------------
(* The text holds w after its first k characters.                            *)
Holds(s, w) ==
  \E k \in Nat : k + Len(w) =< Len(s) /\ \A j \in 1 .. Len(w) : k + j \in 1 .. Len(s) /\ s[k + j] = w[j]

LEMMA HoldsBefore ==
  ASSUME NEW w \in Seq(Nat), NEW v \in Seq(Nat)
  PROVE  Holds(w \o v, w)
<1>1. /\ Len(w \o v) = Len(w) + Len(v)
      /\ \A n \in 1 .. Len(w) : (w \o v)[n] = w[n]
  BY Concatenation
<1>2. Len(w) \in Nat /\ Len(v) \in Nat
  OBVIOUS
<1>3. 0 \in Nat /\ 0 + Len(w) =< Len(w \o v) /\ \A j \in 1 .. Len(w) : 0 + j \in 1 .. Len(w \o v) /\ 0 + j = j
  BY <1>1, <1>2
<1> QED BY <1>1, <1>3 DEF Holds

LEMMA HoldsExtends ==
  ASSUME NEW p \in Seq(Nat), NEW s \in Seq(Nat), NEW w \in Seq(Nat), Holds(s, w)
  PROVE  Holds(p \o s, w)
<1>1. PICK k \in Nat : k + Len(w) =< Len(s) /\ \A j \in 1 .. Len(w) : k + j \in 1 .. Len(s) /\ s[k + j] = w[j]
  BY DEF Holds
<1>2. /\ Len(p \o s) = Len(p) + Len(s)
      /\ \A n \in 1 .. Len(s) : (p \o s)[Len(p) + n] = s[n]
  BY Concatenation
<1>3. Len(w) \in Nat /\ Len(p) \in Nat /\ Len(s) \in Nat
  OBVIOUS
<1> DEFINE m == Len(p) + k
<1>4. m \in Nat /\ m + Len(w) =< Len(p \o s)
  BY <1>1, <1>2, <1>3
<1>5. ASSUME NEW j \in 1 .. Len(w) PROVE m + j \in 1 .. Len(p \o s) /\ (p \o s)[m + j] = w[j]
  <2>1. m + j = Len(p) + (k + j) /\ m + j \in 1 .. Len(p \o s)
    BY <1>3, <1>4
  <2>2. k + j \in 1 .. Len(s) /\ s[k + j] = w[j]
    BY <1>1
  <2>3. (p \o s)[Len(p) + (k + j)] = s[k + j]
    BY <1>2, <2>2
  <2> QED BY <2>1, <2>2, <2>3
<1> QED BY <1>4, <1>5 DEF Holds

LEMMA HoldsHas ==
  ASSUME NEW s \in Seq(Nat), NEW w \in Seq(Nat), Holds(s, w)
  PROVE  Mending!Has(s, w)
<1>1. PICK k \in Nat : k + Len(w) =< Len(s) /\ \A j \in 1 .. Len(w) : k + j \in 1 .. Len(s) /\ s[k + j] = w[j]
  BY DEF Holds
<1>2. Len(w) \in Nat /\ Len(s) \in Nat
  OBVIOUS
<1> DEFINE a == k + 1
           b == a + Len(w) - 1
<1>3. /\ a \in Int /\ b \in Int /\ a =< b + 1 /\ b - a + 1 = Len(w) /\ a \in 1 .. Len(s) - Len(w) + 1
      /\ \A j \in 1 .. Len(w) : a + j - 1 = k + j
      /\ \A j \in a .. b : j \in 1 .. Len(s)
  BY <1>1, <1>2
<1>4. \A j \in a .. b : s[j] \in Nat
  BY <1>3
<1> HIDE DEF a, b
<1>5. /\ SubSeq(s, a, b) \in Seq(Nat)
      /\ Len(SubSeq(s, a, b)) = IF a =< b THEN b - a + 1 ELSE 0
      /\ \A j \in 1 .. b - a + 1 : SubSeq(s, a, b)[j] = s[a + j - 1]
  BY <1>3, <1>4, SubSeqProperties
<1>6. Len(SubSeq(s, a, b)) = Len(w)
  BY <1>2, <1>3, <1>5
<1>7. \A j \in 1 .. Len(SubSeq(s, a, b)) : SubSeq(s, a, b)[j] = w[j]
  BY <1>1, <1>3, <1>5, <1>6
<1>8. SubSeq(s, a, b) = w
  BY <1>5, <1>6, <1>7, SeqEqual
<1> QED BY <1>3, <1>8 DEF Mending!Has, b

LEMMA WrappedBegins ==
  ASSUME NEW t \in Seq(Nat), NEW i \in 1 .. Len(t), Mending!IsLink(t, i)
  PROVE  \E p \in Seq(Nat) : \A rest : Wrapped(t, i, rest) = p \o rest
<1>1. PICK a \in Seq(Nat) : a = SubSeq(t, i, KeptEnd(t, i))
  BY <<>> \in Seq(Nat), WrappedType
<1>2. PICK b \in Seq(Nat) : b = SubSeq(t, KeptEnd(t, i) + 1, Mending!LinkEnd(t, i))
  BY <<>> \in Seq(Nat), WrappedType
<1>3. PICK l \in Seq(Nat), m \in Seq(Nat) : l = <<Mending!Less>> /\ m = <<Mending!More>>
  <2>1. <<Mending!Less>> \in Seq(Nat) /\ <<Mending!More>> \in Seq(Nat)
    BY DEF Mending!Less, Mending!More
  <2> QED BY <2>1
<1>4. PICK u \in Seq(Nat) : u = l \o a
  BY ConcatProperties
<1>5. PICK v \in Seq(Nat) : v = u \o m
  BY ConcatProperties
<1>6. PICK p \in Seq(Nat) : p = v \o b
  BY ConcatProperties
<1>7. \A rest : Wrapped(t, i, rest) = p \o rest
  BY <1>1, <1>2, <1>3, <1>4, <1>5, <1>6, Zenon DEF Wrapped
<1> QED BY <1>7

LEMMA WholeWrapped ==
  ASSUME NEW t \in Seq(Nat), NEW i \in 1 .. Len(t), Mending!IsLink(t, i), NEW rest \in Seq(Nat),
         Mending!Balanced(SubSeq(t, i, Mending!LinkEnd(t, i))), Mending!Last(SubSeq(t, i, Mending!LinkEnd(t, i))) \notin Mending!Sentence
  PROVE  /\ <<Mending!Less>> \o SubSeq(t, i, Mending!LinkEnd(t, i)) \o <<Mending!More>> \in Seq(Nat)
         /\ Wrapped(t, i, rest) = <<Mending!Less>> \o SubSeq(t, i, Mending!LinkEnd(t, i)) \o <<Mending!More>> \o rest
<1>1. PICK e \in i .. Len(t) : e = Mending!LinkEnd(t, i)
  BY KeptEndIs
<1>2. PICK link \in Seq(Nat) : link = SubSeq(t, i, e) /\ Len(link) = e - i + 1
  BY <1>1, KeptEndIs
<1>3. link # <<>>
  <2>1. Len(link) # 0
    BY <1>1, <1>2
  <2> QED BY <2>1
<1>4. Mending!Kept(link) = Len(link)
  BY <1>1, <1>2, <1>3, WholeKept
<1>5. KeptEnd(t, i) = e
  <2>1. KeptEnd(t, i) = i + Mending!Kept(link) - 1
    BY <1>1, <1>2 DEF KeptEnd
  <2> QED BY <1>1, <1>2, <1>4, <2>1
<1>6. SubSeq(t, e + 1, e) = <<>>
  BY <1>1
<1>7. PICK l \in Seq(Nat), m \in Seq(Nat) : l = <<Mending!Less>> /\ m = <<Mending!More>>
  <2>1. <<Mending!Less>> \in Seq(Nat) /\ <<Mending!More>> \in Seq(Nat)
    BY DEF Mending!Less, Mending!More
  <2> QED BY <2>1
<1>8. PICK u \in Seq(Nat) : u = l \o link
  BY ConcatProperties, Zenon
<1>9. PICK w \in Seq(Nat) : w = u \o m
  BY ConcatProperties, Zenon
<1>10. w \o <<>> = w
  BY ConcatEmptySeq, Zenon
<1>11. Wrapped(t, i, rest) = w \o <<>> \o rest
  BY <1>1, <1>2, <1>5, <1>6, <1>7, <1>8, <1>9, Zenon DEF Wrapped
<1>12. Wrapped(t, i, rest) = w \o rest
  BY <1>10, <1>11, Zenon
<1>13. w = <<Mending!Less>> \o SubSeq(t, i, Mending!LinkEnd(t, i)) \o <<Mending!More>>
  BY <1>1, <1>2, <1>7, <1>8, <1>9, Zenon
<1> QED BY <1>12, <1>13, Zenon

(* What stands before a link cannot swallow it: a link ends before a         *)
(* character that is in none. So the link comes out whole.                   *)
LEMMA LinkWhole ==
  ASSUME NEW t \in Seq(Nat), NEW i \in 1 .. Len(t), Mending!IsLink(t, i), i = 1 \/ ~Mending!InLink(t[i - 1]),
         Mending!Balanced(SubSeq(t, i, Mending!LinkEnd(t, i))), Mending!Last(SubSeq(t, i, Mending!LinkEnd(t, i))) \notin Mending!Sentence
  PROVE  Mending!Has(Mending!WrapBareUrls(t), <<Mending!Less>> \o SubSeq(t, i, Mending!LinkEnd(t, i)) \o <<Mending!More>>)
<1>1. PICK f : Mending!WrapBareUrls(t) = f[1] /\ Wraps(f, t)
  BY WrapObeys
<1>2. \A j \in 1 .. Len(t) + 1 : f[j] \in Seq(Nat)
  BY <1>1, WrapsType
<1>3. \A j \in 1 .. Len(t) : f[j] = IF ~Mending!IsLink(t, j) THEN <<t[j]>> \o f[j + 1]
                                    ELSE Wrapped(t, j, f[Mending!LinkEnd(t, j) + 1])
  BY <1>1, WrapsTo
<1>4. PICK w \in Seq(Nat) : w = <<Mending!Less>> \o SubSeq(t, i, Mending!LinkEnd(t, i)) \o <<Mending!More>>
  BY <<>> \in Seq(Nat), WholeWrapped
<1> DEFINE P == {j \in 1 .. i : Holds(f[j], w)}
<1>5. (i - 1) + 1 \in P /\ i - 1 \in Nat /\ (i - 1) + 1 = i
  <2>1. Mending!LinkEnd(t, i) + 1 \in 1 .. Len(t) + 1
    BY KeptEndIs
  <2>2. PICK rest \in Seq(Nat) : rest = f[Mending!LinkEnd(t, i) + 1]
    BY <1>2, <2>1
  <2>3. f[i] = w \o rest
    <3>1. f[i] = Wrapped(t, i, rest)
      BY <1>3, <2>2
    <3>2. Wrapped(t, i, rest) = <<Mending!Less>> \o SubSeq(t, i, Mending!LinkEnd(t, i)) \o <<Mending!More>> \o rest
      BY WholeWrapped
    <3> QED BY <1>4, <3>1, <3>2, Zenon
  <2>4. Holds(f[i], w)
    BY <2>3, HoldsBefore
  <2> QED BY <2>4
<1>6. ASSUME NEW j \in 1 .. i - 1, \A k \in j + 1 .. (i - 1) + 1 : k \in P PROVE j \in P
  <2>1. j \in 1 .. i /\ j \in 1 .. Len(t) /\ j + 1 \in j + 1 .. (i - 1) + 1 /\ j + 1 \in 1 .. Len(t) + 1
    OBVIOUS
  <2>2. CASE ~Mending!IsLink(t, j)
    <3>1. f[j] = <<t[j]>> \o f[j + 1]
      BY <1>3, <2>1, <2>2
    <3>2. PICK s \in Seq(Nat) : s = f[j + 1] /\ Holds(s, w)
      BY <1>2, <1>6, <2>1
    <3>3. PICK c \in Seq(Nat) : c = <<t[j]>>
      <4>1. <<t[j]>> \in Seq(Nat)
        BY <2>1
      <4> QED BY <4>1
    <3>4. Holds(c \o s, w)
      BY <3>2, HoldsExtends, Zenon
    <3>5. Holds(f[j], w)
      BY <3>1, <3>2, <3>3, <3>4, Zenon
    <3> QED BY <2>1, <3>5
  <2>3. CASE Mending!IsLink(t, j)
    <3>1. PICK e \in j .. Len(t) : e = Mending!LinkEnd(t, j) /\ \A k \in j .. e : Mending!InLink(t[k])
      BY <2>1, <2>3, LinkEndIs
    <3>2. i # 1 /\ ~Mending!InLink(t[i - 1])
      BY <2>1
    <3>3. e < i - 1
      <4>1. i - 1 \notin j .. e
        BY <3>1, <3>2
      <4> QED BY <2>1, <3>1, <4>1
    <3>4. e + 1 \in j + 1 .. (i - 1) + 1 /\ e + 1 \in 1 .. Len(t) + 1
      BY <2>1, <3>1, <3>3
    <3>5. PICK s \in Seq(Nat) : s = f[e + 1] /\ Holds(s, w)
      BY <1>2, <1>6, <3>4
    <3>6. PICK p \in Seq(Nat) : \A rest : Wrapped(t, j, rest) = p \o rest
      BY <2>1, <2>3, WrappedBegins
    <3>7. f[j] = p \o s
      BY <1>3, <2>1, <2>3, <3>1, <3>5, <3>6
    <3>8. Holds(p \o s, w)
      BY <3>5, HoldsExtends, Zenon
    <3>9. Holds(f[j], w)
      BY <3>7, <3>8
    <3> QED BY <2>1, <3>9
  <2> QED BY <2>2, <2>3
<1> HIDE DEF P
<1>7. 1 \in P
  <2>1. \A j \in 1 .. (i - 1) + 1 : j \in P
    BY <1>5, <1>6, Backwards
  <2>2. 1 \in 1 .. (i - 1) + 1
    BY <1>5
  <2> QED BY <2>1, <2>2
<1>8. f[1] \in Seq(Nat) /\ Holds(f[1], w)
  BY <1>2, <1>7 DEF P
<1> QED BY <1>1, <1>4, <1>8, HoldsHas

-----------------------------------------------------------------------------
(* What was exported is the text's bytes, and what was imported is made of   *)
(* them.                                                                     *)
TextInv ==
  /\ meant \in Mending!Texts
  /\ raw # <<>> => raw = Mending!Utf8(meant)
  /\ body # <<>> => raw # <<>> /\ body = Mending!WrapBareUrls(Mending!FixMojibake(Mending!Trim(raw, Mending!Space)))

LEMMA MeantIs ==
  ASSUME meant \in Mending!Texts
  PROVE  meant \in Seq(Nat) /\ \A k \in DOMAIN meant : Mending!Scalar(meant[k])
<1>1. PICK n \in 0 .. MaxText : meant \in [1 .. n -> Point]
  BY DEF Mending!Texts
<1>2. n \in Nat
  BY PointsAreCharacters
<1>3. \A k \in 1 .. n : meant[k] \in Nat /\ Mending!Scalar(meant[k])
  BY <1>1, PointsAreCharacters, Zenon
<1>4. DOMAIN meant = 1 .. n /\ meant = [k \in 1 .. n |-> meant[k]]
  BY <1>1
<1> QED BY <1>2, <1>3, <1>4

(* What was written comes back from the export but for the blanks around it, *)
(* unless its last byte is one that trim strips, and its balanced links come *)
(* out whole (normalize_post, fix_facebook_mojibake, wrap_bare_urls).        *)
THEOREM TextsRestored == Mending!Spec => []TextRestored
<1>1. Mending!Init => TextInv
  BY DEF Mending!Init, TextInv
<1>2. TextInv /\ [Mending!Next]_(Mending!vars) => TextInv'
  <2> SUFFICES ASSUME TextInv, [Mending!Next]_(Mending!vars) PROVE TextInv'
    OBVIOUS
  <2>1. CASE Mending!Export
    <3>1. body = <<>>
      BY <2>1 DEF Mending!Export, TextInv
    <3>2. meant' = meant /\ body' = body /\ raw' = Mending!Utf8(meant')
      BY <2>1 DEF Mending!Export
    <3> QED BY <3>1, <3>2 DEF TextInv
  <2>2. CASE Mending!Import
    <3>1. raw # <<>> /\ raw = Mending!Utf8(meant)
      BY <2>2 DEF Mending!Import, TextInv
    <3>2. meant' = meant /\ raw' = raw /\ body' = Mending!WrapBareUrls(Mending!FixMojibake(Mending!Trim(raw', Mending!Space)))
      BY <2>2 DEF Mending!Import
    <3> QED BY <3>1, <3>2 DEF TextInv
  <2>3. CASE UNCHANGED Mending!vars
    <3>1. meant' = meant /\ raw' = raw /\ body' = body
      BY <2>3 DEF Mending!vars
    <3> QED BY <3>1 DEF TextInv
  <2> QED BY <2>1, <2>2, <2>3 DEF Mending!Next
<1>3. TextInv => TextRestored
  <2> DEFINE t == Mending!Trim(meant, Mending!AsciiSpace)
  <2> SUFFICES ASSUME TextInv, body # <<>>, Mending!Last(Mending!Bytes(Mending!Last(t))) \notin Mending!Space
               PROVE  /\ Mending!Unwrapped(body) = Mending!Unwrapped(t)
                      /\ \A i \in DOMAIN t :
                           Mending!IsLink(t, i) /\ (i = 1 \/ ~Mending!InLink(t[i - 1])) =>
                             LET link == SubSeq(t, i, Mending!LinkEnd(t, i)) IN
                             Mending!Balanced(link) /\ Mending!Last(link) \notin Mending!Sentence
                               => Mending!Has(body, <<Mending!Less>> \o link \o <<Mending!More>>)
    BY Zenon DEF TextRestored, Mending!TextRestored
  <2>1. meant \in Seq(Nat) /\ \A k \in DOMAIN meant : Mending!Scalar(meant[k])
    BY MeantIs DEF TextInv
  <2>2. /\ t \in Seq(Nat) /\ \A k \in DOMAIN t : Mending!Scalar(t[k])
        /\ Mending!Trim(Mending!Utf8(meant), Mending!Space) = Mending!Utf8(t)
    BY <2>1, Trimmed, Zenon
  <2> HIDE DEF t
  <2>3. Mending!FixMojibake(Mending!Utf8(t)) = t
    BY <2>2, MojibakeUndone, Zenon
  <2>4. body = Mending!WrapBareUrls(t)
    BY <2>2, <2>3 DEF TextInv
  <2>5. Mending!Unwrapped(body) = Mending!Unwrapped(t)
    BY <2>2, <2>4, WrapUnwraps, Zenon
  <2>6. DOMAIN t = 1 .. Len(t)
    BY <2>2
  <2>7. ASSUME NEW i \in DOMAIN t, Mending!IsLink(t, i), i = 1 \/ ~Mending!InLink(t[i - 1]),
               Mending!Balanced(SubSeq(t, i, Mending!LinkEnd(t, i))), Mending!Last(SubSeq(t, i, Mending!LinkEnd(t, i))) \notin Mending!Sentence
        PROVE  Mending!Has(body, <<Mending!Less>> \o SubSeq(t, i, Mending!LinkEnd(t, i)) \o <<Mending!More>>)
    BY <2>2, <2>4, <2>6, <2>7, LinkWhole, Zenon
  <2> QED BY <2>5, <2>7, Zenon
<1> QED BY <1>1, <1>2, <1>3, PTL DEF Mending!Spec

(* The run's specification is that of its three parts, so each theorem above is     *)
(* about the run's behaviours, too.                                          *)
THEOREM ImportComposes == ArchiveSpec => Spec /\ Parsing!Spec /\ Mending!Spec
<1>1. Scenes => Init /\ Parsing!Init /\ Mending!Init
  BY DEF Scenes
<1>2. [Steps]_<<scene, vars, archiveVars, textVars>> =>
        [Next]_vars /\ [Parsing!Next]_(Parsing!vars) /\ [Mending!Next]_(Mending!vars)
  BY DEF Steps, archiveVars, textVars, Parsing!vars, Mending!vars
<1> QED BY <1>1, <1>2, PTL DEF ArchiveSpec, Spec, Parsing!Spec, Mending!Spec
=============================================================================
