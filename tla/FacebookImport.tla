--------------------------- MODULE FacebookImport ---------------------------
(***************************************************************************)
(* The Facebook importer: src/src/imports.  An upload stores the archive,   *)
(* inserts an import_job row and spawns a worker; the worker reads which    *)
(* items are imported already, imports the others a few at a time, each     *)
(* with its uploads to S3 and one transaction, and keeps status, progress   *)
(* and log on the job's row.                                                *)
(*                                                                          *)
(* A job is one upload of the archive, so two jobs hold the same items.     *)
(* Every object and every post belongs to one attempt: a job and an item.   *)
(* Of the log lines only "started", "finished" and the failures are kept;   *)
(* the others are written in the same places by the same code.              *)
(***************************************************************************)
EXTENDS Integers, Sequences, FiniteSets

CONSTANTS Job,          \* uploads of the archive
          Post, Album,  \* external ids of the posts and of the albums in it
          Media,        \* how many attachments each item has in the archive
          Empty,        \* the items with nothing to render: no row is made for them
          Concurrency,  \* IMPORT_CONCURRENCY
          FlushEvery,   \* PROGRESS_FLUSH_EVERY
          LogCap        \* JOB_LOG_CAP

ASSUME PostsAreNotAlbums == Post \cap Album = {}
ASSUME ArchiveIsFinite == IsFiniteSet(Post \cup Album)

Item == Post \cup Album

ASSUME ItemsHaveMedia ==
  /\ Media \in [Item -> Nat]
  /\ Empty \subseteq {x \in Item : Media[x] = 0}
ASSUME BoundsArePositive ==
  /\ Concurrency \in Nat \ {0}
  /\ FlushEvery \in Nat \ {0}
  /\ LogCap \in Nat \ {0}

VARIABLES
  status, progress, log,  \* the columns of import_job
  posts,                  \* the attempts whose transaction committed
  objects,                \* the S3 objects of attempts: job, item, number of the attachment
  worker,                 \* where the job's handler, then its worker, is
  already,                \* the ids the worker found imported when it asked
  item,                   \* the state of each item's future
  tally,                  \* the counters the worker keeps
  overlapped,             \* history: the pairs of jobs that ran at the same time
  excused, undecoded      \* history: objects left by a crash or a failed delete, and
                          \* objects left because a later attachment did not decode

row  == <<status, progress, log>>
hist == <<overlapped, excused, undecoded>>
vars == <<row, posts, objects, worker, already, item, tally, hist>>

NoCount == [total |-> 0, processed |-> 0, succeeded |-> 0, skipped |-> 0, failed |-> 0]
NoLog   == [entries |-> <<>>, dropped |-> 0]
Waiting == [at |-> "waiting", up |-> 0, out |-> "none", seen |-> NoLog]
Fresh   == [x \in Item |-> Waiting]

Alive(j)    == worker[j] \notin {"none", "gone"}
Live        == {j \in Job : Alive(j)}
Terminal(j) == status[j] \in {"succeeded", "failed"}

Init ==
  /\ status = [j \in Job |-> "none"]
  /\ progress = [j \in Job |-> NoCount]
  /\ log = [j \in Job |-> NoLog]
  /\ posts = {} /\ objects = {}
  /\ worker = [j \in Job |-> "none"]
  /\ already = [j \in Job |-> {}]
  /\ item = [j \in Job |-> Fresh]
  /\ tally = [j \in Job |-> NoCount]
  /\ overlapped = {} /\ excused = {} /\ undecoded = {}

-----------------------------------------------------------------------------
(* The log column: select, push, trim to the cap, update.                    *)

Push(l, e) ==
  LET all == Append(l.entries, e)
      over == IF Len(all) > LogCap THEN Len(all) - LogCap ELSE 0
  IN [entries |-> SubSeq(all, over + 1, Len(all)), dropped |-> l.dropped + over]

(* The worker's own lines are written while no item's future is running.  A   *)
(* log write that fails is ignored, everywhere.                              *)
LogLine(j, e) == log' = [log EXCEPT ![j] = Push(@, e)] \/ UNCHANGED log

-----------------------------------------------------------------------------
(* The job and its worker.                                                   *)

(* The archive is staged first, the row comes second, the worker third; a    *)
(* failure before the row leaves nothing a job could see.                    *)
CreateFacebookImport(j) ==
  /\ worker[j] = "none"
  /\ status' = [status EXCEPT ![j] = "queued"]
  /\ worker' = [worker EXCEPT ![j] = "spawned"]
  /\ overlapped' = overlapped \cup {{j, k} : k \in Live}
  /\ UNCHANGED <<progress, log, posts, objects, already, item, tally, excused, undecoded>>

(* The handler's future is dropped with its connection while the INSERT is   *)
(* under way: the row is there and no worker will ever be.                   *)
CreateDropped(j) ==
  /\ worker[j] = "none"
  /\ status' = [status EXCEPT ![j] = "queued"]
  /\ worker' = [worker EXCEPT ![j] = "gone"]
  /\ UNCHANGED <<progress, log, posts, objects, already, item, tally, hist>>

MarkRunning(j) ==
  /\ worker[j] = "spawned"
  /\ worker' = [worker EXCEPT ![j] = "running"]
  /\ status' = [status EXCEPT ![j] = IF @ = "queued" THEN "running" ELSE @]
  /\ LogLine(j, "started")
  /\ UNCHANGED <<progress, posts, objects, already, item, tally, hist>>

(* Staging, parsing and the first progress write; total is what was parsed.  *)
Scan(j) ==
  /\ worker[j] = "running"
  /\ worker' = [worker EXCEPT ![j] = "scanned"]
  /\ tally' = [tally EXCEPT ![j].total = Cardinality(Item)]
  /\ progress' = [progress EXCEPT ![j] = tally'[j]]
  /\ UNCHANGED <<status, log, posts, objects, already, item, hist>>

Imported(xs) == {x \in xs : \E j \in Job : <<j, x>> \in posts}

(* Mutant: the look-up asks for this job's own imports only.                 *)
DedupPostsOwn(j) ==
  /\ worker[j] = "scanned"
  /\ worker' = [worker EXCEPT ![j] = "postsRead"]
  /\ already' = [already EXCEPT ![j] = {x \in Post : <<j, x>> \in posts}]
  /\ UNCHANGED <<row, posts, objects, item, tally, hist>>

DedupPosts(j) ==
  /\ worker[j] = "scanned"
  /\ worker' = [worker EXCEPT ![j] = "postsRead"]
  /\ already' = [already EXCEPT ![j] = Imported(Post)]
  /\ UNCHANGED <<row, posts, objects, item, tally, hist>>

DedupAlbums(j) ==
  /\ worker[j] = "postsRead"
  /\ worker' = [worker EXCEPT ![j] = "importing"]
  /\ already' = [already EXCEPT ![j] = @ \cup Imported(Album)]
  /\ UNCHANGED <<row, posts, objects, item, tally, hist>>

(* Any of the worker's fallible calls outside the stream: it returns Err.    *)
WorkerFails(j) ==
  /\ worker[j] \in {"spawned", "running", "scanned", "postsRead", "flushing"}
  /\ worker' = [worker EXCEPT ![j] = "failed"]
  /\ UNCHANGED <<row, posts, objects, already, item, tally, hist>>

(* Mutant: no final flush.                                                   *)
FinalFlushSkipped(j) ==
  /\ worker[j] = "flushing"
  /\ worker' = [worker EXCEPT ![j] = "succeeded"]
  /\ LogLine(j, "finished")
  /\ UNCHANGED <<status, progress, posts, objects, already, item, tally, hist>>

FinalFlush(j) ==
  /\ worker[j] = "flushing"
  /\ worker' = [worker EXCEPT ![j] = "succeeded"]
  /\ progress' = [progress EXCEPT ![j] = tally[j]]
  /\ LogLine(j, "finished")
  /\ UNCHANGED <<status, posts, objects, already, item, tally, hist>>

(* finish() overwrites whatever status is there; its own failure is ignored. *)
Finish(j) ==
  /\ worker[j] \in {"succeeded", "failed"}
  /\ worker' = [worker EXCEPT ![j] = "gone"]
  /\ \/ status' = [status EXCEPT ![j] = worker[j]]
     \/ UNCHANGED status
  /\ item' = [item EXCEPT ![j] = Fresh]
  /\ tally' = [tally EXCEPT ![j] = NoCount]
  /\ UNCHANGED <<progress, log, posts, objects, already, hist>>

-----------------------------------------------------------------------------
(* One item's future.                                                        *)

Become(j, x, rec) == item' = [item EXCEPT ![j][x] = rec]

(* Mutant: futures that have finished keep their place in the stream.        *)
RunningEver(j) == {x \in Item : item[j][x].at # "waiting"}

Running(j) == {x \in Item : item[j][x].at \notin {"waiting", "consumed"}}

(* buffer_unordered holds at most Concurrency futures, and the album stream  *)
(* is built when the posts are all consumed.                                 *)
Admit(j, x) ==
  /\ worker[j] = "importing"
  /\ item[j][x].at = "waiting"
  /\ Cardinality(Running(j)) < Concurrency
  /\ x \in Album => \A p \in Post : item[j][p].at = "consumed"

Skip(j, x) ==
  /\ Admit(j, x)
  /\ x \in already[j]
  /\ Become(j, x, [Waiting EXCEPT !.at = "ready", !.out = "skipped"])
  /\ UNCHANGED <<row, posts, objects, worker, already, tally, hist>>

(* Reading the attachments off the archive: with nothing to render the item  *)
(* is a success at once; the read may fail.                                  *)
Start(j, x) ==
  /\ Admit(j, x)
  /\ x \notin already[j]
  /\ \/ x \notin Empty /\ Become(j, x, [Waiting EXCEPT !.at = "uploading"])
     \/ x \in Empty /\ Become(j, x, [Waiting EXCEPT !.at = "ready", !.out = "succeeded"])
     \/ Become(j, x, [Waiting EXCEPT !.at = "erred"])
  /\ UNCHANGED <<row, posts, objects, worker, already, tally, hist>>

Uploaded(j, x) == {<<j, x, n>> : n \in 1 .. item[j][x].up}

Upload(j, x) ==
  LET n == item[j][x].up + 1 IN
  /\ item[j][x].at = "uploading"
  /\ n <= Media[x]
  /\ objects' = objects \cup {<<j, x, n>>}
  /\ Become(j, x, [item[j][x] EXCEPT !.up = n])
  /\ UNCHANGED <<row, posts, worker, already, tally, hist>>

(* An attachment that does not decode ends the item with `?`: what was       *)
(* uploaded for it before stays where it is.                                 *)
DecodeFails(j, x) ==
  /\ item[j][x].at = "uploading"
  /\ item[j][x].up < Media[x]
  /\ undecoded' = undecoded \cup Uploaded(j, x)
  /\ Become(j, x, [item[j][x] EXCEPT !.at = "erred"])
  /\ UNCHANGED <<row, posts, objects, worker, already, tally, overlapped, excused>>

(* Mutant: the rollback forgets the last object.                             *)
RollbackShort(j, x) ==
  /\ objects' = objects \ {o \in Uploaded(j, x) : o[3] < item[j][x].up}
  /\ UNCHANGED hist

(* Uploads of the item are deleted one by one; a delete that fails is        *)
(* ignored.                                                                  *)
Rollback(j, x) ==
  \E kept \in SUBSET Uploaded(j, x) :
    /\ objects' = objects \ (Uploaded(j, x) \ kept)
    /\ excused' = excused \cup kept
    /\ UNCHANGED <<overlapped, undecoded>>

(* A put fails, or, with everything uploaded, the transaction does.          *)
ImportFails(j, x) ==
  /\ item[j][x].at = "uploading"
  /\ Rollback(j, x)
  /\ Become(j, x, [item[j][x] EXCEPT !.at = "erred"])
  /\ UNCHANGED <<row, posts, worker, already, tally>>

(* Mutant: the row is written before the last upload.                        *)
InsertEarly(j, x) ==
  /\ item[j][x].at = "uploading"
  /\ item[j][x].up + 1 >= Media[x]
  /\ posts' = posts \cup {<<j, x>>}
  /\ Become(j, x, [item[j][x] EXCEPT !.at = "ready", !.out = "succeeded"])
  /\ UNCHANGED <<row, objects, worker, already, tally, hist>>

(* One transaction: the post and a post_media row for each upload.           *)
Insert(j, x) ==
  /\ item[j][x].at = "uploading"
  /\ item[j][x].up = Media[x]
  /\ posts' = posts \cup {<<j, x>>}
  /\ Become(j, x, [item[j][x] EXCEPT !.at = "ready", !.out = "succeeded"])
  /\ UNCHANGED <<row, objects, worker, already, tally, hist>>

(* A failed item writes its log line from inside the stream, a read and a    *)
(* write apart, other items doing the same in between.                       *)
ReadLog(j, x) ==
  /\ item[j][x].at = "erred"
  /\ Become(j, x, [item[j][x] EXCEPT !.at = "logging", !.seen = log[j]])
  /\ UNCHANGED <<row, posts, objects, worker, already, tally, hist>>

WriteLog(j, x) ==
  /\ item[j][x].at = "logging"
  /\ \/ log' = [log EXCEPT ![j] = Push(item[j][x].seen, x)]
     \/ UNCHANGED log
  /\ Become(j, x, [item[j][x] EXCEPT !.at = "ready", !.out = "failed", !.seen = NoLog])
  /\ UNCHANGED <<status, progress, posts, objects, worker, already, tally, hist>>

(* The loop takes one outcome, counts it, and every FlushEvery of them       *)
(* writes the counters to the row; that write may fail.                      *)
Counted(t, out) ==
  [t EXCEPT !.processed = @ + 1,
            !.succeeded = IF out = "succeeded" THEN @ + 1 ELSE @,
            !.skipped   = IF out = "skipped" THEN @ + 1 ELSE @,
            !.failed    = IF out = "failed" THEN @ + 1 ELSE @]

Consume(j, x) ==
  LET t == Counted(tally[j], item[j][x].out) IN
  /\ item[j][x].at = "ready"
  /\ tally' = [tally EXCEPT ![j] = t]
  /\ Become(j, x, [item[j][x] EXCEPT !.at = "consumed"])
  /\ \/ /\ t.processed % FlushEvery = 0
        /\ progress' = [progress EXCEPT ![j] = t]
     \/ UNCHANGED progress
  /\ UNCHANGED <<status, log, posts, objects, worker, already, hist>>

StreamEnds(j) ==
  /\ worker[j] = "importing"
  /\ \A x \in Item : item[j][x].at = "consumed"
  /\ worker' = [worker EXCEPT ![j] = "flushing"]
  /\ UNCHANGED <<row, posts, objects, already, item, tally, hist>>

-----------------------------------------------------------------------------
(* The process dies and boots again: workers are gone, their uploads stay,   *)
(* and the sweep flips the running rows, unless its one statement fails.     *)

Uploading == {a \in Job \X Item : item[a[1]][a[2]].at = "uploading"}

(* Mutant: the sweep without its filter on the status.                       *)
SweepAll == status' = [j \in Job |-> IF status[j] = "none" THEN "none" ELSE "failed"]

Sweep == status' = [j \in Job |-> IF status[j] = "running" THEN "failed" ELSE status[j]]

Restart ==
  /\ \E j \in Job : Alive(j) \/ status[j] = "running"
  /\ Sweep \/ UNCHANGED status
  /\ worker' = [j \in Job |-> IF Alive(j) THEN "gone" ELSE worker[j]]
  /\ excused' = excused \cup UNION {Uploaded(a[1], a[2]) : a \in Uploading}
  /\ item' = [j \in Job |-> Fresh]
  /\ tally' = [j \in Job |-> NoCount]
  /\ UNCHANGED <<progress, log, posts, objects, already, overlapped, undecoded>>

-----------------------------------------------------------------------------
ItemStep(j, x) ==
  \/ Skip(j, x) \/ Start(j, x)
  \/ Upload(j, x) \/ DecodeFails(j, x) \/ ImportFails(j, x) \/ Insert(j, x)
  \/ ReadLog(j, x) \/ WriteLog(j, x) \/ Consume(j, x)

WorkerStep(j) ==
  \/ MarkRunning(j) \/ Scan(j) \/ DedupPosts(j) \/ DedupAlbums(j) \/ WorkerFails(j)
  \/ \E x \in Item : ItemStep(j, x)
  \/ StreamEnds(j) \/ FinalFlush(j) \/ Finish(j)

Next ==
  \/ \E j \in Job : CreateFacebookImport(j) \/ CreateDropped(j) \/ WorkerStep(j)
  \/ Restart

Spec == Init /\ [][Next]_vars

(* A spawned task keeps being polled while its process lives.                *)
FairSpec == Spec /\ \A j \in Job : WF_vars(WorkerStep(j))

-----------------------------------------------------------------------------
Count == [total : Nat, processed : Nat, succeeded : Nat, skipped : Nat, failed : Nat]
Log   == [entries : Seq({"started", "finished"} \cup Item), dropped : Nat]
Future ==
  [at : {"waiting", "uploading", "erred", "logging", "ready", "consumed"},
   up : Nat, out : {"none", "succeeded", "skipped", "failed"}, seen : Log]

TypeOK ==
  /\ status \in [Job -> {"none", "queued", "running", "succeeded", "failed"}]
  /\ progress \in [Job -> Count]
  /\ log \in [Job -> Log]
  /\ posts \in SUBSET (Job \X Item)
  /\ objects \in SUBSET (Job \X Item \X Nat)
  /\ worker \in [Job -> {"none", "spawned", "running", "scanned", "postsRead", "importing",
                         "flushing", "succeeded", "failed", "gone"}]
  /\ already \in [Job -> SUBSET Item]
  /\ item \in [Job -> [Item -> Future]]
  /\ tally \in [Job -> Count]
  /\ overlapped \in SUBSET SUBSET Job
  /\ excused \in SUBSET (Job \X Item \X Nat)
  /\ undecoded \in SUBSET (Job \X Item \X Nat)

(* Every attachment of an imported post has its object: the row is written   *)
(* last, and no clean-up of another attempt, or of this one, ever takes an   *)
(* object that a committed row points at.                                    *)
RowsHaveObjects ==
  \A a \in posts : \A n \in 1 .. Media[a[2]] : <<a[1], a[2], n>> \in objects

(* An item is imported once, whatever is restarted or uploaded again, unless *)
(* two jobs ran at the same time: the look-up before the inserts is all that *)
(* keeps it so, for the index on the import key is not unique.               *)
ImportedOnce ==
  \A a, b \in posts : a[2] = b[2] /\ a # b => {a[1], b[1]} \in overlapped

Orphan(o) == <<o[1], o[2]>> \notin posts /\ <<o[1], o[2]>> \notin Uploading

(* The only objects that are left behind without a row are those of a crash, *)
(* of a delete that failed, and of an attachment that did not decode.        *)
OrphansExplained == \A o \in objects : Orphan(o) => o \in excused \cup undecoded

(* What a job accounts for at its end: each item is in one of its counters,  *)
(* what it skipped was there, what it counts as imported has its rows, and   *)
(* an item that nobody imported is one of its failures.                      *)
Accounts(j) ==
  LET p == progress[j]
      mine == {x \in Item : <<j, x>> \in posts}
      missing == (Item \ Empty) \ Imported(Item)
  IN /\ p.processed = Cardinality(Item)
     /\ p.succeeded + p.skipped + p.failed = p.processed
     /\ p.skipped = Cardinality(already[j])
     /\ Cardinality(mine) <= p.succeeded
     /\ p.succeeded <= Cardinality(mine \cup Empty)
     /\ Cardinality(missing) <= p.failed

(* A job that ended well accounts for the whole archive, on its row and for  *)
(* good: what other jobs and boots do later cannot make its counters wrong.  *)
SucceededAccounts ==
  \A j \in Job : status[j] = "succeeded" => Accounts(j)

(* A job's outcome is final: no later worker, sweep or boot rewrites it.     *)
TerminalIsFinal ==
  [][\A j \in Job : Terminal(j) => status'[j] = status[j]]_vars

(* A worker never hangs in its stream: it comes to its end.                  *)
WorkersEnd == \A j \in Job : Alive(j) ~> ~Alive(j)

(* What append_log's comment relies on: each write to a job's log adds its   *)
(* line to the lines that are there.                                         *)
LogOnlyGrows ==
  [][\A j \in Job : log'[j] # log[j] =>
       \E e \in {"started", "finished"} \cup Item : log'[j] = Push(log[j], e)]_vars

(* What insert.rs says of a failed run: with its clean-up deletes working    *)
(* and no crash, nothing is left without a row.                              *)
NoOrphans == \A o \in objects : Orphan(o) => o \in excused

=============================================================================
