-------------------------- MODULE MCFacebookImport --------------------------
(***************************************************************************)
(* FacebookImport.tla on small archives: two uploads of the same one, which  *)
(* may overlap, and an upload of an archive with an empty item, a post and   *)
(* an album of two pictures, some of which an earlier upload has imported.   *)
(***************************************************************************)
EXTENDS FacebookImport, TLC

CONSTANTS p1, p2, a1, j0

OneEach == [x \in Item |-> 1]
Mixed == [x \in Item |-> CASE x = a1 -> 2 [] x = p1 -> 1 [] OTHER -> 0]

(* The server died while it worked on j0, and has come up again: whatever was  *)
(* committed by then is there with its objects, and the sweep has been.       *)
AfterCrash ==
  /\ status = [j \in Job |-> IF j = j0 THEN "failed" ELSE "none"]
  /\ progress = [j \in Job |-> IF j = j0 THEN [NoCount EXCEPT !.total = Cardinality(Item)] ELSE NoCount]
  /\ log = [j \in Job |-> IF j = j0 THEN Push(NoLog, "started") ELSE NoLog]
  /\ posts \in SUBSET ({j0} \X (Item \ Empty))
  /\ objects = UNION {{<<a[1], a[2], n>> : n \in 1 .. Media[a[2]]} : a \in posts}
  /\ worker = [j \in Job |-> IF j = j0 THEN "gone" ELSE "none"]
  /\ already = [j \in Job |-> {}] /\ item = [j \in Job |-> Fresh]
  /\ tally = [j \in Job |-> NoCount]
  /\ overlapped = {} /\ excused = {} /\ undecoded = {}

MCSpec == AfterCrash /\ [][Next]_vars /\ \A j \in Job : WF_vars(WorkerStep(j))

Jobs == Permutations(Job)
=============================================================================
