--------------------------- MODULE ServicesProofs ---------------------------
(***************************************************************************)
(* The parts of MCServices.tla, each for any number of its actors.            *)
(*                                                                          *)
(* Administrators.tla: between deactivate_user's look and its write a request  *)
(* knows two things as long as nobody changes the active administrators:      *)
(* whether its target is one of them, and, once it has counted, that it is     *)
(* not the only one.                                                         *)
(*                                                                          *)
(* Files.tla: an avatar's key is written into the row once, by the request that *)
(* drew it: what a request deletes has been in the row before, so it is         *)
(* neither there now nor the key of an upload still to be written.  A code's    *)
(* documents are those of one request at a time while there are no rivals.     *)
(*                                                                          *)
(* Sessions.tla: the hash of a record was made of what its sign-in was checked  *)
(* against, and the gate compares it with the row it has read.                 *)
(*                                                                          *)
(* Forms.tla: of an address whose log has missed nothing one submission at a    *)
(* time is past the look into it, and it waits only where the last mail was     *)
(* long ago; a verdict on a number is kept with the time it was given.         *)
(***************************************************************************)
EXTENDS MCServices, Sequences, FiniteSetTheorems, TLAPS

-----------------------------------------------------------------------------
(* Who administers the site: Administrators.tla.                              *)

Knows(r) ==
  Deciding(r) /\ r \notin disturbed /\ order[r].target \in ActiveAdmins =>
    /\ r \in admin
    /\ pc[r] = "cleared" => Cardinality(ActiveAdmins) > 1

CountInv == \A r \in Request : Knows(r)

AdminInv == TypeOK /\ CountInv

-----------------------------------------------------------------------------
(* Helpers.                                                                  *)

LEMMA NotAlone ==
  ASSUME TypeOK, Cardinality(ActiveAdmins) > 1, NEW u
  PROVE  ActiveAdmins \ {u} # {}
<1>1. CASE ActiveAdmins = {}
  <2>1. Cardinality(ActiveAdmins) = 0
    BY <1>1, FS_EmptySet
  <2> QED BY <2>1
<1>2. CASE ActiveAdmins = {u}
  <2>1. Cardinality(ActiveAdmins) = 1
    BY <1>2, FS_Singleton
  <2> QED BY <2>1
<1> QED BY <1>1, <1>2

(* A step that leaves a request where it is, and disturbs it if it changes the *)
(* active administrators, keeps what the request knows.                      *)
LEMMA KnowledgeKept ==
  ASSUME NEW r \in Request, Knows(r),
         pc'[r] = pc[r], order'[r] = order[r], r \in admin => r \in admin',
         r \notin disturbed' /\ Deciding(r) => r \notin disturbed /\ ActiveAdmins' = ActiveAdmins
  PROVE  Knows(r)'
<1> SUFFICES ASSUME Deciding(r)', r \notin disturbed', order'[r].target \in ActiveAdmins'
             PROVE  /\ r \in admin'
                    /\ pc'[r] = "cleared" => Cardinality(ActiveAdmins') > 1
  BY DEF Knows
<1>1. Deciding(r)
  BY DEF Deciding
<1>2. ActiveAdmins' = ActiveAdmins /\ r \notin disturbed
  BY <1>1
<1> QED BY <1>1, <1>2 DEF Knows

LEMMA DisturbTells ==
  ASSUME NEW done, Disturb(done), NEW r \in Request, r \notin done
  PROVE  r \notin disturbed' /\ Deciding(r) => r \notin disturbed /\ ActiveAdmins' = ActiveAdmins
BY DEF Disturb

-----------------------------------------------------------------------------
LEMMA AdminInit == Init => AdminInv
<1> SUFFICES ASSUME Init PROVE AdminInv
  OBVIOUS
<1>1. PICK u \in User : /\ rows = {u} /\ active = {u} /\ session = {u}
                        /\ role = [v \in User |-> IF v = u THEN Administrator ELSE None]
  BY DEF Init
<1>2. TypeOK
  BY <1>1, AdministratorIsRole DEF Init, TypeOK, Order, NoOrder
<1>3. CountInv
  BY DEF Init, CountInv, Knows, Deciding
<1> QED BY <1>2, <1>3 DEF AdminInv

LEMMA StepType == TypeOK /\ [Next]_vars => TypeOK'
<1> SUFFICES ASSUME TypeOK, [Next]_vars PROVE TypeOK'
  OBVIOUS
<1> USE DEF TypeOK
<1>1. ASSUME NEW r \in Request, NEW by \in User, NEW o \in Order, UpdateAdminUser(r, by, o)
      PROVE  TypeOK'
  BY <1>1 DEF UpdateAdminUser, Order, Goto
<1>2. ASSUME NEW r \in Request, FindTarget(r) PROVE TypeOK'
  BY <1>2 DEF FindTarget, Goto
<1>3. ASSUME NEW r \in Request, CountAdmins(r) PROVE TypeOK'
  BY <1>3 DEF CountAdmins, Goto
<1>4. ASSUME NEW r \in Request, SwitchOff(r) PROVE TypeOK'
  BY <1>4 DEF SwitchOff, Goto, Disturb
<1>5. ASSUME NEW r \in Request, SwitchOn(r) PROVE TypeOK'
  BY <1>5 DEF SwitchOn, Goto, Disturb, Order
<1>6. ASSUME NEW r \in Request, NothingToSwitch(r) PROVE TypeOK'
  BY <1>6 DEF NothingToSwitch, Goto
<1>7. ASSUME NEW r \in Request, AssignPassword(r) PROVE TypeOK'
  BY <1>7 DEF AssignPassword
<1>8. ASSUME NEW r \in Request, WriteRole(r) PROVE TypeOK'
  <2>1. role' \in [User -> Role \cup {None}]
    BY <1>8 DEF WriteRole, Order
  <2> QED BY <1>8, <2>1 DEF WriteRole, Answer, Goto, Disturb, Order, NoOrder
<1>9. ASSUME NEW r \in Request, Refuse(r) PROVE TypeOK'
  BY <1>9 DEF Refuse, Answer, Goto, Order, NoOrder
<1>10. ASSUME NEW u \in User, SignIn(u) \/ SessionEnds(u) PROVE TypeOK'
  BY <1>10 DEF SignIn, SessionEnds
<1>11. ASSUME NEW u \in User, NEW ro \in Role, CreateUser(u, ro) PROVE TypeOK'
  BY <1>11 DEF CreateUser, Disturb
<1>12. CASE UNCHANGED vars
  BY <1>12 DEF vars
<1> QED BY <1>1, <1>2, <1>3, <1>4, <1>5, <1>6, <1>7, <1>8, <1>9, <1>10, <1>11, <1>12 DEF Next, Serve

LEMMA StepCount == AdminInv /\ [Next]_vars => CountInv'
<1> SUFFICES ASSUME AdminInv, [Next]_vars, NEW q \in Request
             PROVE  Knows(q)'
  BY DEF CountInv
<1> TypeOK /\ Knows(q)
  BY DEF AdminInv, CountInv
<1>1. ASSUME NEW r \in Request, NEW by \in User, NEW o \in Order, UpdateAdminUser(r, by, o)
      PROVE  Knows(q)'
  <2>1. ActiveAdmins' = ActiveAdmins /\ disturbed' = disturbed /\ admin' = admin
    BY <1>1 DEF UpdateAdminUser, ActiveAdmins
  <2>2. CASE q # r
    <3>1. pc'[q] = pc[q] /\ order'[q] = order[q]
      BY <1>1, <2>2 DEF UpdateAdminUser, Goto, TypeOK
    <3> QED BY <2>1, <3>1, KnowledgeKept
  <2>3. CASE q = r
    BY <1>1, <2>3 DEF UpdateAdminUser, Goto, Deciding, Knows, TypeOK
  <2> QED BY <2>2, <2>3
<1>2. ASSUME NEW r \in Request, FindTarget(r) PROVE Knows(q)'
  <2>1. ActiveAdmins' = ActiveAdmins /\ disturbed' = disturbed /\ order' = order
    BY <1>2 DEF FindTarget, ActiveAdmins
  <2>2. CASE q # r
    <3>1. pc'[q] = pc[q] /\ (q \in admin => q \in admin')
      BY <1>2, <2>2 DEF FindTarget, Goto, TypeOK
    <3> QED BY <2>1, <3>1, KnowledgeKept
  <2>3. CASE q = r
    <3>1. pc'[q] = "found"
      BY <1>2, <2>3 DEF FindTarget, Goto, TypeOK
    <3>2. order[q].target \in ActiveAdmins => q \in admin'
      BY <1>2, <2>3 DEF FindTarget, ActiveAdmins
    <3> QED BY <2>1, <3>1, <3>2 DEF Knows
  <2> QED BY <2>2, <2>3
<1>3. ASSUME NEW r \in Request, CountAdmins(r) PROVE Knows(q)'
  <2>1. ActiveAdmins' = ActiveAdmins /\ disturbed' = disturbed /\ order' = order /\ admin' = admin
    BY <1>3 DEF CountAdmins, ActiveAdmins
  <2>2. CASE q # r
    <3>1. pc'[q] = pc[q]
      BY <1>3, <2>2 DEF CountAdmins, Goto, TypeOK
    <3> QED BY <2>1, <3>1, KnowledgeKept
  <2>3. CASE q = r
    <3>1. q \in admin => Cardinality(ActiveAdmins) > 1
      BY <1>3, <2>3 DEF CountAdmins, OthersLeft
    <3>2. Deciding(q)
      BY <1>3, <2>3 DEF CountAdmins, Deciding
    <3>3. q \notin disturbed /\ order[q].target \in ActiveAdmins => q \in admin
      BY <3>2 DEF Knows
    <3> QED BY <2>1, <3>1, <3>3 DEF Knows
  <2> QED BY <2>2, <2>3
<1>4. ASSUME NEW r \in Request, SwitchOff(r) \/ SwitchOn(r) PROVE Knows(q)'
  <2>1. Disturb({r}) /\ order' = order /\ admin' = admin
    BY <1>4 DEF SwitchOff, SwitchOn
  <2>2. CASE q # r
    <3>1. pc'[q] = pc[q]
      BY <1>4, <2>2 DEF SwitchOff, SwitchOn, Goto, TypeOK
    <3>2. q \notin disturbed' /\ Deciding(q) => q \notin disturbed /\ ActiveAdmins' = ActiveAdmins
      BY <2>1, <2>2, DisturbTells
    <3> QED BY <2>1, <3>1, <3>2, KnowledgeKept
  <2>3. CASE q = r
    BY <1>4, <2>3 DEF SwitchOff, SwitchOn, Goto, Deciding, Knows, TypeOK
  <2> QED BY <2>2, <2>3
<1>5. ASSUME NEW r \in Request, NothingToSwitch(r) \/ AssignPassword(r) PROVE Knows(q)'
  <2>1. ActiveAdmins' = ActiveAdmins /\ disturbed' = disturbed /\ order' = order /\ admin' = admin
    BY <1>5 DEF NothingToSwitch, AssignPassword, ActiveAdmins
  <2>2. CASE q # r
    <3>1. pc'[q] = pc[q]
      BY <1>5, <2>2 DEF NothingToSwitch, AssignPassword, Goto, TypeOK
    <3> QED BY <2>1, <3>1, KnowledgeKept
  <2>3. CASE q = r
    BY <1>5, <2>3 DEF NothingToSwitch, AssignPassword, Goto, Deciding, Knows, TypeOK
  <2> QED BY <2>2, <2>3
<1>6. ASSUME NEW r \in Request, WriteRole(r) \/ Refuse(r) PROVE Knows(q)'
  <2>1. CASE q # r
    <3>1. pc'[q] = pc[q] /\ order'[q] = order[q] /\ (q \in admin => q \in admin')
      BY <1>6, <2>1 DEF WriteRole, Refuse, Answer, Goto, TypeOK
    <3>2. CASE WriteRole(r)
      <4>1. Disturb({r})
        BY <3>2 DEF WriteRole
      <4>2. q \notin disturbed' /\ Deciding(q) => q \notin disturbed /\ ActiveAdmins' = ActiveAdmins
        BY <2>1, <4>1, DisturbTells
      <4> QED BY <3>1, <4>2, KnowledgeKept
    <3>3. CASE Refuse(r)
      <4>1. ActiveAdmins' = ActiveAdmins /\ disturbed' = disturbed \ {r}
        BY <3>3 DEF Refuse, ActiveAdmins
      <4> QED BY <2>1, <3>1, <4>1, KnowledgeKept
    <3> QED BY <1>6, <3>2, <3>3
  <2>2. CASE q = r
    BY <1>6, <2>2 DEF WriteRole, Refuse, Answer, Goto, Deciding, Knows, TypeOK
  <2> QED BY <2>1, <2>2
<1>7. ASSUME NEW u \in User, SignIn(u) \/ SessionEnds(u) PROVE Knows(q)'
  <2>1. /\ ActiveAdmins' = ActiveAdmins /\ disturbed' = disturbed
        /\ pc' = pc /\ order' = order /\ admin' = admin
    BY <1>7 DEF SignIn, SessionEnds, ActiveAdmins
  <2> QED BY <2>1, KnowledgeKept
<1>8. ASSUME NEW u \in User, NEW ro \in Role, CreateUser(u, ro) PROVE Knows(q)'
  <2>1. Disturb({}) /\ pc' = pc /\ order' = order /\ admin' = admin
    BY <1>8 DEF CreateUser
  <2>2. q \notin disturbed' /\ Deciding(q) => q \notin disturbed /\ ActiveAdmins' = ActiveAdmins
    BY <2>1, DisturbTells
  <2> QED BY <2>1, <2>2, KnowledgeKept
<1>9. CASE UNCHANGED vars
  <2>1. /\ ActiveAdmins' = ActiveAdmins /\ disturbed' = disturbed
        /\ pc' = pc /\ order' = order /\ admin' = admin
    BY <1>9 DEF vars, ActiveAdmins
  <2> QED BY <2>1, KnowledgeKept
<1> QED BY <1>1, <1>2, <1>3, <1>4, <1>5, <1>6, <1>7, <1>8, <1>9 DEF Next, Serve

LEMMA AdminStep == AdminInv /\ [Next]_vars => AdminInv'
BY StepType, StepCount DEF AdminInv

(* The inductive invariant holds in every reachable state.                   *)
THEOREM AdminInvHolds == Spec => []AdminInv
BY AdminInit, AdminStep, PTL DEF Spec

(* Every variable keeps its type, and a request's target is an account.       *)
THEOREM TypeCorrect == Spec => []TypeOK
<1>1. AdminInv => TypeOK
  BY DEF AdminInv
<1> QED BY <1>1, AdminInvHolds, PTL

-----------------------------------------------------------------------------
Remain == ActiveAdmins # {} /\ ActiveAdmins' = {} =>
            \E r \in Request : Demotes(r) \/ (SwitchOff(r) /\ r \in disturbed)

(* A deactivation nobody interferes with leaves another administrator.        *)
LEMMA SwitchOffLeavesOne ==
  ASSUME AdminInv, NEW r \in Request, SwitchOff(r), r \notin disturbed, ActiveAdmins # {}
  PROVE  ActiveAdmins' # {}
<1> DEFINE u == order[r].target
<1>1. ActiveAdmins' = ActiveAdmins \ {u}
  BY DEF SwitchOff, ActiveAdmins
<1>2. CASE u \in ActiveAdmins
  <2>1. Cardinality(ActiveAdmins) > 1
    BY <1>2 DEF SwitchOff, Deciding, AdminInv, CountInv, Knows
  <2> QED BY <1>1, <2>1, NotAlone DEF AdminInv
<1>3. CASE u \notin ActiveAdmins
  BY <1>1, <1>3
<1> QED BY <1>2, <1>3

LEMMA StepRemain == AdminInv /\ [Next]_vars => Remain
<1> SUFFICES ASSUME AdminInv, [Next]_vars, ActiveAdmins # {}, ActiveAdmins' = {}
             PROVE  \E r \in Request : Demotes(r) \/ (SwitchOff(r) /\ r \in disturbed)
  BY DEF Remain
<1> TypeOK
  BY DEF AdminInv
<1>1. ASSUME NEW r \in Request, SwitchOff(r) PROVE r \in disturbed
  BY <1>1, SwitchOffLeavesOne
<1>2. ASSUME NEW r \in Request, WriteRole(r) PROVE Demotes(r)
  <2>1. PICK u \in User : u \in rows /\ u \in active /\ role[u] = Administrator
    BY DEF ActiveAdmins, TypeOK
  <2>2. rows' = rows /\ active' = active /\ role'[u] # Administrator
    BY <1>2, <2>1 DEF WriteRole, ActiveAdmins
  <2>3. order[r].role \notin {None, Administrator}
    BY <1>2, <2>1, <2>2 DEF WriteRole, TypeOK
  <2> QED BY <1>2, <2>3 DEF Demotes
<1>3. ASSUME NEW r \in Request,
             \/ FindTarget(r) \/ CountAdmins(r) \/ SwitchOn(r) \/ NothingToSwitch(r)
             \/ AssignPassword(r) \/ Refuse(r)
             \/ \E by \in User, o \in Order : UpdateAdminUser(r, by, o)
      PROVE  FALSE
  BY <1>3 DEF FindTarget, CountAdmins, SwitchOn, NothingToSwitch, AssignPassword, Refuse,
              UpdateAdminUser, ActiveAdmins
<1>4. ASSUME NEW u \in User, SignIn(u) \/ SessionEnds(u) PROVE FALSE
  BY <1>4 DEF SignIn, SessionEnds, ActiveAdmins
<1>5. ASSUME NEW u \in User, NEW ro \in Role, CreateUser(u, ro) PROVE FALSE
  <2>1. PICK v \in User : v \in rows /\ v \in active /\ role[v] = Administrator
    BY DEF ActiveAdmins, TypeOK
  <2>2. v \in rows' /\ v \in active' /\ role'[v] = Administrator
    BY <1>5, <2>1 DEF CreateUser, TypeOK
  <2> QED BY <2>2 DEF ActiveAdmins
<1>6. CASE UNCHANGED vars
  BY <1>6 DEF vars, ActiveAdmins
<1> QED BY <1>1, <1>2, <1>3, <1>4, <1>5, <1>6 DEF Next, Serve

(* The active administrators only come to an end by a change of role, or by a *)
(* deactivation that another request interfered with between its count and    *)
(* its write.                                                                *)
THEOREM LastOneStays == Spec => AdministratorsRemain
<1>1. AdminInv /\ [Next]_vars => [Remain]_vars
  BY StepRemain
<1> QED BY <1>1, AdminInvHolds, PTL DEF Spec, AdministratorsRemain, Remain

-----------------------------------------------------------------------------
(* Avatars and access codes: Files.tla.                                       *)

FileRequest == [pc : {"idle", "begun", "stored", "found", "written", "cleaning", "cleaned"},
        what : {"none", "avatar", "no avatar", "create", "delete"}, key : Nat, prev : Nat]

FileTypes ==
  /\ avatar \in Nat /\ keys \in Nat /\ code \in Nat /\ codes \in Nat
  /\ docs \subseteq Storing!Document /\ rivals \in BOOLEAN
  /\ req \in [Upload -> FileRequest]
  /\ \A r \in Upload : req[r].pc = "idle" => req[r].what = "none"

OfAvatar(r) == req[r].what \in {"avatar", "no avatar"}

(* Its object is stored, and its key not yet in the row.                      *)
Unwritten(r) == req[r].what = "avatar" /\ req[r].pc \in {"stored", "found"}

Replacing(r) == OfAvatar(r) /\ req[r].pc \in {"found", "written"}

(* Keys there have been, and NULL.                                           *)
DrawnKeys == 0 .. keys

KeyKnown(r) ==
  /\ req[r].key \in DrawnKeys
  /\ req[r].what = "no avatar" => req[r].key = 0
  /\ Unwritten(r) => req[r].key # 0 /\ req[r].key \in objects /\ req[r].key # avatar
  /\ Replacing(r) => req[r].prev \in DrawnKeys
  /\ OfAvatar(r) /\ req[r].pc = "written" /\ req[r].prev # req[r].key /\ avatar # 0 =>
       req[r].prev # avatar

Apart(r, s) ==
  Unwritten(s) =>
    /\ Replacing(r) => req[r].prev # req[s].key
    /\ Unwritten(r) /\ r # s => req[r].key # req[s].key

KeyInv ==
  /\ avatar \in DrawnKeys /\ Storing!AvatarLoads
  /\ \A r \in Upload : KeyKnown(r)
  /\ \A r, s \in Upload : Apart(r, s)

AboutCode(r) == Storing!OfCode(req[r].what)

DocumentInv ==
  ~rivals =>
    /\ \A r, s \in Upload : AboutCode(r) /\ AboutCode(s) => r = s
    /\ code # 0 => docs = Storing!Document
    /\ \A r \in Upload :
         /\ req[r].what = "create" /\ req[r].pc = "found" => code = 0
         /\ req[r].what = "create" /\ req[r].pc = "stored" => code = 0 /\ "index.html" \in docs
         /\ req[r].what = "create" /\ req[r].pc = "written" => code = 0 /\ docs = Storing!Document
         /\ req[r].what = "delete" /\ req[r].pc = "found" => code # 0 /\ code = req[r].prev
         /\ AboutCode(r) /\ req[r].pc \in {"cleaning", "cleaned"} => code = 0

FileInv == FileTypes /\ KeyInv /\ DocumentInv

-----------------------------------------------------------------------------
(* What each step does to the requests: one goes on, the others stay.         *)

Goes(r, at, what, key, prev) ==
  /\ req' \in [Upload -> FileRequest]
  /\ req'[r].pc = at /\ req'[r].what = what /\ req'[r].key = key /\ req'[r].prev = prev
  /\ \A q \in Upload \ {r} : req'[q] = req[q]

LEMMA FileStops ==
  ASSUME FileTypes, NEW r \in Upload, req' = [req EXCEPT ![r] = Storing!Idle]
  PROVE  Goes(r, "idle", "none", 0, 0)
BY DEF FileTypes, FileRequest, Storing!Idle, Goes

LEMMA FileGoes ==
  ASSUME FileTypes, NEW r \in Upload, NEW at \in {"found", "stored", "written", "cleaning", "cleaned"},
         Storing!Goto(r, at)
  PROVE  Goes(r, at, req[r].what, req[r].key, req[r].prev)
BY DEF FileTypes, FileRequest, Storing!Goto, Goes

LEMMA FileBegins ==
  ASSUME FileTypes, NEW r \in Upload, NEW what \in {"avatar", "no avatar", "create", "delete"},
         Storing!Begin(r, what)
  PROVE  Goes(r, "begun", what, 0, 0)
BY DEF FileTypes, FileRequest, Storing!Idle, Storing!Begin, Goes

LEMMA FileStores ==
  ASSUME FileTypes, NEW r \in Upload, NEW k \in Nat,
         req' = [req EXCEPT ![r].pc = "stored", ![r].key = k]
  PROVE  Goes(r, "stored", req[r].what, k, req[r].prev)
<1> DEFINE new == [req[r] EXCEPT !.pc = "stored", !.key = k]
<1>1. /\ new \in FileRequest /\ new.pc = "stored" /\ new.what = req[r].what
      /\ new.key = k /\ new.prev = req[r].prev
  BY DEF FileTypes, FileRequest
<1>2. req' = [req EXCEPT ![r] = new]
  BY DEF FileTypes, FileRequest
<1> HIDE DEF new
<1> QED BY <1>1, <1>2 DEF FileTypes, Goes

LEMMA FileFinds ==
  ASSUME FileTypes, NEW r \in Upload, NEW k \in Nat,
         req' = [req EXCEPT ![r].pc = "found", ![r].prev = k]
  PROVE  Goes(r, "found", req[r].what, req[r].key, k)
<1> DEFINE new == [req[r] EXCEPT !.pc = "found", !.prev = k]
<1>1. /\ new \in FileRequest /\ new.pc = "found" /\ new.what = req[r].what
      /\ new.key = req[r].key /\ new.prev = k
  BY DEF FileTypes, FileRequest
<1>2. req' = [req EXCEPT ![r] = new]
  BY DEF FileTypes, FileRequest
<1> HIDE DEF new
<1> QED BY <1>1, <1>2 DEF FileTypes, Goes

(* The request a step is of; what it then holds.                              *)
LEMMA FileSteps ==
  ASSUME FileTypes, NEW r \in Upload
  PROVE  /\ Storing!Stop(r) \/ Storing!DeletePrevious(r) \/ Storing!InsertCode(r) \/
            Storing!CleanDocument(r) => Goes(r, "idle", "none", 0, 0)
         /\ Storing!PutAvatar(r) => Goes(r, "stored", req[r].what, keys + 1, req[r].prev)
         /\ Storing!FindUser(r) => Goes(r, "found", req[r].what, req[r].key, avatar)
         /\ Storing!FindCode(r) => Goes(r, "found", req[r].what, req[r].key, code)
         /\ Storing!UpdateUser(r) \/ Storing!PutDocument(r) => Goes(r, "written", req[r].what, req[r].key,
            req[r].prev)
         /\ Storing!CheckCode(r) => Goes(r, "found", req[r].what, req[r].key, req[r].prev)
         /\ Storing!PutIndex(r) => Goes(r, "stored", req[r].what, req[r].key, req[r].prev)
         /\ Storing!InsertFails(r) \/ Storing!DeleteCode(r) => Goes(r, "cleaning", req[r].what, req[r].key,
            req[r].prev)
         /\ Storing!CleanIndex(r) => Goes(r, "cleaned", req[r].what, req[r].key, req[r].prev)
<1>1. keys + 1 \in Nat /\ avatar \in Nat /\ code \in Nat
  BY DEF FileTypes
<1>2. Storing!Stop(r) \/ Storing!DeletePrevious(r) \/ Storing!InsertCode(r) \/ Storing!CleanDocument(r) =>
      Goes(r, "idle", "none", 0, 0)
  BY FileStops DEF Storing!Stop, Storing!DeletePrevious, Storing!InsertCode, Storing!CleanDocument
<1>3. Storing!PutAvatar(r) => Goes(r, "stored", req[r].what, keys + 1, req[r].prev)
  BY <1>1, FileStores DEF Storing!PutAvatar, Storing!NewKey
<1>4. Storing!FindUser(r) => Goes(r, "found", req[r].what, req[r].key, avatar)
  BY <1>1, FileFinds DEF Storing!FindUser
<1>5. Storing!FindCode(r) => Goes(r, "found", req[r].what, req[r].key, code)
  BY <1>1, FileFinds DEF Storing!FindCode
<1> QED
  BY <1>2, <1>3, <1>4, <1>5, FileGoes
  DEF Storing!UpdateUser, Storing!PutDocument, Storing!CheckCode, Storing!PutIndex, Storing!InsertFails,
      Storing!DeleteCode, Storing!CleanIndex

-----------------------------------------------------------------------------
LEMMA FileInit == Storing!Init => FileInv
<1> SUFFICES ASSUME Storing!Init PROVE FileInv
  OBVIOUS
<1>1. \A r \in Upload : req[r].pc = "idle" /\ req[r].what = "none" /\ req[r].key = 0 /\ req[r].prev = 0
  BY DEF Storing!Init, Storing!Idle
<1>2. FileTypes
  <2>1. Storing!Idle \in FileRequest
    BY DEF Storing!Idle, FileRequest
  <2>2. docs \subseteq Storing!Document /\ req \in [Upload -> FileRequest]
    BY <2>1 DEF Storing!Init
  <2> QED BY <1>1, <2>2 DEF Storing!Init, FileTypes
<1>3. KeyInv
  <2>1. 0 \in DrawnKeys
    BY DEF Storing!Init, DrawnKeys
  <2> QED BY <1>1, <2>1 DEF Storing!Init, KeyInv, KeyKnown, Apart, Storing!AvatarLoads, Unwritten,
             Replacing, OfAvatar
<1>4. DocumentInv
  BY <1>1 DEF Storing!Init, DocumentInv, AboutCode, Storing!OfCode
<1> QED BY <1>2, <1>3, <1>4 DEF FileInv

LEMMA NullDrawn == FileTypes => 0 \in DrawnKeys
BY DEF FileTypes, DrawnKeys

(* A step that leaves row and objects alone, of a request that has no key.      *)
LEMMA Aside ==
  ASSUME FileTypes, KeyInv, NEW r \in Upload, NEW at, NEW what, NEW key \in {0, req[r].key}, NEW prev,
         Goes(r, at, what, key, prev), UNCHANGED <<avatar, objects, keys>>,
         what = "no avatar" => key = 0,
         what \in {"avatar", "no avatar"} => at \in {"idle", "begun"}
  PROVE  KeyInv'
<1>1. 0 \in DrawnKeys /\ DrawnKeys' = DrawnKeys
  <2>1. keys' = keys
    OBVIOUS
  <2> QED BY <2>1, NullDrawn DEF DrawnKeys
<1> USE DEF Goes, Unwritten, Replacing, OfAvatar
<1>2. ASSUME NEW p \in Upload PROVE KeyKnown(p)'
  <2>1. KeyKnown(p) /\ KeyKnown(r)
    BY DEF KeyInv
  <2> QED BY <1>1, <2>1 DEF KeyKnown
<1>3. ASSUME NEW p \in Upload, NEW q \in Upload PROVE Apart(p, q)'
  <2>1. Apart(p, q)
    BY DEF KeyInv
  <2> QED BY <2>1 DEF Apart
<1> QED BY <1>1, <1>2, <1>3 DEF KeyInv, Storing!AvatarLoads

LEMMA StepKey == FileTypes /\ KeyInv /\ [Storing!Next]_(Storing!fileVars) => KeyInv'
<1> SUFFICES ASSUME FileTypes, KeyInv, [Storing!Next]_(Storing!fileVars) PROVE KeyInv'
  OBVIOUS
<1>0. 0 \in DrawnKeys /\ (keys' = keys => DrawnKeys' = DrawnKeys) /\ avatar \in DrawnKeys /\
      Storing!AvatarLoads
  BY DEF KeyInv, DrawnKeys, FileTypes
<1> USE DEF Goes, Storing!AvatarLoads, Unwritten, Replacing, OfAvatar
<1>1. ASSUME NEW r \in Upload, NEW what \in {"avatar", "no avatar", "create", "delete"}, Storing!Begin(r,
             what)
      PROVE  KeyInv'
  <2>1. Goes(r, "begun", what, 0, 0)
    BY <1>1, FileBegins
  <2> QED BY <1>1, <2>1, Aside DEF Storing!Begin
<1>2. ASSUME NEW r \in Upload, Storing!Stop(r) PROVE KeyInv'
  <2>1. Goes(r, "idle", "none", 0, 0)
    BY <1>2, FileSteps
  <2>2. UNCHANGED <<avatar, objects, keys>>
    BY <1>2 DEF Storing!Stop
  <2> QED BY <2>1, <2>2, Aside
<1>3. ASSUME NEW r \in Upload, Storing!PutAvatar(r) PROVE KeyInv'
  <2>a. keys' = keys + 1
    BY <1>3 DEF Storing!PutAvatar
  <2>0. /\ req[r].what = "avatar" /\ req[r].pc = "begun"
        /\ keys' # 0 /\ keys' \notin DrawnKeys /\ keys' \in DrawnKeys' /\ DrawnKeys \subseteq DrawnKeys'
    BY <1>3, <2>a DEF Storing!PutAvatar, Storing!At, DrawnKeys, FileTypes
  <2>1. Goes(r, "stored", "avatar", keys', req[r].prev)
    BY <1>3, <2>a, <2>0, FileSteps
  <2>2. avatar' = avatar /\ objects' = objects \cup {keys'}
    BY <1>3 DEF Storing!PutAvatar, Storing!NewKey
  <2>3. ASSUME NEW p \in Upload PROVE KeyKnown(p)'
    <3>1. KeyKnown(p) /\ KeyKnown(r) /\ Apart(p, r) /\ Apart(r, p)
      BY DEF KeyInv
    <3> QED BY <1>0, <2>0, <2>1, <2>2, <3>1 DEF KeyKnown, Apart
  <2>4. ASSUME NEW p \in Upload, NEW q \in Upload PROVE Apart(p, q)'
    <3>1. KeyKnown(p) /\ KeyKnown(q) /\ KeyKnown(r) /\ Apart(p, q) /\ Apart(r, q) /\ Apart(p, r)
      BY DEF KeyInv
    <3> QED BY <1>0, <2>0, <2>1, <2>2, <3>1 DEF KeyKnown, Apart
  <2>5. avatar' \in DrawnKeys' /\ Storing!AvatarLoads'
    <3>1. KeyKnown(r)
      BY DEF KeyInv
    <3> QED BY <1>0, <2>0, <2>1, <2>2, <3>1 DEF KeyKnown
  <2> QED BY <2>3, <2>4, <2>5 DEF KeyInv
<1>4. ASSUME NEW r \in Upload, Storing!FindUser(r) PROVE KeyInv'
  <2>1. Goes(r, "found", req[r].what, req[r].key, avatar)
    BY <1>4, FileSteps
  <2>2. /\ UNCHANGED <<avatar, objects, keys>>
        /\ Unwritten(r) \/ req[r].what = "no avatar"
    BY <1>4 DEF Storing!FindUser, Storing!At
  <2>3. ASSUME NEW p \in Upload PROVE KeyKnown(p)'
    <3>1. KeyKnown(p) /\ KeyKnown(r) /\ Apart(p, r) /\ Apart(r, p)
      BY DEF KeyInv
    <3> QED BY <1>0, <2>1, <2>2, <3>1 DEF KeyKnown, Apart
  <2>4. ASSUME NEW p \in Upload, NEW q \in Upload PROVE Apart(p, q)'
    <3>1. KeyKnown(p) /\ KeyKnown(q) /\ KeyKnown(r) /\ Apart(p, q) /\ Apart(r, q) /\ Apart(p, r)
      BY DEF KeyInv
    <3> QED BY <1>0, <2>1, <2>2, <3>1 DEF KeyKnown, Apart
  <2>5. avatar' \in DrawnKeys' /\ Storing!AvatarLoads'
    <3>1. KeyKnown(r)
      BY DEF KeyInv
    <3> QED BY <1>0, <2>1, <2>2, <3>1 DEF KeyKnown
  <2> QED BY <2>3, <2>4, <2>5 DEF KeyInv
<1>5. ASSUME NEW r \in Upload, Storing!UpdateUser(r) PROVE KeyInv'
  <2>1. Goes(r, "written", req[r].what, req[r].key, req[r].prev)
    BY <1>5, FileSteps
  <2>2. /\ avatar' = req[r].key /\ UNCHANGED <<objects, keys>>
        /\ req[r].pc = "found" /\ OfAvatar(r)
    BY <1>5 DEF Storing!UpdateUser, Storing!At
  <2>3. ASSUME NEW p \in Upload PROVE KeyKnown(p)'
    <3>1. KeyKnown(p) /\ KeyKnown(r) /\ Apart(p, r) /\ Apart(r, p)
      BY DEF KeyInv
    <3> QED BY <1>0, <2>1, <2>2, <3>1 DEF KeyKnown, Apart
  <2>4. ASSUME NEW p \in Upload, NEW q \in Upload PROVE Apart(p, q)'
    <3>1. KeyKnown(p) /\ KeyKnown(q) /\ KeyKnown(r) /\ Apart(p, q) /\ Apart(r, q) /\ Apart(p, r)
      BY DEF KeyInv
    <3> QED BY <1>0, <2>1, <2>2, <3>1 DEF KeyKnown, Apart
  <2>5. avatar' \in DrawnKeys' /\ Storing!AvatarLoads'
    <3>1. KeyKnown(r)
      BY DEF KeyInv
    <3> QED BY <1>0, <2>1, <2>2, <3>1 DEF KeyKnown
  <2> QED BY <2>3, <2>4, <2>5 DEF KeyInv
<1>6. ASSUME NEW r \in Upload, Storing!DeletePrevious(r) PROVE KeyInv'
  <2>1. Goes(r, "idle", "none", 0, 0)
    BY <1>6, FileSteps
  <2>2. /\ UNCHANGED <<avatar, keys>> /\ req[r].pc = "written" /\ OfAvatar(r)
        /\ objects' = IF req[r].prev = req[r].key THEN objects ELSE objects \ {req[r].prev}
    BY <1>6 DEF Storing!DeletePrevious, Storing!At
  <2>3. ASSUME NEW p \in Upload PROVE KeyKnown(p)'
    <3>1. KeyKnown(p) /\ KeyKnown(r) /\ Apart(p, r) /\ Apart(r, p)
      BY DEF KeyInv
    <3> QED BY <1>0, <2>1, <2>2, <3>1 DEF KeyKnown, Apart
  <2>4. ASSUME NEW p \in Upload, NEW q \in Upload PROVE Apart(p, q)'
    <3>1. KeyKnown(p) /\ KeyKnown(q) /\ KeyKnown(r) /\ Apart(p, q) /\ Apart(r, q) /\ Apart(p, r)
      BY DEF KeyInv
    <3> QED BY <1>0, <2>1, <2>2, <3>1 DEF KeyKnown, Apart
  <2>5. avatar' \in DrawnKeys' /\ Storing!AvatarLoads'
    <3>1. KeyKnown(r)
      BY DEF KeyInv
    <3> QED BY <1>0, <2>1, <2>2, <3>1 DEF KeyKnown
  <2> QED BY <2>3, <2>4, <2>5 DEF KeyInv
<1>7. ASSUME NEW r \in Upload, Storing!CheckCode(r) \/ Storing!FindCode(r) PROVE KeyInv'
  <2>1. \E prev : Goes(r, "found", req[r].what, req[r].key, prev)
    BY <1>7, FileSteps
  <2>2. UNCHANGED <<avatar, objects, keys>> /\ req[r].what \in {"create", "delete"}
    BY <1>7 DEF Storing!CheckCode, Storing!FindCode, Storing!At
  <2> QED BY <2>1, <2>2, Aside
<1>8. ASSUME NEW r \in Upload, Storing!PutIndex(r) PROVE KeyInv'
  <2>1. Goes(r, "stored", req[r].what, req[r].key, req[r].prev)
    BY <1>8, FileSteps
  <2>2. UNCHANGED <<avatar, objects, keys>> /\ req[r].what \in {"create", "delete"}
    BY <1>8 DEF Storing!PutIndex, Storing!At
  <2> QED BY <2>1, <2>2, Aside
<1>9. ASSUME NEW r \in Upload, Storing!PutDocument(r) PROVE KeyInv'
  <2>1. Goes(r, "written", req[r].what, req[r].key, req[r].prev)
    BY <1>9, FileSteps
  <2>2. UNCHANGED <<avatar, objects, keys>> /\ req[r].what \in {"create", "delete"}
    BY <1>9 DEF Storing!PutDocument, Storing!At
  <2> QED BY <2>1, <2>2, Aside
<1>10. ASSUME NEW r \in Upload, Storing!InsertCode(r) \/ Storing!CleanDocument(r) PROVE KeyInv'
  <2>1. Goes(r, "idle", "none", 0, 0)
    BY <1>10, FileSteps
  <2>2. UNCHANGED <<avatar, objects, keys>> /\ req[r].what \in {"create", "delete"}
    BY <1>10 DEF Storing!InsertCode, Storing!CleanDocument, Storing!At
  <2> QED BY <2>1, <2>2, Aside
<1>11. ASSUME NEW r \in Upload, Storing!InsertFails(r) \/ Storing!DeleteCode(r) PROVE KeyInv'
  <2>1. Goes(r, "cleaning", req[r].what, req[r].key, req[r].prev)
    BY <1>11, FileSteps
  <2>2. UNCHANGED <<avatar, objects, keys>> /\ req[r].what \in {"create", "delete"}
    BY <1>11 DEF Storing!InsertFails, Storing!DeleteCode, Storing!At
  <2> QED BY <2>1, <2>2, Aside
<1>12. ASSUME NEW r \in Upload, Storing!CleanIndex(r) PROVE KeyInv'
  <2>1. Goes(r, "cleaned", req[r].what, req[r].key, req[r].prev)
    BY <1>12, FileSteps
  <2>2. UNCHANGED <<avatar, objects, keys>> /\ req[r].what \in {"create", "delete"}
    BY <1>12 DEF Storing!CleanIndex, Storing!At
  <2> QED BY <2>1, <2>2, Aside
<1>13. CASE UNCHANGED Storing!fileVars
  BY <1>13 DEF Storing!fileVars, KeyInv, KeyKnown, Apart, DrawnKeys
<1> QED
  BY <1>1, <1>2, <1>3, <1>4, <1>5, <1>6, <1>7, <1>8, <1>9, <1>10, <1>11, <1>12, <1>13 DEF Storing!Next

(* The rows' columns stay what they are; the request goes on or is done.        *)
LEMMA FileStepTypes == FileTypes /\ [Storing!Next]_(Storing!fileVars) => FileTypes'
<1> SUFFICES ASSUME FileTypes, [Storing!Next]_(Storing!fileVars) PROVE FileTypes'
  OBVIOUS
<1>1. avatar' \in Nat /\ keys' \in Nat /\ code' \in Nat /\ codes' \in Nat
  <2>1. avatar \in Nat /\ keys \in Nat /\ code \in Nat /\ codes \in Nat
    BY DEF FileTypes
  <2>2. \A r \in Upload : req[r].key \in Nat
    BY DEF FileTypes, FileRequest
  <2>3. keys + 1 \in Nat /\ codes + 1 \in Nat
    BY <2>1
  <2>4. avatar' = avatar \/ \E r \in Upload : avatar' = req[r].key
    BY DEF Storing!Next, Storing!fileVars, Storing!Begin, Storing!Stop, Storing!PutAvatar,
           Storing!FindUser, Storing!UpdateUser, Storing!DeletePrevious, Storing!CheckCode, Storing!PutIndex,
           Storing!PutDocument, Storing!InsertCode, Storing!InsertFails, Storing!FindCode,
             Storing!DeleteCode, Storing!CleanIndex, Storing!CleanDocument
  <2>5. keys' \in {keys, keys + 1}
    BY DEF Storing!Next, Storing!fileVars, Storing!Begin, Storing!Stop, Storing!PutAvatar,
           Storing!FindUser, Storing!UpdateUser, Storing!DeletePrevious, Storing!CheckCode, Storing!PutIndex,
           Storing!PutDocument, Storing!InsertCode, Storing!InsertFails, Storing!FindCode,
             Storing!DeleteCode, Storing!CleanIndex, Storing!CleanDocument
  <2>6. code' \in {code, 0, codes + 1} /\ codes' \in {codes, codes + 1}
    BY DEF Storing!Next, Storing!fileVars, Storing!Begin, Storing!Stop, Storing!PutAvatar,
           Storing!FindUser, Storing!UpdateUser, Storing!DeletePrevious, Storing!CheckCode, Storing!PutIndex,
           Storing!PutDocument, Storing!InsertCode, Storing!InsertFails, Storing!FindCode,
             Storing!DeleteCode, Storing!CleanIndex, Storing!CleanDocument
  <2> QED BY <2>1, <2>2, <2>3, <2>4, <2>5, <2>6
<1>2. docs' \subseteq Storing!Document /\ rivals' \in BOOLEAN
  BY DEF FileTypes, Storing!Document, Storing!Next, Storing!fileVars, Storing!Begin, Storing!Stop,
         Storing!PutAvatar, Storing!FindUser, Storing!UpdateUser, Storing!DeletePrevious,
         Storing!CheckCode, Storing!PutIndex, Storing!PutDocument, Storing!InsertCode, Storing!InsertFails,
           Storing!FindCode, Storing!DeleteCode, Storing!CleanIndex, Storing!CleanDocument
<1>3. req' \in [Upload -> FileRequest] /\ \A q \in Upload : req'[q].pc = "idle" => req'[q].what = "none"
  <2>1. CASE UNCHANGED Storing!fileVars
    BY <2>1 DEF Storing!fileVars, FileTypes
  <2>2. ASSUME NEW r \in Upload, NEW what \in {"avatar", "no avatar", "create", "delete"}, Storing!Begin(r,
               what)
        PROVE  Goes(r, "begun", what, 0, 0)
    BY <2>2, FileBegins
  <2>3. CASE \E r \in Upload, what \in {"avatar", "no avatar", "create", "delete"} : Storing!Begin(r, what)
    BY <2>2, <2>3 DEF Goes, FileTypes
  <2>4. CASE \E r \in Upload : \E at, what, key, prev :
               (at = "idle" => what = "none") /\ Goes(r, at, what, key, prev)
    BY <2>4 DEF Goes, FileTypes
  <2>5. ASSUME NEW r \in Upload,
               ~\E at, what, key, prev : (at = "idle" => what = "none") /\ Goes(r, at, what, key, prev)
        PROVE  /\ ~(Storing!Stop(r) \/ Storing!DeletePrevious(r) \/ Storing!InsertCode(r) \/
                  Storing!CleanDocument(r))
               /\ ~(Storing!PutAvatar(r) \/ Storing!FindUser(r) \/ Storing!FindCode(r) \/
                  Storing!UpdateUser(r) \/ Storing!PutDocument(r))
               /\ ~(Storing!CheckCode(r) \/ Storing!PutIndex(r) \/ Storing!InsertFails(r) \/
                  Storing!DeleteCode(r) \/ Storing!CleanIndex(r))
    BY <2>5, FileSteps
  <2> QED BY <2>1, <2>3, <2>4, <2>5 DEF Storing!Next
<1> QED BY <1>1, <1>2, <1>3 DEF FileTypes

(* Without rivals only one request is about the code, so what it has found,        *)
(* stored or taken away is what there is.                                     *)
LEMMA StepDocuments == FileTypes /\ DocumentInv /\ [Storing!Next]_(Storing!fileVars) => DocumentInv'
<1> SUFFICES ASSUME FileTypes, DocumentInv, [Storing!Next]_(Storing!fileVars), ~rivals' PROVE DocumentInv'
  BY DEF DocumentInv
<1>0. \A q \in Upload : req[q].pc = "idle" => req[q].what = "none"
  BY DEF FileTypes
<1> USE DEF Goes, DocumentInv, AboutCode, Storing!OfCode
<1>1. ASSUME NEW r \in Upload, NEW what \in {"avatar", "no avatar", "create", "delete"}, Storing!Begin(r,
             what) PROVE DocumentInv'
  <2>1. Goes(r, "begun", what, 0, 0)
    BY <1>1, FileBegins
  <2>2. /\ UNCHANGED <<code, docs>> /\ req[r].pc = "idle"
        /\ rivals' = (rivals \/ (Storing!OfCode(what) /\ \E s \in Upload : Storing!OfCode(req[s].what)))
    BY <1>1 DEF Storing!Begin
  <2> QED BY <1>0, <2>1, <2>2
<1>2. ASSUME NEW r \in Upload, Storing!Stop(r) PROVE DocumentInv'
  <2>1. Goes(r, "idle", "none", 0, 0)
    BY <1>2, FileSteps
  <2>2. UNCHANGED <<code, docs, rivals>>
    BY <1>2 DEF Storing!Stop
  <2> QED BY <1>0, <2>1, <2>2
<1>3. ASSUME NEW r \in Upload, Storing!PutAvatar(r) \/ Storing!FindUser(r) \/ Storing!UpdateUser(r) \/
             Storing!DeletePrevious(r) PROVE DocumentInv'
  <2>1. \E at, key, prev : \/ Goes(r, at, req[r].what, key, prev)
                           \/ Goes(r, "idle", "none", key, prev)
    BY <1>3, FileSteps
  <2>2. UNCHANGED <<code, docs, rivals>> /\ req[r].what \in {"avatar", "no avatar"}
    BY <1>3 DEF Storing!PutAvatar, Storing!FindUser, Storing!UpdateUser, Storing!DeletePrevious, Storing!At
  <2> QED BY <1>0, <2>1, <2>2
<1>4. ASSUME NEW r \in Upload, Storing!CheckCode(r) PROVE DocumentInv'
  <2>1. Goes(r, "found", req[r].what, req[r].key, req[r].prev)
    BY <1>4, FileSteps
  <2>2. UNCHANGED <<code, docs, rivals>> /\ req[r].what = "create" /\ req[r].pc = "begun" /\ code = 0
    BY <1>4 DEF Storing!CheckCode, Storing!CodeIsNew, Storing!At
  <2> QED BY <1>0, <2>1, <2>2
<1>5. ASSUME NEW r \in Upload, Storing!PutIndex(r) PROVE DocumentInv'
  <2>1. Goes(r, "stored", req[r].what, req[r].key, req[r].prev)
    BY <1>5, FileSteps
  <2>2. UNCHANGED <<code, rivals>> /\ docs' = docs \cup {"index.html"} /\ req[r].what = "create" /\
        req[r].pc = "found"
    BY <1>5 DEF Storing!PutIndex, Storing!At
  <2> QED BY <1>0, <2>1, <2>2
<1>6. ASSUME NEW r \in Upload, Storing!PutDocument(r) PROVE DocumentInv'
  <2>1. Goes(r, "written", req[r].what, req[r].key, req[r].prev)
    BY <1>6, FileSteps
  <2>2. UNCHANGED <<code, rivals>> /\ docs' = docs \cup {"Document.docx"} /\ req[r].what = "create" /\
        req[r].pc = "stored"
    BY <1>6 DEF Storing!PutDocument, Storing!At
  <2>3. docs \subseteq Storing!Document
    BY DEF FileTypes
  <2>4. "index.html" \in docs => docs' = Storing!Document
    BY <2>2, <2>3 DEF Storing!Document
  <2> QED BY <1>0, <2>1, <2>2, <2>4
<1>7. ASSUME NEW r \in Upload, Storing!InsertCode(r) PROVE DocumentInv'
  <2>1. Goes(r, "idle", "none", 0, 0)
    BY <1>7, FileSteps
  <2>2. UNCHANGED <<docs, rivals>> /\ req[r].what = "create" /\ req[r].pc = "written"
    BY <1>7 DEF Storing!InsertCode, Storing!At
  <2> QED BY <1>0, <2>1, <2>2
<1>8. ASSUME NEW r \in Upload, Storing!InsertFails(r) PROVE DocumentInv'
  <2>1. Goes(r, "cleaning", req[r].what, req[r].key, req[r].prev)
    BY <1>8, FileSteps
  <2>2. UNCHANGED <<code, docs>> /\ rivals' = rivals /\ req[r].what = "create" /\ req[r].pc = "written"
    BY <1>8 DEF Storing!InsertFails, Storing!At
  <2> QED BY <1>0, <2>1, <2>2
<1>9. ASSUME NEW r \in Upload, Storing!FindCode(r) PROVE DocumentInv'
  <2>1. Goes(r, "found", req[r].what, req[r].key, code)
    BY <1>9, FileSteps
  <2>2. UNCHANGED <<code, docs, rivals>> /\ req[r].what = "delete" /\ req[r].pc = "begun" /\ code # 0
    BY <1>9 DEF Storing!FindCode, Storing!At
  <2> QED BY <1>0, <2>1, <2>2
<1>10. ASSUME NEW r \in Upload, Storing!DeleteCode(r) PROVE DocumentInv'
  <2>1. Goes(r, "cleaning", req[r].what, req[r].key, req[r].prev)
    BY <1>10, FileSteps
  <2>2. /\ code' = (IF code = req[r].prev THEN 0 ELSE code)
        /\ UNCHANGED <<docs, rivals>> /\ req[r].what = "delete" /\ req[r].pc = "found"
    BY <1>10 DEF Storing!DeleteCode, Storing!At
  <2> QED BY <1>0, <2>1, <2>2
<1>11. ASSUME NEW r \in Upload, Storing!CleanIndex(r) PROVE DocumentInv'
  <2>1. Goes(r, "cleaned", req[r].what, req[r].key, req[r].prev)
    BY <1>11, FileSteps
  <2>2. UNCHANGED <<code, rivals>> /\ req[r].what \in {"create", "delete"} /\ req[r].pc = "cleaning"
    BY <1>11 DEF Storing!CleanIndex, Storing!At
  <2> QED BY <1>0, <2>1, <2>2
<1>12. ASSUME NEW r \in Upload, Storing!CleanDocument(r) PROVE DocumentInv'
  <2>1. Goes(r, "idle", "none", 0, 0)
    BY <1>12, FileSteps
  <2>2. UNCHANGED <<code, rivals>> /\ req[r].what \in {"create", "delete"} /\ req[r].pc = "cleaned"
    BY <1>12 DEF Storing!CleanDocument, Storing!At
  <2> QED BY <1>0, <2>1, <2>2
<1>13. CASE UNCHANGED Storing!fileVars
  BY <1>13 DEF Storing!fileVars
<1> QED
  BY <1>1, <1>2, <1>3, <1>4, <1>5, <1>6, <1>7, <1>8, <1>9, <1>10, <1>11, <1>12, <1>13 DEF Storing!Next

-----------------------------------------------------------------------------
(* The files' inductive invariant holds in every reachable state.              *)
THEOREM FileInvHolds == Storing!Spec => []FileInv
<1>1. FileInv /\ [Storing!Next]_(Storing!fileVars) => FileInv'
  BY FileStepTypes, StepKey, StepDocuments DEF FileInv
<1> QED BY FileInit, <1>1, PTL DEF Storing!Spec

(* upload_avatar and delete_avatar, any number of them at once, leave a row whose  *)
(* avatar is in S3; create_code and delete_code one with both documents, unless  *)
(* requests on it overlapped or an insert's answer was lost.                   *)
THEOREM FilesThere == Storing!Spec => []RowsHaveFiles
<1>1. FileInv => RowsHaveFiles
  BY DEF FileInv, KeyInv, DocumentInv, RowsHaveFiles, Storing!RowsHaveFiles, Storing!CodeHasDocuments
<1> QED BY FileInvHolds, <1>1, PTL

-----------------------------------------------------------------------------
(* Sessions and sign-in: Sessions.tla.                                        *)

Hashes == {<<>>} \cup (Nat \X Nat)

Account == [pw : Nat, secret : Nat, force : BOOLEAN, role : {"administrator", "poster", "commenter", "none"},
            active : BOOLEAN, linked : BOOLEAN]

Session == [hash : Hashes, proof : Hashes, mfa : BOOLEAN, flow : Nat, invite : BOOLEAN]

Asking == [pc : {"idle", "loaded", "known", "inside", "checked", "proved", "taken", "exchanged", "answered"},
           what : SigningIn!Local \cup SigningIn!Sso \cup SigningIn!Routes \cup {"logout", "none"},
           rec : Session, dirty : BOOLEAN, who : Account, state : Nat, invite : BOOLEAN]

SessionTypes ==
  /\ row \in Account /\ drawn \in Nat /\ cookie \in BOOLEAN
  /\ record \in Session /\ asking \in [Request -> Asking] /\ asked \in Seq(BOOLEAN)

(* The invite came with redirect k.                                          *)
CameWith(k, a) == k \in DOMAIN a /\ a[k]

(* The hash of a record was made of what its sign-in was checked against; an      *)
(* invite in it came with the redirect it waits for.                           *)
SoundSession(s, a) == s.hash = s.proof /\ (s.invite => CameWith(s.flow, a))

(* A request that knows its user has a record with that user's hash; one that has  *)
(* taken the invite has the one of its own redirect, and left none behind.       *)
SoundRequest(q, a) ==
  /\ SoundSession(q.rec, a)
  /\ q.pc \in {"known", "inside"} /\ q.who # SigningIn!Nobody => q.rec.hash = SigningIn!SessionHash(q.who)
  /\ q.pc = "inside" => q.who # SigningIn!Nobody
  /\ q.pc = "taken" => ~q.rec.invite
  /\ q.pc \in {"taken", "exchanged"} /\ q.invite => CameWith(q.state, a)

SessionInv ==
  /\ SessionTypes
  /\ SoundSession(record, asked)
  /\ \A r \in Request : SoundRequest(asking[r], asked)

-----------------------------------------------------------------------------
LEMMA SessionConstants == SigningIn!Empty \in Session /\ SigningIn!Nobody \in Account /\
                          SigningIn!Idle \in Asking
<1>1. SigningIn!Empty \in Session
  BY DEF SigningIn!Empty, Session, Hashes
<1>2. SigningIn!Nobody \in Account
  BY DEF SigningIn!Nobody, Account
<1> QED BY <1>1, <1>2 DEF SigningIn!Idle, Asking

LEMMA SoundEmpty == \A a : SoundSession(SigningIn!Empty, a)
BY DEF SoundSession, SigningIn!Empty

LEMMA SoundIdle == \A a : SoundRequest(SigningIn!Idle, a)
BY SoundEmpty DEF SoundRequest, SigningIn!Idle

LEMMA SessionInit == SigningIn!Init => SessionInv
<1> SUFFICES ASSUME SigningIn!Init PROVE SessionInv
  OBVIOUS
<1>1. row \in Account
  <2>1. row \in [pw : {1}, secret : {0, 1}, force : {FALSE}, role : {"administrator", "commenter"},
                active : {TRUE}, linked : {FALSE, oidc}]
    BY DEF SigningIn!Init
  <2>2. oidc \in BOOLEAN
    BY DEF SigningIn!Init
  <2>3. {1} \subseteq Nat /\ {0, 1} \subseteq Nat /\ {FALSE} \subseteq BOOLEAN /\ {TRUE} \subseteq BOOLEAN
    OBVIOUS
  <2>4. {FALSE, oidc} \subseteq BOOLEAN
    BY <2>2, Zenon
  <2>5. {"administrator", "commenter"} \subseteq {"administrator", "poster", "commenter", "none"}
    OBVIOUS
  <2> DEFINE One == {1}
             Few == {0, 1}
             No == {FALSE}
             Yes == {TRUE}
             Links == {FALSE, oidc}
             Two == {"administrator", "commenter"}
  <2>6. row \in [pw : One, secret : Few, force : No, role : Two, active : Yes, linked : Links]
    BY <2>1
  <2> HIDE DEF One, Few, No, Yes, Links, Two
  <2> QED BY <2>3, <2>4, <2>5, <2>6 DEF Account, One, Few, No, Yes, Links, Two
<1>2. asked \in Seq(BOOLEAN) /\ drawn \in Nat /\ cookie \in BOOLEAN
  <2>1. asked = <<>> /\ drawn = 1 /\ cookie = FALSE
    BY DEF SigningIn!Init
  <2>2. << >> \in Seq(BOOLEAN)
    OBVIOUS
  <2> QED BY <2>1, <2>2
<1>3. record = SigningIn!Empty /\ asking \in [Request -> Asking] /\
      \A r \in Request : asking[r] = SigningIn!Idle
  BY SessionConstants DEF SigningIn!Init
<1> QED BY <1>1, <1>2, <1>3, SessionConstants, SoundEmpty, SoundIdle DEF SessionInv, SessionTypes

(* A step is sound if what it makes of one request, of the record and of the       *)
(* account is.                                                               *)
Becomes(r, q) ==
  /\ q \in Asking /\ SoundRequest(q, asked)
  /\ asking' = [asking EXCEPT ![r] = q]

LEMMA Moves ==
  ASSUME SessionInv, NEW r \in Request, NEW q, Becomes(r, q), UNCHANGED asked,
         row' \in Account, drawn' \in Nat, cookie' \in BOOLEAN,
         record' \in Session, SoundSession(record', asked)
  PROVE  SessionInv'
<1>1. asking' \in [Request -> Asking]
  BY DEF SessionInv, SessionTypes, Becomes
<1>2. \A s \in Request : SoundRequest(asking'[s], asked')
  BY DEF SessionInv, SessionTypes, Becomes
<1> QED BY <1>1, <1>2 DEF SessionInv, SessionTypes

LEMMA SessionKept ==
  ASSUME SessionInv
  PROVE  /\ row \in Account /\ drawn \in Nat /\ cookie \in BOOLEAN /\ asked \in Seq(BOOLEAN)
         /\ record \in Session /\ SoundSession(record, asked)
         /\ \A r \in Request : asking[r] \in Asking /\ asking[r].rec \in Session /\ SoundRequest(asking[r],
            asked)
         /\ \A r \in Request : SoundSession(asking[r].rec, asked) /\ asking[r].who \in Account
<1>1. \A r \in Request : asking[r] \in Asking /\ SoundRequest(asking[r], asked)
  BY DEF SessionInv, SessionTypes
<1> QED BY <1>1 DEF SessionInv, SessionTypes, Asking, SoundRequest

LEMMA Hashed ==
  \A u \in Account : SigningIn!SessionHash(u) \in Hashes /\ SigningIn!Proof(u) \in Hashes /\
    SigningIn!SessionHash(u) = SigningIn!Proof(u)
BY DEF Account, Hashes, SigningIn!SessionHash, SigningIn!Proof

(* Only the place in the handler changes, to one that promises nothing new.      *)
LEMMA SessionGoes ==
  ASSUME SessionInv, NEW r \in Request, NEW at \in {"checked", "answered"}, SigningIn!Goto(r, at),
         UNCHANGED <<row, drawn, cookie, record, asked>>
  PROVE  SessionInv'
<1> DEFINE q == [asking[r] EXCEPT !.pc = at]
<1>1. q \in Asking
  BY SessionKept DEF Asking
<1>2. SoundRequest(q, asked)
  BY SessionKept DEF Asking, SoundRequest
<1>3. Becomes(r, q)
  BY <1>1, <1>2 DEF Becomes, SigningIn!Goto
<1> HIDE DEF q
<1> QED BY <1>3, SessionKept, Moves

LEMMA Leaves ==
  ASSUME SessionInv, NEW r \in Request, SigningIn!Leave(r), UNCHANGED asked,
         row' \in Account, drawn' \in Nat, cookie' \in BOOLEAN,
         record' \in Session, SoundSession(record', asked)
  PROVE  SessionInv'
<1>1. Becomes(r, SigningIn!Idle)
  BY SessionConstants, SoundIdle DEF Becomes, SigningIn!Leave
<1> QED BY <1>1, Moves

(* A handler ends with a sound record to be stored.                            *)
LEMMA Changes ==
  ASSUME SessionInv, NEW r \in Request, NEW rec \in Session, SoundSession(rec, asked), SigningIn!Change(r,
         rec),
         UNCHANGED <<record, asked>>, row' \in Account, drawn' \in Nat, cookie' \in BOOLEAN
  PROVE  SessionInv'
<1> DEFINE q == [asking[r] EXCEPT !.pc = "answered", !.rec = rec, !.dirty = TRUE]
<1>1. q \in Asking
  BY SessionKept DEF Asking
<1>2. SoundRequest(q, asked)
  BY SessionKept DEF Asking, SoundRequest
<1>3. Becomes(r, q)
  BY <1>1, <1>2 DEF Becomes, SigningIn!Change
<1> HIDE DEF q
<1> QED BY <1>3, SessionKept, Moves

(* What others do to the account leaves sessions and requests alone.             *)
LEMMA Elsewhere ==
  ASSUME SessionInv, UNCHANGED <<asking, asked>>, row' \in Account, drawn' \in Nat, cookie' \in BOOLEAN,
         record' \in Session, SoundSession(record', asked)
  PROVE  SessionInv'
BY DEF SessionInv, SessionTypes

LEMMA NewPasswords ==
  ASSUME SessionInv, NEW b \in BOOLEAN, SigningIn!NewPassword(b)
  PROVE  row' \in Account /\ drawn' \in Nat
<1>1. drawn + 1 \in Nat
  BY DEF SessionInv, SessionTypes
<1> DEFINE n == drawn + 1
<1>2. row' = [row EXCEPT !.pw = n, !.force = b] /\ drawn' = n
  BY DEF SigningIn!NewPassword
<1> HIDE DEF n
<1> QED BY <1>1, <1>2, SessionKept DEF Account, n

-----------------------------------------------------------------------------
(* Layers and gates.                                                         *)
LEMMA StepLayers ==
  ASSUME SessionInv, NEW r \in Request,
         \/ \E what \in SigningIn!Local \cup SigningIn!Sso \cup SigningIn!Routes \cup {"logout"},
            k \in 0 .. Len(asked) : SigningIn!Arrive(r, what, k)
         \/ SigningIn!Recognise(r) \/ SigningIn!Store(r) \/ SigningIn!Fail(r) \/ SigningIn!Enter(r) \/
            SigningIn!Respond(r)
  PROVE  SessionInv'
<1>1. ASSUME NEW what \in SigningIn!Local \cup SigningIn!Sso \cup SigningIn!Routes \cup {"logout"},
             NEW k \in 0 .. Len(asked),
             SigningIn!Arrive(r, what, k)
      PROVE  SessionInv'
  <2> DEFINE q == [SigningIn!Idle EXCEPT !.pc = "loaded", !.what = what, !.rec = record, !.state = k]
  <2>1. k \in Nat
    OBVIOUS
  <2>2. q \in Asking
    BY <2>1, SessionConstants, SessionKept DEF Asking
  <2>3. SoundRequest(q, asked)
    BY SessionKept DEF SoundRequest, SigningIn!Idle
  <2>4. Becomes(r, q)
    BY <1>1, <2>2, <2>3 DEF SigningIn!Arrive, Becomes
  <2>5. UNCHANGED <<row, drawn, record, cookie, asked>>
    BY <1>1 DEF SigningIn!Arrive
  <2> HIDE DEF q
  <2> QED BY <2>4, <2>5, SessionKept, Moves
<1>2. CASE SigningIn!Recognise(r)
  <2> DEFINE fits == asking[r].rec.hash = SigningIn!SessionHash(row)
             in == asking[r].rec.hash # <<>>
             who == IF in /\ fits THEN row ELSE SigningIn!Nobody
             rec == IF in /\ ~fits THEN SigningIn!Empty ELSE asking[r].rec
             q == [asking[r] EXCEPT !.pc = "known", !.who = who, !.rec = rec]
  <2>1. who \in Account /\ rec \in Session /\ SoundSession(rec, asked)
    BY SessionKept, SessionConstants, SoundEmpty
  <2>2. who # SigningIn!Nobody => rec.hash = SigningIn!SessionHash(who)
    OBVIOUS
  <2>3. asking' = [asking EXCEPT ![r] = q] /\ UNCHANGED <<row, drawn, cookie, asked>>
    BY <1>2 DEF SigningIn!Recognise
  <2>4. record' \in Session /\ SoundSession(record', asked)
    BY <1>2, SessionKept, SessionConstants, SoundEmpty DEF SigningIn!Recognise
  <2> HIDE DEF who, rec
  <2>5. q \in Asking
    BY <2>1, SessionKept DEF Asking
  <2>6. SoundRequest(q, asked)
    BY <2>1, <2>2, SessionKept DEF Asking, SoundRequest
  <2>7. Becomes(r, q)
    BY <2>3, <2>5, <2>6 DEF Becomes
  <2> HIDE DEF q
  <2> QED BY <2>3, <2>4, <2>7, SessionKept, Moves
<1>3. CASE SigningIn!Store(r)
  BY <1>3, SessionKept, Leaves DEF SigningIn!Store
<1>4. CASE SigningIn!Fail(r)
  <2>1. CASE SigningIn!Leave(r)
    BY <1>4, <2>1, SessionKept, Leaves DEF SigningIn!Fail
  <2>2. CASE SigningIn!Goto(r, "answered")
    BY <1>4, <2>2, SessionGoes DEF SigningIn!Fail
  <2> QED BY <1>4, <2>1, <2>2 DEF SigningIn!Fail
<1>5. CASE SigningIn!Enter(r)
  <2> DEFINE q == [asking[r] EXCEPT !.pc = "inside"]
  <2>1. q \in Asking
    BY SessionKept DEF Asking
  <2>2. asking[r].pc = "known" /\ asking[r].who # SigningIn!Nobody
    BY <1>5 DEF SigningIn!Enter, SigningIn!Known
  <2>3. SoundRequest(q, asked)
    BY <2>2, SessionKept DEF Asking, SoundRequest
  <2>4. Becomes(r, q)
    BY <1>5, <2>1, <2>3 DEF Becomes, SigningIn!Goto, SigningIn!Enter
  <2> HIDE DEF q
  <2> QED BY <1>5, <2>4, SessionKept, Moves DEF SigningIn!Enter
<1>6. CASE SigningIn!Respond(r)
  BY <1>6, SessionKept, Leaves DEF SigningIn!Respond
<1> QED BY <1>1, <1>2, <1>3, <1>4, <1>5, <1>6

(* Local sign-in and what it protects.                                        *)
LEMMA StepLocal ==
  ASSUME SessionInv, NEW r \in Request,
         \/ SigningIn!Authenticate(r) \/ SigningIn!Login(r) \/ SigningIn!MfaVerify(r) \/
            SigningIn!MfaConfirmSetup(r)
         \/ SigningIn!CheckPassword(r) \/ SigningIn!MfaDisable(r) \/ SigningIn!ChangePassword(r) \/
            SigningIn!Logout(r)
  PROVE  SessionInv'
<1>0. \A b \in BOOLEAN : /\ [asking[r].rec EXCEPT !.mfa = b] \in Session
                         /\ SoundSession([asking[r].rec EXCEPT !.mfa = b], asked)
  BY SessionKept DEF Session, SoundSession
<1>1. CASE SigningIn!Authenticate(r)
  <2> DEFINE q == [asking[r] EXCEPT !.pc = "proved", !.who = row]
  <2>1. q \in Asking
    BY SessionKept DEF Asking
  <2>2. SoundRequest(q, asked)
    BY SessionKept DEF Asking, SoundRequest
  <2>3. Becomes(r, q)
    BY <1>1, <2>1, <2>2 DEF Becomes, SigningIn!Authenticate
  <2> HIDE DEF q
  <2> QED BY <1>1, <2>3, SessionKept, Moves DEF SigningIn!Authenticate
<1>2. CASE SigningIn!Login(r)
  <2>1. SigningIn!SignedIn(r) \in Session /\ SoundSession(SigningIn!SignedIn(r), asked)
    BY SessionKept, Hashed DEF SigningIn!SignedIn, Session, SoundSession
  <2> QED BY <1>2, <2>1, SessionKept, Changes DEF SigningIn!Login
<1>3. CASE SigningIn!MfaVerify(r)
  BY <1>3, <1>0, SessionKept, Changes DEF SigningIn!MfaVerify
<1>4. CASE SigningIn!MfaConfirmSetup(r)
  <2> DEFINE n == drawn + 1
  <2>1. n \in Nat
    BY SessionKept
  <2>2. row' = [row EXCEPT !.secret = n] /\ drawn' = n /\ UNCHANGED <<record, asked, cookie>>
    BY <1>4 DEF SigningIn!MfaConfirmSetup
  <2> HIDE DEF n
  <2>3. row' \in Account /\ drawn' \in Nat
    BY <2>1, <2>2, SessionKept DEF Account
  <2> QED BY <1>4, <1>0, <2>2, <2>3, SessionKept, Changes DEF SigningIn!MfaConfirmSetup
<1>5. CASE SigningIn!CheckPassword(r)
  BY <1>5, SessionGoes DEF SigningIn!CheckPassword
<1>6. CASE SigningIn!MfaDisable(r)
  <2>1. row' \in Account
    BY <1>6, SessionKept DEF SigningIn!MfaDisable, Account
  <2> QED BY <1>6, <1>0, <2>1, SessionKept, Changes DEF SigningIn!MfaDisable
<1>7. CASE SigningIn!ChangePassword(r)
  BY <1>7, SessionKept, NewPasswords, Leaves DEF SigningIn!ChangePassword
<1>8. CASE SigningIn!Logout(r)
  BY <1>8, SessionKept, SessionConstants, SoundEmpty, Leaves DEF SigningIn!Logout
<1> QED BY <1>1, <1>2, <1>3, <1>4, <1>5, <1>6, <1>7, <1>8

(* The redirect to the IdP and the way back.                                   *)
LEMMA StepOidc ==
  ASSUME SessionInv, NEW r \in Request,
         SigningIn!OidcLogin(r) \/ SigningIn!TakeState(r) \/ SigningIn!ExchangeCode(r) \/
           SigningIn!AuthenticateOidc(r) \/ SigningIn!LoginOidc(r)
  PROVE  SessionInv'
<1>1. CASE SigningIn!OidcLogin(r)
  <2> DEFINE k == Len(asked) + 1
             a == Append(asked, cookie)
             rec == [asking[r].rec EXCEPT !.flow = k, !.invite = cookie]
             q == [asking[r] EXCEPT !.pc = "answered", !.rec = rec, !.dirty = TRUE]
  <2>1. a \in Seq(BOOLEAN) /\ k \in Nat /\ k \in DOMAIN a /\ a[k] = cookie
    BY SessionKept
  <2>2. \A i \in DOMAIN asked : i \in DOMAIN a /\ a[i] = asked[i]
    BY SessionKept
  <2>3. asked' = a /\ asking' = [asking EXCEPT ![r] = q] /\ UNCHANGED <<row, drawn, record, cookie>>
    BY <1>1 DEF SigningIn!OidcLogin, SigningIn!Change, SigningIn!PendingInvite
  <2> HIDE DEF k, a
  <2>4. \A i : CameWith(i, asked) => CameWith(i, a)
    BY <2>2 DEF CameWith
  <2>5. rec \in Session /\ SoundSession(rec, a)
    BY <2>1, SessionKept DEF Session, SoundSession, CameWith
  <2> HIDE DEF rec
  <2>6. q \in Asking /\ SoundRequest(q, a)
    BY <2>5, SessionKept DEF Asking, SoundRequest
  <2> HIDE DEF q
  <2>7. asking' \in [Request -> Asking] /\ \A s \in Request : asking'[s] = IF s = r THEN q ELSE asking[s]
    BY <2>3, <2>6 DEF SessionInv, SessionTypes
  <2>8. \A s \in Request : SoundRequest(asking'[s], a)
    BY <2>4, <2>6, <2>7, SessionKept DEF SoundRequest, SoundSession
  <2>9. SoundSession(record', a)
    BY <2>3, <2>4, SessionKept DEF SoundSession
  <2> QED BY <2>1, <2>3, <2>7, <2>8, <2>9 DEF SessionInv, SessionTypes
<1>2. CASE SigningIn!TakeState(r)
  <2> DEFINE rec == [asking[r].rec EXCEPT !.invite = FALSE]
             q == [asking[r] EXCEPT !.pc = "taken", !.invite = asking[r].rec.invite, !.rec = rec,
               !.dirty = TRUE]
  <2>1. rec \in Session /\ SoundSession(rec, asked) /\ ~rec.invite
    BY SessionKept DEF Session, SoundSession
  <2>2. /\ asking' = [asking EXCEPT ![r] = q] /\ UNCHANGED <<row, drawn, record, cookie, asked>>
        /\ asking[r].rec.flow = asking[r].state
    BY <1>2 DEF SigningIn!TakeState
  <2> HIDE DEF rec
  <2>3. q \in Asking
    BY <2>1, SessionKept DEF Asking, Session
  <2>4. SoundRequest(q, asked)
    BY <2>1, <2>2, SessionKept DEF Asking, SoundRequest, SoundSession
  <2>5. Becomes(r, q)
    BY <2>2, <2>3, <2>4 DEF Becomes
  <2> HIDE DEF q
  <2> QED BY <2>2, <2>5, SessionKept, Moves
<1>3. CASE SigningIn!ExchangeCode(r)
  <2> DEFINE rec == [asking[r].rec EXCEPT !.flow = 0]
             q(at) == [asking[r] EXCEPT !.pc = at, !.rec = rec]
  <2>1. rec \in Session /\ SoundSession(rec, asked)
    BY <1>3, SessionKept DEF SigningIn!ExchangeCode, SigningIn!At, Session, SoundSession, SoundRequest
  <2>2. UNCHANGED <<row, drawn, record, cookie, asked>> /\ asking[r].pc = "taken"
    BY <1>3 DEF SigningIn!ExchangeCode, SigningIn!At
  <2>3. \/ asking' = [asking EXCEPT ![r] = q("exchanged")]
        \/ asking' = [asking EXCEPT ![r] = q("answered")]
    <3>1. \/ asking' = [asking EXCEPT ![r].pc = "exchanged", ![r].rec.flow = 0]
          \/ asking' = [asking EXCEPT ![r].pc = "answered", ![r].rec.flow = 0]
      BY <1>3 DEF SigningIn!ExchangeCode
    <3>2. /\ [asking EXCEPT ![r].pc = "exchanged", ![r].rec.flow = 0] = [asking EXCEPT ![r] = q("exchanged")]
          /\ [asking EXCEPT ![r].pc = "answered", ![r].rec.flow = 0] = [asking EXCEPT ![r] = q("answered")]
      BY SessionKept DEF SessionInv, SessionTypes
    <3> QED BY <3>1, <3>2, Zenon
  <2> HIDE DEF rec
  <2>4. ASSUME NEW at \in {"exchanged", "answered"} PROVE q(at) \in Asking /\ SoundRequest(q(at), asked)
    BY <2>1, <2>2, SessionKept DEF Asking, SoundRequest
  <2>5. \E at \in {"exchanged", "answered"} : Becomes(r, q(at))
    BY <2>3, <2>4 DEF Becomes
  <2> HIDE DEF q
  <2> QED BY <2>2, <2>5, SessionKept, Moves
<1>4. CASE SigningIn!AuthenticateOidc(r)
  <2> DEFINE n == drawn + 1
             q == [asking[r] EXCEPT !.pc = "proved", !.who = row']
  <2>1. n \in Nat
    BY SessionKept
  <2>2. /\ \/ UNCHANGED <<row, drawn>>
           \/ row' = [row EXCEPT !.linked = TRUE, !.pw = n] /\ drawn' = n
        /\ UNCHANGED <<record, cookie, asked>> /\ asking' = [asking EXCEPT ![r] = q]
    BY <1>4 DEF SigningIn!AuthenticateOidc
  <2> HIDE DEF n
  <2>3. row' \in Account /\ drawn' \in Nat
    BY <2>1, <2>2, SessionKept DEF Account
  <2>4. q \in Asking
    BY <2>3, SessionKept DEF Asking
  <2>5. SoundRequest(q, asked)
    BY SessionKept DEF Asking, SoundRequest
  <2>6. Becomes(r, q)
    BY <2>2, <2>4, <2>5 DEF Becomes
  <2> HIDE DEF q
  <2> QED BY <2>2, <2>3, <2>6, SessionKept, Moves
<1>5. CASE SigningIn!LoginOidc(r)
  <2> DEFINE rec == [SigningIn!SignedIn(r) EXCEPT !.mfa = TRUE]
  <2>1. SigningIn!SignedIn(r) \in Session /\ SoundSession(SigningIn!SignedIn(r), asked)
    BY SessionKept, Hashed DEF SigningIn!SignedIn, Session, SoundSession
  <2>2. rec \in Session /\ SoundSession(rec, asked)
    BY <2>1 DEF Session, SoundSession
  <2>3. SigningIn!Change(r, rec) /\ UNCHANGED <<row, drawn, record, asked>> /\ cookie' \in BOOLEAN
    BY <1>5 DEF SigningIn!LoginOidc
  <2> HIDE DEF rec
  <2> QED BY <2>2, <2>3, SessionKept, Changes
<1> QED BY <1>1, <1>2, <1>3, <1>4, <1>5

LEMMA StepOthers ==
  ASSUME SessionInv,
         \/ \E b \in BOOLEAN : SigningIn!OtherPassword(b) \/ SigningIn!SetCookie(b)
         \/ SigningIn!DisableFactor \/ SigningIn!DeactivateUser \/ SigningIn!ReactivateUser \/
            SigningIn!Expire
         \/ UNCHANGED SigningIn!sessionVars
  PROVE  SessionInv'
<1>1. ASSUME NEW b \in BOOLEAN, SigningIn!OtherPassword(b) PROVE SessionInv'
  BY <1>1, SessionKept, NewPasswords, Elsewhere DEF SigningIn!OtherPassword
<1>2. ASSUME NEW b \in BOOLEAN, SigningIn!SetCookie(b) PROVE SessionInv'
  BY <1>2, SessionKept, Elsewhere DEF SigningIn!SetCookie
<1>3. ASSUME SigningIn!DisableFactor \/ SigningIn!DeactivateUser \/ SigningIn!ReactivateUser PROVE SessionInv'
  <2>1. row' \in Account
    <3>1. CASE SigningIn!DisableFactor
      BY <3>1, SessionKept DEF SigningIn!DisableFactor, SigningIn!Administer, Account
    <3>2. CASE SigningIn!DeactivateUser
      BY <3>2, SessionKept DEF SigningIn!DeactivateUser, SigningIn!Administer, Account
    <3>3. CASE SigningIn!ReactivateUser
      BY <3>3, SessionKept DEF SigningIn!ReactivateUser, SigningIn!Administer, Account
    <3> QED BY <1>3, <3>1, <3>2, <3>3
  <2>2. UNCHANGED <<drawn, record, cookie, asking, asked>>
    BY <1>3 DEF SigningIn!DisableFactor, SigningIn!DeactivateUser, SigningIn!ReactivateUser,
       SigningIn!Administer
  <2> QED BY <2>1, <2>2, SessionKept, Elsewhere
<1>4. CASE SigningIn!Expire
  BY <1>4, SessionKept, SessionConstants, SoundEmpty, Elsewhere DEF SigningIn!Expire
<1>5. CASE UNCHANGED SigningIn!sessionVars
  BY <1>5, SessionKept, Elsewhere DEF SigningIn!sessionVars
<1> QED BY <1>1, <1>2, <1>3, <1>4, <1>5

LEMMA SessionStep == SessionInv /\ [SigningIn!Next]_(SigningIn!sessionVars) => SessionInv'
<1> SUFFICES ASSUME SessionInv, [SigningIn!Next]_(SigningIn!sessionVars) PROVE SessionInv'
  OBVIOUS
<1> QED BY StepLayers, StepLocal, StepOidc, StepOthers DEF SigningIn!Next

-----------------------------------------------------------------------------
(* A request beyond the gates was signed in with the password and the secret the   *)
(* gate read, and a sign-in through the IdP uses only an invite the browser had    *)
(* when it was sent there, whatever requests and changes of the account overlap.   *)
THEOREM SessionsSound == SigningIn!Spec => []SessionsHold
<1>1. SessionInv => SessionsHold
  <2> SUFFICES ASSUME SessionInv PROVE SessionsHold
    OBVIOUS
  <2>1. SigningIn!CredentialsAreCurrent
    BY SessionKept, Hashed DEF SigningIn!CredentialsAreCurrent, SoundRequest, SoundSession
  <2>2. SigningIn!InviteOfItsLogin
    BY SessionKept DEF SigningIn!InviteOfItsLogin, SoundRequest, CameWith
  <2> QED BY <2>1, <2>2 DEF SessionsHold, SigningIn!SessionsHold
<1> QED BY SessionInit, SessionStep, <1>1, PTL DEF SigningIn!Spec

-----------------------------------------------------------------------------
(* The public forms: Forms.tla.                                              *)

Submission ==
  [pc : {"idle", "begun", "admitted", "new", "mailing", "sent", "unsent", "asking", "answered", "vetted"},
   form : {"contact", "subscribe", "order", "none"}, from : Visitor \cup {"none"}, name : Name \cup {"none"},
   by : Nat, check : {"unknown", "valid", "invalid"}, vetted : Nat]

Lookup == [state : {"none", "valid", "invalid"}, at : Nat]

FormTypes ==
  /\ now \in Nat /\ forms \in Nat
  /\ form \in [Caller -> Submission] /\ cache \in [Name -> Lookup]
  /\ \A e \in log \cup mailed : e.at \in Nat /\ e.at =< now

PairOf(e) == <<e.form, e.from>>

(* Past the look into the log, and its mail not yet out.                      *)
Waiting(q) == q.pc \in {"admitted", "new", "mailing"}

(* A mail's submission is about to be logged, or has been, or is forgotten.     *)
Accounted(m) ==
  \/ \E r \in Caller : form[r].pc = "sent" /\ Submitting!Pair(r) = PairOf(m)
  \/ \E e \in log : PairOf(e) = PairOf(m) /\ m.at =< e.at
  \/ m.at + Cooldown < now

LongAgo(p) == \A m \in mailed : PairOf(m) = p => m.at + Cooldown < now

(* Of an address whose log has missed nothing one submission at a time is past    *)
(* the look, and it waits only where the last mail was long ago.               *)
SpacingInv ==
  logging = "all" =>
    /\ MailsSpaced
    /\ \A m \in mailed : PairOf(m) \notin missed => Accounted(m)
    /\ \A r, s \in Caller :
         /\ Submitting!Unlogged(r) /\ Submitting!Unlogged(s) /\ form[r].form # "order"
         /\ Submitting!Pair(r) = Submitting!Pair(s) /\ Submitting!Pair(r) \notin missed
         => r = s
    /\ \A r \in Caller : Waiting(form[r]) /\ Submitting!Pair(r) \notin missed => LongAgo(Submitting!Pair(r))

(* The service said at t that the number n is good.                           *)
Good(n, t) == \E a \in answers : a.name = n /\ a.valid /\ a.at = t

GoodAt(n, t) == \E a \in answers : a.name = n /\ a.valid /\ a.at =< t /\ t =< a.at + CacheLife

SoundLookup(n) == cache[n].at =< now /\ (cache[n].state = "valid" => Good(n, cache[n].at))

(* A verdict is kept with the time it was given.                               *)
VerdictInv ==
  /\ OrdersVetted
  /\ \A n \in Name : SoundLookup(n)
  /\ \A r \in Caller :
       /\ form[r].pc = "answered" /\ form[r].check = "valid" => Good(form[r].name, now)
       /\ form[r].pc = "vetted" => form[r].check # "invalid"
       /\ form[r].pc = "vetted" /\ form[r].check = "valid" => GoodAt(form[r].name, form[r].vetted)
       /\ form[r].pc # "idle" => form[r].form # "none" /\ (form[r].form # "contact" => form[r].name \in Name)

FormInv == FormTypes /\ SpacingInv /\ VerdictInv

-----------------------------------------------------------------------------
Serves(r, q) == q \in Submission /\ form' = [form EXCEPT ![r] = q]

LEMMA Served ==
  ASSUME FormTypes, NEW r \in Caller, NEW q, Serves(r, q)
  PROVE  form' \in [Caller -> Submission] /\ form'[r] = q /\ \A s \in Caller \ {r} : form'[s] = form[s]
  BY DEF FormTypes, Serves

LEMMA Looks ==
  ASSUME FormTypes, NEW r \in Caller
  PROVE  /\ form[r] \in Submission /\ Submitting!Pair(r) = PairOf(form[r])
         /\ Submitting!Unlogged(r) <=> form[r].pc \in {"admitted", "new", "mailing", "sent", "unsent"}
  BY DEF FormTypes, Submitting!Pair, Submitting!Unlogged, PairOf

(* A submission goes on to another place with what it has; or it is done.       *)
Later == {"admitted", "new", "mailing", "sent", "unsent", "asking", "answered", "vetted"}

Further(r, place) ==
  \E q \in Submission :
    /\ Serves(r, q) /\ q.pc = place /\ q.form = form[r].form /\ q.from = form[r].from /\ q.name = form[r].name
    /\ q.by = form[r].by /\ q.check = form[r].check /\ q.vetted = form[r].vetted

LEMMA GoesFurther ==
  ASSUME FormTypes, NEW r \in Caller, NEW place \in Later, Submitting!Goto(r, place)
  PROVE  Further(r, place)
<1> DEFINE q == [form[r] EXCEPT !.pc = place]
<1>1. form[r] \in Submission
  BY DEF FormTypes
<1>2. q \in Submission
  BY <1>1 DEF Submission, Later
<1>3. /\ q.pc = place /\ q.form = form[r].form /\ q.from = form[r].from /\ q.name = form[r].name
      /\ q.by = form[r].by /\ q.check = form[r].check /\ q.vetted = form[r].vetted
  BY <1>1 DEF Submission
<1>4. Serves(r, q)
  BY <1>2 DEF Serves, Submitting!Goto
<1> HIDE DEF q
<1> QED BY <1>2, <1>3, <1>4 DEF Further

LEMMA IdleForm == Submitting!Idle \in Submission /\ Submitting!Idle.pc = "idle"
  BY DEF Submitting!Idle, Submission

LEMMA Begun ==
  ASSUME FormTypes, NEW r \in Caller, NEW f \in Submitting!Form, NEW v \in Visitor, NEW n \in Name,
         Submitting!Submit(r, f, v, n)
  PROVE  /\ \E q \in Submission : /\ Serves(r, q) /\ q.pc = "begun" /\ q.form = f
                                  /\ (f # "contact" => q.name = n)
         /\ forms' \in Nat
<1> DEFINE m == IF f = "contact" THEN "none" ELSE n
           q == [Submitting!Idle EXCEPT !.pc = "begun", !.form = f, !.from = v, !.name = m, !.by = forms]
<1>1. forms \in Nat /\ forms' \in Nat
  BY DEF FormTypes, Submitting!Submit
<1>2. form' = [form EXCEPT ![r] = q]
  BY DEF Submitting!Submit
<1>3. m \in Name \cup {"none"} /\ (f # "contact" => m = n)
  OBVIOUS
<1> HIDE DEF m
<1>4. q \in Submission /\ q.pc = "begun" /\ q.form = f /\ q.name = m
  BY <1>1, <1>3 DEF Submission, Submitting!Idle, Submitting!Form
<1> HIDE DEF q
<1> QED BY <1>1, <1>2, <1>3, <1>4 DEF Serves

LEMMA AnswersCheck ==
  ASSUME FormTypes, NEW r \in Caller, NEW verdict \in {"valid", "invalid"}, Submitting!ServiceAnswers(r,
         verdict)
  PROVE  \E q \in Submission :
           /\ Serves(r, q) /\ q.pc = "answered" /\ q.form = form[r].form /\ q.name = form[r].name
           /\ q.check = verdict
<1> DEFINE q == [form[r] EXCEPT !.pc = "answered", !.check = verdict]
<1>1. form[r] \in Submission
  BY DEF FormTypes
<1>2. /\ q \in Submission /\ q.pc = "answered" /\ q.form = form[r].form /\ q.name = form[r].name
      /\ q.check = verdict
  BY <1>1 DEF Submission
<1>3. form' = [form EXCEPT ![r] = q]
  BY DEF Submitting!ServiceAnswers
<1> HIDE DEF q
<1> QED BY <1>2, <1>3 DEF Serves

LEMMA VettedWith ==
  ASSUME FormTypes, NEW r \in Caller, NEW check \in {"unknown", "valid"}, Submitting!Vetted(r, check)
  PROVE  \E q \in Submission :
           /\ Serves(r, q) /\ q.pc = "vetted" /\ q.form = form[r].form /\ q.name = form[r].name
           /\ q.check = check /\ q.vetted = now
<1> DEFINE q == [form[r] EXCEPT !.pc = "vetted", !.check = check, !.vetted = now]
<1>1. form[r] \in Submission /\ now \in Nat
  BY DEF FormTypes
<1>2. /\ q \in Submission /\ q.pc = "vetted" /\ q.form = form[r].form /\ q.name = form[r].name
      /\ q.check = check /\ q.vetted = now
  BY <1>1 DEF Submission
<1>3. form' = [form EXCEPT ![r] = q]
  BY DEF Submitting!Vetted
<1> HIDE DEF q
<1> QED BY <1>2, <1>3 DEF Serves

LEMMA Ends ==
  ASSUME FormTypes, NEW r \in Caller, form' = [form EXCEPT ![r] = Submitting!Idle]
  PROVE  Serves(r, Submitting!Idle)
  BY IdleForm DEF Serves

(* Which request a step is of, and what it leaves alone.                      *)
LEMMA FormNext ==
  ASSUME FormTypes, [Submitting!Next]_(Submitting!formVars)
  PROVE  \/ UNCHANGED form
         \/ \E r \in Caller, q \in Submission : Serves(r, q)
<1> USE IdleForm DEF Serves
<1>1. CASE Submitting!Tick \/ Submitting!CleanUpLogs \/ \E n \in Name : Submitting!Confirm(n)
  BY <1>1 DEF Submitting!Tick, Submitting!CleanUpLogs, Submitting!Confirm
<1>2. ASSUME NEW r \in Caller, NEW f \in Submitting!Form, NEW v \in Visitor, NEW n \in Name,
             Submitting!Submit(r, f, v, n)
      PROVE  \E q \in Submission : Serves(r, q)
  BY <1>2, Begun
<1>3. ASSUME NEW r \in Caller, Submitting!Stop(r) \/ Submitting!AlreadyThere(r) \/ Submitting!LogAttempt(r)
      PROVE  \E q \in Submission : Serves(r, q)
  BY <1>3, Ends DEF Submitting!Stop, Submitting!AlreadyThere, Submitting!LogAttempt
<1>4. ASSUME NEW r \in Caller,
             \/ Submitting!Admit(r) \/ Submitting!FindNobody(r) \/ Submitting!InsertSubscriber(r)
             \/ Submitting!SendMail(r) \/ Submitting!MailFails(r) \/ Submitting!AskService(r)
             \/ Submitting!PlaceOrder(r) \/ Submitting!OrderFails(r)
      PROVE  \E q \in Submission : Serves(r, q)
  <2>1. \E place \in Later : Submitting!Goto(r, place)
    BY <1>4 DEF Submitting!Admit, Submitting!FindNobody, Submitting!InsertSubscriber, Submitting!SendMail,
         Submitting!MailFails, Submitting!AskService, Submitting!PlaceOrder, Submitting!OrderFails, Later
  <2> QED BY <2>1, GoesFurther DEF Further
<1>5. ASSUME NEW r \in Caller, NEW verdict \in {"valid", "invalid"}, Submitting!ServiceAnswers(r, verdict)
      PROVE  \E q \in Submission : Serves(r, q)
  BY <1>5, AnswersCheck
<1>6. ASSUME NEW r \in Caller, Submitting!UseCache(r) \/ Submitting!PassUnchecked(r) \/
             Submitting!KeepAnswer(r)
      PROVE  \E q \in Submission : Serves(r, q)
  BY <1>6, VettedWith, Ends DEF Submitting!UseCache, Submitting!PassUnchecked, Submitting!KeepAnswer
<1>7. CASE UNCHANGED Submitting!formVars
  BY <1>7 DEF Submitting!formVars
<1> QED BY <1>1, <1>2, <1>3, <1>4, <1>5, <1>6, <1>7 DEF Submitting!Next

LEMMA StepFormTypes ==
  ASSUME FormTypes, [Submitting!Next]_(Submitting!formVars)
  PROVE  FormTypes'
<1>1. now' \in Nat /\ now' >= now /\ forms' \in Nat
  <2>1. now' \in {now, now + 1}
    BY DEF Submitting!Next, Submitting!formVars, Submitting!Tick, Submitting!CleanUpLogs, Submitting!Confirm,
         Submitting!Submit, Submitting!Stop, Submitting!AlreadyThere, Submitting!LogAttempt,
         Submitting!Admit, Submitting!FindNobody, Submitting!InsertSubscriber, Submitting!SendMail,
         Submitting!MailFails, Submitting!AskService, Submitting!PlaceOrder, Submitting!OrderFails,
         Submitting!ServiceAnswers, Submitting!UseCache, Submitting!PassUnchecked, Submitting!KeepAnswer
  <2>2. forms' \in {forms, forms + 1}
    BY DEF Submitting!Next, Submitting!formVars, Submitting!Tick, Submitting!CleanUpLogs, Submitting!Confirm,
         Submitting!Submit, Submitting!Stop, Submitting!AlreadyThere, Submitting!LogAttempt,
         Submitting!Admit, Submitting!FindNobody, Submitting!InsertSubscriber, Submitting!SendMail,
         Submitting!MailFails, Submitting!AskService, Submitting!PlaceOrder, Submitting!OrderFails,
         Submitting!ServiceAnswers, Submitting!UseCache, Submitting!PassUnchecked, Submitting!KeepAnswer
  <2>3. now \in Nat /\ forms \in Nat
    BY DEF FormTypes
  <2> QED BY <2>1, <2>2, <2>3
<1>2. form' \in [Caller -> Submission]
  BY FormNext, Served DEF FormTypes
<1>3. cache' \in [Name -> Lookup]
  <2>1. CASE UNCHANGED cache
    BY <2>1 DEF FormTypes
  <2>2. ASSUME NEW r \in Caller, Submitting!KeepAnswer(r) PROVE cache' \in [Name -> Lookup]
    <3>1. [state |-> form[r].check, at |-> now] \in Lookup \/ form[r].check = "unknown"
      BY DEF FormTypes, Submission, Lookup
    <3> QED BY <2>2, <3>1 DEF FormTypes, Submitting!KeepAnswer
  <2>3. UNCHANGED cache \/ \E r \in Caller : Submitting!KeepAnswer(r)
    BY DEF Submitting!Next, Submitting!formVars, Submitting!Tick, Submitting!CleanUpLogs, Submitting!Confirm,
         Submitting!Submit, Submitting!Stop, Submitting!AlreadyThere, Submitting!LogAttempt,
         Submitting!Admit, Submitting!FindNobody, Submitting!InsertSubscriber, Submitting!SendMail,
         Submitting!MailFails, Submitting!AskService, Submitting!PlaceOrder, Submitting!OrderFails,
         Submitting!ServiceAnswers, Submitting!UseCache, Submitting!PassUnchecked
  <2> QED BY <2>1, <2>2, <2>3
<1>4. \A e \in log' \cup mailed' : e \in log \cup mailed \/ e.at = now
  <2>1. \/ log' \subseteq log
        \/ \E r \in Caller : log' = log \cup {[form |-> form[r].form, from |-> form[r].from, at |-> now]}
    BY DEF Submitting!Next, Submitting!formVars, Submitting!Tick, Submitting!CleanUpLogs, Submitting!Confirm,
         Submitting!Submit, Submitting!Stop, Submitting!AlreadyThere, Submitting!LogAttempt,
         Submitting!Admit, Submitting!FindNobody, Submitting!InsertSubscriber, Submitting!SendMail,
         Submitting!MailFails, Submitting!AskService, Submitting!PlaceOrder, Submitting!OrderFails,
         Submitting!ServiceAnswers, Submitting!UseCache, Submitting!PassUnchecked, Submitting!KeepAnswer
  <2>2. \/ mailed' = mailed
        \/ \E r \in Caller : mailed' = mailed \cup {[form |-> form[r].form, from |-> form[r].from,
                                                     by |-> form[r].by, at |-> now]}
    BY DEF Submitting!Next, Submitting!formVars, Submitting!Tick, Submitting!CleanUpLogs, Submitting!Confirm,
         Submitting!Submit, Submitting!Stop, Submitting!AlreadyThere, Submitting!LogAttempt,
         Submitting!Admit, Submitting!FindNobody, Submitting!InsertSubscriber, Submitting!SendMail,
         Submitting!MailFails, Submitting!AskService, Submitting!PlaceOrder, Submitting!OrderFails,
         Submitting!ServiceAnswers, Submitting!UseCache, Submitting!PassUnchecked, Submitting!KeepAnswer
  <2> QED BY <2>1, <2>2
<1>5. \A e \in log' \cup mailed' : e.at \in Nat /\ e.at =< now'
  BY <1>1, <1>4 DEF FormTypes
<1> QED BY <1>1, <1>2, <1>3, <1>5 DEF FormTypes

LEMMA FormInit == Submitting!Init => FormTypes /\ SpacingInv /\ VerdictInv
<1> SUFFICES ASSUME Submitting!Init PROVE FormTypes /\ SpacingInv /\ VerdictInv
  OBVIOUS
<1>1. /\ now = 0 /\ forms = 0 /\ log = {} /\ mailed = {} /\ orders = {}
      /\ \A r \in Caller : form[r] = Submitting!Idle
      /\ \A n \in Name : cache[n] = Submitting!Nobody
  BY DEF Submitting!Init
<1>2. Submitting!Nobody \in Lookup /\ Submitting!Nobody.state = "none" /\ Submitting!Nobody.at = 0
  BY DEF Submitting!Nobody, Lookup
<1>3. FormTypes
  BY <1>1, <1>2, IdleForm DEF Submitting!Init, FormTypes
<1>4. SpacingInv
  BY <1>1, IdleForm DEF SpacingInv, MailsSpaced, Submitting!MailsSpaced, Submitting!Unlogged, Waiting
<1>5. VerdictInv
  BY <1>1, <1>2, IdleForm DEF VerdictInv, SoundLookup, OrdersVetted, Submitting!OrdersVetted
<1> QED BY <1>3, <1>4, <1>5

-----------------------------------------------------------------------------
(* Orders.                                                                   *)

SoundVerdict(q) ==
  /\ q.pc = "answered" /\ q.check = "valid" => Good(q.name, now)
  /\ q.pc = "vetted" => q.check # "invalid"
  /\ q.pc = "vetted" /\ q.check = "valid" => GoodAt(q.name, q.vetted)
  /\ q.pc # "idle" => q.form # "none" /\ (q.form # "contact" => q.name \in Name)

(* A submission goes on, sound, and nobody's answer is forgotten.              *)
LEMMA VerdictMoves ==
  ASSUME FormTypes, VerdictInv, NEW r \in Caller, NEW q, Serves(r, q), SoundVerdict(q),
         UNCHANGED <<now, cache, orders, answers>>
  PROVE  VerdictInv'
<1>1. \A s \in Caller : form'[s] = q \/ form'[s] = form[s]
  BY Served
<1>2. \A n, t : (Good(n, t) => Good(n, t)') /\ (GoodAt(n, t) => GoodAt(n, t)')
  BY DEF Good, GoodAt
<1>3. OrdersVetted'
  BY DEF VerdictInv, OrdersVetted, Submitting!OrdersVetted
<1>4. \A n \in Name : SoundLookup(n)'
  BY <1>2 DEF VerdictInv, SoundLookup
<1> QED BY <1>1, <1>2, <1>3, <1>4 DEF VerdictInv, SoundVerdict

LEMMA StepVerdicts ==
  ASSUME FormTypes, VerdictInv, [Submitting!Next]_(Submitting!formVars)
  PROVE  VerdictInv'
<1>0. SoundVerdict(Submitting!Idle) /\ \A s \in Caller : SoundVerdict(form[s])
  BY IdleForm DEF SoundVerdict, VerdictInv
<1>1. CASE Submitting!Tick
  <2>1. /\ now \in Nat /\ now' = now + 1 /\ UNCHANGED <<cache, orders, answers, form>>
        /\ \A r \in Caller : form[r].pc # "answered"
        /\ \A n \in Name : cache[n].at \in Nat
    BY <1>1 DEF Submitting!Tick, FormTypes, Lookup
  <2>2. \A n \in Name : cache[n].at =< now'
    BY <2>1 DEF VerdictInv, SoundLookup
  <2>3. OrdersVetted'
    BY <2>1 DEF VerdictInv, OrdersVetted, Submitting!OrdersVetted
  <2>4. \A n \in Name : SoundLookup(n)'
    BY <2>1, <2>2 DEF VerdictInv, SoundLookup, Good
  <2>5. \A s \in Caller : SoundVerdict(form[s])'
    BY <1>0, <2>1 DEF SoundVerdict, GoodAt
  <2> QED BY <2>3, <2>4, <2>5 DEF VerdictInv, SoundVerdict
<1>2. CASE Submitting!CleanUpLogs \/ (\E n \in Name : Submitting!Confirm(n)) \/ UNCHANGED Submitting!formVars
  <2>1. UNCHANGED <<now, cache, orders, answers, form>>
    BY <1>2 DEF Submitting!CleanUpLogs, Submitting!Confirm, Submitting!formVars
  <2> QED BY <2>1 DEF VerdictInv, SoundLookup, Good, GoodAt, OrdersVetted, Submitting!OrdersVetted
<1>3. ASSUME NEW r \in Caller, NEW f \in Submitting!Form, NEW v \in Visitor, NEW n \in Name,
             Submitting!Submit(r, f, v, n)
      PROVE  VerdictInv'
  <2>1. UNCHANGED <<now, cache, orders, answers>>
    BY <1>3 DEF Submitting!Submit
  <2>2. PICK q \in Submission : Serves(r, q) /\ q.pc = "begun" /\ q.form = f /\ (f # "contact" => q.name = n)
    BY <1>3, Begun
  <2>3. SoundVerdict(q)
    BY <2>2 DEF SoundVerdict, Submitting!Form
  <2> QED BY <2>1, <2>2, <2>3, VerdictMoves
<1>4. ASSUME NEW r \in Caller, Submitting!Stop(r) \/ Submitting!AlreadyThere(r) \/ Submitting!LogAttempt(r)
      PROVE  VerdictInv'
  <2>1. UNCHANGED <<now, cache, orders, answers>> /\ Serves(r, Submitting!Idle)
    BY <1>4, Ends DEF Submitting!Stop, Submitting!AlreadyThere, Submitting!LogAttempt
  <2> QED BY <2>1, <1>0, VerdictMoves
<1>5. ASSUME NEW r \in Caller,
             \/ Submitting!Admit(r) \/ Submitting!FindNobody(r) \/ Submitting!InsertSubscriber(r)
             \/ Submitting!SendMail(r) \/ Submitting!MailFails(r) \/ Submitting!AskService(r)
             \/ Submitting!OrderFails(r)
      PROVE  VerdictInv'
  <2>1. /\ \E place \in Later \ {"answered", "vetted"} : Submitting!Goto(r, place)
        /\ UNCHANGED <<now, cache, orders, answers>>
        /\ form[r].pc # "idle"
    BY <1>5 DEF Submitting!Admit, Submitting!FindNobody, Submitting!InsertSubscriber, Submitting!SendMail,
         Submitting!MailFails, Submitting!AskService, Submitting!OrderFails, Later, Submitting!Sends,
           Submitting!At
  <2>2. PICK place \in Later \ {"answered", "vetted"} : Further(r, place)
    BY <2>1, GoesFurther
  <2>3. PICK q \in Submission : Serves(r, q) /\ q.pc = place /\ q.form = form[r].form /\ q.name = form[r].name
    BY <2>2 DEF Further
  <2>4. SoundVerdict(q)
    BY <1>0, <2>1, <2>3 DEF SoundVerdict
  <2> QED BY <2>1, <2>3, <2>4, VerdictMoves
<1>6. ASSUME NEW r \in Caller, Submitting!PlaceOrder(r) PROVE VerdictInv'
  <2>1. /\ Submitting!Goto(r, "sent") /\ UNCHANGED <<now, cache, answers>> /\ form[r].pc = "vetted"
        /\ orders' = orders \cup {[name |-> form[r].name, verified |-> form[r].check,
           vetted |-> form[r].vetted]}
    BY <1>6 DEF Submitting!PlaceOrder, Submitting!At
  <2>2. Further(r, "sent")
    BY <2>1, GoesFurther DEF Later
  <2>3. PICK q \in Submission : Serves(r, q) /\ q.pc = "sent" /\ q.form = form[r].form /\
        q.name = form[r].name
    BY <2>2 DEF Further
  <2>4. form[r].check # "invalid" /\ (form[r].check = "valid" => GoodAt(form[r].name, form[r].vetted))
    BY <1>0, <2>1 DEF SoundVerdict
  <2>5. OrdersVetted'
    <3> SUFFICES ASSUME NEW o \in orders'
                 PROVE  o.verified # "invalid" /\ (o.verified = "valid" => GoodAt(o.name, o.vetted)')
      BY DEF OrdersVetted, Submitting!OrdersVetted, GoodAt
    <3>1. CASE o \in orders
      BY <2>1, <3>1 DEF VerdictInv, OrdersVetted, Submitting!OrdersVetted, GoodAt
    <3>2. CASE o = [name |-> form[r].name, verified |-> form[r].check, vetted |-> form[r].vetted]
      BY <2>1, <2>4, <3>2 DEF GoodAt
    <3> QED BY <2>1, <3>1, <3>2
  <2>6. SoundVerdict(q)'
    BY <1>0, <2>1, <2>3 DEF SoundVerdict
  <2>7. \A s \in Caller : form'[s] = q \/ form'[s] = form[s]
    BY <2>3, Served
  <2>8. \A n \in Name : SoundLookup(n)'
    BY <2>1 DEF VerdictInv, SoundLookup, Good
  <2> QED BY <1>0, <2>1, <2>5, <2>6, <2>7, <2>8 DEF VerdictInv, SoundVerdict, Good, GoodAt
<1>7. ASSUME NEW r \in Caller, NEW verdict \in {"valid", "invalid"}, Submitting!ServiceAnswers(r, verdict)
      PROVE  VerdictInv'
  <2>1. /\ answers' = answers \cup {[name |-> form[r].name, valid |-> verdict = "valid", at |-> now]}
        /\ UNCHANGED <<now, cache, orders>> /\ form[r].pc # "idle"
    BY <1>7 DEF Submitting!ServiceAnswers, Submitting!At
  <2>2. PICK q \in Submission : /\ Serves(r, q) /\ q.pc = "answered" /\ q.form = form[r].form
                                /\ q.name = form[r].name /\ q.check = verdict
    BY <1>7, AnswersCheck
  <2>3. verdict = "valid" => Good(form[r].name, now)'
    <3> SUFFICES ASSUME verdict = "valid" PROVE Good(form[r].name, now)'
      OBVIOUS
    <3> DEFINE a == [name |-> form[r].name, valid |-> TRUE, at |-> now]
    <3>1. a \in answers'
      BY <2>1
    <3>2. \E b \in answers' : b.name = form[r].name /\ b.valid /\ b.at = now'
      BY <2>1, <3>1
    <3> QED BY <2>2, <3>2, Served DEF Good
  <2>4. \A n, t : (Good(n, t) => Good(n, t)') /\ (GoodAt(n, t) => GoodAt(n, t)')
    BY <2>1 DEF Good, GoodAt
  <2>5. \A s \in Caller : form'[s] = q \/ form'[s] = form[s]
    BY <2>2, Served
  <2>6. OrdersVetted'
    BY <2>1, <2>4 DEF VerdictInv, OrdersVetted, Submitting!OrdersVetted, GoodAt
  <2>7. form'[r] = q
    BY <2>2, Served
  <2>8. SoundVerdict(form[r])'
    BY <1>0, <2>1, <2>2, <2>3, <2>7 DEF SoundVerdict
  <2>9. ASSUME NEW s \in Caller, s # r PROVE SoundVerdict(form[s])'
    <3>1. form'[s] = form[s]
      BY <2>2, <2>9, Served
    <3> QED BY <1>0, <2>1, <2>4, <3>1 DEF SoundVerdict
  <2>10. \A n \in Name : SoundLookup(n)'
    BY <2>1, <2>4 DEF VerdictInv, SoundLookup
  <2> QED BY <2>6, <2>8, <2>9, <2>10 DEF VerdictInv, SoundVerdict
<1>8. ASSUME NEW r \in Caller, Submitting!UseCache(r) PROVE VerdictInv'
  <2> DEFINE n == form[r].name
  <2>1. /\ form[r].form = "order" /\ form[r].pc = "begun" /\ cache[n].state = "valid"
        /\ cache[n].at + CacheLife >= now /\ Submitting!Vetted(r, "valid")
        /\ UNCHANGED <<now, cache, orders, answers>>
    BY <1>8 DEF Submitting!UseCache, Submitting!At, Submitting!Known, Submitting!Fresh
  <2>2. n \in Name
    BY <1>0, <2>1 DEF SoundVerdict
  <2>3. PICK q \in Submission : /\ Serves(r, q) /\ q.pc = "vetted" /\ q.form = form[r].form
                                /\ q.name = n /\ q.check = "valid" /\ q.vetted = now
    BY <2>1, VettedWith
  <2>4. Good(n, cache[n].at) /\ cache[n].at =< now
    BY <2>1, <2>2 DEF VerdictInv, SoundLookup
  <2>5. GoodAt(n, now)
    BY <2>1, <2>4 DEF Good, GoodAt
  <2>6. SoundVerdict(q)
    BY <2>1, <2>2, <2>3, <2>5 DEF SoundVerdict
  <2> QED BY <2>1, <2>3, <2>6, VerdictMoves
<1>9. ASSUME NEW r \in Caller, Submitting!PassUnchecked(r) PROVE VerdictInv'
  <2>1. /\ form[r].pc # "idle" /\ Submitting!Vetted(r, "unknown")
        /\ UNCHANGED <<now, cache, orders, answers>>
    BY <1>9 DEF Submitting!PassUnchecked, Submitting!At
  <2>2. PICK q \in Submission : /\ Serves(r, q) /\ q.pc = "vetted" /\ q.form = form[r].form
                                /\ q.name = form[r].name /\ q.check = "unknown"
    BY <2>1, VettedWith
  <2>3. SoundVerdict(q)
    BY <1>0, <2>1, <2>2 DEF SoundVerdict
  <2> QED BY <2>1, <2>2, <2>3, VerdictMoves
<1>10. ASSUME NEW r \in Caller, Submitting!KeepAnswer(r) PROVE VerdictInv'
  <2> DEFINE n == form[r].name
             kept == [state |-> form[r].check, at |-> now]
  <2>1. /\ form[r].form = "order" /\ form[r].pc = "answered" /\ UNCHANGED <<now, orders, answers>>
        /\ cache' = [cache EXCEPT ![n] = kept] \/ UNCHANGED cache
        /\ \/ form[r].check = "valid" /\ Submitting!Vetted(r, "valid")
           \/ form[r].check = "invalid" /\ form' = [form EXCEPT ![r] = Submitting!Idle]
    BY <1>10 DEF Submitting!KeepAnswer, Submitting!At
  <2>2. n \in Name /\ (form[r].check = "valid" => Good(n, now))
    BY <1>0, <2>1 DEF SoundVerdict
  <2>3. \A m, t : (Good(m, t) => Good(m, t)') /\ (GoodAt(m, t) => GoodAt(m, t)')
    BY <2>1 DEF Good, GoodAt
  <2>4. form[r].check = "valid" => GoodAt(n, now)
    <3>1. now \in Nat /\ CacheLife \in Nat
      BY LivesAreTicks DEF FormTypes
    <3> QED BY <2>2, <3>1 DEF Good, GoodAt
  <2>5. kept.state = form[r].check /\ kept.at = now
    OBVIOUS
  <2> HIDE DEF kept
  <2>6. \A m \in Name : cache'[m] = cache[m] \/ (m = n /\ cache'[m] = kept)
    BY <2>1 DEF FormTypes
  <2>7. \A m \in Name : SoundLookup(m)'
    <3> TAKE m \in Name
    <3>1. CASE cache'[m] = cache[m]
      BY <2>1, <2>3, <3>1 DEF VerdictInv, SoundLookup
    <3>2. CASE m = n /\ cache'[m] = kept
      <4>1. now \in Nat
        BY DEF FormTypes
      <4>2. cache'[m].at = now /\ cache'[m].state = form[r].check
        BY <2>5, <3>2
      <4>3. form[r].check = "valid" => Good(m, now)
        BY <2>2, <3>2
      <4>4. now' = now /\ (form[r].check = "valid" => \E a \in answers' : a.name = m /\ a.valid /\ a.at = now)
        BY <2>1, <4>3 DEF Good
      <4> QED BY <4>1, <4>2, <4>4 DEF SoundLookup, Good
    <3> QED BY <2>6, <3>1, <3>2
  <2>8. \E q \in Submission : Serves(r, q) /\ SoundVerdict(q)
    <3>1. CASE form[r].check = "valid" /\ Submitting!Vetted(r, "valid")
      <4>1. PICK q \in Submission : /\ Serves(r, q) /\ q.pc = "vetted" /\ q.form = form[r].form
                                    /\ q.name = n /\ q.check = "valid" /\ q.vetted = now
        BY <3>1, VettedWith
      <4> QED BY <2>1, <2>2, <2>4, <3>1, <4>1 DEF SoundVerdict
    <3>2. CASE form' = [form EXCEPT ![r] = Submitting!Idle]
      BY <3>2, <1>0, Ends, IdleForm
    <3> QED BY <2>1, <3>1, <3>2
  <2>9. PICK q \in Submission : Serves(r, q) /\ SoundVerdict(q)
    BY <2>8
  <2>10. \A s \in Caller : form'[s] = q \/ form'[s] = form[s]
    BY <2>9, Served
  <2>11. OrdersVetted'
    BY <2>1, <2>3 DEF VerdictInv, OrdersVetted, Submitting!OrdersVetted, GoodAt
  <2>12. \A s \in Caller : SoundVerdict(form[s])'
    BY <1>0, <2>1, <2>3, <2>9, <2>10 DEF SoundVerdict
  <2>13. OrdersVetted'
    BY <2>11
  <2> QED BY <2>7, <2>12, <2>13 DEF VerdictInv, SoundVerdict
<1> QED BY <1>1, <1>2, <1>3, <1>4, <1>5, <1>6, <1>7, <1>8, <1>9, <1>10 DEF Submitting!Next

-----------------------------------------------------------------------------
(* Contact and newsletter.                                                   *)

Past(q) == q.pc \in {"admitted", "new", "mailing", "sent", "unsent"}

(* The invariant in terms of the submissions alone.                            *)
Alone ==
  \A r, s \in Caller :
    /\ Past(form[r]) /\ Past(form[s]) /\ form[r].form # "order"
    /\ PairOf(form[r]) = PairOf(form[s]) /\ PairOf(form[r]) \notin missed
    => r = s

Patient == \A r \in Caller : Waiting(form[r]) /\ PairOf(form[r]) \notin missed => LongAgo(PairOf(form[r]))

Remembered == \A m \in mailed : PairOf(m) \notin missed => Accounted(m)

SpacingHolds == MailsSpaced /\ Remembered /\ Alone /\ Patient

LEMMA Rephrased ==
  ASSUME FormTypes
  PROVE  SpacingInv <=> (logging = "all" => SpacingHolds)
  BY Looks DEF SpacingInv, SpacingHolds, Remembered, Alone, Patient, Past

LEMMA RephrasedNext ==
  ASSUME FormTypes'
  PROVE  SpacingInv' <=> (logging' = "all" => SpacingHolds')
<1>1. \A r \in Caller : /\ Submitting!Pair(r)' = PairOf(form[r])'
                        /\ Submitting!Unlogged(r)' <=> Past(form[r])'
  BY DEF Submitting!Pair, Submitting!Unlogged, PairOf, Past
<1> QED BY <1>1 DEF SpacingInv, SpacingHolds, Remembered, Alone, Patient

(* A step that sends no mail: what was spaced stays so, and the address of one     *)
(* that is past the look and goes on is the same.                              *)
LEMMA QuietStep ==
  ASSUME FormTypes, SpacingHolds, UNCHANGED <<mailed, logging>>, missed \subseteq missed',
         now' \in Nat, now =< now',
         NEW r \in Caller, NEW q, Serves(r, q),
         Past(q) /\ q.form # "order" => Past(form[r]) /\ PairOf(q) = PairOf(form[r]),
         Waiting(q) => Waiting(form[r]) /\ q.form # "order",
         Remembered'
  PROVE  SpacingHolds'
<1>0. form'[r] = q /\ \A s \in Caller \ {r} : form'[s] = form[s]
  BY Served
<1>1. MailsSpaced'
  BY DEF SpacingHolds, MailsSpaced, Submitting!MailsSpaced
<1>2. Alone'
  BY <1>0 DEF SpacingHolds, Alone, PairOf
<1>3. \A p : LongAgo(p) => LongAgo(p)'
  BY LivesAreTicks DEF FormTypes, LongAgo
<1>4. Patient'
  BY <1>0, <1>3 DEF SpacingHolds, Patient, Waiting, Past
<1> QED BY <1>1, <1>2, <1>4 DEF SpacingHolds

(* A mail stays accounted for as long as its submission is not dropped and its     *)
(* entry stays.                                                              *)
LEMMA StaysAccounted ==
  ASSUME FormTypes, Remembered, UNCHANGED <<mailed, now>>, missed \subseteq missed', log \subseteq log',
         NEW r \in Caller, NEW q, Serves(r, q),
         form[r].pc = "sent" => \/ q.pc = "sent" /\ PairOf(q) = PairOf(form[r])
                                \/ PairOf(form[r]) \in missed'
                                \/ \E e \in log' : PairOf(e) = PairOf(form[r]) /\ e.at = now
  PROVE  Remembered'
<1>0. form'[r] = q /\ \A s \in Caller \ {r} : form'[s] = form[s]
  BY Served
<1> SUFFICES ASSUME NEW m \in mailed, PairOf(m) \notin missed' PROVE Accounted(m)'
  BY DEF Remembered
<1>1. Accounted(m) /\ m.at =< now
  BY DEF Remembered, FormTypes
<1>2. CASE \E e \in log : PairOf(e) = PairOf(m) /\ m.at =< e.at
  BY <1>2 DEF Accounted
<1>3. CASE m.at + Cooldown < now
  BY <1>3 DEF Accounted
<1>4. CASE \E s \in Caller : form[s].pc = "sent" /\ Submitting!Pair(s) = PairOf(m)
  <2>1. PICK s \in Caller : form[s].pc = "sent" /\ PairOf(form[s]) = PairOf(m)
    BY <1>4, Looks
  <2>2. \A t \in Caller : Submitting!Pair(t)' = PairOf(form[t])'
    BY DEF Submitting!Pair, PairOf
  <2>3. CASE s # r
    BY <1>0, <2>1, <2>2, <2>3 DEF Accounted, PairOf
  <2>4. CASE s = r /\ q.pc = "sent" /\ PairOf(q) = PairOf(form[r])
    BY <1>0, <2>1, <2>2, <2>4 DEF Accounted, PairOf
  <2>5. CASE s = r /\ \E e \in log' : PairOf(e) = PairOf(form[r]) /\ e.at = now
    BY <1>1, <2>1, <2>5 DEF Accounted
  <2> QED BY <2>1, <2>3, <2>4, <2>5
<1> QED BY <1>1, <1>2, <1>3, <1>4 DEF Accounted

LEMMA TimePasses ==
  ASSUME FormTypes, SpacingHolds, UNCHANGED <<mailed, form, missed, logging>>, now' \in Nat, now =< now',
         Remembered'
  PROVE  SpacingHolds'
<1>1. MailsSpaced'
  BY DEF SpacingHolds, MailsSpaced, Submitting!MailsSpaced
<1>2. Alone'
  BY DEF SpacingHolds, Alone, PairOf, Past
<1>3. \A p : LongAgo(p) => LongAgo(p)'
  BY LivesAreTicks DEF FormTypes, LongAgo
<1>4. Patient'
  BY <1>3 DEF SpacingHolds, Patient, Waiting
<1> QED BY <1>1, <1>2, <1>4 DEF SpacingHolds

LEMMA StepSpacing ==
  ASSUME Cooldown =< Retention, FormTypes, SpacingInv, [Submitting!Next]_(Submitting!formVars)
  PROVE  SpacingInv'
<1>1. FormTypes' /\ UNCHANGED logging
  BY StepFormTypes
     DEF Submitting!Next, Submitting!formVars, Submitting!Tick, Submitting!CleanUpLogs, Submitting!Confirm,
         Submitting!Submit, Submitting!Stop, Submitting!AlreadyThere, Submitting!LogAttempt,
         Submitting!Admit, Submitting!FindNobody, Submitting!InsertSubscriber, Submitting!SendMail,
         Submitting!MailFails, Submitting!AskService, Submitting!PlaceOrder, Submitting!OrderFails,
         Submitting!ServiceAnswers, Submitting!UseCache, Submitting!PassUnchecked, Submitting!KeepAnswer
<1> SUFFICES ASSUME logging = "all", SpacingHolds PROVE SpacingHolds'
  BY <1>1, Rephrased, RephrasedNext
<1>2. now \in Nat /\ {Cooldown, Retention} \subseteq Nat
  BY LivesAreTicks DEF FormTypes
<1>3. CASE Submitting!Tick
  <2>1. now' = now + 1 /\ now' \in Nat /\ now =< now' /\ UNCHANGED <<log, form, mailed, missed>>
    BY <1>2, <1>3 DEF Submitting!Tick
  <2>2. Remembered'
    <3> SUFFICES ASSUME NEW m \in mailed, PairOf(m) \notin missed PROVE Accounted(m)'
      BY <2>1 DEF Remembered
    <3>1. Accounted(m) /\ m.at \in Nat
      BY DEF SpacingHolds, Remembered, FormTypes
    <3>2. m.at + Cooldown < now => m.at + Cooldown < now'
      BY <1>2, <2>1, <3>1
    <3> QED BY <2>1, <3>1, <3>2 DEF Accounted, Submitting!Pair
  <2> QED BY <1>1, <2>1, <2>2, TimePasses
<1>4. CASE Submitting!CleanUpLogs
  <2>1. /\ log' = {e \in log : e.at + Retention >= now} /\ UNCHANGED <<now, form, mailed, missed>>
    BY <1>4 DEF Submitting!CleanUpLogs, Submitting!Fresh
  <2>2. Remembered'
    <3> SUFFICES ASSUME NEW m \in mailed, PairOf(m) \notin missed PROVE Accounted(m)'
      BY <2>1 DEF Remembered
    <3>1. Accounted(m) /\ m.at \in Nat
      BY DEF SpacingHolds, Remembered, FormTypes
    <3>2. ASSUME NEW e \in log, PairOf(e) = PairOf(m), m.at =< e.at
          PROVE  e \in log' \/ m.at + Cooldown < now
      <4>1. e.at \in Nat
        BY DEF FormTypes
      <4> QED BY <1>2, <2>1, <3>1, <3>2, <4>1
    <3> QED BY <2>1, <3>1, <3>2 DEF Accounted, Submitting!Pair
  <2> QED BY <1>1, <1>2, <2>1, <2>2, TimePasses
<1>5. CASE (\E n \in Name : Submitting!Confirm(n)) \/ UNCHANGED Submitting!formVars
  <2>1. UNCHANGED <<log, now, form, mailed, missed>>
    BY <1>5 DEF Submitting!Confirm, Submitting!formVars
  <2>2. Remembered'
    BY <2>1 DEF SpacingHolds, Remembered, Accounted, Submitting!Pair
  <2> QED BY <1>1, <1>2, <2>1, <2>2, TimePasses
<1>6. ASSUME NEW r \in Caller, NEW f \in Submitting!Form, NEW v \in Visitor, NEW n \in Name,
             Submitting!Submit(r, f, v, n)
      PROVE  SpacingHolds'
  <2>1. UNCHANGED <<now, log, mailed, missed>> /\ form[r].pc = "idle"
    BY <1>6 DEF Submitting!Submit
  <2>2. PICK q \in Submission : Serves(r, q) /\ q.pc = "begun"
    BY <1>6, Begun
  <2>3. Remembered'
    BY <2>1, <2>2, StaysAccounted DEF SpacingHolds
  <2> QED BY <1>1, <1>2, <2>1, <2>2, <2>3, QuietStep DEF Past, Waiting
<1>7. ASSUME NEW r \in Caller, Submitting!Stop(r) \/ Submitting!AlreadyThere(r) \/ Submitting!LogAttempt(r)
      PROVE  SpacingHolds'
  <2>1. /\ UNCHANGED <<now, mailed>> /\ missed \subseteq missed' /\ log \subseteq log'
        /\ Serves(r, Submitting!Idle)
    BY <1>7, Ends DEF Submitting!Stop, Submitting!AlreadyThere, Submitting!LogAttempt
  <2>2. form[r].pc = "sent" => \/ PairOf(form[r]) \in missed'
                               \/ \E e \in log' : PairOf(e) = PairOf(form[r]) /\ e.at = now
    <3>1. CASE Submitting!Stop(r)
      BY <3>1, Looks DEF Submitting!Stop
    <3>2. CASE Submitting!AlreadyThere(r)
      BY <3>2 DEF Submitting!AlreadyThere, Submitting!At
    <3>3. CASE Submitting!LogAttempt(r) /\ form[r].pc = "sent"
      <4>1. Submitting!Admits(TRUE)
        BY DEF Submitting!Admits
      <4> DEFINE e == [form |-> form[r].form, from |-> form[r].from, at |-> now]
      <4>2. e \in log' \/ Submitting!Pair(r) \in missed'
        BY <3>3, <4>1 DEF Submitting!LogAttempt
      <4>3. PairOf(e) = PairOf(form[r]) /\ e.at = now
        BY DEF PairOf
      <4> QED BY <4>2, <4>3, Looks
    <3> QED BY <1>7, <3>1, <3>2, <3>3
  <2>3. Remembered'
    BY <2>1, <2>2, StaysAccounted DEF SpacingHolds
  <2> QED BY <1>1, <1>2, <2>1, <2>3, QuietStep, IdleForm DEF Past, Waiting
<1>8. ASSUME NEW r \in Caller, Submitting!Admit(r) PROVE SpacingHolds'
  <2> DEFINE p == PairOf(form[r])
  <2>1. /\ form[r].pc = "begun" /\ form[r].form # "order" /\ UNCHANGED <<now, log, mailed>>
        /\ missed \subseteq missed' /\ Submitting!Goto(r, "admitted")
    BY <1>8 DEF Submitting!Admit
  <2>2. PICK q \in Submission : Serves(r, q) /\ q.pc = "admitted" /\ q.form = form[r].form /\
        q.from = form[r].from
    BY <2>1, GoesFurther DEF Further, Later
  <2>3. form'[r] = q /\ PairOf(q) = p /\ \A s \in Caller \ {r} : form'[s] = form[s]
    BY <2>2, Served DEF PairOf
  <2>4. Remembered'
    BY <2>1, <2>2, StaysAccounted DEF SpacingHolds
  <2>5. p \notin missed' => /\ \A s \in Caller \ {r} : PairOf(form[s]) = p => ~Past(form[s])
                            /\ \A e \in log : PairOf(e) = p => ~(e.at + Cooldown >= now)
    BY <1>8, Looks DEF Submitting!Admit, Submitting!Recent, Submitting!Fresh, Past, PairOf
  <2>6. p \notin missed' => LongAgo(p)
    <3> SUFFICES ASSUME p \notin missed', NEW m \in mailed, PairOf(m) = p PROVE m.at + Cooldown < now
      BY DEF LongAgo
    <3>1. Accounted(m) /\ m.at \in Nat
      BY <2>1 DEF SpacingHolds, Remembered, FormTypes
    <3>2. ~\E s \in Caller : form[s].pc = "sent" /\ Submitting!Pair(s) = PairOf(m)
      BY <2>1, <2>5, Looks DEF Past
    <3>3. ASSUME NEW e \in log, PairOf(e) = PairOf(m), m.at =< e.at PROVE m.at + Cooldown < now
      <4>1. e.at \in Nat /\ ~(e.at + Cooldown >= now)
        BY <2>5, <3>3 DEF FormTypes
      <4> QED BY <1>2, <3>1, <3>3, <4>1
    <3> QED BY <3>1, <3>2, <3>3 DEF Accounted
  <2> HIDE DEF p
  <2>7. Alone'
    BY <2>1, <2>3, <2>5 DEF SpacingHolds, Alone, Past, PairOf, p
  <2>8. Patient'
    <3>1. \A x : LongAgo(x) => LongAgo(x)'
      BY <2>1 DEF LongAgo
    <3> SUFFICES ASSUME NEW s \in Caller, Waiting(form'[s]), PairOf(form'[s]) \notin missed'
                 PROVE  LongAgo(PairOf(form'[s]))
      BY <2>1 DEF Patient, LongAgo, PairOf, Waiting
    <3>2. CASE s = r
      BY <2>3, <2>6, <3>2
    <3>3. CASE s # r
      BY <2>1, <2>3, <3>3 DEF SpacingHolds, Patient
    <3> QED BY <3>2, <3>3
  <2>9. MailsSpaced'
    BY <1>1, <2>1 DEF SpacingHolds, MailsSpaced, Submitting!MailsSpaced
  <2> QED BY <2>4, <2>7, <2>8, <2>9 DEF SpacingHolds
<1>9. ASSUME NEW r \in Caller,
             Submitting!FindNobody(r) \/ Submitting!InsertSubscriber(r) \/ Submitting!MailFails(r)
      PROVE  SpacingHolds'
  <2>1. /\ UNCHANGED <<now, log, mailed, missed>> /\ Waiting(form[r]) /\ form[r].form # "order"
        /\ \E place \in {"new", "mailing", "unsent"} : Submitting!Goto(r, place)
    BY <1>9 DEF Submitting!FindNobody, Submitting!InsertSubscriber, Submitting!MailFails, Submitting!Sends,
                Submitting!At, Waiting
  <2>2. PICK q \in Submission : Serves(r, q) /\ q.form = form[r].form /\ q.from = form[r].from
    BY <2>1, GoesFurther DEF Further, Later
  <2>3. Remembered'
    BY <2>1, <2>2, StaysAccounted DEF SpacingHolds, Waiting
  <2> QED BY <1>1, <1>2, <2>1, <2>2, <2>3, QuietStep DEF Past, Waiting, PairOf
<1>10. ASSUME NEW r \in Caller, Submitting!SendMail(r) PROVE SpacingHolds'
  <2> DEFINE p == PairOf(form[r])
             m == [form |-> form[r].form, from |-> form[r].from, by |-> form[r].by, at |-> now]
  <2>1. /\ UNCHANGED <<now, log, missed>> /\ Waiting(form[r]) /\ form[r].form # "order"
        /\ Submitting!Goto(r, "sent") /\ mailed' = mailed \cup {m}
    BY <1>10 DEF Submitting!SendMail, Submitting!Sends, Submitting!At, Waiting
  <2>2. PICK q \in Submission : Serves(r, q) /\ q.pc = "sent" /\ q.form = form[r].form /\
        q.from = form[r].from
    BY <2>1, GoesFurther DEF Further, Later
  <2>3. form'[r] = q /\ PairOf(q) = p /\ \A s \in Caller \ {r} : form'[s] = form[s]
    BY <2>2, Served DEF PairOf
  <2>4. PairOf(m) = p /\ m.at = now
    BY DEF PairOf
  <2>5. p \notin missed => LongAgo(p)
    BY <2>1 DEF SpacingHolds, Patient
  <2> HIDE DEF p, m
  <2>6. MailsSpaced'
    <3> SUFFICES ASSUME NEW x \in mailed', NEW y \in mailed', x.by # y.by, PairOf(x) = PairOf(y),
                        PairOf(x) \notin missed'
                 PROVE  x.at + Cooldown < y.at \/ y.at + Cooldown < x.at
      BY <2>1 DEF MailsSpaced, Submitting!MailsSpaced, PairOf
    <3>1. CASE x \in mailed /\ y \in mailed
      BY <2>1, <3>1 DEF SpacingHolds, MailsSpaced, Submitting!MailsSpaced, PairOf
    <3>2. CASE x = m /\ y \in mailed
      BY <2>1, <2>4, <2>5, <3>2 DEF LongAgo
    <3>3. CASE x \in mailed /\ y = m
      BY <2>1, <2>4, <2>5, <3>3 DEF LongAgo
    <3> QED BY <2>1, <3>1, <3>2, <3>3
  <2>7. Remembered'
    <3> SUFFICES ASSUME NEW x \in mailed', PairOf(x) \notin missed PROVE Accounted(x)'
      BY <2>1 DEF Remembered
    <3>1. \A t \in Caller : Submitting!Pair(t)' = PairOf(form'[t])
      BY DEF Submitting!Pair, PairOf
    <3>2. CASE x = m
      BY <2>2, <2>3, <2>4, <3>1, <3>2 DEF Accounted
    <3>3. CASE x \in mailed
      <4>1. Accounted(x)
        BY <3>3 DEF SpacingHolds, Remembered
      <4>2. \A s \in Caller : form[s].pc = "sent" => s # r
        BY <2>1 DEF Waiting
      <4> QED BY <2>1, <2>3, <3>1, <4>1, <4>2, Looks DEF Accounted
    <3> QED BY <2>1, <3>2, <3>3
  <2>8. Alone'
    BY <2>1, <2>2, <2>3 DEF SpacingHolds, Alone, Past, Waiting, PairOf, p
  <2>9. Patient'
    <3> SUFFICES ASSUME NEW s \in Caller, Waiting(form'[s]), PairOf(form'[s]) \notin missed,
                        NEW x \in mailed',
                        PairOf(x) = PairOf(form'[s])
                 PROVE  x.at + Cooldown < now
      BY <2>1 DEF Patient, LongAgo, PairOf, Waiting
    <3>1. s # r /\ form'[s] = form[s] /\ Past(form[s])
      BY <2>2, <2>3 DEF Waiting, Past
    <3>2. x # m
      BY <2>1, <2>4, <3>1 DEF SpacingHolds, Alone, Past, Waiting, p
    <3> QED BY <2>1, <3>1, <3>2 DEF SpacingHolds, Patient, LongAgo
  <2> QED BY <2>6, <2>7, <2>8, <2>9 DEF SpacingHolds
<1>11. ASSUME NEW r \in Caller,
              \/ Submitting!UseCache(r) \/ Submitting!PassUnchecked(r) \/ Submitting!KeepAnswer(r)
              \/ Submitting!AskService(r) \/ Submitting!PlaceOrder(r) \/ Submitting!OrderFails(r)
              \/ \E verdict \in {"valid", "invalid"} : Submitting!ServiceAnswers(r, verdict)
       PROVE  SpacingHolds'
  <2>1. /\ UNCHANGED <<now, log, mailed, missed>> /\ form[r].form = "order" /\ form[r].pc # "sent"
    BY <1>11 DEF Submitting!UseCache, Submitting!PassUnchecked, Submitting!KeepAnswer, Submitting!AskService,
                 Submitting!PlaceOrder, Submitting!OrderFails, Submitting!ServiceAnswers, Submitting!At
  <2>2. \E q \in Submission : Serves(r, q) /\ (Past(q) => q.form = "order") /\ ~Waiting(q)
    <3>1. CASE Submitting!UseCache(r) \/ Submitting!PassUnchecked(r) \/ Submitting!KeepAnswer(r)
      <4>1. \/ \E check \in {"unknown", "valid"} : Submitting!Vetted(r, check)
            \/ form' = [form EXCEPT ![r] = Submitting!Idle]
        BY <3>1 DEF Submitting!UseCache, Submitting!PassUnchecked, Submitting!KeepAnswer
      <4> QED BY <4>1, Ends, IdleForm, VettedWith DEF Past, Waiting
    <3>2. CASE Submitting!AskService(r) \/ Submitting!PlaceOrder(r) \/ Submitting!OrderFails(r)
      <4>1. \E place \in {"asking", "sent", "unsent"} : Submitting!Goto(r, place)
        BY <3>2 DEF Submitting!AskService, Submitting!PlaceOrder, Submitting!OrderFails
      <4> QED BY <2>1, <4>1, GoesFurther DEF Further, Later, Past, Waiting
    <3>3. CASE \E verdict \in {"valid", "invalid"} : Submitting!ServiceAnswers(r, verdict)
      BY <3>3, AnswersCheck DEF Past, Waiting
    <3> QED BY <1>11, <3>1, <3>2, <3>3
  <2>3. PICK q \in Submission : Serves(r, q) /\ (Past(q) => q.form = "order") /\ ~Waiting(q)
    BY <2>2
  <2>4. Remembered'
    BY <2>1, <2>3, StaysAccounted DEF SpacingHolds
  <2> QED BY <1>1, <1>2, <2>1, <2>3, <2>4, QuietStep
<1> QED
  BY <1>3, <1>4, <1>5, <1>6, <1>7, <1>8, <1>9, <1>10, <1>11 DEF Submitting!Next

-----------------------------------------------------------------------------
(* Contact and newsletter: two mails of one address lie more than the cooldown     *)
(* apart, unless submissions overlapped or the log failed one of them, for any     *)
(* number of visitors and submissions, as long as the log is kept for as long.     *)
THEOREM MailsKeepApart == Cooldown =< Retention => (Submitting!Spec => []MailsSpaced)
<1> SUFFICES ASSUME Cooldown =< Retention PROVE Submitting!Spec => []MailsSpaced
  OBVIOUS
<1> DEFINE Inv == FormTypes /\ (logging = "all" => MailsSpaced) /\ SpacingInv
<1>1. Submitting!Init => Inv
  BY FormInit DEF SpacingInv
<1>2. Inv /\ [Submitting!Next]_(Submitting!formVars) => Inv'
  BY StepFormTypes, StepSpacing DEF SpacingInv
<1>3. Inv => MailsSpaced
  BY DEF MailsSpaced, Submitting!MailsSpaced
<1> HIDE DEF Inv
<1> QED BY <1>1, <1>2, <1>3, PTL DEF Submitting!Spec

(* Orders: what is kept as verified the service said within the life of its        *)
(* answers, however late the row is written and whoever it was asked for.          *)
THEOREM OrdersAreVetted == Submitting!Spec => []OrdersVetted
<1> DEFINE Inv == FormTypes /\ VerdictInv
<1>1. Submitting!Init => Inv
  BY FormInit
<1>2. Inv /\ [Submitting!Next]_(Submitting!formVars) => Inv'
  BY StepFormTypes, StepVerdicts
<1>3. Inv => OrdersVetted
  BY DEF VerdictInv
<1> HIDE DEF Inv
<1> QED BY <1>1, <1>2, <1>3, PTL DEF Submitting!Spec

(* The run's specification is that of its four parts, so each theorem above is     *)
(* about the run's behaviours, too.                                          *)
THEOREM ServicesCompose == MCSpec => Spec /\ Storing!Spec /\ Submitting!Spec /\ SigningIn!Spec
<1>1. Scenes => Init /\ Storing!Init /\ Submitting!Init /\ SigningIn!Init
  BY DEF Scenes
<1>2. [Steps]_<<scene, vars, fileVars, formVars, sessionVars>> =>
        /\ [Next]_vars /\ [Storing!Next]_(Storing!fileVars)
        /\ [Submitting!Next]_(Submitting!formVars) /\ [SigningIn!Next]_(SigningIn!sessionVars)
  BY DEF Steps, vars, fileVars, formVars, sessionVars, Storing!fileVars, Submitting!formVars,
         SigningIn!sessionVars
<1> QED BY <1>1, <1>2, PTL DEF MCSpec, Spec, Storing!Spec, Submitting!Spec, SigningIn!Spec
=============================================================================
