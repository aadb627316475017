--------------------------- MODULE Administrators ---------------------------
(***************************************************************************)
(* Who administers the site: update_admin_user (src/src/admin/users.rs) with *)
(* deactivate_user and reactivate_user (src/src/admin/auth/backend.rs) on    *)
(* the active and role columns of the table users.                          *)
(*                                                                          *)
(* A request of an administrator about another account is served in         *)
(* statements that share no transaction: find the row; to deactivate, find  *)
(* it again, count the active administrators, write; set a password; find   *)
(* it again and write the remaining columns.  Several are served at once.   *)
(***************************************************************************)
EXTENDS Naturals, FiniteSets

CONSTANTS User, Role, Administrator,  \* accounts, tiers, the tier that administers
          Request,                    \* requests about other accounts, served at once
          None                        \* SQL NULL

ASSUME UserIsFinite == IsFiniteSet(User)
ASSUME AdministratorIsRole == Administrator \in Role
ASSUME NoneIsNoValue == None \notin User \cup Role

VARIABLES
  rows,         \* accounts that exist
  active, role, \* columns of users
  session,      \* accounts with a live session
  pc,           \* where each request is
  order,        \* what it is to do, to whom; order.off, order.on: the flag's new value
  admin,        \* deactivate_user read the row of an administrator
  disturbed     \* history: others changed the active administrators since it did so

vars == <<rows, active, role, session, pc, order, admin, disturbed>>

ActiveAdmins == {u \in rows : u \in active /\ role[u] = Administrator}

NoOrder == [target |-> None, wish |-> "none", role |-> None]
Order == [target : User \cup {None}, wish : {"none", "off", "on"}, role : Role \cup {None}]

TypeOK ==
  /\ rows \in SUBSET User /\ active \in SUBSET rows /\ session \in SUBSET rows
  /\ role \in [User -> Role \cup {None}]
  /\ pc \in [Request -> {"idle", "begun", "found", "cleared", "editing"}]
  /\ order \in [Request -> Order]
  /\ admin \in SUBSET Request /\ disturbed \in SUBSET Request
  /\ \A r \in Request : pc[r] # "idle" => order[r].target \in rows

(* A site that has been set up: one administrator, signed in.                *)
Init ==
  /\ \E u \in User : /\ rows = {u} /\ active = {u} /\ session = {u}
                     /\ role = [v \in User |-> IF v = u THEN Administrator ELSE None]
  /\ pc = [r \in Request |-> "idle"]
  /\ order = [r \in Request |-> NoOrder]
  /\ admin = {} /\ disturbed = {}

Deciding(r) == pc[r] \in {"found", "cleared"}

(* History: requests between deactivate_user's look and its write, when the    *)
(* set of active administrators changes; those in done are past it.          *)
Disturb(done) ==
  disturbed' = (IF ActiveAdmins' = ActiveAdmins THEN disturbed
                ELSE disturbed \cup {q \in Request : Deciding(q)}) \ done

Goto(r, place) == pc' = [pc EXCEPT ![r] = place]

Answer(r) ==
  /\ Goto(r, "idle")
  /\ order' = [order EXCEPT ![r] = NoOrder]
  /\ admin' = admin \ {r}

-----------------------------------------------------------------------------
(* Accounts come about (register, create_admin_user, bootstrap-admin, the      *)
(* acceptance of an invite) active, in any role, some before anybody can      *)
(* sign in to them.                                                          *)
CreateUser(u, ro) ==
  /\ u \notin rows
  /\ rows' = rows \cup {u} /\ active' = active \cup {u}
  /\ role' = [role EXCEPT ![u] = ro]
  /\ UNCHANGED <<session, pc, order, admin>>
  /\ Disturb({})

(* login looks at the active flag, as later requests do not.  That it asks for *)
(* activation and verification too is left out: more may sign in here.        *)
SignIn(u) ==
  /\ u \in active
  /\ session' = session \cup {u}
  /\ UNCHANGED <<rows, active, role, pc, order, admin, disturbed>>

(* Signing out, an expiry, or the account's own new password or factor.       *)
SessionEnds(u) ==
  /\ u \in session
  /\ session' = session \ {u}
  /\ UNCHANGED <<rows, active, role, pc, order, admin, disturbed>>

(* require_authenticated and require_admin let the request of an             *)
(* administrator pass; update_admin_user refuses it on himself, finds the row *)
(* and compares its flag with the one asked for.                             *)
UpdateAdminUser(r, by, o) ==
  /\ pc[r] = "idle"
  /\ by \in session /\ role[by] = Administrator
  /\ o.target \in rows /\ o.target # by
  /\ Goto(r, "begun")
  /\ order' = [order EXCEPT ![r] =
                 [o EXCEPT !.wish = IF (o.wish = "on") = (o.target \in active) THEN "none" ELSE o.wish]]
  /\ UNCHANGED <<rows, active, role, session, admin, disturbed>>

(* deactivate_user: an account that is active, and whether it administers.    *)
FindTarget(r) ==
  LET u == order[r].target IN
  /\ pc[r] = "begun" /\ order[r].wish = "off"
  /\ u \in active
  /\ Goto(r, "found")
  /\ admin' = IF role[u] = Administrator THEN admin \cup {r} ELSE admin
  /\ UNCHANGED <<rows, active, role, session, order, disturbed>>

(* Mutant: the count includes nobody's successor.                            *)
SomebodyLeft == Cardinality(ActiveAdmins) >= 1

(* The active administrators are counted.                                    *)
OthersLeft == Cardinality(ActiveAdmins) > 1

CountAdmins(r) ==
  /\ pc[r] = "found"
  /\ r \in admin => OthersLeft
  /\ Goto(r, "cleared")
  /\ UNCHANGED <<rows, active, role, session, order, admin, disturbed>>

(* The write.  With a second factor its removal ends the target's sessions,    *)
(* without one they live on.                                                 *)
SwitchOff(r) ==
  LET u == order[r].target IN
  /\ pc[r] = "cleared"
  /\ active' = active \ {u}
  /\ session' \in {session, session \ {u}}
  /\ Goto(r, "editing")
  /\ UNCHANGED <<rows, role, order, admin>>
  /\ Disturb({r})

(* reactivate_user.                                                          *)
SwitchOn(r) ==
  LET u == order[r].target IN
  /\ pc[r] = "begun" /\ order[r].wish = "on"
  /\ u \notin active
  /\ active' = active \cup {u}
  /\ Goto(r, "editing")
  /\ UNCHANGED <<rows, role, session, order, admin>>
  /\ Disturb({r})

NothingToSwitch(r) ==
  /\ pc[r] = "begun" /\ order[r].wish = "none"
  /\ Goto(r, "editing")
  /\ UNCHANGED <<rows, active, role, session, order, admin, disturbed>>

(* A new password for the target ends its sessions.                          *)
AssignPassword(r) ==
  /\ pc[r] = "editing"
  /\ session' = session \ {order[r].target}
  /\ UNCHANGED <<rows, active, role, pc, order, admin, disturbed>>

(* The remaining columns, the role among them.                               *)
WriteRole(r) ==
  LET o == order[r] IN
  /\ pc[r] = "editing"
  /\ role' = IF o.role = None THEN role ELSE [role EXCEPT ![o.target] = o.role]
  /\ Answer(r)
  /\ UNCHANGED <<rows, active, session>>
  /\ Disturb({r})

(* "User is already deactivated", "already active", "the last active          *)
(* administrator"; a password or a role that is refused, after the flag has   *)
(* been switched; a dropped handler.                                         *)
Refuse(r) ==
  /\ pc[r] # "idle"
  /\ Answer(r)
  /\ disturbed' = disturbed \ {r}
  /\ UNCHANGED <<rows, active, role, session>>

-----------------------------------------------------------------------------
Serve(r) == \/ FindTarget(r) \/ CountAdmins(r) \/ SwitchOff(r) \/ SwitchOn(r) \/ NothingToSwitch(r)
            \/ AssignPassword(r) \/ WriteRole(r) \/ Refuse(r)
            \/ \E by \in User, o \in Order : UpdateAdminUser(r, by, o)

Next == \/ \E r \in Request : Serve(r)
        \/ \E u \in User : SignIn(u) \/ SessionEnds(u) \/ \E ro \in Role : CreateUser(u, ro)

Spec == Init /\ [][Next]_vars

-----------------------------------------------------------------------------
Demotes(r) == WriteRole(r) /\ order[r].role \notin {None, Administrator}

(* "Cannot deactivate [...] the last active admin" (deactivate_user): the      *)
(* active administrators only come to an end in two ways, by a change of role, *)
(* which nothing guards, or by a deactivation during whose count and write     *)
(* another request changed who administers.                                  *)
AdministratorsRemain ==
  [][ActiveAdmins # {} /\ ActiveAdmins' = {} =>
       \E r \in Request : Demotes(r) \/ (SwitchOff(r) /\ r \in disturbed)]_vars
=============================================================================
