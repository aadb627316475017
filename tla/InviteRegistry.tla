--------------------------- MODULE InviteRegistry ---------------------------
(***************************************************************************)
(* What the invite system promises, without its tables, requests or locks:  *)
(* an invite is handed out once, it is redeemed at most once, and redeeming *)
(* it is what turns one account, which was not live before, into a live     *)
(* one.  An account may also come alive without any invite, through the     *)
(* bootstrap registration.  Invites.tla implements this specification.      *)
(***************************************************************************)
CONSTANTS Invite, User, None

VARIABLES issued,  \* the invites handed out so far
          holder,  \* the account each invite brought alive, or None
          live     \* the accounts that can establish a session

vars == <<issued, holder, live>>

Init ==
  /\ issued = {}
  /\ holder = [i \in Invite |-> None]
  /\ live = {}

Issue(i) ==
  /\ i \notin issued
  /\ issued' = issued \cup {i}
  /\ UNCHANGED <<holder, live>>

Redeem(i, u) ==
  /\ i \in issued
  /\ holder[i] = None
  /\ u \notin live
  /\ holder' = [holder EXCEPT ![i] = u]
  /\ live' = live \cup {u}
  /\ UNCHANGED issued

Enrol(u) ==
  /\ u \notin live
  /\ live' = live \cup {u}
  /\ UNCHANGED <<issued, holder>>

Next ==
  \/ \E i \in Invite : Issue(i)
  \/ \E i \in Invite, u \in User : Redeem(i, u)
  \/ \E u \in User : Enrol(u)

Spec == Init /\ [][Next]_vars
=============================================================================
