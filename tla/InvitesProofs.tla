--------------------------- MODULE InvitesProofs ---------------------------
(***************************************************************************)
(* Invites.tla keeps its promises for every set of invites, accounts,       *)
(* addresses and requests.  SingleUse alone is not inductive: that a commit *)
(* may consume an invite rests on the row lock it holds (LockInv), on what  *)
(* the request read earlier being still true of the columns no step rewrites*)
(* (ClaimInv), and on rows pointing only at issued invites (RowInv).        *)
(***************************************************************************)
EXTENDS Invites, TLAPS

LockInv ==
  \A r \in Request :
    /\ pc[r] = "locked" => lock[claim[r].inv] = r /\ usedBy[claim[r].inv] = None
    /\ \A i \in Invite : lock[i] = r => pc[r] = "locked" /\ claim[r].inv = i

ClaimInv ==
  \A r \in Request : pc[r] # "idle" =>
    /\ claim[r].inv \in issued
    /\ claim[r].email \in Email
    /\ pc[r] = "validated" => claim[r].row = None
    /\ pc[r] # "validated" /\ claim[r].row = None => hint[claim[r].inv] = None
    /\ claim[r].row # None => inviteOf[claim[r].row] = claim[r].inv

RowInv ==
  \A u \in User :
    /\ inviteOf[u] # None => /\ inviteOf[u] \in issued
                              /\ Exists(u)
                              /\ hint[inviteOf[u]] \in {None, email[u]}
    /\ u \in activated => Exists(u)

IInv == TypeOK /\ LockInv /\ ClaimInv /\ RowInv /\ SingleUse /\ InertRowsRedeemable

(* The initial state: nothing issued, nobody there.                          *)
LEMMA InitIInv == Init => IInv
  BY NoneIsNoValue, TiersAreRoles
  DEF Init, IInv, TypeOK, LockInv, ClaimInv, RowInv, SingleUse, InertRowsRedeemable,
      Exists, NoClaim, Claim, Credential

(* Every column keeps its type: an action writes an id where an id belongs.  *)
LEMMA TypePreserved == ASSUME TypeOK, [Next]_vars PROVE TypeOK'
<1> USE NoneIsNoValue, TiersAreRoles DEF TypeOK
<1>1. ASSUME NEW i \in Invite, NEW h \in Email \cup {None}, CreateInvite(i, h)
      PROVE  TypeOK'
  BY <1>1 DEF CreateInvite, IssueInvite, userTable, config, requests
<1>2. ASSUME NEW u \in User, NEW i \in Invite, NEW e \in Email, NEW ro \in Role,
             CreateAdminUser(u, i, e, ro)
      PROVE  TypeOK'
  BY <1>2 DEF CreateAdminUser, IssueInvite, InsertUser, config, requests, Credential
<1>3. ASSUME NEW u \in User, NEW e \in Email, Register(u, e)
      PROVE  TypeOK'
  BY <1>3 DEF Register, InsertUser, inviteTable, config, requests, Credential
<1>4. ASSUME NEW i \in Invite, RevokeRead(i) \/ RevokeWrite(i) \/ Expire(i)
      PROVE  TypeOK'
  BY <1>4 DEF RevokeRead, RevokeWrite, Expire, inviteTable, userTable, config, requests
<1>5. ASSUME NEW b \in BOOLEAN, SetInvitesEnabled(b)
      PROVE  TypeOK'
  BY <1>5 DEF SetInvitesEnabled, inviteTable, userTable, requests
<1>6. ASSUME NEW b \in BOOLEAN, Restart(b)
      PROVE  TypeOK'
  BY <1>6 DEF Restart, inviteTable, userTable, NoClaim, Claim
<1>7. ASSUME NEW u \in User, SetPassword(u) \/ Deactivate(u) \/ Reactivate(u)
      PROVE  TypeOK'
  BY <1>7 DEF SetPassword, Deactivate, Reactivate, Credential, inviteTable, config, requests
<1>8. ASSUME NEW u \in User, NEW ro \in Role, ChangeRole(u, ro)
      PROVE  TypeOK'
  BY <1>8 DEF ChangeRole, inviteTable, config, requests
<1>9. ASSUME NEW r \in Request, NEW i \in Invite, NEW e \in Email, AcceptPassword(r, i, e)
      PROVE  TypeOK'
  BY <1>9 DEF AcceptPassword, Begin, NoClaim, Claim, inviteTable, userTable, config
<1>10. ASSUME NEW r \in Request, NEW i \in Invite, NEW e \in Email, NEW s \in Sub,
              NEW t \in Role, OidcCallback(r, i, e, s, t)
       PROVE  TypeOK'
  BY <1>10 DEF OidcCallback, Begin, NoClaim, Claim, inviteTable, userTable, config
<1>11. ASSUME NEW r \in Request, NEW u \in User, PrepareBind(r, u)
       PROVE  TypeOK'
  <2>1. claim[r] \in Claim
    OBVIOUS
  <2>2. [claim[r] EXCEPT !.row = u] \in Claim
    BY <2>1 DEF Claim
  <2>3. claim' \in [Request -> Claim]
    BY <1>11, <2>2 DEF PrepareBind
  <2>4. pc' \in [Request -> {"idle", "validated", "prepared", "locked"}]
    BY <1>11 DEF PrepareBind
  <2> QED
    BY <1>11, <2>3, <2>4 DEF PrepareBind, inviteTable, userTable, config
<1>12. ASSUME NEW r \in Request, PrepareMint(r) \/ LockInvite(r)
       PROVE  TypeOK'
  BY <1>12 DEF PrepareMint, LockInvite, Lockable, Claim, inviteTable, userTable, config
<1>13. ASSUME NEW r \in Request, CommitBind(r)
       PROVE  TypeOK'
  BY <1>13 DEF CommitBind, MarkUsed, Finish, ViaOidc, Claim, NoClaim, Credential, config
<1>14. ASSUME NEW r \in Request, NEW u \in User, CommitMint(r, u)
       PROVE  TypeOK'
  <2>1. claim[r] \in Claim
    OBVIOUS
  <2>2. email' = [email EXCEPT ![u] = claim[r].email] /\ sub' = [sub EXCEPT ![u] = claim[r].sub]
    BY <1>14 DEF CommitMint, InsertUser
  <2>3. email' \in [User -> Email \cup {None}] /\ sub' \in [User -> Sub \cup {None}]
    BY <2>1, <2>2 DEF Claim
  <2>4. usedBy' \in [Invite -> User \cup {None}] /\ inviteOf' \in [User -> Invite \cup {None}]
    BY <1>14, <2>1 DEF CommitMint, MarkUsed, InsertUser, Claim
  <2>5. credential' \in [User -> Credential] /\ role' \in [User -> Role \cup {None}]
    BY <1>14 DEF CommitMint, InsertUser, Credential
  <2>6. /\ pc' \in [Request -> {"idle", "validated", "prepared", "locked"}]
        /\ claim' \in [Request -> Claim]
        /\ lock' \in [Invite -> Request \cup {None}]
    BY <1>14 DEF CommitMint, Finish, NoClaim, Claim
  <2> QED
    BY <1>14, <2>3, <2>4, <2>5, <2>6 DEF CommitMint, MarkUsed, InsertUser, config
<1>15. ASSUME NEW r \in Request, Reject(r) \/ Abort(r)
       PROVE  TypeOK'
  <2>1. Finish(r) /\ UNCHANGED <<inviteTable, userTable, config, revoking>>
    BY <1>15 DEF Reject, Abort
  <2>2. NoClaim \in Claim
    BY DEF NoClaim, Claim
  <2> QED
    BY <2>1, <2>2 DEF Finish, inviteTable, userTable, config
<1>16. CASE UNCHANGED vars
  BY <1>16 DEF vars, inviteTable, userTable, config, requests
<1> QED
  BY <1>1, <1>2, <1>3, <1>4, <1>5, <1>6, <1>7, <1>8, <1>9, <1>10, <1>11, <1>12, <1>13,
     <1>14, <1>15, <1>16 DEF Next, Accept

(* The columns the invariant speaks of, when a step leaves them all alone.   *)
core == <<issued, hint, usedBy, email, inviteOf, activated, pc, claim, lock>>

LEMMA CoreUnchanged ==
  ASSUME IInv, TypeOK', UNCHANGED core
  PROVE  IInv'
  BY DEF core, IInv, LockInv, ClaimInv, RowInv, SingleUse, InertRowsRedeemable, Exists

(* Issuing an invite, with or without an inert account to go with it: the    *)
(* invite is new, so no row, request or lock can already refer to it.        *)
LEMMA FreshInvite ==
  ASSUME IInv, NEW i \in Invite, NEW h \in Email \cup {None}, IssueInvite(i, h)
  PROVE  /\ issued' = issued \cup {i} /\ hint'[i] = h /\ usedBy' = usedBy
         /\ \A j \in Invite \ {i} : hint'[j] = hint[j]
         /\ usedBy[i] = None
         /\ \A v \in User : inviteOf[v] # i
         /\ \A r \in Request : pc[r] # "idle" => claim[r].inv \in Invite \ {i}
<1> USE NoneIsNoValue DEF IInv
<1>1. /\ i \notin issued /\ issued' = issued \cup {i} /\ usedBy' = usedBy
      /\ hint'[i] = h /\ \A j \in Invite \ {i} : hint'[j] = hint[j]
  BY DEF IssueInvite, TypeOK
<1>2. \A v \in User : inviteOf[v] # i
  BY <1>1 DEF RowInv
<1>3. usedBy[i] = None
  BY <1>2 DEF SingleUse, TypeOK
<1>4. \A r \in Request : pc[r] # "idle" => claim[r].inv \in Invite \ {i}
  BY <1>1 DEF ClaimInv, TypeOK
<1> QED
  BY <1>1, <1>2, <1>3, <1>4

LEMMA CreateInvitePreserves ==
  ASSUME IInv, TypeOK', NEW i \in Invite, NEW h \in Email \cup {None}, CreateInvite(i, h)
  PROVE  IInv'
<1> USE NoneIsNoValue DEF IInv
<1>1. /\ IssueInvite(i, h)
      /\ UNCHANGED <<email, inviteOf, activated, pc, claim, lock>>
  BY DEF CreateInvite, userTable, requests
<1>2. LockInv'
  BY <1>1, FreshInvite DEF LockInv
<1>3. ClaimInv'
  BY <1>1, FreshInvite DEF ClaimInv
<1>4. RowInv' /\ InertRowsRedeemable'
  <2>1. \A v \in User : inviteOf[v] # None => inviteOf[v] \in Invite \ {i}
    BY <1>1, FreshInvite DEF TypeOK
  <2> QED
    BY <1>1, <2>1, FreshInvite DEF RowInv, InertRowsRedeemable, Exists
<1>5. SingleUse'
  BY <1>1, FreshInvite DEF SingleUse
<1> QED
  BY <1>2, <1>3, <1>4, <1>5

LEMMA CreateAdminUserPreserves ==
  ASSUME IInv, TypeOK', NEW u \in User, NEW i \in Invite, NEW e \in Email, NEW ro \in Role,
         CreateAdminUser(u, i, e, ro)
  PROVE  IInv'
<1> USE NoneIsNoValue DEF IInv
<1>1. /\ IssueInvite(i, e)
      /\ email[u] = None
      /\ email' = [email EXCEPT ![u] = e]
      /\ inviteOf' = [inviteOf EXCEPT ![u] = i]
      /\ UNCHANGED <<activated, pc, claim, lock>>
  BY DEF CreateAdminUser, InsertUser, Exists, requests
<1>2. inviteOf[u] = None /\ u \notin activated
  BY <1>1 DEF RowInv, Exists
<1>3. /\ email'[u] = e /\ inviteOf'[u] = i
      /\ \A v \in User \ {u} : email'[v] = email[v] /\ inviteOf'[v] = inviteOf[v]
      /\ \A v \in User : inviteOf[v] # None => inviteOf[v] \in Invite \ {i}
  BY <1>1, FreshInvite DEF TypeOK
<1>4. \A r \in Request : pc[r] # "idle" /\ claim[r].row # None => claim[r].row \in User \ {u}
  BY <1>1, <1>2, FreshInvite DEF ClaimInv, TypeOK, Claim
<1>5. LockInv'
  BY <1>1, FreshInvite DEF LockInv
<1>6. ClaimInv'
  BY <1>1, <1>3, <1>4, FreshInvite DEF ClaimInv
<1>7. RowInv'
  BY <1>1, <1>3, FreshInvite DEF RowInv, Exists
<1>8. SingleUse'
  BY <1>1, <1>2, <1>3, FreshInvite DEF SingleUse
<1>9. InertRowsRedeemable'
  BY <1>1, <1>3, FreshInvite DEF InertRowsRedeemable, Exists
<1> QED
  BY <1>5, <1>6, <1>7, <1>8, <1>9

(* Registration adds an activated row that no invite has to do with.         *)
LEMMA RegisterPreserves ==
  ASSUME IInv, TypeOK', NEW u \in User, NEW e \in Email, Register(u, e)
  PROVE  IInv'
<1> USE NoneIsNoValue DEF IInv
<1>1. /\ email[u] = None
      /\ email' = [email EXCEPT ![u] = e]
      /\ inviteOf' = [inviteOf EXCEPT ![u] = None]
      /\ activated' = activated \cup {u}
      /\ UNCHANGED <<issued, hint, usedBy, pc, claim, lock>>
  BY DEF Register, InsertUser, Exists, inviteTable, requests
<1>2. inviteOf[u] = None /\ u \notin activated
  BY <1>1 DEF RowInv, Exists
<1>3. email \in [User -> Email \cup {None}] /\ inviteOf' = inviteOf
  BY <1>1, <1>2 DEF TypeOK
<1>4. LockInv' /\ ClaimInv'
  BY <1>1, <1>3 DEF LockInv, ClaimInv
<1>5. RowInv' /\ SingleUse' /\ InertRowsRedeemable'
  BY <1>1, <1>2, <1>3 DEF RowInv, SingleUse, InertRowsRedeemable, Exists
<1> QED
  BY <1>4, <1>5

(* A restart drops every request and with it every lock; no row is touched.  *)
LEMMA RestartPreserves ==
  ASSUME IInv, TypeOK', NEW b \in BOOLEAN, Restart(b)
  PROVE  IInv'
<1>1. /\ UNCHANGED <<issued, hint, usedBy, email, inviteOf, activated>>
      /\ \A r \in Request : pc'[r] = "idle"
      /\ \A i \in Invite : lock'[i] = None
  BY DEF Restart, inviteTable, userTable
<1> QED
  BY <1>1, NoneIsNoValue
  DEF IInv, LockInv, ClaimInv, RowInv, SingleUse, InertRowsRedeemable, Exists

(* The steps of a request before its lock read the tables and write none.    *)
LEMMA BeginPreserves ==
  ASSUME IInv, TypeOK', NEW r \in Request, NEW c \in Claim,
         c.inv \in Invite, c.email \in Email, c.row = None, Begin(r, c)
  PROVE  IInv'
<1> USE NoneIsNoValue DEF IInv
<1>1. /\ pc[r] = "idle" /\ c.inv \in issued
      /\ pc' = [pc EXCEPT ![r] = "validated"]
      /\ claim' = [claim EXCEPT ![r] = c]
      /\ UNCHANGED <<issued, hint, usedBy, email, inviteOf, activated, lock>>
  BY DEF Begin, Validate, inviteTable, userTable
<1>2. /\ pc'[r] = "validated" /\ claim'[r] = c
      /\ \A q \in Request \ {r} : pc'[q] = pc[q] /\ claim'[q] = claim[q]
  BY <1>1 DEF TypeOK
<1>3. LockInv'
  BY <1>1, <1>2 DEF LockInv
<1>4. ClaimInv'
  BY <1>1, <1>2 DEF ClaimInv
<1> QED
  BY <1>1, <1>3, <1>4 DEF RowInv, SingleUse, InertRowsRedeemable, Exists

LEMMA PreparePreserves ==
  ASSUME IInv, TypeOK', NEW r \in Request, NEW w \in User \cup {None}, pc[r] = "validated",
         pc' = [pc EXCEPT ![r] = "prepared"],
         claim' = [claim EXCEPT ![r].row = w],
         w = None => hint[claim[r].inv] = None,
         w # None => inviteOf[w] = claim[r].inv,
         UNCHANGED <<issued, hint, usedBy, email, inviteOf, activated, lock>>
  PROVE  IInv'
<1> USE NoneIsNoValue DEF IInv
<1>1. claim[r] \in Claim /\ claim'[r] = [claim[r] EXCEPT !.row = w]
  BY DEF TypeOK
<1>2. claim'[r].inv = claim[r].inv /\ claim'[r].email = claim[r].email /\ claim'[r].row = w
  BY <1>1 DEF Claim
<1>3. /\ pc'[r] = "prepared"
      /\ \A q \in Request \ {r} : pc'[q] = pc[q] /\ claim'[q] = claim[q]
  BY DEF TypeOK
<1>4. LockInv'
  BY <1>2, <1>3 DEF LockInv
<1>5. ClaimInv'
  BY <1>2, <1>3 DEF ClaimInv
<1> QED
  BY <1>4, <1>5 DEF RowInv, SingleUse, InertRowsRedeemable, Exists

(* Taking the lock is where an unused invite is established for good.        *)
LEMMA LockPreserves ==
  ASSUME IInv, TypeOK', NEW r \in Request, LockInvite(r)
  PROVE  IInv'
<1> USE NoneIsNoValue DEF IInv
<1> DEFINE i == claim[r].inv
<1>1. /\ pc[r] = "prepared" /\ lock[i] = None /\ usedBy[i] = None
      /\ pc' = [pc EXCEPT ![r] = "locked"]
      /\ lock' = [lock EXCEPT ![i] = r]
      /\ UNCHANGED <<issued, hint, usedBy, email, inviteOf, activated, claim>>
  BY DEF LockInvite, Lockable, inviteTable, userTable
<1>2. i \in Invite
  BY <1>1 DEF ClaimInv, TypeOK
<1>3. /\ pc'[r] = "locked" /\ lock'[i] = r
      /\ \A q \in Request \ {r} : pc'[q] = pc[q]
      /\ \A j \in Invite \ {i} : lock'[j] = lock[j]
  BY <1>1, <1>2 DEF TypeOK
<1>4. LockInv'
  <2>1. \A q \in Request \ {r} : pc[q] = "locked" => claim[q].inv # i
    BY <1>1 DEF LockInv
  <2>2. \A q \in Request \ {r} : pc[q] = "locked" => claim[q].inv \in Invite
    BY DEF ClaimInv, TypeOK
  <2>3. \A j \in Invite : lock[j] # r
    BY <1>1 DEF LockInv
  <2> QED
    BY <1>1, <1>2, <1>3, <2>1, <2>2, <2>3 DEF LockInv
<1>5. ClaimInv'
  BY <1>1, <1>3 DEF ClaimInv
<1> QED
  BY <1>1, <1>4, <1>5 DEF RowInv, SingleUse, InertRowsRedeemable, Exists

(* Ending a request gives up its lock and leaves the other requests alone.   *)
LEMMA FinishEnds ==
  ASSUME TypeOK, LockInv, NEW r \in Request, Finish(r)
  PROVE  /\ pc'[r] = "idle"
         /\ \A q \in Request \ {r} : pc'[q] = pc[q] /\ claim'[q] = claim[q]
         /\ \A i \in Invite : lock'[i] # r
         /\ \A i \in Invite, q \in Request \ {r} : lock'[i] = q <=> lock[i] = q
  BY NoneIsNoValue DEF TypeOK, Finish

LEMMA EndPreserves ==
  ASSUME IInv, TypeOK', NEW r \in Request, Reject(r) \/ Abort(r)
  PROVE  IInv'
<1> USE NoneIsNoValue DEF IInv
<1>1. /\ Finish(r)
      /\ UNCHANGED <<issued, hint, usedBy, email, inviteOf, activated>>
  BY DEF Reject, Abort, inviteTable, userTable
<1>2. \A q \in Request : pc[q] # "idle" => claim[q].inv \in Invite
  BY DEF ClaimInv, TypeOK
<1>3. LockInv' /\ ClaimInv'
  BY <1>1, <1>2, FinishEnds DEF LockInv, ClaimInv
<1> QED
  BY <1>1, <1>3 DEF RowInv, SingleUse, InertRowsRedeemable, Exists

-----------------------------------------------------------------------------
(* A commit.  The lock says the invite is unused; so the row it activates is *)
(* inert, and is the only one that can hang on this invite.                  *)
LEMMA CommitBindPreserves ==
  ASSUME IInv, TypeOK', NEW r \in Request, CommitBind(r)
  PROVE  /\ IInv'
         /\ Registry!Redeem(claim[r].inv, claim[r].row)
<1> USE NoneIsNoValue DEF IInv
<1> DEFINE i == claim[r].inv
           u == claim[r].row
<1>1. /\ pc[r] = "locked" /\ u # None
      /\ activated' = activated \cup {u}
      /\ usedBy' = [usedBy EXCEPT ![i] = u]
      /\ UNCHANGED <<issued, hint, email, inviteOf>>
      /\ Finish(r)
  BY DEF CommitBind, MarkUsed
<1>2. i \in Invite /\ i \in issued /\ u \in User
  BY <1>1 DEF ClaimInv, TypeOK, Claim
<1>3. usedBy[i] = None /\ inviteOf[u] = i
  BY <1>1 DEF LockInv, ClaimInv
<1>4. u \notin activated /\ Exists(u)
  BY <1>2, <1>3 DEF SingleUse, RowInv
<1>5. usedBy'[i] = u /\ \A j \in Invite \ {i} : usedBy'[j] = usedBy[j]
  BY <1>1, <1>2 DEF TypeOK
<1>6. \A q \in Request \ {r} : pc[q] = "locked" => claim[q].inv # i
  BY <1>1 DEF LockInv
<1>7. \A q \in Request : pc[q] # "idle" => claim[q].inv \in Invite
  BY DEF ClaimInv, TypeOK
<1>8. LockInv' /\ ClaimInv'
  BY <1>1, <1>5, <1>6, <1>7, FinishEnds DEF LockInv, ClaimInv
<1>9. RowInv'
  BY <1>1, <1>4 DEF RowInv, Exists
<1>10. SingleUse'
  <2>1. \A v \in User : inviteOf[v] = i => v = u
    BY <1>2, <1>3 DEF SingleUse
  <2>2. \A v \in User : inviteOf[v] \in Invite \cup {None}
    BY DEF TypeOK
  <2> QED
    BY <1>1, <1>2, <1>3, <1>5, <2>1, <2>2 DEF SingleUse
<1>11. InertRowsRedeemable'
  <2> SUFFICES ASSUME NEW v \in User, Exists(v), v \notin activated'
               PROVE  /\ inviteOf[v] # None
                      /\ usedBy'[inviteOf[v]] = None
                      /\ hint[inviteOf[v]] = email[v]
    BY <1>1 DEF InertRowsRedeemable, Exists
  <2>1. v # u /\ v \notin activated
    BY <1>1
  <2>2. inviteOf[v] # None /\ usedBy[inviteOf[v]] = None /\ hint[inviteOf[v]] = email[v]
    BY <2>1 DEF InertRowsRedeemable
  <2>3. inviteOf[v] \in Invite /\ inviteOf[v] # i
    BY <1>2, <1>3, <2>1, <2>2 DEF SingleUse, TypeOK
  <2> QED
    BY <1>5, <2>2, <2>3
<1>12. Registry!Redeem(i, u)
  BY <1>1, <1>2, <1>3, <1>4 DEF Registry!Redeem
<1> QED
  BY <1>8, <1>9, <1>10, <1>11, <1>12

LEMMA CommitMintPreserves ==
  ASSUME IInv, TypeOK', NEW r \in Request, NEW u \in User, CommitMint(r, u)
  PROVE  /\ IInv'
         /\ Registry!Redeem(claim[r].inv, u)
<1> USE NoneIsNoValue DEF IInv
<1> DEFINE i == claim[r].inv
<1>1. /\ pc[r] = "locked" /\ claim[r].row = None /\ email[u] = None
      /\ email' = [email EXCEPT ![u] = claim[r].email]
      /\ inviteOf' = [inviteOf EXCEPT ![u] = i]
      /\ activated' = activated \cup {u}
      /\ usedBy' = [usedBy EXCEPT ![i] = u]
      /\ UNCHANGED <<issued, hint>>
      /\ Finish(r)
  BY DEF CommitMint, InsertUser, MarkUsed, Exists
<1>2. i \in Invite /\ i \in issued /\ hint[i] = None /\ claim[r].email \in Email
  BY <1>1 DEF ClaimInv, TypeOK
<1>3. usedBy[i] = None
  BY <1>1 DEF LockInv
<1>4. u \notin activated /\ inviteOf[u] = None
  BY <1>1 DEF RowInv, Exists
<1>5. \A v \in User : inviteOf[v] # i
  <2> SUFFICES ASSUME NEW v \in User, inviteOf[v] = i PROVE FALSE
    OBVIOUS
  <2>1. v \notin activated
    BY <1>2, <1>3 DEF SingleUse
  <2>2. Exists(v)
    BY <1>2 DEF RowInv
  <2>3. hint[i] = email[v]
    BY <2>1, <2>2 DEF InertRowsRedeemable
  <2> QED
    BY <1>2, <2>2, <2>3 DEF Exists
<1>6. /\ usedBy'[i] = u /\ \A j \in Invite \ {i} : usedBy'[j] = usedBy[j]
      /\ inviteOf'[u] = i /\ \A v \in User \ {u} : inviteOf'[v] = inviteOf[v]
      /\ email'[u] = claim[r].email /\ \A v \in User \ {u} : email'[v] = email[v]
  BY <1>1, <1>2 DEF TypeOK
<1>7. \A q \in Request \ {r} : pc[q] = "locked" => claim[q].inv # i
  BY <1>1 DEF LockInv
<1>8. \A q \in Request : pc[q] # "idle" =>
        /\ claim[q].inv \in Invite
        /\ claim[q].row # None => claim[q].row \in User \ {u}
  BY <1>4 DEF ClaimInv, TypeOK, Claim
<1>9. LockInv'
  BY <1>1, <1>6, <1>7, <1>8, FinishEnds DEF LockInv
<1>10. ClaimInv'
  BY <1>1, <1>6, <1>8, FinishEnds DEF ClaimInv
<1>11. RowInv'
  BY <1>1, <1>2, <1>6 DEF RowInv, Exists
<1>12. SingleUse'
  <2>1. \A v \in User : inviteOf[v] \in Invite \cup {None}
    BY DEF TypeOK
  <2> QED
    BY <1>1, <1>2, <1>4, <1>5, <1>6, <2>1 DEF SingleUse
<1>13. InertRowsRedeemable'
  <2> SUFFICES ASSUME NEW v \in User, Exists(v)', v \notin activated'
               PROVE  /\ inviteOf'[v] # None
                      /\ usedBy'[inviteOf'[v]] = None
                      /\ hint[inviteOf'[v]] = email'[v]
    BY <1>1 DEF InertRowsRedeemable
  <2>1. v # u /\ v \notin activated /\ Exists(v)
    BY <1>1, <1>6 DEF Exists
  <2>2. inviteOf[v] # None /\ usedBy[inviteOf[v]] = None /\ hint[inviteOf[v]] = email[v]
    BY <2>1 DEF InertRowsRedeemable
  <2>3. inviteOf[v] \in Invite \ {i}
    BY <1>5, <2>2 DEF TypeOK
  <2> QED
    BY <1>6, <2>1, <2>2, <2>3
<1>14. Registry!Redeem(i, u)
  BY <1>1, <1>2, <1>3, <1>4 DEF Registry!Redeem
<1> QED
  BY <1>9, <1>10, <1>11, <1>12, <1>13, <1>14

-----------------------------------------------------------------------------
(* Every step keeps the invariant.                                           *)
LEMMA NextPreserves == ASSUME IInv, [Next]_vars PROVE IInv'
<1>1. TypeOK'
  BY TypePreserved DEF IInv
<1>2. ASSUME NEW i \in Invite, NEW h \in Email \cup {None}, CreateInvite(i, h)
      PROVE  IInv'
  BY <1>1, <1>2, CreateInvitePreserves
<1>3. ASSUME NEW u \in User, NEW i \in Invite, NEW e \in Email, NEW ro \in Role,
             CreateAdminUser(u, i, e, ro)
      PROVE  IInv'
  BY <1>1, <1>3, CreateAdminUserPreserves
<1>4. ASSUME NEW u \in User, NEW e \in Email, Register(u, e)
      PROVE  IInv'
  BY <1>1, <1>4, RegisterPreserves
<1>5. ASSUME NEW i \in Invite, RevokeRead(i) \/ RevokeWrite(i) \/ Expire(i)
      PROVE  IInv'
  BY <1>1, <1>5, CoreUnchanged
  DEF RevokeRead, RevokeWrite, Expire, inviteTable, userTable, requests, core
<1>6. ASSUME NEW b \in BOOLEAN, SetInvitesEnabled(b)
      PROVE  IInv'
  BY <1>1, <1>6, CoreUnchanged DEF SetInvitesEnabled, inviteTable, userTable, requests, core
<1>7. ASSUME NEW b \in BOOLEAN, Restart(b)
      PROVE  IInv'
  BY <1>1, <1>7, RestartPreserves
<1>8. ASSUME NEW u \in User,
             \/ SetPassword(u) \/ Deactivate(u) \/ Reactivate(u)
             \/ \E ro \in Role : ChangeRole(u, ro)
      PROVE  IInv'
  BY <1>1, <1>8, CoreUnchanged
  DEF SetPassword, Deactivate, Reactivate, ChangeRole, inviteTable, requests, core
<1>9. ASSUME NEW r \in Request, NEW i \in Invite, NEW e \in Email, AcceptPassword(r, i, e)
      PROVE  IInv'
  <2> DEFINE c == [NoClaim EXCEPT !.inv = i, !.email = e]
  <2>1. c \in Claim /\ c.inv \in Invite /\ c.email \in Email /\ c.row = None /\ Begin(r, c)
    BY <1>9 DEF AcceptPassword, NoClaim, Claim
  <2> HIDE DEF c
  <2> QED
    BY <1>1, <2>1, BeginPreserves
<1>10. ASSUME NEW r \in Request, NEW i \in Invite, NEW e \in Email, NEW s \in Sub,
              NEW t \in Role, OidcCallback(r, i, e, s, t)
       PROVE  IInv'
  <2> DEFINE c == [NoClaim EXCEPT !.inv = i, !.email = e, !.sub = s, !.tier = t]
  <2>1. c \in Claim /\ c.inv \in Invite /\ c.email \in Email /\ c.row = None /\ Begin(r, c)
    BY <1>10 DEF OidcCallback, NoClaim, Claim
  <2> HIDE DEF c
  <2> QED
    BY <1>1, <2>1, BeginPreserves
<1>11. ASSUME NEW r \in Request, NEW u \in User, PrepareBind(r, u)
       PROVE  IInv'
  BY <1>1, <1>11, PreparePreserves, NoneIsNoValue
  DEF PrepareBind, Bindable, inviteTable, userTable
<1>12. ASSUME NEW r \in Request, PrepareMint(r)
       PROVE  IInv'
  <2>1. pc[r] = "validated" /\ claim[r].row = None /\ claim[r] \in Claim
    BY <1>12 DEF PrepareMint, IInv, ClaimInv, TypeOK
  <2>2. [claim[r] EXCEPT !.row = None] = claim[r]
    BY <2>1 DEF Claim
  <2>3. claim' = [claim EXCEPT ![r].row = None]
    BY <1>12, <2>2 DEF PrepareMint, IInv, TypeOK
  <2> QED
    BY <1>1, <1>12, <2>3, PreparePreserves DEF PrepareMint, Mintable, inviteTable, userTable
<1>13. ASSUME NEW r \in Request, LockInvite(r)
       PROVE  IInv'
  BY <1>1, <1>13, LockPreserves
<1>14. ASSUME NEW r \in Request, CommitBind(r)
       PROVE  IInv'
  BY <1>1, <1>14, CommitBindPreserves
<1>15. ASSUME NEW r \in Request, NEW u \in User, CommitMint(r, u)
       PROVE  IInv'
  BY <1>1, <1>15, CommitMintPreserves
<1>16. ASSUME NEW r \in Request, Reject(r) \/ Abort(r)
       PROVE  IInv'
  BY <1>1, <1>16, EndPreserves
<1>17. CASE UNCHANGED vars
  BY <1>1, <1>17, CoreUnchanged DEF vars, inviteTable, userTable, requests, core
<1>18. CASE Next
  BY <1>2, <1>3, <1>4, <1>5, <1>6, <1>7, <1>8, <1>9, <1>10, <1>11, <1>12, <1>13, <1>14,
     <1>15, <1>16, <1>18 DEF Next, Accept
<1> QED
  BY <1>17, <1>18

(* The inductive invariant holds throughout.                                 *)
THEOREM Invariance == Spec => []IInv
  BY InitIInv, NextPreserves, PTL DEF Spec

(* Every column keeps its type.                                              *)
THEOREM TypeCorrect == Spec => []TypeOK
<1>1. IInv => TypeOK
  BY DEF IInv
<1> QED
  BY <1>1, Invariance, PTL

(* Two requests never redeem one invite, and an account comes alive through  *)
(* its own invite only.                                                      *)
THEOREM InviteIsSingleUse == Spec => []SingleUse
<1>1. IInv => SingleUse
  BY DEF IInv
<1> QED
  BY <1>1, Invariance, PTL

(* No failure between two statements strands a pre-provisioned account.      *)
THEOREM InertStaysRedeemable == Spec => []InertRowsRedeemable
<1>1. IInv => InertRowsRedeemable
  BY DEF IInv
<1> QED
  BY <1>1, Invariance, PTL

(* An invite issued for an address brings only that address's account alive. *)
THEOREM HintDecides == Spec => []HintIsKept
<1>1. IInv => HintIsKept
  BY NoneIsNoValue DEF IInv, TypeOK, RowInv, SingleUse, HintIsKept
<1> QED
  BY <1>1, Invariance, PTL

-----------------------------------------------------------------------------
(* A step that rewrites neither usedBy nor activated is, to the registry,    *)
(* the issue of one invite or nothing at all.                                *)
LEMMA QuietSteps ==
  ASSUME IInv, Next, ~ \E r \in Request : CommitBind(r) \/ \E u \in User : CommitMint(r, u),
         ~ \E u \in User, e \in Email : Register(u, e)
  PROVE  [\E i \in Invite : Registry!Issue(i)]_Registry!vars
<1>1. ASSUME NEW i \in Invite, NEW h \in Email \cup {None}, IssueInvite(i, h),
             UNCHANGED activated
      PROVE  Registry!Issue(i)
  BY <1>1 DEF IssueInvite, Registry!Issue
<1>2. ASSUME NEW i \in Invite, NEW h \in Email \cup {None}, CreateInvite(i, h)
      PROVE  Registry!Issue(i)
  BY <1>1, <1>2 DEF CreateInvite, userTable
<1>3. ASSUME NEW u \in User, NEW i \in Invite, NEW e \in Email, NEW ro \in Role,
             CreateAdminUser(u, i, e, ro)
      PROVE  Registry!Issue(i)
  BY <1>1, <1>3 DEF CreateAdminUser
<1>4. ASSUME NEW i \in Invite, RevokeRead(i) \/ RevokeWrite(i) \/ Expire(i)
      PROVE  UNCHANGED Registry!vars
  BY <1>4 DEF RevokeRead, RevokeWrite, Expire, inviteTable, userTable, Registry!vars
<1>5. ASSUME NEW b \in BOOLEAN, SetInvitesEnabled(b) \/ Restart(b)
      PROVE  UNCHANGED Registry!vars
  BY <1>5 DEF SetInvitesEnabled, Restart, inviteTable, userTable, Registry!vars
<1>6. ASSUME NEW u \in User,
             \/ SetPassword(u) \/ Deactivate(u) \/ Reactivate(u)
             \/ \E ro \in Role : ChangeRole(u, ro)
      PROVE  UNCHANGED Registry!vars
  BY <1>6 DEF SetPassword, Deactivate, Reactivate, ChangeRole, inviteTable, Registry!vars
<1>7. ASSUME NEW r \in Request, NEW i \in Invite, NEW e \in Email,
             \/ AcceptPassword(r, i, e)
             \/ \E s \in Sub, t \in Role : OidcCallback(r, i, e, s, t)
      PROVE  UNCHANGED Registry!vars
  BY <1>7 DEF AcceptPassword, OidcCallback, Begin, inviteTable, userTable, Registry!vars
<1>8. ASSUME NEW r \in Request,
             \/ \E u \in User : PrepareBind(r, u)
             \/ PrepareMint(r) \/ LockInvite(r) \/ Reject(r) \/ Abort(r)
      PROVE  UNCHANGED Registry!vars
  BY <1>8 DEF PrepareBind, PrepareMint, LockInvite, Reject, Abort, inviteTable, userTable,
              Registry!vars
<1> QED
  BY <1>2, <1>3, <1>4, <1>5, <1>6, <1>7, <1>8 DEF Next, Accept

(* Every invite is issued once and redeemed at most once, and redeeming it   *)
(* is how its account comes alive: the detailed flows keep that promise.     *)
THEOREM Refinement == Spec => ImplementsRegistry
<1>1. Init => Registry!Init
  BY DEF Init, Registry!Init
<1>2. ASSUME IInv, [Next]_vars PROVE [Registry!Next]_Registry!vars
  <2>1. ASSUME NEW r \in Request, CommitBind(r) PROVE Registry!Next
    <3>1. TypeOK' /\ Registry!Redeem(claim[r].inv, claim[r].row)
      BY <1>2, <2>1, TypePreserved, CommitBindPreserves DEF IInv
    <3>2. claim[r].inv \in Invite /\ claim[r].row \in User
      BY <1>2, <2>1 DEF CommitBind, IInv, ClaimInv, TypeOK, Claim
    <3> QED
      BY <3>1, <3>2 DEF Registry!Next
  <2>2. ASSUME NEW r \in Request, NEW u \in User, CommitMint(r, u) PROVE Registry!Next
    <3>1. TypeOK' /\ Registry!Redeem(claim[r].inv, u)
      BY <1>2, <2>2, TypePreserved, CommitMintPreserves DEF IInv
    <3>2. claim[r].inv \in Invite
      BY <1>2, <2>2 DEF CommitMint, IInv, ClaimInv, TypeOK
    <3> QED
      BY <3>1, <3>2 DEF Registry!Next
  <2>3. ASSUME NEW u \in User, NEW e \in Email, Register(u, e) PROVE Registry!Next
    <3>1. u \notin activated
      BY <1>2, <2>3 DEF Register, InsertUser, IInv, RowInv
    <3>2. Registry!Enrol(u)
      BY <2>3, <3>1 DEF Register, inviteTable, Registry!Enrol
    <3> QED
      BY <3>2 DEF Registry!Next
  <2>4. CASE UNCHANGED vars
    BY <2>4 DEF vars, inviteTable, userTable, Registry!vars
  <2> QED
    BY <1>2, <2>1, <2>2, <2>3, <2>4, QuietSteps DEF Registry!Next
<1> QED
  BY <1>1, <1>2, Invariance, PTL DEF Spec, ImplementsRegistry, Registry!Spec

(* An account that is live keeps its credentials through every acceptance;   *)
(* only a password change writes its hash, and never the other three.        *)
THEOREM CredentialsStay == Spec => CredentialsSettle
<1> DEFINE Same(u) == /\ u \in activated'
                      /\ sub'[u] = sub[u]
                      /\ credential'[u] \in {credential[u], "chosen", "late"}
                      /\ inviteOf'[u] = inviteOf[u]
<1>1. ASSUME IInv, [Next]_vars, NEW u \in activated PROVE Same(u)
  <2> USE DEF IInv
  <2>1. u \in User /\ Exists(u)
    BY <1>1 DEF TypeOK, RowInv
  <2>2. ASSUME NEW v \in User, NEW e, NEW ro, NEW s, NEW c, NEW i, InsertUser(v, e, ro, s, c, i)
        PROVE  sub'[u] = sub[u] /\ credential'[u] = credential[u] /\ inviteOf'[u] = inviteOf[u]
    BY <1>1, <2>1, <2>2 DEF InsertUser, Exists, TypeOK
  <2>3. ASSUME NEW r \in Request, CommitBind(r) PROVE Same(u)
    <3>1. TypeOK' /\ Registry!Redeem(claim[r].inv, claim[r].row)
      BY <1>1, <2>3, TypePreserved, CommitBindPreserves
    <3>2. claim[r].row # u
      BY <1>1, <3>1 DEF Registry!Redeem
    <3> QED
      BY <1>1, <2>1, <2>3, <3>2 DEF CommitBind, TypeOK
  <2>4. ASSUME NEW r \in Request, NEW v \in User, CommitMint(r, v) PROVE Same(u)
    BY <1>1, <2>2, <2>4 DEF CommitMint
  <2>5. ASSUME NEW v \in User, NEW e \in Email, Register(v, e) PROVE Same(u)
    BY <1>1, <2>2, <2>5 DEF Register
  <2>6. ASSUME NEW v \in User, NEW i \in Invite, NEW e \in Email, NEW ro \in Role,
               CreateAdminUser(v, i, e, ro)
        PROVE  Same(u)
    BY <1>1, <2>2, <2>6 DEF CreateAdminUser
  <2>7. ASSUME NEW i \in Invite,
               \/ \E h \in Email \cup {None} : CreateInvite(i, h)
               \/ RevokeRead(i) \/ RevokeWrite(i) \/ Expire(i)
        PROVE  Same(u)
    BY <1>1, <2>7 DEF CreateInvite, RevokeRead, RevokeWrite, Expire, userTable
  <2>8. ASSUME NEW b \in BOOLEAN, SetInvitesEnabled(b) \/ Restart(b) PROVE Same(u)
    BY <1>1, <2>8 DEF SetInvitesEnabled, Restart, userTable
  <2>9. ASSUME NEW v \in User,
               Deactivate(v) \/ Reactivate(v) \/ \E ro \in Role : ChangeRole(v, ro)
        PROVE  Same(u)
    BY <1>1, <2>9 DEF Deactivate, Reactivate, ChangeRole
  <2>10. ASSUME NEW r \in Request, NEW i \in Invite, NEW e \in Email,
                \/ AcceptPassword(r, i, e)
                \/ \E s \in Sub, t \in Role : OidcCallback(r, i, e, s, t)
         PROVE  Same(u)
    BY <1>1, <2>10 DEF AcceptPassword, OidcCallback, Begin, userTable
  <2>11. ASSUME NEW r \in Request,
                \/ \E v \in User : PrepareBind(r, v)
                \/ PrepareMint(r) \/ LockInvite(r) \/ Reject(r) \/ Abort(r)
         PROVE  Same(u)
    BY <1>1, <2>11 DEF PrepareBind, PrepareMint, LockInvite, Reject, Abort, userTable
  <2>12. ASSUME NEW v \in User, SetPassword(v) PROVE Same(u)
    BY <1>1, <2>1, <2>12 DEF SetPassword, TypeOK
  <2>13. CASE UNCHANGED vars
    BY <1>1, <2>13 DEF vars, userTable
  <2> QED
    BY <1>1, <2>3, <2>4, <2>5, <2>6, <2>7, <2>8, <2>9, <2>10, <2>11, <2>12, <2>13 DEF Next, Accept
<1>2. ASSUME IInv, [Next]_vars
      PROVE  [\A u \in activated : /\ u \in activated'
                                   /\ sub'[u] = sub[u]
                                   /\ credential'[u] \in {credential[u], "chosen", "late"}
                                   /\ inviteOf'[u] = inviteOf[u]]_vars
  BY <1>1, <1>2
<1> QED
  BY <1>2, Invariance, PTL DEF Spec, CredentialsSettle

-----------------------------------------------------------------------------
(* The sign-in modes.  A row gets a subject only in the commit that brings   *)
(* it alive, so the row a commit finds inert has none.                       *)
ModeInv ==
  /\ OneCredentialEach
  /\ \A u \in User : u \notin activated => sub[u] = None

(* Registering or minting writes one fresh row; the others keep theirs.      *)
LEMMA InsertedRow ==
  ASSUME TypeOK, NEW u \in User, NEW e, NEW ro, NEW s, NEW c, NEW i,
         InsertUser(u, e, ro, s, c, i)
  PROVE  /\ email'[u] = e /\ sub'[u] = s /\ credential'[u] = c
         /\ \A v \in User \ {u} : /\ email'[v] = email[v]
                                  /\ sub'[v] = sub[v]
                                  /\ credential'[v] = credential[v]
  BY DEF TypeOK, InsertUser

LEMMA ModePreserved == ASSUME IInv, ModeInv, [Next]_vars PROVE ModeInv'
<1> USE NoneIsNoValue DEF IInv, ModeInv, OneCredentialEach, Exists
<1>1. ASSUME UNCHANGED <<email, sub, credential, activated>> PROVE ModeInv'
  BY <1>1
<1>2. ASSUME NEW u \in User, NEW i \in Invite, NEW e \in Email, NEW ro \in Role,
             CreateAdminUser(u, i, e, ro)
      PROVE  ModeInv'
  BY <1>2, InsertedRow DEF CreateAdminUser
<1>3. ASSUME NEW u \in User, NEW e \in Email, Register(u, e)
      PROVE  ModeInv'
  BY <1>3, InsertedRow DEF Register
<1>4. ASSUME NEW r \in Request, CommitBind(r)
      PROVE  ModeInv'
  <2> DEFINE u == claim[r].row
  <2>1. TypeOK' /\ Registry!Redeem(claim[r].inv, u)
    BY <1>4, TypePreserved, CommitBindPreserves
  <2>2. u \in User /\ u \notin activated
    BY <1>4, <2>1 DEF CommitBind, ClaimInv, TypeOK, Claim, Registry!Redeem
  <2>3. sub[u] = None
    BY <2>2
  <2>4. /\ sub'[u] = IF ViaOidc(r) THEN claim[r].sub ELSE sub[u]
        /\ credential'[u] = IF ViaOidc(r) THEN "oidc_user" ELSE r
        /\ email' = email /\ activated' = activated \cup {u}
        /\ \A v \in User \ {u} : sub'[v] = sub[v] /\ credential'[v] = credential[v]
    BY <1>4, <2>2 DEF CommitBind, TypeOK
  <2> QED
    BY <2>2, <2>3, <2>4, HashIsNoMarker DEF ViaOidc
<1>5. ASSUME NEW r \in Request, NEW u \in User, CommitMint(r, u)
      PROVE  ModeInv'
  <2>1. /\ InsertUser(u, claim[r].email, Commenter, claim[r].sub,
                      IF ViaOidc(r) THEN "oidc_user" ELSE r, claim[r].inv)
        /\ activated' = activated \cup {u}
    BY <1>5 DEF CommitMint
  <2> QED
    BY <2>1, InsertedRow, HashIsNoMarker DEF ViaOidc
<1>6. ASSUME NEW i \in Invite,
             \/ \E h \in Email \cup {None} : CreateInvite(i, h)
             \/ RevokeRead(i) \/ RevokeWrite(i) \/ Expire(i)
      PROVE  ModeInv'
  BY <1>1, <1>6 DEF CreateInvite, RevokeRead, RevokeWrite, Expire, userTable
<1>7. ASSUME NEW b \in BOOLEAN, SetInvitesEnabled(b) \/ Restart(b)
      PROVE  ModeInv'
  BY <1>1, <1>7 DEF SetInvitesEnabled, Restart, userTable
<1>8. ASSUME NEW u \in User,
             Deactivate(u) \/ Reactivate(u) \/ \E ro \in Role : ChangeRole(u, ro)
      PROVE  ModeInv'
  BY <1>1, <1>8 DEF Deactivate, Reactivate, ChangeRole
<1>9. ASSUME NEW r \in Request, NEW i \in Invite, NEW e \in Email,
             \/ AcceptPassword(r, i, e)
             \/ \E s \in Sub, t \in Role : OidcCallback(r, i, e, s, t)
      PROVE  ModeInv'
  BY <1>1, <1>9 DEF AcceptPassword, OidcCallback, Begin, userTable
<1>10. ASSUME NEW r \in Request,
              \/ \E u \in User : PrepareBind(r, u)
              \/ PrepareMint(r) \/ LockInvite(r) \/ Reject(r) \/ Abort(r)
       PROVE  ModeInv'
  BY <1>1, <1>10 DEF PrepareBind, PrepareMint, LockInvite, Reject, Abort, userTable
<1>11. ASSUME NEW u \in User, SetPassword(u)
       PROVE  ModeInv'
  <2>1. /\ credential'[u] = IF sub[u] = None THEN "chosen" ELSE "late"
        /\ \A v \in User \ {u} : credential'[v] = credential[v]
        /\ UNCHANGED <<email, sub, activated>>
    BY <1>11 DEF SetPassword, TypeOK
  <2> QED
    BY <2>1
<1>12. CASE UNCHANGED vars
  BY <1>1, <1>12 DEF vars, userTable
<1> QED
  BY <1>2, <1>3, <1>4, <1>5, <1>6, <1>7, <1>8, <1>9, <1>10, <1>11, <1>12 DEF Next, Accept

(* A row bound to an SSO subject keeps no password from before the binding,  *)
(* and a row without one never has the marker or a password written over it, *)
(* in whichever modes the server ran and whoever set passwords when.         *)
THEOREM ModesStayApart == Spec => []OneCredentialEach
<1>1. Init => ModeInv
  BY DEF Init, ModeInv, OneCredentialEach, Exists
<1>2. ModeInv => OneCredentialEach
  BY DEF ModeInv
<1> QED
  BY <1>1, <1>2, ModePreserved, Invariance, PTL DEF Spec

-----------------------------------------------------------------------------
(* What keeps an invite dead: its own marks, and that every request which    *)
(* may come to use it held it already.                                       *)
LEMMA DeadKept ==
  ASSUME NEW i \in Invite, Dead(i),
         revoked \subseteq revoked', expired \subseteq expired',
         usedBy'[i] = usedBy[i],
         \A r \in Request : claim'[r].inv \in {claim[r].inv, None}
  PROVE  Dead(i)'
  BY NoneIsNoValue DEF Dead

(* The end of a request takes its claim away and no other's.                 *)
LEMMA FinishForgets ==
  ASSUME TypeOK, NEW r \in Request, Finish(r)
  PROVE  \A q \in Request : claim'[q].inv \in {claim[q].inv, None}
  BY DEF TypeOK, Finish, NoClaim

(* A revoked or expired invite which no request in flight has validated is   *)
(* never used: validation refuses it, and no later step picks an invite.     *)
THEOREM DeadForGood == Spec => DeadStaysDead
<1>1. ASSUME IInv, [Next]_vars, NEW i \in Invite, Dead(i) PROVE Dead(i)'
  <2> USE NoneIsNoValue DEF IInv
  <2>1. i \in revoked \cup expired /\ usedBy[i] = None /\ \A r \in Request : claim[r].inv # i
    BY <1>1 DEF Dead
  <2>2. ASSUME UNCHANGED <<revoked, expired, usedBy, claim>> PROVE Dead(i)'
    BY <1>1, <2>2, DeadKept
  <2>3. ASSUME NEW j \in Invite,
               \/ \E h \in Email \cup {None} : CreateInvite(j, h)
               \/ \E u \in User, e \in Email, ro \in Role : CreateAdminUser(u, j, e, ro)
        PROVE  Dead(i)'
    BY <2>2, <2>3 DEF CreateInvite, CreateAdminUser, IssueInvite, requests
  <2>4. ASSUME NEW u \in User, NEW e \in Email, Register(u, e)
        PROVE  Dead(i)'
    BY <2>2, <2>4 DEF Register, inviteTable, requests
  <2>5. ASSUME NEW j \in Invite, RevokeRead(j) \/ RevokeWrite(j) \/ Expire(j)
        PROVE  Dead(i)'
    <3>1. revoked \subseteq revoked' /\ expired \subseteq expired' /\ UNCHANGED <<usedBy, claim>>
      BY <2>5 DEF RevokeRead, RevokeWrite, Expire, inviteTable, requests
    <3> QED
      BY <1>1, <3>1, DeadKept
  <2>6. ASSUME NEW b \in BOOLEAN, SetInvitesEnabled(b)
        PROVE  Dead(i)'
    BY <2>2, <2>6 DEF SetInvitesEnabled, inviteTable, requests
  <2>7. ASSUME NEW b \in BOOLEAN, Restart(b)
        PROVE  Dead(i)'
    BY <1>1, <2>7, DeadKept DEF Restart, inviteTable, NoClaim
  <2>8. ASSUME NEW u \in User,
               \/ SetPassword(u) \/ Deactivate(u) \/ Reactivate(u)
               \/ \E ro \in Role : ChangeRole(u, ro)
        PROVE  Dead(i)'
    BY <2>2, <2>8 DEF SetPassword, Deactivate, Reactivate, ChangeRole, inviteTable, requests
  <2>9. ASSUME NEW r \in Request, NEW c, Begin(r, c)
        PROVE  Dead(i)'
    <3>1. c.inv # i
      BY <2>1, <2>9 DEF Begin, Validate
    <3>2. \A q \in Request : claim'[q] = IF q = r THEN c ELSE claim[q]
      BY <1>1, <2>9 DEF Begin, TypeOK
    <3> QED
      BY <2>1, <2>9, <3>1, <3>2 DEF Begin, Dead, inviteTable
  <2>10. ASSUME NEW r \in Request, NEW u \in User, PrepareBind(r, u)
         PROVE  Dead(i)'
    <3>1. \A q \in Request : claim'[q].inv = claim[q].inv
      BY <1>1, <2>10 DEF PrepareBind, TypeOK, Claim
    <3> QED
      BY <1>1, <2>10, <3>1, DeadKept DEF PrepareBind, inviteTable
  <2>11. ASSUME NEW r \in Request, PrepareMint(r) \/ LockInvite(r)
         PROVE  Dead(i)'
    BY <2>2, <2>11 DEF PrepareMint, LockInvite, inviteTable
  <2>12. ASSUME NEW r \in Request, CommitBind(r) \/ \E u \in User : CommitMint(r, u)
         PROVE  Dead(i)'
    <3>1. Finish(r) /\ UNCHANGED <<revoked, expired>>
      BY <2>12 DEF CommitBind, CommitMint, MarkUsed
    <3>2. usedBy'[i] = usedBy[i]
      BY <1>1, <2>1, <2>12 DEF CommitBind, CommitMint, MarkUsed, TypeOK
    <3> QED
      BY <1>1, <3>1, <3>2, FinishForgets, DeadKept
  <2>13. ASSUME NEW r \in Request, Reject(r) \/ Abort(r)
         PROVE  Dead(i)'
    BY <1>1, <2>13, FinishForgets, DeadKept DEF Reject, Abort, inviteTable
  <2>14. CASE UNCHANGED vars
    BY <2>2, <2>14 DEF vars, inviteTable, requests
  <2> QED
    BY <1>1, <2>3, <2>4, <2>5, <2>6, <2>7, <2>8, <2>9, <2>10, <2>11, <2>12, <2>13, <2>14
    DEF Next, Accept, AcceptPassword, OidcCallback
<1>2. ASSUME IInv, [Next]_vars PROVE [\A i \in Invite : Dead(i) => Dead(i)']_vars
  BY <1>1, <1>2
<1> QED
  BY <1>2, Invariance, PTL DEF Spec, DeadStaysDead
=============================================================================
