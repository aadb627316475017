------------------------------ MODULE Invites ------------------------------
(***************************************************************************)
(* Invite codes, the accounts they activate and the requests that redeem    *)
(* them: src/src/invites, and the account flows of                          *)
(* src/src/admin/auth/backend.rs, src/src/admin/users.rs and                *)
(* src/src/auth/handlers.rs.                                                *)
(*                                                                          *)
(* The tables invite_codes and users are modelled column by column: one     *)
(* function or set per column the flows read or write.  PostgreSQL runs     *)
(* READ COMMITTED, so every statement outside a transaction is a step of    *)
(* its own and a handler's decisions rest on rows read in earlier steps.    *)
(* Of an acceptance transaction only the FOR UPDATE lock and the commit can *)
(* be told apart by others, so it is two steps: LockInvite and Commit.      *)
(***************************************************************************)
EXTENDS FiniteSets

CONSTANTS Invite, User, Email, Sub, Role,  \* ids of rows, addresses, IdP subjects, tiers
          Administrator, Commenter,        \* two of the tiers
          Request,                         \* acceptance requests served concurrently
          None                             \* SQL NULL

ASSUME TiersAreRoles == Administrator \in Role /\ Commenter \in Role
ASSUME NoneIsNoValue ==
  None \notin Invite \cup User \cup Email \cup Sub \cup Role \cup Request

(* The hash of a typed password, named by the request it came in, is neither *)
(* the marker an SSO binding writes nor a hash that was written after it.    *)
ASSUME HashIsNoMarker == Request \cap {"oidc_user", "late"} = {}

VARIABLES
  issued, hint, usedBy, revoked, expired,                        \* invite_codes
  email, role, sub, credential, inviteOf, activated, active,     \* users
  invitesEnabled,   \* the setting commenter_invites_enabled
  oidcEnabled,      \* the sign-in mode this process was started in
  pc, claim,        \* where each acceptance request is, and what it has read
  lock,             \* the request holding an invite's row FOR UPDATE
  revoking          \* invites whose revocation has read an open row, not yet written it

inviteTable == <<issued, hint, usedBy, revoked, expired>>
userTable   == <<email, role, sub, credential, inviteOf, activated, active>>
requests    == <<pc, claim, lock>>
config      == <<invitesEnabled, oidcEnabled>>
vars == <<inviteTable, userTable, config, requests, revoking>>

NoClaim == [inv |-> None, email |-> None, sub |-> None, tier |-> None, row |-> None]

Claim == [inv : Invite \cup {None}, email : Email \cup {None}, sub : Sub \cup {None},
          tier : Role \cup {None}, row : User \cup {None}]

(* The row's password_hash, by where it comes from: not there, the hash of a *)
(* password typed in an acceptance request, of a secret from outside them    *)
(* ("chosen": the discarded one a pre-provisioned row starts with, one typed *)
(* at registration, or a password set later), the marker that replaces them  *)
(* all when SSO is bound, or a password written over that marker ("late").   *)
Credential == {None, "chosen", "oidc_user", "late"} \cup Request

TypeOK ==
  /\ issued \in SUBSET Invite
  /\ hint \in [Invite -> Email \cup {None}]
  /\ usedBy \in [Invite -> User \cup {None}]
  /\ revoked \in SUBSET Invite
  /\ expired \in SUBSET Invite
  /\ email \in [User -> Email \cup {None}]
  /\ role \in [User -> Role \cup {None}]
  /\ sub \in [User -> Sub \cup {None}]
  /\ credential \in [User -> Credential]
  /\ inviteOf \in [User -> Invite \cup {None}]
  /\ activated \in SUBSET User
  /\ active \in SUBSET User
  /\ invitesEnabled \in BOOLEAN
  /\ oidcEnabled \in BOOLEAN
  /\ pc \in [Request -> {"idle", "validated", "prepared", "locked"}]
  /\ claim \in [Request -> Claim]
  /\ lock \in [Invite -> Request \cup {None}]
  /\ revoking \in SUBSET Invite

Exists(u) == email[u] # None

EmailTaken(e) == \E u \in User : email[u] = e

SubTaken(s) == \E u \in User : sub[u] = s

Init ==
  /\ issued = {} /\ revoked = {} /\ expired = {}
  /\ hint = [i \in Invite |-> None]
  /\ usedBy = [i \in Invite |-> None]
  /\ email = [u \in User |-> None]
  /\ role = [u \in User |-> None]
  /\ sub = [u \in User |-> None]
  /\ credential = [u \in User |-> None]
  /\ inviteOf = [u \in User |-> None]
  /\ activated = {} /\ active = {}
  /\ invitesEnabled \in BOOLEAN
  /\ oidcEnabled \in BOOLEAN
  /\ pc = [r \in Request |-> "idle"]
  /\ claim = [r \in Request |-> NoClaim]
  /\ lock = [i \in Invite |-> None]
  /\ revoking = {}

-----------------------------------------------------------------------------
(* Issuing invites and accounts.                                             *)

IssueInvite(i, h) ==
  /\ i \notin issued
  /\ issued' = issued \cup {i}
  /\ hint' = [hint EXCEPT ![i] = h]
  /\ UNCHANGED <<usedBy, revoked, expired>>

InsertUser(u, e, ro, s, cred, i) ==
  /\ ~Exists(u)
  /\ ~EmailTaken(e)
  /\ s # None => ~SubTaken(s)
  /\ email' = [email EXCEPT ![u] = e]
  /\ role' = [role EXCEPT ![u] = ro]
  /\ sub' = [sub EXCEPT ![u] = s]
  /\ credential' = [credential EXCEPT ![u] = cred]
  /\ inviteOf' = [inviteOf EXCEPT ![u] = i]
  /\ active' = active \cup {u}

(* Mutant: the row of a pre-provisioned account is not given its invite.     *)
CreateUnlinkedUser(u, i, e, ro) ==
  /\ IssueInvite(i, e)
  /\ InsertUser(u, e, ro, None, "chosen", None)
  /\ UNCHANGED <<activated, config, requests, revoking>>

CreateInvite(i, h) ==
  /\ invitesEnabled
  /\ IssueInvite(i, h)
  /\ UNCHANGED <<userTable, config, requests, revoking>>

(* One transaction: the invite and the inert row that points at it.  Its     *)
(* look-up of the address runs before the transaction; the unique index on   *)
(* users.email decides all the same.  bootstrap_admin does the same on an    *)
(* empty users table, from the command line.                                 *)
CreateAdminUser(u, i, e, ro) ==
  /\ IssueInvite(i, e)
  /\ InsertUser(u, e, ro, None, "chosen", i)
  /\ UNCHANGED <<activated, config, requests, revoking>>

(* Registration makes an account that is activated at once and has no invite. *)
Register(u, e) ==
  /\ ~oidcEnabled
  /\ InsertUser(u, e, Administrator, None, "chosen", None)
  /\ activated' = activated \cup {u}
  /\ UNCHANGED <<inviteTable, config, requests, revoking>>

-----------------------------------------------------------------------------
(* The life of an invite outside acceptance.                                 *)

(* revoke_invite answers at once when the row it reads is used or revoked.   *)
RevokeRead(i) ==
  /\ i \in issued
  /\ i \notin revoking
  /\ usedBy[i] = None
  /\ i \notin revoked
  /\ revoking' = revoking \cup {i}
  /\ UNCHANGED <<inviteTable, userTable, config, requests>>

(* The UPDATE waits for a lock on the row, and tests nothing again.          *)
RevokeWrite(i) ==
  /\ i \in revoking
  /\ lock[i] = None
  /\ revoked' = revoked \cup {i}
  /\ revoking' = revoking \ {i}
  /\ UNCHANGED <<issued, hint, usedBy, expired, userTable, config, requests>>

(* The clock passes expires_at.                                              *)
Expire(i) ==
  /\ i \in issued \ expired
  /\ expired' = expired \cup {i}
  /\ UNCHANGED <<issued, hint, usedBy, revoked, userTable, config, requests, revoking>>

SetInvitesEnabled(b) ==
  /\ invitesEnabled' = b
  /\ UNCHANGED <<inviteTable, userTable, oidcEnabled, requests, revoking>>

-----------------------------------------------------------------------------
(* Account administration that an acceptance may meet half way.              *)

(* An administrator sets the password of any row, an owner changes or resets *)
(* their own: no writer of the hash looks at oidc_sub, or at whether the row *)
(* is active or was ever activated.  A token or a password that is asked for *)
(* first only narrows when this happens.                                     *)
SetPassword(u) ==
  /\ Exists(u)
  /\ credential' = [credential EXCEPT ![u] = IF sub[u] = None THEN "chosen" ELSE "late"]
  /\ UNCHANGED <<inviteTable, email, role, sub, inviteOf, activated, active,
                 config, requests, revoking>>

(* A bound: below, only rows that are still inert are touched; no acceptance *)
(* reads these columns of the others.                                        *)
Inert(u) == Exists(u) /\ u \notin activated

Deactivate(u) ==
  /\ Inert(u) /\ u \in active
  /\ active' = active \ {u}
  /\ UNCHANGED <<inviteTable, email, role, sub, credential, inviteOf, activated,
                 config, requests, revoking>>

Reactivate(u) ==
  /\ Inert(u) /\ u \notin active
  /\ active' = active \cup {u}
  /\ UNCHANGED <<inviteTable, email, role, sub, credential, inviteOf, activated,
                 config, requests, revoking>>

ChangeRole(u, ro) ==
  /\ Inert(u) /\ ro # role[u]
  /\ role' = [role EXCEPT ![u] = ro]
  /\ UNCHANGED <<inviteTable, email, sub, credential, inviteOf, activated, active,
                 config, requests, revoking>>

-----------------------------------------------------------------------------
(* Acceptance.  A request with a subject comes from the OIDC callback, one   *)
(* without from the password form.                                           *)

ViaOidc(r) == claim[r].sub # None

(* Mutant: a revoked invite still validates.                                 *)
ValidateRevoked(i) ==
  /\ i \in issued
  /\ usedBy[i] = None
  /\ i \notin expired

(* The plain reads of validate_invite_code: no lock is taken.                *)
Validate(i) ==
  /\ i \in issued
  /\ i \notin revoked
  /\ usedBy[i] = None
  /\ i \notin expired

Begin(r, c) ==
  /\ pc[r] = "idle"
  /\ invitesEnabled
  /\ Validate(c.inv)
  /\ pc' = [pc EXCEPT ![r] = "validated"]
  /\ claim' = [claim EXCEPT ![r] = c]
  /\ UNCHANGED <<inviteTable, userTable, config, lock, revoking>>

AcceptPassword(r, i, e) ==
  /\ ~oidcEnabled
  /\ Begin(r, [NoClaim EXCEPT !.inv = i, !.email = e])

(* Flow B of authenticate_oidc comes first: a known subject never reaches    *)
(* the invite, it signs in.                                                  *)
OidcCallback(r, i, e, s, t) ==
  /\ oidcEnabled
  /\ ~SubTaken(s)
  /\ Begin(r, [NoClaim EXCEPT !.inv = i, !.email = e, !.sub = s, !.tier = t])

(* Mutant: any row will do, not only the one the invite was issued with.     *)
BindableByHint(r, u) ==
  LET c == claim[r] IN
  /\ Exists(u)
  /\ sub[u] = None
  /\ u \in active
  /\ hint[c.inv] # None
  /\ hint[c.inv] = c.email
  /\ IF ViaOidc(r) THEN role[u] = c.tier ELSE u \notin activated

(* What accept_invite_password_bind and oidc_bind_existing ask of the row    *)
(* that the invite's id leads to.                                            *)
Bindable(r, u) ==
  LET c == claim[r] IN
  /\ Exists(u)
  /\ inviteOf[u] = c.inv
  /\ sub[u] = None
  /\ u \in active
  /\ hint[c.inv] # None
  /\ hint[c.inv] = c.email
  /\ IF ViaOidc(r) THEN role[u] = c.tier
                   ELSE u \notin activated /\ email[u] = c.email

(* What accept_invite_password_create_commenter and oidc_create_commenter    *)
(* ask before they mint a row.                                               *)
Mintable(r) ==
  LET c == claim[r] IN
  /\ hint[c.inv] = None
  /\ IF ViaOidc(r) THEN /\ \A u \in User : inviteOf[u] # c.inv
                        /\ c.tier = Commenter
                   ELSE ~EmailTaken(c.email)

PrepareBind(r, u) ==
  /\ pc[r] = "validated"
  /\ Bindable(r, u)
  /\ pc' = [pc EXCEPT ![r] = "prepared"]
  /\ claim' = [claim EXCEPT ![r].row = u]
  /\ UNCHANGED <<inviteTable, userTable, config, lock, revoking>>

PrepareMint(r) ==
  /\ pc[r] = "validated"
  /\ Mintable(r)
  /\ pc' = [pc EXCEPT ![r] = "prepared"]
  /\ UNCHANGED <<inviteTable, userTable, config, claim, lock, revoking>>

(* Mutant: SELECT ... FOR UPDATE without the used_at filter.                 *)
LockableAnyRow(i) == lock[i] = None

(* lock_unused_invite: the row is free, and no earlier acceptance used it.   *)
Lockable(i) == lock[i] = None /\ usedBy[i] = None

LockInvite(r) ==
  LET i == claim[r].inv IN
  /\ pc[r] = "prepared"
  /\ Lockable(i)
  /\ lock' = [lock EXCEPT ![i] = r]
  /\ pc' = [pc EXCEPT ![r] = "locked"]
  /\ UNCHANGED <<inviteTable, userTable, config, claim, revoking>>

(* Mutant: a rollback or commit that leaves the row locked.                  *)
ReleaseNothing(r) ==
  /\ pc' = [pc EXCEPT ![r] = "idle"]
  /\ claim' = [claim EXCEPT ![r] = NoClaim]
  /\ UNCHANGED lock

(* The transaction, if one is open, ends: its row lock goes with it.         *)
Finish(r) ==
  /\ pc' = [pc EXCEPT ![r] = "idle"]
  /\ claim' = [claim EXCEPT ![r] = NoClaim]
  /\ lock' = [i \in Invite |-> IF lock[i] = r THEN None ELSE lock[i]]

MarkUsed(i, u) ==
  /\ usedBy' = [usedBy EXCEPT ![i] = u]
  /\ UNCHANGED <<issued, hint, revoked, expired>>

(* Mutant: binding an SSO subject leaves the old password hash in place.     *)
CommitBindKeepHash(r) ==
  LET c == claim[r]
      u == c.row
  IN
  /\ pc[r] = "locked"
  /\ u # None
  /\ ViaOidc(r) => ~SubTaken(c.sub)
  /\ sub' = IF ViaOidc(r) THEN [sub EXCEPT ![u] = c.sub] ELSE sub
  /\ credential' = IF ViaOidc(r) THEN credential ELSE [credential EXCEPT ![u] = r]
  /\ activated' = activated \cup {u}
  /\ MarkUsed(c.inv, u)
  /\ Finish(r)
  /\ UNCHANGED <<email, role, inviteOf, active, config, revoking>>

CommitBind(r) ==
  LET c == claim[r]
      u == c.row
  IN
  /\ pc[r] = "locked"
  /\ u # None
  /\ ViaOidc(r) => ~SubTaken(c.sub)
  /\ sub' = IF ViaOidc(r) THEN [sub EXCEPT ![u] = c.sub] ELSE sub
  /\ credential' = [credential EXCEPT ![u] = IF ViaOidc(r) THEN "oidc_user" ELSE r]
  /\ activated' = activated \cup {u}
  /\ MarkUsed(c.inv, u)
  /\ Finish(r)
  /\ UNCHANGED <<email, role, inviteOf, active, config, revoking>>

CommitMint(r, u) ==
  LET c == claim[r] IN
  /\ pc[r] = "locked"
  /\ c.row = None
  /\ InsertUser(u, c.email, Commenter, c.sub,
                IF ViaOidc(r) THEN "oidc_user" ELSE r, c.inv)
  /\ activated' = activated \cup {u}
  /\ MarkUsed(c.inv, u)
  /\ Finish(r)
  /\ UNCHANGED <<config, revoking>>

(* A bound: a model has finitely many user ids.                              *)
NoIdLeft == \A u \in User : Exists(u)

(* Every refusal of the code: no flow applies to what was read, the invite   *)
(* was used by the time its lock came, or a unique index refused the row.    *)
Refused(r) ==
  LET c == claim[r] IN
  CASE pc[r] = "validated" -> ~Mintable(r) /\ \A u \in User : ~Bindable(r, u)
    [] pc[r] = "prepared"  -> lock[c.inv] = None /\ usedBy[c.inv] # None
    [] pc[r] = "locked"    -> \/ c.sub # None /\ SubTaken(c.sub)
                              \/ c.row = None /\ (EmailTaken(c.email) \/ NoIdLeft)
    [] OTHER               -> FALSE

Reject(r) ==
  /\ Refused(r)
  /\ Finish(r)
  /\ UNCHANGED <<inviteTable, userTable, config, revoking>>

(* The client goes away, or a statement fails: the handler stops where it    *)
(* is and its transaction, if open, is rolled back.                          *)
Abort(r) ==
  /\ pc[r] # "idle"
  /\ Finish(r)
  /\ UNCHANGED <<inviteTable, userTable, config, revoking>>

(* The server restarts, perhaps in the other sign-in mode: every request in  *)
(* flight is gone, the tables stay.                                          *)
Restart(b) ==
  /\ oidcEnabled' = b
  /\ pc' = [r \in Request |-> "idle"]
  /\ claim' = [r \in Request |-> NoClaim]
  /\ lock' = [i \in Invite |-> None]
  /\ revoking' = {}
  /\ UNCHANGED <<inviteTable, userTable, invitesEnabled>>

-----------------------------------------------------------------------------
Accept(r) ==
  \/ \E u \in User : PrepareBind(r, u)
  \/ PrepareMint(r)
  \/ LockInvite(r)
  \/ CommitBind(r)
  \/ \E u \in User : CommitMint(r, u)
  \/ Reject(r)

Next ==
  \/ \E i \in Invite, h \in Email \cup {None} : CreateInvite(i, h)
  \/ \E u \in User, i \in Invite, e \in Email, ro \in Role : CreateAdminUser(u, i, e, ro)
  \/ \E u \in User, e \in Email : Register(u, e)
  \/ \E i \in Invite : RevokeRead(i) \/ RevokeWrite(i) \/ Expire(i)
  \/ \E b \in BOOLEAN : SetInvitesEnabled(b) \/ Restart(b)
  \/ \E u \in User : SetPassword(u) \/ Deactivate(u) \/ Reactivate(u)
  \/ \E u \in User, ro \in Role : ChangeRole(u, ro)
  \/ \E r \in Request, i \in Invite, e \in Email : AcceptPassword(r, i, e)
  \/ \E r \in Request, i \in Invite, e \in Email, s \in Sub, t \in Role :
       OidcCallback(r, i, e, s, t)
  \/ \E r \in Request : Accept(r) \/ Abort(r)

Spec == Init /\ [][Next]_vars

(* A handler that nobody drops runs on to its answer, and PostgreSQL queues  *)
(* the waiters of a row lock, so that one of them cannot be passed over for  *)
(* ever.  Aborts, and everything users and administrators choose to do, have *)
(* no fairness.                                                              *)
FairSpec ==
  /\ Spec
  /\ \A r \in Request : WF_vars(Accept(r)) /\ SF_vars(LockInvite(r) \/ Reject(r))

-----------------------------------------------------------------------------
(* An invite names the account it brought alive, that account names the      *)
(* invite, and no two accounts hang on one invite: however many requests     *)
(* redeem the same code at once, lock_unused_invite lets one of them through. *)
SingleUse ==
  /\ \A i \in Invite : usedBy[i] # None =>
       usedBy[i] \in activated /\ inviteOf[usedBy[i]] = i
  /\ \A u \in User : u \in activated /\ inviteOf[u] # None => usedBy[inviteOf[u]] = u
  /\ \A u, v \in User : inviteOf[u] = inviteOf[v] /\ inviteOf[u] # None => u = v

(* An inert row is never stranded: the invite that was issued with it is     *)
(* still unused and carries its address, whatever failed or raced on the     *)
(* way (it may have expired or been revoked, which an administrator sees).   *)
InertRowsRedeemable ==
  \A u \in User : Exists(u) /\ u \notin activated =>
    /\ inviteOf[u] # None
    /\ usedBy[inviteOf[u]] = None
    /\ hint[inviteOf[u]] = email[u]

(* Whoever holds an invite with an address gets the account of that address  *)
(* or none: no code minted for one person brings another one's account alive.*)
HintIsKept ==
  \A i \in Invite : usedBy[i] # None /\ hint[i] # None => email[usedBy[i]] = hint[i]

(* Once an account is live no acceptance touches its credentials again: an   *)
(* acceptance prepared on a stale read of the row cannot replace its         *)
(* password or bind it to another SSO subject.  Only a password change does, *)
(* and it leaves the subject alone.                                          *)
CredentialsSettle ==
  [][\A u \in activated : /\ u \in activated'
                          /\ sub'[u] = sub[u]
                          /\ credential'[u] \in {credential[u], "chosen", "late"}
                          /\ inviteOf'[u] = inviteOf[u]]_vars

(* The sign-in modes stay apart across restarts in either of them: no        *)
(* password that was a row's before its SSO subject was bound is still there *)
(* afterwards, be it the discarded secret, typed at registration or in an    *)
(* acceptance, or set by an administrator while the binding was under way.   *)
(* What a bound row holds besides the marker was written since, and          *)
(* authenticate_password does not look at it; and no row that signs in with  *)
(* a password has the marker of one that cannot.                             *)
OneCredentialEach ==
  \A u \in User : Exists(u) => (sub[u] # None <=> credential[u] \in {"oidc_user", "late"})

(* A revoked or expired invite that no request in flight has validated is    *)
(* dead for good: nothing can use it any more.                               *)
Dead(i) ==
  /\ i \in revoked \cup expired
  /\ usedBy[i] = None
  /\ \A r \in Request : claim[r].inv # i

DeadStaysDead == [][\A i \in Invite : Dead(i) => Dead(i)']_vars

(* Every acceptance is answered: none waits for a row lock for ever.         *)
AcceptanceAnswered == \A r \in Request : pc[r] # "idle" ~> pc[r] = "idle"

(* What revoke_invite's comment says of a used invite.                       *)
RevokingUsedIsNoop ==
  [][\A i \in Invite : usedBy[i] # None => (i \in revoked' <=> i \in revoked)]_vars

-----------------------------------------------------------------------------
(* The promise this module keeps.                                            *)
Registry == INSTANCE InviteRegistry WITH holder <- usedBy, live <- activated

ImplementsRegistry == Registry!Spec

=============================================================================
