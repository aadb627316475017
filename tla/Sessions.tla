------------------------------ MODULE Sessions ------------------------------
(***************************************************************************)
(* A browser's session and the gates before the routes: axum-login's layer   *)
(* (src/src/app.rs), require_authenticated and the role gates                *)
(* (src/src/middleware/admin_auth.rs), the local sign-in                     *)
(* (src/src/admin/handlers.rs) and the OIDC one (src/src/auth), for one       *)
(* account.                                                                 *)
(*                                                                          *)
(* A request reads the session's record once and writes it back whole at its  *)
(* end if it changed it; the row of users is read and written in between.    *)
(***************************************************************************)
EXTENDS Naturals, Sequences

CONSTANTS Request,   \* requests of the browser under way at a time
          MaxDrawn,  \* bound on new passwords and TOTP secrets
          MaxStarts  \* bound on requests

VARIABLES
  oidc,    \* OIDC_ENABLED
  row,     \* the account; linked: it has an oidc_sub; secret: 0 when TOTP is off
  drawn,   \* how many passwords and secrets there have been
  record,  \* the session
  cookie,  \* there is a pending_invite cookie
  req,     \* the requests
  asked,   \* history: for each redirect to the IdP, whether that cookie was there
  spent,   \* redirects whose authorization code has been exchanged
  starts   \* how many requests there have been

sessionVars == <<oidc, row, drawn, record, cookie, req, asked, spent, starts>>

(* Who a session is for: hash is the session_auth_hash, proof (history) the      *)
(* password and secret the sign-in was checked against; 0 for nobody.          *)
Empty == [hash |-> <<>>, proof |-> <<>>, mfa |-> FALSE, flow |-> 0, invite |-> FALSE]

Nobody == [pw |-> 0, secret |-> 0, force |-> FALSE, role |-> "none", active |-> FALSE, linked |-> FALSE]
Idle == [pc |-> "idle", what |-> "none", rec |-> Empty, dirty |-> FALSE, who |-> Nobody,
         state |-> 0, invite |-> FALSE]

Init ==
  /\ oidc \in BOOLEAN
  /\ row \in [pw : {1}, secret : {0, 1}, force : {FALSE}, role : {"administrator", "commenter"},
              active : {TRUE}, linked : {FALSE, oidc}]
  /\ oidc => row.secret = 0
  /\ drawn = 1 /\ record = Empty /\ cookie = FALSE
  /\ req = [r \in Request |-> Idle]
  /\ asked = <<>> /\ spent = {} /\ starts = 0

Proof(u) == <<u.pw, u.secret>>

(* Mutant: TOTP is no part of the hash.                                      *)
PasswordHash(u) == <<u.pw>>

(* compute_session_hash.  The email is part of it, too; nothing changes that.   *)
SessionHash(u) == <<u.pw, u.secret>>

At(r, what, pc) == req[r].what = what /\ req[r].pc = pc
Goto(r, pc) == req' = [req EXCEPT ![r].pc = pc]
Change(r, rec) == req' = [req EXCEPT ![r].pc = "answered", ![r].rec = rec, ![r].dirty = TRUE]
Leave(r) == req' = [req EXCEPT ![r] = Idle]

Local == {"login", "mfa", "confirm", "disable", "password"}
Sso == {"sso", "callback"}

-----------------------------------------------------------------------------
(* The layers around every handler.                                          *)

(* The session's record.  A local request with OIDC on is refused, as is one of   *)
(* OIDC without.                                                             *)
Arrive(r, what, state) ==
  /\ req[r].pc = "idle" /\ starts < MaxStarts
  /\ what \in Local => ~oidc
  /\ what \in Sso => oidc
  /\ IF what = "callback" THEN state \in 1 .. Len(asked) ELSE state = 0
  /\ starts' = starts + 1
  /\ req' = [req EXCEPT ![r] = [Idle EXCEPT !.pc = "loaded", !.what = what, !.rec = record, !.state = state]]
  /\ UNCHANGED <<oidc, row, drawn, record, cookie, asked, spent>>

(* get_user and the comparison of the hashes; a session that does not fit is       *)
(* deleted.  Whether the account is active is not looked at.                   *)
Recognise(r) ==
  LET signedIn == req[r].rec.hash # <<>>
      fits == req[r].rec.hash = SessionHash(row) IN
  /\ req[r].pc = "loaded"
  /\ req' = [req EXCEPT ![r].pc = "known", ![r].who = IF signedIn /\ fits THEN row ELSE Nobody,
                        ![r].rec = IF signedIn /\ ~fits THEN Empty ELSE @]
  /\ record' = IF signedIn /\ ~fits THEN Empty ELSE record
  /\ UNCHANGED <<oidc, row, drawn, cookie, asked, spent, starts>>

Known(r) == req[r].who # Nobody

(* With the answer the record is stored, if it was changed.                   *)
Store(r) ==
  /\ req[r].pc = "answered"
  /\ record' = req[r].rec
  /\ Leave(r)
  /\ UNCHANGED <<oidc, row, drawn, cookie, asked, spent, starts>>

(* A refusal: what has been changed so far is stored.  A server error or a dropped *)
(* handler stores nothing.                                                   *)
Fail(r) ==
  /\ req[r].pc \notin {"idle", "answered"}
  /\ \/ req[r].dirty /\ Goto(r, "answered")
     \/ Leave(r)
  /\ UNCHANGED <<oidc, row, drawn, record, cookie, asked, spent, starts>>

-----------------------------------------------------------------------------
(* The gates.                                                                *)

Routes == {"admin", "writer", "member"}

(* require_admin, require_admin_or_poster, and neither.                       *)
RolesOf(route) ==
  CASE route = "admin" -> {"administrator"}
    [] route = "writer" -> {"administrator", "poster"}
    [] OTHER -> {"administrator", "poster", "commenter"}

(* The second factor is on, and this session has not shown it.                 *)
FactorMissing(r) == req[r].who.secret # 0 /\ ~req[r].rec.mfa

(* require_authenticated and the role's gate, by the row read before.  The paths  *)
(* a user who must change the password may ask for are not behind it.          *)
Enter(r) ==
  /\ req[r].what \in Routes /\ req[r].pc = "known" /\ Known(r)
  /\ ~FactorMissing(r) /\ ~req[r].who.force
  /\ req[r].who.role \in RolesOf(req[r].what)
  /\ Goto(r, "inside")
  /\ UNCHANGED <<oidc, row, drawn, record, cookie, asked, spent, starts>>

Respond(r) ==
  /\ req[r].pc = "inside"
  /\ Leave(r)
  /\ UNCHANGED <<oidc, row, drawn, record, cookie, asked, spent, starts>>

-----------------------------------------------------------------------------
(* Local sign-in.                                                            *)

(* authenticate_password: the row of the email, its password, and that it may.     *)
Authenticate(r) ==
  /\ At(r, "login", "known") /\ row.active /\ ~row.linked
  /\ req' = [req EXCEPT ![r].pc = "proved", ![r].who = row]
  /\ UNCHANGED <<oidc, row, drawn, record, cookie, asked, spent, starts>>

SignedIn(r) == [req[r].rec EXCEPT !.hash = SessionHash(req[r].who), !.proof = Proof(req[r].who)]

(* What else the session holds stays.                                        *)
Login(r) ==
  /\ At(r, "login", "proved")
  /\ Change(r, SignedIn(r))
  /\ UNCHANGED <<oidc, row, drawn, record, cookie, asked, spent, starts>>

(* mfa_verify: a right code, for the secret the row has now.                    *)
MfaVerify(r) ==
  /\ At(r, "mfa", "known") /\ FactorMissing(r) /\ row.secret # 0
  /\ Change(r, [req[r].rec EXCEPT !.mfa = TRUE])
  /\ UNCHANGED <<oidc, row, drawn, record, cookie, asked, spent, starts>>

(* mfa_confirm_setup: a code for the secret that comes with it.                 *)
MfaConfirmSetup(r) ==
  /\ At(r, "confirm", "known") /\ Known(r) /\ drawn < MaxDrawn
  /\ row' = [row EXCEPT !.secret = drawn + 1] /\ drawn' = drawn + 1
  /\ Change(r, [req[r].rec EXCEPT !.mfa = TRUE])
  /\ UNCHANGED <<oidc, record, cookie, asked, spent, starts>>

(* mfa_disable and change_password: the row's password now is the one given.     *)
CheckPassword(r) ==
  /\ req[r].what \in {"disable", "password"} /\ req[r].pc = "known"
  /\ Known(r) /\ ~FactorMissing(r)
  /\ Goto(r, "checked")
  /\ UNCHANGED <<oidc, row, drawn, record, cookie, asked, spent, starts>>

MfaDisable(r) ==
  /\ At(r, "disable", "checked")
  /\ row' = [row EXCEPT !.secret = 0]
  /\ Change(r, [req[r].rec EXCEPT !.mfa = FALSE])
  /\ UNCHANGED <<oidc, drawn, record, cookie, asked, spent, starts>>

NewPassword(force) ==
  /\ drawn < MaxDrawn
  /\ row' = [row EXCEPT !.pw = drawn + 1, !.force = force] /\ drawn' = drawn + 1

ChangePassword(r) ==
  /\ At(r, "password", "checked")
  /\ NewPassword(FALSE)
  /\ Leave(r)
  /\ UNCHANGED <<oidc, record, cookie, asked, spent, starts>>

(* logout deletes the record at once.                                        *)
Logout(r) ==
  /\ At(r, "logout", "known")
  /\ record' = Empty
  /\ Leave(r)
  /\ UNCHANGED <<oidc, row, drawn, cookie, asked, spent, starts>>

-----------------------------------------------------------------------------
(* OIDC.                                                                     *)

(* Mutant: an invite stays in the session until another one comes.             *)
KeepInvite(r) == req[r].rec.invite \/ cookie

PendingInvite(r) == cookie

(* oidc_login: a state, a nonce and a verifier, and the invite of the cookie, or   *)
(* none.                                                                     *)
OidcLogin(r) ==
  /\ At(r, "sso", "known")
  /\ asked' = Append(asked, cookie)
  /\ Change(r, [req[r].rec EXCEPT !.flow = Len(asked) + 1, !.invite = PendingInvite(r)])
  /\ UNCHANGED <<oidc, row, drawn, record, cookie, spent, starts>>

(* oidc_callback: the state is the session's; the invite is taken out of it.      *)
TakeState(r) ==
  /\ At(r, "callback", "known") /\ req[r].rec.flow = req[r].state
  /\ req' = [req EXCEPT ![r].pc = "taken", ![r].invite = req[r].rec.invite, ![r].rec.invite = FALSE,
                        ![r].dirty = TRUE]
  /\ UNCHANGED <<oidc, row, drawn, record, cookie, asked, spent, starts>>

(* Invites are on, or there is none; the code is exchanged, which works once.     *)
ExchangeCode(r) ==
  /\ At(r, "callback", "taken")
  /\ \/ req[r].state \notin spent /\ spent' = spent \cup {req[r].state}
        /\ req' = [req EXCEPT ![r].pc = "exchanged", ![r].rec.flow = 0]
     \/ req' = [req EXCEPT ![r].pc = "answered", ![r].rec.flow = 0] /\ UNCHANGED spent
  /\ UNCHANGED <<oidc, row, drawn, record, cookie, asked, starts>>

(* authenticate_oidc: the account with this sub, active and of the IdP's tier; or   *)
(* the invite binds one, with a hash of its own (Invites.tla says which, and when).  *)
AuthenticateOidc(r) ==
  /\ At(r, "callback", "exchanged") /\ row.active
  /\ \/ row.linked /\ UNCHANGED <<row, drawn>>
     \/ ~row.linked /\ req[r].invite /\ drawn < MaxDrawn
        /\ row' = [row EXCEPT !.linked = TRUE, !.pw = drawn + 1] /\ drawn' = drawn + 1
  /\ req' = [req EXCEPT ![r].pc = "proved", ![r].who = row']
  /\ UNCHANGED <<oidc, record, cookie, asked, spent, starts>>

(* login; the second factor was the IdP's, and the cookie goes.                 *)
LoginOidc(r) ==
  /\ At(r, "callback", "proved")
  /\ Change(r, [SignedIn(r) EXCEPT !.mfa = TRUE])
  /\ cookie' = FALSE
  /\ UNCHANGED <<oidc, row, drawn, record, asked, spent, starts>>

-----------------------------------------------------------------------------
(* What others do.                                                           *)

(* reset_password, or an administrator, after whom it must be changed.          *)
OtherPassword(force) ==
  /\ NewPassword(force)
  /\ UNCHANGED <<oidc, record, cookie, req, asked, spent, starts>>

Administer(new) ==
  /\ row # new /\ row' = new
  /\ UNCHANGED <<oidc, drawn, record, cookie, req, asked, spent, starts>>

(* disable_mfa; deactivate_user; reactivate_user with the verification it asks for. *)
(* That they change the role, too, is left to Administrators.tla.               *)
DisableFactor == Administer([row EXCEPT !.secret = 0])
DeactivateUser == Administer([row EXCEPT !.secret = 0, !.active = FALSE])
ReactivateUser == Administer([row EXCEPT !.active = TRUE])

(* A day without a request.                                                  *)
Expire ==
  /\ record # Empty /\ record' = Empty
  /\ UNCHANGED <<oidc, row, drawn, cookie, req, asked, spent, starts>>

(* set_pending_invite, clear_pending_invite.  Only OIDC reads the cookie.        *)
SetCookie(b) ==
  /\ oidc /\ cookie # b /\ cookie' = b
  /\ UNCHANGED <<oidc, row, drawn, record, req, asked, spent, starts>>

-----------------------------------------------------------------------------
Next ==
  \/ \E r \in Request :
       \/ \E what \in Local \cup Sso \cup Routes \cup {"logout"}, k \in 0 .. Len(asked) : Arrive(r, what, k)
       \/ Recognise(r) \/ Store(r) \/ Fail(r) \/ Enter(r) \/ Respond(r)
       \/ Authenticate(r) \/ Login(r) \/ MfaVerify(r) \/ MfaConfirmSetup(r)
       \/ CheckPassword(r) \/ MfaDisable(r) \/ ChangePassword(r) \/ Logout(r)
       \/ OidcLogin(r) \/ TakeState(r) \/ ExchangeCode(r) \/ AuthenticateOidc(r) \/ LoginOidc(r)
  \/ \E b \in BOOLEAN : OtherPassword(b) \/ SetCookie(b)
  \/ DisableFactor \/ DeactivateUser \/ ReactivateUser \/ Expire

Spec == Init /\ [][Next]_sessionVars

-----------------------------------------------------------------------------
(* "Invalidated immediately on password change [...] or MFA toggle" (README.md):   *)
(* a request that gets past the gates is signed in with the password and the      *)
(* secret the row had when the gate read it, whatever changed them in between the  *)
(* check of the password, the storing of the session and the request.           *)
CredentialsAreCurrent ==
  \A r \in Request : req[r].pc = "inside" => req[r].rec.proof = Proof(req[r].who)

(* "A stale entry must not bleed into a later login" (oidc_callback): a sign-in      *)
(* uses an invite only if the browser had it when it was sent to the IdP.        *)
InviteOfItsLogin ==
  \A r \in Request :
    req[r].what = "callback" /\ req[r].pc \in {"taken", "exchanged"} /\ req[r].invite => asked[req[r].state]

(* A session is worth what its sign-in was checked against.                     *)
SessionsHold == CredentialsAreCurrent /\ InviteOfItsLogin
=============================================================================
