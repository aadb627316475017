---------------------------- MODULE Credentials ----------------------------
(***************************************************************************)
(* The second factor, the password-reset token and the verification link of *)
(* one account: src/src/admin/auth/backend.rs and the handlers around it in  *)
(* src/src/admin/handlers.rs and src/src/admin/users.rs.                     *)
(*                                                                          *)
(* Every operation reads or writes the account's own row only, so accounts  *)
(* do not meet and one row is enough.  Only resetting a password takes a row *)
(* lock; the other operations find the row, decide, and write the columns   *)
(* they set in a later statement.  Columns they do not set are left alone   *)
(* (sea-orm writes an ActiveModel's Set columns only).  Where what is        *)
(* written does not depend on what was read the two statements are one step. *)
(***************************************************************************)
EXTENDS Naturals, FiniteSets

CONSTANTS Request,       \* requests served concurrently
          Token,         \* plaintext tokens of mails; generated ones are all different
          None,          \* SQL NULL
          MaxAttempts,   \* wrong codes that lock the second factor (3)
          MaxLapses,     \* bound: how often a lock may run out by itself
          MaxCount       \* bound: the largest value of the counter

ASSUME NoneIsNoToken == None \notin Token
ASSUME RequestIsFinite == IsFiniteSet(Request)
ASSUME BoundsAreNumbers ==
  MaxAttempts \in Nat \ {0} /\ MaxLapses \in Nat /\ MaxCount \in Nat

VARIABLES
  active, verified,  \* the flags active and email_verified
  link, linkFresh,   \* verification_token, and that it has not expired
  totp,              \* totp_enabled, with its secret
  attempts, locked,  \* mfa_failed_attempts; mfa_locked_until lies ahead
  reset, cooling,    \* password_reset_token; password_reset_token_expires_at lies ahead
  pc, seen, claim,   \* where each request is, the counter it read, the token it was given
                     \* or has found out of date
  \* history
  mailed,            \* tokens generated so far
  spent, resets,     \* tokens the row gave up for a new password; how many resets went through
  revoked, crossed,  \* tokens generated before the last deactivation; requests it caught in flight
  tried,             \* wrong codes since the counter was last set back or a lock ran out
  windowMails,       \* reset mails since the cooldown was last over
  lapses             \* locks that ran out

row      == <<active, verified, link, linkFresh, totp, attempts, locked, reset, cooling>>
requests == <<pc, seen, claim>>
history  == <<mailed, spent, resets, revoked, crossed, tried, windowMails, lapses>>
vars == <<row, requests, history>>

Init ==
  /\ active = TRUE
  /\ \/ verified = FALSE /\ link \in Token /\ linkFresh = TRUE  \* registered
     \/ verified = TRUE /\ link = None /\ linkFresh = FALSE     \* came by an invite
  /\ totp = FALSE
  /\ attempts = 0 /\ locked = FALSE
  /\ reset = None /\ cooling = FALSE
  /\ pc = [r \in Request |-> "idle"]
  /\ seen = [r \in Request |-> 0]
  /\ claim = [r \in Request |-> None]
  /\ mailed = {link} \ {None}
  /\ spent = {} /\ resets = 0
  /\ revoked = {} /\ crossed = {}
  /\ tried = 0 /\ windowMails = 0 /\ lapses = 0

-----------------------------------------------------------------------------
(* The life of a request.                                                    *)

Goto(r, place) == pc' = [pc EXCEPT ![r] = place]

Give(r, t) == claim' = [claim EXCEPT ![r] = t]

(* A request is answered: what it has read is gone with it.                  *)
Answer(r) ==
  /\ Goto(r, "idle")
  /\ seen' = [seen EXCEPT ![r] = 0]
  /\ Give(r, None)
  /\ crossed' = crossed \ {r}

-----------------------------------------------------------------------------
(* The second factor, asked for at sign-in (mfa_verify) and before a reset    *)
(* mail (forgot_password_verify_mfa).                                        *)

(* Mutant: the cooldown is not looked at.                                    *)
CooldownIgnored == TRUE

CooldownOver == ~cooling

(* mfa_verify: the factor is on, and is_mfa_locked says no.                  *)
MfaVerify(r) ==
  /\ pc[r] = "idle"
  /\ totp /\ ~locked
  /\ Goto(r, "signIn")
  /\ UNCHANGED <<row, seen, claim, history>>

(* forgot_password_verify_mfa: without a second factor the request goes       *)
(* straight to the mail.                                                     *)
ForgotPassword(r) ==
  /\ pc[r] = "idle"
  /\ CooldownOver
  /\ totp => ~locked
  /\ Goto(r, IF totp THEN "forgot" ELSE "asking")
  /\ UNCHANGED <<row, seen, claim, history>>

(* The code is wrong: record_mfa_failure reads the counter ...  Requests that *)
(* passed the lock's check earlier count on beyond MaxAttempts.              *)
WrongCode(r) ==
  /\ pc[r] \in {"signIn", "forgot"}
  /\ attempts < MaxCount
  /\ Goto(r, "failing")
  /\ seen' = [seen EXCEPT ![r] = attempts]
  /\ tried' = tried + 1
  /\ UNCHANGED <<row, claim, mailed, spent, resets, revoked, crossed, windowMails, lapses>>

(* Mutant: the lock waits for one more wrong code.                           *)
EnoughLate(n) == n > MaxAttempts

Enough(n) == n >= MaxAttempts

(* ... and writes one more than it read, with a lock when that is enough.    *)
RecordFailure(r) ==
  /\ pc[r] = "failing"
  /\ attempts' = seen[r] + 1
  /\ locked' = (locked \/ Enough(seen[r] + 1))
  /\ Answer(r)
  /\ UNCHANGED <<active, verified, link, linkFresh, totp, reset, cooling, mailed, spent, resets,
                 revoked, tried, windowMails, lapses>>

SetBack == attempts' = 0 /\ locked' = FALSE /\ tried' = 0

(* The code is right: reset_mfa_failures, and for a reset on to the mail.     *)
RightCode(r) ==
  /\ SetBack
  /\ \/ pc[r] = "signIn" /\ Answer(r)
     \/ pc[r] = "forgot" /\ Goto(r, "asking") /\ UNCHANGED <<seen, claim, crossed>>
  /\ UNCHANGED <<active, verified, link, linkFresh, totp, reset, cooling, mailed, spent, resets,
                 revoked, windowMails, lapses>>

(* The lock's 24 hours are over.                                             *)
LockRunsOut ==
  /\ locked /\ lapses < MaxLapses
  /\ locked' = FALSE
  /\ tried' = 0
  /\ lapses' = lapses + 1
  /\ UNCHANGED <<active, verified, link, linkFresh, totp, attempts, reset, cooling, requests,
                 mailed, spent, resets, revoked, crossed, windowMails>>

(* mfa_confirm_setup: update_totp with a secret leaves counter and lock.      *)
EnableMfa ==
  /\ totp' = TRUE
  /\ UNCHANGED <<active, verified, link, linkFresh, attempts, locked, reset, cooling, requests,
                 history>>

(* mfa_disable, and an administrator's disable_mfa.                          *)
DisableMfa ==
  /\ totp' = FALSE
  /\ SetBack
  /\ UNCHANGED <<active, verified, link, linkFresh, reset, cooling, requests, mailed, spent,
                 resets, revoked, crossed, windowMails, lapses>>

(* An administrator's reset_mfa_lockout.                                     *)
ResetLockout ==
  /\ SetBack
  /\ UNCHANGED <<active, verified, link, linkFresh, totp, reset, cooling, requests, mailed, spent,
                 resets, revoked, crossed, windowMails, lapses>>

-----------------------------------------------------------------------------
(* Password reset.                                                           *)

(* create_password_reset_token looks at the cooldown once more ...           *)
CheckCooldown(r) ==
  /\ pc[r] = "asking"
  /\ \/ CooldownOver /\ Goto(r, "minting") /\ UNCHANGED <<seen, claim, crossed>>
     \/ ~CooldownOver /\ Answer(r)
  /\ UNCHANGED <<row, mailed, spent, resets, revoked, tried, windowMails, lapses>>

(* ... and stores a token, which the handler mails.                          *)
MintReset(r, t) ==
  /\ pc[r] = "minting"
  /\ t \notin mailed
  /\ reset' = t /\ cooling' = TRUE
  /\ mailed' = mailed \cup {t}
  /\ windowMails' = windowMails + 1
  /\ Answer(r)
  /\ UNCHANGED <<active, verified, link, linkFresh, totp, attempts, locked, spent, resets, revoked,
                 tried, lapses>>

(* reset_password: validate_reset_token finds the token and its hour lasts.   *)
(* It runs twice in a row, for the handler and in reset_password_with_token.  *)
ValidateReset(r, t) ==
  /\ pc[r] = "idle"
  /\ t = reset /\ cooling
  /\ Goto(r, "hashing") /\ Give(r, t)
  /\ UNCHANGED <<row, seen, history>>

(* The password is hashed; then the time is taken the row's expiry will be    *)
(* compared with.  When the hour is over by then, only a token stored since    *)
(* will do: the request keeps the one that will not.                          *)
TakeTime(r) ==
  /\ pc[r] = "hashing"
  /\ \/ cooling /\ Goto(r, "resetting") /\ UNCHANGED claim
     \/ ~cooling /\ Goto(r, "late") /\ Give(r, reset)
  /\ UNCHANGED <<row, seen, history>>

(* Mutant: the locked row is taken as it is.                                 *)
AnyRow == TRUE

TokenThere == reset # None

InTime(r) == pc[r] = "resetting" \/ (pc[r] = "late" /\ reset # claim[r])

(* The transaction: the row is locked if it has a token, whichever that is,    *)
(* that was good at the time taken before, or was stored since and is good for *)
(* an hour.  The expiry stays as the cooldown.                               *)
ResetPassword(r) ==
  /\ InTime(r) /\ TokenThere
  /\ reset' = None
  /\ spent' = spent \cup {reset}
  /\ resets' = resets + 1
  /\ Answer(r)
  /\ UNCHANGED <<active, verified, link, linkFresh, totp, attempts, locked, cooling, mailed, revoked,
                 tried, windowMails, lapses>>

RefuseReset(r) ==
  /\ pc[r] \in {"resetting", "late"}
  /\ ~(InTime(r) /\ TokenThere)
  /\ Answer(r)
  /\ UNCHANGED <<row, mailed, spent, resets, revoked, tried, windowMails, lapses>>

(* The token's hour, and with it the cooldown, is over.                      *)
CooldownRunsOut ==
  /\ cooling
  /\ cooling' = FALSE /\ windowMails' = 0
  /\ UNCHANGED <<active, verified, link, linkFresh, totp, attempts, locked, reset, requests, mailed,
                 spent, resets, revoked, crossed, tried, lapses>>

-----------------------------------------------------------------------------
(* Verification and deactivation.                                            *)

(* verify_email: the link is the row's and has not expired ...               *)
OpenLink(r, t) ==
  /\ pc[r] = "idle"
  /\ t = link /\ linkFresh
  /\ Goto(r, "verifying") /\ Give(r, t)
  /\ UNCHANGED <<row, seen, history>>

(* ... and the flag is set, whatever has become of the row since.            *)
VerifyEmail(r) ==
  /\ pc[r] = "verifying"
  /\ verified' = TRUE
  /\ link' = None /\ linkFresh' = FALSE
  /\ Answer(r)
  /\ UNCHANGED <<active, totp, attempts, locked, reset, cooling, mailed, spent, resets, revoked,
                 tried, windowMails, lapses>>

LinkExpires ==
  /\ linkFresh
  /\ linkFresh' = FALSE
  /\ UNCHANGED <<active, verified, link, totp, attempts, locked, reset, cooling, requests, history>>

NewLink(t) ==
  /\ t \notin mailed
  /\ link' = t /\ linkFresh' = TRUE
  /\ mailed' = mailed \cup {t}

(* resend_verification_email: regenerate_verification_token.                 *)
ResendLink(t) ==
  /\ active /\ ~verified
  /\ NewLink(t)
  /\ UNCHANGED <<active, verified, totp, attempts, locked, reset, cooling, requests, spent, resets,
                 revoked, crossed, tried, windowMails, lapses>>

(* update_admin_user sets email_verified either way.                         *)
SetVerified(b) ==
  /\ verified' = b
  /\ UNCHANGED <<active, link, linkFresh, totp, attempts, locked, reset, cooling, requests, history>>

(* Mutant: deactivation clears the link and forgets the reset token.         *)
ClearLink ==
  /\ link' = None /\ linkFresh' = FALSE
  /\ UNCHANGED <<reset, cooling>>

(* What deactivate_user clears besides the second factor.                    *)
ClearTokens ==
  /\ link' = None /\ linkFresh' = FALSE
  /\ reset' = None /\ cooling' = FALSE

Deactivate ==
  /\ active
  /\ active' = FALSE
  /\ totp' = FALSE
  /\ ClearTokens
  /\ SetBack
  /\ windowMails' = 0
  /\ revoked' = mailed
  /\ crossed' = {r \in Request : pc[r] # "idle"}
  /\ UNCHANGED <<verified, requests, mailed, spent, resets, lapses>>

Reactivate(t) ==
  /\ ~active
  /\ active' = TRUE
  /\ verified' = FALSE
  /\ NewLink(t)
  /\ UNCHANGED <<totp, attempts, locked, reset, cooling, requests, spent, resets, revoked, crossed,
                 tried, windowMails, lapses>>

-----------------------------------------------------------------------------
MfaStep(r)   == MfaVerify(r) \/ ForgotPassword(r) \/ WrongCode(r) \/ RecordFailure(r) \/ RightCode(r)
ResetStep(r) == \/ CheckCooldown(r) \/ TakeTime(r) \/ ResetPassword(r) \/ RefuseReset(r)
                \/ \E t \in Token : MintReset(r, t) \/ ValidateReset(r, t)
LinkStep(r)  == VerifyEmail(r) \/ \E t \in Token : OpenLink(r, t)
Clock == LockRunsOut \/ CooldownRunsOut \/ LinkExpires
Administration == \/ ResetLockout \/ DisableMfa \/ Deactivate
                  \/ \E b \in BOOLEAN : SetVerified(b)
                  \/ \E t \in Token : ResendLink(t) \/ Reactivate(t)

Next == \/ \E r \in Request : MfaStep(r) \/ ResetStep(r) \/ LinkStep(r)
        \/ Clock \/ EnableMfa \/ Administration

Spec == Init /\ [][Next]_vars

-----------------------------------------------------------------------------
TypeOK ==
  /\ active \in BOOLEAN /\ verified \in BOOLEAN /\ totp \in BOOLEAN
  /\ link \in Token \cup {None} /\ linkFresh \in BOOLEAN
  /\ attempts \in Nat /\ locked \in BOOLEAN
  /\ reset \in Token \cup {None} /\ cooling \in BOOLEAN
  /\ pc \in [Request -> {"idle", "signIn", "forgot", "failing", "asking", "minting", "hashing",
                         "resetting", "late", "verifying"}]
  /\ seen \in [Request -> Nat]
  /\ claim \in [Request -> Token \cup {None}]
  /\ mailed \in SUBSET Token /\ spent \in SUBSET Token /\ revoked \in SUBSET Token
  /\ crossed \in SUBSET Request
  /\ resets \in Nat /\ tried \in Nat /\ windowMails \in Nat /\ lapses \in Nat

(* Each password reset uses up a token of its own: however many requests      *)
(* present a token at once, and whatever is mailed, expires or is cleared     *)
(* meanwhile, there are never more resets than tokens were given up for them  *)
(* (reset_password_with_token's check under the row lock).                   *)
TokenSpentOnce == resets = Cardinality(spent)

(* How the requests may stand below the lock: h[n] of them would, or will,     *)
(* write a counter of at most n.                                             *)
Standings ==
  {h \in [1 .. (MaxAttempts - 1) -> 0 .. Cardinality(Request)] :
     \A m, n \in 1 .. (MaxAttempts - 1) : m < n => h[m] =< h[n]}

(* record_mfa_failure loses updates, and a late write sets the counter back;  *)
(* yet between two resets of the counter, or from a lock's end on, the wrong  *)
(* codes looked at are bounded.  No standing comes twice before the lock, and *)
(* after it each of the other requests in flight has one code left.  With the *)
(* lock at three that is 3 for one request, 7 for two, 12 for three.          *)
WrongCodesBounded == tried =< Cardinality(Standings) + Cardinality(Request) - 1

(* Between two ends of the cooldown each of the requests in flight can get    *)
(* past its two checks at most once, so no more mails go out than that.       *)
MailsPerWindow == windowMails <= Cardinality(Request)

(* "Clear sensitive data on deactivation": a token or link mailed before a    *)
(* deactivation changes nothing after it, even if the account is active again *)
(* or new tokens are out, unless the deactivation caught its request after    *)
(* the look-up.                                                              *)
DeactivationRevokes ==
  [][\A r \in Request :
       ResetPassword(r) \/ VerifyEmail(r) =>
         claim[r] \notin revoked \/ r \in crossed]_vars
=============================================================================
