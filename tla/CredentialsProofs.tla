------------------------- MODULE CredentialsProofs -------------------------
(***************************************************************************)
(* Credentials.tla for any number of requests, tokens and attempts.         *)
(* Four facts carry the proofs: a token the row gives up never comes back    *)
(* (SpentInv), what a deactivation has revoked is neither in the row nor in   *)
(* the hands of a request that came later (RevokeInv), a request that may    *)
(* still mint got there before the window's first mail (WindowInv), and the   *)
(* requests' standing below the lock only climbs (TriesInv).                 *)
(***************************************************************************)
EXTENDS Credentials, FiniteSetTheorems, TLAPS

SpentInv ==
  /\ reset \in mailed \cup {None} /\ link \in mailed \cup {None}
  /\ spent \subseteq mailed /\ reset \notin spent
  /\ IsFiniteSet(spent)
  /\ resets = Cardinality(spent)

RevokeInv ==
  /\ revoked \subseteq mailed
  /\ link \notin revoked /\ reset \notin revoked
  /\ \A r \in Request : pc[r] \in {"hashing", "resetting", "late", "verifying"} =>
       claim[r] \notin revoked \/ r \in crossed

Minting == {r \in Request : pc[r] = "minting"}

WindowInv ==
  /\ ~cooling => windowMails = 0
  /\ windowMails + Cardinality(Minting) <= Cardinality(Request)

(* What r has written or would write into the counter if its code is wrong.   *)
Level(r) == IF pc[r] = "failing" THEN seen[r] + 1 ELSE attempts + 1

Standing == [n \in 1 .. (MaxAttempts - 1) |-> Cardinality({r \in Request : Level(r) =< n})]

(* g is further than h: fewer stand at or below some value, and no more below *)
(* any value before it.                                                      *)
Further(h, g) ==
  \E n \in 1 .. (MaxAttempts - 1) :
    /\ g[n] < h[n]
    /\ \A m \in 1 .. (MaxAttempts - 1) : m < n => g[m] =< h[m]

Passed(g) == {h \in Standings : Further(h, g)}

Failing == {r \in Request : pc[r] = "failing"}

AtCode == {r \in Request : pc[r] \in {"signIn", "forgot"}}

(* Each wrong code has been written, and left a standing behind, or its       *)
(* request is about to write; under a lock the requests at their code are     *)
(* all that is left.                                                         *)
TriesInv ==
  /\ ~locked => tried =< Cardinality(Passed(Standing)) + Cardinality(Failing)
  /\ locked => tried + Cardinality(AtCode) =< Cardinality(Standings) + Cardinality(Request) - 1

IInv == TypeOK /\ SpentInv /\ RevokeInv /\ WindowInv /\ TriesInv

-----------------------------------------------------------------------------
(* Helpers.                                                                  *)

LEMMA RequestCount == Cardinality(Request) \in Nat
BY RequestIsFinite, FS_CardinalityType

LEMMA MintingCount ==
  /\ IsFiniteSet(Minting)
  /\ Cardinality(Minting) \in Nat /\ Cardinality(Minting) <= Cardinality(Request)
<1>1. Minting \subseteq Request
  BY DEF Minting
<1> QED BY <1>1, RequestIsFinite, FS_Subset, FS_CardinalityType

(* A step after which no more requests are about to mint, and no more mails   *)
(* are counted, keeps the window's sum; so does one that starts a new window. *)
LEMMA WindowKept ==
  ASSUME TypeOK, WindowInv, Minting' \subseteq Minting,
         \/ windowMails' = windowMails /\ cooling' = cooling
         \/ windowMails' = 0 /\ cooling' = FALSE
  PROVE  WindowInv'
<1>1. /\ Cardinality(Minting') \in Nat
      /\ Cardinality(Minting') <= Cardinality(Minting)
  BY MintingCount, FS_Subset, FS_CardinalityType
<1>2. windowMails' <= windowMails
  BY DEF TypeOK
<1> QED BY <1>1, <1>2, MintingCount, RequestCount DEF WindowInv, TypeOK

-----------------------------------------------------------------------------
(* Standings and what has been passed.                                       *)

(* There are finitely many standings: each is told by its graph.              *)
LEMMA StandingsFinite == IsFiniteSet(Standings) /\ Cardinality(Standings) \in Nat
<1> DEFINE X == 1 .. (MaxAttempts - 1)
           Y == 0 .. Cardinality(Request)
           f == [h \in Standings |-> {<<x, h[x]>> : x \in X}]
<1>1. IsFiniteSet(X) /\ IsFiniteSet(Y)
  BY RequestCount, BoundsAreNumbers, FS_Interval
<1>2. IsFiniteSet(SUBSET (X \X Y))
  BY <1>1, FS_Product, FS_SUBSET
<1>3. f \in [Standings -> SUBSET (X \X Y)]
  <2>1. ASSUME NEW h \in Standings PROVE {<<x, h[x]>> : x \in X} \in SUBSET (X \X Y)
    BY DEF Standings
  <2> QED BY <2>1
<1>4. ASSUME NEW h \in Standings, NEW g \in Standings, f[h] = f[g] PROVE h = g
  <2>1. h \in [X -> Y] /\ g \in [X -> Y]
    BY DEF Standings
  <2>2. ASSUME NEW x \in X PROVE h[x] = g[x]
    <3>1. <<x, h[x]>> \in f[h]
      OBVIOUS
    <3>2. PICK y \in X : <<x, h[x]>> = <<y, g[y]>>
      BY <1>4, <3>1
    <3> QED BY <3>2
  <2> HIDE DEF X, Y, f
  <2>3. h = [x \in X |-> h[x]] /\ g = [x \in X |-> g[x]]
    BY <2>1
  <2> QED BY <2>2, <2>3
<1>5. f \in Injection(Standings, SUBSET (X \X Y))
  BY <1>3, <1>4 DEF Injection, IsInjective
<1> QED BY <1>2, <1>5, FS_Injection, FS_CardinalityType

LEMMA PassedCount ==
  ASSUME NEW g
  PROVE  IsFiniteSet(Passed(g)) /\ Cardinality(Passed(g)) \in Nat
<1>1. Passed(g) \subseteq Standings
  BY DEF Passed
<1> QED BY <1>1, StandingsFinite, FS_Subset, FS_CardinalityType

(* No standing passes itself, so there is always one that has not been left.   *)
LEMMA NotPassed ==
  ASSUME NEW g \in Standings
  PROVE  g \notin Passed(g) /\ Cardinality(Passed(g)) + 1 =< Cardinality(Standings)
<1>1. \A n \in 1 .. (MaxAttempts - 1) : g[n] \in Nat
  BY RequestCount DEF Standings
<1>2. g \notin Passed(g)
  BY <1>1 DEF Passed, Further
<1>3. Passed(g) \cup {g} \subseteq Standings
  BY DEF Passed
<1>4. Cardinality(Passed(g) \cup {g}) = Cardinality(Passed(g)) + 1
  BY <1>2, PassedCount, FS_AddElement
<1> QED BY <1>2, <1>3, <1>4, StandingsFinite, FS_Subset

(* Who climbs has passed one more.                                           *)
LEMMA Climbing ==
  ASSUME NEW h \in Standings, NEW g \in Standings, Further(h, g)
  PROVE  Cardinality(Passed(h)) + 1 =< Cardinality(Passed(g))
<1> DEFINE X == 1 .. (MaxAttempts - 1)
<1>1. X \subseteq Nat
  BY BoundsAreNumbers
<1>2. ASSUME NEW p \in Passed(h) PROVE Further(p, g)
  <2>1. \A x \in X : p[x] \in Nat /\ h[x] \in Nat /\ g[x] \in Nat
    BY RequestCount DEF Passed, Standings
  <2>2. PICK m \in X : h[m] < p[m] /\ \A x \in X : x < m => h[x] =< p[x]
    BY DEF Passed, Further
  <2>3. PICK n \in X : g[n] < h[n] /\ \A x \in X : x < n => g[x] =< h[x]
    BY DEF Further
  <2>4. CASE m =< n
    <3>1. g[m] < p[m]
      BY <1>1, <2>1, <2>2, <2>3, <2>4
    <3>2. \A x \in X : x < m => g[x] =< p[x]
      BY <1>1, <2>1, <2>2, <2>3, <2>4
    <3> QED BY <3>1, <3>2 DEF Further
  <2>5. CASE n < m
    <3>1. g[n] < p[n]
      BY <1>1, <2>1, <2>2, <2>3, <2>5
    <3>2. \A x \in X : x < n => g[x] =< p[x]
      BY <1>1, <2>1, <2>2, <2>3, <2>5
    <3> QED BY <3>1, <3>2 DEF Further
  <2> QED BY <1>1, <2>4, <2>5
<1>3. Passed(h) \cup {h} \subseteq Passed(g)
  BY <1>2 DEF Passed
<1>4. Cardinality(Passed(h) \cup {h}) = Cardinality(Passed(h)) + 1
  BY NotPassed, PassedCount, FS_AddElement
<1> QED BY <1>3, <1>4, PassedCount, FS_Subset

LEMMA RequestsCounted ==
  ASSUME NEW S \in SUBSET Request
  PROVE  IsFiniteSet(S) /\ Cardinality(S) \in Nat /\ Cardinality(S) =< Cardinality(Request)
BY RequestIsFinite, FS_Subset, FS_CardinalityType

(* Counts of who is at or below a value make a standing.                      *)
LEMMA LevelsStand ==
  ASSUME NEW l \in [Request -> Nat]
  PROVE  [n \in 1 .. (MaxAttempts - 1) |-> Cardinality({r \in Request : l[r] =< n})] \in Standings
<1> DEFINE X == 1 .. (MaxAttempts - 1)
           B(n) == {r \in Request : l[r] =< n}
<1>1. \A n \in X : Cardinality(B(n)) \in 0 .. Cardinality(Request)
  BY RequestsCounted, RequestCount
<1>2. ASSUME NEW m \in X, NEW n \in X, m < n PROVE Cardinality(B(m)) =< Cardinality(B(n))
  <2>1. B(m) \subseteq B(n)
    BY <1>2, BoundsAreNumbers
  <2>2. IsFiniteSet(B(n))
    BY RequestsCounted
  <2> HIDE DEF B
  <2> QED BY <2>1, <2>2, FS_Subset
<1> HIDE DEF B
<1>3. [n \in X |-> Cardinality(B(n))] \in Standings
  BY <1>1, <1>2 DEF Standings
<1> QED BY <1>3 DEF B

LEMMA StandingStands ==
  /\ TypeOK => Standing \in Standings
  /\ TypeOK' => Standing' \in Standings
<1>1. ASSUME TypeOK PROVE Standing \in Standings
  <2> DEFINE l == [r \in Request |-> Level(r)]
  <2>1. l \in [Request -> Nat]
    BY <1>1 DEF Level, TypeOK
  <2>2. \A n : {r \in Request : Level(r) =< n} = {r \in Request : l[r] =< n}
    OBVIOUS
  <2> HIDE DEF l
  <2> QED BY <2>1, <2>2, LevelsStand DEF Standing
<1>2. ASSUME TypeOK' PROVE Standing' \in Standings
  <2> DEFINE l == [r \in Request |-> Level(r)']
  <2>0. seen' \in [Request -> Nat] /\ attempts' \in Nat
    BY <1>2 DEF TypeOK
  <2>1. ASSUME NEW r \in Request PROVE Level(r)' \in Nat
    <3>1. Level(r)' = IF pc'[r] = "failing" THEN seen'[r] + 1 ELSE attempts' + 1
      BY DEF Level
    <3>2. seen'[r] \in Nat /\ attempts' \in Nat
      BY <2>0
    <3>3. \A a \in Nat : a + 1 \in Nat
      OBVIOUS
    <3>4. seen'[r] + 1 \in Nat /\ attempts' + 1 \in Nat
      BY <3>2, <3>3, Zenon
    <3> QED BY <3>1, <3>4, Zenon
  <2>3. l \in [Request -> Nat]
    BY <2>1
  <2>2. \A n : {r \in Request : Level(r)' =< n} = {r \in Request : l[r] =< n}
    OBVIOUS
  <2> HIDE DEF l
  <2> QED BY <2>2, <2>3, LevelsStand DEF Standing
<1> QED BY <1>1, <1>2

-----------------------------------------------------------------------------
LEMMA InitInv == Init => IInv
<1> SUFFICES ASSUME Init PROVE IInv
  OBVIOUS
<1>1. TypeOK
  BY BoundsAreNumbers DEF Init, TypeOK
<1>2. SpentInv
  BY FS_EmptySet DEF Init, SpentInv
<1>3. RevokeInv
  BY DEF Init, RevokeInv
<1>4. WindowInv
  <2>1. Minting = {}
    BY DEF Init, Minting
  <2> QED BY <2>1, FS_EmptySet, RequestCount DEF Init, WindowInv
<1>5. TriesInv
  <2>1. Cardinality(Failing) \in Nat
    BY RequestsCounted DEF Failing
  <2> QED BY <2>1, PassedCount DEF Init, TriesInv
<1> QED BY <1>1, <1>2, <1>3, <1>4, <1>5 DEF IInv

LEMMA StepType == TypeOK /\ [Next]_vars => TypeOK'
<1> SUFFICES ASSUME TypeOK, [Next]_vars PROVE TypeOK'
  OBVIOUS
<1> USE DEF TypeOK, row, requests, history, Answer, Goto, Give
<1>1. ASSUME NEW r \in Request, MfaStep(r) PROVE TypeOK'
  <2>1. CASE MfaVerify(r)
    BY <2>1 DEF MfaVerify
  <2>2. CASE ForgotPassword(r)
    BY <2>2 DEF ForgotPassword
  <2>3. CASE WrongCode(r)
    BY <2>3 DEF WrongCode
  <2>4. CASE RecordFailure(r)
    BY <2>4 DEF RecordFailure, Enough
  <2>5. CASE RightCode(r)
    <3>1. attempts' = 0 /\ locked' = FALSE /\ tried' = 0
      BY <2>5 DEF RightCode, SetBack
    <3>2. /\ pc' = [pc EXCEPT ![r] = "idle"] \/ pc' = [pc EXCEPT ![r] = "asking"]
          /\ seen' = [seen EXCEPT ![r] = 0] \/ seen' = seen
          /\ claim' = [claim EXCEPT ![r] = None] \/ claim' = claim
          /\ crossed' = crossed \ {r} \/ crossed' = crossed
      BY <2>5 DEF RightCode
    <3>3. /\ pc' \in [Request -> {"idle", "signIn", "forgot", "failing", "asking", "minting",
                                  "hashing", "resetting", "late", "verifying"}]
          /\ seen' \in [Request -> Nat]
          /\ claim' \in [Request -> Token \cup {None}]
          /\ crossed' \in SUBSET Request
      BY <3>2
    <3>4. UNCHANGED <<active, verified, link, linkFresh, totp, reset, cooling, mailed, spent, resets,
                      revoked, windowMails, lapses>>
      BY <2>5 DEF RightCode
    <3> QED BY <3>1, <3>3, <3>4
  <2> QED BY <1>1, <2>1, <2>2, <2>3, <2>4, <2>5 DEF MfaStep
<1>2. ASSUME NEW r \in Request, ResetStep(r) PROVE TypeOK'
  <2>1. CASE CheckCooldown(r)
    BY <2>1 DEF CheckCooldown
  <2>2. CASE TakeTime(r)
    BY <2>2 DEF TakeTime
  <2>3. CASE ResetPassword(r)
    BY <2>3 DEF ResetPassword, TokenThere
  <2>4. CASE RefuseReset(r)
    BY <2>4 DEF RefuseReset
  <2>5. ASSUME NEW t \in Token, MintReset(r, t) PROVE TypeOK'
    BY <2>5 DEF MintReset
  <2>6. ASSUME NEW t \in Token, ValidateReset(r, t) PROVE TypeOK'
    BY <2>6 DEF ValidateReset
  <2> QED BY <1>2, <2>1, <2>2, <2>3, <2>4, <2>5, <2>6 DEF ResetStep
<1>3. ASSUME NEW r \in Request, LinkStep(r) PROVE TypeOK'
  <2>1. CASE VerifyEmail(r)
    BY <2>1 DEF VerifyEmail
  <2>2. ASSUME NEW t \in Token, OpenLink(r, t) PROVE TypeOK'
    BY <2>2 DEF OpenLink
  <2> QED BY <1>3, <2>1, <2>2 DEF LinkStep
<1>4. CASE LockRunsOut
  <2>1. locked' = FALSE /\ tried' = 0 /\ lapses' \in Nat
    BY <1>4 DEF LockRunsOut
  <2>2. UNCHANGED <<active, verified, link, linkFresh, totp, attempts, reset, cooling, pc, seen,
                    claim, mailed, spent, resets, revoked, crossed, windowMails>>
    BY <1>4 DEF LockRunsOut
  <2> QED BY <2>1, <2>2
<1>5. CASE CooldownRunsOut
  BY <1>5 DEF CooldownRunsOut
<1>6. CASE LinkExpires
  BY <1>6 DEF LinkExpires
<1>7. CASE EnableMfa
  BY <1>7 DEF EnableMfa
<1>8. CASE ResetLockout
  BY <1>8 DEF ResetLockout, SetBack
<1>9. CASE DisableMfa
  BY <1>9 DEF DisableMfa, SetBack
<1>10. CASE Deactivate
  <2>1. /\ active' = FALSE /\ totp' = FALSE /\ link' = None /\ linkFresh' = FALSE
        /\ reset' = None /\ cooling' = FALSE /\ attempts' = 0 /\ locked' = FALSE
        /\ tried' = 0 /\ windowMails' = 0 /\ revoked' = mailed
    BY <1>10 DEF Deactivate, ClearTokens, SetBack
  <2>2. /\ crossed' \in SUBSET Request
        /\ UNCHANGED <<verified, pc, seen, claim, mailed, spent, resets, lapses>>
    BY <1>10 DEF Deactivate
  <2> QED BY <2>1, <2>2
<1>11. ASSUME NEW b \in BOOLEAN, SetVerified(b) PROVE TypeOK'
  BY <1>11 DEF SetVerified
<1>12. ASSUME NEW t \in Token, ResendLink(t) PROVE TypeOK'
  BY <1>12 DEF ResendLink, NewLink
<1>13. ASSUME NEW t \in Token, Reactivate(t) PROVE TypeOK'
  BY <1>13 DEF Reactivate, NewLink
<1>14. CASE UNCHANGED vars
  BY <1>14 DEF vars
<1> QED
  BY <1>1, <1>2, <1>3, <1>4, <1>5, <1>6, <1>7, <1>8, <1>9, <1>10, <1>11, <1>12, <1>13, <1>14
     DEF Next, Clock, Administration

LEMMA StepSpent == TypeOK /\ SpentInv /\ [Next]_vars => SpentInv'
<1> SUFFICES ASSUME TypeOK, SpentInv, [Next]_vars PROVE SpentInv'
  OBVIOUS
<1>1. ASSUME NEW r \in Request, ResetPassword(r) PROVE SpentInv'
  <2>1. reset \in Token /\ reset \notin spent
    BY <1>1 DEF ResetPassword, TokenThere, TypeOK, SpentInv
  <2>2. spent' = spent \cup {reset} /\ resets' = resets + 1 /\ reset' = None
        /\ link' = link /\ mailed' = mailed
    BY <1>1 DEF ResetPassword
  <2>3. IsFiniteSet(spent') /\ Cardinality(spent') = Cardinality(spent) + 1
    BY <2>1, <2>2, FS_AddElement DEF SpentInv
  <2>4. None \notin spent'
    BY <2>1, <2>2, NoneIsNoToken DEF TypeOK
  <2> QED BY <2>1, <2>2, <2>3, <2>4 DEF SpentInv
<1>2. ASSUME NEW r \in Request, NEW t \in Token, MintReset(r, t) PROVE SpentInv'
  BY <1>2 DEF MintReset, SpentInv
<1>3. ASSUME NEW t \in Token, ResendLink(t) \/ Reactivate(t) PROVE SpentInv'
  BY <1>3 DEF ResendLink, Reactivate, NewLink, SpentInv
<1>4. CASE Deactivate
  BY <1>4, NoneIsNoToken DEF Deactivate, ClearTokens, SpentInv, TypeOK
<1>5. ASSUME NEW r \in Request, VerifyEmail(r) PROVE SpentInv'
  BY <1>5 DEF VerifyEmail, SpentInv
<1>6. CASE UNCHANGED <<link, reset, mailed, spent, resets>>
  BY <1>6 DEF SpentInv
<1>7. ASSUME NEW r \in Request,
             \/ MfaStep(r) \/ CheckCooldown(r) \/ TakeTime(r) \/ RefuseReset(r)
             \/ \E t \in Token : ValidateReset(r, t) \/ OpenLink(r, t)
      PROVE  UNCHANGED <<link, reset, mailed, spent, resets>>
  BY <1>7 DEF MfaStep, MfaVerify, ForgotPassword, WrongCode, RecordFailure, RightCode, CheckCooldown,
              TakeTime, RefuseReset, ValidateReset, OpenLink, row, history
<1>8. CASE Clock \/ EnableMfa \/ ResetLockout \/ DisableMfa \/ \E b \in BOOLEAN : SetVerified(b)
  BY <1>6, <1>8 DEF Clock, LockRunsOut, CooldownRunsOut, LinkExpires, EnableMfa, ResetLockout,
                    DisableMfa, SetVerified, history
<1>9. CASE UNCHANGED vars
  BY <1>6, <1>9 DEF vars, row, history
<1> QED
  BY <1>1, <1>2, <1>3, <1>4, <1>5, <1>6, <1>7, <1>8, <1>9
     DEF Next, ResetStep, LinkStep, Administration

LEMMA StepRevoke == TypeOK /\ SpentInv /\ RevokeInv /\ [Next]_vars => RevokeInv'
<1> SUFFICES ASSUME TypeOK, SpentInv, RevokeInv, [Next]_vars PROVE RevokeInv'
  OBVIOUS
<1> DEFINE Held(r) == pc[r] \in {"hashing", "resetting", "late", "verifying"} =>
                        claim[r] \notin revoked \/ r \in crossed
<1>1. ASSUME NEW r \in Request, revoked' = revoked, revoked \subseteq mailed',
             link' = link \/ link' \notin revoked, reset' = reset \/ reset' \notin revoked,
             Held(r)',
             \A q \in Request \ {r} : /\ pc'[q] = pc[q] /\ claim'[q] = claim[q]
                                      /\ q \in crossed => q \in crossed'
      PROVE  RevokeInv'
  BY <1>1 DEF RevokeInv
<1>2. CASE UNCHANGED <<revoked, mailed, link, reset, pc, claim, crossed>>
  BY <1>2 DEF RevokeInv
<1>3. None \notin revoked
  BY NoneIsNoToken DEF TypeOK
<1>4. ASSUME NEW r \in Request, pc' = [pc EXCEPT ![r] = "idle"],
             claim' = [claim EXCEPT ![r] = None], crossed' = crossed \ {r}
      PROVE  /\ Held(r)'
             /\ \A q \in Request \ {r} : /\ pc'[q] = pc[q] /\ claim'[q] = claim[q]
                                         /\ q \in crossed => q \in crossed'
  BY <1>4 DEF TypeOK
<1>5. ASSUME NEW r \in Request, NEW place \in {"signIn", "forgot", "failing", "asking", "minting"},
             pc' = [pc EXCEPT ![r] = place], UNCHANGED <<revoked, mailed, link, reset, claim, crossed>>
      PROVE  RevokeInv'
  <2>1. pc'[r] = place /\ \A q \in Request \ {r} : pc'[q] = pc[q]
    BY <1>5 DEF TypeOK
  <2> QED BY <1>5, <2>1 DEF RevokeInv
<1>6. ASSUME NEW r \in Request, MfaStep(r) PROVE RevokeInv'
  <2>1. UNCHANGED <<revoked, mailed, link, reset>>
    BY <1>6 DEF MfaStep, MfaVerify, ForgotPassword, WrongCode, RecordFailure, RightCode, row, history
  <2>2. CASE RecordFailure(r) \/ (RightCode(r) /\ Answer(r))
    <3>1. /\ pc' = [pc EXCEPT ![r] = "idle"]
          /\ claim' = [claim EXCEPT ![r] = None] /\ crossed' = crossed \ {r}
      BY <2>2 DEF RecordFailure, Answer, Goto, Give
    <3> QED BY <1>1, <1>4, <2>1, <3>1 DEF RevokeInv
  <2>3. CASE MfaVerify(r)
    BY <1>5, <2>1, <2>3 DEF MfaVerify, Goto, history
  <2>4. CASE ForgotPassword(r)
    <3>1. \/ pc' = [pc EXCEPT ![r] = "forgot"]
          \/ pc' = [pc EXCEPT ![r] = "asking"]
      BY <2>4 DEF ForgotPassword, Goto
    <3>2. UNCHANGED <<claim, crossed>>
      BY <2>4 DEF ForgotPassword, history
    <3> QED BY <1>5, <2>1, <3>1, <3>2
  <2>5. CASE WrongCode(r)
    BY <1>5, <2>1, <2>5 DEF WrongCode, Goto
  <2>6. CASE RightCode(r) /\ Goto(r, "asking") /\ UNCHANGED <<seen, claim, crossed>>
    BY <1>5, <2>1, <2>6 DEF Goto
  <2> QED BY <1>6, <2>2, <2>3, <2>4, <2>5, <2>6 DEF MfaStep, RightCode
<1>7. ASSUME NEW r \in Request, CheckCooldown(r) \/ TakeTime(r) \/ RefuseReset(r) PROVE RevokeInv'
  <2>1. UNCHANGED <<revoked, mailed, link, reset>>
    BY <1>7 DEF CheckCooldown, TakeTime, RefuseReset, row, history
  <2>2. CASE Answer(r)
    <3>1. /\ pc' = [pc EXCEPT ![r] = "idle"]
          /\ claim' = [claim EXCEPT ![r] = None] /\ crossed' = crossed \ {r}
      BY <2>2 DEF Answer, Goto, Give
    <3> QED BY <1>1, <1>4, <2>1, <3>1 DEF RevokeInv
  <2>3. CASE Goto(r, "minting") /\ UNCHANGED <<seen, claim, crossed>>
    BY <1>5, <2>1, <2>3 DEF Goto
  <2>4. CASE pc[r] = "hashing" /\ Goto(r, "resetting") /\ UNCHANGED <<claim, crossed>>
    <3>1. /\ Held(r)'
          /\ \A q \in Request \ {r} : pc'[q] = pc[q]
      BY <2>1, <2>4 DEF Goto, RevokeInv, TypeOK
    <3> QED BY <1>1, <2>1, <2>4, <3>1 DEF RevokeInv
  <2>5. CASE Goto(r, "late") /\ Give(r, reset) /\ UNCHANGED crossed
    <3>1. /\ claim'[r] = reset
          /\ \A q \in Request \ {r} : pc'[q] = pc[q] /\ claim'[q] = claim[q]
      BY <2>5 DEF Goto, Give, TypeOK
    <3>2. Held(r)'
      BY <2>1, <3>1 DEF RevokeInv
    <3> QED BY <1>1, <2>1, <2>5, <3>1, <3>2 DEF RevokeInv
  <2> QED BY <1>7, <2>2, <2>3, <2>4, <2>5 DEF CheckCooldown, TakeTime, RefuseReset, history
<1>8. ASSUME NEW r \in Request, NEW t \in Token, ValidateReset(r, t) \/ OpenLink(r, t)
      PROVE  RevokeInv'
  <2>1. /\ UNCHANGED <<revoked, mailed, link, reset, crossed>>
        /\ t \in {reset, link}
        /\ claim' = [claim EXCEPT ![r] = t]
        /\ \A q \in Request \ {r} : pc'[q] = pc[q]
    BY <1>8 DEF ValidateReset, OpenLink, Goto, Give, row, history, TypeOK
  <2>2. t \notin revoked
    BY <2>1 DEF RevokeInv
  <2>3. /\ Held(r)'
        /\ \A q \in Request \ {r} : claim'[q] = claim[q]
    BY <2>1, <2>2 DEF TypeOK
  <2> QED BY <1>1, <2>1, <2>3 DEF RevokeInv
<1>9. ASSUME NEW r \in Request, NEW t \in Token, MintReset(r, t) PROVE RevokeInv'
  <2>1. /\ pc' = [pc EXCEPT ![r] = "idle"]
        /\ claim' = [claim EXCEPT ![r] = None] /\ crossed' = crossed \ {r}
    BY <1>9 DEF MintReset, Answer, Goto, Give
  <2>2. revoked' = revoked /\ revoked \subseteq mailed' /\ link' = link /\ reset' \notin revoked
    BY <1>9 DEF MintReset, RevokeInv
  <2> QED BY <1>1, <1>4, <2>1, <2>2
<1>10. ASSUME NEW r \in Request, ResetPassword(r) \/ VerifyEmail(r) PROVE RevokeInv'
  <2>1. /\ pc' = [pc EXCEPT ![r] = "idle"]
        /\ claim' = [claim EXCEPT ![r] = None] /\ crossed' = crossed \ {r}
    BY <1>10 DEF ResetPassword, VerifyEmail, Answer, Goto, Give
  <2>2. /\ revoked' = revoked /\ mailed' = mailed
        /\ link' = link \/ link' = None
        /\ reset' = reset \/ reset' = None
    BY <1>10 DEF ResetPassword, VerifyEmail
  <2> QED BY <1>1, <1>3, <1>4, <2>1, <2>2 DEF RevokeInv
<1>11. CASE Deactivate
  <2>1. /\ revoked' = mailed /\ mailed' = mailed /\ link' = None /\ reset' = None
        /\ pc' = pc /\ claim' = claim /\ crossed' = {r \in Request : pc[r] # "idle"}
    BY <1>11 DEF Deactivate, ClearTokens, requests
  <2>2. None \notin mailed
    BY NoneIsNoToken DEF TypeOK
  <2> QED BY <2>1, <2>2 DEF RevokeInv
<1>12. ASSUME NEW t \in Token, ResendLink(t) \/ Reactivate(t) PROVE RevokeInv'
  <2>1. /\ UNCHANGED <<revoked, reset, pc, claim, crossed>>
        /\ link' \notin mailed /\ mailed \subseteq mailed'
    BY <1>12 DEF ResendLink, Reactivate, NewLink, requests
  <2> QED BY <2>1 DEF RevokeInv
<1>13. CASE Clock \/ EnableMfa \/ ResetLockout \/ DisableMfa \/ \E b \in BOOLEAN : SetVerified(b)
  BY <1>2, <1>13 DEF Clock, LockRunsOut, CooldownRunsOut, LinkExpires, EnableMfa, ResetLockout,
                     DisableMfa, SetVerified, history, requests
<1>14. CASE UNCHANGED vars
  BY <1>2, <1>14 DEF vars, row, requests, history
<1> QED
  BY <1>6, <1>7, <1>8, <1>9, <1>10, <1>11, <1>12, <1>13, <1>14
     DEF Next, ResetStep, LinkStep, Administration

LEMMA StepWindow == TypeOK /\ WindowInv /\ [Next]_vars => WindowInv'
<1> SUFFICES ASSUME TypeOK, WindowInv, [Next]_vars PROVE WindowInv'
  OBVIOUS
<1>1. ASSUME NEW r \in Request, pc'[r] # "minting", \A q \in Request \ {r} : pc'[q] = pc[q]
      PROVE  Minting' = Minting \ {r}
  BY <1>1 DEF Minting
<1>2. ASSUME NEW r \in Request, Answer(r) PROVE Minting' = Minting \ {r}
  <2>1. pc'[r] = "idle" /\ \A q \in Request \ {r} : pc'[q] = pc[q]
    BY <1>2 DEF Answer, Goto, TypeOK
  <2> QED BY <1>1, <2>1
<1>3. ASSUME NEW r \in Request, NEW place, place # "minting", Goto(r, place)
      PROVE  Minting' = Minting \ {r}
  <2>1. pc'[r] = place /\ \A q \in Request \ {r} : pc'[q] = pc[q]
    BY <1>3 DEF Goto, TypeOK
  <2> QED BY <1>1, <1>3, <2>1
<1>4. ASSUME NEW r \in Request, NEW t \in Token, MintReset(r, t) PROVE WindowInv'
  <2>1. Minting' = Minting \ {r} /\ r \in Minting
    BY <1>2, <1>4 DEF MintReset, Minting
  <2>2. Cardinality(Minting') = Cardinality(Minting) - 1
    BY <2>1, MintingCount, FS_RemoveElement
  <2>3. windowMails' = windowMails + 1 /\ cooling' = TRUE
    BY <1>4 DEF MintReset
  <2> QED BY <2>2, <2>3, MintingCount, RequestCount DEF WindowInv, TypeOK
<1>5. ASSUME NEW r \in Request, CheckCooldown(r) PROVE WindowInv'
  <2>1. UNCHANGED <<windowMails, cooling>>
    BY <1>5 DEF CheckCooldown, row
  <2>2. CASE Answer(r)
    BY <1>2, <2>1, <2>2, WindowKept
  <2>3. CASE CooldownOver
    <3>1. windowMails' = 0 /\ ~cooling'
      BY <2>1, <2>3 DEF CooldownOver, WindowInv
    <3>2. Minting' \subseteq Request
      BY DEF Minting
    <3>3. Cardinality(Minting') \in Nat /\ Cardinality(Minting') <= Cardinality(Request)
      BY <3>2, RequestIsFinite, FS_Subset, FS_CardinalityType
    <3> QED BY <3>1, <3>3, RequestCount DEF WindowInv
  <2> QED BY <1>5, <2>2, <2>3 DEF CheckCooldown
<1>6. ASSUME NEW r \in Request, MfaStep(r) PROVE WindowInv'
  <2>1. UNCHANGED <<windowMails, cooling>>
    BY <1>6 DEF MfaStep, MfaVerify, ForgotPassword, WrongCode, RecordFailure, RightCode, row, history
  <2>2. CASE Answer(r)
    BY <1>2, <2>1, <2>2, WindowKept
  <2>3. CASE \E place \in {"signIn", "forgot", "asking", "failing"} : Goto(r, place)
    BY <1>3, <2>1, <2>3, WindowKept
  <2> QED BY <1>6, <2>2, <2>3
             DEF MfaStep, MfaVerify, ForgotPassword, WrongCode, RecordFailure, RightCode
<1>7. ASSUME NEW r \in Request,
             \/ TakeTime(r) \/ ResetPassword(r) \/ RefuseReset(r) \/ LinkStep(r)
             \/ \E t \in Token : ValidateReset(r, t)
      PROVE  WindowInv'
  <2>1. UNCHANGED <<windowMails, cooling>>
    BY <1>7 DEF TakeTime, ResetPassword, RefuseReset, LinkStep, OpenLink, VerifyEmail, ValidateReset,
                row, history
  <2>2. CASE Answer(r)
    BY <1>2, <2>1, <2>2, WindowKept
  <2>3. CASE \E place \in {"hashing", "resetting", "late", "verifying"} : Goto(r, place)
    BY <1>3, <2>1, <2>3, WindowKept
  <2> QED BY <1>7, <2>2, <2>3
             DEF TakeTime, ResetPassword, RefuseReset, LinkStep, OpenLink, VerifyEmail, ValidateReset
<1>8. ASSUME pc' = pc,
             \/ windowMails' = windowMails /\ cooling' = cooling
             \/ windowMails' = 0 /\ cooling' = FALSE
      PROVE  WindowInv'
  <2>1. Minting' = Minting
    BY <1>8 DEF Minting
  <2> QED BY <1>8, <2>1, WindowKept
<1>9. CASE Clock \/ EnableMfa
  BY <1>8, <1>9 DEF Clock, LockRunsOut, CooldownRunsOut, LinkExpires, EnableMfa, requests, history
<1>10. CASE Administration
  BY <1>8, <1>10 DEF Administration, ResetLockout, DisableMfa, Deactivate, ClearTokens, SetVerified,
                     ResendLink, Reactivate, requests, history
<1>11. CASE UNCHANGED vars
  BY <1>8, <1>11 DEF vars, row, requests, history
<1> QED BY <1>4, <1>5, <1>6, <1>7, <1>9, <1>10, <1>11 DEF Next, ResetStep

(* The counter is set back, or the lock's time is over.                      *)
LEMMA TriesSetBack == ASSUME tried' = 0, ~locked' PROVE TriesInv'
<1>1. Failing' \subseteq Request
  BY DEF Failing
<1>2. Cardinality(Failing') \in Nat
  BY <1>1, RequestsCounted
<1>3. Cardinality(Passed(Standing)') \in Nat
  <2>1. \A g : Cardinality(Passed(g)) \in Nat
    BY PassedCount
  <2>2. Passed(Standing)' = Passed(Standing')
    BY DEF Passed, Further
  <2> QED BY <2>1, <2>2
<1> QED BY <1>2, <1>3 DEF TriesInv

(* A step that is not about codes: nobody's level changes, no more requests   *)
(* are at their code than before under a lock.                                *)
LEMMA TriesKept ==
  ASSUME TypeOK, TriesInv, UNCHANGED <<tried, attempts, locked>>, Failing' = Failing,
         \A r \in Failing : seen'[r] = seen[r],
         locked => AtCode' \subseteq AtCode
  PROVE  TriesInv'
<1>1. \A r \in Request : pc'[r] = "failing" <=> pc[r] = "failing"
  BY DEF Failing
<1>2. \A r \in Request : Level(r)' = Level(r)
  BY <1>1 DEF Level, Failing
<1>3. Standing' = Standing
  BY <1>2 DEF Standing
<1>4. Passed(Standing)' = Passed(Standing)
  BY <1>3 DEF Passed, Further
<1>5. locked => /\ Cardinality(AtCode') \in Nat /\ Cardinality(AtCode) \in Nat
                /\ Cardinality(AtCode') =< Cardinality(AtCode)
  <2>1. IsFiniteSet(AtCode) /\ Cardinality(AtCode) \in Nat
    BY RequestsCounted DEF AtCode
  <2> QED BY <2>1, FS_Subset, FS_CardinalityType
<1>6. CASE locked
  BY <1>5, <1>6, StandingsFinite, RequestCount DEF TriesInv, TypeOK
<1>7. CASE ~locked
  BY <1>4, <1>7 DEF TriesInv
<1> QED BY <1>6, <1>7

LEMMA TriesWrongCode ==
  ASSUME TypeOK, TriesInv, NEW r \in Request, WrongCode(r) PROVE TriesInv'
<1>1. /\ r \in AtCode /\ r \notin Failing
      /\ tried' = tried + 1 /\ attempts' = attempts /\ locked' = locked
      /\ pc' = [pc EXCEPT ![r] = "failing"] /\ seen' = [seen EXCEPT ![r] = attempts]
  BY DEF WrongCode, Goto, AtCode, Failing, row
<1>2. AtCode' = AtCode \ {r} /\ Failing' = Failing \cup {r}
  BY <1>1 DEF AtCode, Failing, TypeOK
<1>3. /\ Cardinality(AtCode) \in Nat /\ Cardinality(AtCode') = Cardinality(AtCode) - 1
      /\ Cardinality(Failing) \in Nat /\ Cardinality(Failing') = Cardinality(Failing) + 1
  <2>1. /\ IsFiniteSet(AtCode) /\ Cardinality(AtCode) \in Nat
        /\ IsFiniteSet(Failing) /\ Cardinality(Failing) \in Nat
    BY RequestsCounted DEF AtCode, Failing
  <2> QED BY <1>1, <1>2, <2>1, FS_RemoveElement, FS_AddElement
<1>4. \A q \in Request : Level(q)' = Level(q)
  BY <1>1 DEF Level, AtCode, TypeOK
<1>5. Standing' = Standing
  BY <1>4 DEF Standing
<1>6. Passed(Standing)' = Passed(Standing)
  BY <1>5 DEF Passed, Further
<1>7. CASE locked
  BY <1>1, <1>3, <1>7, StandingsFinite, RequestCount DEF TriesInv, TypeOK
<1>8. CASE ~locked
  BY <1>1, <1>3, <1>6, <1>8, PassedCount DEF TriesInv, TypeOK
<1> QED BY <1>7, <1>8

(* A write below the lock climbs: whoever now stands at or below what was     *)
(* written stood there before, and the writer is above it.                   *)
LEMMA WriteClimbs ==
  ASSUME TypeOK, NEW r \in Request, RecordFailure(r), seen[r] + 1 < MaxAttempts
  PROVE  Further(Standing, Standing')
<1> DEFINE X == 1 .. (MaxAttempts - 1)
           B(n) == {q \in Request : Level(q) =< n}
<1>0. PICK N \in Nat : N = seen[r] + 1
  BY DEF TypeOK
<1>1. /\ pc[r] = "failing" /\ attempts' = N
      /\ pc' = [pc EXCEPT ![r] = "idle"] /\ seen' = [seen EXCEPT ![r] = 0]
  BY <1>0 DEF RecordFailure, Answer, Goto
<1>2. N \in X /\ N \in Nat /\ X \subseteq Nat
  BY <1>0, BoundsAreNumbers DEF TypeOK
<1>3. Level(r) = N /\ Level(r)' = N + 1
  BY <1>0, <1>1 DEF Level, TypeOK
<1>4. ASSUME NEW q \in Request, q # r
      PROVE  Level(q)' = Level(q) \/ Level(q)' = N + 1
  BY <1>1, <1>4 DEF Level, TypeOK
<1>5. \A q \in Request : Level(q) \in Nat
  BY DEF Level, TypeOK
<1>6. ASSUME NEW n \in X, n =< N PROVE B(n)' \subseteq B(n) \ {r}
  BY <1>2, <1>3, <1>4, <1>5, <1>6
<1>7. r \in B(N)
  BY <1>2, <1>3
<1>8. \A n \in X : /\ Standing[n] = Cardinality(B(n))
                   /\ Standing'[n] = Cardinality(B(n)')
  BY DEF Standing
<1>9. \A n \in X : IsFiniteSet(B(n)) /\ Cardinality(B(n)) \in Nat
  BY RequestsCounted
<1> HIDE DEF B, X
<1>10. ASSUME NEW n \in X, n =< N PROVE Standing'[n] =< Standing[n]
  <2>1. B(n)' \subseteq B(n)
    BY <1>6, <1>10
  <2> QED BY <1>8, <1>9, <2>1, FS_Subset
<1>11. Standing'[N] < Standing[N]
  <2>1. B(N)' \subseteq B(N) \ {r}
    BY <1>2, <1>6
  <2>2. IsFiniteSet(B(N) \ {r}) /\ Cardinality(B(N) \ {r}) = Cardinality(B(N)) - 1
    BY <1>2, <1>7, <1>9, FS_RemoveElement
  <2>3. Cardinality(B(N)') =< Cardinality(B(N) \ {r}) /\ Cardinality(B(N)') \in Nat
    BY <2>1, <2>2, FS_Subset, FS_CardinalityType
  <2> QED BY <1>2, <1>8, <1>9, <2>2, <2>3
<1>12. \A m \in X : m < N => Standing'[m] =< Standing[m]
  BY <1>2, <1>10
<1> QED BY <1>2, <1>11, <1>12 DEF Further, X

LEMMA TriesRecorded ==
  ASSUME TypeOK, TypeOK', TriesInv, NEW r \in Request, RecordFailure(r) PROVE TriesInv'
<1>1. /\ r \in Failing /\ r \notin AtCode
      /\ tried' = tried /\ locked' = (locked \/ Enough(seen[r] + 1))
      /\ pc' = [pc EXCEPT ![r] = "idle"]
  BY DEF RecordFailure, Answer, Goto, AtCode, Failing
<1>2. AtCode' = AtCode /\ Failing' = Failing \ {r}
  BY <1>1 DEF AtCode, Failing, TypeOK
<1>3. /\ Cardinality(AtCode) \in Nat /\ Cardinality(Failing) \in Nat
      /\ Cardinality(Failing') = Cardinality(Failing) - 1
      /\ Cardinality(AtCode) + Cardinality(Failing) =< Cardinality(Request)
  <2>1. /\ IsFiniteSet(AtCode) /\ Cardinality(AtCode) \in Nat
        /\ IsFiniteSet(Failing) /\ Cardinality(Failing) \in Nat
    BY RequestsCounted DEF AtCode, Failing
  <2>2. AtCode \cap Failing = {} /\ AtCode \cup Failing \subseteq Request
    BY DEF AtCode, Failing
  <2>3. Cardinality(AtCode \cup Failing) = Cardinality(AtCode) + Cardinality(Failing)
    BY <2>1, <2>2, FS_Union, FS_EmptySet
  <2> QED BY <1>1, <1>2, <2>1, <2>2, <2>3, RequestsCounted, FS_RemoveElement
<1>4. CASE locked
  BY <1>1, <1>2, <1>4 DEF TriesInv
<1>5. CASE ~locked /\ Enough(seen[r] + 1)
  <2>1. Cardinality(Passed(Standing)) + 1 =< Cardinality(Standings)
    BY StandingStands, NotPassed
  <2>2. locked' /\ tried =< Cardinality(Passed(Standing)) + Cardinality(Failing)
    BY <1>1, <1>5 DEF TriesInv
  <2> QED BY <1>1, <1>2, <1>3, <2>1, <2>2, StandingsFinite, RequestCount, PassedCount
             DEF TriesInv, TypeOK
<1>6. CASE ~locked /\ ~Enough(seen[r] + 1)
  <2>1. seen[r] + 1 < MaxAttempts
    BY <1>6, BoundsAreNumbers DEF Enough, TypeOK
  <2>2. Standing \in Standings /\ Standing' \in Standings
    BY StandingStands
  <2>3. Cardinality(Passed(Standing)) + 1 =< Cardinality(Passed(Standing'))
    BY <2>1, <2>2, WriteClimbs, Climbing
  <2>4. Passed(Standing)' = Passed(Standing')
    BY DEF Passed, Further
  <2>5. tried =< Cardinality(Passed(Standing)) + Cardinality(Failing)
    BY <1>6 DEF TriesInv
  <2>6. Cardinality(Passed(Standing)) \in Nat /\ Cardinality(Passed(Standing')) \in Nat
    BY PassedCount
  <2>7. tried' =< Cardinality(Passed(Standing)') + Cardinality(Failing')
    BY <1>1, <1>3, <2>3, <2>4, <2>5, <2>6 DEF TypeOK
  <2> QED BY <1>1, <1>6, <2>7 DEF TriesInv
<1> QED BY <1>4, <1>5, <1>6

LEMMA StepTries == TypeOK /\ TypeOK' /\ TriesInv /\ [Next]_vars => TriesInv'
<1> SUFFICES ASSUME TypeOK, TypeOK', TriesInv, [Next]_vars PROVE TriesInv'
  OBVIOUS
<1>1. ASSUME NEW r \in Request, NEW place, pc[r] # "failing", place # "failing", Goto(r, place),
             locked => place \notin {"signIn", "forgot"}, UNCHANGED <<tried, attempts, locked>>,
             \A q \in Request \ {r} : seen'[q] = seen[q]
      PROVE  TriesInv'
  <2>1. pc'[r] = place /\ \A q \in Request \ {r} : pc'[q] = pc[q]
    BY <1>1 DEF Goto, TypeOK
  <2>2. Failing' = Failing /\ r \notin Failing /\ Failing \subseteq Request
    BY <1>1, <2>1 DEF Failing
  <2>3. locked => AtCode' \subseteq AtCode
    BY <1>1, <2>1 DEF AtCode
  <2> QED BY <1>1, <2>2, <2>3, TriesKept
<1>2. ASSUME NEW r \in Request, Answer(r)
      PROVE  Goto(r, "idle") /\ \A q \in Request \ {r} : seen'[q] = seen[q]
  BY <1>2 DEF Answer, TypeOK
<1>3. CASE UNCHANGED <<tried, attempts, locked, seen, pc>>
  <2>1. Failing' = Failing /\ AtCode' = AtCode
    BY <1>3 DEF Failing, AtCode
  <2> QED BY <1>3, <2>1, TriesKept
<1>4. ASSUME NEW r \in Request, MfaStep(r) PROVE TriesInv'
  <2>1. CASE MfaVerify(r)
    BY <1>1, <2>1 DEF MfaVerify, row, history
  <2>2. CASE ForgotPassword(r)
    <3>1. UNCHANGED <<tried, attempts, locked, seen>> /\ pc[r] = "idle"
      BY <2>2 DEF ForgotPassword, row, history
    <3>2. Goto(r, "asking") \/ (Goto(r, "forgot") /\ ~locked)
      BY <2>2 DEF ForgotPassword, TypeOK
    <3> QED BY <1>1, <3>1, <3>2
  <2>3. CASE WrongCode(r)
    BY <2>3, TriesWrongCode
  <2>4. CASE RecordFailure(r)
    BY <2>4, TriesRecorded
  <2>5. CASE RightCode(r)
    BY <2>5, TriesSetBack DEF RightCode, SetBack
  <2> QED BY <1>4, <2>1, <2>2, <2>3, <2>4, <2>5 DEF MfaStep
<1>5. ASSUME NEW r \in Request, ResetStep(r) \/ LinkStep(r) PROVE TriesInv'
  <2>1. UNCHANGED <<tried, attempts, locked>> /\ pc[r] # "failing"
    BY <1>5 DEF ResetStep, LinkStep, CheckCooldown, TakeTime, ResetPassword, InTime, RefuseReset, MintReset,
                ValidateReset, VerifyEmail, OpenLink, row, history
  <2>2. CASE Answer(r)
    BY <1>1, <1>2, <2>1, <2>2
  <2>3. CASE /\ \E place \in {"minting", "resetting", "late", "hashing", "verifying"} : Goto(r, place)
             /\ seen' = seen
    BY <1>1, <2>1, <2>3
  <2> QED BY <1>5, <2>2, <2>3
             DEF ResetStep, LinkStep, CheckCooldown, TakeTime, ResetPassword, RefuseReset, MintReset,
                 ValidateReset, VerifyEmail, OpenLink
<1>6. CASE LockRunsOut \/ ResetLockout \/ DisableMfa \/ Deactivate
  BY <1>6, TriesSetBack DEF LockRunsOut, ResetLockout, DisableMfa, Deactivate, SetBack
<1>7. CASE CooldownRunsOut \/ LinkExpires \/ EnableMfa
  BY <1>3, <1>7 DEF CooldownRunsOut, LinkExpires, EnableMfa, requests, history
<1>8. CASE \/ \E b \in BOOLEAN : SetVerified(b)
           \/ \E t \in Token : ResendLink(t) \/ Reactivate(t)
  BY <1>3, <1>8 DEF SetVerified, ResendLink, Reactivate, requests, history
<1>9. CASE UNCHANGED vars
  BY <1>3, <1>9 DEF vars, row, requests, history
<1> QED BY <1>4, <1>5, <1>6, <1>7, <1>8, <1>9 DEF Next, Clock, Administration

LEMMA StepInv == IInv /\ [Next]_vars => IInv'
BY StepType, StepSpent, StepRevoke, StepWindow, StepTries DEF IInv

(* The inductive invariant holds in every reachable state.                   *)
THEOREM Invariance == Spec => []IInv
BY InitInv, StepInv, PTL DEF Spec

(* Every variable keeps its type.                                            *)
THEOREM TypeCorrect == Spec => []TypeOK
<1>1. IInv => TypeOK
  BY DEF IInv
<1> QED BY <1>1, Invariance, PTL

(* However many requests present a token, every password reset uses up a      *)
(* token of its own.                                                         *)
THEOREM ResetsUseTokens == Spec => []TokenSpentOnce
<1>1. IInv => TokenSpentOnce
  BY DEF IInv, SpentInv, TokenSpentOnce
<1> QED BY <1>1, Invariance, PTL

(* Until the cooldown ends no more reset mails go out than requests were      *)
(* served at once.                                                           *)
THEOREM CooldownLimits == Spec => []MailsPerWindow
<1>1. IInv => MailsPerWindow
  BY MintingCount, RequestCount DEF IInv, WindowInv, MailsPerWindow, TypeOK
<1> QED BY <1>1, Invariance, PTL

(* A token or link mailed before a deactivation changes nothing after it,     *)
(* unless it had been looked up before.                                      *)
THEOREM RevokedStayRevoked == Spec => DeactivationRevokes
<1> DEFINE Revokes == \A r \in Request : ResetPassword(r) \/ VerifyEmail(r) =>
                        claim[r] \notin revoked \/ r \in crossed
<1>1. IInv => Revokes
  BY DEF IInv, RevokeInv, ResetPassword, InTime, VerifyEmail
<1>2. IInv /\ [Next]_vars => [Revokes]_vars
  BY <1>1
<1> QED BY <1>2, Invariance, PTL DEF Spec, DeactivationRevokes

(* Whatever updates of the counter are lost, for any number of requests and   *)
(* any threshold: the wrong codes looked at between two resets are no more    *)
(* than the standings below the lock and the other requests.                 *)
THEOREM CodesBounded == Spec => []WrongCodesBounded
<1>1. ASSUME IInv PROVE WrongCodesBounded
  <2>1. CASE locked
    <3>1. Cardinality(AtCode) \in Nat
      BY RequestsCounted DEF AtCode
    <3> QED BY <1>1, <2>1, <3>1, StandingsFinite, RequestCount
               DEF IInv, TriesInv, TypeOK, WrongCodesBounded
  <2>2. CASE ~locked
    <3>1. Cardinality(Failing) \in Nat /\ Cardinality(Failing) =< Cardinality(Request)
      BY RequestsCounted DEF Failing
    <3>2. Cardinality(Passed(Standing)) + 1 =< Cardinality(Standings)
      BY <1>1, StandingStands, NotPassed DEF IInv
    <3> QED BY <1>1, <2>2, <3>1, <3>2, PassedCount, StandingsFinite, RequestCount
               DEF IInv, TriesInv, TypeOK, WrongCodesBounded
  <2> QED BY <2>1, <2>2
<1> QED BY <1>1, Invariance, PTL
=============================================================================
