----------------------------- MODULE MCServices -----------------------------
(***************************************************************************)
(* Administrators.tla, Files.tla, Forms.tla and Sessions.tla, which share no    *)
(* state: the scene says which one a behaviour is about, and the others rest.   *)
(***************************************************************************)
EXTENDS Administrators, TLC

CONSTANTS Commenter,
          Upload, MaxKeys, MaxCodes, MaxStarts,
          Caller, Visitor, Name, Cooldown, Retention, TokenLife, CacheLife, MaxNow, MaxForms,
          MaxDrawn, MaxRequests

ASSUME LivesAreTicks == {Cooldown, Retention, CacheLife} \subseteq Nat

VARIABLES scene,
          avatar, objects, keys, code, codes, docs, req, rivals, starts,
          open, logging, now, log, sub, cache, orders, form, mailed, answers, missed, forms,
          oidc, row, drawn, record, cookie, asking, asked, spent, arrivals

fileVars == <<avatar, objects, keys, code, codes, docs, req, rivals, starts>>
formVars == <<open, logging, now, log, sub, cache, orders, form, mailed, answers, missed, forms>>
sessionVars == <<oidc, row, drawn, record, cookie, asking, asked, spent, arrivals>>

Storing == INSTANCE Files WITH Request <- Upload
Submitting == INSTANCE Forms WITH MaxStarts <- MaxForms, req <- form, upset <- missed, starts <- forms
SigningIn == INSTANCE Sessions WITH MaxStarts <- MaxRequests, req <- asking, starts <- arrivals

(* A form is looked at by itself; with passwords an administrator, with OIDC a      *)
(* commenter.                                                                *)
Scenes ==
  /\ Init /\ Storing!Init /\ Submitting!Init /\ SigningIn!Init
  /\ scene \in {"administrators", "files", "forms", "session"}
  /\ IF scene = "forms" THEN Cardinality(open) = 1 ELSE open = {}
  /\ {"contact", "subscribe"} \cap open = {} => logging = "all"
  /\ row.role = (IF scene = "session" /\ ~oidc THEN "administrator" ELSE "commenter")
  /\ scene # "session" => row.secret = 0 /\ ~oidc

Steps ==
  \/ scene = "administrators" /\ Next /\ UNCHANGED <<scene, fileVars, formVars, sessionVars>>
  \/ scene = "files" /\ Storing!Next /\ UNCHANGED <<scene, vars, formVars, sessionVars>>
  \/ scene = "forms" /\ Submitting!Next /\ UNCHANGED <<scene, vars, fileVars, sessionVars>>
  \/ scene = "session" /\ SigningIn!Next /\ UNCHANGED <<scene, vars, fileVars, formVars>>

MCSpec == Scenes /\ [][Steps]_<<scene, vars, fileVars, formVars, sessionVars>>

RowsHaveFiles == Storing!RowsHaveFiles
MailsSpaced == Submitting!MailsSpaced
OrdersVetted == Submitting!OrdersVetted
SessionsHold == SigningIn!SessionsHold

Symmetric == Permutations(Request) \cup Permutations(User)
=============================================================================
