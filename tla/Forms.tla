------------------------------- MODULE Forms -------------------------------
(***************************************************************************)
(* The three public forms: contact (src/src/contact/handlers.rs), newsletter *)
(* (src/src/subscriptions/handlers.rs) and orders (src/src/orders).         *)
(*                                                                          *)
(* Contact and newsletter let one submission of an address through in a      *)
(* while: they look for it in the access log, which is written after the     *)
(* mail went out, and only as the server's environment says                 *)
(* (src/src/middleware/rate_limit.rs).  Orders have the customer's number    *)
(* looked up by a service and keep its answer.                              *)
(***************************************************************************)
EXTENDS Naturals, FiniteSets

CONSTANTS Caller,    \* submissions under way at a time
          Visitor,   \* IP addresses
          Name,      \* addresses for the newsletter, numbers for orders
          Cooldown,  \* ticks of the 24 hours between two submissions
          Retention, \* ticks of ACCESS_LOG_RETENTION_DAYS
          TokenLife, \* ticks of the 7 days of a confirmation
          CacheLife, \* ticks of the 90 days of a number's lookup
          MaxNow, MaxStarts \* bounds on the clock and on submissions

VARIABLES
  open,    \* the forms the settings switch on
  logging, \* what ENABLE_ACCESS_LOGGING and LOG_SUCCESSFUL_ATTEMPTS let in
  now,     \* the clock
  log,     \* access_log: [form, from, at]
  sub,     \* subscribers, by address
  cache,   \* phone_verifications, by number
  orders,  \* orders: [name, verified, vetted]
  req,     \* the submissions
  mailed,  \* history: mails of new submissions [form, from, by, at]
  answers, \* history: the service's answers [name, valid, at]
  upset,   \* history: <<form, from>> whose log missed something when it mattered
  starts   \* how many submissions there have been

formVars == <<open, logging, now, log, sub, cache, orders, req, mailed, answers, upset, starts>>

Form == {"contact", "subscribe", "order"}
Nobody == [state |-> "none", at |-> 0]
Idle == [pc |-> "idle", form |-> "none", from |-> "none", name |-> "none",
         by |-> 0, check |-> "unknown", vetted |-> 0]

Init ==
  /\ open \in SUBSET Form /\ logging \in {"all", "failures", "nothing"}
  /\ now = 0 /\ log = {} /\ mailed = {} /\ orders = {} /\ answers = {} /\ upset = {} /\ starts = 0
  /\ sub = [n \in Name |-> Nobody] /\ cache = [n \in Name |-> Nobody]
  /\ req = [r \in Caller |-> Idle]

Goto(r, pc) == req' = [req EXCEPT ![r].pc = pc]
At(r, form, pc) == req[r].form = form /\ req[r].pc = pc
Fresh(at, life) == at + life >= now
Pair(r) == <<req[r].form, req[r].from>>

(* A tick is a day or so: nobody takes one between the service's answer and    *)
(* keeping it.                                                              *)
Tick ==
  /\ now < MaxNow /\ \A r \in Caller : req[r].pc # "answered"
  /\ now' = now + 1
  /\ UNCHANGED <<open, logging, log, sub, cache, orders, req, mailed, answers, upset, starts>>

(* cleanup_database_logs, which main starts now and then.                    *)
CleanUpLogs ==
  /\ log' = {e \in log : Fresh(e.at, Retention)}
  /\ UNCHANGED <<open, logging, now, sub, cache, orders, req, mailed, answers, upset, starts>>

(* A form that is switched on, with valid input and, where one is asked for,   *)
(* a captcha that is solved.                                                *)
Submit(r, f, v, n) ==
  /\ req[r].pc = "idle" /\ starts < MaxStarts /\ f \in open
  /\ starts' = starts + 1
  /\ req' = [req EXCEPT ![r] = [Idle EXCEPT !.pc = "begun", !.form = f, !.from = v,
                                            !.name = IF f = "contact" THEN "none" ELSE n, !.by = starts]]
  /\ UNCHANGED <<open, logging, now, log, sub, cache, orders, mailed, answers, upset>>

(* Past the look into the log and not yet in it.                              *)
Unlogged(r) == req[r].pc \in {"admitted", "new", "mailing", "sent", "unsent"}

(* A refusal, a failed statement, a dropped handler.                          *)
Stop(r) ==
  /\ req[r].pc # "idle"
  /\ req' = [req EXCEPT ![r] = Idle]
  /\ upset' = IF req[r].pc = "sent" THEN upset \cup {Pair(r)} ELSE upset
  /\ UNCHANGED <<open, logging, now, log, sub, cache, orders, mailed, answers, starts>>

-----------------------------------------------------------------------------
(* Contact and newsletter.                                                   *)

(* Mutant: an entry counts on the day it was made.                           *)
RecentToday(r) == \E e \in log : <<e.form, e.from>> = Pair(r) /\ Fresh(e.at, 0)

(* has_recent_contact_submission, has_recent_subscription: an entry of this    *)
(* action and address, whatever became of it.                               *)
Recent(r) == \E e \in log : <<e.form, e.from>> = Pair(r) /\ Fresh(e.at, Cooldown)

(* A log that cannot be read lets everybody in.                               *)
Admit(r) ==
  /\ req[r].pc = "begun" /\ req[r].form # "order"
  /\ \/ ~Recent(r) /\ upset' = IF \E s \in Caller \ {r} : Pair(s) = Pair(r) /\ Unlogged(s)
                               THEN upset \cup {Pair(r)} ELSE upset
     \/ upset' = upset \cup {Pair(r)}
  /\ Goto(r, "admitted")
  /\ UNCHANGED <<open, logging, now, log, sub, cache, orders, mailed, answers, starts>>

(* subscribe: already confirmed, or pending and mailed its token once more,     *)
(* neither of which is logged.                                              *)
AlreadyThere(r) ==
  /\ At(r, "subscribe", "admitted") /\ sub[req[r].name].state # "none"
  /\ req' = [req EXCEPT ![r] = Idle]
  /\ UNCHANGED <<open, logging, now, log, sub, cache, orders, mailed, answers, upset, starts>>

(* Nobody of that address, or the look for one failed.                        *)
FindNobody(r) ==
  /\ At(r, "subscribe", "admitted")
  /\ Goto(r, "new")
  /\ UNCHANGED <<open, logging, now, log, sub, cache, orders, mailed, answers, upset, starts>>

(* The address is unique.                                                    *)
InsertSubscriber(r) ==
  /\ At(r, "subscribe", "new") /\ sub[req[r].name].state = "none"
  /\ sub' = [sub EXCEPT ![req[r].name] = [state |-> "pending", at |-> now]]
  /\ Goto(r, "mailing")
  /\ UNCHANGED <<open, logging, now, log, cache, orders, mailed, answers, upset, starts>>

Sends(r) == At(r, "contact", "admitted") \/ At(r, "subscribe", "mailing")

SendMail(r) ==
  /\ Sends(r)
  /\ mailed' = mailed \cup {[form |-> req[r].form, from |-> req[r].from, by |-> req[r].by, at |-> now]}
  /\ Goto(r, "sent")
  /\ UNCHANGED <<open, logging, now, log, sub, cache, orders, answers, upset, starts>>

MailFails(r) ==
  /\ Sends(r)
  /\ Goto(r, "unsent")
  /\ UNCHANGED <<open, logging, now, log, sub, cache, orders, mailed, answers, upset, starts>>

Admits(success) == logging = "all" \/ (logging = "failures" /\ ~success)

(* log_access_attempt: only what the environment lets in; a failure to write    *)
(* it is swallowed.                                                         *)
LogAttempt(r) ==
  /\ req[r].pc \in {"sent", "unsent"}
  /\ \/ Admits(req[r].pc = "sent") /\ UNCHANGED upset
        /\ log' = log \cup {[form |-> req[r].form, from |-> req[r].from, at |-> now]}
     \/ UNCHANGED log /\ upset' = IF Admits(req[r].pc = "sent") THEN upset \cup {Pair(r)} ELSE upset
  /\ req' = [req EXCEPT ![r] = Idle]
  /\ UNCHANGED <<open, logging, now, sub, cache, orders, mailed, answers, starts>>

(* verify_subscription, with the token of the first mail or of a later one.    *)
Confirm(n) ==
  /\ sub[n].state = "pending" /\ Fresh(sub[n].at, TokenLife)
  /\ sub' = [sub EXCEPT ![n].state = "confirmed"]
  /\ UNCHANGED <<open, logging, now, log, cache, orders, req, mailed, answers, upset, starts>>

-----------------------------------------------------------------------------
(* Orders.                                                                   *)

(* Mutant: a row is good however old it is.                                  *)
KnownEver(n) == cache[n].state # "none"

(* cached_fresh.                                                             *)
Known(n) == cache[n].state # "none" /\ Fresh(cache[n].at, CacheLife)

Vetted(r, check) == req' = [req EXCEPT ![r].pc = "vetted", ![r].check = check, ![r].vetted = now]

(* What the cache says of the number; an invalid one is refused.              *)
UseCache(r) ==
  /\ At(r, "order", "begun") /\ Known(req[r].name)
  /\ cache[req[r].name].state = "valid" /\ Vetted(r, "valid")
  /\ UNCHANGED <<open, logging, now, log, sub, cache, orders, mailed, answers, upset, starts>>

(* The lookup is switched off, or the service is out: the order is let pass.    *)
PassUnchecked(r) ==
  /\ At(r, "order", "begun") \/ At(r, "order", "asking")
  /\ Vetted(r, "unknown")
  /\ UNCHANGED <<open, logging, now, log, sub, cache, orders, mailed, answers, upset, starts>>

(* No fresh row, or it could not be read, and the limiter allows the call.      *)
AskService(r) ==
  /\ At(r, "order", "begun")
  /\ Goto(r, "asking")
  /\ UNCHANGED <<open, logging, now, log, sub, cache, orders, mailed, answers, upset, starts>>

ServiceAnswers(r, verdict) ==
  /\ At(r, "order", "asking")
  /\ answers' = answers \cup {[name |-> req[r].name, valid |-> verdict = "valid", at |-> now]}
  /\ req' = [req EXCEPT ![r].pc = "answered", ![r].check = verdict]
  /\ UNCHANGED <<open, logging, now, log, sub, cache, orders, mailed, upset, starts>>

(* cache_result, whose failure is ignored; an invalid number is then refused.   *)
KeepAnswer(r) ==
  /\ At(r, "order", "answered")
  /\ \/ cache' = [cache EXCEPT ![req[r].name] = [state |-> req[r].check, at |-> now]]
     \/ UNCHANGED cache
  /\ \/ req[r].check = "valid" /\ Vetted(r, "valid")
     \/ req[r].check = "invalid" /\ req' = [req EXCEPT ![r] = Idle]
  /\ UNCHANGED <<open, logging, now, log, sub, orders, mailed, answers, upset, starts>>

(* The row, then the two mails, whose failures are ignored.                   *)
PlaceOrder(r) ==
  /\ At(r, "order", "vetted")
  /\ orders' = orders \cup {[name |-> req[r].name, verified |-> req[r].check, vetted |-> req[r].vetted]}
  /\ Goto(r, "sent")
  /\ UNCHANGED <<open, logging, now, log, sub, cache, mailed, answers, upset, starts>>

OrderFails(r) ==
  /\ At(r, "order", "vetted")
  /\ Goto(r, "unsent")
  /\ UNCHANGED <<open, logging, now, log, sub, cache, orders, mailed, answers, upset, starts>>

Next ==
  \/ Tick \/ CleanUpLogs
  \/ \E r \in Caller :
       \/ \E f \in Form, v \in Visitor, n \in Name : Submit(r, f, v, n)
       \/ Stop(r) \/ Admit(r) \/ AlreadyThere(r) \/ FindNobody(r) \/ InsertSubscriber(r)
       \/ SendMail(r) \/ MailFails(r) \/ LogAttempt(r)
       \/ UseCache(r) \/ PassUnchecked(r) \/ AskService(r) \/ KeepAnswer(r)
       \/ \E verdict \in {"valid", "invalid"} : ServiceAnswers(r, verdict)
       \/ PlaceOrder(r) \/ OrderFails(r)
  \/ \E n \in Name : Confirm(n)

Spec == Init /\ [][Next]_formVars

-----------------------------------------------------------------------------
(* Where successes are logged, two new messages or subscriptions from one       *)
(* address lie more than the cooldown apart, unless they overlapped or the log   *)
(* failed one of them.                                                      *)
MailsSpaced ==
  logging = "all" =>
    \A m, n \in mailed :
      m.by # n.by /\ <<m.form, m.from>> = <<n.form, n.from>> /\ <<m.form, m.from>> \notin upset
        => m.at + Cooldown < n.at \/ n.at + Cooldown < m.at

(* An order says that its number is verified only when the service said so       *)
(* within the life of its answers, whoever it was asked for; none says that it    *)
(* is invalid.                                                              *)
OrdersVetted ==
  \A o \in orders :
    /\ o.verified # "invalid"
    /\ o.verified = "valid" =>
         \E a \in answers : a.name = o.name /\ a.valid /\ a.at <= o.vetted /\ o.vetted <= a.at + CacheLife
=============================================================================
