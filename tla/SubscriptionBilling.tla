------------------------ MODULE SubscriptionBilling ------------------------
(***************************************************************************)
(* The subscription of one account: subscription/subscription.service.ts,  *)
(* plans.ts and admin.service.ts (updateUserPlan).                         *)
(*                                                                         *)
(* The database holds the account's Subscription row and the copy of its   *)
(* plan in User.plan.  Requests, crons and webhooks are handlers running   *)
(* in slots p \in Procs; a database call or transaction is one atomic step *)
(* and handlers of different slots interleave between calls.  Stripe sends *)
(* snapshots of its subscriptions as webhooks, Wise sends transfers; both  *)
(* deliver again whatever was not answered 200.  A row that does not exist *)
(* yet behaves as the default row: every write to it is an upsert, or      *)
(* follows a checkout that created it.  Stripe is configured: the sandbox  *)
(* that grants plans without it is for development.                        *)
(***************************************************************************)
EXTENDS Naturals, Sequences

CONSTANTS
  Plans, Pro,        \* paid plans; TRIAL_PLAN, also the plan of ?? PlanType.PRO
  Free,              \* PlanType.FREE
  AdminPlans,        \* plans an administrator sets
  Intervals, Monthly,\* length of a billing period; the default one
  TrialDays,         \* length of the trial
  Lead,              \* how long before the end Wise reminders go out
  InOrder,           \* does Stripe deliver webhooks in the order of its events?
  Procs,             \* handler slots
  MaxSubs,           \* bound: Stripe checkouts
  MaxRefs,           \* bound: Wise references handed out
  MaxEvents,         \* bound: Stripe events, but for those that cancellations cause
  MaxClock,          \* bound: time
  MaxFails           \* bound: handlers that die half way

ASSUME BillingAssumption ==
  /\ Pro \in Plans /\ Free \notin Plans /\ AdminPlans \subseteq Plans \cup {Free}
  /\ Intervals \subseteq Nat \ {0} /\ Monthly \in Intervals
  /\ TrialDays \in Nat \ {0} /\ Lead \in Nat
  /\ InOrder \in BOOLEAN
  /\ {MaxSubs, MaxRefs, MaxEvents, MaxClock, MaxFails} \subseteq Nat

VARIABLES
  row,        \* the Subscription row
  userPlan,   \* User.plan
  h,          \* h[p]: the handler running in slot p
  stripe,     \* stripe[n]: the n-th checkout and the Stripe subscription it became
  log,        \* the events of Stripe, oldest first
  acked,      \* positions in log whose webhook was answered 200
  refs,       \* Wise references generated so far
  offers,     \* Wise instructions shown or mailed: reference and plan whose price is asked
  transfers,  \* offers that were paid
  credited,   \* references whose transfer activated a plan
  answered,   \* transfers whose webhook was answered 200
  clock, fails

vars == <<row, userPlan, h, stripe, log, acked, refs, offers, transfers, credited,
          answered, clock, fails>>

account == <<row, userPlan>>
atStripe == <<stripe, log>>
atWise == <<refs, offers, transfers, credited>>
world == <<clock, fails>>
answers == <<acked, answered>>

-----------------------------------------------------------------------------
NoRow == [plan |-> Free, status |-> "ACTIVE", provider |-> "STRIPE", customer |-> 0,
          subId |-> 0, ref |-> 0, pendingPlan |-> Free, pendingFor |-> 0, amount |-> Free,
          trialEnd |-> 0, periodEnd |-> 0, cancelEnd |-> FALSE]

Idle == [pc |-> "idle", event |-> 0, plan |-> Free, len |-> 0, end |-> 0, ref |-> 0, sub |-> 0,
         customer |-> 0]

NoCheckout == [state |-> "none", plan |-> Free, len |-> 0, end |-> 0, cancelEnd |-> FALSE,
               customer |-> 0]

Init ==
  /\ row = NoRow /\ userPlan = Free
  /\ h = [p \in Procs |-> Idle]
  /\ stripe = [n \in 1..MaxSubs |-> NoCheckout] /\ log = <<>> /\ acked = {}
  /\ refs = 0 /\ offers = {} /\ transfers = {} /\ credited = {} /\ answered = {}
  /\ clock = 1 /\ fails = 0

(* plans.ts: what the account can use now.                                 *)
effectivePlan == IF row.status = "TRIAL" /\ row.trialEnd <= clock THEN Free ELSE row.plan

Ready(p) == h[p].pc = "idle"
Goto(p, r) == h' = [h EXCEPT ![p] = r]

(* Webhook i of Stripe is answered 200; the answer may be lost on its way. *)
Answer(i) == acked' \in {acked, acked \cup {i}} /\ UNCHANGED answered

(* The handler of p ends; the webhook it serves, if any, is answered.      *)
Reply(p) ==
  /\ Goto(p, Idle)
  /\ IF h[p].event # 0 THEN Answer(h[p].event) ELSE UNCHANGED answers

(* The handler of p throws or dies.  The first two definitions are mutants *)
(* that answer a webhook, or whatever ran, with a 200 all the same.        *)
AnswerAlways(p) ==
  /\ Goto(p, Idle)
  /\ acked' = acked \cup {h[p].event} /\ UNCHANGED answered

SwallowError(p) ==
  /\ Goto(p, Idle)
  /\ acked' = acked \cup ({h[p].event} \ {0}) /\ UNCHANGED answered

Throw(p) == Goto(p, Idle) /\ UNCHANGED answers

-----------------------------------------------------------------------------
(* startTrial and expireTrials                                             *)

TrialAllowed == row.trialEnd = 0 /\ row.plan = Free

StartTrial(p) ==
  /\ Ready(p) /\ TrialAllowed
  /\ Goto(p, [Idle EXCEPT !.pc = "trial", !.end = clock + TrialDays])
  /\ UNCHANGED <<account, atStripe, atWise, world, answers>>

WriteTrial(p) ==
  /\ h[p].pc = "trial"
  /\ row' = [row EXCEPT !.plan = Pro, !.status = "TRIAL",
                        !.trialEnd = h[p].end, !.periodEnd = h[p].end]
  /\ userPlan' = Pro
  /\ Reply(p)
  /\ UNCHANGED <<atStripe, atWise, world>>

(* Mutant: the cron only sees the trials that end just now.                *)
TrialEndsNow == row.status = "TRIAL" /\ row.trialEnd = clock

TrialOver == row.status = "TRIAL" /\ row.trialEnd <= clock

ExpireTrials(p) ==
  /\ Ready(p) /\ TrialOver
  /\ Goto(p, [Idle EXCEPT !.pc = "expire"])
  /\ UNCHANGED <<account, atStripe, atWise, world, answers>>

WriteExpired(p) ==
  /\ h[p].pc = "expire"
  /\ row' = [row EXCEPT !.plan = Free, !.status = "ACTIVE", !.periodEnd = 0]
  /\ userPlan' = Free
  /\ Reply(p)
  /\ UNCHANGED <<atStripe, atWise, world>>

-----------------------------------------------------------------------------
(* createCheckoutSession                                                   *)

Opened == {n \in 1..MaxSubs : stripe[n].state # "none"}
Opening == {p \in Procs : h[p].pc \in {"co_save", "co_open"}}

(* A customer that the row does not know yet is created at Stripe; the one *)
(* of the n-th checkout gets the number n.                                 *)
Checkout(p, plan, len) ==
  /\ Ready(p)
  /\ \E n \in 1..MaxSubs :
       /\ stripe[n].state = "none" /\ \A q \in Opening : h[q].sub # n
       /\ Goto(p, [Idle EXCEPT !.pc = IF row.customer = 0 THEN "co_save" ELSE "co_open",
                               !.plan = plan, !.len = len, !.sub = n,
                               !.customer = IF row.customer = 0 THEN n ELSE row.customer])
  /\ UNCHANGED <<account, atStripe, atWise, world, answers>>

(* The row as the checkout leaves it.  The mutant writes the plan as well. *)
WithCustomerAndPlan(p) == [row EXCEPT !.customer = h[p].customer, !.plan = h[p].plan]

WithCustomer(p) == [row EXCEPT !.customer = h[p].customer]

SaveCustomer(p) ==
  /\ h[p].pc = "co_save"
  /\ row' = WithCustomer(p)
  /\ Goto(p, [h[p] EXCEPT !.pc = "co_open"])
  /\ UNCHANGED <<userPlan, atStripe, atWise, world, answers>>

OpenCheckout(p) ==
  /\ h[p].pc = "co_open"
  /\ stripe' = [stripe EXCEPT ![h[p].sub] =
                  [NoCheckout EXCEPT !.state = "open", !.plan = h[p].plan, !.len = h[p].len,
                                     !.customer = h[p].customer]]
  /\ Reply(p)
  /\ UNCHANGED <<account, log, atWise, world>>

(* activatePlan, one transaction; paymentProvider is left as it is.        *)
Activated(plan, len, sub) ==
  [row EXCEPT !.plan = plan, !.status = "ACTIVE", !.periodEnd = clock + len,
              !.cancelEnd = FALSE, !.subId = IF sub = 0 THEN @ ELSE sub]

-----------------------------------------------------------------------------
(* createWisePaymentSession, handleWiseWebhook, sendWiseRenewalReminders   *)

WiseSession(p, plan, len) ==
  /\ Ready(p) /\ refs < MaxRefs
  /\ refs' = refs + 1
  /\ row' = [row EXCEPT !.provider = "WISE", !.ref = refs', !.amount = plan,
                        !.pendingPlan = plan, !.pendingFor = len]
  /\ offers' = offers \cup {[ref |-> refs', plan |-> plan]}
  /\ UNCHANGED <<userPlan, h, atStripe, transfers, credited, world, answers>>

(* The row is looked up by the reference of the transfer; an unknown one   *)
(* is answered and ignored.                                                *)
WiseWebhook(p, o) ==
  /\ Ready(p) /\ o \in transfers \ answered
  /\ IF row.ref = o.ref
     THEN /\ Goto(p, [Idle EXCEPT !.pc = "wise", !.ref = o.ref,
                        !.plan = IF row.pendingPlan = Free THEN Pro ELSE row.pendingPlan,
                        !.end = clock + IF row.pendingFor = 0 THEN Monthly ELSE row.pendingFor])
          /\ UNCHANGED answers
     ELSE answered' \in {answered, answered \cup {o}} /\ UNCHANGED <<h, acked>>
  /\ UNCHANGED <<account, atStripe, atWise, world>>

(* The reference is replaced by a fresh one.  The mutant keeps the old one.*)
SpendNothing == UNCHANGED refs

NewReference == refs' = refs + 1

WiseActivate(p) ==
  /\ h[p].pc = "wise"
  /\ NewReference
  /\ row' = [row EXCEPT !.plan = h[p].plan, !.status = "ACTIVE", !.periodEnd = h[p].end,
                        !.cancelEnd = FALSE, !.ref = refs', !.pendingPlan = Free,
                        !.pendingFor = 0]
  /\ userPlan' = h[p].plan
  /\ credited' = credited \cup {h[p].ref}
  /\ Goto(p, Idle)
  /\ answered' \in {answered, answered \cup {o \in transfers : o.ref = h[p].ref}}
  /\ UNCHANGED <<acked, atStripe, offers, transfers, world>>

(* The reminder cron keeps the amount it read; the pending plan was reset  *)
(* by the activation.                                                      *)
RenewalDue(p) ==
  /\ Ready(p) /\ refs < MaxRefs
  /\ row.provider = "WISE" /\ row.status = "ACTIVE" /\ row.plan # Free
  /\ row.periodEnd = clock + Lead
  /\ Goto(p, [Idle EXCEPT !.pc = "remind", !.plan = row.amount])
  /\ UNCHANGED <<account, atStripe, atWise, world, answers>>

Remind(p) ==
  /\ h[p].pc = "remind"
  /\ refs' = refs + 1
  /\ row' = [row EXCEPT !.ref = refs']
  /\ offers' = offers \cup {[ref |-> refs', plan |-> h[p].plan]}
  /\ Reply(p)
  /\ UNCHANGED <<userPlan, atStripe, transfers, credited, world>>

(* The user makes the transfer; nothing bounds when.                       *)
Transfer(o) ==
  /\ o \in offers \ transfers
  /\ transfers' = transfers \cup {o}
  /\ UNCHANGED <<account, h, atStripe, refs, offers, credited, world, answers>>

-----------------------------------------------------------------------------
(* handleWebhook: checkout.session.completed, customer.subscription.*,     *)
(* invoice.payment_failed                                                  *)

Deliverable(i) ==
  /\ i \in DOMAIN log \ acked
  /\ InOrder => \A j \in 1..(i - 1) : j \in acked

CheckoutCompleted(p, i) ==
  /\ Ready(p) /\ Deliverable(i) /\ log[i].type = "completed"
  /\ row' = Activated(log[i].plan, log[i].len, log[i].sub)
  /\ userPlan' = log[i].plan
  /\ Answer(i)
  /\ UNCHANGED <<h, atStripe, atWise, world>>

(* The snapshot is written to the row; User.plan follows in a second call. *)
SubscriptionUpdated(p, i) ==
  LET e == log[i]
      plan == IF e.active THEN e.plan ELSE Free
  IN
  /\ Ready(p) /\ Deliverable(i) /\ e.type = "updated"
  /\ row' = [row EXCEPT !.plan = plan, !.status = IF e.active THEN "ACTIVE" ELSE "CANCELLED",
                        !.periodEnd = e.end, !.cancelEnd = e.cancelEnd, !.subId = e.sub]
  /\ Goto(p, [Idle EXCEPT !.pc = "user", !.event = i, !.plan = plan])
  /\ UNCHANGED <<userPlan, atStripe, atWise, world, answers>>

(* Mutant: the plan stays.                                                 *)
OnlyCancelled == [row EXCEPT !.status = "CANCELLED"]

(* The row is found by user, whichever Stripe subscription it is on.       *)
Ended == [row EXCEPT !.plan = Free, !.status = "CANCELLED"]

SubscriptionDeleted(p, i) ==
  /\ Ready(p) /\ Deliverable(i) /\ log[i].type = "deleted"
  /\ row' = Ended
  /\ Goto(p, [Idle EXCEPT !.pc = "user", !.event = i, !.plan = Free, !.end = log[i].end])
  /\ UNCHANGED <<userPlan, atStripe, atWise, world, answers>>

(* After a deletion the user is mailed that access lasts until h[p].end.   *)
WriteUserPlan(p) ==
  /\ h[p].pc = "user"
  /\ userPlan' = h[p].plan
  /\ IF h[p].end = 0 THEN Reply(p)
     ELSE Goto(p, [h[p] EXCEPT !.pc = "mail"]) /\ UNCHANGED answers
  /\ UNCHANGED <<row, atStripe, atWise, world>>

MailCancelled(p) ==
  /\ h[p].pc = "mail"
  /\ Reply(p)
  /\ UNCHANGED <<account, atStripe, atWise, world>>

(* The row is found by customer; another customer's invoice is ignored.    *)
PaymentFailed(p, i) ==
  /\ Ready(p) /\ Deliverable(i) /\ log[i].type = "failed"
  /\ IF row.customer = log[i].customer
     THEN Goto(p, [Idle EXCEPT !.pc = "failed", !.event = i]) /\ UNCHANGED answers
     ELSE Answer(i) /\ UNCHANGED h
  /\ UNCHANGED <<account, atStripe, atWise, world>>

WriteFailed(p) ==
  /\ h[p].pc = "failed"
  /\ row' = [row EXCEPT !.status = "EXPIRED"]
  /\ Reply(p)
  /\ UNCHANGED <<userPlan, atStripe, atWise, world>>

Webhook(p, i) ==
  \/ CheckoutCompleted(p, i) \/ SubscriptionUpdated(p, i)
  \/ SubscriptionDeleted(p, i) \/ PaymentFailed(p, i)

-----------------------------------------------------------------------------
(* Stripe                                                                  *)

Event(type, n, s) ==
  [type |-> type, sub |-> n, plan |-> s.plan, len |-> s.len, active |-> s.state = "active",
   cancelEnd |-> s.cancelEnd, end |-> s.end, customer |-> s.customer]

(* Subscription n becomes s and Stripe sends events of these types.        *)
Becomes(n, s, types) ==
  /\ stripe' = [stripe EXCEPT ![n] = s]
  /\ log' = log \o [k \in DOMAIN types |-> Event(types[k], n, s)]
  /\ UNCHANGED <<account, atWise, clock>>

Due(n) == stripe[n].state = "active" /\ stripe[n].end <= clock

Subscribe(n) ==
  /\ stripe[n].state = "open"
  /\ Becomes(n, [stripe[n] EXCEPT !.state = "active", !.end = clock + stripe[n].len], <<"completed">>)

Renew(n) ==
  /\ Due(n) /\ ~stripe[n].cancelEnd
  /\ Becomes(n, [stripe[n] EXCEPT !.end = @ + stripe[n].len], <<"updated">>)

(* The invoice of the next period is not paid.                             *)
Dun(n) ==
  /\ Due(n) /\ ~stripe[n].cancelEnd
  /\ Becomes(n, [stripe[n] EXCEPT !.state = "past_due", !.end = @ + stripe[n].len],
             <<"failed", "updated">>)

Recover(n) ==
  /\ stripe[n].state = "past_due"
  /\ Becomes(n, [stripe[n] EXCEPT !.state = "active"], <<"updated">>)

EndSubscription(n) ==
  /\ stripe[n].state = "past_due" \/ (Due(n) /\ stripe[n].cancelEnd)
  /\ Becomes(n, [stripe[n] EXCEPT !.state = "ended"], <<"deleted">>)

AtStripe(n) ==
  /\ Len(log) < MaxEvents
  /\ Subscribe(n) \/ Renew(n) \/ Dun(n) \/ Recover(n) \/ EndSubscription(n)
  /\ UNCHANGED <<h, answers, fails>>

-----------------------------------------------------------------------------
(* cancelSubscription                                                      *)

(* How the subscription is cancelled.                                      *)
CancelRoute ==
  IF row.provider = "WISE" THEN "c_wise"
  ELSE IF row.subId # 0 THEN "c_stripe" ELSE "c_row"

Cancel(p) ==
  /\ Ready(p) /\ row.plan # Free
  /\ Goto(p, [Idle EXCEPT !.sub = row.subId, !.pc = CancelRoute])
  /\ UNCHANGED <<account, atStripe, atWise, world, answers>>

CancelWise(p) ==
  /\ h[p].pc = "c_wise"
  /\ row' = [row EXCEPT !.cancelEnd = TRUE, !.ref = 0]
  /\ Reply(p)
  /\ UNCHANGED <<userPlan, atStripe, atWise, world>>

(* Stripe is asked to end the subscription with its period; it refuses for *)
(* one that is over, and sends an event when that changes something.       *)
CancelAtStripe(p) ==
  LET n == h[p].sub IN
  /\ h[p].pc = "c_stripe"
  /\ \/ /\ stripe[n].state \in {"active", "past_due"}
        /\ Becomes(n, [stripe[n] EXCEPT !.cancelEnd = TRUE],
                   IF stripe[n].cancelEnd THEN <<>> ELSE <<"updated">>)
        /\ Goto(p, [h[p] EXCEPT !.pc = "c_row"])
        /\ UNCHANGED <<answers, fails>>
     \/ /\ stripe[n].state = "ended"
        /\ Throw(p)
        /\ UNCHANGED <<account, atStripe, atWise, world>>

CancelRow(p) ==
  /\ h[p].pc = "c_row"
  /\ row' = [row EXCEPT !.cancelEnd = TRUE]
  /\ Reply(p)
  /\ UNCHANGED <<userPlan, atStripe, atWise, world>>

-----------------------------------------------------------------------------
(* admin.service.ts, updateUserPlan: User.plan first, then the row.        *)

AdminSetPlan(p, plan) ==
  /\ Ready(p)
  /\ userPlan' = plan
  /\ Goto(p, [Idle EXCEPT !.pc = "admin", !.plan = plan])
  /\ UNCHANGED <<row, atStripe, atWise, world, answers>>

Granted(plan) == [row EXCEPT !.plan = plan, !.status = "ACTIVE"]

AdminWriteRow(p) ==
  /\ h[p].pc = "admin"
  /\ row' = Granted(h[p].plan)
  /\ Reply(p)
  /\ UNCHANGED <<userPlan, atStripe, atWise, world>>

-----------------------------------------------------------------------------
Tick ==
  /\ clock < MaxClock
  /\ clock' = clock + 1
  /\ UNCHANGED <<account, h, atStripe, atWise, answers, fails>>

(* The handler of p dies between two calls; nothing it wrote is undone.    *)
Fail(p) ==
  /\ ~Ready(p) /\ fails < MaxFails
  /\ fails' = fails + 1
  /\ Throw(p)
  /\ UNCHANGED <<account, atStripe, atWise, clock>>

Step(p) ==
  \/ WriteTrial(p) \/ WriteExpired(p) \/ SaveCustomer(p) \/ OpenCheckout(p)
  \/ WiseActivate(p) \/ Remind(p)
  \/ WriteUserPlan(p) \/ MailCancelled(p) \/ WriteFailed(p)
  \/ CancelWise(p) \/ CancelAtStripe(p) \/ CancelRow(p) \/ AdminWriteRow(p)

Request(p) ==
  \/ StartTrial(p) \/ Cancel(p)
  \/ \E plan \in Plans, len \in Intervals : Checkout(p, plan, len) \/ WiseSession(p, plan, len)
  \/ \E plan \in AdminPlans : AdminSetPlan(p, plan)

Next ==
  \/ \E p \in Procs :
       \/ Step(p) \/ Request(p) \/ Fail(p)
       \/ ExpireTrials(p) \/ RenewalDue(p)
       \/ \E i \in DOMAIN log : Webhook(p, i)
       \/ \E o \in transfers : WiseWebhook(p, o)
  \/ \E o \in offers : Transfer(o)
  \/ \E n \in 1..MaxSubs : AtStripe(n)
  \/ Tick

Spec == Init /\ [][Next]_vars

-----------------------------------------------------------------------------
RowType == [plan : Plans \cup {Free}, status : {"ACTIVE", "CANCELLED", "EXPIRED", "TRIAL"},
            provider : {"STRIPE", "WISE"}, customer : 0..MaxSubs, subId : 0..MaxSubs,
            ref : Nat, pendingPlan : Plans \cup {Free}, pendingFor : Intervals \cup {0},
            amount : Plans \cup {Free}, trialEnd : Nat, periodEnd : Nat, cancelEnd : BOOLEAN]

HandlerType == [pc : {"idle", "trial", "expire", "co_save", "co_open", "wise", "remind", "user",
                      "mail", "failed", "c_wise", "c_stripe", "c_row", "admin"},
                event : Nat, plan : Plans \cup {Free}, len : Intervals \cup {0}, end : Nat,
                ref : Nat, sub : 0..MaxSubs, customer : 0..MaxSubs]

CheckoutType == [state : {"none", "open", "active", "past_due", "ended"},
                 plan : Plans \cup {Free}, len : Intervals \cup {0}, end : Nat,
                 cancelEnd : BOOLEAN, customer : 0..MaxSubs]

EventType == [type : {"completed", "updated", "deleted", "failed"}, sub : 1..MaxSubs,
              plan : Plans \cup {Free}, len : Intervals \cup {0}, active : BOOLEAN,
              cancelEnd : BOOLEAN, end : Nat, customer : 0..MaxSubs]

(* Every row, handler, event and payment has the shape the schema gives it. *)
TypeOK ==
  /\ row \in RowType /\ userPlan \in Plans \cup {Free}
  /\ h \in [Procs -> HandlerType]
  /\ stripe \in [1..MaxSubs -> CheckoutType]
  /\ log \in Seq(EventType) /\ acked \subseteq DOMAIN log
  /\ refs \in Nat /\ offers \subseteq [ref : Nat, plan : Plans \cup {Free}]
  /\ transfers \subseteq offers /\ answered \subseteq transfers /\ credited \subseteq Nat
  /\ clock \in Nat /\ fails \in Nat

-----------------------------------------------------------------------------
(* What holds when handlers do not overlap (one slot).                     *)

Quiet == \A p \in Procs : Ready(p)

(* All that Stripe said was heard.                                         *)
Settled == Quiet /\ acked = DOMAIN log

(* User.plan, which the feed and the profile show, and the plan of the row, *)
(* which the limits follow, agree once every webhook is answered: whatever *)
(* the order of the webhooks, however often one is repeated, and although  *)
(* one may die between its two updates.                                    *)
PlansAgree == Settled => userPlan = row.plan

(* A Wise transfer activates a plan once, however often it is notified.    *)
CreditedOnce == \A p \in Procs : h[p].pc = "wise" => h[p].ref \notin credited

(* With one Stripe subscription and webhooks in order, the row says what   *)
(* Stripe says: an active subscription gives its plan, one that is over    *)
(* gives none, although webhooks are repeated and die half way.            *)
RowMirrorsStripe ==
  Settled /\ row.subId # 0 /\ row.status # "TRIAL" =>
    LET s == stripe[row.subId] IN
    /\ s.state = "active" => row.plan = s.plan
    /\ s.state = "ended" => row.plan = Free

(* A subscription shown as cancelled is not renewed by Stripe: the row     *)
(* never claims a cancellation that Stripe was not asked for.              *)
CancelStopsCharging ==
  Quiet /\ row.cancelEnd /\ row.subId # 0 /\ stripe[row.subId].state = "active" =>
    stripe[row.subId].cancelEnd

(* The end of a Stripe subscription reaches User.plan, although the        *)
(* webhook dies after the first of its two updates.                        *)
DeletionReachesUser ==
  (\E i \in DOMAIN log \ acked : log[i].type = "deleted") ~> userPlan = Free

(* A trial that ends within the bound of time does end, although requests  *)
(* and webhooks come in between and the cron dies.                         *)
TrialEnds ==
  row.status = "TRIAL" /\ row.trialEnd <= MaxClock
    ~> row.status # "TRIAL" \/ row.trialEnd > MaxClock

-----------------------------------------------------------------------------
(* What holds for any interleaving.                                        *)

Subscribed(plan) ==
  \E n \in 1..MaxSubs : /\ stripe[n].plan = plan
                        /\ stripe[n].state \in {"active", "past_due", "ended"}

(* How an account can have come to have this plan.                         *)
PaidFor(plan) ==
  \/ plan = Free \/ Subscribed(plan) \/ transfers # {}
  \/ plan = Pro /\ row.trialEnd # 0

(* Without administrators, a plan comes from a Stripe                      *)
(* subscription to that plan, a Wise transfer or, for PRO, a trial: stale  *)
(* reads, late and repeated webhooks and dead handlers give nothing away.  *)
PlanIsPaidFor == PaidFor(row.plan) /\ PaidFor(userPlan)

-----------------------------------------------------------------------------
(* What pages of the repository say of the program.                        *)

(* faq/page.tsx:25, after a trial "le compte revient au forfait gratuit si *)
(* vous ne vous abonnez pas": whoever has subscribed, and whose payment    *)
(* the server has heard of, does not fall back to the free plan.           *)
SubscribersKeepPlan ==
  Settled /\ (\E n \in 1..MaxSubs : stripe[n].state = "active") => row.plan # Free
=============================================================================
