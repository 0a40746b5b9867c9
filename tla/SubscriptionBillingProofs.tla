--------------------- MODULE SubscriptionBillingProofs ---------------------
(***************************************************************************)
(* Proofs about SubscriptionBilling, for any plans, periods, slots, order  *)
(* of webhooks and bounds; and about the world of MCSubscriptionBilling in *)
(* which Stripe delivers in order.                                         *)
(***************************************************************************)
EXTENDS MCSubscriptionBilling, TLAPS

-----------------------------------------------------------------------------
(* Types.  A handler that serves a webhook knows an event that was sent,   *)
(* and one that asks Stripe to cancel knows a subscription.                *)
Knows(r) == r.event \in {0} \cup DOMAIN log /\ (r.pc = "c_stripe" => r.sub # 0)

AccountOK == row \in RowType /\ userPlan \in Plans \cup {Free}
StripeOK == stripe \in [1..MaxSubs -> CheckoutType] /\ log \in Seq(EventType)
WiseOK ==
  /\ refs \in Nat /\ offers \subseteq [ref : Nat, plan : Plans \cup {Free}]
  /\ transfers \subseteq offers /\ credited \subseteq Nat
AnswersOK == acked \subseteq DOMAIN log /\ answered \subseteq transfers
WorldOK == clock \in Nat /\ fails \in Nat
HandlersOK == h \in [Procs -> HandlerType] /\ \A p \in Procs : Knows(h[p])

TypeInv == AccountOK /\ StripeOK /\ WiseOK /\ AnswersOK /\ WorldOK /\ HandlersOK

LEMMA TypeInvOK == TypeInv => TypeOK
  BY DEF TypeInv, AccountOK, StripeOK, WiseOK, AnswersOK, WorldOK, HandlersOK, TypeOK

LEMMA LenNat == ASSUME NEW x \in Intervals \cup {0} PROVE x \in Nat
<1>1. Intervals \subseteq Nat \ {0}
  BY BillingAssumption
<1> QED BY <1>1

LEMMA IdleOK == Idle \in HandlerType /\ Idle.event = 0 /\ Idle.pc = "idle" /\ Idle.sub = 0
  BY BillingAssumption DEF Idle, HandlerType

LEMMA TypeInit == Init => TypeInv
<1> SUFFICES ASSUME Init PROVE TypeInv
  OBVIOUS
<1>1. AccountOK
  BY BillingAssumption DEF Init, AccountOK, NoRow, RowType
<1>2. StripeOK /\ AnswersOK
  BY BillingAssumption DEF Init, StripeOK, AnswersOK, NoCheckout, CheckoutType
<1>3. WiseOK /\ WorldOK
  BY DEF Init, WiseOK, WorldOK
<1>4. HandlersOK
  BY IdleOK DEF Init, HandlersOK, Knows
<1> QED BY <1>1, <1>2, <1>3, <1>4 DEF TypeInv

-----------------------------------------------------------------------------
(* What a step leaves alone stays as it should be.                         *)
LEMMA Frames ==
  ASSUME TypeInv
  PROVE  /\ UNCHANGED account => AccountOK'
         /\ UNCHANGED atStripe => StripeOK'
         /\ UNCHANGED atWise => WiseOK'
         /\ UNCHANGED world => WorldOK'
         /\ UNCHANGED answers /\ UNCHANGED <<log, transfers>> => AnswersOK'
         /\ UNCHANGED <<h, log>> => HandlersOK'
  BY DEF TypeInv, AccountOK, StripeOK, WiseOK, AnswersOK, WorldOK, HandlersOK, Knows,
     account, atStripe, atWise, world, answers

(* A handler goes on with record r.                                        *)
LEMMA GotoKeeps ==
  ASSUME TypeInv, NEW p \in Procs, NEW r \in HandlerType, Goto(p, r),
         r.event \in {0} \cup DOMAIN log', r.pc = "c_stripe" => r.sub # 0,
         DOMAIN log \subseteq DOMAIN log'
  PROVE  HandlersOK'
<1>1. h' \in [Procs -> HandlerType] /\ h'[p] = r /\ \A q \in Procs \ {p} : h'[q] = h[q]
  BY DEF Goto, TypeInv, HandlersOK
<1>2. \A q \in Procs : Knows(h[q])
  BY DEF TypeInv, HandlersOK
<1> QED BY <1>1, <1>2 DEF HandlersOK, Knows

(* A handler ends, and answers its webhook or does not.                    *)
LEMMA EndKeeps ==
  ASSUME TypeInv, NEW p \in Procs, Reply(p) \/ Throw(p), UNCHANGED <<log, transfers>>
  PROVE  HandlersOK' /\ AnswersOK'
<1>1. HandlersOK'
  BY IdleOK, GotoKeeps DEF Reply, Throw
<1>2. h[p].event # 0 => h[p].event \in DOMAIN log
  BY DEF TypeInv, HandlersOK, Knows
<1>3. AnswersOK'
  BY <1>2 DEF TypeInv, AnswersOK, Reply, Throw, Answer, answers
<1> QED BY <1>1, <1>3

(* The fields of a handler's record.                                       *)
LEMMA Fields ==
  ASSUME TypeInv, NEW p \in Procs
  PROVE  /\ h[p] \in HandlerType
         /\ h[p].plan \in Plans \cup {Free} /\ h[p].len \in Intervals \cup {0}
         /\ h[p].end \in Nat /\ h[p].ref \in Nat /\ h[p].sub \in 0..MaxSubs
         /\ h[p].customer \in 0..MaxSubs
         /\ h[p].event \in {0} \cup DOMAIN log /\ (h[p].pc = "c_stripe" => h[p].sub # 0)
  BY DEF TypeInv, HandlersOK, HandlerType, Knows

-----------------------------------------------------------------------------
(* Trials, administrators, and the calls that only write the account       *)

LEMMA WriteAccountOK ==
  ASSUME TypeInv, NEW p \in Procs,
         \/ WriteTrial(p) \/ WriteExpired(p) \/ SaveCustomer(p) \/ WriteFailed(p)
         \/ CancelWise(p) \/ CancelRow(p) \/ AdminWriteRow(p) \/ WriteUserPlan(p)
  PROVE  AccountOK'
<1> USE Fields, BillingAssumption DEF AccountOK, RowType
<1>0. AccountOK /\ WorldOK
  BY DEF TypeInv
<1>1. CASE WriteTrial(p)
  BY <1>0, <1>1 DEF WriteTrial
<1>2. CASE WriteExpired(p)
  BY <1>0, <1>2 DEF WriteExpired
<1>3. CASE SaveCustomer(p)
  BY <1>0, <1>3 DEF SaveCustomer, WithCustomer
<1>4. CASE WriteFailed(p)
  BY <1>0, <1>4 DEF WriteFailed
<1>5. CASE CancelWise(p)
  BY <1>0, <1>5 DEF CancelWise
<1>6. CASE CancelRow(p)
  BY <1>0, <1>6 DEF CancelRow
<1>7. CASE AdminWriteRow(p)
  BY <1>0, <1>7 DEF AdminWriteRow, Granted
<1>8. CASE WriteUserPlan(p)
  BY <1>0, <1>8 DEF WriteUserPlan
<1> QED BY <1>1, <1>2, <1>3, <1>4, <1>5, <1>6, <1>7, <1>8

LEMMA WriteAccountKeeps ==
  ASSUME TypeInv, NEW p \in Procs,
         \/ WriteTrial(p) \/ WriteExpired(p) \/ SaveCustomer(p) \/ WriteFailed(p)
         \/ CancelWise(p) \/ CancelRow(p) \/ AdminWriteRow(p) \/ WriteUserPlan(p)
  PROVE  TypeInv'
<1>1. AccountOK'
  BY WriteAccountOK
<1>2. UNCHANGED <<atStripe, atWise, world>>
  BY DEF WriteTrial, WriteExpired, SaveCustomer, WriteFailed, CancelWise, CancelRow,
     AdminWriteRow, WriteUserPlan
<1>3. UNCHANGED <<log, transfers>> /\ StripeOK' /\ WiseOK' /\ WorldOK'
  BY <1>2, Frames DEF atStripe, atWise
<1>4. CASE Reply(p)
  BY <1>1, <1>3, <1>4, EndKeeps DEF TypeInv
<1>5. CASE /\ UNCHANGED answers
           /\ Goto(p, [h[p] EXCEPT !.pc = "co_open"]) \/ Goto(p, [h[p] EXCEPT !.pc = "mail"])
  <2>1. PICK pc \in {"co_open", "mail"} : Goto(p, [h[p] EXCEPT !.pc = pc])
    BY <1>5
  <2>2. [h[p] EXCEPT !.pc = pc] \in HandlerType
    BY Fields DEF HandlerType
  <2>3. HandlersOK'
    <3> DEFINE r == [h[p] EXCEPT !.pc = pc]
    <3>1. r.pc = pc /\ r.event \in {0} \cup DOMAIN log
      BY Fields DEF HandlerType
    <3> QED BY <1>3, <2>1, <2>2, <3>1, GotoKeeps
  <2> QED BY <1>1, <1>3, <1>5, <2>3, Frames DEF TypeInv
<1> QED BY <1>4, <1>5 DEF WriteTrial, WriteExpired, SaveCustomer, WriteFailed, CancelWise,
           CancelRow, AdminWriteRow, WriteUserPlan

(* The requests and jobs that begin with a read: only the handler moves.   *)
LEMMA BeginKeeps ==
  ASSUME TypeInv, NEW p \in Procs, NEW r \in HandlerType, Goto(p, r),
         r.event \in {0} \cup DOMAIN log, r.pc = "c_stripe" => r.sub # 0,
         UNCHANGED <<account, atStripe, atWise, world, answers>>
  PROVE  TypeInv'
<1>1. UNCHANGED <<log, transfers>>
  BY DEF atStripe, atWise
<1> QED BY <1>1, GotoKeeps, Frames DEF TypeInv

LEMMA RequestKeeps ==
  ASSUME TypeInv, NEW p \in Procs,
         \/ StartTrial(p) \/ ExpireTrials(p) \/ RenewalDue(p) \/ Cancel(p)
         \/ \E plan \in Plans, len \in Intervals : Checkout(p, plan, len)
  PROVE  TypeInv'
<1>0. row \in RowType /\ clock \in Nat
  BY DEF TypeInv, AccountOK, WorldOK
<1>1. CASE StartTrial(p)
  <2> DEFINE r == [Idle EXCEPT !.pc = "trial", !.end = clock + TrialDays]
  <2>1. r \in HandlerType /\ r.event = 0 /\ r.pc = "trial"
    <3>1. clock + TrialDays \in Nat
      BY <1>0, BillingAssumption
    <3> QED BY <3>1, IdleOK DEF HandlerType
  <2>2. Goto(p, r) /\ UNCHANGED <<account, atStripe, atWise, world, answers>>
    BY <1>1 DEF StartTrial
  <2> HIDE DEF r
  <2> QED BY <2>1, <2>2, BeginKeeps
<1>2. CASE ExpireTrials(p)
  <2> DEFINE r == [Idle EXCEPT !.pc = "expire"]
  <2>1. r \in HandlerType /\ r.event = 0 /\ r.pc = "expire"
    BY IdleOK, BillingAssumption DEF HandlerType
  <2>2. Goto(p, r) /\ UNCHANGED <<account, atStripe, atWise, world, answers>>
    BY <1>2 DEF ExpireTrials
  <2> HIDE DEF r
  <2> QED BY <2>1, <2>2, BeginKeeps
<1>3. CASE RenewalDue(p)
  <2> DEFINE r == [Idle EXCEPT !.pc = "remind", !.plan = row.amount]
  <2>1. r \in HandlerType /\ r.event = 0 /\ r.pc = "remind"
    BY <1>0, IdleOK, BillingAssumption DEF HandlerType, RowType
  <2>2. Goto(p, r) /\ UNCHANGED <<account, atStripe, atWise, world, answers>>
    BY <1>3 DEF RenewalDue
  <2> HIDE DEF r
  <2> QED BY <2>1, <2>2, BeginKeeps
<1>4. CASE Cancel(p)
  <2> DEFINE r == [Idle EXCEPT !.sub = row.subId, !.pc = CancelRoute]
  <2>1. r \in HandlerType /\ r.event = 0 /\ r.pc = CancelRoute /\ r.sub = row.subId
    BY <1>0, IdleOK, BillingAssumption DEF HandlerType, RowType, CancelRoute
  <2>2. CancelRoute = "c_stripe" => row.subId # 0
    BY DEF CancelRoute
  <2>3. Goto(p, r) /\ UNCHANGED <<account, atStripe, atWise, world, answers>>
    BY <1>4 DEF Cancel
  <2> HIDE DEF r
  <2> QED BY <2>1, <2>2, <2>3, BeginKeeps
<1>5. ASSUME NEW plan \in Plans, NEW len \in Intervals, Checkout(p, plan, len) PROVE TypeInv'
  <2> DEFINE pc == IF row.customer = 0 THEN "co_save" ELSE "co_open"
             customer(n) == IF row.customer = 0 THEN n ELSE row.customer
             begun(n) == [Idle EXCEPT !.pc = pc, !.plan = plan, !.len = len, !.sub = n,
                                      !.customer = customer(n)]
  <2>1. PICK n \in 1..MaxSubs : Goto(p, begun(n))
    BY <1>5 DEF Checkout
  <2> DEFINE r == begun(n)
  <2>2. r \in HandlerType /\ r.event = 0 /\ r.pc = pc
    <3>1. customer(n) \in 0..MaxSubs /\ n \in 0..MaxSubs
      BY <1>0, BillingAssumption DEF RowType
    <3>2. pc \in {"co_save", "co_open"}
      OBVIOUS
    <3> HIDE DEF pc, customer
    <3> QED BY <3>1, <3>2, IdleOK DEF HandlerType
  <2>3. Goto(p, r) /\ UNCHANGED <<account, atStripe, atWise, world, answers>>
    BY <1>5, <2>1 DEF Checkout
  <2>4. pc # "c_stripe"
    OBVIOUS
  <2> HIDE DEF r, pc
  <2> QED BY <2>2, <2>3, <2>4, BeginKeeps
<1> QED BY <1>1, <1>2, <1>3, <1>4, <1>5

LEMMA AdminKeeps ==
  ASSUME TypeInv, NEW p \in Procs, NEW plan \in AdminPlans, AdminSetPlan(p, plan)
  PROVE  TypeInv'
<1> DEFINE r == [Idle EXCEPT !.pc = "admin", !.plan = plan]
<1>1. r \in HandlerType /\ r.event = 0 /\ r.pc = "admin"
  BY IdleOK, BillingAssumption DEF HandlerType
<1>2. AccountOK'
  BY BillingAssumption DEF AdminSetPlan, TypeInv, AccountOK
<1>3. UNCHANGED <<log, transfers>>
  BY DEF AdminSetPlan, atStripe, atWise
<1>4. Goto(p, r)
  BY DEF AdminSetPlan
<1> HIDE DEF r
<1>5. HandlersOK'
  BY <1>1, <1>3, <1>4, GotoKeeps
<1> QED BY <1>2, <1>3, <1>5, Frames DEF AdminSetPlan, TypeInv

-----------------------------------------------------------------------------
(* Wise                                                                    *)

LEMMA WiseKeeps ==
  ASSUME TypeInv, NEW p \in Procs,
         \/ \E plan \in Plans, len \in Intervals : WiseSession(p, plan, len)
         \/ \E o \in transfers : WiseWebhook(p, o)
         \/ WiseActivate(p) \/ Remind(p)
  PROVE  TypeInv'
<1>0. /\ row \in RowType /\ userPlan \in Plans \cup {Free} /\ clock \in Nat /\ refs \in Nat
      /\ offers \subseteq [ref : Nat, plan : Plans \cup {Free}]
      /\ transfers \subseteq offers /\ credited \subseteq Nat
  BY DEF TypeInv, AccountOK, WorldOK, WiseOK
<1>1. ASSUME NEW plan \in Plans, NEW len \in Intervals, WiseSession(p, plan, len) PROVE TypeInv'
  <2>0. PICK n \in Nat : n = refs + 1
    BY <1>0
  <2>1. refs' = n /\ offers' = offers \cup {[ref |-> n, plan |-> plan]}
    BY <1>1, <2>0 DEF WiseSession
  <2>2. row' = [row EXCEPT !.provider = "WISE", !.ref = n, !.amount = plan,
                           !.pendingPlan = plan, !.pendingFor = len]
    BY <1>1, <2>1 DEF WiseSession
  <2>3. row' \in RowType
    BY <1>0, <2>2 DEF RowType
  <2>4. AccountOK' /\ WiseOK'
    <3>1. UNCHANGED <<userPlan, transfers, credited>>
      BY <1>1 DEF WiseSession
    <3> QED BY <1>0, <2>1, <2>3, <3>1 DEF AccountOK, WiseOK
  <2>5. UNCHANGED <<log, transfers>>
    BY <1>1 DEF WiseSession, atStripe
  <2> QED BY <1>1, <2>4, <2>5, Frames DEF WiseSession, TypeInv
<1>2. ASSUME NEW o \in transfers, WiseWebhook(p, o) PROVE TypeInv'
  <2>0. UNCHANGED <<log, transfers>> /\ UNCHANGED <<account, atStripe, atWise, world>>
    BY <1>2 DEF WiseWebhook, atStripe, atWise
  <2>1. CASE row.ref = o.ref
    <3> DEFINE plan == IF row.pendingPlan = Free THEN Pro ELSE row.pendingPlan
               len == IF row.pendingFor = 0 THEN Monthly ELSE row.pendingFor
               end == clock + len
    <3>1. Goto(p, [Idle EXCEPT !.pc = "wise", !.ref = o.ref, !.plan = plan, !.end = end])
      BY <1>2, <2>1 DEF WiseWebhook
    <3> DEFINE r == [Idle EXCEPT !.pc = "wise", !.ref = o.ref, !.plan = plan, !.end = end]
    <3>2. r \in HandlerType /\ r.event = 0 /\ r.pc = "wise"
      <4>0. row.pendingPlan \in Plans \cup {Free} /\ row.pendingFor \in Intervals \cup {0}
        BY <1>0 DEF RowType
      <4>1. plan \in Plans
        BY <4>0, BillingAssumption
      <4>2. end \in Nat
        <5>1. len \in Nat
          BY <4>0, BillingAssumption
        <5> HIDE DEF len
        <5> QED BY <1>0, <5>1
      <4>3. o.ref \in Nat
        BY <1>0
      <4> HIDE DEF plan, len, end
      <4> QED BY <4>1, <4>2, <4>3, IdleOK DEF HandlerType
    <3> HIDE DEF r
    <3>3. HandlersOK'
      BY <2>0, <3>1, <3>2, GotoKeeps DEF r
    <3> QED BY <1>2, <2>0, <2>1, <3>3, Frames DEF WiseWebhook, TypeInv
  <2>2. CASE row.ref # o.ref
    <3>1. AnswersOK'
      BY <1>2, <2>0, <2>2 DEF WiseWebhook, TypeInv, AnswersOK
    <3> QED BY <1>2, <2>0, <2>2, <3>1, Frames DEF WiseWebhook, TypeInv
  <2> QED BY <2>1, <2>2
<1>3. CASE WiseActivate(p)
  <2>0. PICK n \in Nat : refs' = n
    BY <1>0, <1>3 DEF WiseActivate, NewReference
  <2>a. row' = [row EXCEPT !.plan = h[p].plan, !.status = "ACTIVE", !.periodEnd = h[p].end,
                           !.cancelEnd = FALSE, !.ref = n, !.pendingPlan = Free, !.pendingFor = 0]
    BY <1>3, <2>0 DEF WiseActivate
  <2>b. row' \in RowType
    BY <1>0, <2>a, Fields DEF RowType
  <2>1. AccountOK' /\ WiseOK'
    BY <1>0, <1>3, <2>0, <2>b, Fields DEF WiseActivate, AccountOK, WiseOK
  <2>2. UNCHANGED <<log, transfers>> /\ UNCHANGED <<atStripe, world>>
    BY <1>3 DEF WiseActivate, atStripe
  <2>3. HandlersOK'
    BY <1>3, <2>2, IdleOK, GotoKeeps DEF WiseActivate
  <2>4. AnswersOK'
    BY <1>3, <2>2 DEF WiseActivate, TypeInv, AnswersOK
  <2> QED BY <2>1, <2>2, <2>3, <2>4, Frames DEF TypeInv
<1>4. CASE Remind(p)
  <2>1. AccountOK' /\ WiseOK'
    BY <1>0, <1>4, Fields DEF Remind, AccountOK, RowType, WiseOK
  <2>2. UNCHANGED <<log, transfers>> /\ UNCHANGED <<atStripe, world>>
    BY <1>4 DEF Remind, atStripe
  <2> QED BY <1>4, <2>1, <2>2, EndKeeps, Frames DEF Remind, TypeInv
<1> QED BY <1>1, <1>2, <1>3, <1>4

LEMMA TransferKeeps ==
  ASSUME TypeInv, NEW o \in offers, Transfer(o)
  PROVE  TypeInv'
<1>1. WiseOK' /\ AnswersOK' /\ log' = log
  BY DEF Transfer, TypeInv, WiseOK, AnswersOK, answers, atStripe
<1> QED BY <1>1, Frames DEF Transfer, TypeInv

-----------------------------------------------------------------------------
(* Stripe and its webhooks                                                 *)

LEMMA OpenCheckoutKeeps ==
  ASSUME TypeInv, NEW p \in Procs, OpenCheckout(p)
  PROVE  TypeInv'
<1> DEFINE s == [NoCheckout EXCEPT !.state = "open", !.plan = h[p].plan, !.len = h[p].len,
                                   !.customer = h[p].customer]
<1>1. NoCheckout \in CheckoutType
  BY BillingAssumption DEF NoCheckout, CheckoutType
<1>2. s \in CheckoutType
  BY <1>1, Fields DEF CheckoutType
<1>3. StripeOK' /\ UNCHANGED <<log, transfers>>
  BY <1>2 DEF OpenCheckout, TypeInv, StripeOK, atWise
<1> QED BY <1>3, EndKeeps, Frames DEF OpenCheckout, TypeInv

(* What a logged event says.                                               *)
LEMMA Logged ==
  ASSUME TypeInv, NEW i \in DOMAIN log
  PROVE  /\ i \in Nat \ {0} /\ log[i] \in EventType
         /\ log[i].plan \in Plans \cup {Free} /\ log[i].len \in Intervals \cup {0}
         /\ log[i].end \in Nat /\ log[i].sub \in 1..MaxSubs /\ log[i].sub \in 0..MaxSubs
         /\ log[i].customer \in 0..MaxSubs /\ log[i].active \in BOOLEAN
         /\ log[i].cancelEnd \in BOOLEAN
<1>1. log \in Seq(EventType)
  BY DEF TypeInv, StripeOK
<1>2. log[i] \in EventType /\ i \in Nat \ {0}
  BY <1>1
<1> QED BY <1>2, BillingAssumption DEF EventType

LEMMA AnswerKeeps ==
  ASSUME TypeInv, NEW i \in DOMAIN log, Answer(i), UNCHANGED <<log, transfers>>
  PROVE  AnswersOK'
  BY DEF Answer, TypeInv, AnswersOK

LEMMA WebhookKeeps ==
  ASSUME TypeInv, NEW p \in Procs, NEW i \in DOMAIN log, Webhook(p, i)
  PROVE  TypeInv'
<1>0. /\ UNCHANGED <<atStripe, atWise, world>> /\ UNCHANGED <<log, transfers>>
      /\ row \in RowType /\ userPlan \in Plans \cup {Free} /\ clock \in Nat
  BY DEF Webhook, CheckoutCompleted, SubscriptionUpdated, SubscriptionDeleted, PaymentFailed,
     atStripe, atWise, TypeInv, AccountOK, WorldOK
<1>1. CASE CheckoutCompleted(p, i)
  <2>1. PICK e \in EventType : e = log[i]
    BY Logged
  <2>2. e.plan \in Plans \cup {Free} /\ clock + e.len \in Nat /\ e.sub \in 0..MaxSubs
    <3>1. e.len \in Intervals \cup {0}
      BY <2>1, Logged
    <3>2. e.len \in Nat
      BY <3>1, LenNat
    <3> QED BY <1>0, <2>1, <3>2, Logged
  <2>3. row' = [row EXCEPT !.plan = e.plan, !.status = "ACTIVE", !.periodEnd = clock + e.len,
                           !.cancelEnd = FALSE, !.subId = IF e.sub = 0 THEN @ ELSE e.sub]
    BY <1>1, <2>1 DEF CheckoutCompleted, Activated
  <2>4. row' \in RowType
    BY <1>0, <2>2, <2>3 DEF RowType
  <2>5. AccountOK'
    BY <1>1, <2>1, <2>2, <2>4 DEF CheckoutCompleted, AccountOK
  <2> QED BY <1>0, <1>1, <2>5, AnswerKeeps, Frames DEF CheckoutCompleted, TypeInv
<1>2. CASE SubscriptionUpdated(p, i)
  <2> DEFINE plan == IF log[i].active THEN log[i].plan ELSE Free
             status == IF log[i].active THEN "ACTIVE" ELSE "CANCELLED"
             r == [Idle EXCEPT !.pc = "user", !.event = i, !.plan = plan]
  <2>1. plan \in Plans \cup {Free} /\ status \in {"ACTIVE", "CANCELLED"}
    BY Logged
  <2>2. row' = [row EXCEPT !.plan = plan, !.status = status, !.periodEnd = log[i].end,
                           !.cancelEnd = log[i].cancelEnd, !.subId = log[i].sub]
        /\ Goto(p, r) /\ userPlan' = userPlan /\ UNCHANGED answers
    BY <1>2 DEF SubscriptionUpdated
  <2> HIDE DEF plan, status
  <2>3. row' \in RowType
    BY <1>0, <2>1, <2>2, Logged DEF RowType
  <2>4. r \in HandlerType /\ r.event = i /\ r.pc = "user"
    BY <2>1, IdleOK, Logged DEF HandlerType
  <2>5. AccountOK'
    BY <1>0, <2>2, <2>3 DEF AccountOK
  <2> HIDE DEF r
  <2> QED BY <1>0, <2>2, <2>4, <2>5, GotoKeeps, Frames DEF TypeInv
<1>3. CASE SubscriptionDeleted(p, i)
  <2> DEFINE r == [Idle EXCEPT !.pc = "user", !.event = i, !.plan = Free, !.end = log[i].end]
  <2>1. r \in HandlerType /\ r.event = i /\ r.pc = "user"
    BY IdleOK, Logged DEF HandlerType
  <2>2. AccountOK'
    BY <1>0, <1>3 DEF SubscriptionDeleted, Ended, AccountOK, RowType
  <2>3. Goto(p, r) /\ UNCHANGED answers
    BY <1>3 DEF SubscriptionDeleted
  <2> HIDE DEF r
  <2> QED BY <1>0, <2>1, <2>2, <2>3, GotoKeeps, Frames DEF TypeInv
<1>4. CASE PaymentFailed(p, i)
  <2> DEFINE r == [Idle EXCEPT !.pc = "failed", !.event = i]
  <2>1. r \in HandlerType /\ r.event = i /\ r.pc = "failed"
    BY IdleOK, Logged DEF HandlerType
  <2>2. UNCHANGED account
    BY <1>4 DEF PaymentFailed
  <2>3. CASE row.customer = log[i].customer
    <3>1. Goto(p, r) /\ UNCHANGED answers
      BY <1>4, <2>3 DEF PaymentFailed
    <3> HIDE DEF r
    <3> QED BY <1>0, <2>1, <2>2, <3>1, GotoKeeps, Frames DEF TypeInv
  <2>4. CASE row.customer # log[i].customer
    <3>1. Answer(i) /\ UNCHANGED h
      BY <1>4, <2>4 DEF PaymentFailed
    <3> QED BY <1>0, <2>2, <3>1, AnswerKeeps, Frames DEF TypeInv
  <2> QED BY <2>3, <2>4
<1> QED BY <1>1, <1>2, <1>3, <1>4 DEF Webhook

(* What Stripe, time and deaths do, without the bounds of the model.       *)
Moves(n) ==
  /\ Subscribe(n) \/ Renew(n) \/ Dun(n) \/ Recover(n) \/ EndSubscription(n)
  /\ UNCHANGED <<h, answers, fails>>
Passes == clock' = clock + 1 /\ UNCHANGED <<account, h, atStripe, atWise, answers, fails>>
Dies(p) ==
  /\ ~Ready(p) /\ Throw(p) /\ fails' = fails + 1
  /\ UNCHANGED <<account, atStripe, atWise, clock>>

LEMMA Unbounded ==
  /\ \A n : AtStripe(n) => Moves(n)
  /\ \A p : Fail(p) => Dies(p)
  /\ Tick => Passes
  BY DEF AtStripe, Moves, Fail, Dies, Tick, Passes

LEMMA MailKeeps ==
  ASSUME TypeInv, NEW p \in Procs, MailCancelled(p) \/ Dies(p)
  PROVE  TypeInv'
<1>1. UNCHANGED <<account, atStripe, atWise>> /\ UNCHANGED <<log, transfers>>
  BY DEF MailCancelled, Dies, atStripe, atWise
<1>2. WorldOK'
  BY DEF MailCancelled, Dies, TypeInv, WorldOK, world
<1> QED BY <1>1, <1>2, EndKeeps, Frames DEF MailCancelled, Dies, TypeInv

Types == {"completed", "updated", "deleted", "failed"}

(* A subscription changes and events follow.                               *)
LEMMA BecomesKeeps ==
  ASSUME TypeInv, NEW n \in 1..MaxSubs, NEW s \in CheckoutType,
         NEW types \in Seq(Types), Becomes(n, s, types)
  PROVE  /\ AccountOK' /\ StripeOK' /\ WiseOK' /\ clock' = clock
         /\ DOMAIN log \subseteq DOMAIN log' /\ transfers' = transfers
<1> DEFINE new == [k \in DOMAIN types |-> Event(types[k], n, s)]
<1>1. \A k \in DOMAIN types : Event(types[k], n, s) \in EventType
  BY DEF Event, EventType, CheckoutType, Types
<1>2. new \in Seq(EventType)
  BY <1>1
<1>3. log' = log \o new /\ log \in Seq(EventType)
  BY DEF Becomes, TypeInv, StripeOK
<1> HIDE DEF new
<1>4. log' \in Seq(EventType) /\ DOMAIN log \subseteq DOMAIN log'
  BY <1>2, <1>3
<1>5. StripeOK'
  BY <1>4 DEF Becomes, TypeInv, StripeOK
<1> QED BY <1>4, <1>5, Frames DEF Becomes, atWise

LEMMA AtStripeKeeps ==
  ASSUME TypeInv, NEW n \in 1..MaxSubs, Moves(n)
  PROVE  TypeInv'
<1>1. \E s \in CheckoutType, types \in Seq(Types) :
        Becomes(n, s, types)
  <2>1. stripe[n] \in CheckoutType /\ clock \in Nat
    BY DEF TypeInv, StripeOK, WorldOK
  <2>2. /\ stripe[n].len \in Nat /\ stripe[n].end \in Nat
        /\ stripe[n].end + stripe[n].len \in Nat /\ clock + stripe[n].len \in Nat
    <3>1. stripe[n].len \in Intervals \cup {0} /\ stripe[n].end \in Nat
      BY <2>1 DEF CheckoutType
    <3>2. stripe[n].len \in Nat
      BY <3>1, LenNat
    <3> QED BY <2>1, <3>1, <3>2
  <2>3. CASE Subscribe(n)
    <3> DEFINE s == [stripe[n] EXCEPT !.state = "active", !.end = clock + stripe[n].len]
               types == <<"completed">>
    <3>1. s \in CheckoutType
      BY <2>1, <2>2 DEF CheckoutType
    <3>2. types \in Seq(Types)
      BY DEF Types
    <3>3. Becomes(n, s, types)
      BY <2>3 DEF Subscribe
    <3> HIDE DEF s, types
    <3> QED BY <3>1, <3>2, <3>3
  <2>4. CASE Renew(n)
    <3> DEFINE s == [stripe[n] EXCEPT !.end = @ + stripe[n].len]
               types == <<"updated">>
    <3>1. s \in CheckoutType
      BY <2>1, <2>2 DEF CheckoutType
    <3>2. types \in Seq(Types)
      BY DEF Types
    <3>3. Becomes(n, s, types)
      BY <2>4 DEF Renew
    <3> HIDE DEF s, types
    <3> QED BY <3>1, <3>2, <3>3
  <2>5. CASE Dun(n)
    <3> DEFINE s == [stripe[n] EXCEPT !.state = "past_due", !.end = @ + stripe[n].len]
               types == <<"failed", "updated">>
    <3>1. s \in CheckoutType
      BY <2>1, <2>2 DEF CheckoutType
    <3>2. types \in Seq(Types)
      BY DEF Types
    <3>3. Becomes(n, s, types)
      BY <2>5 DEF Dun
    <3> HIDE DEF s, types
    <3> QED BY <3>1, <3>2, <3>3
  <2>6. CASE Recover(n)
    <3> DEFINE s == [stripe[n] EXCEPT !.state = "active"]
               types == <<"updated">>
    <3>1. s \in CheckoutType
      BY <2>1 DEF CheckoutType
    <3>2. types \in Seq(Types)
      BY DEF Types
    <3>3. Becomes(n, s, types)
      BY <2>6 DEF Recover
    <3> HIDE DEF s, types
    <3> QED BY <3>1, <3>2, <3>3
  <2>7. CASE EndSubscription(n)
    <3> DEFINE s == [stripe[n] EXCEPT !.state = "ended"]
               types == <<"deleted">>
    <3>1. s \in CheckoutType
      BY <2>1 DEF CheckoutType
    <3>2. types \in Seq(Types)
      BY DEF Types
    <3>3. Becomes(n, s, types)
      BY <2>7 DEF EndSubscription
    <3> HIDE DEF s, types
    <3> QED BY <3>1, <3>2, <3>3
  <2> QED BY <2>3, <2>4, <2>5, <2>6, <2>7 DEF Moves
<1>2. /\ AccountOK' /\ StripeOK' /\ WiseOK' /\ clock' = clock
      /\ DOMAIN log \subseteq DOMAIN log' /\ transfers' = transfers
  BY <1>1, BecomesKeeps
<1>3. UNCHANGED <<h, answers, fails>>
  BY DEF Moves
<1>4. AnswersOK' /\ WorldOK' /\ HandlersOK'
  BY <1>2, <1>3 DEF TypeInv, AnswersOK, WorldOK, HandlersOK, Knows, answers
<1> QED BY <1>2, <1>4 DEF TypeInv

LEMMA CancelAtStripeKeeps ==
  ASSUME TypeInv, NEW p \in Procs, CancelAtStripe(p)
  PROVE  TypeInv'
<1>1. PICK n \in 1..MaxSubs : n = h[p].sub
  BY Fields, BillingAssumption DEF CancelAtStripe
<1>2. stripe[n] \in CheckoutType
  BY DEF TypeInv, StripeOK
<1>3. CASE Throw(p) /\ UNCHANGED <<account, atStripe, atWise, world, answers>>
  <2>1. UNCHANGED <<log, transfers>>
    BY <1>3 DEF atStripe, atWise
  <2> QED BY <1>3, <2>1, EndKeeps, Frames DEF TypeInv
<1>4. CASE ~(Throw(p) /\ UNCHANGED <<account, atStripe, atWise, world, answers>>)
  <2> DEFINE s == [stripe[n] EXCEPT !.cancelEnd = TRUE]
             types == IF stripe[n].cancelEnd THEN <<>> ELSE <<"updated">>
             r == [h[p] EXCEPT !.pc = "c_row"]
  <2>1. s \in CheckoutType /\ types \in Seq(Types)
    <3>1. s \in CheckoutType
      BY <1>2 DEF CheckoutType
    <3>2. <<>> \in Seq(Types) /\ <<"updated">> \in Seq(Types)
      BY DEF Types
    <3> QED BY <3>1, <3>2
  <2>2. Becomes(n, s, types) /\ Goto(p, r) /\ UNCHANGED <<answers, fails>>
    BY <1>1, <1>4 DEF CancelAtStripe, Throw
  <2>3. r \in HandlerType /\ r.pc = "c_row" /\ r.event \in {0} \cup DOMAIN log
    BY Fields DEF HandlerType
  <2> HIDE DEF s, types, r
  <2>4. /\ AccountOK' /\ StripeOK' /\ WiseOK' /\ clock' = clock
        /\ DOMAIN log \subseteq DOMAIN log' /\ transfers' = transfers
    BY <2>1, <2>2, BecomesKeeps
  <2>5. HandlersOK'
    BY <2>2, <2>3, <2>4, GotoKeeps
  <2>6. AnswersOK' /\ WorldOK'
    BY <2>2, <2>4 DEF TypeInv, AnswersOK, WorldOK, answers
  <2> QED BY <2>4, <2>5, <2>6 DEF TypeInv
<1> QED BY <1>3, <1>4

LEMMA TickKeeps == ASSUME TypeInv, Passes PROVE TypeInv'
<1>1. UNCHANGED <<log, transfers>> /\ WorldOK'
  BY DEF Passes, atStripe, atWise, TypeInv, WorldOK
<1> QED BY <1>1, Frames DEF Passes, TypeInv

-----------------------------------------------------------------------------
LEMMA TypeNext == TypeInv /\ [Next]_vars => TypeInv'
<1> SUFFICES ASSUME TypeInv, [Next]_vars PROVE TypeInv'
  OBVIOUS
<1>1. CASE UNCHANGED vars
  <2>1. UNCHANGED <<account, atStripe, atWise, world, answers, h, log, transfers>>
    BY <1>1 DEF vars, account, atStripe, atWise, world, answers
  <2> QED BY <2>1, Frames DEF TypeInv
<1>2. ASSUME NEW p \in Procs, Step(p) PROVE TypeInv'
  BY <1>2, WriteAccountKeeps, OpenCheckoutKeeps, WiseKeeps, MailKeeps, CancelAtStripeKeeps DEF Step
<1>3. ASSUME NEW p \in Procs, Request(p) PROVE TypeInv'
  BY <1>3, RequestKeeps, WiseKeeps, AdminKeeps DEF Request
<1>4. CASE Next
  BY <1>2, <1>3, <1>4, Unbounded, MailKeeps, RequestKeeps, WebhookKeeps, WiseKeeps, TransferKeeps,
     AtStripeKeeps, TickKeeps DEF Next
<1> QED BY <1>1, <1>4

(* Every row, handler, event and payment keeps the shape the schema gives  *)
(* it, for any plans, periods, slots and bounds.                           *)
THEOREM TypeCorrect == Spec => []TypeOK
  BY TypeInit, TypeNext, TypeInvOK, PTL DEF Spec

-----------------------------------------------------------------------------
(* Where plans come from.  Handlers carry plans from a read to a write, so *)
(* what they carry, and what the events say, has to be paid for as well;   *)
(* and a checkout is opened for a number that no other one uses.           *)
Paid == {x \in Plans \cup {Free} : PaidFor(x)}

Honest(r) ==
  /\ r.pc = "user" => r.plan \in Paid
  /\ r.pc = "wise" => transfers # {}
  /\ r.pc = "trial" => r.end # 0
  /\ r.pc # "admin"

OpeningPc == {"co_save", "co_open"}

AccountPaid == row.plan \in Paid /\ userPlan \in Paid
HandlersPaid == \A p \in Procs : Honest(h[p])
LogPaid == \A i \in DOMAIN log : log[i].plan \in Paid
CheckoutsNew ==
  \A p \in Procs : h[p].pc \in OpeningPc =>
    /\ h[p].sub \in 1..MaxSubs /\ stripe[h[p].sub].state = "none"
    /\ \A q \in Procs \ {p} : h[q].pc \in OpeningPc => h[q].sub # h[p].sub

PaidInv == AccountPaid /\ HandlersPaid /\ LogPaid /\ CheckoutsNew

Lived == {"active", "past_due", "ended"}

(* A payment stays one.                                                    *)
Forward ==
  /\ \A n \in 1..MaxSubs : stripe[n].state \in Lived =>
       stripe'[n].state \in Lived /\ stripe'[n].plan = stripe[n].plan
  /\ transfers \subseteq transfers'
  /\ row.trialEnd # 0 => row'.trialEnd # 0

LEMMA Grows == ASSUME Forward PROVE Paid \subseteq Paid'
<1> SUFFICES ASSUME NEW x \in Plans \cup {Free}, PaidFor(x) PROVE PaidFor(x)'
  BY DEF Paid
<1>1. CASE Subscribed(x)
  <2>1. PICK n \in 1..MaxSubs : stripe[n].plan = x /\ stripe[n].state \in Lived
    BY <1>1 DEF Subscribed, Lived
  <2>2. stripe'[n].plan = x /\ stripe'[n].state \in Lived
    BY <2>1 DEF Forward
  <2> QED BY <2>2 DEF PaidFor, Subscribed, Lived
<1> QED BY <1>1 DEF PaidFor, Forward

LEMMA PaidInit == Init => PaidInv
<1> SUFFICES ASSUME Init PROVE PaidInv
  OBVIOUS
<1>1. Free \in Paid
  BY DEF Paid, PaidFor
<1>2. AccountPaid
  BY <1>1 DEF Init, AccountPaid, NoRow
<1>3. HandlersPaid /\ CheckoutsNew
  BY IdleOK DEF Init, HandlersPaid, Honest, CheckoutsNew, OpeningPc
<1>4. LogPaid
  BY DEF Init, LogPaid
<1> QED BY <1>2, <1>3, <1>4 DEF PaidInv

(* A handler goes on with record r, and checkouts that are not open yet    *)
(* stay so.                                                                *)
LEMMA HonestGoto ==
  ASSUME TypeInv, PaidInv, Forward, NEW p \in Procs, NEW r \in HandlerType, Goto(p, r),
         r.pc = "user" => r.plan \in Paid', r.pc = "wise" => transfers' # {},
         r.pc = "trial" => r.end # 0, r.pc # "admin"
  PROVE  HandlersPaid'
<1>1. h'[p] = r /\ \A q \in Procs \ {p} : h'[q] = h[q]
  BY DEF Goto, TypeInv, HandlersOK
<1>2. Paid \subseteq Paid' /\ transfers \subseteq transfers'
  BY Grows DEF Forward
<1>3. \A q \in Procs : Honest(h[q])
  BY DEF PaidInv, HandlersPaid
<1> QED BY <1>1, <1>2, <1>3 DEF HandlersPaid, Honest

LEMMA CheckoutsKept ==
  ASSUME TypeInv, PaidInv, NEW p \in Procs, NEW r \in HandlerType, Goto(p, r),
         r.pc \in OpeningPc => h[p].pc \in OpeningPc /\ r.sub = h[p].sub,
         \A n \in 1..MaxSubs : stripe[n].state = "none" => stripe'[n].state = "none"
  PROVE  CheckoutsNew'
<1>1. h'[p] = r /\ \A q \in Procs \ {p} : h'[q] = h[q]
  BY DEF Goto, TypeInv, HandlersOK
<1>2. \A q \in Procs : h'[q].pc \in OpeningPc => h[q].pc \in OpeningPc /\ h'[q].sub = h[q].sub
  BY <1>1
<1> QED BY <1>2 DEF PaidInv, CheckoutsNew

PlainPc == {"idle", "expire", "remind", "mail", "failed", "c_wise", "c_stripe", "c_row"}

(* Steps that only go on to a place where nothing is carried.              *)
LEMMA PlainGoto ==
  ASSUME TypeInv, PaidInv, Forward, NEW p \in Procs, NEW r \in HandlerType, Goto(p, r),
         r.pc \in PlainPc, UNCHANGED atStripe
  PROVE  HandlersPaid' /\ LogPaid' /\ CheckoutsNew'
<1>1. HandlersPaid'
  BY HonestGoto DEF PlainPc
<1>2. CheckoutsNew'
  BY CheckoutsKept DEF PlainPc, OpeningPc, atStripe
<1>3. LogPaid'
  BY Grows DEF PaidInv, LogPaid, atStripe
<1> QED BY <1>1, <1>2, <1>3

LEMMA PlainEnd ==
  ASSUME TypeInv, PaidInv, Forward, NEW p \in Procs, Reply(p) \/ Throw(p), UNCHANGED atStripe
  PROVE  HandlersPaid' /\ LogPaid' /\ CheckoutsNew'
  BY PlainGoto, IdleOK DEF Reply, Throw, PlainPc

(* Nothing new is paid, nothing is taken back.                             *)
LEMMA StillForward ==
  ASSUME TypeInv, UNCHANGED atStripe, transfers \subseteq transfers',
         row'.trialEnd = row.trialEnd \/ row'.trialEnd # 0
  PROVE  Forward
  BY DEF Forward, atStripe

LEMMA FreeIsPaid == Free \in Paid /\ Free \in Paid'
  BY DEF Paid, PaidFor

-----------------------------------------------------------------------------
LEMMA WritePaid ==
  ASSUME TypeInv, PaidInv, NEW p \in Procs,
         \/ WriteTrial(p) \/ WriteExpired(p) \/ WriteFailed(p) \/ Remind(p)
         \/ CancelWise(p) \/ CancelRow(p) \/ AdminWriteRow(p) \/ MailCancelled(p) \/ Fail(p)
  PROVE  PaidInv'
<1>0. row \in RowType /\ AccountPaid /\ Honest(h[p])
  BY DEF TypeInv, AccountOK, PaidInv, HandlersPaid
<1>1. UNCHANGED atStripe /\ UNCHANGED transfers
  BY DEF WriteTrial, WriteExpired, WriteFailed, Remind, CancelWise, CancelRow, AdminWriteRow,
     MailCancelled, Fail, atWise
<1>2. row'.trialEnd = row.trialEnd \/ row'.trialEnd # 0
  BY <1>0 DEF WriteTrial, WriteExpired, WriteFailed, Remind, CancelWise, CancelRow, AdminWriteRow,
     MailCancelled, Fail, account, RowType, Honest
<1>3. Forward
  BY <1>1, <1>2, StillForward
<1>4. Paid \subseteq Paid'
  BY <1>3, Grows
<1>5. Reply(p) \/ Throw(p)
  BY DEF WriteTrial, WriteExpired, WriteFailed, Remind, CancelWise, CancelRow, AdminWriteRow,
     MailCancelled, Fail
<1>6. AccountPaid'
  <2>1. CASE WriteTrial(p)
    <3>1. row'.plan = Pro /\ row'.trialEnd # 0 /\ userPlan' = Pro
      BY <1>0, <2>1 DEF WriteTrial, RowType, Honest
    <3>2. Pro \in Paid'
      BY <3>1, BillingAssumption DEF Paid, PaidFor
    <3> QED BY <3>1, <3>2 DEF AccountPaid
  <2>2. CASE WriteExpired(p)
    BY <1>0, <2>2, FreeIsPaid DEF WriteExpired, AccountPaid, RowType
  <2>3. CASE AdminWriteRow(p)
    BY <1>0, <2>3 DEF AdminWriteRow, Honest
  <2>4. CASE ~WriteTrial(p) /\ ~WriteExpired(p) /\ ~AdminWriteRow(p)
    <3>1. row'.plan = row.plan /\ userPlan' = userPlan
      BY <1>0, <2>4 DEF WriteFailed, Remind, CancelWise, CancelRow, MailCancelled, Fail, account,
         RowType
    <3> QED BY <1>0, <1>4, <3>1 DEF AccountPaid
  <2> QED BY <2>1, <2>2, <2>3, <2>4
<1> QED BY <1>1, <1>3, <1>5, <1>6, PlainEnd DEF PaidInv

LEMMA WriteUserPlanPaid ==
  ASSUME TypeInv, PaidInv, NEW p \in Procs, WriteUserPlan(p)
  PROVE  PaidInv'
<1>1. UNCHANGED atStripe /\ UNCHANGED transfers /\ row' = row
  BY DEF WriteUserPlan, atWise
<1>2. Forward
  BY <1>1, StillForward
<1>3. AccountPaid'
  BY <1>1, <1>2, Grows DEF WriteUserPlan, PaidInv, AccountPaid, HandlersPaid, Honest
<1>4. CASE Reply(p)
  BY <1>1, <1>2, <1>3, <1>4, PlainEnd DEF PaidInv
<1>5. CASE ~Reply(p)
  <2> DEFINE r == [h[p] EXCEPT !.pc = "mail"]
  <2>1. r \in HandlerType /\ r.pc = "mail"
    BY Fields DEF HandlerType
  <2>2. Goto(p, r)
    BY <1>5 DEF WriteUserPlan
  <2> HIDE DEF r
  <2> QED BY <1>1, <1>2, <1>3, <2>1, <2>2, PlainGoto DEF PaidInv, PlainPc
<1> QED BY <1>4, <1>5

LEMMA CheckoutPaid ==
  ASSUME TypeInv, PaidInv, NEW p \in Procs,
         \/ \E plan \in Plans, len \in Intervals : Checkout(p, plan, len)
         \/ SaveCustomer(p) \/ OpenCheckout(p)
  PROVE  PaidInv'
<1>0. row \in RowType /\ AccountPaid /\ \A q \in Procs : Honest(h[q])
  BY DEF TypeInv, AccountOK, PaidInv, HandlersPaid
<1>1. UNCHANGED <<log, transfers, userPlan>>
  BY DEF Checkout, SaveCustomer, OpenCheckout, atStripe, atWise, account
<1>2. row'.trialEnd = row.trialEnd /\ row'.plan = row.plan
  BY <1>0 DEF Checkout, SaveCustomer, OpenCheckout, WithCustomer, account, RowType
<1>3. ASSUME NEW plan \in Plans, NEW len \in Intervals, Checkout(p, plan, len) PROVE PaidInv'
  <2> DEFINE pc == IF row.customer = 0 THEN "co_save" ELSE "co_open"
             customer(n) == IF row.customer = 0 THEN n ELSE row.customer
             begun(n) == [Idle EXCEPT !.pc = pc, !.plan = plan, !.len = len, !.sub = n,
                                      !.customer = customer(n)]
  <2>1. PICK n \in 1..MaxSubs : /\ stripe[n].state = "none" /\ \A q \in Opening : h[q].sub # n
                                /\ Goto(p, begun(n))
    BY <1>3 DEF Checkout
  <2> DEFINE r == begun(n)
  <2>2. r \in HandlerType /\ r.sub = n /\ r.pc \in OpeningPc
    <3>1. customer(n) \in 0..MaxSubs /\ n \in 0..MaxSubs
      BY <1>0, BillingAssumption DEF RowType
    <3>2. pc \in OpeningPc
      BY DEF OpeningPc
    <3> HIDE DEF pc, customer
    <3> QED BY <3>1, <3>2, IdleOK DEF HandlerType, OpeningPc
  <2>3. Goto(p, r)
    BY <2>1
  <2> HIDE DEF r
  <2>4. UNCHANGED atStripe
    BY <1>3 DEF Checkout
  <2>5. Forward
    BY <1>1, <1>2, <2>4, StillForward
  <2>6. HandlersPaid'
    BY <2>2, <2>3, <2>5, HonestGoto DEF OpeningPc
  <2>7. CheckoutsNew'
    <3>1. h'[p] = r /\ \A q \in Procs \ {p} : h'[q] = h[q]
      BY <2>3 DEF Goto, TypeInv, HandlersOK
    <3>2. stripe' = stripe /\ stripe[n].state = "none"
      BY <2>1, <2>4 DEF atStripe
    <3>3. \A q \in Procs : h[q].pc \in OpeningPc => h[q].sub # n
      BY <2>1 DEF Opening, OpeningPc
    <3> QED BY <2>2, <3>1, <3>2, <3>3 DEF PaidInv, CheckoutsNew
  <2> QED BY <1>0, <1>1, <1>2, <2>5, <2>6, <2>7, Grows DEF PaidInv, AccountPaid, LogPaid
<1>4. CASE SaveCustomer(p)
  <2> DEFINE r == [h[p] EXCEPT !.pc = "co_open"]
  <2>1. r \in HandlerType /\ r.pc = "co_open" /\ r.sub = h[p].sub
    BY Fields DEF HandlerType
  <2>2. Goto(p, r) /\ h[p].pc = "co_save" /\ UNCHANGED atStripe
    BY <1>4 DEF SaveCustomer
  <2> HIDE DEF r
  <2>3. Forward
    BY <1>1, <1>2, <2>2, StillForward
  <2>4. HandlersPaid'
    BY <2>1, <2>2, <2>3, HonestGoto
  <2>5. CheckoutsNew'
    BY <2>1, <2>2, CheckoutsKept DEF OpeningPc, atStripe
  <2> QED BY <1>0, <1>1, <1>2, <2>3, <2>4, <2>5, Grows DEF PaidInv, AccountPaid, LogPaid
<1>5. CASE OpenCheckout(p)
  <2>1. PICK n \in 1..MaxSubs : n = h[p].sub /\ stripe[n].state = "none"
    BY <1>5 DEF OpenCheckout, PaidInv, CheckoutsNew, OpeningPc
  <2>2. \A m \in 1..MaxSubs \ {n} : stripe'[m] = stripe[m]
    BY <1>5, <2>1 DEF OpenCheckout, TypeInv, StripeOK
  <2>3. Forward
    BY <1>1, <1>2, <2>1, <2>2 DEF Forward, Lived
  <2>4. Goto(p, Idle)
    BY <1>5 DEF OpenCheckout, Reply
  <2>5. HandlersPaid'
    BY <2>3, <2>4, IdleOK, HonestGoto
  <2>6. CheckoutsNew'
    <3>1. h'[p].pc = "idle" /\ \A q \in Procs \ {p} : h'[q] = h[q]
      BY <2>4, IdleOK DEF Goto, TypeInv, HandlersOK
    <3>2. h[p].pc \in OpeningPc
      BY <1>5 DEF OpenCheckout, OpeningPc
    <3>3. \A q \in Procs \ {p} : h[q].pc \in OpeningPc =>
            h[q].sub \in 1..MaxSubs \ {n} /\ stripe[h[q].sub].state = "none"
      BY <2>1, <3>2 DEF PaidInv, CheckoutsNew
    <3>4. \A q \in Procs \ {p} : h[q].pc \in OpeningPc => stripe'[h[q].sub].state = "none"
      BY <2>2, <3>3
    <3> QED BY <3>1, <3>3, <3>4 DEF PaidInv, CheckoutsNew, OpeningPc
  <2> QED BY <1>0, <1>1, <1>2, <2>3, <2>5, <2>6, Grows DEF PaidInv, AccountPaid, LogPaid
<1> QED BY <1>3, <1>4, <1>5

LEMMA RequestPaid ==
  ASSUME TypeInv, PaidInv, NEW p \in Procs,
         StartTrial(p) \/ ExpireTrials(p) \/ RenewalDue(p) \/ Cancel(p)
  PROVE  PaidInv'
<1>0. row \in RowType /\ clock \in Nat
  BY DEF TypeInv, AccountOK, WorldOK
<1>1. UNCHANGED atStripe /\ UNCHANGED <<transfers, row, userPlan>>
  BY DEF StartTrial, ExpireTrials, RenewalDue, Cancel, atWise, account
<1>2. Forward
  BY <1>1, StillForward
<1>3. AccountPaid'
  BY <1>1, <1>2, Grows DEF PaidInv, AccountPaid
<1>4. ASSUME NEW r \in HandlerType, Goto(p, r), r.pc \in PlainPc PROVE PaidInv'
  BY <1>1, <1>2, <1>3, <1>4, PlainGoto DEF PaidInv
<1>5. CASE StartTrial(p)
  <2> DEFINE r == [Idle EXCEPT !.pc = "trial", !.end = clock + TrialDays]
  <2>1. r \in HandlerType /\ r.pc = "trial" /\ r.end # 0
    <3>1. clock + TrialDays \in Nat \ {0}
      BY <1>0, BillingAssumption
    <3> QED BY <3>1, IdleOK DEF HandlerType
  <2>2. Goto(p, r)
    BY <1>5 DEF StartTrial
  <2> HIDE DEF r
  <2>3. HandlersPaid'
    BY <1>2, <2>1, <2>2, HonestGoto
  <2>4. CheckoutsNew'
    BY <1>1, <2>1, <2>2, CheckoutsKept DEF OpeningPc, atStripe
  <2> QED BY <1>1, <1>2, <1>3, <2>3, <2>4, Grows DEF PaidInv, LogPaid, atStripe
<1>6. CASE ExpireTrials(p)
  <2> DEFINE r == [Idle EXCEPT !.pc = "expire"]
  <2>1. r \in HandlerType /\ r.pc = "expire"
    BY IdleOK DEF HandlerType
  <2>2. Goto(p, r)
    BY <1>6 DEF ExpireTrials
  <2> HIDE DEF r
  <2> QED BY <1>4, <2>1, <2>2 DEF PlainPc
<1>7. CASE RenewalDue(p)
  <2> DEFINE r == [Idle EXCEPT !.pc = "remind", !.plan = row.amount]
  <2>1. r \in HandlerType /\ r.pc = "remind"
    BY <1>0, IdleOK DEF HandlerType, RowType
  <2>2. Goto(p, r)
    BY <1>7 DEF RenewalDue
  <2> HIDE DEF r
  <2> QED BY <1>4, <2>1, <2>2 DEF PlainPc
<1>8. CASE Cancel(p)
  <2> DEFINE r == [Idle EXCEPT !.sub = row.subId, !.pc = CancelRoute]
  <2>1. CancelRoute \in {"c_wise", "c_stripe", "c_row"}
    BY DEF CancelRoute
  <2>2. r \in HandlerType /\ r.pc = CancelRoute
    BY <1>0, <2>1, IdleOK DEF HandlerType, RowType
  <2>3. Goto(p, r)
    BY <1>8 DEF Cancel
  <2> HIDE DEF r
  <2> QED BY <1>4, <2>1, <2>2, <2>3 DEF PlainPc
<1> QED BY <1>5, <1>6, <1>7, <1>8

LEMMA WisePaid ==
  ASSUME TypeInv, PaidInv, NEW p \in Procs,
         \/ \E plan \in Plans, len \in Intervals : WiseSession(p, plan, len)
         \/ \E o \in transfers : WiseWebhook(p, o)
         \/ WiseActivate(p)
  PROVE  PaidInv'
<1>0. row \in RowType /\ clock \in Nat /\ Honest(h[p])
  BY DEF TypeInv, AccountOK, WorldOK, PaidInv, HandlersPaid
<1>1. UNCHANGED atStripe /\ UNCHANGED transfers
  BY DEF WiseSession, WiseWebhook, WiseActivate, atWise
<1>2. row'.trialEnd = row.trialEnd
  BY <1>0 DEF WiseSession, WiseWebhook, WiseActivate, account, RowType
<1>3. Forward
  BY <1>1, <1>2, StillForward
<1>4. LogPaid'
  BY <1>1, <1>3, Grows DEF PaidInv, LogPaid, atStripe
<1>5. CASE \E plan \in Plans, len \in Intervals : WiseSession(p, plan, len)
  <2>1. row'.plan = row.plan /\ UNCHANGED <<userPlan, h>>
    BY <1>0, <1>5 DEF WiseSession, RowType
  <2>2. AccountPaid' /\ HandlersPaid' /\ CheckoutsNew'
    BY <1>1, <1>3, <2>1, Grows DEF PaidInv, AccountPaid, HandlersPaid, Honest, CheckoutsNew, atStripe
  <2> QED BY <1>4, <2>2 DEF PaidInv
<1>6. ASSUME NEW o \in transfers, WiseWebhook(p, o) PROVE PaidInv'
  <2>1. AccountPaid'
    BY <1>3, <1>6, Grows DEF WiseWebhook, account, PaidInv, AccountPaid
  <2>2. CASE row.ref = o.ref
    <3> DEFINE plan == IF row.pendingPlan = Free THEN Pro ELSE row.pendingPlan
               len == IF row.pendingFor = 0 THEN Monthly ELSE row.pendingFor
               end == clock + len
               r == [Idle EXCEPT !.pc = "wise", !.ref = o.ref, !.plan = plan, !.end = end]
    <3>1. Goto(p, r)
      BY <1>6, <2>2 DEF WiseWebhook
    <3>2. r \in HandlerType /\ r.pc = "wise"
      <4>0. row.pendingPlan \in Plans \cup {Free} /\ row.pendingFor \in Intervals \cup {0}
        BY <1>0 DEF RowType
      <4>1. plan \in Plans
        BY <4>0, BillingAssumption
      <4>2. end \in Nat
        <5>1. len \in Nat
          BY <4>0, BillingAssumption, LenNat
        <5> HIDE DEF len
        <5> QED BY <1>0, <5>1
      <4>3. o.ref \in Nat
        BY DEF TypeInv, WiseOK
      <4> HIDE DEF plan, len, end
      <4> QED BY <4>1, <4>2, <4>3, IdleOK DEF HandlerType
    <3> HIDE DEF r
    <3>3. HandlersPaid'
      BY <1>1, <1>3, <3>1, <3>2, HonestGoto
    <3>4. CheckoutsNew'
      BY <1>1, <3>1, <3>2, CheckoutsKept DEF OpeningPc, atStripe
    <3> QED BY <1>4, <2>1, <3>3, <3>4 DEF PaidInv
  <2>3. CASE row.ref # o.ref
    <3>1. h' = h
      BY <1>6, <2>3 DEF WiseWebhook
    <3>2. HandlersPaid' /\ CheckoutsNew'
      BY <1>1, <1>3, <3>1, Grows DEF PaidInv, HandlersPaid, Honest, CheckoutsNew, atStripe
    <3> QED BY <1>4, <2>1, <3>2 DEF PaidInv
  <2> QED BY <2>2, <2>3
<1>7. CASE WiseActivate(p)
  <2>1. row'.plan = h[p].plan /\ userPlan' = h[p].plan /\ Goto(p, Idle)
    BY <1>0, <1>7 DEF WiseActivate, RowType
  <2>2. h[p].plan \in Paid'
    BY <1>0, <1>1, <1>7, Fields DEF WiseActivate, Honest, Paid, PaidFor
  <2> QED BY <1>1, <1>3, <2>1, <2>2, IdleOK, PlainGoto DEF PaidInv, AccountPaid, PlainPc
<1> QED BY <1>5, <1>6, <1>7

LEMMA TransferPaid ==
  ASSUME TypeInv, PaidInv, NEW o \in offers, Transfer(o)
  PROVE  PaidInv'
<1>1. UNCHANGED <<row, userPlan, h, stripe, log>> /\ transfers \subseteq transfers'
  BY DEF Transfer, account, atStripe
<1>2. Forward
  BY <1>1 DEF Forward
<1> QED BY <1>1, <1>2, Grows DEF PaidInv, AccountPaid, HandlersPaid, Honest, LogPaid, CheckoutsNew,
           Forward

LEMMA WebhookPaid ==
  ASSUME TypeInv, PaidInv, NEW p \in Procs, NEW i \in DOMAIN log, Webhook(p, i)
  PROVE  PaidInv'
<1>0. row \in RowType /\ AccountPaid /\ log[i].plan \in Paid
  BY DEF TypeInv, AccountOK, PaidInv, LogPaid
<1>1. UNCHANGED atStripe /\ UNCHANGED transfers
  BY DEF Webhook, CheckoutCompleted, SubscriptionUpdated, SubscriptionDeleted, PaymentFailed, atWise
<1>2. row'.trialEnd = row.trialEnd
  BY <1>0 DEF Webhook, CheckoutCompleted, SubscriptionUpdated, SubscriptionDeleted, PaymentFailed,
     Activated, Ended, account, RowType
<1>3. Forward
  BY <1>1, <1>2, StillForward
<1>4. Paid \subseteq Paid' /\ LogPaid'
  BY <1>1, <1>3, Grows DEF PaidInv, LogPaid, atStripe
<1>5. CASE UNCHANGED h /\ (CheckoutCompleted(p, i) \/ PaymentFailed(p, i))
  <2>1. HandlersPaid' /\ CheckoutsNew'
    BY <1>1, <1>4, <1>5 DEF PaidInv, HandlersPaid, Honest, CheckoutsNew, atStripe
  <2>2. CASE CheckoutCompleted(p, i)
    <3>1. row'.plan = log[i].plan /\ userPlan' = log[i].plan
      BY <1>0, <2>2 DEF CheckoutCompleted, Activated, RowType
    <3> QED BY <1>0, <1>4, <2>1, <3>1 DEF PaidInv, AccountPaid
  <2>3. CASE PaymentFailed(p, i)
    BY <1>0, <1>4, <2>1, <2>3 DEF PaymentFailed, account, PaidInv, AccountPaid
  <2> QED BY <1>5, <2>2, <2>3
<1>6. ASSUME NEW plan \in Paid, NEW r \in HandlerType, Goto(p, r), r.pc = "user", r.plan = plan,
             row'.plan = plan, userPlan' = userPlan
      PROVE  PaidInv'
  <2>1. HandlersPaid'
    BY <1>3, <1>4, <1>6, HonestGoto
  <2>2. CheckoutsNew'
    BY <1>1, <1>6, CheckoutsKept DEF OpeningPc, atStripe
  <2> QED BY <1>0, <1>4, <1>6, <2>1, <2>2 DEF PaidInv, AccountPaid
<1>7. CASE SubscriptionUpdated(p, i)
  <2> DEFINE plan == IF log[i].active THEN log[i].plan ELSE Free
             r == [Idle EXCEPT !.pc = "user", !.event = i, !.plan = plan]
  <2>1. plan \in Paid
    BY <1>0, FreeIsPaid
  <2>2. Goto(p, r) /\ row'.plan = plan /\ userPlan' = userPlan
    BY <1>0, <1>7 DEF SubscriptionUpdated, RowType
  <2>3. plan \in Plans \cup {Free}
    BY Logged
  <2> HIDE DEF plan
  <2>4. r \in HandlerType /\ r.pc = "user" /\ r.plan = plan
    BY <2>3, IdleOK, Logged DEF HandlerType
  <2> HIDE DEF r
  <2> QED BY <1>6, <2>1, <2>2, <2>4
<1>8. CASE SubscriptionDeleted(p, i)
  <2> DEFINE r == [Idle EXCEPT !.pc = "user", !.event = i, !.plan = Free, !.end = log[i].end]
  <2>1. Goto(p, r) /\ row'.plan = Free /\ userPlan' = userPlan
    BY <1>0, <1>8 DEF SubscriptionDeleted, Ended, RowType
  <2>2. r \in HandlerType /\ r.pc = "user" /\ r.plan = Free
    BY IdleOK, Logged DEF HandlerType
  <2> HIDE DEF r
  <2> QED BY <1>6, <2>1, <2>2, FreeIsPaid
<1>9. CASE PaymentFailed(p, i) /\ h' # h
  <2> DEFINE r == [Idle EXCEPT !.pc = "failed", !.event = i]
  <2>1. Goto(p, r) /\ UNCHANGED <<row, userPlan>>
    BY <1>9 DEF PaymentFailed, account
  <2>2. r \in HandlerType /\ r.pc = "failed"
    BY IdleOK, Logged DEF HandlerType
  <2> HIDE DEF r
  <2> QED BY <1>0, <1>1, <1>3, <1>4, <2>1, <2>2, PlainGoto DEF PaidInv, AccountPaid, PlainPc
<1>10. CheckoutCompleted(p, i) => UNCHANGED h
  BY DEF CheckoutCompleted
<1> QED BY <1>5, <1>7, <1>8, <1>9, <1>10 DEF Webhook

(* A subscription that was opened moves, and keeps its plan.               *)
LEMMA BecomesPaid ==
  ASSUME TypeInv, PaidInv, NEW n \in 1..MaxSubs, NEW s \in CheckoutType, NEW types \in Seq(Types),
         Becomes(n, s, types), s.state \in Lived, s.plan = stripe[n].plan, stripe[n].state # "none"
  PROVE  /\ Forward /\ AccountPaid' /\ LogPaid'
         /\ \A m \in 1..MaxSubs : stripe[m].state = "none" => stripe'[m].state = "none"
<1>1. stripe'[n] = s /\ \A m \in 1..MaxSubs \ {n} : stripe'[m] = stripe[m]
  BY DEF Becomes, TypeInv, StripeOK
<1>2. Forward
  BY <1>1 DEF Becomes, account, atWise, Forward
<1>3. AccountPaid'
  BY <1>2, Grows DEF Becomes, account, PaidInv, AccountPaid
<1>4. s.plan \in Paid'
  BY <1>1 DEF CheckoutType, Paid, PaidFor, Subscribed, Lived
<1>5. LogPaid'
  <2> DEFINE new == [k \in DOMAIN types |-> Event(types[k], n, s)]
  <2>1. \A k \in DOMAIN types : new[k].plan \in Paid'
    BY <1>4 DEF Event
  <2>2. new \in Seq(EventType)
    <3>1. \A k \in DOMAIN types : Event(types[k], n, s) \in EventType
      BY DEF Event, EventType, CheckoutType, Types
    <3> QED BY <3>1
  <2>3. log' = log \o new /\ log \in Seq(EventType)
    BY DEF Becomes, TypeInv, StripeOK
  <2>4. DOMAIN new = DOMAIN types
    OBVIOUS
  <2>5. \A k \in DOMAIN new : new[k].plan \in Paid'
    BY <2>1, <2>4
  <2>6. \A k \in DOMAIN log : log[k].plan \in Paid'
    BY <1>2, Grows DEF PaidInv, LogPaid
  <2> HIDE DEF new
  <2>7. \A k \in DOMAIN log' : log'[k].plan \in Paid'
    <3> TAKE k \in DOMAIN log'
    <3>1. CASE k \in DOMAIN log
      <4>1. log'[k] = log[k]
        BY <2>2, <2>3, <3>1
      <4> QED BY <2>6, <3>1, <4>1
    <3>2. CASE k \notin DOMAIN log
      <4>1. k - Len(log) \in DOMAIN new /\ log'[k] = new[k - Len(log)]
        BY <2>2, <2>3, <3>2
      <4> QED BY <2>5, <4>1
    <3> QED BY <3>1, <3>2
  <2> QED BY <2>7 DEF LogPaid
<1>6. \A m \in 1..MaxSubs : stripe[m].state = "none" => stripe'[m].state = "none"
  BY <1>1
<1> QED BY <1>2, <1>3, <1>5, <1>6

LEMMA AtStripePaid ==
  ASSUME TypeInv, PaidInv, NEW n \in 1..MaxSubs, AtStripe(n)
  PROVE  PaidInv'
<1>0. stripe[n] \in CheckoutType /\ clock \in Nat
  BY DEF TypeInv, StripeOK, WorldOK
<1>1. /\ stripe[n].len \in Nat /\ stripe[n].end \in Nat
      /\ stripe[n].end + stripe[n].len \in Nat /\ clock + stripe[n].len \in Nat
  <2>1. stripe[n].len \in Intervals \cup {0} /\ stripe[n].end \in Nat
    BY <1>0 DEF CheckoutType
  <2>2. stripe[n].len \in Nat
    BY <2>1, LenNat
  <2> QED BY <1>0, <2>1, <2>2
<1>2. ASSUME NEW state \in Lived, NEW end \in Nat, NEW types \in Seq(Types),
             Becomes(n, [stripe[n] EXCEPT !.state = state, !.end = end], types),
             stripe[n].state # "none"
      PROVE  PaidInv'
  <2> DEFINE s == [stripe[n] EXCEPT !.state = state, !.end = end]
  <2>1. s \in CheckoutType /\ s.state \in Lived /\ s.plan = stripe[n].plan
    BY <1>0 DEF CheckoutType, Lived
  <2>2. Becomes(n, s, types)
    BY <1>2
  <2> HIDE DEF s
  <2>3. /\ Forward /\ AccountPaid' /\ LogPaid'
        /\ \A m \in 1..MaxSubs : stripe[m].state = "none" => stripe'[m].state = "none"
    BY <1>2, <2>1, <2>2, BecomesPaid
  <2>4. h' = h /\ transfers \subseteq transfers'
    BY <2>3 DEF AtStripe, Forward
  <2>5. HandlersPaid' /\ CheckoutsNew'
    BY <2>3, <2>4, Grows DEF PaidInv, HandlersPaid, Honest, CheckoutsNew
  <2> QED BY <2>3, <2>5 DEF PaidInv
<1>3. <<"completed">> \in Seq(Types) /\ <<"updated">> \in Seq(Types) /\ <<"deleted">> \in Seq(Types)
      /\ <<"failed", "updated">> \in Seq(Types)
  BY DEF Types
<1>4. \A s \in CheckoutType : [s EXCEPT !.state = s.state, !.end = s.end] = s
  BY DEF CheckoutType
<1>5. CASE Subscribe(n)
  BY <1>1, <1>2, <1>3, <1>5 DEF Subscribe, Lived
<1>6. CASE Renew(n)
  <2>1. [stripe[n] EXCEPT !.end = @ + stripe[n].len]
          = [stripe[n] EXCEPT !.state = "active", !.end = stripe[n].end + stripe[n].len]
    BY <1>0, <1>6 DEF Renew, Due, CheckoutType
  <2> QED BY <1>1, <1>2, <1>3, <1>6, <2>1 DEF Renew, Due, Lived
<1>7. CASE Dun(n)
  BY <1>1, <1>2, <1>3, <1>7 DEF Dun, Due, Lived
<1>8. CASE Recover(n)
  <2>1. [stripe[n] EXCEPT !.state = "active"]
          = [stripe[n] EXCEPT !.state = "active", !.end = stripe[n].end]
    BY <1>0 DEF CheckoutType
  <2> QED BY <1>1, <1>2, <1>3, <1>8, <2>1 DEF Recover, Lived
<1>9. CASE EndSubscription(n)
  <2>1. [stripe[n] EXCEPT !.state = "ended"]
          = [stripe[n] EXCEPT !.state = "ended", !.end = stripe[n].end]
    BY <1>0 DEF CheckoutType
  <2> QED BY <1>1, <1>2, <1>3, <1>9, <2>1 DEF EndSubscription, Due, Lived
<1> QED BY <1>5, <1>6, <1>7, <1>8, <1>9 DEF AtStripe

LEMMA CancelAtStripePaid ==
  ASSUME TypeInv, PaidInv, NEW p \in Procs, CancelAtStripe(p)
  PROVE  PaidInv'
<1>1. PICK n \in 1..MaxSubs : n = h[p].sub
  BY Fields, BillingAssumption DEF CancelAtStripe
<1>2. stripe[n] \in CheckoutType
  BY DEF TypeInv, StripeOK
<1>3. CASE Throw(p) /\ UNCHANGED <<account, atStripe, atWise, world, answers>>
  <2>1. UNCHANGED <<row, userPlan, transfers>>
    BY <1>3 DEF account, atWise
  <2>2. Forward
    BY <1>3, <2>1, StillForward
  <2> QED BY <1>3, <2>1, <2>2, PlainEnd, Grows DEF PaidInv, AccountPaid
<1>4. CASE ~(Throw(p) /\ UNCHANGED <<account, atStripe, atWise, world, answers>>)
  <2> DEFINE s == [stripe[n] EXCEPT !.cancelEnd = TRUE]
             types == IF stripe[n].cancelEnd THEN <<>> ELSE <<"updated">>
             r == [h[p] EXCEPT !.pc = "c_row"]
  <2>1. s \in CheckoutType /\ types \in Seq(Types)
    <3>1. s \in CheckoutType
      BY <1>2 DEF CheckoutType
    <3>2. <<>> \in Seq(Types) /\ <<"updated">> \in Seq(Types)
      BY DEF Types
    <3> QED BY <3>1, <3>2
  <2>2. Becomes(n, s, types) /\ Goto(p, r) /\ stripe[n].state \in {"active", "past_due"}
    BY <1>1, <1>4 DEF CancelAtStripe, Throw
  <2>3. r \in HandlerType /\ r.pc = "c_row"
    BY Fields DEF HandlerType
  <2>4. s.state \in Lived /\ s.plan = stripe[n].plan /\ stripe[n].state # "none"
    BY <1>2, <2>2 DEF CheckoutType, Lived
  <2> HIDE DEF s, types, r
  <2>5. /\ Forward /\ AccountPaid' /\ LogPaid'
        /\ \A m \in 1..MaxSubs : stripe[m].state = "none" => stripe'[m].state = "none"
    BY <2>1, <2>2, <2>4, BecomesPaid
  <2>6. HandlersPaid' /\ CheckoutsNew'
    BY <2>2, <2>3, <2>5, HonestGoto, CheckoutsKept DEF OpeningPc
  <2> QED BY <2>5, <2>6 DEF PaidInv
<1> QED BY <1>3, <1>4

LEMMA PaidNext ==
  ASSUME AdminPlans = {}, TypeInv, PaidInv, [Next]_vars
  PROVE  PaidInv'
<1>1. CASE UNCHANGED vars \/ Tick
  <2>1. UNCHANGED <<row, userPlan, h, stripe, log, transfers>>
    BY <1>1 DEF vars, Tick, account, atStripe, atWise
  <2>2. Forward
    BY <2>1 DEF Forward
  <2> QED BY <2>1, <2>2, Grows DEF PaidInv, AccountPaid, HandlersPaid, Honest, LogPaid, CheckoutsNew
<1>2. ASSUME NEW p \in Procs, Step(p) PROVE PaidInv'
  BY <1>2, WritePaid, WriteUserPlanPaid, CheckoutPaid, WisePaid, CancelAtStripePaid DEF Step
<1>3. ASSUME NEW p \in Procs, Request(p) PROVE PaidInv'
  BY <1>3, RequestPaid, CheckoutPaid, WisePaid DEF Request
<1>4. CASE Next
  BY <1>1, <1>2, <1>3, <1>4, WritePaid, RequestPaid, WebhookPaid, WisePaid, TransferPaid, AtStripePaid
     DEF Next
<1> QED BY <1>1, <1>4

(* Without administrators a plan comes from a Stripe subscription to it, a *)
(* Wise transfer or, for PRO, a trial, for any plans, periods, handler     *)
(* slots, order of webhooks and bounds.                                    *)
THEOREM NothingForFree == ASSUME AdminPlans = {} PROVE Spec => []PlanIsPaidFor
<1>1. Init => TypeInv /\ PaidInv
  BY TypeInit, PaidInit
<1>2. TypeInv /\ PaidInv /\ [Next]_vars => (TypeInv /\ PaidInv)'
  BY TypeNext, PaidNext
<1>3. TypeInv /\ PaidInv => PlanIsPaidFor
  BY DEF PaidInv, AccountPaid, Paid, PlanIsPaidFor
<1> QED BY <1>1, <1>2, <1>3, PTL DEF Spec

-----------------------------------------------------------------------------
(* What holds when handlers do not overlap.                                *)
OneSlot == \A p, q \in Procs : p = q

(* A reference is credited once: the row's has not been, and a transfer    *)
(* whose activation is under way has the reference of the row.             *)
RefsInv ==
  /\ row.ref \in 0..refs /\ credited \subseteq 1..refs /\ row.ref \notin credited
  /\ \A o \in offers : o.ref # 0
  /\ \A p \in Procs : h[p].pc = "wise" => h[p].ref = row.ref /\ row.ref # 0

LEMMA RefsInit == Init => RefsInv
  BY IdleOK DEF Init, RefsInv, NoRow

(* The only handler goes on with record r.                                 *)
LEMMA OnlyGoto ==
  ASSUME TypeInv, OneSlot, NEW p \in Procs, NEW r, Goto(p, r)
  PROVE  \A q \in Procs : h'[q] = r
  BY DEF Goto, TypeInv, HandlersOK, OneSlot

LEMMA OnlyEnd ==
  ASSUME TypeInv, OneSlot, NEW p \in Procs, Reply(p) \/ Throw(p)
  PROVE  \A q \in Procs : h'[q].pc = "idle"
  BY IdleOK, OnlyGoto DEF Reply, Throw

(* Where the handler is once it has begun.                                 *)
LEMMA GotoAt ==
  ASSUME TypeInv, NEW p \in Procs, NEW r, Goto(p, r)
  PROVE  h'[p] = r
  BY DEF Goto, TypeInv, HandlersOK

LEMMA RequestBegun ==
  ASSUME TypeInv, NEW p \in Procs
  PROVE  /\ StartTrial(p) => h'[p].pc = "trial" /\ h'[p].event = 0
         /\ ExpireTrials(p) => h'[p].pc = "expire" /\ h'[p].event = 0
         /\ RenewalDue(p) => h'[p].pc = "remind" /\ h'[p].event = 0
         /\ Cancel(p) => h'[p].pc \in {"c_wise", "c_stripe", "c_row"} /\ h'[p].event = 0
         /\ \A plan, len : Checkout(p, plan, len) => h'[p].pc \in OpeningPc /\ h'[p].event = 0
         /\ \A plan : AdminSetPlan(p, plan) => h'[p].pc = "admin" /\ h'[p].event = 0
         /\ \A o : WiseWebhook(p, o) /\ row.ref = o.ref =>
              h'[p].pc = "wise" /\ h'[p].event = 0 /\ h'[p].ref = o.ref
<1>1. ASSUME StartTrial(p) PROVE h'[p].pc = "trial" /\ h'[p].event = 0
  <2> DEFINE r == [Idle EXCEPT !.pc = "trial", !.end = clock + TrialDays]
  <2>1. r.pc = "trial" /\ r.event = 0
    BY IdleOK DEF HandlerType
  <2>2. Goto(p, r)
    BY <1>1 DEF StartTrial
  <2> HIDE DEF r
  <2> QED BY <2>1, <2>2, GotoAt
<1>2. ASSUME ExpireTrials(p) PROVE h'[p].pc = "expire" /\ h'[p].event = 0
  <2> DEFINE r == [Idle EXCEPT !.pc = "expire"]
  <2>1. r.pc = "expire" /\ r.event = 0
    BY IdleOK DEF HandlerType
  <2>2. Goto(p, r)
    BY <1>2 DEF ExpireTrials
  <2> HIDE DEF r
  <2> QED BY <2>1, <2>2, GotoAt
<1>3. ASSUME RenewalDue(p) PROVE h'[p].pc = "remind" /\ h'[p].event = 0
  <2> DEFINE r == [Idle EXCEPT !.pc = "remind", !.plan = row.amount]
  <2>1. r.pc = "remind" /\ r.event = 0
    BY IdleOK DEF HandlerType
  <2>2. Goto(p, r)
    BY <1>3 DEF RenewalDue
  <2> HIDE DEF r
  <2> QED BY <2>1, <2>2, GotoAt
<1>4. ASSUME Cancel(p) PROVE h'[p].pc \in {"c_wise", "c_stripe", "c_row"} /\ h'[p].event = 0
  <2> DEFINE r == [Idle EXCEPT !.sub = row.subId, !.pc = CancelRoute]
  <2>1. r.pc = CancelRoute /\ r.event = 0
    BY IdleOK DEF HandlerType
  <2>2. Goto(p, r)
    BY <1>4 DEF Cancel
  <2> HIDE DEF r
  <2> QED BY <2>1, <2>2, GotoAt DEF CancelRoute
<1>5. ASSUME NEW plan, NEW len, Checkout(p, plan, len)
      PROVE  h'[p].pc \in OpeningPc /\ h'[p].event = 0
  <2> DEFINE pc == IF row.customer = 0 THEN "co_save" ELSE "co_open"
             begun(n) == [Idle EXCEPT !.pc = pc, !.plan = plan, !.len = len, !.sub = n,
                                      !.customer = IF row.customer = 0 THEN n ELSE row.customer]
  <2>1. PICK n \in 1..MaxSubs : Goto(p, begun(n))
    BY <1>5 DEF Checkout
  <2> DEFINE r == begun(n)
  <2>2. r.pc = pc /\ r.event = 0
    BY IdleOK DEF HandlerType
  <2>3. Goto(p, r)
    BY <2>1
  <2> HIDE DEF r
  <2> QED BY <2>2, <2>3, GotoAt DEF OpeningPc
<1>6. ASSUME NEW plan, AdminSetPlan(p, plan) PROVE h'[p].pc = "admin" /\ h'[p].event = 0
  <2> DEFINE r == [Idle EXCEPT !.pc = "admin", !.plan = plan]
  <2>1. r.pc = "admin" /\ r.event = 0
    BY IdleOK DEF HandlerType
  <2>2. Goto(p, r)
    BY <1>6 DEF AdminSetPlan
  <2> HIDE DEF r
  <2> QED BY <2>1, <2>2, GotoAt
<1>7. ASSUME NEW o, WiseWebhook(p, o), row.ref = o.ref
      PROVE  h'[p].pc = "wise" /\ h'[p].event = 0 /\ h'[p].ref = o.ref
  <2> DEFINE r == [Idle EXCEPT !.pc = "wise", !.ref = o.ref,
                     !.plan = IF row.pendingPlan = Free THEN Pro ELSE row.pendingPlan,
                     !.end = clock + IF row.pendingFor = 0 THEN Monthly ELSE row.pendingFor]
  <2>1. r.pc = "wise" /\ r.event = 0 /\ r.ref = o.ref
    BY IdleOK DEF HandlerType
  <2>2. Goto(p, r)
    BY <1>7 DEF WiseWebhook
  <2> HIDE DEF r
  <2> QED BY <2>1, <2>2, GotoAt
<1> QED BY <1>1, <1>2, <1>3, <1>4, <1>5, <1>6, <1>7

LEMMA WebhookBegun ==
  ASSUME TypeInv, NEW p \in Procs, NEW i
  PROVE  /\ SubscriptionUpdated(p, i) => h'[p].pc = "user" /\ h'[p].event = i /\ h'[p].plan = row'.plan
         /\ SubscriptionDeleted(p, i) => h'[p].pc = "user" /\ h'[p].event = i /\ h'[p].plan = row'.plan
         /\ PaymentFailed(p, i) /\ row.customer = log[i].customer => h'[p].pc = "failed" /\ h'[p].event = i
<1>0. row \in RowType
  BY DEF TypeInv, AccountOK
<1>1. ASSUME SubscriptionUpdated(p, i)
      PROVE  h'[p].pc = "user" /\ h'[p].event = i /\ h'[p].plan = row'.plan
  <2> DEFINE plan == IF log[i].active THEN log[i].plan ELSE Free
             r == [Idle EXCEPT !.pc = "user", !.event = i, !.plan = plan]
  <2>1. Goto(p, r) /\ row'.plan = plan
    BY <1>0, <1>1 DEF SubscriptionUpdated, RowType
  <2> HIDE DEF plan
  <2>2. r.pc = "user" /\ r.event = i /\ r.plan = plan
    BY IdleOK DEF HandlerType
  <2> HIDE DEF r
  <2> QED BY <2>1, <2>2, GotoAt
<1>2. ASSUME SubscriptionDeleted(p, i)
      PROVE  h'[p].pc = "user" /\ h'[p].event = i /\ h'[p].plan = row'.plan
  <2> DEFINE r == [Idle EXCEPT !.pc = "user", !.event = i, !.plan = Free, !.end = log[i].end]
  <2>1. Goto(p, r) /\ row'.plan = Free
    BY <1>0, <1>2 DEF SubscriptionDeleted, Ended, RowType
  <2>2. r.pc = "user" /\ r.event = i /\ r.plan = Free
    BY IdleOK DEF HandlerType
  <2> HIDE DEF r
  <2> QED BY <2>1, <2>2, GotoAt
<1>3. ASSUME PaymentFailed(p, i), row.customer = log[i].customer
      PROVE  h'[p].pc = "failed" /\ h'[p].event = i
  <2> DEFINE r == [Idle EXCEPT !.pc = "failed", !.event = i]
  <2>1. Goto(p, r)
    BY <1>3 DEF PaymentFailed
  <2>2. r.pc = "failed" /\ r.event = i
    BY IdleOK DEF HandlerType
  <2> HIDE DEF r
  <2> QED BY <2>1, <2>2, GotoAt
<1> QED BY <1>1, <1>2, <1>3

(* The handler is not at "wise" and no reference is written.               *)
LEMMA RefsFrame ==
  ASSUME TypeInv, RefsInv, UNCHANGED <<refs, offers, credited>>, row'.ref \in {0, row.ref},
         \A q \in Procs : h'[q].pc # "wise"
  PROVE  RefsInv'
<1>1. refs \in Nat
  BY DEF TypeInv, WiseOK
<1> QED BY <1>1 DEF RefsInv

LEMMA RefsStep ==
  ASSUME TypeInv, RefsInv, OneSlot, NEW p \in Procs, Step(p) \/ Fail(p)
  PROVE  RefsInv'
<1>0. row \in RowType /\ refs \in Nat /\ \A q \in Procs : q = p
  BY DEF TypeInv, AccountOK, WiseOK, OneSlot
<1>1. CASE \/ WriteTrial(p) \/ WriteExpired(p) \/ OpenCheckout(p) \/ MailCancelled(p) \/ WriteFailed(p)
           \/ CancelWise(p) \/ CancelRow(p) \/ AdminWriteRow(p) \/ Fail(p)
  <2>1. \A q \in Procs : h'[q].pc = "idle"
    BY <1>1, OnlyEnd DEF WriteTrial, WriteExpired, OpenCheckout, MailCancelled, WriteFailed,
       CancelWise, CancelRow, AdminWriteRow, Fail
  <2>2. UNCHANGED <<refs, offers, credited>> /\ row'.ref \in {0, row.ref}
    BY <1>0, <1>1 DEF WriteTrial, WriteExpired, OpenCheckout, MailCancelled, WriteFailed,
       CancelWise, CancelRow, AdminWriteRow, Granted, Fail, atWise, account, RowType
  <2> QED BY <2>1, <2>2, RefsFrame
<1>2. CASE SaveCustomer(p) \/ WriteUserPlan(p) \/ CancelAtStripe(p)
  <2>1. UNCHANGED <<refs, offers, credited>> /\ row'.ref = row.ref
    BY <1>0, <1>2 DEF SaveCustomer, WithCustomer, WriteUserPlan, CancelAtStripe, Becomes, atWise,
       account, RowType
  <2>2. \A q \in Procs : h'[q].pc # "wise"
    <3>1. CASE Reply(p) \/ Throw(p)
      BY <3>1, OnlyEnd
    <3>2. CASE \E pc \in {"co_open", "mail", "c_row"} : Goto(p, [h[p] EXCEPT !.pc = pc])
      <4>1. PICK pc \in {"co_open", "mail", "c_row"} : Goto(p, [h[p] EXCEPT !.pc = pc])
        BY <3>2
      <4>2. [h[p] EXCEPT !.pc = pc].pc = pc
        BY Fields DEF HandlerType
      <4> QED BY <4>1, <4>2, OnlyGoto
    <3> QED BY <1>2, <3>1, <3>2 DEF SaveCustomer, WriteUserPlan, CancelAtStripe
  <2> QED BY <2>1, <2>2, RefsFrame
<1>3. CASE WiseActivate(p)
  <2>1. PICK n \in Nat : refs' = n /\ n = refs + 1
    BY <1>0, <1>3 DEF WiseActivate, NewReference
  <2>2. \A q \in Procs : h'[q].pc = "idle"
    BY <1>3, OnlyGoto, IdleOK DEF WiseActivate
  <2>3. /\ row'.ref = n /\ offers' = offers /\ credited' = credited \cup {h[p].ref}
        /\ h[p].pc = "wise"
    BY <1>0, <1>3, <2>1 DEF WiseActivate, RowType
  <2>4. credited' \subseteq 1..refs
    <3>1. h[p].ref = row.ref /\ row.ref # 0 /\ row.ref \in 0..refs
      BY <2>3 DEF RefsInv
    <3>2. h[p].ref \in 1..refs
      BY <1>0, <3>1
    <3> QED BY <2>3, <3>2 DEF RefsInv
  <2>5. n \notin credited' /\ credited' \subseteq 1..n /\ n \in 0..n
    BY <1>0, <2>1, <2>4
  <2>6. \A o \in offers' : o.ref # 0
    BY <2>3 DEF RefsInv
  <2> QED BY <2>1, <2>2, <2>3, <2>5, <2>6 DEF RefsInv
<1>4. CASE Remind(p)
  <2>1. PICK n \in Nat : refs' = n /\ n = refs + 1
    BY <1>0, <1>4 DEF Remind
  <2>2. \A q \in Procs : h'[q].pc = "idle"
    BY <1>4, OnlyEnd DEF Remind
  <2>3. /\ row'.ref = n /\ offers' = offers \cup {[ref |-> n, plan |-> h[p].plan]}
        /\ credited' = credited
    BY <1>0, <1>4, <2>1 DEF Remind, RowType
  <2> QED BY <1>0, <2>1, <2>2, <2>3 DEF RefsInv
<1> QED BY <1>1, <1>2, <1>3, <1>4 DEF Step

LEMMA RefsRequest ==
  ASSUME TypeInv, RefsInv, OneSlot, NEW p \in Procs,
         Request(p) \/ ExpireTrials(p) \/ RenewalDue(p)
  PROVE  RefsInv'
<1>0. row \in RowType /\ refs \in Nat /\ \A q \in Procs : q = p
  BY DEF TypeInv, AccountOK, WiseOK, OneSlot
<1>1. CASE StartTrial(p)
  <2>1. \A q \in Procs : h'[q].pc = "trial"
    BY <1>0, <1>1, RequestBegun
  <2>2. UNCHANGED <<row, refs, offers, credited>>
    BY <1>1 DEF StartTrial, account, atWise
  <2> QED BY <2>1, <2>2, RefsFrame
<1>2. CASE \/ ExpireTrials(p) \/ RenewalDue(p) \/ Cancel(p)
           \/ \E plan \in Plans, len \in Intervals : Checkout(p, plan, len)
           \/ \E plan \in AdminPlans : AdminSetPlan(p, plan)
  <2>1. UNCHANGED <<row, refs, offers, credited>>
    BY <1>2 DEF ExpireTrials, RenewalDue, Cancel, Checkout, AdminSetPlan, account, atWise
  <2>2. \A q \in Procs : h'[q].pc # "wise"
    BY <1>0, <1>2, RequestBegun DEF OpeningPc
  <2> QED BY <2>1, <2>2, RefsFrame
<1>3. ASSUME NEW plan \in Plans, NEW len \in Intervals, WiseSession(p, plan, len)
      PROVE  RefsInv'
  <2>1. PICK n \in Nat : refs' = n /\ n = refs + 1
    BY <1>0, <1>3 DEF WiseSession
  <2>2. \A q \in Procs : h'[q].pc = "idle"
    BY <1>0, <1>3 DEF WiseSession, Ready
  <2>3. /\ row'.ref = n /\ offers' = offers \cup {[ref |-> n, plan |-> plan]}
        /\ credited' = credited
    BY <1>0, <1>3, <2>1 DEF WiseSession, RowType
  <2> QED BY <1>0, <2>1, <2>2, <2>3 DEF RefsInv
<1> QED BY <1>1, <1>2, <1>3 DEF Request

LEMMA RefsWebhook ==
  ASSUME TypeInv, RefsInv, OneSlot, NEW p \in Procs,
         \/ \E i \in DOMAIN log : Webhook(p, i)
         \/ \E o \in transfers : WiseWebhook(p, o)
  PROVE  RefsInv'
<1>0. row \in RowType /\ \A q \in Procs : q = p
  BY DEF TypeInv, AccountOK, OneSlot
<1>1. ASSUME NEW i \in DOMAIN log, Webhook(p, i) PROVE RefsInv'
  <2>1. /\ UNCHANGED <<refs, offers, credited>> /\ row'.ref = row.ref
    BY <1>0, <1>1 DEF Webhook, CheckoutCompleted, SubscriptionUpdated, SubscriptionDeleted,
       PaymentFailed, Activated, Ended, account, atWise, RowType
  <2>2. \A q \in Procs : h'[q].pc # "wise"
    <3>1. CASE UNCHANGED h /\ Ready(p)
      BY <1>0, <3>1 DEF Ready
    <3>2. CASE h' # h
      BY <1>0, <1>1, <3>2, WebhookBegun DEF Webhook, CheckoutCompleted, PaymentFailed
    <3> QED BY <1>1, <3>1, <3>2 DEF Webhook, CheckoutCompleted, SubscriptionUpdated,
            SubscriptionDeleted, PaymentFailed
  <2> QED BY <2>1, <2>2, RefsFrame
<1>2. ASSUME NEW o \in transfers, WiseWebhook(p, o) PROVE RefsInv'
  <2>1. UNCHANGED <<row, refs, offers, credited>>
    BY <1>2 DEF WiseWebhook, account, atWise
  <2>2. o.ref # 0
    BY DEF RefsInv, TypeInv, WiseOK
  <2>3. CASE row.ref = o.ref
    <3>1. \A q \in Procs : h'[q].pc = "wise" /\ h'[q].ref = row.ref
      BY <1>0, <1>2, <2>3, RequestBegun
    <3> QED BY <2>1, <2>2, <2>3, <3>1 DEF RefsInv
  <2>4. CASE row.ref # o.ref
    <3>1. h' = h
      BY <1>2, <2>4 DEF WiseWebhook
    <3> QED BY <2>1, <3>1 DEF RefsInv
  <2> QED BY <2>3, <2>4
<1> QED BY <1>1, <1>2

LEMMA RefsNext ==
  ASSUME TypeInv, RefsInv, OneSlot, [Next]_vars
  PROVE  RefsInv'
<1>1. CASE UNCHANGED vars \/ Tick \/ (\E o \in offers : Transfer(o)) \/ (\E n \in 1..MaxSubs : AtStripe(n))
  <2>1. UNCHANGED <<row, h, refs, offers, credited>>
    BY <1>1 DEF vars, Tick, Transfer, AtStripe, Subscribe, Renew, Dun, Recover, EndSubscription,
       Becomes, account, atWise
  <2> QED BY <2>1 DEF RefsInv
<1> QED BY <1>1, RefsStep, RefsRequest, RefsWebhook DEF Next

(* A transfer activates a plan once, however often Wise notifies it, when  *)
(* handlers do not overlap.                                                *)
THEOREM TransfersCreditOnce == ASSUME OneSlot PROVE Spec => []CreditedOnce
<1>1. Init => TypeInv /\ RefsInv
  BY TypeInit, RefsInit
<1>2. TypeInv /\ RefsInv /\ [Next]_vars => (TypeInv /\ RefsInv)'
  BY TypeNext, RefsNext
<1>3. RefsInv => CreditedOnce
  BY DEF RefsInv, CreditedOnce
<1> QED BY <1>1, <1>2, <1>3, PTL DEF Spec

-----------------------------------------------------------------------------
(* When the two copies of the plan differ, a webhook that will write both  *)
(* is still to be answered.                                                *)
Writes == {"updated", "deleted"}

CopiesInv == row.plan = userPlan \/ \E i \in DOMAIN log \ acked : log[i].type \in Writes

Agreeing(r) ==
  /\ r.pc = "user" => r.plan = row.plan
  /\ r.pc = "mail" => row.plan = userPlan
  /\ r.pc = "failed" => r.event \in DOMAIN log /\ log[r.event].type = "failed"
  /\ r.pc \notin {"user", "mail", "failed"} => r.event = 0
  /\ r.pc # "admin"

AgreeInv == CopiesInv /\ \A p \in Procs : Agreeing(h[p])

LEMMA AgreeInit == Init => AgreeInv
  BY IdleOK DEF Init, AgreeInv, CopiesInv, Agreeing, NoRow

(* Events are never rewritten.                                             *)
LogExtends == DOMAIN log \subseteq DOMAIN log' /\ \A i \in DOMAIN log : log'[i] = log[i]

LEMMA BecomesExtends ==
  ASSUME TypeInv, NEW n, NEW s, NEW types \in Seq(Types), Becomes(n, s, types)
  PROVE  LogExtends
<1> DEFINE new == [k \in DOMAIN types |-> Event(types[k], n, s)]
<1>1. DOMAIN types = 1..Len(types) /\ Len(types) \in Nat
  OBVIOUS
<1>2. new \in Seq({Event(types[k], n, s) : k \in DOMAIN types})
  BY <1>1
<1>3. log' = log \o new /\ log \in Seq(EventType)
  BY DEF Becomes, TypeInv, StripeOK
<1> HIDE DEF new
<1> QED BY <1>2, <1>3 DEF LogExtends

(* The plans, or what is left to answer, do not change for the worse.      *)
LEMMA CopiesKept ==
  ASSUME TypeInv, AgreeInv, LogExtends, UNCHANGED <<row, userPlan>> \/ row'.plan = userPlan'
           \/ (row'.plan = row.plan /\ userPlan' = userPlan),
         \A i \in DOMAIN log : log[i].type \in Writes /\ i \in acked' => i \in acked
  PROVE  CopiesInv'
  BY DEF AgreeInv, CopiesInv, LogExtends

LEMMA AgreeIdle ==
  ASSUME \A q \in Procs : h'[q].pc = "idle" /\ h'[q].event = 0, CopiesInv'
  PROVE  AgreeInv'
  BY DEF AgreeInv, Agreeing

LEMMA OnlyIdle ==
  ASSUME TypeInv, OneSlot, NEW p \in Procs, Goto(p, Idle)
  PROVE  \A q \in Procs : h'[q].pc = "idle" /\ h'[q].event = 0
  BY OnlyGoto, IdleOK

LEMMA SameLog == UNCHANGED log => LogExtends
  BY DEF LogExtends

LEMMA AgreeStep ==
  ASSUME TypeInv, AgreeInv, OneSlot, NEW p \in Procs, Step(p) \/ Fail(p)
  PROVE  AgreeInv'
<1>0. row \in RowType /\ (\A q \in Procs : q = p) /\ Agreeing(h[p])
  BY DEF TypeInv, AccountOK, OneSlot, AgreeInv
<1>1. CASE \/ WriteTrial(p) \/ WriteExpired(p) \/ Remind(p) \/ OpenCheckout(p) \/ CancelWise(p)
           \/ CancelRow(p)
  <2>1. LogExtends /\ Goto(p, Idle)
    BY <1>1, SameLog DEF WriteTrial, WriteExpired, Remind, OpenCheckout, CancelWise, CancelRow, Reply,
       atStripe
  <2>2. acked' = acked
    BY <1>0, <1>1 DEF WriteTrial, WriteExpired, Remind, OpenCheckout, CancelWise, CancelRow, Reply,
       Agreeing, answers
  <2>3. row'.plan = userPlan' \/ (row'.plan = row.plan /\ userPlan' = userPlan)
    BY <1>0, <1>1 DEF WriteTrial, WriteExpired, Remind, OpenCheckout, CancelWise, CancelRow, account,
       RowType
  <2> QED BY <2>1, <2>2, <2>3, CopiesKept, OnlyIdle, AgreeIdle
<1>2. CASE WriteFailed(p) \/ MailCancelled(p)
  <2>1. LogExtends /\ Goto(p, Idle) /\ acked' \subseteq acked \cup {h[p].event}
    BY <1>2, SameLog DEF WriteFailed, MailCancelled, Reply, Answer, atStripe, answers
  <2>2. row'.plan = row.plan /\ userPlan' = userPlan
    BY <1>0, <1>2 DEF WriteFailed, MailCancelled, account, RowType
  <2>3. CopiesInv'
    <3>1. CASE WriteFailed(p)
      BY <1>0, <2>1, <2>2, <3>1, CopiesKept DEF WriteFailed, Agreeing, Writes
    <3>2. CASE MailCancelled(p)
      BY <1>0, <2>2, <3>2 DEF MailCancelled, Agreeing, CopiesInv
    <3> QED BY <1>2, <3>1, <3>2
  <2> QED BY <2>1, <2>3, OnlyIdle, AgreeIdle
<1>3. CASE Fail(p)
  <2>1. Goto(p, Idle) /\ UNCHANGED <<row, userPlan, log>>
    BY <1>3 DEF Fail, Throw, account, atStripe
  <2>2. CopiesInv'
    BY <1>3, <2>1 DEF Fail, Throw, answers, AgreeInv, CopiesInv
  <2> QED BY <2>1, <2>2, OnlyIdle, AgreeIdle
<1>4. CASE WiseActivate(p)
  <2>1. Goto(p, Idle) /\ row'.plan = userPlan'
    BY <1>0, <1>4 DEF WiseActivate, RowType
  <2> QED BY <2>1, OnlyIdle, AgreeIdle DEF CopiesInv
<1>5. CASE SaveCustomer(p)
  <2> DEFINE r == [h[p] EXCEPT !.pc = "co_open"]
  <2>1. r.pc = "co_open" /\ r.event = 0
    BY <1>0, <1>5, Fields DEF SaveCustomer, Agreeing, HandlerType
  <2>2. Goto(p, r) /\ UNCHANGED <<log, acked>> /\ row'.plan = row.plan /\ userPlan' = userPlan
    BY <1>0, <1>5 DEF SaveCustomer, WithCustomer, atStripe, answers, RowType
  <2> HIDE DEF r
  <2>3. \A q \in Procs : h'[q].pc = "co_open" /\ h'[q].event = 0
    BY <2>1, <2>2, OnlyGoto
  <2> QED BY <2>2, <2>3, SameLog, CopiesKept DEF AgreeInv, Agreeing
<1>6. CASE WriteUserPlan(p)
  <2>1. row'.plan = userPlan' /\ row' = row
    BY <1>0, <1>6 DEF WriteUserPlan, Agreeing
  <2>2. CASE Reply(p)
    BY <2>1, <2>2, OnlyIdle, AgreeIdle DEF Reply, CopiesInv
  <2>3. CASE ~Reply(p)
    <3> DEFINE r == [h[p] EXCEPT !.pc = "mail"]
    <3>1. r.pc = "mail"
      BY Fields DEF HandlerType
    <3>2. Goto(p, r)
      BY <1>6, <2>3 DEF WriteUserPlan
    <3> HIDE DEF r
    <3>3. \A q \in Procs : h'[q].pc = "mail"
      BY <3>1, <3>2, OnlyGoto
    <3> QED BY <2>1, <3>3 DEF AgreeInv, Agreeing, CopiesInv
  <2> QED BY <2>2, <2>3
<1>7. CASE CancelAtStripe(p)
  <2>1. CASE Throw(p) /\ UNCHANGED <<account, atStripe, atWise, world>>
    <3>1. Goto(p, Idle) /\ UNCHANGED <<row, userPlan, log>>
      BY <2>1 DEF Throw, account, atStripe
    <3>2. acked' = acked
      BY <1>0, <1>7, <2>1 DEF CancelAtStripe, Throw, Agreeing, answers
    <3> QED BY <3>1, <3>2, SameLog, CopiesKept, OnlyIdle, AgreeIdle
  <2>2. CASE ~(Throw(p) /\ UNCHANGED <<account, atStripe, atWise, world>>)
    <3> DEFINE n == h[p].sub
               s == [stripe[n] EXCEPT !.cancelEnd = TRUE]
               types == IF stripe[n].cancelEnd THEN <<>> ELSE <<"updated">>
               r == [h[p] EXCEPT !.pc = "c_row"]
    <3>1. types \in Seq(Types)
      <4>1. <<>> \in Seq(Types) /\ <<"updated">> \in Seq(Types)
        BY DEF Types
      <4> QED BY <4>1
    <3>2. Becomes(n, s, types) /\ Goto(p, r) /\ UNCHANGED answers
      BY <1>7, <2>2 DEF CancelAtStripe
    <3>3. r.pc = "c_row" /\ r.event = 0
      BY <1>0, <1>7, Fields DEF CancelAtStripe, Agreeing, HandlerType
    <3> HIDE DEF n, s, types, r
    <3>4. LogExtends
      BY <3>1, <3>2, BecomesExtends
    <3>5. UNCHANGED <<row, userPlan, acked>>
      BY <3>2 DEF Becomes, account, answers
    <3>6. \A q \in Procs : h'[q].pc = "c_row" /\ h'[q].event = 0
      BY <3>2, <3>3, OnlyGoto
    <3> QED BY <3>4, <3>5, <3>6, CopiesKept DEF AgreeInv, Agreeing
  <2> QED BY <2>1, <2>2
<1>8. CASE AdminWriteRow(p)
  BY <1>0, <1>8 DEF AdminWriteRow, Agreeing
<1> QED BY <1>1, <1>2, <1>3, <1>4, <1>5, <1>6, <1>7, <1>8 DEF Step

LEMMA AgreeRequest ==
  ASSUME AdminPlans = {}, TypeInv, AgreeInv, OneSlot, NEW p \in Procs,
         \/ Request(p) \/ ExpireTrials(p) \/ RenewalDue(p)
         \/ \E o \in transfers : WiseWebhook(p, o)
  PROVE  AgreeInv'
<1>0. row \in RowType /\ \A q \in Procs : q = p
  BY DEF TypeInv, AccountOK, OneSlot
<1>1. ASSUME UNCHANGED <<log, acked>>, row'.plan = row.plan, userPlan' = userPlan,
             \/ h'[p].event = 0 /\ h'[p].pc \notin {"user", "mail", "failed", "admin"}
             \/ h' = h /\ Ready(p)
      PROVE  AgreeInv'
  <2>1. CopiesInv'
    BY <1>1, SameLog, CopiesKept
  <2> QED BY <1>0, <1>1, <2>1 DEF AgreeInv, Agreeing, Ready
<1>2. CASE StartTrial(p) \/ ExpireTrials(p) \/ RenewalDue(p) \/ Cancel(p)
  <2>1. UNCHANGED <<log, acked, row, userPlan>>
    BY <1>2 DEF StartTrial, ExpireTrials, RenewalDue, Cancel, account, atStripe, answers
  <2> QED BY <1>1, <1>2, <2>1, RequestBegun
<1>3. ASSUME NEW plan \in Plans, NEW len \in Intervals, Checkout(p, plan, len) \/ WiseSession(p, plan, len)
      PROVE  AgreeInv'
  <2>1. UNCHANGED <<log, acked, userPlan>> /\ row'.plan = row.plan
    BY <1>0, <1>3 DEF Checkout, WiseSession, account, atStripe, answers, RowType
  <2>2. CASE Checkout(p, plan, len)
    BY <1>1, <2>1, <2>2, RequestBegun DEF OpeningPc
  <2>3. CASE WiseSession(p, plan, len)
    BY <1>1, <2>1, <2>3 DEF WiseSession
  <2> QED BY <1>3, <2>2, <2>3
<1>4. ASSUME NEW o \in transfers, WiseWebhook(p, o) PROVE AgreeInv'
  <2>1. UNCHANGED <<log, acked, row, userPlan>>
    BY <1>4 DEF WiseWebhook, account, atStripe, answers
  <2>2. CASE row.ref = o.ref
    BY <1>1, <1>4, <2>1, <2>2, RequestBegun
  <2>3. CASE row.ref # o.ref
    BY <1>1, <1>4, <2>1, <2>3 DEF WiseWebhook
  <2> QED BY <2>2, <2>3
<1> QED BY <1>2, <1>3, <1>4 DEF Request

LEMMA AgreeWebhook ==
  ASSUME TypeInv, AgreeInv, OneSlot, NEW p \in Procs, NEW i \in DOMAIN log, Webhook(p, i)
  PROVE  AgreeInv'
<1>0. row \in RowType /\ (\A q \in Procs : q = p) /\ UNCHANGED log
  BY DEF TypeInv, AccountOK, OneSlot, Webhook, CheckoutCompleted, SubscriptionUpdated,
     SubscriptionDeleted, PaymentFailed, atStripe
<1>1. CASE CheckoutCompleted(p, i)
  <2>1. row'.plan = userPlan' /\ h' = h /\ Ready(p)
    BY <1>0, <1>1 DEF CheckoutCompleted, Activated, RowType
  <2> QED BY <1>0, <2>1 DEF AgreeInv, CopiesInv, Agreeing, Ready
<1>2. CASE SubscriptionUpdated(p, i) \/ SubscriptionDeleted(p, i)
  <2>1. i \in DOMAIN log \ acked /\ log[i].type \in Writes /\ UNCHANGED acked
    BY <1>2 DEF SubscriptionUpdated, SubscriptionDeleted, Deliverable, Writes, answers
  <2>2. h'[p].pc = "user" /\ h'[p].plan = row'.plan
    BY <1>2, WebhookBegun
  <2> QED BY <1>0, <2>1, <2>2 DEF AgreeInv, CopiesInv, Agreeing
<1>3. CASE PaymentFailed(p, i)
  <2>1. log[i].type = "failed" /\ UNCHANGED <<row, userPlan>>
    BY <1>3 DEF PaymentFailed, account
  <2>2. acked' \subseteq acked \cup {i}
    BY <1>3 DEF PaymentFailed, Answer, answers
  <2>3. CopiesInv'
    BY <1>0, <2>1, <2>2, SameLog, CopiesKept DEF Writes
  <2>4. CASE row.customer = log[i].customer
    <3>1. h'[p].pc = "failed" /\ h'[p].event = i
      BY <1>3, <2>4, WebhookBegun
    <3> QED BY <1>0, <2>1, <2>3, <3>1 DEF AgreeInv, Agreeing
  <2>5. CASE row.customer # log[i].customer
    <3>1. h' = h /\ Ready(p)
      BY <1>3, <2>5 DEF PaymentFailed
    <3> QED BY <1>0, <2>3, <3>1 DEF AgreeInv, Agreeing, Ready
  <2> QED BY <2>4, <2>5
<1> QED BY <1>1, <1>2, <1>3 DEF Webhook

LEMMA AgreeNext ==
  ASSUME AdminPlans = {}, TypeInv, AgreeInv, OneSlot, [Next]_vars
  PROVE  AgreeInv'
<1>1. ASSUME UNCHANGED <<row, userPlan, h, acked>>, LogExtends PROVE AgreeInv'
  <2>1. CopiesInv'
    BY <1>1, CopiesKept
  <2> QED BY <1>1, <2>1 DEF AgreeInv, Agreeing, LogExtends
<1>2. CASE UNCHANGED vars \/ Tick \/ \E o \in offers : Transfer(o)
  <2>1. UNCHANGED <<row, userPlan, h, acked, log>>
    BY <1>2 DEF vars, Tick, Transfer, account, atStripe, answers
  <2> QED BY <1>1, <2>1, SameLog
<1>3. ASSUME NEW n \in 1..MaxSubs, AtStripe(n) PROVE AgreeInv'
  <2>1. UNCHANGED <<row, userPlan, h, acked>>
    BY <1>3 DEF AtStripe, Subscribe, Renew, Dun, Recover, EndSubscription, Becomes, account, answers
  <2>2. \E s, types : types \in Seq(Types) /\ Becomes(n, s, types)
    <3>1. <<"completed">> \in Seq(Types) /\ <<"updated">> \in Seq(Types) /\ <<"deleted">> \in Seq(Types)
          /\ <<"failed", "updated">> \in Seq(Types)
      BY DEF Types
    <3> QED BY <1>3, <3>1 DEF AtStripe, Subscribe, Renew, Dun, Recover, EndSubscription
  <2> QED BY <1>1, <2>1, <2>2, BecomesExtends
<1> QED BY <1>2, <1>3, AgreeStep, AgreeRequest, AgreeWebhook DEF Next

(* User.plan and the plan of the row agree once every webhook is answered, *)
(* in whatever order webhooks come, are repeated or die, when handlers do  *)
(* not overlap and no administrator writes, for any plans and bounds.      *)
THEOREM CopiesAgree == ASSUME OneSlot, AdminPlans = {} PROVE Spec => []PlansAgree
<1>1. Init => TypeInv /\ AgreeInv
  BY TypeInit, AgreeInit
<1>2. TypeInv /\ AgreeInv /\ [Next]_vars => (TypeInv /\ AgreeInv)'
  BY TypeNext, AgreeNext
<1>3. AgreeInv => PlansAgree
  BY DEF AgreeInv, CopiesInv, PlansAgree, Settled
<1> QED BY <1>1, <1>2, <1>3, PTL DEF Spec

-----------------------------------------------------------------------------
(* Stripe delivers in order.  With one subscription, one slot, no transfer *)
(* and no administrator, the row follows the events of the log.            *)

Serving == {"user", "mail", "failed"}

(* Does the account have the plan after event e?                           *)
Gives(e) == e.type \in {"completed", "failed"} \/ (e.type = "updated" /\ e.active)

Agrees(e) ==
  IF Gives(e) THEN row.plan = stripe[1].plan /\ row.status # "TRIAL"
  ELSE row.plan = Free \/ row.status = "TRIAL"

(* The row is as event k left it.                                          *)
Shows(k) == IF k = 0 THEN row.subId = 0 ELSE row.subId = 1 /\ Agrees(log[k])

(* The events up to a were answered; the next may have been written, and   *)
(* was if a handler is about to answer it.                                 *)
HeardTo(a) ==
  /\ acked = 1..a
  /\ Shows(a) \/ (a < Len(log) /\ Shows(a + 1))
  /\ \A p \in Procs : h[p].pc \in Serving =>
       /\ a < Len(log) /\ h[p].event = a + 1 /\ Shows(a + 1)
       /\ h[p].pc = "failed" => Gives(log[a + 1])

HeardInv == \E a \in 0..Len(log) : HeardTo(a)

(* Nothing comes from Wise or from an administrator.                       *)
NoWise ==
  /\ offers = {} /\ transfers = {} /\ row.provider = "STRIPE"
  /\ \A p \in Procs : h[p].pc \notin {"wise", "remind", "c_wise", "admin"}

(* What a handler carries is still so.                                     *)
Proper(r) ==
  /\ r.pc = "trial" => row.plan = Free
  /\ r.pc = "expire" => row.status = "TRIAL"
  /\ r.pc \in OpeningPc => r.sub = 1 /\ r.plan \in Plans /\ stripe[1].state = "none"
  /\ r.pc = "c_row" => IF r.sub = 0 THEN row.subId = 0 ELSE stripe[1].cancelEnd
  /\ r.pc \notin Serving => r.event = 0

HandlersProper == \A p \in Procs : Proper(h[p])

(* Events are snapshots of the one subscription, the last as it is now; a  *)
(* failed payment comes after an event that gives the plan and before one  *)
(* that does not.                                                          *)
EventOK(i) ==
  /\ log[i].plan = stripe[1].plan
  /\ log[i].cancelEnd => stripe[1].cancelEnd
  /\ log[i].type = "failed" => i \in 2..(Len(log) - 1) /\ Gives(log[i - 1])
  /\ log[i].type = "deleted" => i > 1

LastOK ==
  /\ stripe[1].state \in {"none", "open"} <=> log = <<>>
  /\ stripe[1].state # "none" => stripe[1].plan \in Plans
  /\ stripe[1].state = "active" => Gives(log[Len(log)])
  /\ stripe[1].state = "ended" => ~Gives(log[Len(log)])

Snapshots == LastOK /\ \A i \in DOMAIN log : EventOK(i)

CancelInv == row.cancelEnd /\ row.subId # 0 => stripe[1].cancelEnd

MirrorInv == TypeInv /\ NoWise /\ HeardInv /\ HandlersProper /\ Snapshots /\ CancelInv

(* One account whose handlers do not overlap, with one subscription.       *)
OneSubscription == OneSlot /\ MaxSubs = 1 /\ AdminPlans = {}

(* Deliveries in order: everything before event i was answered.            *)
Following(i) == \A j \in 1..(i - 1) : j \in acked

(* What may happen in that world, without the bounds of the model.         *)
Proceeds(p) ==
  \/ WriteTrial(p) \/ WriteExpired(p) \/ SaveCustomer(p) \/ OpenCheckout(p) \/ WriteUserPlan(p)
  \/ MailCancelled(p) \/ WriteFailed(p) \/ CancelAtStripe(p) \/ CancelRow(p) \/ Dies(p)

Begins(p) ==
  \/ StartTrial(p) \/ ExpireTrials(p) \/ Cancel(p)
  \/ \E plan \in Plans, len \in Intervals : Checkout(p, plan, len)

OrderedNext ==
  \/ \E p \in Procs :
       \/ Proceeds(p) \/ Begins(p)
       \/ \E i \in DOMAIN log : Webhook(p, i) /\ Following(i)
  \/ \E n \in 1..MaxSubs : Moves(n)
  \/ Passes

(* InTheOrder is the module with other constants: its actions are these.   *)
LEMMA OrderedStep ==
  ASSUME TypeInv, NEW p \in Procs, InTheOrder!Step(p), h[p].pc \notin {"wise", "remind", "c_wise", "admin"}
  PROVE  Proceeds(p)
<1> USE DEF InTheOrder!Reply, Reply, InTheOrder!Goto, Goto, InTheOrder!Answer, Answer, InTheOrder!Idle, Idle,
     InTheOrder!atStripe, atStripe, InTheOrder!atWise, atWise, InTheOrder!world, world,
     InTheOrder!account, account, InTheOrder!answers, answers
<1>1. CASE InTheOrder!WriteTrial(p)
  BY <1>1 DEF InTheOrder!WriteTrial, WriteTrial, Proceeds
<1>2. CASE InTheOrder!WriteExpired(p)
  BY <1>2 DEF InTheOrder!WriteExpired, WriteExpired, Proceeds
<1>3. CASE InTheOrder!SaveCustomer(p)
  BY <1>3 DEF InTheOrder!SaveCustomer, SaveCustomer, InTheOrder!WithCustomer, WithCustomer, Proceeds
<1>4. CASE InTheOrder!OpenCheckout(p)
  BY <1>4 DEF InTheOrder!OpenCheckout, OpenCheckout, InTheOrder!NoCheckout, NoCheckout, Proceeds
<1>5. CASE InTheOrder!WriteUserPlan(p)
  BY <1>5 DEF InTheOrder!WriteUserPlan, WriteUserPlan, Proceeds
<1>6. CASE InTheOrder!MailCancelled(p)
  BY <1>6 DEF InTheOrder!MailCancelled, MailCancelled, Proceeds
<1>7. CASE InTheOrder!WriteFailed(p)
  BY <1>7 DEF InTheOrder!WriteFailed, WriteFailed, Proceeds
<1>8. CASE InTheOrder!CancelAtStripe(p)
  BY <1>8 DEF InTheOrder!CancelAtStripe, CancelAtStripe, InTheOrder!Becomes, Becomes, InTheOrder!Event, Event,
     InTheOrder!Throw, Throw, Proceeds
<1>9. CASE InTheOrder!CancelRow(p)
  BY <1>9 DEF InTheOrder!CancelRow, CancelRow, Proceeds
<1> QED BY <1>1, <1>2, <1>3, <1>4, <1>5, <1>6, <1>7, <1>8, <1>9
        DEF InTheOrder!Step, InTheOrder!WiseActivate, InTheOrder!Remind, InTheOrder!CancelWise, InTheOrder!AdminWriteRow

LEMMA OrderedRequest ==
  ASSUME TypeInv, AdminPlans = {}, NEW p \in Procs, InTheOrder!Request(p) \/ InTheOrder!ExpireTrials(p)
  PROVE  Begins(p)
<1> USE DEF InTheOrder!Goto, Goto, InTheOrder!Idle, Idle, InTheOrder!Ready, Ready,
     InTheOrder!atStripe, atStripe, InTheOrder!atWise, atWise, InTheOrder!world, world,
     InTheOrder!account, account, InTheOrder!answers, answers
<1>1. CASE InTheOrder!StartTrial(p)
  BY <1>1 DEF InTheOrder!StartTrial, StartTrial, InTheOrder!TrialAllowed, TrialAllowed, Begins
<1>2. CASE InTheOrder!ExpireTrials(p)
  BY <1>2 DEF InTheOrder!ExpireTrials, ExpireTrials, InTheOrder!TrialOver, TrialOver, Begins
<1>3. CASE InTheOrder!Cancel(p)
  BY <1>3 DEF InTheOrder!Cancel, Cancel, InTheOrder!CancelRoute, CancelRoute, Begins
<1>4. ASSUME NEW plan \in Plans, NEW len \in Intervals, InTheOrder!Checkout(p, plan, len)
      PROVE  Begins(p)
  <2>1. Checkout(p, plan, len)
    BY <1>4 DEF InTheOrder!Checkout, Checkout, InTheOrder!Opening, Opening
  <2> QED BY <2>1 DEF Begins
<1>5. ASSUME NEW plan \in Plans, NEW len \in Intervals, InTheOrder!WiseSession(p, plan, len)
      PROVE  FALSE
  <2>1. refs \in Nat /\ refs < 0
    BY <1>5 DEF InTheOrder!WiseSession, TypeInv, WiseOK
  <2> QED BY <2>1
<1> QED BY <1>1, <1>2, <1>3, <1>4, <1>5 DEF InTheOrder!Request

LEMMA OrderedWebhook ==
  ASSUME TypeInv, NEW p \in Procs, NEW i, InTheOrder!Webhook(p, i)
  PROVE  Webhook(p, i) /\ Following(i)
<1> USE DEF InTheOrder!Goto, Goto, InTheOrder!Idle, Idle, InTheOrder!Ready, Ready,
     InTheOrder!atStripe, atStripe, InTheOrder!atWise, atWise, InTheOrder!world, world,
     InTheOrder!account, account, InTheOrder!answers, answers, InTheOrder!Answer, Answer
<1>1. ASSUME InTheOrder!Deliverable(i) PROVE Deliverable(i) /\ Following(i)
  BY <1>1 DEF InTheOrder!Deliverable, Deliverable, Following
<1>2. CASE InTheOrder!CheckoutCompleted(p, i)
  <2>1. Deliverable(i) /\ Following(i)
    BY <1>1, <1>2 DEF InTheOrder!CheckoutCompleted
  <2> QED BY <1>2, <2>1 DEF InTheOrder!CheckoutCompleted, CheckoutCompleted, InTheOrder!Activated, Activated, Webhook
<1>3. CASE InTheOrder!SubscriptionUpdated(p, i)
  <2>1. Deliverable(i) /\ Following(i)
    BY <1>1, <1>3 DEF InTheOrder!SubscriptionUpdated
  <2> QED BY <1>3, <2>1 DEF InTheOrder!SubscriptionUpdated, SubscriptionUpdated, Webhook
<1>4. CASE InTheOrder!SubscriptionDeleted(p, i)
  <2>1. Deliverable(i) /\ Following(i)
    BY <1>1, <1>4 DEF InTheOrder!SubscriptionDeleted
  <2> QED BY <1>4, <2>1 DEF InTheOrder!SubscriptionDeleted, SubscriptionDeleted, InTheOrder!Ended, Ended, Webhook
<1>5. CASE InTheOrder!PaymentFailed(p, i)
  <2>1. Deliverable(i) /\ Following(i)
    BY <1>1, <1>5 DEF InTheOrder!PaymentFailed
  <2> QED BY <1>5, <2>1 DEF InTheOrder!PaymentFailed, PaymentFailed, Webhook
<1> QED BY <1>2, <1>3, <1>4, <1>5 DEF InTheOrder!Webhook

LEMMA OrderedMoves ==
  ASSUME NEW n, InTheOrder!AtStripe(n)
  PROVE  Moves(n)
<1> USE DEF InTheOrder!Becomes, Becomes, InTheOrder!Event, Event, InTheOrder!Due, Due,
     InTheOrder!atWise, atWise, InTheOrder!account, account, InTheOrder!answers, answers
<1>1. InTheOrder!Subscribe(n) => Subscribe(n)
  BY DEF InTheOrder!Subscribe, Subscribe
<1>2. InTheOrder!Renew(n) => Renew(n)
  BY DEF InTheOrder!Renew, Renew
<1>3. InTheOrder!Dun(n) => Dun(n)
  BY DEF InTheOrder!Dun, Dun
<1>4. InTheOrder!Recover(n) => Recover(n)
  BY DEF InTheOrder!Recover, Recover
<1>5. InTheOrder!EndSubscription(n) => EndSubscription(n)
  BY DEF InTheOrder!EndSubscription, EndSubscription
<1> QED BY <1>1, <1>2, <1>3, <1>4, <1>5 DEF InTheOrder!AtStripe, Moves

(* The world in which Stripe delivers in order takes such steps only.      *)
LEMMA InTheOrderSteps ==
  ASSUME TypeInv, NoWise, AdminPlans = {}, InTheOrder!Next
  PROVE  OrderedNext
<1>1. ASSUME NEW p \in Procs, InTheOrder!Step(p) PROVE Proceeds(p)
  BY <1>1, OrderedStep DEF NoWise
<1>2. ASSUME NEW p \in Procs, InTheOrder!Fail(p) PROVE Proceeds(p)
  BY <1>2 DEF InTheOrder!Fail, Proceeds, Dies, InTheOrder!Throw, Throw, InTheOrder!Goto, Goto, InTheOrder!Idle,
     Idle, InTheOrder!Ready, Ready, InTheOrder!atStripe, atStripe, InTheOrder!atWise, atWise,
     InTheOrder!account, account, InTheOrder!answers, answers
<1>3. ASSUME NEW p \in Procs, InTheOrder!RenewalDue(p) PROVE FALSE
  <2>1. refs \in Nat /\ refs < 0
    BY <1>3 DEF InTheOrder!RenewalDue, TypeInv, WiseOK
  <2> QED BY <2>1
<1>4. transfers = {} /\ offers = {}
  BY DEF NoWise
<1>5. InTheOrder!Tick => Passes
  BY DEF InTheOrder!Tick, Passes, InTheOrder!atStripe, atStripe, InTheOrder!atWise, atWise,
     InTheOrder!account, account, InTheOrder!answers, answers
<1> QED BY <1>1, <1>2, <1>3, <1>4, <1>5, OrderedRequest, OrderedWebhook, OrderedMoves DEF InTheOrder!Next, OrderedNext

LEMMA MirrorInit == ASSUME MaxSubs = 1 PROVE Init => MirrorInv
<1> SUFFICES ASSUME Init PROVE MirrorInv
  OBVIOUS
<1>1. NoWise /\ HandlersProper /\ CancelInv
  BY IdleOK DEF Init, NoWise, HandlersProper, Proper, CancelInv, NoRow, OpeningPc, Serving
<1>2. HeardTo(0)
  <2>1. acked = 1..0 /\ row.subId = 0 /\ \A p \in Procs : h[p].pc = "idle"
    BY IdleOK DEF Init, NoRow
  <2> QED BY <2>1 DEF HeardTo, Shows, Serving
<1>3. HeardInv
  <2>1. 0 \in 0..Len(log)
    BY DEF Init
  <2> QED BY <1>2, <2>1 DEF HeardInv
<1>4. Snapshots
  <2>1. log = <<>> /\ DOMAIN log = {} /\ stripe[1].state = "none"
    BY DEF Init, NoCheckout
  <2> QED BY <2>1 DEF Snapshots, LastOK
<1> QED BY <1>1, <1>3, <1>4, TypeInit DEF MirrorInv

(* The account and its only subscription.                                  *)
LEMMA Alone ==
  ASSUME TypeInv, OneSubscription
  PROVE  /\ row \in RowType /\ row.subId \in {0, 1} /\ 1..MaxSubs = {1}
         /\ stripe[1] \in CheckoutType /\ Len(log) \in Nat /\ DOMAIN log = 1..Len(log)
<1>1. MaxSubs = 1 /\ 1..1 = {1} /\ 0..1 = {0, 1}
  BY DEF OneSubscription
<1>2. row \in RowType /\ log \in Seq(EventType) /\ stripe \in [1..MaxSubs -> CheckoutType]
  BY DEF TypeInv, AccountOK, StripeOK
<1>3. row.subId \in 0..MaxSubs
  BY <1>2 DEF RowType
<1> QED BY <1>1, <1>2, <1>3

LEMMA HeardKept ==
  ASSUME HeardInv, UNCHANGED <<log, acked>>,
         \A k \in 0..Len(log) : Shows(k) => Shows(k)',
         \A q \in Procs : h'[q].pc \in Serving =>
           /\ h[q].pc \in Serving /\ h'[q].event = h[q].event
           /\ h'[q].pc = "failed" => h[q].pc = "failed"
  PROVE  HeardInv'
<1>1. PICK a \in 0..Len(log) : HeardTo(a)
  BY DEF HeardInv
<1>2. a < Len(log) => a + 1 \in 0..Len(log)
  OBVIOUS
<1>3. HeardTo(a)'
  BY <1>1, <1>2 DEF HeardTo, Gives
<1> QED BY <1>3 DEF HeardInv

(* The next event was written and is answered, or its answer is lost.      *)
LEMMA HeardOn ==
  ASSUME NEW a \in 0..Len(log), acked = 1..a, a < Len(log), Len(log) \in Nat, Answer(a + 1),
         log' = log, Shows(a + 1)', \A q \in Procs : h'[q].pc \notin Serving
  PROVE  HeardInv'
<1>1. CASE acked' = acked
  <2>1. HeardTo(a)'
    BY <1>1 DEF HeardTo
  <2> QED BY <2>1 DEF HeardInv
<1>2. CASE acked' = acked \cup {a + 1}
  <2>0. PICK b \in 0..Len(log) : b = a + 1
    OBVIOUS
  <2>1. acked' = 1..b
    BY <1>2, <2>0
  <2>2. HeardTo(b)'
    BY <2>0, <2>1 DEF HeardTo
  <2> QED BY <2>2 DEF HeardInv
<1> QED BY <1>1, <1>2 DEF Answer

LEMMA SnapshotsKept == Snapshots /\ UNCHANGED <<stripe, log>> => Snapshots'
  BY DEF Snapshots, LastOK, EventOK, Gives

(* A step that leaves Stripe alone: what is left to show.                  *)
LEMMA AccountMirrors ==
  ASSUME MirrorInv, OneSubscription, NEW p \in Procs, TypeInv', HeardInv', UNCHANGED <<stripe, log, offers, transfers>>,
         row'.provider = row.provider, Proper(h[p])', h'[p].pc \notin {"wise", "remind", "c_wise", "admin"},
         (row'.subId = row.subId /\ (row'.cancelEnd => row.cancelEnd)) \/ CancelInv'
  PROVE  MirrorInv'
<1>1. \A q \in Procs : q = p
  BY DEF OneSubscription, OneSlot
<1>2. Snapshots'
  BY SnapshotsKept DEF MirrorInv
<1>3. CancelInv'
  BY DEF MirrorInv, CancelInv
<1>4. NoWise' /\ HandlersProper'
  BY <1>1 DEF MirrorInv, NoWise, HandlersProper
<1> QED BY <1>2, <1>3, <1>4 DEF MirrorInv

LEMMA OrderedTypes == ASSUME TypeInv, OrderedNext PROVE TypeInv'
<1>1. ASSUME NEW p \in Procs, Proceeds(p) PROVE TypeInv'
  BY <1>1, WriteAccountKeeps, OpenCheckoutKeeps, MailKeeps, CancelAtStripeKeeps DEF Proceeds
<1>2. ASSUME NEW p \in Procs, Begins(p) PROVE TypeInv'
  BY <1>2, RequestKeeps DEF Begins
<1> QED BY <1>1, <1>2, WebhookKeeps, AtStripeKeeps, TickKeeps DEF OrderedNext

(* The handler of p ends without a webhook to answer.                      *)
LEMMA EndsUnheard ==
  ASSUME MirrorInv, OneSubscription, NEW p \in Procs, Reply(p) \/ Throw(p), h[p].pc \notin Serving, TypeInv',
         UNCHANGED <<stripe, log, offers, transfers>>, row'.provider = row.provider,
         \A k \in 0..Len(log) : Shows(k) => Shows(k)',
         (row'.subId = row.subId /\ (row'.cancelEnd => row.cancelEnd)) \/ CancelInv'
  PROVE  MirrorInv'
<1>1. h[p].event = 0
  BY DEF MirrorInv, HandlersProper, Proper
<1>2. acked' = acked /\ Goto(p, Idle)
  BY <1>1 DEF Reply, Throw, answers
<1>3. \A q \in Procs : h'[q].pc = "idle" /\ h'[q].event = 0
  BY <1>2, OnlyIdle DEF MirrorInv, OneSubscription
<1>4. HeardInv'
  BY <1>2, <1>3, HeardKept DEF MirrorInv, Serving
<1>5. Proper(h[p])' /\ h'[p].pc \notin {"wise", "remind", "c_wise", "admin"}
  BY <1>3 DEF Proper, OpeningPc
<1> QED BY <1>4, <1>5, AccountMirrors

LEMMA SameShows ==
  ASSUME UNCHANGED <<stripe, log>>, row'.subId = row.subId, row'.plan = row.plan,
         row'.status = row.status
  PROVE  \A k \in 0..Len(log) : Shows(k) => Shows(k)'
  BY DEF Shows, Agrees, Gives

(* What was answered up to a: where the subscription stands.               *)
LEMMA Heard ==
  ASSUME MirrorInv, OneSubscription, NEW a \in 0..Len(log), HeardTo(a)
  PROVE  /\ a = 0 \/ a \in DOMAIN log
         /\ a < Len(log) => a + 1 \in DOMAIN log
         /\ log # <<>> => stripe[1].plan \in Plans /\ Free \notin Plans
<1>1. log \in Seq(EventType)
  BY DEF MirrorInv, TypeInv, StripeOK
<1>2. stripe[1].state # "none" \/ log = <<>>
  BY DEF MirrorInv, Snapshots, LastOK
<1> QED BY <1>1, <1>2, BillingAssumption DEF MirrorInv, Snapshots, LastOK

(* A free plan is what the last event left.                                *)
LEMMA FreeShows ==
  ASSUME MirrorInv, OneSubscription, row.plan = Free \/ row.status = "TRIAL", NEW k \in 0..Len(log), Shows(k), k # 0
  PROVE  ~Gives(log[k])
<1>1. log \in Seq(EventType) /\ Len(log) \in Nat
  BY DEF MirrorInv, TypeInv, StripeOK
<1>2. log # <<>>
  BY <1>1
<1>3. stripe[1].plan \in Plans /\ Free \notin Plans
  BY <1>2, BillingAssumption DEF MirrorInv, Snapshots, LastOK
<1> QED BY <1>3 DEF Shows, Agrees

LEMMA TrialMirrors ==
  ASSUME MirrorInv, OneSubscription, NEW p \in Procs, WriteTrial(p) \/ WriteExpired(p), TypeInv'
  PROVE  MirrorInv'
<1>1. row \in RowType /\ Len(log) \in Nat
  BY Alone DEF MirrorInv
<1>2. row.plan = Free \/ row.status = "TRIAL"
  BY DEF WriteTrial, WriteExpired, MirrorInv, HandlersProper, Proper
<1>3. /\ row'.subId = row.subId /\ row'.cancelEnd = row.cancelEnd /\ row'.provider = row.provider
      /\ row'.plan = Free \/ row'.status = "TRIAL"
  BY <1>1 DEF WriteTrial, WriteExpired, RowType
<1>4. UNCHANGED <<stripe, log, offers, transfers>> /\ Reply(p) /\ h[p].pc \notin Serving
  BY DEF WriteTrial, WriteExpired, atStripe, atWise, Serving
<1>5. ASSUME NEW k \in 0..Len(log), Shows(k) PROVE Shows(k)'
  <2>1. CASE k = 0
    BY <1>3, <1>5, <2>1 DEF Shows
  <2>2. CASE k # 0
    <3>1. ~Gives(log[k])
      BY <1>2, <1>5, <2>2, FreeShows
    <3>2. ~Gives(log[k])'
      BY <1>4, <3>1 DEF Gives
    <3> QED BY <1>3, <1>5, <2>2, <3>2 DEF Shows, Agrees
  <2> QED BY <2>1, <2>2
<1> QED BY <1>3, <1>4, <1>5, EndsUnheard

LEMMA PlainMirrors ==
  ASSUME MirrorInv, OneSubscription, NEW p \in Procs, CancelRow(p) \/ Dies(p), TypeInv'
  PROVE  MirrorInv'
<1>1. row \in RowType
  BY Alone DEF MirrorInv
<1>2. CASE CancelRow(p)
  <2>1. /\ row'.subId = row.subId /\ row'.provider = row.provider /\ row'.plan = row.plan
        /\ row'.status = row.status
    BY <1>1, <1>2 DEF CancelRow, RowType
  <2>2. UNCHANGED <<stripe, log, offers, transfers>> /\ Reply(p) /\ h[p].pc \notin Serving
    BY <1>2 DEF CancelRow, atStripe, atWise, Serving
  <2>3. row.subId = 0 \/ stripe[1].cancelEnd
    BY <1>2 DEF CancelRow, MirrorInv, HandlersProper, Proper
  <2>4. CancelInv'
    BY <2>1, <2>2, <2>3 DEF CancelInv
  <2> QED BY <2>1, <2>2, <2>4, SameShows, EndsUnheard
<1>3. CASE Dies(p)
  <2>1. UNCHANGED <<row, stripe, log, offers, transfers>> /\ Goto(p, Idle) /\ UNCHANGED answers
    BY <1>3 DEF Dies, Throw, account, atStripe, atWise
  <2>2. \A q \in Procs : h'[q].pc = "idle" /\ h'[q].event = 0
    BY <2>1, OnlyIdle DEF MirrorInv, OneSubscription
  <2>3. acked' = acked /\ \A k \in 0..Len(log) : Shows(k) => Shows(k)'
    BY <2>1, SameShows DEF answers
  <2>4. HeardInv'
    BY <2>1, <2>2, <2>3, HeardKept DEF MirrorInv, Serving
  <2>5. Proper(h[p])' /\ h'[p].pc \notin {"wise", "remind", "c_wise", "admin"}
    BY <2>2 DEF Proper, OpeningPc
  <2> QED BY <2>1, <2>4, <2>5, AccountMirrors
<1> QED BY <1>2, <1>3

(* A webhook goes on with its second write, or is done.                    *)
LEMMA ServingMirrors ==
  ASSUME MirrorInv, OneSubscription, NEW p \in Procs, WriteUserPlan(p) \/ MailCancelled(p) \/ WriteFailed(p), TypeInv'
  PROVE  MirrorInv'
<1>1. PICK a \in 0..Len(log) : HeardTo(a)
  BY DEF MirrorInv, HeardInv
<1>2. row \in RowType /\ Len(log) \in Nat
  BY Alone DEF MirrorInv
<1>3. h[p].pc \in Serving
  BY DEF WriteUserPlan, MailCancelled, WriteFailed, Serving
<1>4. acked = 1..a /\ a < Len(log) /\ h[p].event = a + 1 /\ Shows(a + 1) /\ (h[p].pc = "failed" => Gives(log[a + 1]))
  BY <1>1, <1>3 DEF HeardTo
<1>5. /\ UNCHANGED <<stripe, log, offers, transfers>>
      /\ row'.subId = row.subId /\ row'.cancelEnd = row.cancelEnd /\ row'.provider = row.provider
  BY <1>2 DEF WriteUserPlan, MailCancelled, WriteFailed, atStripe, atWise, account, RowType
<1>6. Shows(a + 1)'
  <2>1. CASE WriteUserPlan(p) \/ MailCancelled(p)
    <3>1. row' = row
      BY <2>1 DEF WriteUserPlan, MailCancelled, account
    <3> QED BY <1>4, <1>5, <3>1 DEF Shows, Agrees, Gives
  <2>2. CASE WriteFailed(p)
    <3>1. Gives(log[a + 1]) /\ row'.plan = row.plan /\ row'.status = "EXPIRED"
      BY <1>2, <1>4, <2>2 DEF WriteFailed, RowType
    <3>2. Gives(log[a + 1])'
      BY <1>5, <3>1 DEF Gives
    <3>3. a + 1 # 0
      OBVIOUS
    <3> QED BY <1>4, <1>5, <3>1, <3>2, <3>3 DEF Shows, Agrees
  <2> QED BY <2>1, <2>2
<1>7. CASE Reply(p)
  <2>1. Goto(p, Idle) /\ Answer(a + 1)
    <3>1. a + 1 # 0
      OBVIOUS
    <3> QED BY <1>4, <1>7, <3>1 DEF Reply
  <2>2. \A q \in Procs : h'[q].pc = "idle" /\ h'[q].event = 0
    BY <2>1, OnlyIdle DEF MirrorInv, OneSubscription
  <2>3. HeardInv'
    BY <1>2, <1>4, <1>5, <1>6, <2>1, <2>2, HeardOn DEF Serving
  <2>4. Proper(h[p])' /\ h'[p].pc \notin {"wise", "remind", "c_wise", "admin"}
    BY <2>2 DEF Proper, OpeningPc
  <2> QED BY <1>5, <2>3, <2>4, AccountMirrors
<1>8. CASE ~Reply(p)
  <2> DEFINE r == [h[p] EXCEPT !.pc = "mail"]
  <2>1. Goto(p, r) /\ UNCHANGED answers /\ row' = row
    BY <1>8 DEF WriteUserPlan, MailCancelled, WriteFailed
  <2>2. h[p] \in HandlerType
    BY Fields DEF MirrorInv
  <2>3. r.pc = "mail" /\ r.event = h[p].event
    BY <2>2 DEF HandlerType
  <2> HIDE DEF r
  <2>4. \A q \in Procs : h'[q] = r
    BY <2>1, OnlyGoto DEF MirrorInv, OneSubscription
  <2>5. \A q \in Procs : q = p
    BY DEF OneSubscription, OneSlot
  <2>6. \A k \in 0..Len(log) : Shows(k) => Shows(k)'
    BY <1>5, <2>1, SameShows
  <2>7. HeardInv'
    BY <1>3, <1>5, <2>1, <2>3, <2>4, <2>5, <2>6, HeardKept DEF MirrorInv, answers
  <2>8. Proper(h[p])' /\ h'[p].pc \notin {"wise", "remind", "c_wise", "admin"}
    BY <2>3, <2>4 DEF Proper, OpeningPc, Serving
  <2> QED BY <1>5, <2>7, <2>8, AccountMirrors
<1> QED BY <1>7, <1>8

(* Another handler record, nothing else but the customer in the row.       *)
LEMMA GoesOn ==
  ASSUME MirrorInv, OneSubscription, NEW p \in Procs, TypeInv', NEW r, Goto(p, r), acked' = acked,
         UNCHANGED <<stripe, log, offers, transfers>>, row'.subId = row.subId, row'.plan = row.plan,
         row'.status = row.status, row'.provider = row.provider, row'.cancelEnd = row.cancelEnd,
         r.pc \notin Serving \cup {"wise", "remind", "c_wise", "admin"}, r.event = 0,
         r.pc = "trial" => row.plan = Free,
         r.pc = "expire" => row.status = "TRIAL",
         r.pc \in OpeningPc => r.sub = 1 /\ r.plan \in Plans /\ stripe[1].state = "none",
         r.pc = "c_row" => r.sub = 0 /\ row.subId = 0
  PROVE  MirrorInv'
<1>1. \A q \in Procs : h'[q] = r
  BY OnlyGoto DEF MirrorInv, OneSubscription
<1>2. \A k \in 0..Len(log) : Shows(k) => Shows(k)'
  BY SameShows
<1>3. HeardInv'
  BY <1>1, <1>2, HeardKept DEF MirrorInv
<1>4. Proper(h[p])' /\ h'[p].pc \notin {"wise", "remind", "c_wise", "admin"}
  BY <1>1 DEF Proper, OpeningPc, Serving
<1> QED BY <1>3, <1>4, AccountMirrors

LEMMA CheckoutMirrors ==
  ASSUME MirrorInv, OneSubscription, NEW p \in Procs, SaveCustomer(p) \/ OpenCheckout(p), TypeInv'
  PROVE  MirrorInv'
<1>1. row \in RowType /\ h[p] \in HandlerType /\ stripe \in [1..MaxSubs -> CheckoutType] /\ 1..MaxSubs = {1}
  BY Alone, Fields DEF MirrorInv, TypeInv, StripeOK
<1>2. h[p].sub = 1 /\ h[p].plan \in Plans /\ stripe[1].state = "none" /\ h[p].event = 0 /\ h[p].pc \in OpeningPc
  BY DEF SaveCustomer, OpenCheckout, MirrorInv, HandlersProper, Proper, OpeningPc, Serving
<1>3. CASE SaveCustomer(p)
  <2> DEFINE r == [h[p] EXCEPT !.pc = "co_open"]
  <2>1. Goto(p, r) /\ acked' = acked /\ UNCHANGED <<stripe, log, offers, transfers>>
    BY <1>3 DEF SaveCustomer, atStripe, atWise, answers
  <2>2. /\ row'.subId = row.subId /\ row'.plan = row.plan /\ row'.status = row.status
        /\ row'.provider = row.provider /\ row'.cancelEnd = row.cancelEnd
    BY <1>1, <1>3 DEF SaveCustomer, WithCustomer, RowType
  <2>3. r.pc = "co_open" /\ r.event = 0 /\ r.sub = 1 /\ r.plan \in Plans
    BY <1>1, <1>2 DEF HandlerType
  <2> HIDE DEF r
  <2> QED BY <1>2, <2>1, <2>2, <2>3, GoesOn DEF Serving
<1>4. CASE OpenCheckout(p)
  <2>1. log = <<>>
    BY <1>2 DEF MirrorInv, Snapshots, LastOK
  <2>2. PICK a \in 0..Len(log) : HeardTo(a)
    BY DEF MirrorInv, HeardInv
  <2>3. a = 0 /\ Len(log) = 0 /\ acked = 1..0 /\ row.subId = 0
    BY <2>1, <2>2 DEF HeardTo, Shows
  <2>4. UNCHANGED <<row, log, offers, transfers>> /\ Reply(p)
    BY <1>4 DEF OpenCheckout, account, atWise
  <2>5. \A q \in Procs : h'[q].pc = "idle" /\ h'[q].event = 0
    BY <2>4, OnlyIdle DEF MirrorInv, OneSubscription, Reply
  <2>6. acked' = acked
    BY <1>2, <2>4 DEF Reply, answers
  <2>7. HeardTo(0)'
    BY <2>3, <2>4, <2>5, <2>6 DEF HeardTo, Shows, Serving
  <2>8. HeardInv' /\ CancelInv'
    BY <2>3, <2>4, <2>7 DEF HeardInv, CancelInv
  <2>9. stripe'[1].state = "open" /\ stripe'[1].plan \in Plans
    BY <1>1, <1>2, <1>4 DEF OpenCheckout, NoCheckout
  <2>10. Snapshots'
    BY <2>1, <2>4, <2>9 DEF Snapshots, LastOK
  <2>11. NoWise' /\ HandlersProper'
    BY <2>4, <2>5 DEF MirrorInv, NoWise, HandlersProper, Proper, OpeningPc
  <2> QED BY <2>8, <2>10, <2>11 DEF MirrorInv
<1> QED BY <1>3, <1>4

LEMMA BeginMirrors ==
  ASSUME MirrorInv, OneSubscription, NEW p \in Procs, Begins(p), TypeInv'
  PROVE  MirrorInv'
<1>1. row \in RowType /\ 1..MaxSubs = {1} /\ row.provider = "STRIPE"
  BY Alone DEF MirrorInv, NoWise
<1>2. UNCHANGED <<row, stripe, log, offers, transfers, acked>>
  BY DEF Begins, StartTrial, ExpireTrials, Cancel, Checkout, account, atStripe, atWise, answers
<1>3. CASE StartTrial(p)
  <2> DEFINE r == [Idle EXCEPT !.pc = "trial", !.end = clock + TrialDays]
  <2>1. r.pc = "trial" /\ r.event = 0 /\ Goto(p, r) /\ row.plan = Free
    BY <1>3, IdleOK DEF StartTrial, TrialAllowed, HandlerType
  <2> HIDE DEF r
  <2> QED BY <1>2, <2>1, GoesOn DEF Serving, OpeningPc
<1>4. CASE ExpireTrials(p)
  <2> DEFINE r == [Idle EXCEPT !.pc = "expire"]
  <2>1. r.pc = "expire" /\ r.event = 0 /\ Goto(p, r) /\ row.status = "TRIAL"
    BY <1>4, IdleOK DEF ExpireTrials, TrialOver, HandlerType
  <2> HIDE DEF r
  <2> QED BY <1>2, <2>1, GoesOn DEF Serving, OpeningPc
<1>5. CASE Cancel(p)
  <2> DEFINE r == [Idle EXCEPT !.sub = row.subId, !.pc = CancelRoute]
  <2>1. r.pc = CancelRoute /\ r.event = 0 /\ r.sub = row.subId /\ Goto(p, r)
    BY <1>5, IdleOK DEF Cancel, HandlerType
  <2> HIDE DEF r
  <2>2. CancelRoute = "c_stripe" \/ (CancelRoute = "c_row" /\ row.subId = 0)
    BY <1>1 DEF CancelRoute
  <2> QED BY <1>2, <2>1, <2>2, GoesOn DEF Serving, OpeningPc
<1>6. ASSUME NEW plan \in Plans, NEW len \in Intervals, Checkout(p, plan, len) PROVE MirrorInv'
  <2> DEFINE pc == IF row.customer = 0 THEN "co_save" ELSE "co_open"
             customer == IF row.customer = 0 THEN 1 ELSE row.customer
             r == [Idle EXCEPT !.pc = pc, !.plan = plan, !.len = len, !.sub = 1, !.customer = customer]
  <2>1. Goto(p, r) /\ stripe[1].state = "none"
    BY <1>1, <1>6 DEF Checkout
  <2>2. pc \in OpeningPc
    BY DEF OpeningPc
  <2> HIDE DEF pc, customer
  <2>3. r.pc = pc /\ r.event = 0 /\ r.sub = 1 /\ r.plan = plan
    BY IdleOK DEF HandlerType
  <2> HIDE DEF r
  <2> QED BY <1>2, <2>1, <2>2, <2>3, GoesOn DEF Serving, OpeningPc
<1> QED BY <1>3, <1>4, <1>5, <1>6 DEF Begins

LEMMA WebhookMirrors ==
  ASSUME MirrorInv, OneSubscription, NEW p \in Procs, NEW i \in DOMAIN log, Webhook(p, i), Following(i), TypeInv'
  PROVE  MirrorInv'
<1>1. PICK a \in 0..Len(log) : HeardTo(a)
  BY DEF MirrorInv, HeardInv
<1>2. /\ row \in RowType /\ Len(log) \in Nat /\ 1..MaxSubs = {1} /\ DOMAIN log = 1..Len(log)
      /\ stripe[1] \in CheckoutType
  BY Alone DEF MirrorInv
<1>3. i \in 1..Len(log) /\ i \notin 1..a /\ acked = 1..a /\ \A j \in 1..(i - 1) : j \in 1..a
  BY <1>1, <1>2 DEF HeardTo, Webhook, CheckoutCompleted, SubscriptionUpdated, SubscriptionDeleted, PaymentFailed,
     Deliverable, Following
<1>4. i = a + 1 /\ a < Len(log)
  <2>1. CASE i > a + 1
    <3>1. a + 1 \in 1..(i - 1)
      BY <1>3, <2>1
    <3> QED BY <1>3, <3>1
  <2> QED BY <1>3, <2>1
<1>5. Shows(a) \/ Shows(a + 1)
  BY <1>1 DEF HeardTo
<1>6. EventOK(i) /\ log[i].sub = 1 /\ log[i].active \in BOOLEAN
  <2>1. EventOK(i)
    BY DEF MirrorInv, Snapshots
  <2>2. log[i].sub \in 1..MaxSubs /\ log[i].active \in BOOLEAN
    BY Logged DEF MirrorInv
  <2> QED BY <1>2, <2>1, <2>2
<1>7. UNCHANGED <<stripe, log, offers, transfers>> /\ \A q \in Procs : q = p
  BY DEF Webhook, CheckoutCompleted, SubscriptionUpdated, SubscriptionDeleted, PaymentFailed, atStripe,
     atWise, OneSubscription, OneSlot
<1>8. Ready(p) /\ h[p].event = 0
  BY DEF Webhook, CheckoutCompleted, SubscriptionUpdated, SubscriptionDeleted, PaymentFailed, Ready, MirrorInv,
     HandlersProper, Proper, Serving
<1>9. ASSUME Shows(a + 1)', UNCHANGED h, Answer(i), row'.provider = row.provider, CancelInv' PROVE MirrorInv'
  <2>1. HeardInv'
    BY <1>2, <1>3, <1>4, <1>7, <1>8, <1>9, HeardOn DEF Ready, Serving
  <2>2. Proper(h[p])' /\ h'[p].pc \notin {"wise", "remind", "c_wise", "admin"}
    BY <1>8, <1>9 DEF Ready, Proper, OpeningPc, Serving
  <2> QED BY <1>7, <1>9, <2>1, <2>2, AccountMirrors
<1>10. ASSUME Shows(a + 1)', acked' = acked, h'[p].pc \in {"user", "failed"}, h'[p].event = i,
              h'[p].pc = "failed" => Gives(log[a + 1]), row'.provider = row.provider, CancelInv'
       PROVE  MirrorInv'
  <2>1. Gives(log[a + 1])' <=> Gives(log[a + 1])
    BY <1>7 DEF Gives
  <2>2. HeardTo(a)'
    BY <1>3, <1>4, <1>7, <1>10, <2>1 DEF HeardTo
  <2>3. HeardInv'
    BY <1>7, <2>2 DEF HeardInv
  <2>4. Proper(h[p])' /\ h'[p].pc \notin {"wise", "remind", "c_wise", "admin"}
    BY <1>10 DEF Proper, OpeningPc, Serving
  <2> QED BY <1>7, <1>10, <2>3, <2>4, AccountMirrors
<1>11. a + 1 # 0 /\ log[a + 1] = log[i] /\ log'[a + 1] = log[i] /\ stripe' = stripe
  BY <1>4, <1>7
<1>12. CASE CheckoutCompleted(p, i)
  <2>1. /\ row'.plan = log[i].plan /\ row'.status = "ACTIVE" /\ row'.subId = 1 /\ row'.cancelEnd = FALSE
        /\ row'.provider = row.provider /\ log[i].type = "completed" /\ UNCHANGED h /\ Answer(i)
    BY <1>2, <1>6, <1>12 DEF CheckoutCompleted, Activated, RowType
  <2>2. Shows(a + 1)'
    BY <1>6, <1>11, <2>1 DEF Shows, Agrees, Gives, EventOK
  <2> QED BY <1>9, <2>1, <2>2 DEF CancelInv
<1>13. CASE SubscriptionUpdated(p, i)
  <2>1. /\ row'.plan = IF log[i].active THEN log[i].plan ELSE Free
        /\ row'.status = IF log[i].active THEN "ACTIVE" ELSE "CANCELLED"
        /\ row'.subId = 1 /\ row'.cancelEnd = log[i].cancelEnd
        /\ row'.provider = row.provider /\ log[i].type = "updated" /\ UNCHANGED answers
    BY <1>2, <1>6, <1>13 DEF SubscriptionUpdated, RowType
  <2>2. Shows(a + 1)'
    BY <1>6, <1>11, <2>1 DEF Shows, Agrees, Gives, EventOK
  <2>3. CancelInv'
    BY <1>6, <1>11, <2>1 DEF CancelInv, EventOK
  <2>4. h'[p].pc = "user" /\ h'[p].event = i
    BY <1>13, WebhookBegun DEF MirrorInv
  <2> QED BY <1>10, <2>1, <2>2, <2>3, <2>4 DEF answers
<1>14. CASE SubscriptionDeleted(p, i)
  <2>1. /\ row'.plan = Free /\ row'.status = "CANCELLED" /\ row'.subId = row.subId
        /\ row'.cancelEnd = row.cancelEnd
        /\ row'.provider = row.provider /\ log[i].type = "deleted" /\ UNCHANGED answers
    BY <1>2, <1>14 DEF SubscriptionDeleted, Ended, RowType
  <2>2. row.subId = 1
    BY <1>4, <1>5, <1>6, <1>11, <2>1 DEF Shows, EventOK
  <2>3. Shows(a + 1)'
    BY <1>11, <2>1, <2>2 DEF Shows, Agrees, Gives
  <2>4. CancelInv'
    BY <1>11, <2>1 DEF CancelInv, MirrorInv
  <2>5. h'[p].pc = "user" /\ h'[p].event = i
    BY <1>14, WebhookBegun DEF MirrorInv
  <2> QED BY <1>10, <2>1, <2>3, <2>4, <2>5 DEF answers
<1>15. CASE PaymentFailed(p, i)
  <2>1. log[i].type = "failed" /\ row' = row
    BY <1>15 DEF PaymentFailed, account
  <2>2. Gives(log[i]) /\ a # 0 /\ Gives(log[a])
    BY <1>4, <1>6, <2>1 DEF EventOK, Gives
  <2>3. Shows(a + 1)'
    BY <1>5, <1>11, <2>1, <2>2 DEF Shows, Agrees, Gives
  <2>4. CancelInv'
    BY <1>11, <2>1 DEF CancelInv, MirrorInv
  <2>5. CASE row.customer = log[i].customer
    <3>1. UNCHANGED answers
      BY <1>15, <2>5 DEF PaymentFailed
    <3>2. h'[p].pc = "failed" /\ h'[p].event = i
      BY <1>15, <2>5, WebhookBegun DEF MirrorInv
    <3> QED BY <1>10, <1>11, <2>1, <2>2, <2>3, <2>4, <3>1, <3>2 DEF answers
  <2>6. CASE row.customer # log[i].customer
    <3>1. Answer(i) /\ UNCHANGED h
      BY <1>15, <2>6 DEF PaymentFailed
    <3> QED BY <1>9, <2>1, <2>3, <2>4, <3>1
  <2> QED BY <2>5, <2>6
<1> QED BY <1>12, <1>13, <1>14, <1>15 DEF Webhook

(* Stripe takes the subscription to s and sends events of these types.     *)
Tells(s, types) ==
  /\ Becomes(1, s, types) /\ acked' = acked
  /\ s.plan = stripe[1].plan /\ (stripe[1].cancelEnd => s.cancelEnd)
  /\ stripe[1].state # "none" /\ s.state \in Lived

LEMMA Told ==
  ASSUME MirrorInv, OneSubscription, NEW s \in CheckoutType, NEW types \in Seq(Types), Tells(s, types)
  PROVE  /\ stripe'[1] = s /\ LogExtends /\ log' \in Seq(EventType)
         /\ Len(log') = Len(log) + Len(types) /\ Len(log) \in Nat /\ Len(types) \in Nat
         /\ \A k \in 1..Len(types) : log'[Len(log) + k] = Event(types[k], 1, s)
         /\ UNCHANGED <<row, offers, transfers>>
<1> DEFINE new == [k \in DOMAIN types |-> Event(types[k], 1, s)]
<1>1. log \in Seq(EventType) /\ stripe \in [1..MaxSubs -> CheckoutType] /\ 1 \in 1..MaxSubs /\ TypeInv
  BY Alone DEF MirrorInv, TypeInv, StripeOK
<1>2. \A k \in DOMAIN types : Event(types[k], 1, s) \in EventType
  BY <1>1 DEF Event, EventType, CheckoutType, Types
<1>3. new \in Seq(EventType) /\ DOMAIN types = 1..Len(types) /\ Len(types) \in Nat /\ Len(new) = Len(types)
  BY <1>2
<1>4. log' = log \o new /\ stripe' = [stripe EXCEPT ![1] = s] /\ UNCHANGED <<row, offers, transfers>>
  BY DEF Tells, Becomes, account, atWise
<1>5. \A k \in 1..Len(types) : new[k] = Event(types[k], 1, s)
  BY <1>3
<1>6. LogExtends
  BY <1>1, BecomesExtends DEF Tells
<1> HIDE DEF new
<1>7. log' \in Seq(EventType) /\ Len(log') = Len(log) + Len(types) /\ Len(log) \in Nat
  <2>1. PICK l \in Seq(EventType), n \in Seq(EventType) : l = log /\ n = new
    BY <1>1, <1>3
  <2>2. l \o n \in Seq(EventType) /\ Len(l \o n) = Len(l) + Len(n) /\ Len(l) \in Nat
    OBVIOUS
  <2> QED BY <1>3, <1>4, <2>1, <2>2
<1>8. \A k \in 1..Len(new) : log'[Len(log) + k] = new[k]
  BY <1>1, <1>3, <1>4
<1> QED BY <1>1, <1>3, <1>4, <1>5, <1>6, <1>7, <1>8

(* The row is as it was, and what was said before is still so.             *)
LEMMA ToldKeeps ==
  ASSUME MirrorInv, OneSubscription, NEW s \in CheckoutType, NEW types \in Seq(Types), Tells(s, types),
         \A q \in Procs : h'[q].pc \in Serving => h'[q] = h[q]
  PROVE  HeardInv' /\ CancelInv' /\ \A i \in DOMAIN log : EventOK(i)'
<1>1. PICK a \in 0..Len(log) : HeardTo(a)
  BY DEF MirrorInv, HeardInv
<1>2. /\ stripe'[1] = s /\ LogExtends /\ Len(log') = Len(log) + Len(types) /\ Len(log) \in Nat
      /\ Len(types) \in Nat /\ row' = row /\ log \in Seq(EventType)
  BY Told DEF MirrorInv, TypeInv, StripeOK
<1>3. /\ s.plan = stripe[1].plan /\ acked' = acked /\ (stripe[1].cancelEnd => s.cancelEnd)
      /\ DOMAIN log = 1..Len(log)
  BY <1>2 DEF Tells
<1>4. \A k \in 1..Len(log) : log'[k] = log[k]
  BY <1>2, <1>3 DEF LogExtends
<1>5. \A k \in 0..Len(log) : Shows(k) => Shows(k)'
  BY <1>2, <1>3, <1>4 DEF Shows, Agrees, Gives
<1>6. a < Len(log) => a + 1 \in 0..Len(log) /\ log'[a + 1] = log[a + 1]
  BY <1>2, <1>4
<1>7. HeardTo(a)'
  BY <1>1, <1>2, <1>3, <1>5, <1>6 DEF HeardTo, Gives
<1>8. HeardInv'
  BY <1>2, <1>7 DEF HeardInv
<1>9. CancelInv'
  BY <1>2, <1>3 DEF CancelInv, MirrorInv
<1>10. ASSUME NEW i \in DOMAIN log PROVE EventOK(i)'
  <2>1. EventOK(i) /\ log'[i] = log[i] /\ i \in 1..Len(log)
    BY <1>3, <1>4 DEF MirrorInv, Snapshots
  <2>2. log[i].type = "failed" => i \in 2..(Len(log') - 1) /\ Gives(log'[i - 1])
    <3>1. ASSUME log[i].type = "failed" PROVE i \in 2..(Len(log') - 1) /\ Gives(log'[i - 1])
      <4>1. i \in 2..(Len(log) - 1) /\ Gives(log[i - 1])
        BY <2>1, <3>1 DEF EventOK
      <4>2. i - 1 \in 1..Len(log)
        BY <1>2, <4>1
      <4> QED BY <1>2, <1>4, <4>1, <4>2
    <3> QED BY <3>1
  <2> QED BY <1>2, <1>3, <2>1, <2>2 DEF EventOK, Gives
<1> QED BY <1>8, <1>9, <1>10

(* One event: it is not a failed payment, and says what is true now.       *)
LEMMA OneEvent ==
  ASSUME MirrorInv, OneSubscription, NEW s \in CheckoutType,
         NEW type \in {"completed", "updated", "deleted"}, Tells(s, <<type>>), TypeInv', NoWise', HandlersProper',
         \A q \in Procs : h'[q].pc \in Serving => h'[q] = h[q],
         type = "completed" => s.state = "active",
         type = "deleted" => s.state = "ended" /\ log # <<>>,
         type = "updated" => s.state # "ended"
  PROVE  MirrorInv'
<1> DEFINE types == <<type>>
<1>1. types \in Seq(Types) /\ Len(types) = 1 /\ types[1] = type
  BY DEF Types
<1>2. Tells(s, types)
  OBVIOUS
<1> HIDE DEF types
<1>3. /\ stripe'[1] = s /\ log' \in Seq(EventType)
      /\ Len(log') = Len(log) + 1 /\ Len(log) \in Nat
      /\ log'[Len(log) + 1] = Event(type, 1, s) /\ log \in Seq(EventType)
  <2>1. 1 \in 1..Len(types)
    BY <1>1
  <2> QED BY <1>1, <1>2, <2>1, Told DEF MirrorInv, TypeInv, StripeOK
<1>4. HeardInv' /\ CancelInv' /\ \A i \in DOMAIN log : EventOK(i)'
  BY <1>1, <1>2, ToldKeeps
<1>5. /\ s.plan = stripe[1].plan /\ s.state \in Lived /\ stripe[1].state # "none"
      /\ stripe[1].plan \in Plans
  BY DEF Tells, MirrorInv, Snapshots, LastOK
<1>6. PICK e : e = log'[Len(log')] /\ e = Event(type, 1, s)
  BY <1>3
<1>7. e.type = type /\ e.plan = s.plan /\ e.cancelEnd = s.cancelEnd /\ e.active = (s.state = "active")
  BY <1>6 DEF Event
<1>n. PICK n \in Nat : n = Len(log) + 1
  BY <1>3
<1>8. EventOK(n)'
  <2>1. type = "deleted" => n > 1
    BY <1>3, <1>n
  <2>2. log'[n] = e
    BY <1>3, <1>6, <1>n
  <2> QED BY <1>3, <1>5, <1>7, <2>1, <2>2 DEF EventOK
<1>9. \A i \in DOMAIN log' : EventOK(i)'
  <2>1. DOMAIN log' = 1..(Len(log) + 1) /\ DOMAIN log = 1..Len(log)
    BY <1>3
  <2>2. \A i \in DOMAIN log' : i \in DOMAIN log \/ i = n
    BY <1>3, <1>n, <2>1
  <2> QED BY <1>4, <1>8, <2>2
<1>10. LastOK'
  <2>1. log' # <<>> /\ Gives(e)' = Gives(e)
    BY <1>3 DEF Gives
  <2>2. s.state = "active" => Gives(e)
    BY <1>7 DEF Gives, Lived
  <2>3. s.state = "ended" => ~Gives(e)
    BY <1>7 DEF Gives, Lived
  <2> QED BY <1>3, <1>5, <1>6, <2>1, <2>2, <2>3 DEF LastOK, Lived, Gives
<1> QED BY <1>4, <1>9, <1>10 DEF MirrorInv, Snapshots

(* The invoice of the next period is not paid: two events at once.         *)
LEMMA DunMirrors ==
  ASSUME MirrorInv, OneSubscription, NEW s \in CheckoutType, Tells(s, <<"failed", "updated">>),
         TypeInv', NoWise', HandlersProper', UNCHANGED h, stripe[1].state = "active", s.state = "past_due"
  PROVE  MirrorInv'
<1> DEFINE types == <<"failed", "updated">>
<1>1. types \in Seq(Types) /\ Len(types) = 2 /\ types[1] = "failed" /\ types[2] = "updated"
  BY DEF Types
<1>2. Tells(s, types)
  OBVIOUS
<1> HIDE DEF types
<1>3. /\ stripe'[1] = s /\ log' \in Seq(EventType) /\ LogExtends
      /\ Len(log') = Len(log) + 2 /\ Len(log) \in Nat
      /\ log'[Len(log) + 1] = Event("failed", 1, s) /\ log'[Len(log) + 2] = Event("updated", 1, s)
      /\ log \in Seq(EventType)
  <2>1. 1 \in 1..Len(types) /\ 2 \in 1..Len(types)
    BY <1>1
  <2> QED BY <1>1, <1>2, <2>1, Told DEF MirrorInv, TypeInv, StripeOK
<1>4. HeardInv' /\ CancelInv' /\ \A i \in DOMAIN log : EventOK(i)'
  BY <1>1, <1>2, ToldKeeps
<1>5. /\ s.plan = stripe[1].plan /\ stripe[1].plan \in Plans
      /\ log # <<>> /\ Gives(log[Len(log)])
  BY DEF Tells, MirrorInv, Snapshots, LastOK
<1>6. PICK l \in Nat, m \in Nat, n \in Nat : l = Len(log) /\ m = l + 1 /\ n = l + 2 /\ l > 0
  BY <1>3, <1>5
<1>7. /\ log'[m].type = "failed" /\ log'[m].plan = s.plan /\ log'[m].cancelEnd = s.cancelEnd
      /\ log'[n].type = "updated" /\ log'[n].plan = s.plan /\ log'[n].cancelEnd = s.cancelEnd
  <2>1. log'[m] = Event("failed", 1, s) /\ log'[n] = Event("updated", 1, s)
    BY <1>3, <1>6
  <2> QED BY <2>1 DEF Event
<1>8. EventOK(m)'
  <2>1. l \in DOMAIN log /\ log'[l] = log[l] /\ m - 1 = l /\ m \in 2..(Len(log') - 1)
    BY <1>3, <1>6 DEF LogExtends
  <2>2. Gives(log'[m - 1])
    BY <1>5, <1>6, <2>1
  <2> QED BY <1>3, <1>5, <1>7, <2>1, <2>2 DEF EventOK, Gives
<1>9. EventOK(n)'
  BY <1>3, <1>5, <1>7 DEF EventOK
<1>10. \A i \in DOMAIN log' : EventOK(i)'
  <2>1. DOMAIN log' = 1..(l + 2) /\ DOMAIN log = 1..l
    BY <1>3, <1>6
  <2>2. \A i \in DOMAIN log' : i \in DOMAIN log \/ i = m \/ i = n
    BY <1>6, <2>1
  <2> QED BY <1>4, <1>8, <1>9, <2>2
<1>11. LastOK'
  <2>1. log' # <<>>
    BY <1>3
  <2> QED BY <1>3, <1>5, <2>1 DEF LastOK
<1> QED BY <1>4, <1>10, <1>11 DEF MirrorInv, Snapshots

LEMMA MovesMirrors ==
  ASSUME MirrorInv, OneSubscription, NEW n \in 1..MaxSubs, Moves(n), TypeInv'
  PROVE  MirrorInv'
<1>1. n = 1 /\ stripe[1] \in CheckoutType /\ clock \in Nat
  BY Alone DEF MirrorInv, TypeInv, WorldOK
<1>2. /\ stripe[1].state \in {"open", "active", "past_due"}
      /\ UNCHANGED <<h, row, offers, transfers>> /\ acked' = acked
  BY <1>1 DEF Moves, Subscribe, Renew, Dun, Recover, EndSubscription, Due, Becomes, account, atWise, answers
<1>3. /\ stripe[1].len \in Nat /\ stripe[1].end \in Nat
      /\ stripe[1].end + stripe[1].len \in Nat /\ clock + stripe[1].len \in Nat
  <2>1. stripe[1].len \in Intervals \cup {0} /\ stripe[1].end \in Nat
    BY <1>1 DEF CheckoutType
  <2>2. stripe[1].len \in Nat
    BY <2>1, LenNat
  <2> QED BY <1>1, <2>1, <2>2
<1>4. NoWise'
  BY <1>2 DEF MirrorInv, NoWise
<1>5. ASSUME NEW s \in CheckoutType, NEW types, Tells(s, types), stripe'[1] = s PROVE HandlersProper'
  BY <1>2, <1>5 DEF MirrorInv, HandlersProper, Proper, Tells, Lived
<1>6. \A s, types : Becomes(1, s, types) => stripe'[1] = s
  BY Alone DEF Becomes, MirrorInv, TypeInv, StripeOK
<1>7. CASE Subscribe(n)
  <2> DEFINE s == [stripe[1] EXCEPT !.state = "active", !.end = clock + stripe[1].len]
  <2>1. s \in CheckoutType /\ s.state = "active" /\ s.plan = stripe[1].plan /\ s.cancelEnd = stripe[1].cancelEnd
    BY <1>1, <1>3 DEF CheckoutType
  <2>2. Becomes(1, s, <<"completed">>)
    BY <1>1, <1>7 DEF Subscribe
  <2> HIDE DEF s
  <2>3. Tells(s, <<"completed">>)
    BY <1>2, <2>1, <2>2 DEF Tells, Lived
  <2>4. HandlersProper'
    BY <1>5, <1>6, <2>1, <2>2, <2>3
  <2> QED BY <1>2, <1>4, <2>1, <2>3, <2>4, OneEvent
<1>8. CASE Renew(n)
  <2> DEFINE s == [stripe[1] EXCEPT !.end = @ + stripe[1].len]
  <2>1. s \in CheckoutType /\ s.state = "active" /\ s.plan = stripe[1].plan /\ s.cancelEnd = stripe[1].cancelEnd
    BY <1>1, <1>3, <1>8 DEF CheckoutType, Renew, Due
  <2>2. Becomes(1, s, <<"updated">>)
    BY <1>1, <1>8 DEF Renew
  <2> HIDE DEF s
  <2>3. Tells(s, <<"updated">>)
    BY <1>2, <2>1, <2>2 DEF Tells, Lived
  <2>4. HandlersProper'
    BY <1>5, <1>6, <2>1, <2>2, <2>3
  <2> QED BY <1>2, <1>4, <2>1, <2>3, <2>4, OneEvent
<1>9. CASE Dun(n)
  <2> DEFINE s == [stripe[1] EXCEPT !.state = "past_due", !.end = @ + stripe[1].len]
  <2>1. s \in CheckoutType /\ s.state = "past_due" /\ s.plan = stripe[1].plan /\ s.cancelEnd = stripe[1].cancelEnd
    BY <1>1, <1>3 DEF CheckoutType
  <2>2. Becomes(1, s, <<"failed", "updated">>) /\ stripe[1].state = "active"
    BY <1>1, <1>9 DEF Dun, Due
  <2> HIDE DEF s
  <2>3. Tells(s, <<"failed", "updated">>)
    BY <1>2, <2>1, <2>2 DEF Tells, Lived
  <2>4. HandlersProper'
    BY <1>5, <1>6, <2>1, <2>2, <2>3
  <2> QED BY <1>2, <1>4, <2>1, <2>2, <2>3, <2>4, DunMirrors
<1>10. CASE Recover(n)
  <2> DEFINE s == [stripe[1] EXCEPT !.state = "active"]
  <2>1. s \in CheckoutType /\ s.state = "active" /\ s.plan = stripe[1].plan /\ s.cancelEnd = stripe[1].cancelEnd
    BY <1>1 DEF CheckoutType
  <2>2. Becomes(1, s, <<"updated">>)
    BY <1>1, <1>10 DEF Recover
  <2> HIDE DEF s
  <2>3. Tells(s, <<"updated">>)
    BY <1>2, <2>1, <2>2 DEF Tells, Lived
  <2>4. HandlersProper'
    BY <1>5, <1>6, <2>1, <2>2, <2>3
  <2> QED BY <1>2, <1>4, <2>1, <2>3, <2>4, OneEvent
<1>11. CASE EndSubscription(n)
  <2> DEFINE s == [stripe[1] EXCEPT !.state = "ended"]
  <2>1. s \in CheckoutType /\ s.state = "ended" /\ s.plan = stripe[1].plan /\ s.cancelEnd = stripe[1].cancelEnd
    BY <1>1 DEF CheckoutType
  <2>2. Becomes(1, s, <<"deleted">>) /\ stripe[1].state \in {"active", "past_due"}
    BY <1>1, <1>11 DEF EndSubscription, Due
  <2> HIDE DEF s
  <2>3. Tells(s, <<"deleted">>)
    BY <1>2, <2>1, <2>2 DEF Tells, Lived
  <2>4. HandlersProper'
    BY <1>5, <1>6, <2>1, <2>2, <2>3
  <2>5. log # <<>>
    BY <2>2 DEF MirrorInv, Snapshots, LastOK
  <2> QED BY <1>2, <1>4, <2>1, <2>3, <2>4, <2>5, OneEvent
<1> QED BY <1>7, <1>8, <1>9, <1>10, <1>11 DEF Moves

LEMMA CancelAtStripeMirrors ==
  ASSUME MirrorInv, OneSubscription, NEW p \in Procs, CancelAtStripe(p), TypeInv'
  PROVE  MirrorInv'
<1>1. h[p].sub = 1 /\ h[p].event = 0 /\ h[p] \in HandlerType /\ h[p].pc = "c_stripe"
  <2>1. h[p].sub \in 0..1 /\ h[p].sub # 0 /\ h[p] \in HandlerType
    BY Fields DEF MirrorInv, OneSubscription, CancelAtStripe
  <2>2. h[p].event = 0
    BY DEF CancelAtStripe, MirrorInv, HandlersProper, Proper, Serving
  <2> QED BY <2>1, <2>2 DEF CancelAtStripe
<1>2. stripe[1] \in CheckoutType
  BY Alone DEF MirrorInv
<1>3. CASE Throw(p) /\ UNCHANGED <<account, atStripe, atWise>>
  <2>1. UNCHANGED <<row, stripe, log, offers, transfers>>
    BY <1>3 DEF account, atStripe, atWise
  <2>2. \A k \in 0..Len(log) : Shows(k) => Shows(k)'
    BY <2>1, SameShows
  <2> QED BY <1>1, <1>3, <2>1, <2>2, EndsUnheard DEF Serving
<1>4. CASE ~(Throw(p) /\ UNCHANGED <<account, atStripe, atWise>>)
  <2> DEFINE s == [stripe[1] EXCEPT !.cancelEnd = TRUE]
             types == IF stripe[1].cancelEnd THEN <<>> ELSE <<"updated">>
             r == [h[p] EXCEPT !.pc = "c_row"]
  <2>1. /\ Becomes(1, s, types) /\ Goto(p, r) /\ UNCHANGED answers
        /\ stripe[1].state \in {"active", "past_due"}
    BY <1>1, <1>4 DEF CancelAtStripe
  <2>2. /\ s \in CheckoutType /\ s.state = stripe[1].state /\ s.plan = stripe[1].plan /\ s.cancelEnd
        /\ (stripe[1].cancelEnd => s = stripe[1])
    BY <1>2 DEF CheckoutType
  <2>3. r.pc = "c_row" /\ r.event = 0 /\ r.sub = 1
    BY <1>1 DEF HandlerType
  <2> HIDE DEF s, r
  <2>4. \A q \in Procs : h'[q] = r
    BY <2>1, OnlyGoto DEF MirrorInv, OneSubscription
  <2>5. stripe'[1] = s /\ UNCHANGED <<row, offers, transfers>> /\ acked' = acked
    BY <2>1, Alone DEF Becomes, account, atWise, answers, MirrorInv, TypeInv, StripeOK
  <2>6. NoWise' /\ HandlersProper'
    BY <2>2, <2>3, <2>4, <2>5 DEF MirrorInv, NoWise, HandlersProper, Proper, OpeningPc, Serving
  <2>7. Tells(s, types)
    BY <2>1, <2>2, <2>5 DEF Tells, Lived
  <2>8. CASE stripe[1].cancelEnd
    <3>0. types = <<>>
      BY <2>8
    <3> HIDE DEF types
    <3>1. log' = log /\ stripe'[1] = stripe[1]
      <4>1. /\ <<>> \in Seq(Types) /\ Len(<<>>) = 0 /\ log \in Seq(EventType) /\ Tells(s, <<>>)
        BY <2>7, <3>0 DEF MirrorInv, TypeInv, StripeOK
      <4>2. LogExtends /\ log' \in Seq(EventType) /\ Len(log') = Len(log) + 0 /\ Len(log) \in Nat
        BY <2>2, <4>1, Told
      <4>3. log' = log
        BY <4>1, <4>2 DEF LogExtends
      <4> QED BY <2>2, <2>5, <2>8, <4>3
    <3>2. \A k \in 0..Len(log) : Shows(k) => Shows(k)'
      BY <2>5, <3>1 DEF Shows, Agrees, Gives
    <3>3. HeardInv'
      BY <2>3, <2>4, <2>5, <3>1, <3>2, HeardKept DEF MirrorInv, Serving
    <3>4. Snapshots' /\ CancelInv'
      BY <2>5, <3>1 DEF MirrorInv, Snapshots, LastOK, EventOK, Gives, CancelInv
    <3> QED BY <2>6, <3>3, <3>4 DEF MirrorInv
  <2>9. CASE ~stripe[1].cancelEnd
    <3>1. Tells(s, <<"updated">>)
      BY <2>7, <2>9
    <3>2. \A q \in Procs : h'[q].pc \notin Serving
      BY <2>3, <2>4 DEF Serving
    <3> QED BY <2>1, <2>2, <2>6, <3>1, <3>2, OneEvent
  <2> QED BY <2>8, <2>9
<1> QED BY <1>3, <1>4

LEMMA StillMirrors ==
  ASSUME MirrorInv, TypeInv', UNCHANGED <<row, h, stripe, log, acked, offers, transfers>>
  PROVE  MirrorInv'
<1>1. NoWise' /\ HandlersProper' /\ CancelInv' /\ Snapshots'
  BY SnapshotsKept DEF MirrorInv, NoWise, HandlersProper, Proper, CancelInv
<1>2. \A k \in 0..Len(log) : Shows(k) => Shows(k)'
  BY SameShows
<1>3. HeardInv'
  BY <1>2, HeardKept DEF MirrorInv
<1> QED BY <1>1, <1>3 DEF MirrorInv

LEMMA MirrorNext ==
  ASSUME OneSubscription, MirrorInv, OrderedNext
  PROVE  MirrorInv'
<1>0. TypeInv'
  BY OrderedTypes DEF MirrorInv
<1>1. ASSUME NEW p \in Procs, Proceeds(p) PROVE MirrorInv'
  BY <1>0, <1>1, TrialMirrors, PlainMirrors, ServingMirrors, CheckoutMirrors, CancelAtStripeMirrors DEF Proceeds
<1>2. ASSUME NEW n \in 1..MaxSubs, Moves(n) PROVE MirrorInv'
  BY <1>0, <1>2, MovesMirrors
<1>3. CASE Passes
  <2>1. UNCHANGED <<row, h, stripe, log, acked, offers, transfers>>
    BY <1>3 DEF Passes, account, atStripe, atWise, answers
  <2> QED BY <1>0, <2>1, StillMirrors
<1> QED BY <1>0, <1>1, <1>2, <1>3, BeginMirrors, WebhookMirrors DEF OrderedNext

LEMMA MirrorShown ==
  ASSUME OneSubscription, MirrorInv
  PROVE  RowMirrorsStripe /\ CancelStopsCharging
<1>1. row \in RowType /\ MaxSubs = 1
  BY DEF MirrorInv, TypeInv, AccountOK, OneSubscription
<1>2. row.subId # 0 => row.subId = 1
  <2>1. row.subId \in 0..1
    BY <1>1 DEF RowType
  <2> QED BY <2>1
<1>3. ASSUME Settled, row.subId # 0, row.status # "TRIAL"
      PROVE  /\ stripe[1].state = "active" => row.plan = stripe[1].plan
             /\ stripe[1].state = "ended" => row.plan = Free
  <2>1. PICK a \in 0..Len(log) : HeardTo(a)
    BY DEF MirrorInv, HeardInv
  <2>2. log \in Seq(EventType) /\ acked = 1..Len(log) /\ Len(log) \in Nat
    BY <1>3 DEF MirrorInv, TypeInv, StripeOK, Settled
  <2>3. a = Len(log)
    <3>1. acked = 1..a
      BY <2>1 DEF HeardTo
    <3>2. CASE a < Len(log)
      <4>1. Len(log) \in 1..Len(log) /\ Len(log) \notin 1..a
        BY <2>2, <3>2
      <4> QED BY <2>2, <3>1, <4>1
    <3> QED BY <2>2, <3>2
  <2>4. Shows(a)
    BY <2>1, <2>2, <2>3 DEF HeardTo
  <2>5. a # 0 /\ Agrees(log[Len(log)])
    BY <1>3, <2>3, <2>4 DEF Shows
  <2> QED BY <1>3, <2>5 DEF Agrees, MirrorInv, Snapshots, LastOK
<1>4. RowMirrorsStripe
  BY <1>2, <1>3 DEF RowMirrorsStripe
<1>5. CancelStopsCharging
  BY <1>2 DEF CancelStopsCharging, MirrorInv, CancelInv
<1> QED BY <1>4, <1>5

(* Where Stripe delivers in order, with one subscription of one account,   *)
(* no overlapping handlers and no administrator who sets plans, the row    *)
(* says what Stripe says once every webhook is answered, and shows no      *)
(* cancellation that Stripe was not asked for: for any plans, periods,     *)
(* number of events and deaths.                                            *)
THEOREM RowsFollowStripe == ASSUME OneSubscription PROVE WorldsSpec => []OrderedRowMirrorsStripe
<1> DEFINE Inv == ordered => MirrorInv
<1>1. WorldsInit => Inv
  BY MirrorInit DEF WorldsInit, OneSubscription
<1>2. Inv /\ [WorldsNext]_<<ordered, vars>> => Inv'
  <2> SUFFICES ASSUME Inv, [WorldsNext]_<<ordered, vars>>, ordered' PROVE MirrorInv'
    OBVIOUS
  <2>1. CASE WorldsNext
    <3>1. ordered /\ MirrorInv /\ InTheOrder!Next
      BY <2>1 DEF WorldsNext
    <3>2. OrderedNext
      BY <3>1, InTheOrderSteps DEF MirrorInv, OneSubscription
    <3> QED BY <3>1, <3>2, MirrorNext
  <2>2. CASE UNCHANGED <<ordered, vars>>
    <3>1. MirrorInv /\ UNCHANGED vars
      BY <2>2
    <3>2. UNCHANGED <<account, atStripe, atWise, world, answers, h>>
      BY <3>1 DEF vars, account, atStripe, atWise, world, answers
    <3>3. TypeInv'
      BY <3>1, TypeNext DEF MirrorInv
    <3> QED BY <3>1, <3>2, <3>3, StillMirrors DEF account, atStripe, atWise, answers
  <2> QED BY <2>1, <2>2
<1>3. Inv => OrderedRowMirrorsStripe
  BY MirrorShown DEF OrderedRowMirrorsStripe
<1> QED BY <1>1, <1>2, <1>3, PTL DEF WorldsSpec
=============================================================================
