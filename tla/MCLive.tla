-------------------------------- MODULE MCLive --------------------------------
(***************************************************************************)
(* What must happen in the end, on small instances, in one run: the        *)
(* subscription, calls, the session of a browser, and marketplace orders.  *)
(* No module reads the variables of another, so a behaviour moves the part *)
(* that it started with, and only that part is scheduled fairly.           *)
(***************************************************************************)
EXTENDS SubscriptionBilling, VideoCalls, Sessions, MarketplaceOrders

CONSTANTS ann, ben

VARIABLE part

Month == {2}
AnnCallsBen == {<<ann, ben>>}
SoldByAnn == [s \in Services |-> ann]

Parts == {"billing", "calls", "sessions", "market"}

LiveInit == part \in Parts /\ Init /\ CallInit /\ SessionInit /\ MarketInit

LiveNext ==
  /\ UNCHANGED part
  /\ IF part = "billing" THEN Next ELSE UNCHANGED vars
  /\ IF part = "calls" THEN CallNext ELSE UNCHANGED callVars
  /\ IF part = "sessions" THEN SessionNext ELSE UNCHANGED sessionVars
  /\ IF part = "market" THEN MarketNext ELSE UNCHANGED marketVars

liveVars == <<part, vars, callVars, sessionVars, marketVars>>

(* Time passes, the trial cron runs, every handler runs to its end, and    *)
(* Stripe delivers the end of a subscription until it is answered.  Cron   *)
(* and delivery are strongly fair because the one slot may be busy.        *)
BillingFairness ==
  /\ WF_vars(part = "billing" /\ Tick)
  /\ \A p \in Procs : WF_vars(part = "billing" /\ Step(p))
  /\ SF_vars(part = "billing" /\ \E p \in Procs : ExpireTrials(p))
  /\ SF_vars(part = "billing" /\ \E p \in Procs, i \in DOMAIN log : SubscriptionDeleted(p, i))

(* The browser and the server run what is due, and the browser notices a   *)
(* connection whose other end is gone; members may do nothing for ever.    *)
CallFairness ==
  /\ \A u \in Members : /\ WF_callVars(part = "calls" /\ Deliver(u))
                        /\ WF_callVars(part = "calls" /\ TimerFires(u))
  /\ \A i \in Modals : WF_callVars(part = "calls" /\ (Listen(i) \/ SendOffer(i)))
  /\ \A i \in Modals : WF_callVars(part = "calls" /\ RelayCall(i))
  /\ \A i \in Modals : WF_callVars(part = "calls" /\ (SetOffer(i) \/ SendAnswer(i)))
  /\ \A i \in Modals : WF_callVars(part = "calls" /\ ConnectionFails(i))

(* Requests are answered or fail; neither the user nor time need move.     *)
SessionFairness ==
  /\ \A t \in Tabs : WF_sessionVars(part = "sessions" /\ TabStep(t))
  /\ WF_sessionVars(part = "sessions" /\ LogoutEnds)

(* Stripe delivers a paid checkout until it is answered.                   *)
MarketFairness == \A n \in OrderIds : WF_marketVars(part = "market" /\ OrderPaid(n))

LiveSpec ==
  /\ LiveInit /\ [][LiveNext]_liveVars
  /\ BillingFairness /\ CallFairness /\ SessionFairness /\ MarketFairness
=============================================================================
