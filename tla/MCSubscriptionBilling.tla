----------------------- MODULE MCSubscriptionBilling -----------------------
(***************************************************************************)
(* SubscriptionBilling for TLC, in two worlds: in the one Stripe delivers  *)
(* its webhooks in any order and Wise is used as well, in the other there  *)
(* is only Stripe, it delivers in order, and more happens.                 *)
(***************************************************************************)
EXTENDS SubscriptionBilling

CONSTANTS OrderedEvents, OrderedClock

VARIABLE ordered

InTheOrder == INSTANCE SubscriptionBilling
  WITH InOrder <- TRUE, MaxRefs <- 0, MaxEvents <- OrderedEvents, MaxClock <- OrderedClock

WorldsInit == ordered \in BOOLEAN /\ Init
WorldsNext == UNCHANGED ordered /\ IF ordered THEN InTheOrder!Next ELSE Next
WorldsSpec == WorldsInit /\ [][WorldsNext]_<<ordered, vars>>

(* RowMirrorsStripe and CancelStopsCharging where Stripe delivers in order *)
(* and no Wise payment replaced its subscription: the row says what Stripe *)
(* says, and never shows a cancellation that Stripe was not asked for.     *)
OrderedRowMirrorsStripe == ordered => RowMirrorsStripe /\ CancelStopsCharging
=============================================================================
