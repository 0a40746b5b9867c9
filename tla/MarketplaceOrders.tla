------------------------- MODULE MarketplaceOrders -------------------------
(***************************************************************************)
(* Orders of services: marketplace/marketplace.service.ts, and the         *)
(* marketplace branch of the Stripe webhook, subscription.service.ts.      *)
(*                                                                         *)
(* Order n is the n-th request to order something.  Stripe delivers the    *)
(* webhook of a payment until it is answered, and sometimes once more.     *)
(***************************************************************************)
EXTENDS Naturals

CONSTANTS
  Services,
  Buyers,
  Seller,      \* Seller[s]: who sells service s
  MaxOrders,   \* bound: requests to order
  MaxSlips     \* bound: requests that die, webhook answers that are lost

ASSUME MarketplaceAssumption ==
  /\ Seller \in [Services -> Buyers] /\ MaxOrders \in Nat /\ MaxSlips \in Nat

VARIABLES
  service,   \* service[s]: status of the service
  order,     \* order[n]: buyer, service and status of the row
  request,   \* request[n]: the next call of the request that places order n
  checkout,  \* checkout[n]: the Stripe session of order n
  confirm,   \* orders whose completion was allowed and is not yet written
  ordered,   \* requests to order so far
  slips      \* failures so far

marketVars == <<service, order, request, checkout, confirm, ordered, slips>>

OrderIds == 1..MaxOrders
NoOrder == [buyer |-> {}, service |-> {}, status |-> "none"]

MarketInit ==
  /\ service = [s \in Services |-> "ACTIVE"]
  /\ order = [n \in OrderIds |-> NoOrder] /\ request = [n \in OrderIds |-> "none"]
  /\ checkout = [n \in OrderIds |-> "none"] /\ confirm = {}
  /\ ordered = 0 /\ slips = 0

Slip == slips < MaxSlips /\ slips' = slips + 1
RequestAt(n, at) == request' = [request EXCEPT ![n] = at]
SetOrder(n, status) == order' = [order EXCEPT ![n].status = status]

(* updateService may write any status; deleteService writes DELETED.       *)
UpdateService(s, status) ==
  /\ service[s] # status
  /\ service' = [service EXCEPT ![s] = status]
  /\ UNCHANGED <<order, request, checkout, confirm, ordered, slips>>

-----------------------------------------------------------------------------
(* createOrder                                                             *)

FindService(u, s) ==
  /\ service[s] = "ACTIVE" /\ Seller[s] # u /\ ordered < MaxOrders
  /\ ordered' = ordered + 1
  /\ order' = [order EXCEPT ![ordered'] = [buyer |-> {u}, service |-> {s}, status |-> "none"]]
  /\ RequestAt(ordered', "create")
  /\ UNCHANGED <<service, checkout, confirm, slips>>

CreateOrder(n) ==
  /\ request[n] = "create"
  /\ SetOrder(n, "PENDING") /\ RequestAt(n, "session")
  /\ UNCHANGED <<service, checkout, confirm, ordered, slips>>

(* Without Stripe keys the order is returned as it is.                     *)
OpenSession(n) ==
  /\ request[n] = "session"
  /\ \/ checkout' = [checkout EXCEPT ![n] = "open"] /\ RequestAt(n, "store")
     \/ UNCHANGED checkout /\ RequestAt(n, "done")
  /\ UNCHANGED <<service, order, confirm, ordered, slips>>

(* stripeSessionId is stored, and the URL returned.                        *)
StoreSession(n) ==
  /\ request[n] = "store"
  /\ RequestAt(n, "returned")
  /\ UNCHANGED <<service, order, checkout, confirm, ordered, slips>>

RequestDies(n) ==
  /\ request[n] \in {"create", "session", "store"} /\ Slip
  /\ RequestAt(n, "done")
  /\ UNCHANGED <<service, order, checkout, confirm, ordered>>

-----------------------------------------------------------------------------
(* Payment and delivery                                                    *)

Pay(n) ==
  /\ request[n] = "returned" /\ checkout[n] = "open"
  /\ checkout' = [checkout EXCEPT ![n] = "paid"]
  /\ UNCHANGED <<service, order, request, confirm, ordered, slips>>

(* Mutant: a failed update is answered all the same.                       *)
AnswerAnyway(n) == checkout' = [checkout EXCEPT ![n] = "heard"]

DeliverAgain(n) == UNCHANGED checkout

(* checkout.session.completed: the status is written, whatever it was.     *)
(* When the answer is lost Stripe delivers again.                          *)
OrderPaid(n) ==
  /\ checkout[n] = "paid"
  /\ SetOrder(n, "PAID")
  /\ \/ checkout' = [checkout EXCEPT ![n] = "heard"] /\ UNCHANGED slips
     \/ Slip /\ UNCHANGED checkout
  /\ UNCHANGED <<service, request, confirm, ordered>>

WebhookFails(n) ==
  /\ checkout[n] = "paid" /\ Slip
  /\ DeliverAgain(n)
  /\ UNCHANGED <<service, order, request, confirm, ordered>>

(* Mutant: any order may be completed.                                     *)
AnyStatus == {"PENDING", "PAID", "DELIVERED"}

Completable == {"PAID", "DELIVERED"}

(* completeOrder: the status is read, then written.                        *)
CompleteOrder(n) ==
  /\ order[n].status \in Completable
  /\ confirm' = confirm \cup {n}
  /\ UNCHANGED <<service, order, request, checkout, ordered, slips>>

WriteCompleted(n) ==
  /\ n \in confirm
  /\ SetOrder(n, "COMPLETED") /\ confirm' = confirm \ {n}
  /\ UNCHANGED <<service, request, checkout, ordered, slips>>

MarketNext ==
  \/ \E s \in Services :
       \/ \E status \in {"ACTIVE", "PAUSED", "DELETED"} : UpdateService(s, status)
       \/ \E u \in Buyers : FindService(u, s)
  \/ \E n \in OrderIds :
       \/ CreateOrder(n) \/ OpenSession(n) \/ StoreSession(n) \/ RequestDies(n)
       \/ Pay(n) \/ OrderPaid(n) \/ WebhookFails(n) \/ CompleteOrder(n) \/ WriteCompleted(n)

MarketSpec == MarketInit /\ [][MarketNext]_marketVars

-----------------------------------------------------------------------------
(* A completed order stays completed, unless a webhook whose answer was    *)
(* lost is delivered once more; and nobody's order becomes a sale without  *)
(* a payment at Stripe.                                                    *)
CompletedStays ==
  [][\A n \in OrderIds :
       /\ order[n].status = "COMPLETED" =>
            order'[n].status = "COMPLETED" \/ (checkout[n] = "paid" /\ slips > 0)
       /\ order'[n].status \in {"PAID", "COMPLETED"} => checkout'[n] \in {"paid", "heard"}]_marketVars

(* A payment reaches its order although webhooks fail.                     *)
PaymentReachesOrder ==
  \A n \in OrderIds : checkout[n] = "paid" ~> order[n].status \in {"PAID", "COMPLETED"}
=============================================================================
