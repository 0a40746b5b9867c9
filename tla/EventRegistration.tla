------------------------- MODULE EventRegistration -------------------------
(***************************************************************************)
(* Registration to one event: backend/src/events/events.service.ts.        *)
(*                                                                         *)
(* The database holds one registration row per (event, user), the booths   *)
(* of the event and its isActive flag.  A request, a payment webhook or an *)
(* organizer operation is a handler running in a slot p \in Procs.  Each   *)
(* handler awaits its database calls one after the other; a call is one    *)
(* atomic step and the handlers of different slots interleave between      *)
(* calls.  What a handler read stays in h[p] and may be stale when used.   *)
(* A handler may die between two calls (Fail): a database or network       *)
(* error, or a restart of the server.                                      *)
(***************************************************************************)
EXTENDS Naturals, FiniteSets

CONSTANTS
  Users, Booths, Tickets,  \* users, booths and ticket types of the event
  None,                    \* no user, no booth, no ticket type
  FreeTickets,             \* ticket types of price 0; None \in it: isFree event
  FreeBooths,              \* booths of price 0
  Capacity,                \* event.capacity, 0 when it is null
  TicketCap,               \* ticketType.capacity, 0 when it is null
  Providers,               \* the dto.provider values that users choose
  StripeOn,                \* StripeService.isConfigured()
  Production,              \* NODE_ENV = 'production'
  Procs,                   \* handler slots
  DoubleSubmit,            \* may a user have two requests in flight?
  MaxTries,                \* bound: checkouts opened per user
  MaxFails                 \* bound: handlers that die half way

ASSUME EventAssumption ==
  /\ IsFiniteSet(Users)
  /\ None \notin Users \cup Booths \cup Tickets
  /\ FreeTickets \subseteq Tickets \cup {None}
  /\ FreeBooths \subseteq Booths
  /\ Capacity \in Nat
  /\ TicketCap \in [Tickets -> Nat]
  /\ Providers \subseteq {"stripe", "wise"}
  /\ StripeOn \in BOOLEAN /\ Production \in BOOLEAN /\ DoubleSubmit \in BOOLEAN
  /\ MaxTries \in Nat /\ MaxFails \in Nat

VARIABLES
  regs,      \* regs[u]: the EventRegistration row of user u
  booths,    \* booths[b]: status of booth b and reservedById
  active,    \* event.isActive
  h,         \* h[p]: the handler running in slot p
  sessions,  \* checkouts whose URL or reference the user has received
  funds,     \* checkouts that the user paid
  acked,     \* payments whose webhook was answered with a 200
  fails      \* handlers that died so far

vars == <<regs, booths, active, h, sessions, funds, acked, fails>>

-----------------------------------------------------------------------------
(* Payment identifiers, kept as a kind and a sequence number per user.     *)

NoPay   == [kind |-> "none", n |-> 0]
Free    == [kind |-> "free", n |-> 0]
Sandbox == [kind |-> "sandbox", n |-> 0]
Checkouts == [kind : {"stripe", "wise"}, n : Nat \ {0}]
Payments  == {NoPay, Free, Sandbox} \cup Checkouts

Tries(u) == Cardinality({s \in sessions : s.user = u})
(* Mutant: the counter is read after the previous checkout.                *)
RepeatedCheckout(u, via) == [kind |-> via, n |-> Tries(u)]

(* A fresh session id or Wise reference.                                   *)
NextCheckout(u, via) == [kind |-> via, n |-> Tries(u) + 1]

NoRow == [status |-> "NONE", ticket |-> None, booth |-> None,
          pay |-> NoPay, paid |-> FALSE, at |-> 0]

Idle == [pc |-> "idle", user |-> None, ticket |-> None, booth |-> None,
         via |-> "stripe", full |-> FALSE, had |-> FALSE, was |-> FALSE,
         pay |-> NoPay, src |-> NoPay, next |-> None]

Confirmed(u) == regs[u].status \in {"REGISTERED", "ATTENDED"}
Rows == {u \in Users : regs[u].status # "NONE"}

(* totalAmount = 0 for this choice of ticket and booth.                    *)
IsFree(ticket, booth) == ticket \in FreeTickets /\ booth \in FreeBooths \cup {None}

(* What the row of u costs; the price is recomputed from the row.          *)
Owed(u) == ~IsFree(regs[u].ticket, regs[u].booth)

(* boothId is @unique: a row of another user keeps b, whatever its status. *)
BoothTaken(b, u) == \E v \in Users \ {u} : regs[v].booth = b

-----------------------------------------------------------------------------
Init ==
  /\ regs = [u \in Users |-> NoRow]
  /\ booths = [b \in Booths |-> [status |-> "AVAILABLE", by |-> None]]
  /\ active = TRUE
  /\ h = [p \in Procs |-> Idle]
  /\ sessions = {} /\ funds = {} /\ acked = {}
  /\ fails = 0

(* The handler of p moves on with local state r.                           *)
Goto(p, r) == h' = [h EXCEPT ![p] = r]

(* The handler of p answers.  A webhook answers 200: the provider stops    *)
(* delivering it.                                                          *)
Reply(p) ==
  /\ Goto(p, Idle)
  /\ acked' = IF h[p].src = NoPay THEN acked
              ELSE acked \cup {[user |-> h[p].user, pay |-> h[p].src]}

(* The handler of p throws: a webhook is answered with an error.           *)
(* Mutant: the error is caught and the webhook answered with a 200.        *)
SwallowError(p) == Reply(p)

Throw(p) == Goto(p, Idle) /\ UNCHANGED acked

(* Slot p runs a request of user u (not a webhook or organizer operation). *)
RequestOf(p, u) ==
  h[p].user = u /\ h[p].src = NoPay /\ h[p].pc \notin {"idle", "ci_write"}

(* A request of user u may start in the free slot p.                       *)
Accept(p, u) ==
  /\ h[p].pc = "idle"
  /\ DoubleSubmit \/ \A q \in Procs : ~RequestOf(q, u)

Database == <<regs, booths, active>>
Outside  == <<sessions, funds, fails>>

-----------------------------------------------------------------------------
(* registerWithPayment                                                     *)

(* The event and the number of its confirmed registrations are read.       *)
Register(p, u, ticket, booth, via) ==
  /\ Accept(p, u)
  /\ Tries(u) + Cardinality({q \in Procs : RequestOf(q, u)}) < MaxTries
  /\ active
  /\ Goto(p, [Idle EXCEPT !.pc = "existing", !.user = u, !.ticket = ticket,
                !.booth = booth, !.via = via,
                !.full = /\ Capacity > 0
                         /\ Cardinality({v \in Users : Confirmed(v)}) >= Capacity])
  /\ UNCHANGED <<Database, Outside, acked>>

ReadExisting(p) ==
  LET u == h[p].user IN
  /\ h[p].pc = "existing"
  /\ IF regs[u].status \in {"NONE", "CANCELLED"}
     THEN /\ Goto(p, [h[p] EXCEPT !.pc = "ticket", !.had = regs[u].status # "NONE"])
          /\ UNCHANGED acked
     ELSE Throw(p)
  /\ UNCHANGED <<Database, Outside>>

(* Confirmed registrations that hold ticket type t.                        *)
Sold(t) == Cardinality({u \in Users : regs[u].ticket = t /\ Confirmed(u)})

ReadTicketType(p) ==
  LET t == h[p].ticket IN
  /\ h[p].pc = "ticket"
  /\ IF t = None \/ TicketCap[t] = 0 \/ Sold(t) < TicketCap[t]
     THEN Goto(p, [h[p] EXCEPT !.pc = "booth"]) /\ UNCHANGED acked
     ELSE Throw(p)
  /\ UNCHANGED <<Database, Outside>>

ReadBooth(p) ==
  LET b == h[p].booth IN
  /\ h[p].pc = "booth"
  /\ IF b = None \/ booths[b].status = "AVAILABLE"
     THEN Goto(p, [h[p] EXCEPT !.pc = "write"]) /\ UNCHANGED acked
     ELSE Throw(p)
  /\ UNCHANGED <<Database, Outside>>

Costs(p) == ~IsFree(h[p].ticket, h[p].booth)

(* The handler keeps what it still uses: who pays, how, and for which booth. *)
Continue(p, pc, pay) ==
  [Idle EXCEPT !.pc = pc, !.user = h[p].user, !.via = h[p].via,
               !.booth = h[p].booth, !.pay = pay]

(* Where registerWithPayment goes once the row and the booth are written.  *)
PaymentStep(p) ==
  IF ~Costs(p) THEN Continue(p, "act_read", Free)
  ELSE IF h[p].via = "wise" \/ StripeOn THEN Continue(p, "store", NoPay)
  ELSE IF Production THEN Continue(p, "undo", NoPay)
  ELSE Continue(p, "act_read", Sandbox)

(* The database refuses a second row of the user, a booth that another row *)
(* keeps, and a booth that is gone.                                        *)
Writable(p) ==
  /\ h[p].user \in Rows => h[p].had
  /\ h[p].booth # None => /\ ~BoothTaken(h[p].booth, h[p].user)
                          /\ booths[h[p].booth].status # "DELETED"

(* The row that is created, or that replaces the cancelled one.            *)
RowWith(p, paid) ==
  [status |-> IF Costs(p) \/ h[p].full THEN "WAITLISTED" ELSE "REGISTERED",
   ticket |-> h[p].ticket, booth |-> h[p].booth, pay |-> NoPay, paid |-> paid,
   at |-> IF h[p].had THEN regs[h[p].user].at ELSE Cardinality(Rows) + 1]

(* Mutant: a reactivated row keeps its paidAt.                             *)
RowKeepsPaidAt(p) == RowWith(p, regs[h[p].user].paid)

NewRow(p) == RowWith(p, FALSE)

WriteRegistration(p) ==
  LET u == h[p].user
      b == h[p].booth
  IN
  /\ h[p].pc = "write"
  /\ \/ /\ ~Writable(p)
        /\ Throw(p)
        /\ UNCHANGED regs
     \/ /\ Writable(p)
        /\ regs' = [regs EXCEPT ![u] = NewRow(p)]
        /\ Goto(p, IF b # None /\ Costs(p) THEN [h[p] EXCEPT !.pc = "reserve"]
                   ELSE PaymentStep(p))
        /\ UNCHANGED acked
  /\ UNCHANGED <<booths, active, Outside>>

ReserveBooth(p) ==
  LET b == h[p].booth IN
  /\ h[p].pc = "reserve"
  /\ IF booths[b].status = "DELETED"
     THEN Throw(p) /\ UNCHANGED booths
     ELSE /\ booths' = [booths EXCEPT ![b] = [status |-> "RESERVED", by |-> h[p].user]]
          /\ Goto(p, PaymentStep(p))
          /\ UNCHANGED acked
  /\ UNCHANGED <<regs, active, Outside>>

(* The checkout is opened at the provider, its identifier stored in the    *)
(* row, and its URL (Stripe) or reference (Wise) returned to the user.     *)
StorePaymentId(p) ==
  LET u == h[p].user
      c == NextCheckout(u, h[p].via)
  IN
  /\ h[p].pc = "store"
  /\ regs' = [regs EXCEPT ![u].pay = c]
  /\ sessions' = sessions \cup {[user |-> u, pay |-> c]}
  /\ Reply(p)
  /\ UNCHANGED <<booths, active, funds, fails>>

(* Card payment unavailable in production: the registration is undone.     *)
UndoRegistration(p) ==
  /\ h[p].pc = "undo"
  /\ regs' = [regs EXCEPT ![h[p].user].status = "CANCELLED"]
  /\ IF h[p].booth = None THEN Throw(p)
     ELSE Goto(p, [h[p] EXCEPT !.pc = "unbooth"]) /\ UNCHANGED acked
  /\ UNCHANGED <<booths, active, Outside>>

(* Mutant: the booth stays reserved.                                       *)
KeepBooth(b) == UNCHANGED booths

FreeBooth(b) ==
  booths' = IF booths[b].status = "DELETED" THEN booths
            ELSE [booths EXCEPT ![b] = [status |-> "AVAILABLE", by |-> None]]

UndoBooth(p) ==
  /\ h[p].pc = "unbooth"
  /\ FreeBooth(h[p].booth)
  /\ Throw(p)
  /\ UNCHANGED <<regs, active, Outside>>

-----------------------------------------------------------------------------
(* activateEventRegistration: from registerWithPayment or from a webhook.  *)

(* Nothing is left to activate.  The first definition is a mutant that     *)
(* forgets the attended registrations.                                     *)
SettledUnlessAttended(row) == row.status = "REGISTERED" /\ row.paid

Settled(row) == row.status = "ATTENDED" \/ (row.status = "REGISTERED" /\ row.paid)

ActivateRead(p) ==
  LET row == regs[h[p].user] IN
  /\ h[p].pc = "act_read"
  /\ IF Settled(row)
     THEN Reply(p)
     ELSE /\ Goto(p, [h[p] EXCEPT !.pc = "act_tx", !.booth = row.booth])
          /\ UNCHANGED acked
  /\ UNCHANGED <<Database, Outside>>

(* Mutant: the transaction forgets the booth.                              *)
LeaveBooth(b) == booths

OccupyBooth(b) == IF b = None THEN booths ELSE [booths EXCEPT ![b].status = "OCCUPIED"]

(* One transaction; it fails as a whole when the booth it read is gone.    *)
ActivateTx(p) ==
  LET u == h[p].user
      b == h[p].booth
  IN
  /\ h[p].pc = "act_tx"
  /\ IF b # None /\ booths[b].status = "DELETED"
     THEN Throw(p) /\ UNCHANGED <<regs, booths>>
     ELSE /\ regs' = [regs EXCEPT ![u].status = "REGISTERED", ![u].paid = TRUE,
                                  ![u].pay = h[p].pay]
          /\ booths' = OccupyBooth(b)
          /\ Reply(p)
  /\ UNCHANGED <<active, Outside>>

(* Stripe delivers checkout.session.completed: at least once, in any order.*)
StripeWebhook(p, s) ==
  /\ h[p].pc = "idle" /\ s \in funds /\ s.pay.kind = "stripe"
  /\ Goto(p, [Idle EXCEPT !.pc = "act_read", !.user = s.user, !.pay = s.pay, !.src = s.pay])
  /\ UNCHANGED <<Database, Outside, acked>>

(* The row whose paymentId is the reference of the transfer exists; the    *)
(* first definition is a mutant that looks the registration up by its id.  *)
AnyReference(s) == TRUE

KnownReference(s) == regs[s.user].pay = s.pay

(* Wise delivers balances#credit; the row is found by its reference, an    *)
(* unknown reference is answered and ignored.                              *)
WiseWebhook(p, s) ==
  /\ h[p].pc = "idle" /\ s \in funds /\ s.pay.kind = "wise"
  /\ IF KnownReference(s)
     THEN /\ Goto(p, [Idle EXCEPT !.pc = "act_read", !.user = s.user, !.pay = s.pay, !.src = s.pay])
          /\ UNCHANGED acked
     ELSE acked' = acked \cup {s} /\ UNCHANGED h
  /\ UNCHANGED <<Database, Outside>>

(* The user pays a checkout; nothing bounds when.                          *)
Pay(s) ==
  /\ s \in sessions \ funds
  /\ funds' = funds \cup {s}
  /\ UNCHANGED <<Database, h, sessions, acked, fails>>

-----------------------------------------------------------------------------
(* checkIn, by the organizer or an administrator                           *)

CheckInRead(p, u) ==
  /\ h[p].pc = "idle"
  /\ Confirmed(u)
  /\ Goto(p, [Idle EXCEPT !.pc = "ci_write", !.user = u])
  /\ UNCHANGED <<Database, Outside, acked>>

CheckInWrite(p) ==
  /\ h[p].pc = "ci_write"
  /\ regs' = [regs EXCEPT ![h[p].user].status = "ATTENDED"]
  /\ Reply(p)
  /\ UNCHANGED <<booths, active, Outside>>

-----------------------------------------------------------------------------
(* cancelRegistration                                                      *)

CancelRead(p, u) ==
  /\ Accept(p, u)
  /\ regs[u].status \notin {"NONE", "CANCELLED"}
  /\ Goto(p, [Idle EXCEPT !.pc = "c_write", !.user = u,
                !.booth = regs[u].booth, !.was = Confirmed(u)])
  /\ UNCHANGED <<Database, Outside, acked>>

(* Where the handler goes once the row and the booth are written.          *)
PromotionStep(p) ==
  IF h[p].was THEN Goto(p, [h[p] EXCEPT !.pc = "c_find"]) /\ UNCHANGED acked
              ELSE Reply(p)

CancelWrite(p) ==
  /\ h[p].pc = "c_write"
  /\ regs' = [regs EXCEPT ![h[p].user].status = "CANCELLED"]
  /\ IF h[p].booth # None
     THEN Goto(p, [h[p] EXCEPT !.pc = "c_booth"]) /\ UNCHANGED acked
     ELSE PromotionStep(p)
  /\ UNCHANGED <<booths, active, Outside>>

CancelBooth(p) ==
  LET b == h[p].booth IN
  /\ h[p].pc = "c_booth"
  /\ FreeBooth(b)
  /\ IF booths[b].status = "DELETED" THEN Throw(p) ELSE PromotionStep(p)
  /\ UNCHANGED <<regs, active, Outside>>

(* WAITLISTED with no paymentId: the rows a freed place may promote; the   *)
(* first definition is a mutant that also takes the pending payments.      *)
Waitlisted == {u \in Users : regs[u].status = "WAITLISTED"}

Promotable == {u \in Users : regs[u].status = "WAITLISTED" /\ regs[u].pay = NoPay}

FindNext(p) ==
  /\ h[p].pc = "c_find"
  /\ IF Promotable = {} THEN Reply(p)
     ELSE \E u \in Promotable :
            /\ \A v \in Promotable : regs[u].at <= regs[v].at
            /\ Goto(p, [h[p] EXCEPT !.pc = "c_promote", !.next = u])
            /\ UNCHANGED acked
  /\ UNCHANGED <<Database, Outside>>

PromoteNext(p) ==
  /\ h[p].pc = "c_promote"
  /\ regs' = [regs EXCEPT ![h[p].next].status = "REGISTERED"]
  /\ Reply(p)
  /\ UNCHANGED <<booths, active, Outside>>

-----------------------------------------------------------------------------
(* deleteBooth and remove, by the organizer                                *)

DeleteBoothRead(p, b) ==
  /\ h[p].pc = "idle"
  /\ booths[b].status = "AVAILABLE"
  /\ Goto(p, [Idle EXCEPT !.pc = "d_delete", !.booth = b])
  /\ UNCHANGED <<Database, Outside, acked>>

(* The rows that reference the booth lose it (ON DELETE SET NULL).         *)
DeleteBoothWrite(p) ==
  LET b == h[p].booth IN
  /\ h[p].pc = "d_delete"
  /\ IF booths[b].status = "DELETED" THEN Throw(p) /\ UNCHANGED <<regs, booths>>
     ELSE /\ booths' = [booths EXCEPT ![b] = [status |-> "DELETED", by |-> None]]
          /\ regs' = [u \in Users |->
                        [regs[u] EXCEPT !.booth = IF @ = b THEN None ELSE @]]
          /\ Reply(p)
  /\ UNCHANGED <<active, Outside>>

RemoveEvent ==
  /\ active
  /\ active' = FALSE
  /\ UNCHANGED <<regs, booths, h, Outside, acked>>

(* The handler of p dies between two calls; nothing it wrote is undone.    *)
Fail(p) ==
  /\ h[p].pc # "idle" /\ fails < MaxFails
  /\ fails' = fails + 1
  /\ Throw(p)
  /\ UNCHANGED <<Database, sessions, funds>>

-----------------------------------------------------------------------------
Step(p) ==
  \/ ReadExisting(p) \/ ReadTicketType(p) \/ ReadBooth(p)
  \/ WriteRegistration(p) \/ ReserveBooth(p) \/ StorePaymentId(p)
  \/ UndoRegistration(p) \/ UndoBooth(p)
  \/ ActivateRead(p) \/ ActivateTx(p)
  \/ CheckInWrite(p)
  \/ CancelWrite(p) \/ CancelBooth(p) \/ FindNext(p) \/ PromoteNext(p)
  \/ DeleteBoothWrite(p)

Webhook(s) == \E p \in Procs : StripeWebhook(p, s) \/ WiseWebhook(p, s)

Deliver(s) == s \in funds \ acked /\ Webhook(s)

Start(p) ==
  \/ \E u \in Users :
       \/ CheckInRead(p, u)
       \/ CancelRead(p, u)
       \/ \E ticket \in Tickets \cup {None}, booth \in Booths \cup {None}, via \in Providers :
            Register(p, u, ticket, booth, via)
  \/ \E b \in Booths : DeleteBoothRead(p, b)

Next ==
  \/ \E p \in Procs : Step(p) \/ Start(p) \/ Fail(p)
  \/ \E s \in funds : Webhook(s)
  \/ \E s \in sessions : Pay(s)
  \/ RemoveEvent

Spec == Init /\ [][Next]_vars

-----------------------------------------------------------------------------
RowType == [status : {"NONE", "REGISTERED", "WAITLISTED", "ATTENDED", "CANCELLED"},
            ticket : Tickets \cup {None}, booth : Booths \cup {None},
            pay : Payments, paid : BOOLEAN, at : Nat]

PCs == {"idle", "existing", "ticket", "booth", "write", "reserve", "store", "undo",
        "unbooth", "act_read", "act_tx", "ci_write", "c_write", "c_booth", "c_find",
        "c_promote", "d_delete"}

HandlerType == [pc : PCs, user : Users \cup {None}, ticket : Tickets \cup {None},
                booth : Booths \cup {None}, via : {"stripe", "wise"},
                full : BOOLEAN, had : BOOLEAN, was : BOOLEAN,
                pay : Payments, src : Payments, next : Users \cup {None}]

(* Every row, booth, handler and payment has the shape the schema gives it. *)
TypeOK ==
  /\ regs \in [Users -> RowType]
  /\ booths \in [Booths -> [status : {"AVAILABLE", "RESERVED", "OCCUPIED", "DELETED"},
                            by : Users \cup {None}]]
  /\ active \in BOOLEAN
  /\ h \in [Procs -> HandlerType]
  /\ sessions \subseteq [user : Users, pay : Checkouts]
  /\ funds \subseteq sessions /\ acked \subseteq funds /\ IsFiniteSet(sessions)
  /\ fails \in Nat

-----------------------------------------------------------------------------
(* What holds when handlers do not overlap (one slot).                     *)

Quiet == \A p \in Procs : h[p].pc = "idle"

(* A booth that is shown as taken is taken for somebody: between requests, *)
(* a RESERVED or OCCUPIED booth is the booth of a registration that is not *)
(* cancelled, whatever checkouts, late payments, cancellations and booth   *)
(* deletions came before, as long as no handler died half way.             *)
HeldBoothHasHolder ==
  Quiet /\ fails = 0 => \A b \in Booths : booths[b].status \in {"RESERVED", "OCCUPIED"} =>
                        \E u \in Users : /\ regs[u].booth = b
                                        /\ regs[u].status \notin {"NONE", "CANCELLED"}

(* Conversely, between requests the booth of a confirmed and paid          *)
(* registration exists and is OCCUPIED: nobody else is offered it.         *)
PaidBoothIsOccupied ==
  Quiet => \A u \in Users : Confirmed(u) /\ regs[u].paid /\ regs[u].booth # None =>
             booths[regs[u].booth].status = "OCCUPIED"

(* A registration that costs money is confirmed only against a checkout    *)
(* that was really paid, the one whose identifier the row carries, as long *)
(* as no handler died half way.                                            *)
ConfirmedIsPaidFor ==
  fails = 0 => \A u \in Users : Confirmed(u) /\ Owed(u) =>
    regs[u].paid /\ [user |-> u, pay |-> regs[u].pay] \in funds

(* A registration confirmed by Wise was paid under the reference of its    *)
(* last checkout: a transfer under a reference that a later registration   *)
(* of the same user replaced confirms nothing.                             *)
WiseConfirmsLastCheckout ==
  \A u \in Users : Confirmed(u) /\ Owed(u) /\ regs[u].pay.kind = "wise" =>
    regs[u].pay.n = Tries(u)

(* A paid registration stays confirmed and paid until it is cancelled, and *)
(* an attendance is never taken back to a mere registration: a duplicated  *)
(* or late webhook, or a second registration, changes nothing.             *)
ConfirmationSticks ==
  [][\A u \in Users :
       /\ Confirmed(u) /\ regs[u].paid /\ regs'[u].status # "CANCELLED" =>
            regs'[u].status \in {"REGISTERED", "ATTENDED"} /\ regs'[u].paid
       /\ regs[u].status = "ATTENDED" => regs'[u].status \in {"ATTENDED", "CANCELLED"}]_vars

-----------------------------------------------------------------------------
(* What holds for any interleaving, when a user waits for one answer before *)
(* sending the next request and Stripe is configured or NODE_ENV is         *)
(* production.                                                              *)

(* paidAt never marks a registration that costs money unless this user     *)
(* paid a checkout of this event: stale reads, concurrent webhooks, booth  *)
(* deletions and handlers that died half way included.                     *)
PaidHasFunds ==
  \A u \in Users : regs[u].paid /\ Owed(u) => \E s \in funds : s.user = u

(* Every Stripe payment whose webhook is not answered yet is eventually    *)
(* recorded in the row (or finds the user checked in), although handlers   *)
(* die and the transaction is refused when the booth it read is gone: an   *)
(* error is never answered with a 200.                                     *)
StripePaymentRecorded ==
  \A u \in Users, n \in 1..MaxTries :
    LET s == [user |-> u, pay |-> [kind |-> "stripe", n |-> n]]
    IN s \in funds \ acked ~> regs[u].paid \/ regs[u].status = "ATTENDED"

-----------------------------------------------------------------------------
(* What comments of the repository say of the program.                     *)

(* events.service.ts:409, "Release booth": a released booth can be booked, *)
(* so no registration row holds on to an AVAILABLE booth.                  *)
ReleasedBoothIsFree ==
  Quiet => \A b \in Booths : booths[b].status = "AVAILABLE" =>
             \A u \in Users : regs[u].booth # b

(* EventsPage.tsx:753, "Real waitlist (capacity full, no payment)": the    *)
(* free registrations of a full event wait.                                *)
FullEventWaitlists ==
  Quiet /\ Capacity > 0 => Cardinality({u \in Users : Confirmed(u)}) <= Capacity
=============================================================================
