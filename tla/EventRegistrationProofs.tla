----------------------- MODULE EventRegistrationProofs -----------------------
(***************************************************************************)
(* Proofs about EventRegistration, for any users, booths, ticket types,    *)
(* handler slots and failures.  TypeInv is the inductive form of TypeOK;   *)
(* PaymentInv the inductive form of PaidHasFunds, for any interleaving;    *)
(* SerialInv what holds when handlers do not overlap.                      *)
(***************************************************************************)
EXTENDS EventRegistration, FiniteSetTheorems, TLAPS

(* What a handler knows at each of its steps: whom it works for, the booth *)
(* it is about to write, the user it promotes, the payment it records.     *)
HandlerOK(r) ==
  /\ r \in HandlerType
  /\ r.pc \notin {"idle", "d_delete"} => r.user \in Users
  /\ r.pc \in {"reserve", "unbooth", "c_booth", "d_delete"} => r.booth \in Booths
  /\ r.pc = "c_promote" => r.next \in Users
  /\ r.src # NoPay => /\ r.pc \in {"act_read", "act_tx"}
                      /\ r.pay = r.src
                      /\ [user |-> r.user, pay |-> r.src] \in funds

TypeInv == TypeOK /\ \A p \in Procs : HandlerOK(h[p])

-----------------------------------------------------------------------------
(* The idle handler and the payments have their types.                     *)
LEMMA IdleOK == HandlerOK(Idle) /\ NoPay \in Payments /\ NoRow \in RowType
  BY DEF HandlerOK, HandlerType, PCs, Idle, NoPay, Payments, NoRow, RowType

(* A checkout is none of the payment identifiers that mean no payment.     *)
LEMMA CheckoutIsPayment ==
  ASSUME NEW c \in Checkouts
  PROVE  c \in Payments /\ c # NoPay
  BY DEF Checkouts, Payments, NoPay

(* A handler that moves to a good local state, payments only being added,  *)
(* keeps every handler good.                                               *)
LEMMA GotoOK ==
  ASSUME TypeInv, NEW p \in Procs, NEW r, HandlerOK(r), Goto(p, r),
         funds \subseteq funds'
  PROVE  h' \in [Procs -> HandlerType] /\ (\A q \in Procs : HandlerOK(h[q]))'
<1>1. h \in [Procs -> HandlerType] /\ r \in HandlerType
  BY DEF TypeInv, TypeOK, HandlerOK
<1>2. h' = [h EXCEPT ![p] = r]
  BY DEF Goto
<1>3. h' \in [Procs -> HandlerType]
  BY <1>1, <1>2
<1>4. ASSUME NEW q \in Procs PROVE HandlerOK(h[q])'
  <2>1. HandlerOK(h'[q])
    BY <1>1, <1>2 DEF TypeInv
  <2> QED BY <2>1 DEF HandlerOK
<1> QED BY <1>3, <1>4

(* A webhook that is answered was paid.                                    *)
LEMMA ReplyOK ==
  ASSUME TypeInv, NEW p \in Procs, Reply(p), funds \subseteq funds'
  PROVE  /\ h' \in [Procs -> HandlerType] /\ (\A q \in Procs : HandlerOK(h[q]))'
         /\ acked' \subseteq funds
<1>1. acked' \subseteq funds
  BY DEF TypeInv, TypeOK, Reply, HandlerOK
<1> QED BY <1>1, IdleOK, GotoOK DEF Reply

LEMMA ThrowOK ==
  ASSUME TypeInv, NEW p \in Procs, Throw(p), funds \subseteq funds'
  PROVE  /\ h' \in [Procs -> HandlerType] /\ (\A q \in Procs : HandlerOK(h[q]))'
         /\ acked' \subseteq funds
<1>1. acked' \subseteq funds
  BY DEF TypeInv, TypeOK, Throw
<1> QED BY <1>1, IdleOK, GotoOK DEF Throw

(* The next step of a registration is a good local state.                  *)
LEMMA ContinueOK ==
  ASSUME TypeInv, NEW p \in Procs, h[p].user \in Users,
         NEW pc \in {"act_read", "store", "undo"}, NEW pay \in {NoPay, Free, Sandbox}
  PROVE  HandlerOK(Continue(p, pc, pay))
<1>1. h[p] \in HandlerType
  BY DEF TypeInv, TypeOK
<1>2. pay \in Payments /\ NoPay \in Payments
  BY DEF Payments
<1>3. Continue(p, pc, pay) \in HandlerType
  BY <1>1, <1>2 DEF Continue, Idle, HandlerType, PCs
<1>4. Continue(p, pc, pay).src = NoPay /\ Continue(p, pc, pay).pc = pc
      /\ Continue(p, pc, pay).user = h[p].user
  BY DEF Continue, Idle
<1> QED
  BY <1>3, <1>4 DEF HandlerOK

LEMMA PaymentStepOK ==
  ASSUME TypeInv, NEW p \in Procs, h[p].user \in Users
  PROVE  HandlerOK(PaymentStep(p))
  BY ContinueOK DEF PaymentStep

-----------------------------------------------------------------------------
(* The database stays well typed under each action.                        *)
DbType ==
  /\ regs \in [Users -> RowType]
  /\ booths \in [Booths -> [status : {"AVAILABLE", "RESERVED", "OCCUPIED", "DELETED"},
                            by : Users \cup {None}]]

(* A new row is well typed.                                                *)
LEMMA NewRowType ==
  ASSUME TypeInv, NEW p \in Procs, h[p].user \in Users
  PROVE  NewRow(p) \in RowType
<1>1. h[p] \in HandlerType /\ regs[h[p].user] \in RowType
  BY DEF TypeInv, TypeOK
<1>2. Rows \subseteq Users /\ IsFiniteSet(Users)
  BY EventAssumption DEF Rows
<1>3. Cardinality(Rows) \in Nat
  BY <1>2, FS_Subset, FS_CardinalityType
<1> QED
  BY <1>1, <1>3 DEF NewRow, RowWith, RowType, HandlerType, Payments

(* A fresh checkout is a checkout.                                         *)
LEMMA NextCheckoutType ==
  ASSUME TypeInv, NEW u \in Users, NEW via \in {"stripe", "wise"}
  PROVE  NextCheckout(u, via) \in Checkouts
<1>1. Tries(u) \in Nat
  <2>1. {s \in sessions : s.user = u} \subseteq sessions /\ IsFiniteSet(sessions)
    BY DEF TypeInv, TypeOK
  <2> QED BY <2>1, FS_Subset, FS_CardinalityType DEF Tries
<1> QED BY <1>1 DEF NextCheckout, Checkouts

(* A handler that is not recording a payment may move to another step.     *)
LEMMA AdvanceOK ==
  ASSUME TypeInv, NEW p \in Procs, h[p].user \in Users, h[p].src = NoPay,
         NEW pc \in PCs \ {"c_promote"},
         pc \in {"reserve", "unbooth", "c_booth", "d_delete"} => h[p].booth \in Booths
  PROVE  HandlerOK([h[p] EXCEPT !.pc = pc])
<1>1. h[p] \in HandlerType
  BY DEF TypeInv, TypeOK
<1>2. [h[p] EXCEPT !.pc = pc] \in HandlerType
  BY <1>1 DEF HandlerType
<1> QED
  BY <1>1, <1>2 DEF HandlerOK, HandlerType

(* What the local state of a handler says at the steps of a request.       *)
LEMMA AtStep ==
  ASSUME TypeInv, NEW p \in Procs
  PROVE  /\ h[p] \in HandlerType
         /\ h[p].pc \notin {"idle", "d_delete"} => h[p].user \in Users
         /\ h[p].pc \notin {"act_read", "act_tx"} => h[p].src = NoPay
         /\ h[p].pc \in {"reserve", "unbooth", "c_booth", "d_delete"} => h[p].booth \in Booths
         /\ h[p].pc = "c_promote" => h[p].next \in Users
  BY DEF TypeInv, HandlerOK

(* The parts of TypeInv that an action leaves alone.                       *)
LEMMA Reassemble ==
  ASSUME TypeInv, DbType', active' \in BOOLEAN,
         h' \in [Procs -> HandlerType], (\A q \in Procs : HandlerOK(h[q]))',
         acked' \subseteq funds, UNCHANGED <<sessions, funds>>, fails' \in Nat
  PROVE  TypeInv'
  BY DEF TypeInv, TypeOK, DbType

LEMMA ReadExistingType ==
  ASSUME TypeInv, NEW p \in Procs, ReadExisting(p)
  PROVE  TypeInv'
<1> DEFINE r == [h[p] EXCEPT !.pc = "ticket", !.had = regs[h[p].user].status # "NONE"]
<1>1. h[p].pc = "existing" /\ DbType' /\ UNCHANGED <<active, sessions, funds, fails>>
  BY DEF ReadExisting, Database, Outside, TypeInv, TypeOK, DbType
<1>2. HandlerOK(r)
  BY <1>1, AtStep DEF HandlerOK, HandlerType, PCs
<1>3. CASE Goto(p, r) /\ UNCHANGED acked
  BY <1>1, <1>2, <1>3, GotoOK, Reassemble DEF TypeInv, TypeOK
<1>4. CASE Throw(p)
  BY <1>1, <1>4, ThrowOK, Reassemble DEF TypeInv, TypeOK
<1> QED BY <1>3, <1>4 DEF ReadExisting

LEMMA ReadTicketTypeType ==
  ASSUME TypeInv, NEW p \in Procs, ReadTicketType(p)
  PROVE  TypeInv'
<1> DEFINE r == [h[p] EXCEPT !.pc = "booth"]
<1>1. h[p].pc = "ticket" /\ DbType' /\ UNCHANGED <<active, sessions, funds, fails>>
  BY DEF ReadTicketType, Database, Outside, TypeInv, TypeOK, DbType
<1>2. HandlerOK(r)
  BY <1>1, AtStep, AdvanceOK DEF PCs
<1>3. CASE Goto(p, r) /\ UNCHANGED acked
  BY <1>1, <1>2, <1>3, GotoOK, Reassemble DEF TypeInv, TypeOK
<1>4. CASE Throw(p)
  BY <1>1, <1>4, ThrowOK, Reassemble DEF TypeInv, TypeOK
<1> QED BY <1>3, <1>4 DEF ReadTicketType

LEMMA ReadBoothType ==
  ASSUME TypeInv, NEW p \in Procs, ReadBooth(p)
  PROVE  TypeInv'
<1> DEFINE r == [h[p] EXCEPT !.pc = "write"]
<1>1. h[p].pc = "booth" /\ DbType' /\ UNCHANGED <<active, sessions, funds, fails>>
  BY DEF ReadBooth, Database, Outside, TypeInv, TypeOK, DbType
<1>2. HandlerOK(r)
  BY <1>1, AtStep, AdvanceOK DEF PCs
<1>3. CASE Goto(p, r) /\ UNCHANGED acked
  BY <1>1, <1>2, <1>3, GotoOK, Reassemble DEF TypeInv, TypeOK
<1>4. CASE Throw(p)
  BY <1>1, <1>4, ThrowOK, Reassemble DEF TypeInv, TypeOK
<1> QED BY <1>3, <1>4 DEF ReadBooth

LEMMA WriteRegistrationType ==
  ASSUME TypeInv, NEW p \in Procs, WriteRegistration(p)
  PROVE  TypeInv'
<1>1. h[p].pc = "write" /\ UNCHANGED <<booths, active, sessions, funds, fails>>
  BY DEF WriteRegistration, Outside
<1>2. h[p].user \in Users /\ h[p].src = NoPay
  BY <1>1, AtStep
<1>3. CASE Throw(p) /\ UNCHANGED regs
  BY <1>1, <1>3, ThrowOK, Reassemble DEF TypeInv, TypeOK, DbType
<1>4. CASE /\ regs' = [regs EXCEPT ![h[p].user] = NewRow(p)]
           /\ Goto(p, IF h[p].booth # None /\ Costs(p) THEN [h[p] EXCEPT !.pc = "reserve"]
                      ELSE PaymentStep(p))
           /\ UNCHANGED acked
  <2>1. DbType'
    BY <1>1, <1>2, <1>4, NewRowType DEF TypeInv, TypeOK, DbType
  <2>2. h[p].booth # None => HandlerOK([h[p] EXCEPT !.pc = "reserve"])
    BY <1>2, AtStep, AdvanceOK DEF PCs, HandlerType
  <2>3. HandlerOK(PaymentStep(p))
    BY <1>2, PaymentStepOK
  <2> QED BY <1>1, <1>4, <2>1, <2>2, <2>3, GotoOK, Reassemble DEF TypeInv, TypeOK
<1> QED BY <1>3, <1>4 DEF WriteRegistration

LEMMA ReserveBoothType ==
  ASSUME TypeInv, NEW p \in Procs, ReserveBooth(p)
  PROVE  TypeInv'
<1>1. /\ h[p].pc = "reserve" /\ h[p].booth \in Booths /\ h[p].user \in Users
      /\ UNCHANGED <<regs, active, sessions, funds, fails>>
  BY AtStep DEF ReserveBooth, Outside
<1>2. CASE Throw(p) /\ UNCHANGED booths
  BY <1>1, <1>2, ThrowOK, Reassemble DEF TypeInv, TypeOK, DbType
<1>3. CASE /\ booths' = [booths EXCEPT ![h[p].booth] = [status |-> "RESERVED", by |-> h[p].user]]
           /\ Goto(p, PaymentStep(p))
           /\ UNCHANGED acked
  <2>1. DbType'
    BY <1>1, <1>3 DEF TypeInv, TypeOK, DbType
  <2> QED BY <1>1, <1>3, <2>1, PaymentStepOK, GotoOK, Reassemble DEF TypeInv, TypeOK
<1> QED BY <1>2, <1>3 DEF ReserveBooth

LEMMA StorePaymentIdType ==
  ASSUME TypeInv, NEW p \in Procs, StorePaymentId(p)
  PROVE  TypeInv'
<1> DEFINE u == h[p].user
           c == NextCheckout(u, h[p].via)
<1>1. /\ h[p].pc = "store" /\ UNCHANGED <<booths, active, funds, fails>>
      /\ regs' = [regs EXCEPT ![u].pay = c]
      /\ sessions' = sessions \cup {[user |-> u, pay |-> c]}
      /\ Reply(p)
  BY DEF StorePaymentId
<1>2. u \in Users /\ h[p].via \in {"stripe", "wise"}
  BY <1>1, AtStep DEF HandlerType
<1>3. c \in Checkouts /\ c \in Payments
  BY <1>2, NextCheckoutType, CheckoutIsPayment
<1>4. regs' \in [Users -> RowType]
  BY <1>1, <1>2, <1>3 DEF TypeInv, TypeOK, RowType
<1>5. sessions' \subseteq [user : Users, pay : Checkouts]
  BY <1>1, <1>2, <1>3 DEF TypeInv, TypeOK
<1>6. IsFiniteSet(sessions')
  BY <1>1, FS_AddElement DEF TypeInv, TypeOK
<1>7. /\ h' \in [Procs -> HandlerType] /\ (\A q \in Procs : HandlerOK(h[q]))'
      /\ acked' \subseteq funds'
  BY <1>1, ReplyOK
<1> QED BY <1>1, <1>4, <1>5, <1>6, <1>7 DEF TypeInv, TypeOK

LEMMA UndoRegistrationType ==
  ASSUME TypeInv, NEW p \in Procs, UndoRegistration(p)
  PROVE  TypeInv'
<1>1. /\ h[p].pc = "undo" /\ UNCHANGED <<booths, active, sessions, funds, fails>>
      /\ regs' = [regs EXCEPT ![h[p].user].status = "CANCELLED"]
  BY DEF UndoRegistration, Outside
<1>2. h[p].user \in Users /\ h[p].src = NoPay /\ h[p] \in HandlerType
  BY <1>1, AtStep
<1>3. DbType'
  BY <1>1, <1>2 DEF TypeInv, TypeOK, DbType, RowType
<1>4. CASE Throw(p)
  BY <1>1, <1>3, <1>4, ThrowOK, Reassemble DEF TypeInv, TypeOK
<1>5. CASE h[p].booth # None /\ Goto(p, [h[p] EXCEPT !.pc = "unbooth"]) /\ UNCHANGED acked
  <2>1. HandlerOK([h[p] EXCEPT !.pc = "unbooth"])
    BY <1>2, <1>5, AdvanceOK DEF HandlerType, PCs
  <2> QED BY <1>1, <1>3, <1>5, <2>1, GotoOK, Reassemble DEF TypeInv, TypeOK
<1> QED BY <1>4, <1>5 DEF UndoRegistration

(* A released booth is AVAILABLE or stays deleted.                         *)
LEMMA FreeBoothType ==
  ASSUME TypeInv, NEW b \in Booths, FreeBooth(b), UNCHANGED regs
  PROVE  DbType'
  BY DEF TypeInv, TypeOK, DbType, FreeBooth

LEMMA UndoBoothType ==
  ASSUME TypeInv, NEW p \in Procs, UndoBooth(p)
  PROVE  TypeInv'
<1>1. /\ h[p].pc = "unbooth" /\ UNCHANGED <<regs, active, sessions, funds, fails>>
      /\ FreeBooth(h[p].booth) /\ Throw(p)
  BY DEF UndoBooth, Outside
<1>2. DbType'
  BY <1>1, AtStep, FreeBoothType
<1> QED BY <1>1, <1>2, ThrowOK, Reassemble DEF TypeInv, TypeOK

LEMMA ActivateReadType ==
  ASSUME TypeInv, NEW p \in Procs, ActivateRead(p)
  PROVE  TypeInv'
<1> DEFINE r == [h[p] EXCEPT !.pc = "act_tx", !.booth = regs[h[p].user].booth]
<1>1. h[p].pc = "act_read" /\ DbType' /\ UNCHANGED <<active, sessions, funds, fails>>
  BY DEF ActivateRead, Database, Outside, TypeInv, TypeOK, DbType
<1>2. h[p].user \in Users /\ HandlerOK(h[p]) /\ h[p] \in HandlerType
  BY <1>1, AtStep DEF TypeInv
<1>3. regs[h[p].user].booth \in Booths \cup {None}
  BY <1>2 DEF TypeInv, TypeOK, RowType
<1>4. r \in HandlerType
  BY <1>2, <1>3 DEF HandlerType, PCs
<1>5. HandlerOK(r)
  BY <1>1, <1>2, <1>4 DEF HandlerOK, HandlerType
<1>6. CASE Goto(p, r) /\ UNCHANGED acked
  BY <1>1, <1>5, <1>6, GotoOK, Reassemble DEF TypeInv, TypeOK
<1>7. CASE Reply(p)
  BY <1>1, <1>7, ReplyOK, Reassemble DEF TypeInv, TypeOK
<1> QED BY <1>6, <1>7 DEF ActivateRead

LEMMA ActivateTxType ==
  ASSUME TypeInv, NEW p \in Procs, ActivateTx(p)
  PROVE  TypeInv'
<1>1. h[p].pc = "act_tx" /\ UNCHANGED <<active, sessions, funds, fails>>
  BY DEF ActivateTx, Outside
<1>2. h[p].user \in Users /\ h[p] \in HandlerType
  BY <1>1, AtStep
<1>3. CASE Throw(p) /\ UNCHANGED <<regs, booths>>
  BY <1>1, <1>3, ThrowOK, Reassemble DEF TypeInv, TypeOK, DbType
<1>4. CASE /\ regs' = [regs EXCEPT ![h[p].user].status = "REGISTERED",
                                   ![h[p].user].paid = TRUE, ![h[p].user].pay = h[p].pay]
           /\ booths' = OccupyBooth(h[p].booth)
           /\ Reply(p)
  <2>1. regs' \in [Users -> RowType]
    BY <1>2, <1>4 DEF TypeInv, TypeOK, RowType, HandlerType
  <2>2. DbType'
    BY <1>2, <1>4, <2>1 DEF TypeInv, TypeOK, DbType, OccupyBooth, HandlerType
  <2> QED BY <1>1, <1>4, <2>2, ReplyOK, Reassemble DEF TypeInv, TypeOK
<1> QED BY <1>3, <1>4 DEF ActivateTx

(* A handler that starts with nothing but the user it works for.           *)
LEMMA StartOK ==
  ASSUME TypeInv, NEW p \in Procs, NEW r,
         r \in HandlerType, r.user \in Users, r.src = NoPay,
         r.pc \in {"existing", "ci_write", "c_write"}, Goto(p, r),
         UNCHANGED <<Database, Outside, acked>>
  PROVE  TypeInv'
<1>1. HandlerOK(r)
  BY DEF HandlerOK
<1>2. UNCHANGED <<regs, booths, active, sessions, funds, fails, acked>>
  BY DEF Database, Outside
<1>3. h' \in [Procs -> HandlerType] /\ (\A q \in Procs : HandlerOK(h[q]))'
  BY <1>1, <1>2, GotoOK
<1> QED BY <1>2, <1>3 DEF TypeInv, TypeOK

LEMMA RegisterType ==
  ASSUME TypeInv, NEW p \in Procs, NEW u \in Users, NEW ticket \in Tickets \cup {None},
         NEW booth \in Booths \cup {None}, NEW via \in Providers,
         Register(p, u, ticket, booth, via)
  PROVE  TypeInv'
<1> DEFINE full == Capacity > 0 /\ Cardinality({v \in Users : Confirmed(v)}) >= Capacity
           r == [Idle EXCEPT !.pc = "existing", !.user = u, !.ticket = ticket,
                             !.booth = booth, !.via = via, !.full = full]
<1>1. full \in BOOLEAN /\ via \in {"stripe", "wise"} /\ NoPay \in Payments
  BY EventAssumption DEF Payments
<1>2. Goto(p, r) /\ UNCHANGED <<Database, Outside, acked>>
  BY DEF Register
<1> HIDE DEF full
<1>3. r \in HandlerType /\ r.user = u /\ r.src = NoPay /\ r.pc = "existing"
  BY <1>1 DEF Idle, HandlerType, PCs
<1> QED BY <1>2, <1>3, StartOK

LEMMA CheckInReadType ==
  ASSUME TypeInv, NEW p \in Procs, NEW u \in Users, CheckInRead(p, u)
  PROVE  TypeInv'
<1> DEFINE r == [Idle EXCEPT !.pc = "ci_write", !.user = u]
<1>1. Goto(p, r) /\ UNCHANGED <<Database, Outside, acked>> /\ NoPay \in Payments
  BY DEF CheckInRead, Payments
<1>2. r \in HandlerType /\ r.user = u /\ r.src = NoPay /\ r.pc = "ci_write"
  BY <1>1 DEF Idle, HandlerType, PCs
<1> QED BY <1>1, <1>2, StartOK

LEMMA CancelReadType ==
  ASSUME TypeInv, NEW p \in Procs, NEW u \in Users, CancelRead(p, u)
  PROVE  TypeInv'
<1> DEFINE was == Confirmed(u)
           r == [Idle EXCEPT !.pc = "c_write", !.user = u,
                             !.booth = regs[u].booth, !.was = was]
<1>1. Goto(p, r) /\ UNCHANGED <<Database, Outside, acked>> /\ NoPay \in Payments
  BY DEF CancelRead, Payments
<1>2. regs[u].booth \in Booths \cup {None} /\ was \in BOOLEAN
  BY DEF TypeInv, TypeOK, RowType, Confirmed
<1> HIDE DEF was
<1>3. r \in HandlerType /\ r.user = u /\ r.src = NoPay /\ r.pc = "c_write"
  BY <1>1, <1>2 DEF Idle, HandlerType, PCs
<1> QED BY <1>1, <1>3, StartOK

LEMMA CheckInWriteType ==
  ASSUME TypeInv, NEW p \in Procs, CheckInWrite(p)
  PROVE  TypeInv'
<1>1. /\ h[p].pc = "ci_write" /\ UNCHANGED <<booths, active, sessions, funds, fails>>
      /\ regs' = [regs EXCEPT ![h[p].user].status = "ATTENDED"] /\ Reply(p)
  BY DEF CheckInWrite, Outside
<1>2. DbType'
  BY <1>1, AtStep DEF TypeInv, TypeOK, DbType, RowType
<1> QED BY <1>1, <1>2, ReplyOK, Reassemble DEF TypeInv, TypeOK

(* The end of a cancellation, with the database already well typed.        *)
LEMMA PromotionStepType ==
  ASSUME TypeInv, NEW p \in Procs, h[p].user \in Users, h[p].src = NoPay,
         PromotionStep(p), DbType', UNCHANGED <<active, sessions, funds, fails>>
  PROVE  TypeInv'
<1>1. CASE Goto(p, [h[p] EXCEPT !.pc = "c_find"]) /\ UNCHANGED acked
  <2>1. HandlerOK([h[p] EXCEPT !.pc = "c_find"])
    BY AdvanceOK DEF PCs
  <2> QED BY <1>1, <2>1, GotoOK, Reassemble DEF TypeInv, TypeOK
<1>2. CASE Reply(p)
  BY <1>2, ReplyOK, Reassemble DEF TypeInv, TypeOK
<1> QED BY <1>1, <1>2 DEF PromotionStep

LEMMA CancelWriteType ==
  ASSUME TypeInv, NEW p \in Procs, CancelWrite(p)
  PROVE  TypeInv'
<1>1. /\ h[p].pc = "c_write" /\ UNCHANGED <<booths, active, sessions, funds, fails>>
      /\ regs' = [regs EXCEPT ![h[p].user].status = "CANCELLED"]
  BY DEF CancelWrite, Outside
<1>2. h[p].user \in Users /\ h[p].src = NoPay /\ h[p] \in HandlerType
  BY <1>1, AtStep
<1>3. DbType'
  BY <1>1, <1>2 DEF TypeInv, TypeOK, DbType, RowType
<1>4. CASE h[p].booth # None /\ Goto(p, [h[p] EXCEPT !.pc = "c_booth"]) /\ UNCHANGED acked
  <2>1. HandlerOK([h[p] EXCEPT !.pc = "c_booth"])
    BY <1>2, <1>4, AdvanceOK DEF HandlerType, PCs
  <2> QED BY <1>1, <1>3, <1>4, <2>1, GotoOK, Reassemble DEF TypeInv, TypeOK
<1>5. CASE PromotionStep(p)
  BY <1>1, <1>2, <1>3, <1>5, PromotionStepType
<1> QED BY <1>4, <1>5 DEF CancelWrite

LEMMA CancelBoothType ==
  ASSUME TypeInv, NEW p \in Procs, CancelBooth(p)
  PROVE  TypeInv'
<1>1. /\ h[p].pc = "c_booth" /\ FreeBooth(h[p].booth)
      /\ UNCHANGED <<regs, active, sessions, funds, fails>>
  BY DEF CancelBooth, Outside
<1>2. DbType' /\ h[p].user \in Users /\ h[p].src = NoPay
  BY <1>1, AtStep, FreeBoothType
<1>3. CASE Throw(p)
  BY <1>1, <1>2, <1>3, ThrowOK, Reassemble DEF TypeInv, TypeOK
<1>4. CASE PromotionStep(p)
  BY <1>1, <1>2, <1>4, PromotionStepType
<1> QED BY <1>3, <1>4 DEF CancelBooth

LEMMA FindNextType ==
  ASSUME TypeInv, NEW p \in Procs, FindNext(p)
  PROVE  TypeInv'
<1>1. h[p].pc = "c_find" /\ DbType' /\ UNCHANGED <<active, sessions, funds, fails>>
  BY DEF FindNext, Database, Outside, TypeInv, TypeOK, DbType
<1>2. CASE Reply(p)
  BY <1>1, <1>2, ReplyOK, Reassemble DEF TypeInv, TypeOK
<1>3. ASSUME NEW u \in Promotable,
             Goto(p, [h[p] EXCEPT !.pc = "c_promote", !.next = u]), UNCHANGED acked
      PROVE  TypeInv'
  <2>1. u \in Users
    BY DEF Promotable
  <2>2. HandlerOK([h[p] EXCEPT !.pc = "c_promote", !.next = u])
    BY <1>1, <2>1, AtStep DEF HandlerOK, HandlerType, PCs
  <2> QED BY <1>1, <1>3, <2>2, GotoOK, Reassemble DEF TypeInv, TypeOK
<1> QED BY <1>2, <1>3 DEF FindNext

LEMMA PromoteNextType ==
  ASSUME TypeInv, NEW p \in Procs, PromoteNext(p)
  PROVE  TypeInv'
<1>1. /\ h[p].pc = "c_promote" /\ UNCHANGED <<booths, active, sessions, funds, fails>>
      /\ regs' = [regs EXCEPT ![h[p].next].status = "REGISTERED"] /\ Reply(p)
  BY DEF PromoteNext, Outside
<1>2. DbType'
  BY <1>1, AtStep DEF TypeInv, TypeOK, DbType, RowType
<1> QED BY <1>1, <1>2, ReplyOK, Reassemble DEF TypeInv, TypeOK

LEMMA DeleteBoothReadType ==
  ASSUME TypeInv, NEW p \in Procs, NEW b \in Booths, DeleteBoothRead(p, b)
  PROVE  TypeInv'
<1> DEFINE r == [Idle EXCEPT !.pc = "d_delete", !.booth = b]
<1>1. /\ Goto(p, r) /\ DbType'
      /\ UNCHANGED <<active, sessions, funds, fails, acked>> /\ NoPay \in Payments
  BY DEF DeleteBoothRead, Database, Outside, TypeInv, TypeOK, DbType, Payments
<1>2. r \in HandlerType /\ r.booth = b /\ r.src = NoPay /\ r.pc = "d_delete"
  BY <1>1 DEF Idle, HandlerType, PCs
<1>3. HandlerOK(r)
  BY <1>2 DEF HandlerOK
<1> QED BY <1>1, <1>3, GotoOK, Reassemble DEF TypeInv, TypeOK

LEMMA DeleteBoothWriteType ==
  ASSUME TypeInv, NEW p \in Procs, DeleteBoothWrite(p)
  PROVE  TypeInv'
<1> DEFINE b == h[p].booth
<1>1. h[p].pc = "d_delete" /\ UNCHANGED <<active, sessions, funds, fails>>
  BY DEF DeleteBoothWrite, Outside
<1>2. CASE Throw(p) /\ UNCHANGED <<regs, booths>>
  BY <1>1, <1>2, ThrowOK, Reassemble DEF TypeInv, TypeOK, DbType
<1>3. CASE /\ booths' = [booths EXCEPT ![b] = [status |-> "DELETED", by |-> None]]
           /\ regs' = [u \in Users |-> [regs[u] EXCEPT !.booth = IF @ = b THEN None ELSE @]]
           /\ Reply(p)
  <2>1. regs' \in [Users -> RowType]
    BY <1>3 DEF TypeInv, TypeOK, RowType
  <2>2. DbType'
    BY <1>3, <2>1 DEF TypeInv, TypeOK, DbType
  <2> QED BY <1>1, <1>3, <2>2, ReplyOK, Reassemble DEF TypeInv, TypeOK
<1> QED BY <1>2, <1>3 DEF DeleteBoothWrite

LEMMA RemoveEventType ==
  ASSUME TypeInv, RemoveEvent
  PROVE  TypeInv'
  BY DEF RemoveEvent, Outside, TypeInv, TypeOK, HandlerOK

LEMMA FailType ==
  ASSUME TypeInv, NEW p \in Procs, Fail(p)
  PROVE  TypeInv'
<1>1. /\ Throw(p) /\ fails' = fails + 1 /\ DbType'
      /\ UNCHANGED <<active, sessions, funds>>
  BY DEF Fail, Database, TypeInv, TypeOK, DbType
<1> QED BY <1>1, ThrowOK, Reassemble DEF TypeInv, TypeOK

(* A webhook works for the user whose checkout was paid.                   *)
LEMMA WebhookType ==
  ASSUME TypeInv, NEW s \in funds, Webhook(s)
  PROVE  TypeInv'
<1>1. PICK p \in Procs : StripeWebhook(p, s) \/ WiseWebhook(p, s)
  BY DEF Webhook
<1> DEFINE r == [Idle EXCEPT !.pc = "act_read", !.user = s.user, !.pay = s.pay, !.src = s.pay]
<1>2. /\ DbType' /\ UNCHANGED <<active, sessions, funds, fails>>
  BY <1>1 DEF StripeWebhook, WiseWebhook, Database, Outside, TypeInv, TypeOK, DbType
<1>3. /\ s.user \in Users /\ s.pay \in Payments /\ s = [user |-> s.user, pay |-> s.pay]
  BY CheckoutIsPayment DEF TypeInv, TypeOK
<1>4. /\ r \in HandlerType /\ r.user = s.user /\ r.pay = s.pay /\ r.src = s.pay
      /\ r.pc = "act_read"
  BY <1>3 DEF Idle, HandlerType, PCs
<1>5. HandlerOK(r)
  BY <1>3, <1>4 DEF HandlerOK
<1>6. CASE Goto(p, r) /\ UNCHANGED acked
  BY <1>2, <1>5, <1>6, GotoOK, Reassemble DEF TypeInv, TypeOK
<1>7. CASE acked' = acked \cup {s} /\ UNCHANGED h
  BY <1>2, <1>7, Reassemble DEF TypeInv, TypeOK, HandlerOK
<1> QED BY <1>1, <1>6, <1>7 DEF StripeWebhook, WiseWebhook

LEMMA PayType ==
  ASSUME TypeInv, NEW s \in sessions, Pay(s)
  PROVE  TypeInv'
  BY DEF Pay, Database, TypeInv, TypeOK, HandlerOK

-----------------------------------------------------------------------------
LEMMA TypeInvStep == TypeInv /\ [Next]_vars => TypeInv'
<1> SUFFICES ASSUME TypeInv, [Next]_vars PROVE TypeInv'
  OBVIOUS
<1>1. ASSUME NEW p \in Procs, Step(p) PROVE TypeInv'
  BY <1>1, ReadExistingType, ReadTicketTypeType, ReadBoothType, WriteRegistrationType,
     ReserveBoothType, StorePaymentIdType, UndoRegistrationType, UndoBoothType,
     ActivateReadType, ActivateTxType, CheckInWriteType, CancelWriteType, CancelBoothType,
     FindNextType, PromoteNextType, DeleteBoothWriteType DEF Step
<1>2. ASSUME NEW p \in Procs, Start(p) PROVE TypeInv'
  BY <1>2, RegisterType, CheckInReadType, CancelReadType, DeleteBoothReadType DEF Start
<1>3. ASSUME NEW p \in Procs, Fail(p) PROVE TypeInv'
  BY <1>3, FailType
<1>4. ASSUME NEW s \in funds, Webhook(s) PROVE TypeInv'
  BY <1>4, WebhookType
<1>5. ASSUME NEW s \in sessions, Pay(s) PROVE TypeInv'
  BY <1>5, PayType
<1>6. CASE RemoveEvent
  BY <1>6, RemoveEventType
<1>7. CASE UNCHANGED vars
  BY <1>7 DEF vars, TypeInv, TypeOK, HandlerOK
<1> QED BY <1>1, <1>2, <1>3, <1>4, <1>5, <1>6, <1>7 DEF Next

LEMMA TypeInvInit == Init => TypeInv
<1> SUFFICES ASSUME Init PROVE TypeInv
  OBVIOUS
<1>1. IsFiniteSet({})
  BY FS_EmptySet
<1>2. HandlerOK(Idle) /\ Idle \in HandlerType /\ NoRow \in RowType
  BY IdleOK DEF HandlerOK
<1> QED BY <1>1, <1>2 DEF Init, TypeInv, TypeOK

(* Every reachable state is well typed, whatever the interleaving.         *)
THEOREM TypeCorrect == Spec => []TypeOK
<1>1. TypeInv => TypeOK
  BY DEF TypeInv
<1> QED BY <1>1, TypeInvInit, TypeInvStep, PTL DEF Spec

-----------------------------------------------------------------------------
(* A user waits for an answer before the next request, and registrations   *)
(* are never activated by the sandbox.                                     *)
Orderly == ~DoubleSubmit /\ (StripeOn \/ Production)

(* The inductive form of PaidHasFunds.  At most one slot runs a request of *)
(* a user, so the row that a registration activates without a payment is   *)
(* still the one it wrote, and that one is free.                           *)
OneRequest ==
  \A u \in Users, p, q \in Procs : RequestOf(p, u) /\ RequestOf(q, u) => p = q

FreeActivation ==
  \A p \in Procs : h[p].pc \in {"act_read", "act_tx"} /\ h[p].src = NoPay =>
    ~Owed(h[p].user)

ReserveCosts == \A p \in Procs : h[p].pc = "reserve" => Costs(p)

PaymentInv == TypeInv /\ OneRequest /\ FreeActivation /\ ReserveCosts /\ PaidHasFunds

LEMMA PaymentInvInit == Init => PaymentInv
  BY TypeInvInit DEF Init, PaymentInv, OneRequest, FreeActivation, ReserveCosts, PaidHasFunds,
     RequestOf, Idle, NoRow

(* A step ends its handler or goes on for the same user and payment.       *)
SameWork(p) ==
  \/ h'[p] = Idle
  \/ /\ h'[p].user = h[p].user /\ h'[p].src = h[p].src
     /\ h[p].pc \notin {"idle", "ci_write"}

LEMMA GotoLocal ==
  ASSUME TypeInv, NEW p \in Procs, NEW r, Goto(p, r)
  PROVE  h'[p] = r /\ \A q \in Procs \ {p} : h'[q] = h[q]
  BY DEF Goto, TypeInv, TypeOK

LEMMA PaymentStepLocal ==
  ASSUME NEW p \in Procs
  PROVE  PaymentStep(p).user = h[p].user /\ PaymentStep(p).src = NoPay
  BY DEF PaymentStep, Continue, Idle

LEMMA StepLocal ==
  ASSUME TypeInv, NEW p \in Procs, Step(p)
  PROVE  SameWork(p) /\ \A q \in Procs \ {p} : h'[q] = h[q]
<1>0. h[p] \in HandlerType
  BY AtStep
<1>1. \A q \in Procs \ {p} : h'[q] = h[q]
  BY GotoLocal DEF Step, ReadExisting, ReadTicketType, ReadBooth, WriteRegistration,
     ReserveBooth, StorePaymentId, UndoRegistration, UndoBooth, ActivateRead, ActivateTx,
     CheckInWrite, CancelWrite, CancelBooth, PromotionStep, FindNext, PromoteNext,
     DeleteBoothWrite, Reply, Throw
<1> SUFFICES SameWork(p)
  BY <1>1
<1>2. CASE Reply(p) \/ Throw(p)
  BY <1>2, GotoLocal DEF Reply, Throw, SameWork
<1>a. ASSUME NEW r, Goto(p, r), r.user = h[p].user, r.src = h[p].src,
             h[p].pc \notin {"idle", "ci_write"}
      PROVE  SameWork(p)
  BY <1>a, GotoLocal DEF SameWork
<1>b. ASSUME NEW pc, Goto(p, [h[p] EXCEPT !.pc = pc]), h[p].pc \notin {"idle", "ci_write"}
      PROVE  SameWork(p)
  BY <1>0, <1>a, <1>b DEF HandlerType
<1>3. CASE ReadExisting(p) \/ ReadTicketType(p) \/ ReadBooth(p)
  <2>1. CASE ReadExisting(p)
    <3> DEFINE r == [h[p] EXCEPT !.pc = "ticket", !.had = regs[h[p].user].status # "NONE"]
    <3>1. r.user = h[p].user /\ r.src = h[p].src
      BY <1>0 DEF HandlerType
    <3> QED BY <1>2, <1>a, <2>1, <3>1 DEF ReadExisting
  <2> QED BY <1>2, <1>b, <1>3, <2>1 DEF ReadTicketType, ReadBooth
<1>4. CASE WriteRegistration(p)
  <2>1. h[p].pc = "write" /\ h[p].src = NoPay
    BY <1>4, AtStep DEF WriteRegistration
  <2>2. CASE Goto(p, [h[p] EXCEPT !.pc = "reserve"])
    BY <1>0, <2>1, <2>2, GotoLocal DEF SameWork, HandlerType
  <2>3. CASE Goto(p, PaymentStep(p))
    BY <2>1, <2>3, GotoLocal, PaymentStepLocal DEF SameWork
  <2> QED BY <1>2, <1>4, <2>2, <2>3 DEF WriteRegistration
<1>5. CASE ReserveBooth(p)
  <2>1. h[p].pc = "reserve" /\ h[p].src = NoPay
    BY <1>5, AtStep DEF ReserveBooth
  <2>2. CASE Goto(p, PaymentStep(p))
    BY <2>1, <2>2, GotoLocal, PaymentStepLocal DEF SameWork
  <2> QED BY <1>2, <1>5, <2>2 DEF ReserveBooth
<1>6. CASE UndoRegistration(p)
  BY <1>2, <1>b, <1>6 DEF UndoRegistration
<1>7. CASE ActivateRead(p)
  <2> DEFINE r == [h[p] EXCEPT !.pc = "act_tx", !.booth = regs[h[p].user].booth]
  <2>1. r.user = h[p].user /\ r.src = h[p].src
    BY <1>0 DEF HandlerType
  <2> QED BY <1>2, <1>a, <1>7, <2>1 DEF ActivateRead
<1>8. CASE CancelWrite(p) \/ CancelBooth(p)
  BY <1>2, <1>b, <1>8 DEF CancelWrite, CancelBooth, PromotionStep
<1>9. CASE FindNext(p)
  <2>1. ASSUME NEW u, Goto(p, [h[p] EXCEPT !.pc = "c_promote", !.next = u]) PROVE SameWork(p)
    <3>1. /\ [h[p] EXCEPT !.pc = "c_promote", !.next = u].user = h[p].user
          /\ [h[p] EXCEPT !.pc = "c_promote", !.next = u].src = h[p].src
      BY <1>0 DEF HandlerType
    <3> QED BY <1>a, <1>9, <2>1, <3>1 DEF FindNext
  <2> QED BY <1>2, <1>9, <2>1 DEF FindNext
<1>10. CASE \/ StorePaymentId(p) \/ UndoBooth(p) \/ ActivateTx(p) \/ CheckInWrite(p)
            \/ PromoteNext(p) \/ DeleteBoothWrite(p)
  BY <1>2, <1>10 DEF StorePaymentId, UndoBooth, ActivateTx, CheckInWrite, PromoteNext,
     DeleteBoothWrite
<1> QED
  BY <1>3, <1>4, <1>5, <1>6, <1>7, <1>8, <1>9, <1>10 DEF Step

(* Only a request that starts gives a slot to a user who had none.         *)
LEMMA OneRequestStep ==
  ASSUME PaymentInv, Orderly, [Next]_vars
  PROVE  OneRequest'
<1> DEFINE Unserved(u) == \A q \in Procs : ~RequestOf(q, u)
<1>1. ASSUME NEW p \in Procs, \A q \in Procs \ {p} : h'[q] = h[q],
             \A u \in Users : RequestOf(p, u)' => RequestOf(p, u) \/ Unserved(u)
      PROVE  OneRequest'
  BY <1>1 DEF PaymentInv, OneRequest, RequestOf
<1>2. ASSUME NEW p \in Procs, Step(p) PROVE OneRequest'
  <2>1. \A u \in Users : RequestOf(p, u)' => RequestOf(p, u)
    BY <1>2, StepLocal DEF SameWork, RequestOf, Idle, PaymentInv
  <2> QED BY <1>1, <1>2, <2>1, StepLocal DEF PaymentInv
<1>3. ASSUME NEW p \in Procs, NEW u \in Users, NEW r, Accept(p, u), Goto(p, r), r.user = u
      PROVE  OneRequest'
  <2>1. \A v \in Users : RequestOf(p, v)' => Unserved(v)
    BY <1>3, GotoLocal DEF RequestOf, Accept, Orderly, PaymentInv
  <2> QED BY <1>1, <1>3, <2>1, GotoLocal DEF PaymentInv
<1>4. ASSUME NEW p \in Procs, NEW r, Goto(p, r),
             r.user = None \/ r.src # NoPay \/ r.pc \in {"idle", "ci_write"}
      PROVE  OneRequest'
  <2>1. \A v \in Users : ~RequestOf(p, v)'
    BY <1>4, GotoLocal, EventAssumption DEF RequestOf, PaymentInv
  <2> QED BY <1>1, <1>4, <2>1, GotoLocal DEF PaymentInv
<1>5. ASSUME NEW p \in Procs, Start(p) PROVE OneRequest'
  <2>1. ASSUME NEW u \in Users, CheckInRead(p, u) PROVE OneRequest'
    BY <1>4, <2>1 DEF CheckInRead, Idle
  <2>2. ASSUME NEW u \in Users, CancelRead(p, u) PROVE OneRequest'
    BY <1>3, <2>2 DEF CancelRead, Idle
  <2>3. ASSUME NEW u \in Users, NEW t \in Tickets \cup {None}, NEW b \in Booths \cup {None},
               NEW via \in Providers, Register(p, u, t, b, via)
        PROVE  OneRequest'
    BY <1>3, <2>3 DEF Register, Idle
  <2>4. ASSUME NEW b \in Booths, DeleteBoothRead(p, b) PROVE OneRequest'
    BY <1>4, <2>4 DEF DeleteBoothRead, Idle
  <2> QED BY <1>5, <2>1, <2>2, <2>3, <2>4 DEF Start
<1>6. ASSUME NEW p \in Procs, Fail(p) PROVE OneRequest'
  BY <1>4, <1>6 DEF Fail, Throw, Idle
<1>7. ASSUME NEW s \in funds, Webhook(s) PROVE OneRequest'
  <2>1. s.pay # NoPay
    BY CheckoutIsPayment DEF PaymentInv, TypeInv, TypeOK
  <2>2. CASE UNCHANGED h
    BY <2>2 DEF PaymentInv, OneRequest, RequestOf
  <2> QED BY <1>4, <1>7, <2>1, <2>2 DEF Webhook, StripeWebhook, WiseWebhook, Idle
<1>8. CASE UNCHANGED h
  BY <1>8 DEF PaymentInv, OneRequest, RequestOf
<1> QED
  BY <1>2, <1>5, <1>6, <1>7, <1>8 DEF Next, Pay, RemoveEvent, vars

-----------------------------------------------------------------------------
(* No step but the writing of a registration and its activation makes a    *)
(* registration cost more or marks it paid.                                *)
Untouched(u) == (Owed(u)' => Owed(u)) /\ (regs'[u].paid => regs[u].paid)

LEMMA RowsUntouched ==
  ASSUME TypeInv, NEW p \in Procs, Step(p), ~WriteRegistration(p), ~ActivateTx(p),
         NEW u \in Users
  PROVE  Untouched(u)
<1>0. regs \in [Users -> RowType]
  BY DEF TypeInv, TypeOK
<1>1. CASE UNCHANGED regs
  BY <1>1 DEF Untouched, Owed
<1>2. ASSUME NEW v, NEW status, regs' = [regs EXCEPT ![v].status = status]
      PROVE  Untouched(u)
  BY <1>0, <1>2 DEF Untouched, Owed, RowType
<1>3. ASSUME NEW v, NEW pay, regs' = [regs EXCEPT ![v].pay = pay]
      PROVE  Untouched(u)
  BY <1>0, <1>3 DEF Untouched, Owed, RowType
<1>4. ASSUME NEW b, regs' = [v \in Users |-> [regs[v] EXCEPT !.booth = IF @ = b THEN None ELSE @]]
      PROVE  Untouched(u)
  <2>1. /\ regs'[u].ticket = regs[u].ticket /\ regs'[u].paid = regs[u].paid
        /\ regs'[u].booth \in {regs[u].booth, None}
    BY <1>0, <1>4 DEF RowType
  <2> QED BY <2>1 DEF Untouched, Owed, IsFree
<1>5. CASE CheckInWrite(p) \/ UndoRegistration(p) \/ CancelWrite(p) \/ PromoteNext(p)
  BY <1>2, <1>5 DEF CheckInWrite, UndoRegistration, CancelWrite, PromoteNext
<1>6. CASE StorePaymentId(p)
  BY <1>3, <1>6 DEF StorePaymentId
<1>7. CASE DeleteBoothWrite(p)
  BY <1>1, <1>4, <1>7 DEF DeleteBoothWrite
<1>8. CASE \/ ReadExisting(p) \/ ReadTicketType(p) \/ ReadBooth(p) \/ ReserveBooth(p)
           \/ UndoBooth(p) \/ ActivateRead(p) \/ CancelBooth(p) \/ FindNext(p)
  BY <1>1, <1>8 DEF ReadExisting, ReadTicketType, ReadBooth, ReserveBooth, UndoBooth,
     ActivateRead, CancelBooth, FindNext, Database
<1> QED BY <1>5, <1>6, <1>7, <1>8 DEF Step

(* Writing a registration resets paidAt and fixes what it costs.           *)
LEMMA RowWritten ==
  ASSUME TypeInv, NEW p \in Procs, WriteRegistration(p), NEW u \in Users
  PROVE  \/ Untouched(u)
         \/ u = h[p].user /\ ~regs'[u].paid /\ Owed(u)' = Costs(p)
<1>0. regs \in [Users -> RowType]
  BY DEF TypeInv, TypeOK
<1>1. CASE UNCHANGED regs
  BY <1>1 DEF Untouched, Owed
<1>2. CASE regs' = [regs EXCEPT ![h[p].user] = NewRow(p)]
  <2>1. CASE u # h[p].user
    BY <1>0, <1>2, <2>1 DEF Untouched, Owed
  <2>2. CASE u = h[p].user
    <3>1. regs'[u] = NewRow(p)
      BY <1>0, <1>2, <2>2
    <3> QED BY <2>2, <3>1 DEF NewRow, RowWith, Owed, Costs
  <2> QED BY <2>1, <2>2
<1> QED BY <1>1, <1>2 DEF WriteRegistration

(* Activation changes neither ticket nor booth of a row.                   *)
LEMMA RowActivated ==
  ASSUME TypeInv, NEW p \in Procs, ActivateTx(p), NEW u \in Users
  PROVE  (Owed(u)' => Owed(u)) /\ (regs'[u].paid => regs[u].paid \/ u = h[p].user)
<1>0. regs \in [Users -> RowType]
  BY DEF TypeInv, TypeOK
<1>1. CASE UNCHANGED regs
  BY <1>1 DEF Owed
<1>2. CASE regs' = [regs EXCEPT ![h[p].user].status = "REGISTERED",
                                ![h[p].user].paid = TRUE, ![h[p].user].pay = h[p].pay]
  BY <1>0, <1>2 DEF Owed, RowType
<1> QED BY <1>1, <1>2 DEF ActivateTx

LEMMA PaidHasFundsStep ==
  ASSUME PaymentInv, [Next]_vars
  PROVE  PaidHasFunds'
<1>1. ASSUME funds \subseteq funds', \A u \in Users : Untouched(u)
      PROVE  PaidHasFunds'
  BY <1>1 DEF PaymentInv, PaidHasFunds, Untouched
<1>2. ASSUME NEW p \in Procs, WriteRegistration(p) PROVE PaidHasFunds'
  BY <1>2, RowWritten DEF PaymentInv, PaidHasFunds, Untouched, WriteRegistration, Outside
<1>3. ASSUME NEW p \in Procs, ActivateTx(p) PROVE PaidHasFunds'
  <2>1. ASSUME NEW u \in Users, regs'[u].paid, Owed(u)' PROVE \E s \in funds : s.user = u
    <3>1. CASE regs[u].paid
      BY <1>3, <2>1, <3>1, RowActivated DEF PaymentInv, PaidHasFunds
    <3>2. CASE u = h[p].user
      <4>1. h[p].pc = "act_tx" /\ HandlerOK(h[p]) /\ Owed(u)
        BY <1>3, <2>1, RowActivated DEF ActivateTx, PaymentInv, TypeInv
      <4>2. h[p].src # NoPay
        BY <3>2, <4>1 DEF PaymentInv, FreeActivation
      <4> QED BY <3>2, <4>1, <4>2 DEF HandlerOK
    <3> QED BY <1>3, <2>1, <3>1, <3>2, RowActivated DEF PaymentInv
  <2>2. UNCHANGED funds
    BY <1>3 DEF ActivateTx, Outside
  <2> QED BY <2>1, <2>2 DEF PaidHasFunds
<1>4. ASSUME NEW p \in Procs, Step(p) PROVE PaidHasFunds'
  <2>1. UNCHANGED funds
    BY <1>4 DEF Step, ReadExisting, ReadTicketType, ReadBooth, WriteRegistration,
       ReserveBooth, StorePaymentId, UndoRegistration, UndoBooth, ActivateRead, ActivateTx,
       CheckInWrite, CancelWrite, CancelBooth, FindNext, PromoteNext, DeleteBoothWrite, Outside
  <2> QED BY <1>1, <1>2, <1>3, <1>4, <2>1, RowsUntouched DEF PaymentInv
<1>5. CASE UNCHANGED regs /\ funds \subseteq funds'
  BY <1>1, <1>5 DEF Untouched, Owed
<1>6. \/ \E p \in Procs : Step(p)
      \/ UNCHANGED regs /\ funds \subseteq funds'
  BY DEF Next, vars, Start, Register, CheckInRead, CancelRead, DeleteBoothRead, Fail, Webhook,
     StripeWebhook, WiseWebhook, Pay, RemoveEvent, Database, Outside
<1> QED BY <1>4, <1>5, <1>6

-----------------------------------------------------------------------------
(* Without the sandbox, a registration that costs money is not activated   *)
(* by the request that made it.                                            *)
LEMMA PaymentStepTarget ==
  ASSUME Orderly, NEW p \in Procs
  PROVE  /\ PaymentStep(p).pc \in {"act_read", "store", "undo"}
         /\ PaymentStep(p).pc = "act_read" => ~Costs(p)
  BY DEF Orderly, PaymentStep, Continue, Idle

(* Where the steps of a registration that matter here lead.                *)
Target(p) ==
  /\ h'[p].pc = "reserve" => h'[p].ticket = h[p].ticket /\ h'[p].booth = h[p].booth /\ Costs(p)
  /\ h'[p].pc \in {"act_read", "act_tx"} =>
       \/ WriteRegistration(p) /\ regs' = [regs EXCEPT ![h[p].user] = NewRow(p)] /\ ~Costs(p)
       \/ h[p].pc = "act_read" /\ ~WriteRegistration(p)

LEMMA StepTarget ==
  ASSUME PaymentInv, Orderly, NEW p \in Procs, Step(p)
  PROVE  Target(p)
<1>0. TypeInv /\ h[p] \in HandlerType
  BY AtStep DEF PaymentInv
<1>1. ASSUME NEW r, Goto(p, r), r.pc \notin {"reserve", "act_read", "act_tx"}
      PROVE  Target(p)
  BY <1>0, <1>1, GotoLocal DEF Target
<1>2. CASE Reply(p) \/ Throw(p)
  BY <1>1, <1>2 DEF Reply, Throw, Idle
<1>3. ASSUME NEW pc, Goto(p, [h[p] EXCEPT !.pc = pc]), pc \notin {"reserve", "act_read", "act_tx"}
      PROVE  Target(p)
  BY <1>0, <1>1, <1>3 DEF HandlerType
<1>4. CASE ReadExisting(p)
  <2> DEFINE r == [h[p] EXCEPT !.pc = "ticket", !.had = regs[h[p].user].status # "NONE"]
  <2>1. r.pc = "ticket"
    BY <1>0 DEF HandlerType
  <2> QED BY <1>1, <1>2, <1>4, <2>1 DEF ReadExisting
<1>5. CASE WriteRegistration(p)
  <2>1. CASE Goto(p, [h[p] EXCEPT !.pc = "reserve"]) /\ Costs(p)
    BY <1>0, <2>1, GotoLocal DEF Target, HandlerType
  <2>2. CASE Goto(p, PaymentStep(p)) /\ regs' = [regs EXCEPT ![h[p].user] = NewRow(p)]
    BY <1>0, <1>5, <2>2, GotoLocal, PaymentStepTarget DEF Target
  <2> QED BY <1>2, <1>5, <2>1, <2>2 DEF WriteRegistration
<1>6. CASE ReserveBooth(p)
  <2>1. Costs(p)
    BY <1>6 DEF ReserveBooth, PaymentInv, ReserveCosts
  <2>2. CASE Goto(p, PaymentStep(p))
    BY <1>0, <2>1, <2>2, GotoLocal, PaymentStepTarget DEF Target
  <2> QED BY <1>2, <1>6, <2>2 DEF ReserveBooth
<1>7. CASE ActivateRead(p)
  <2> DEFINE r == [h[p] EXCEPT !.pc = "act_tx", !.booth = regs[h[p].user].booth]
  <2>1. h[p].pc = "act_read" /\ r.pc = "act_tx" /\ ~WriteRegistration(p)
    BY <1>0, <1>7 DEF HandlerType, ActivateRead, WriteRegistration
  <2>2. CASE Goto(p, r)
    BY <1>0, <2>1, <2>2, GotoLocal DEF Target
  <2> QED BY <1>2, <1>7, <2>2 DEF ActivateRead
<1>8. CASE FindNext(p)
  <2>1. ASSUME NEW u, Goto(p, [h[p] EXCEPT !.pc = "c_promote", !.next = u]) PROVE Target(p)
    <3>1. [h[p] EXCEPT !.pc = "c_promote", !.next = u].pc = "c_promote"
      BY <1>0 DEF HandlerType
    <3> QED BY <1>1, <2>1, <3>1
  <2> QED BY <1>2, <1>8, <2>1 DEF FindNext
<1>9. CASE \/ ReadTicketType(p) \/ ReadBooth(p) \/ UndoRegistration(p) \/ CancelWrite(p)
           \/ CancelBooth(p)
  BY <1>2, <1>3, <1>9 DEF ReadTicketType, ReadBooth, UndoRegistration, CancelWrite,
     CancelBooth, PromotionStep
<1>10. CASE \/ StorePaymentId(p) \/ UndoBooth(p) \/ ActivateTx(p) \/ CheckInWrite(p)
            \/ PromoteNext(p) \/ DeleteBoothWrite(p)
  BY <1>2, <1>10 DEF StorePaymentId, UndoBooth, ActivateTx, CheckInWrite, PromoteNext,
     DeleteBoothWrite
<1> QED
  BY <1>4, <1>5, <1>6, <1>7, <1>8, <1>9, <1>10 DEF Step

(* What is not a step of a running handler starts or ends a handler and    *)
(* leaves the rows alone.                                                  *)
Begins(r) ==
  /\ r.pc # "reserve"
  /\ r.pc \notin {"act_read", "act_tx"} \/ r.src # NoPay

LEMMA Arrivals ==
  ASSUME TypeInv, [Next]_vars
  PROVE  \/ \E p \in Procs : Step(p)
         \/ UNCHANGED <<h, regs>>
         \/ UNCHANGED regs /\ \E p \in Procs, r \in {h'[q] : q \in Procs} : Goto(p, r) /\ Begins(r)
<1> DEFINE Goal == UNCHANGED regs /\ \E p \in Procs, r \in {h'[q] : q \in Procs} : Goto(p, r) /\ Begins(r)
<1>1. ASSUME NEW p \in Procs, NEW r, Goto(p, r), Begins(r), UNCHANGED regs PROVE Goal
  BY <1>1, GotoLocal
<1>2. ASSUME NEW p \in Procs, Start(p) PROVE Goal
  <2>1. ASSUME NEW u \in Users, CheckInRead(p, u) PROVE Goal
    BY <1>1, <2>1 DEF CheckInRead, Idle, Begins, Database
  <2>2. ASSUME NEW u \in Users, CancelRead(p, u) PROVE Goal
    BY <1>1, <2>2 DEF CancelRead, Idle, Begins, Database
  <2>3. ASSUME NEW u \in Users, NEW t \in Tickets \cup {None}, NEW b \in Booths \cup {None},
               NEW via \in Providers, Register(p, u, t, b, via)
        PROVE  Goal
    BY <1>1, <2>3 DEF Register, Idle, Begins, Database
  <2>4. ASSUME NEW b \in Booths, DeleteBoothRead(p, b) PROVE Goal
    BY <1>1, <2>4 DEF DeleteBoothRead, Idle, Begins, Database
  <2> QED BY <1>2, <2>1, <2>2, <2>3, <2>4 DEF Start
<1>3. ASSUME NEW p \in Procs, Fail(p) PROVE Goal
  BY <1>1, <1>3 DEF Fail, Throw, Idle, Begins, Database
<1>4. ASSUME NEW s \in funds, NEW p \in Procs, StripeWebhook(p, s) PROVE Goal
  <2>1. s.pay # NoPay
    BY CheckoutIsPayment DEF TypeInv, TypeOK
  <2> QED BY <1>1, <1>4, <2>1 DEF StripeWebhook, Idle, Begins, Database
<1>5. ASSUME NEW s \in funds, NEW p \in Procs, WiseWebhook(p, s), ~UNCHANGED h PROVE Goal
  <2>1. s.pay # NoPay
    BY CheckoutIsPayment DEF TypeInv, TypeOK
  <2> QED BY <1>1, <1>5, <2>1 DEF WiseWebhook, Idle, Begins, Database
<1>6. ASSUME NEW s \in funds, Webhook(s) PROVE UNCHANGED <<h, regs>> \/ Goal
  BY <1>4, <1>5, <1>6 DEF Webhook, WiseWebhook, Database
<1>7. CASE UNCHANGED vars \/ (\E s \in sessions : Pay(s)) \/ RemoveEvent
  BY <1>7 DEF vars, Pay, RemoveEvent, Database
<1> QED BY <1>2, <1>3, <1>6, <1>7 DEF Next

LEMMA ReserveCostsStep ==
  ASSUME PaymentInv, Orderly, [Next]_vars
  PROVE  ReserveCosts'
<1>0. TypeInv
  BY DEF PaymentInv
<1>1. ASSUME NEW p \in Procs, \A q \in Procs \ {p} : h'[q] = h[q],
             h'[p].pc = "reserve" => Costs(p)'
      PROVE  ReserveCosts'
  BY <1>1 DEF PaymentInv, ReserveCosts, Costs
<1>2. ASSUME NEW p \in Procs, Step(p) PROVE ReserveCosts'
  BY <1>0, <1>1, <1>2, StepLocal, StepTarget DEF Target, Costs
<1>3. ASSUME NEW p \in Procs, NEW r, Goto(p, r), Begins(r) PROVE ReserveCosts'
  BY <1>0, <1>1, <1>3, GotoLocal DEF Begins
<1>4. CASE UNCHANGED h
  BY <1>4 DEF PaymentInv, ReserveCosts, Costs
<1> QED
  BY <1>0, <1>2, <1>3, <1>4, Arrivals

(* The rows that requests activate without a payment stay free.            *)
LEMMA FreeActivationStep ==
  ASSUME PaymentInv, Orderly, [Next]_vars
  PROVE  FreeActivation'
<1>0. TypeInv
  BY DEF PaymentInv
<1> DEFINE Activates(q) == h[q].pc \in {"act_read", "act_tx"} /\ h[q].src = NoPay
<1>1. ASSUME NEW p \in Procs, Step(p) PROVE FreeActivation'
  <2>1. ASSUME NEW q \in Procs \ {p}, Activates(q)' PROVE ~Owed(h[q].user)'
    <3>1. h'[q] = h[q] /\ Activates(q) /\ ~Owed(h[q].user) /\ h[q].user \in Users
      BY <1>0, <1>1, <2>1, StepLocal, AtStep DEF PaymentInv, FreeActivation
    <3>2. RequestOf(q, h[q].user)
      BY <3>1 DEF RequestOf
    <3>3. CASE WriteRegistration(p)
      <4>1. h[p].pc = "write" /\ RequestOf(p, h[p].user)
        BY <1>0, <3>3, AtStep DEF WriteRegistration, RequestOf
      <4>2. h[q].user # h[p].user
        BY <3>1, <3>2, <4>1, <2>1 DEF PaymentInv, OneRequest
      <4> QED BY <1>0, <3>1, <3>3, <4>2, RowWritten DEF Untouched
    <3>4. CASE ActivateTx(p)
      BY <1>0, <3>1, <3>4, RowActivated
    <3>5. CASE ~WriteRegistration(p) /\ ~ActivateTx(p)
      BY <1>0, <1>1, <3>1, <3>5, RowsUntouched DEF Untouched
    <3> QED BY <3>3, <3>4, <3>5
  <2>2. ASSUME Activates(p)' PROVE ~Owed(h[p].user)'
    <3>5. Target(p)
      BY <1>1, StepTarget
    <3>6. h[p].pc \in {"write", "act_read"}
      BY <2>2, <3>5 DEF Target, WriteRegistration
    <3>7. SameWork(p) /\ h'[p] # Idle
      BY <1>0, <1>1, <2>2, StepLocal DEF Idle
    <3>1. h'[p].user = h[p].user /\ h[p].src = NoPay /\ h[p].user \in Users
      BY <1>0, <2>2, <3>6, <3>7, AtStep DEF SameWork
    <3>2. CASE WriteRegistration(p) /\ regs' = [regs EXCEPT ![h[p].user] = NewRow(p)] /\ ~Costs(p)
      BY <1>0, <3>1, <3>2 DEF TypeInv, TypeOK, NewRow, RowWith, Owed, Costs
    <3>3. CASE h[p].pc = "act_read" /\ ~WriteRegistration(p)
      <4>1. ~Owed(h[p].user) /\ ~ActivateTx(p)
        BY <3>1, <3>3 DEF PaymentInv, FreeActivation, ActivateTx
      <4> QED BY <1>0, <1>1, <3>1, <3>3, <4>1, RowsUntouched DEF Untouched
    <3> QED BY <1>1, <2>2, <3>2, <3>3, StepTarget DEF Target
  <2> QED BY <2>1, <2>2 DEF FreeActivation
<1>2. ASSUME UNCHANGED regs, NEW p \in Procs, NEW r, Goto(p, r), Begins(r)
      PROVE  FreeActivation'
  BY <1>0, <1>2, GotoLocal DEF PaymentInv, FreeActivation, Owed, Begins
<1>3. CASE UNCHANGED <<h, regs>>
  BY <1>3 DEF PaymentInv, FreeActivation, Owed
<1> QED
  BY <1>0, <1>1, <1>2, <1>3, Arrivals

(* Whatever the number of users, booths and overlapping handlers, paidAt   *)
(* never marks a registration that costs money unless its user paid.       *)
THEOREM PaymentsAreReal == Orderly => (Spec => []PaidHasFunds)
<1> SUFFICES ASSUME Orderly PROVE Spec => []PaidHasFunds
  OBVIOUS
<1>1. PaymentInv /\ [Next]_vars => PaymentInv'
  BY TypeInvStep, OneRequestStep, FreeActivationStep, ReserveCostsStep, PaidHasFundsStep
     DEF PaymentInv
<1>2. PaymentInv => PaidHasFunds
  BY DEF PaymentInv
<1> QED BY <1>1, <1>2, PaymentInvInit, PTL DEF Spec

-----------------------------------------------------------------------------
(* What holds when handlers do not overlap.                                *)
OneAtATime == \A p, q \in Procs : p = q

(* What the running handler knows of the rows and the booths: what it read *)
(* still holds, because nobody else wrote since.                           *)
Fits(r, rows, stands) ==
  LET row == rows[r.user] IN
  /\ r.pc \in {"ticket", "booth", "write"} => row.status \in {"NONE", "CANCELLED"}
  /\ r.pc \in {"reserve", "store", "undo"} => row.status = "WAITLISTED" /\ row.booth = r.booth
  /\ r.pc = "reserve" => stands[r.booth].status # "DELETED"
  /\ r.pc = "act_tx" => row.booth = r.booth /\ ~Settled(row)
  /\ r.pc = "ci_write" => row.status \in {"REGISTERED", "ATTENDED"}
  /\ r.pc = "c_write" => row.booth = r.booth
  /\ r.pc \in {"unbooth", "c_booth"} => row.status = "CANCELLED" /\ row.booth = r.booth
  /\ r.pc = "c_promote" => rows[r.next].status = "WAITLISTED" /\ rows[r.next].pay = NoPay

InStep == \A p \in Procs : Fits(h[p], regs, booths)

(* No two rows keep the same booth, a row that waits is not paid, and the  *)
(* booth of a paid row is OCCUPIED, between requests or within one.        *)
OwnBooths ==
  \A u, v \in Users : u # v /\ regs[u].booth = regs[v].booth => regs[u].booth = None

WaitingUnpaid == \A u \in Users : regs[u].status = "WAITLISTED" => ~regs[u].paid

PaidOccupies ==
  \A u \in Users : Confirmed(u) /\ regs[u].paid /\ regs[u].booth # None =>
    booths[regs[u].booth].status = "OCCUPIED"

Sound == OwnBooths /\ WaitingUnpaid /\ PaidOccupies

SerialInv == TypeInv /\ InStep /\ Sound

-----------------------------------------------------------------------------
(* The only handler moved on with a local state that fits the database.    *)
LEMMA MovesOn ==
  ASSUME OneAtATime, TypeInv, NEW p \in Procs, NEW r, Goto(p, r), Fits(r, regs', booths')
  PROVE  InStep'
<1>1. h'[p] = r
  BY GotoLocal
<1>2. \A q \in Procs : q = p
  BY DEF OneAtATime
<1> QED BY <1>1, <1>2 DEF InStep

LEMMA Ends ==
  ASSUME OneAtATime, TypeInv, NEW p \in Procs, Reply(p) \/ Throw(p)
  PROVE  InStep'
<1>1. Fits(Idle, regs', booths')
  BY DEF Fits, Idle
<1> QED BY <1>1, MovesOn DEF Reply, Throw

(* A step that only reads leaves the rows and the booths sound.            *)
LEMMA ReadsSound ==
  ASSUME Sound, UNCHANGED <<regs, booths>>
  PROVE  Sound'
  BY DEF Sound, OwnBooths, WaitingUnpaid, PaidOccupies, Confirmed

(* So does one that rewrites a row and keeps its booth, confirming and     *)
(* paying nothing.                                                         *)
LEMMA RowSound ==
  ASSUME TypeInv, Sound, UNCHANGED booths, NEW u \in Users, NEW row,
         regs' = [regs EXCEPT ![u] = row], row.booth = regs[u].booth,
         row.status = "WAITLISTED" => ~row.paid,
         row.status \in {"REGISTERED", "ATTENDED"} /\ row.paid => Confirmed(u) /\ regs[u].paid
  PROVE  Sound'
<1>0. regs \in [Users -> RowType]
  BY DEF TypeInv, TypeOK
<1>1. regs'[u] = row /\ \A v \in Users \ {u} : regs'[v] = regs[v]
  BY <1>0
<1>2. \A v \in Users : regs'[v].booth = regs[v].booth
  BY <1>1
<1>3. OwnBooths'
  BY <1>2 DEF Sound, OwnBooths
<1>4. WaitingUnpaid'
  BY <1>1 DEF Sound, WaitingUnpaid
<1>5. ASSUME NEW v \in Users, Confirmed(v)', regs'[v].paid PROVE Confirmed(v) /\ regs[v].paid
  BY <1>1, <1>5 DEF Confirmed
<1>6. PaidOccupies'
  BY <1>2, <1>5 DEF Sound, PaidOccupies
<1> QED BY <1>3, <1>4, <1>6 DEF Sound

(* A booth that no paid row keeps may change.                              *)
LEMMA BoothSound ==
  ASSUME TypeInv, Sound, UNCHANGED regs, NEW b \in Booths,
         \A c \in Booths \ {b} : booths'[c] = booths[c],
         \A u \in Users : regs[u].booth = b /\ Confirmed(u) => ~regs[u].paid
  PROVE  Sound'
<1>1. \A u \in Users : regs[u].booth \in Booths \cup {None}
  BY DEF TypeInv, TypeOK, RowType
<1>2. PaidOccupies'
  BY <1>1 DEF Sound, PaidOccupies, Confirmed
<1> QED BY <1>2 DEF Sound, OwnBooths, WaitingUnpaid

-----------------------------------------------------------------------------
(* The steps of a registration.                                            *)
LEMMA ReadExistingSerial ==
  ASSUME SerialInv, OneAtATime, NEW p \in Procs, ReadExisting(p)
  PROVE  InStep' /\ Sound'
<1> DEFINE r == [h[p] EXCEPT !.pc = "ticket", !.had = regs[h[p].user].status # "NONE"]
<1>0. TypeInv /\ h[p] \in HandlerType /\ UNCHANGED <<regs, booths>> /\ Sound'
  BY AtStep, ReadsSound DEF SerialInv, ReadExisting, Database
<1>1. CASE Throw(p)
  BY <1>0, <1>1, Ends
<1>2. CASE Goto(p, r) /\ regs[h[p].user].status \in {"NONE", "CANCELLED"}
  <2>1. r.pc = "ticket" /\ r.user = h[p].user
    BY <1>0 DEF HandlerType
  <2>2. Fits(r, regs', booths')
    BY <1>0, <1>2, <2>1 DEF Fits
  <2> QED BY <1>0, <1>2, <2>2, MovesOn
<1> QED BY <1>1, <1>2 DEF ReadExisting

(* The registration goes on to read, the row being what it was.            *)
LEMMA ReadsOn ==
  ASSUME SerialInv, OneAtATime, NEW p \in Procs, NEW pc \in {"booth", "write"},
         h[p].pc \in {"ticket", "booth"}, UNCHANGED <<regs, booths>>,
         Throw(p) \/ Goto(p, [h[p] EXCEPT !.pc = pc])
  PROVE  InStep' /\ Sound'
<1> DEFINE r == [h[p] EXCEPT !.pc = pc]
<1>0. TypeInv /\ h[p] \in HandlerType /\ Sound' /\ Fits(h[p], regs, booths)
  BY AtStep, ReadsSound DEF SerialInv, InStep
<1>1. CASE Throw(p)
  BY <1>0, <1>1, Ends
<1>2. CASE Goto(p, r)
  <2>1. r.pc = pc /\ r.user = h[p].user
    BY <1>0 DEF HandlerType
  <2>2. Fits(r, regs', booths')
    BY <1>0, <2>1 DEF Fits
  <2> QED BY <1>0, <1>2, <2>2, MovesOn
<1> QED BY <1>1, <1>2

LEMMA ReadTicketTypeSerial ==
  ASSUME SerialInv, OneAtATime, NEW p \in Procs, ReadTicketType(p) \/ ReadBooth(p)
  PROVE  InStep' /\ Sound'
  BY ReadsOn DEF ReadTicketType, ReadBooth, Database

(* After the writes, the row waits for a payment or is activated.          *)
LEMMA PaymentStepFits ==
  ASSUME NEW p \in Procs, NEW rows, NEW stands, rows[h[p].user].booth = h[p].booth,
         Costs(p) => rows[h[p].user].status = "WAITLISTED"
  PROVE  Fits(PaymentStep(p), rows, stands)
<1>1. \A pc, pay : /\ Continue(p, pc, pay).pc = pc /\ Continue(p, pc, pay).user = h[p].user
                   /\ Continue(p, pc, pay).booth = h[p].booth
  BY DEF Continue, Idle
<1> QED BY <1>1 DEF PaymentStep, Fits

LEMMA WriteRegistrationSerial ==
  ASSUME SerialInv, OneAtATime, NEW p \in Procs, WriteRegistration(p)
  PROVE  InStep' /\ Sound'
<1> DEFINE u == h[p].user
           row == NewRow(p)
<1>0. /\ TypeInv /\ h[p] \in HandlerType /\ UNCHANGED booths /\ h[p].pc = "write" /\ u \in Users
      /\ Sound /\ regs \in [Users -> RowType]
  BY AtStep DEF SerialInv, WriteRegistration, TypeInv, TypeOK
<1>1. CASE Throw(p) /\ UNCHANGED regs
  BY <1>0, <1>1, Ends, ReadsSound
<1>2. CASE /\ Writable(p)
           /\ regs' = [regs EXCEPT ![u] = row]
           /\ Goto(p, IF h[p].booth # None /\ Costs(p) THEN [h[p] EXCEPT !.pc = "reserve"]
                      ELSE PaymentStep(p))
  <2>1. /\ row.status \in {"WAITLISTED", "REGISTERED"} /\ (Costs(p) => row.status = "WAITLISTED")
        /\ row.booth = h[p].booth /\ ~row.paid
    BY DEF NewRow, RowWith
  <2>2. regs'[u] = row /\ \A v \in Users \ {u} : regs'[v] = regs[v]
    BY <1>0, <1>2
  <2>3. \A v \in Users \ {u} : regs[v].booth = row.booth => row.booth = None
    BY <1>2, <2>1 DEF Writable, BoothTaken
  <2>4. OwnBooths'
    BY <1>0, <2>2, <2>3 DEF Sound, OwnBooths
  <2>5. WaitingUnpaid' /\ PaidOccupies'
    BY <1>0, <2>1, <2>2 DEF Sound, WaitingUnpaid, PaidOccupies, Confirmed
  <2>6. CASE h[p].booth # None /\ Costs(p) /\ Goto(p, [h[p] EXCEPT !.pc = "reserve"])
    <3> DEFINE r == [h[p] EXCEPT !.pc = "reserve"]
    <3>1. r.pc = "reserve" /\ r.user = u /\ r.booth = h[p].booth
      BY <1>0 DEF HandlerType
    <3>2. Fits(r, regs', booths')
      BY <1>0, <1>2, <2>1, <2>2, <2>6, <3>1 DEF Fits, Writable
    <3> QED BY <1>0, <2>4, <2>5, <2>6, <3>2, MovesOn DEF Sound
  <2>7. CASE Goto(p, PaymentStep(p))
    BY <1>0, <2>1, <2>2, <2>4, <2>5, <2>7, PaymentStepFits, MovesOn DEF Sound
  <2> QED BY <1>2, <2>6, <2>7
<1> QED BY <1>1, <1>2 DEF WriteRegistration

LEMMA ReserveBoothSerial ==
  ASSUME SerialInv, OneAtATime, NEW p \in Procs, ReserveBooth(p)
  PROVE  InStep' /\ Sound'
<1> DEFINE u == h[p].user
           b == h[p].booth
<1>0. /\ TypeInv /\ UNCHANGED regs /\ h[p].pc = "reserve" /\ u \in Users /\ b \in Booths /\ Sound
      /\ Fits(h[p], regs, booths) /\ booths \in [Booths -> [status : {"AVAILABLE", "RESERVED", "OCCUPIED", "DELETED"},
                            by : Users \cup {None}]] /\ None \notin Booths
  BY AtStep, EventAssumption DEF SerialInv, InStep, ReserveBooth, TypeInv, TypeOK
<1>1. regs[u].status = "WAITLISTED" /\ regs[u].booth = b /\ booths[b].status # "DELETED"
  BY <1>0 DEF Fits
<1>2. \A c \in Booths \ {b} : booths'[c] = booths[c]
  BY <1>0, <1>1 DEF ReserveBooth
<1>3. \A v \in Users : regs[v].booth = b /\ Confirmed(v) => ~regs[v].paid
  BY <1>0, <1>1 DEF Sound, OwnBooths, Confirmed
<1>4. Sound'
  BY <1>0, <1>2, <1>3, BoothSound
<1>5. Goto(p, PaymentStep(p))
  BY <1>1 DEF ReserveBooth
<1>6. Fits(PaymentStep(p), regs', booths')
  BY <1>0, <1>1, PaymentStepFits
<1> QED BY <1>0, <1>4, <1>5, <1>6, MovesOn

LEMMA StorePaymentIdSerial ==
  ASSUME SerialInv, OneAtATime, NEW p \in Procs, StorePaymentId(p)
  PROVE  InStep' /\ Sound'
<1> DEFINE u == h[p].user
           row == [regs[u] EXCEPT !.pay = NextCheckout(u, h[p].via)]
<1>0. /\ TypeInv /\ Sound /\ UNCHANGED booths /\ h[p].pc = "store" /\ u \in Users /\ Reply(p)
      /\ regs' = [regs EXCEPT ![u] = row] /\ regs[u] \in RowType
  BY AtStep DEF SerialInv, StorePaymentId, TypeInv, TypeOK
<1>1. row.booth = regs[u].booth /\ row.status = regs[u].status /\ row.paid = regs[u].paid
  BY <1>0 DEF RowType
<1>2. Sound'
  BY <1>0, <1>1, RowSound DEF Sound, WaitingUnpaid, Confirmed
<1> QED BY <1>0, <1>2, Ends

(* The row of u gets another status; who is then confirmed was before, or  *)
(* was not paid.                                                           *)
LEMMA StatusSound ==
  ASSUME TypeInv, Sound, UNCHANGED booths, NEW u \in Users,
         NEW status \in {"REGISTERED", "ATTENDED", "CANCELLED"},
         regs' = [regs EXCEPT ![u].status = status],
         status # "CANCELLED" /\ regs[u].paid => Confirmed(u)
  PROVE  Sound'
<1> DEFINE row == [regs[u] EXCEPT !.status = status]
<1>1. regs[u] \in RowType
  BY DEF TypeInv, TypeOK
<1>2. row.booth = regs[u].booth /\ row.status = status /\ row.paid = regs[u].paid
  BY <1>1 DEF RowType
<1> QED BY <1>2, RowSound

LEMMA UndoRegistrationSerial ==
  ASSUME SerialInv, OneAtATime, NEW p \in Procs, UndoRegistration(p)
  PROVE  InStep' /\ Sound'
<1> DEFINE u == h[p].user
           r == [h[p] EXCEPT !.pc = "unbooth"]
<1>0. /\ TypeInv /\ Sound /\ h[p] \in HandlerType /\ h[p].pc = "undo" /\ u \in Users
      /\ UNCHANGED booths /\ regs' = [regs EXCEPT ![u].status = "CANCELLED"]
      /\ regs \in [Users -> RowType] /\ Fits(h[p], regs, booths)
  BY AtStep DEF SerialInv, InStep, UndoRegistration, TypeInv, TypeOK
<1>1. Sound'
  BY <1>0, StatusSound
<1>2. regs'[u].status = "CANCELLED" /\ regs'[u].booth = h[p].booth
  BY <1>0 DEF RowType, Fits
<1>3. CASE Throw(p)
  BY <1>0, <1>1, <1>3, Ends
<1>4. CASE Goto(p, r)
  <2>1. r.pc = "unbooth" /\ r.user = u /\ r.booth = h[p].booth
    BY <1>0 DEF HandlerType
  <2>2. Fits(r, regs', booths')
    BY <1>2, <2>1 DEF Fits
  <2> QED BY <1>0, <1>1, <1>4, <2>2, MovesOn
<1> QED BY <1>1, <1>3, <1>4 DEF UndoRegistration

(* The booth of a cancelled row is released.                               *)
LEMMA ReleaseSound ==
  ASSUME SerialInv, NEW p \in Procs, h[p].pc \in {"unbooth", "c_booth"},
         FreeBooth(h[p].booth), UNCHANGED regs
  PROVE  Sound'
<1> DEFINE u == h[p].user
           b == h[p].booth
<1>0. /\ TypeInv /\ Sound /\ u \in Users /\ b \in Booths /\ None \notin Booths
      /\ booths \in [Booths -> [status : {"AVAILABLE", "RESERVED", "OCCUPIED", "DELETED"},
                            by : Users \cup {None}]] /\ Fits(h[p], regs, booths)
  BY AtStep, EventAssumption DEF SerialInv, InStep, TypeInv, TypeOK
<1>1. regs[u].status = "CANCELLED" /\ regs[u].booth = b
  BY <1>0 DEF Fits
<1>2. \A c \in Booths \ {b} : booths'[c] = booths[c]
  BY <1>0 DEF FreeBooth
<1>3. \A v \in Users : regs[v].booth = b /\ Confirmed(v) => ~regs[v].paid
  BY <1>0, <1>1 DEF Sound, OwnBooths, Confirmed
<1> QED BY <1>0, <1>2, <1>3, BoothSound

LEMMA UndoBoothSerial ==
  ASSUME SerialInv, OneAtATime, NEW p \in Procs, UndoBooth(p)
  PROVE  InStep' /\ Sound'
  BY ReleaseSound, Ends DEF SerialInv, UndoBooth

-----------------------------------------------------------------------------
(* Activation.                                                             *)
LEMMA ActivateReadSerial ==
  ASSUME SerialInv, OneAtATime, NEW p \in Procs, ActivateRead(p)
  PROVE  InStep' /\ Sound'
<1> DEFINE row == regs[h[p].user]
           r == [h[p] EXCEPT !.pc = "act_tx", !.booth = row.booth]
<1>0. TypeInv /\ h[p] \in HandlerType /\ UNCHANGED <<regs, booths>> /\ Sound'
  BY AtStep, ReadsSound DEF SerialInv, ActivateRead, Database
<1>1. CASE Reply(p)
  BY <1>0, <1>1, Ends
<1>2. CASE ~Settled(row) /\ Goto(p, r)
  <2>1. r.pc = "act_tx" /\ r.user = h[p].user /\ r.booth = row.booth
    BY <1>0 DEF HandlerType
  <2>2. Fits(r, regs', booths')
    BY <1>0, <1>2, <2>1 DEF Fits
  <2> QED BY <1>0, <1>2, <2>2, MovesOn
<1> QED BY <1>1, <1>2 DEF ActivateRead

LEMMA ActivateTxSerial ==
  ASSUME SerialInv, OneAtATime, NEW p \in Procs, ActivateTx(p)
  PROVE  InStep' /\ Sound'
<1> DEFINE u == h[p].user
           b == h[p].booth
<1>0. /\ TypeInv /\ Sound /\ u \in Users /\ b \in Booths \cup {None} /\ h[p].pc = "act_tx"
      /\ booths \in [Booths -> [status : {"AVAILABLE", "RESERVED", "OCCUPIED", "DELETED"},
                            by : Users \cup {None}]] /\ Fits(h[p], regs, booths)
      /\ regs \in [Users -> RowType] /\ None \notin Booths
  BY AtStep, EventAssumption DEF SerialInv, InStep, TypeInv, TypeOK, ActivateTx, HandlerType
<1>1. regs[u].booth = b
  BY <1>0 DEF Fits
<1>2. CASE Throw(p) /\ UNCHANGED <<regs, booths>>
  BY <1>0, <1>2, Ends, ReadsSound
<1>3. CASE /\ regs' = [regs EXCEPT ![u].status = "REGISTERED", ![u].paid = TRUE,
                                   ![u].pay = h[p].pay]
           /\ booths' = OccupyBooth(b)
           /\ Reply(p)
  <2>1. /\ regs'[u].status = "REGISTERED" /\ regs'[u].booth = b
        /\ \A v \in Users \ {u} : regs'[v] = regs[v]
    BY <1>0, <1>1, <1>3 DEF RowType
  <2>2. \A v \in Users : regs'[v].booth = regs[v].booth /\ regs[v].booth \in Booths \cup {None}
    BY <1>0, <1>1, <2>1 DEF RowType
  <2>3. /\ b # None => booths'[b].status = "OCCUPIED"
        /\ \A c \in Booths \ {b} : booths'[c] = booths[c]
    BY <1>0, <1>3 DEF OccupyBooth
  <2>4. OwnBooths' /\ WaitingUnpaid'
    BY <1>0, <2>1, <2>2 DEF Sound, OwnBooths, WaitingUnpaid
  <2>5. ASSUME NEW v \in Users, Confirmed(v)', regs'[v].paid, regs'[v].booth # None
        PROVE  booths'[regs'[v].booth].status = "OCCUPIED"
    <3>1. CASE regs'[v].booth = b
      BY <2>3, <2>5, <3>1
    <3>2. CASE regs'[v].booth # b
      <4>1. v # u /\ regs'[v] = regs[v] /\ regs[v].booth \in Booths \ {b}
        BY <2>1, <2>2, <2>5, <3>2
      <4> QED BY <1>0, <2>3, <2>5, <4>1 DEF Sound, PaidOccupies, Confirmed
    <3> QED BY <3>1, <3>2
  <2> QED BY <1>0, <1>3, <2>4, <2>5, Ends DEF Sound, PaidOccupies
<1> QED BY <1>2, <1>3 DEF ActivateTx

-----------------------------------------------------------------------------
(* A handler that starts, or that a read leads on, fits what it read.      *)
LEMMA BeginsSerial ==
  ASSUME SerialInv, OneAtATime, NEW p \in Procs, NEW r, Goto(p, r), UNCHANGED <<regs, booths>>,
         Fits(r, regs, booths)
  PROVE  InStep' /\ Sound'
  BY MovesOn, ReadsSound DEF SerialInv

LEMMA StartSerial ==
  ASSUME SerialInv, OneAtATime, NEW p \in Procs, Start(p)
  PROVE  InStep' /\ Sound'
<1>1. ASSUME NEW u \in Users, CheckInRead(p, u) PROVE InStep' /\ Sound'
  <2>1. Fits([Idle EXCEPT !.pc = "ci_write", !.user = u], regs, booths)
    BY <1>1 DEF CheckInRead, Fits, Idle, Confirmed
  <2> QED BY <1>1, <2>1, BeginsSerial DEF CheckInRead, Database
<1>2. ASSUME NEW u \in Users, CancelRead(p, u) PROVE InStep' /\ Sound'
  <2> DEFINE was == Confirmed(u)
             r == [Idle EXCEPT !.pc = "c_write", !.user = u, !.booth = regs[u].booth, !.was = was]
  <2>1. Goto(p, r) /\ UNCHANGED <<regs, booths>>
    BY <1>2 DEF CancelRead, Database
  <2> HIDE DEF was
  <2>2. Fits(r, regs, booths)
    BY DEF Fits, Idle
  <2> QED BY <2>1, <2>2, BeginsSerial
<1>3. ASSUME NEW u \in Users, NEW t \in Tickets \cup {None}, NEW b \in Booths \cup {None},
             NEW via \in Providers, Register(p, u, t, b, via)
      PROVE  InStep' /\ Sound'
  <2> DEFINE full == Capacity > 0 /\ Cardinality({v \in Users : Confirmed(v)}) >= Capacity
             r == [Idle EXCEPT !.pc = "existing", !.user = u, !.ticket = t,
                               !.booth = b, !.via = via, !.full = full]
  <2>1. Goto(p, r) /\ UNCHANGED <<regs, booths>>
    BY <1>3 DEF Register, Database
  <2> HIDE DEF full
  <2>2. Fits(r, regs, booths)
    BY DEF Fits, Idle
  <2> QED BY <2>1, <2>2, BeginsSerial
<1>4. ASSUME NEW b \in Booths, DeleteBoothRead(p, b) PROVE InStep' /\ Sound'
  <2>1. Fits([Idle EXCEPT !.pc = "d_delete", !.booth = b], regs, booths)
    BY DEF Fits, Idle
  <2> QED BY <1>4, <2>1, BeginsSerial DEF DeleteBoothRead, Database
<1> QED BY <1>1, <1>2, <1>3, <1>4 DEF Start

LEMMA WebhookSerial ==
  ASSUME SerialInv, OneAtATime, NEW s \in funds, Webhook(s)
  PROVE  InStep' /\ Sound'
<1> DEFINE r == [Idle EXCEPT !.pc = "act_read", !.user = s.user, !.pay = s.pay, !.src = s.pay]
<1>1. Fits(r, regs, booths)
  BY DEF Fits, Idle
<1>2. UNCHANGED <<regs, booths>> /\ (UNCHANGED h \/ \E p \in Procs : Goto(p, r))
  BY DEF Webhook, StripeWebhook, WiseWebhook, Database
<1>3. CASE UNCHANGED h
  BY <1>2, <1>3, ReadsSound DEF SerialInv, InStep
<1> QED BY <1>1, <1>2, <1>3, BeginsSerial

LEMMA FailSerial ==
  ASSUME SerialInv, OneAtATime, NEW p \in Procs, Fail(p)
  PROVE  InStep' /\ Sound'
  BY Ends, ReadsSound DEF SerialInv, Fail, Database

-----------------------------------------------------------------------------
(* Check-in, cancellation, promotion and the deletion of a booth.          *)
LEMMA CheckInWriteSerial ==
  ASSUME SerialInv, OneAtATime, NEW p \in Procs, CheckInWrite(p)
  PROVE  InStep' /\ Sound'
<1>0. /\ TypeInv /\ Sound /\ h[p].pc = "ci_write" /\ h[p].user \in Users /\ Reply(p)
      /\ UNCHANGED booths /\ regs' = [regs EXCEPT ![h[p].user].status = "ATTENDED"]
  BY AtStep DEF SerialInv, CheckInWrite
<1>1. Confirmed(h[p].user)
  BY <1>0 DEF SerialInv, InStep, Fits, Confirmed
<1> QED BY <1>0, <1>1, StatusSound, Ends

(* A cancellation ends, or looks for the next waiting registration.        *)
LEMMA PromotionStepSerial ==
  ASSUME SerialInv, OneAtATime, NEW p \in Procs, PromotionStep(p)
  PROVE  InStep'
<1> DEFINE r == [h[p] EXCEPT !.pc = "c_find"]
<1>0. TypeInv /\ h[p] \in HandlerType
  BY AtStep DEF SerialInv
<1>1. Fits(r, regs', booths')
  <2>1. r.pc = "c_find"
    BY <1>0 DEF HandlerType
  <2> QED BY <2>1 DEF Fits
<1> QED BY <1>0, <1>1, MovesOn, Ends DEF PromotionStep

LEMMA CancelWriteSerial ==
  ASSUME SerialInv, OneAtATime, NEW p \in Procs, CancelWrite(p)
  PROVE  InStep' /\ Sound'
<1> DEFINE u == h[p].user
           r == [h[p] EXCEPT !.pc = "c_booth"]
<1>0. /\ TypeInv /\ Sound /\ h[p] \in HandlerType /\ h[p].pc = "c_write" /\ u \in Users
      /\ UNCHANGED booths /\ regs' = [regs EXCEPT ![u].status = "CANCELLED"]
      /\ regs \in [Users -> RowType] /\ Fits(h[p], regs, booths)
  BY AtStep DEF SerialInv, InStep, CancelWrite, TypeInv, TypeOK
<1>1. Sound'
  BY <1>0, StatusSound
<1>2. regs'[u].status = "CANCELLED" /\ regs'[u].booth = h[p].booth
  BY <1>0 DEF RowType, Fits
<1>3. CASE PromotionStep(p)
  BY <1>1, <1>3, PromotionStepSerial
<1>4. CASE Goto(p, r)
  <2>1. r.pc = "c_booth" /\ r.user = u /\ r.booth = h[p].booth
    BY <1>0 DEF HandlerType
  <2>2. Fits(r, regs', booths')
    BY <1>2, <2>1 DEF Fits
  <2> QED BY <1>0, <1>1, <1>4, <2>2, MovesOn
<1> QED BY <1>1, <1>3, <1>4 DEF CancelWrite

LEMMA CancelBoothSerial ==
  ASSUME SerialInv, OneAtATime, NEW p \in Procs, CancelBooth(p)
  PROVE  InStep' /\ Sound'
<1>1. Sound'
  BY ReleaseSound DEF CancelBooth
<1>2. CASE Throw(p)
  BY <1>1, <1>2, Ends DEF SerialInv
<1>3. CASE PromotionStep(p)
  BY <1>1, <1>3, PromotionStepSerial
<1> QED BY <1>1, <1>2, <1>3 DEF CancelBooth

LEMMA FindNextSerial ==
  ASSUME SerialInv, OneAtATime, NEW p \in Procs, FindNext(p)
  PROVE  InStep' /\ Sound'
<1>0. /\ TypeInv /\ h[p] \in HandlerType /\ UNCHANGED <<regs, booths>> /\ Sound'
      /\ h[p].pc = "c_find"
  BY AtStep, ReadsSound DEF SerialInv, FindNext, Database
<1>1. CASE Reply(p)
  BY <1>0, <1>1, Ends
<1>2. ASSUME NEW u \in Promotable, Goto(p, [h[p] EXCEPT !.pc = "c_promote", !.next = u])
      PROVE  InStep'
  <2> DEFINE r == [h[p] EXCEPT !.pc = "c_promote", !.next = u]
  <2>1. r.pc = "c_promote" /\ r.next = u
    BY <1>0 DEF HandlerType
  <2>2. Fits(r, regs', booths')
    BY <1>0, <2>1 DEF Fits, Promotable
  <2> QED BY <1>0, <1>2, <2>2, MovesOn
<1> QED BY <1>0, <1>1, <1>2 DEF FindNext

LEMMA PromoteNextSerial ==
  ASSUME SerialInv, OneAtATime, NEW p \in Procs, PromoteNext(p)
  PROVE  InStep' /\ Sound'
<1>0. /\ TypeInv /\ Sound /\ h[p].pc = "c_promote" /\ h[p].next \in Users /\ Reply(p)
      /\ UNCHANGED booths /\ regs' = [regs EXCEPT ![h[p].next].status = "REGISTERED"]
  BY AtStep DEF SerialInv, PromoteNext
<1>1. ~regs[h[p].next].paid
  BY <1>0 DEF SerialInv, InStep, Fits, Sound, WaitingUnpaid
<1> QED BY <1>0, <1>1, StatusSound, Ends

LEMMA DeleteBoothWriteSerial ==
  ASSUME SerialInv, OneAtATime, NEW p \in Procs, DeleteBoothWrite(p)
  PROVE  InStep' /\ Sound'
<1> DEFINE b == h[p].booth
<1>0. /\ TypeInv /\ Sound /\ b \in Booths /\ None \notin Booths
      /\ booths \in [Booths -> [status : {"AVAILABLE", "RESERVED", "OCCUPIED", "DELETED"},
                            by : Users \cup {None}]] /\ regs \in [Users -> RowType]
  BY AtStep, EventAssumption DEF SerialInv, TypeInv, TypeOK, DeleteBoothWrite
<1>1. CASE Throw(p) /\ UNCHANGED <<regs, booths>>
  BY <1>0, <1>1, Ends, ReadsSound
<1>2. CASE /\ booths' = [booths EXCEPT ![b] = [status |-> "DELETED", by |-> None]]
           /\ regs' = [u \in Users |-> [regs[u] EXCEPT !.booth = IF @ = b THEN None ELSE @]]
           /\ Reply(p)
  <2>1. ASSUME NEW u \in Users
        PROVE  /\ regs'[u].status = regs[u].status /\ regs'[u].paid = regs[u].paid
               /\ regs'[u].booth = (IF regs[u].booth = b THEN None ELSE regs[u].booth)
               /\ regs[u].booth \in Booths \cup {None}
    BY <1>0, <1>2 DEF RowType
  <2>2. \A c \in Booths \ {b} : booths'[c] = booths[c]
    BY <1>0, <1>2
  <2>3. OwnBooths'
    BY <1>0, <2>1 DEF Sound, OwnBooths
  <2>4. WaitingUnpaid'
    BY <1>0, <2>1 DEF Sound, WaitingUnpaid
  <2>5. PaidOccupies'
    BY <1>0, <2>1, <2>2 DEF Sound, PaidOccupies, Confirmed
  <2> QED BY <1>0, <1>2, <2>3, <2>4, <2>5, Ends DEF Sound
<1> QED BY <1>1, <1>2 DEF DeleteBoothWrite

-----------------------------------------------------------------------------
LEMMA SerialInvInit == Init => SerialInv
  BY TypeInvInit DEF Init, SerialInv, InStep, Fits, Idle, Sound, OwnBooths, WaitingUnpaid,
     PaidOccupies, Confirmed, NoRow

LEMMA SerialInvStep == OneAtATime /\ SerialInv /\ [Next]_vars => SerialInv'
<1> SUFFICES ASSUME OneAtATime, SerialInv, [Next]_vars PROVE InStep' /\ Sound'
  BY TypeInvStep DEF SerialInv
<1>1. ASSUME NEW p \in Procs, Step(p) PROVE InStep' /\ Sound'
  BY <1>1, ReadExistingSerial, ReadTicketTypeSerial, WriteRegistrationSerial,
     ReserveBoothSerial, StorePaymentIdSerial, UndoRegistrationSerial, UndoBoothSerial,
     ActivateReadSerial, ActivateTxSerial, CheckInWriteSerial, CancelWriteSerial,
     CancelBoothSerial, FindNextSerial, PromoteNextSerial, DeleteBoothWriteSerial DEF Step
<1>2. CASE UNCHANGED <<regs, booths, h>>
  BY <1>2, ReadsSound DEF SerialInv, InStep
<1> QED
  BY <1>1, <1>2, StartSerial, FailSerial, WebhookSerial
     DEF Next, Pay, RemoveEvent, Database, vars

(* While handlers do not overlap, the booth of a paid registration is      *)
(* OCCUPIED: no offer of it to somebody else, whatever handlers died.      *)
THEOREM PaidBoothsAreOccupied == OneAtATime => (Spec => []PaidBoothIsOccupied)
<1> SUFFICES ASSUME OneAtATime PROVE Spec => []PaidBoothIsOccupied
  OBVIOUS
<1>1. SerialInv /\ [Next]_vars => SerialInv'
  BY SerialInvStep
<1>2. SerialInv => PaidBoothIsOccupied
  BY DEF SerialInv, Sound, PaidOccupies, PaidBoothIsOccupied
<1> QED BY <1>1, <1>2, SerialInvInit, PTL DEF Spec

-----------------------------------------------------------------------------
(* Confirmations stick: only a handler of the row's own user rewrites it,  *)
(* and it read the row last.                                               *)
Sticks(u) ==
  /\ Confirmed(u) /\ regs[u].paid /\ regs'[u].status # "CANCELLED" =>
       regs'[u].status \in {"REGISTERED", "ATTENDED"} /\ regs'[u].paid
  /\ regs[u].status = "ATTENDED" => regs'[u].status \in {"ATTENDED", "CANCELLED"}

LEMMA SticksStep ==
  ASSUME SerialInv, [Next]_vars, NEW u \in Users
  PROVE  Sticks(u)
<1>0. regs \in [Users -> RowType] /\ \A p \in Procs : Fits(h[p], regs, booths)
  BY DEF SerialInv, TypeInv, TypeOK, InStep
<1>1. CASE UNCHANGED regs
  BY <1>1 DEF Sticks, Confirmed
<1>2. ASSUME NEW v \in Users, NEW status, regs' = [regs EXCEPT ![v].status = status],
             status = "CANCELLED" \/ status = "ATTENDED"
             \/ (status = "REGISTERED" /\ ~Confirmed(v))
      PROVE  Sticks(u)
  <2>1. CASE u = v
    <3>1. regs'[u].status = status /\ regs'[u].paid = regs[u].paid
      BY <1>0, <1>2, <2>1 DEF RowType
    <3> QED BY <1>2, <2>1, <3>1 DEF Sticks, Confirmed
  <2>2. CASE u # v
    BY <1>0, <1>2, <2>2 DEF Sticks, Confirmed
  <2> QED BY <2>1, <2>2
<1>3. ASSUME NEW p \in Procs, WriteRegistration(p), ~UNCHANGED regs PROVE Sticks(u)
  <2>1. /\ regs' = [regs EXCEPT ![h[p].user] = NewRow(p)]
        /\ regs[h[p].user].status \in {"NONE", "CANCELLED"}
    BY <1>0, <1>3 DEF WriteRegistration, Fits
  <2> QED BY <1>0, <2>1 DEF Sticks, Confirmed
<1>4. ASSUME NEW p \in Procs, StorePaymentId(p) PROVE Sticks(u)
  <2>1. regs'[u].status = regs[u].status /\ regs'[u].paid = regs[u].paid
    BY <1>0, <1>4 DEF StorePaymentId, RowType
  <2> QED BY <2>1 DEF Sticks, Confirmed
<1>5. ASSUME NEW p \in Procs, ActivateTx(p), ~UNCHANGED regs PROVE Sticks(u)
  <2>1. /\ regs' = [regs EXCEPT ![h[p].user].status = "REGISTERED", ![h[p].user].paid = TRUE,
                                ![h[p].user].pay = h[p].pay]
        /\ regs[h[p].user].status # "ATTENDED"
    BY <1>0, <1>5 DEF ActivateTx, Fits, Settled
  <2>2. CASE u = h[p].user
    BY <1>0, <2>1, <2>2 DEF Sticks, RowType
  <2>3. CASE u # h[p].user
    BY <1>0, <2>1, <2>3 DEF Sticks, Confirmed
  <2> QED BY <2>2, <2>3
<1>6. ASSUME NEW p \in Procs, DeleteBoothWrite(p), ~UNCHANGED regs PROVE Sticks(u)
  <2>1. regs'[u].status = regs[u].status /\ regs'[u].paid = regs[u].paid
    BY <1>0, <1>6 DEF DeleteBoothWrite, RowType
  <2> QED BY <2>1 DEF Sticks, Confirmed
<1>7. ASSUME NEW p \in Procs, UndoRegistration(p) \/ CancelWrite(p) \/ CheckInWrite(p)
      PROVE  Sticks(u)
  BY <1>2, <1>7, AtStep DEF SerialInv, UndoRegistration, CancelWrite, CheckInWrite
<1>8. ASSUME NEW p \in Procs, PromoteNext(p) PROVE Sticks(u)
  <2>1. h[p].next \in Users /\ ~Confirmed(h[p].next)
    BY <1>0, <1>8, AtStep DEF SerialInv, PromoteNext, Fits, Confirmed
  <2> QED BY <1>2, <1>8, <2>1 DEF PromoteNext
<1>9. ASSUME NEW p \in Procs, Step(p) PROVE Sticks(u)
  BY <1>1, <1>3, <1>4, <1>5, <1>6, <1>7, <1>8, <1>9 DEF Step, ReadExisting, ReadTicketType,
     ReadBooth, ReserveBooth, UndoBooth, ActivateRead, CancelBooth, FindNext, Database
<1> QED
  BY <1>1, <1>9 DEF Next, Start, Register, CheckInRead, CancelRead, DeleteBoothRead, Fail,
     Webhook, StripeWebhook, WiseWebhook, Pay, RemoveEvent, Database, vars

(* While handlers do not overlap, a paid registration stays confirmed and  *)
(* paid until it is cancelled, and an attendance is not taken back.        *)
THEOREM ConfirmationsStick == OneAtATime => (Spec => ConfirmationSticks)
<1> SUFFICES ASSUME OneAtATime PROVE Spec => ConfirmationSticks
  OBVIOUS
<1>1. SerialInv /\ [Next]_vars => SerialInv'
  BY SerialInvStep
<1>2. SerialInv /\ [Next]_vars =>
        [\A u \in Users :
           /\ Confirmed(u) /\ regs[u].paid /\ regs'[u].status # "CANCELLED" =>
                regs'[u].status \in {"REGISTERED", "ATTENDED"} /\ regs'[u].paid
           /\ regs[u].status = "ATTENDED" => regs'[u].status \in {"ATTENDED", "CANCELLED"}]_vars
  BY SticksStep DEF Sticks
<1> QED BY <1>1, <1>2, SerialInvInit, PTL DEF Spec, ConfirmationSticks

-----------------------------------------------------------------------------
(* The inductive form of HeldBoothHasHolder: within a request, a held      *)
(* booth without a holder is the one the handler is about to release.      *)
Held(b) == booths[b].status \in {"RESERVED", "OCCUPIED"}

Holds(u, b) == regs[u].booth = b /\ regs[u].status \notin {"NONE", "CANCELLED"}

Releases(p, b) == h[p].pc \in {"unbooth", "c_booth"} /\ h[p].booth = b

HoldersKnown ==
  fails = 0 => \A b \in Booths : Held(b) =>
                 (\E u \in Users : Holds(u, b)) \/ (\E p \in Procs : Releases(p, b))

(* Where the steps that take a booth away from its holder go on.           *)
LEMMA HoldersKnownStep ==
  ASSUME SerialInv, OneAtATime, HoldersKnown, [Next]_vars
  PROVE  HoldersKnown'
<1> SUFFICES ASSUME fails' = 0, NEW b \in Booths, Held(b)'
             PROVE  (\E u \in Users : Holds(u, b))' \/ (\E p \in Procs : Releases(p, b))'
  BY DEF HoldersKnown
<1> DEFINE Goal == (\E u \in Users : Holds(u, b)') \/ (\E p \in Procs : Releases(p, b)')
<1> SUFFICES Goal
  OBVIOUS
<1>0. /\ TypeInv /\ regs \in [Users -> RowType] /\ fails \in Nat
      /\ booths \in [Booths -> [status : {"AVAILABLE", "RESERVED", "OCCUPIED", "DELETED"},
                            by : Users \cup {None}]] /\ None \notin Booths
  BY EventAssumption DEF SerialInv, TypeInv, TypeOK
<1>1. ASSUME NEW p \in Procs, ~\E q \in Procs : Releases(q, b), fails = 0, Held(b),
             \A u \in Users : Holds(u, b) => Holds(u, b)'
      PROVE  Goal
  BY <1>1 DEF HoldersKnown
<1>2. CASE UNCHANGED <<regs, booths, h, fails>>
  BY <1>2 DEF HoldersKnown, Held, Holds, Releases
<1>3. ASSUME NEW p \in Procs, fails = 0, Held(b), h[p].pc \notin {"unbooth", "c_booth"},
             \A u \in Users : Holds(u, b) => Holds(u, b)'
      PROVE  Goal
  BY <1>1, <1>3 DEF OneAtATime, Releases
<1>4. ASSUME NEW p \in Procs, h[p].pc \notin {"unbooth", "c_booth"},
             UNCHANGED <<regs, booths, fails>>
      PROVE  Goal
  BY <1>3, <1>4 DEF Held, Holds
<1>5. ASSUME NEW p \in Procs, WriteRegistration(p) PROVE Goal
  <2>1. /\ h[p].pc = "write" /\ UNCHANGED <<booths, fails>>
        /\ regs[h[p].user].status \in {"NONE", "CANCELLED"}
        /\ \A u \in Users \ {h[p].user} : regs'[u] = regs[u]
    BY <1>0, <1>5 DEF WriteRegistration, SerialInv, InStep, Fits, Outside
  <2> QED BY <1>3, <2>1 DEF Held, Holds
<1>6. ASSUME NEW p \in Procs, ReserveBooth(p) PROVE Goal
  <2>1. /\ h[p].pc = "reserve" /\ UNCHANGED <<regs, fails>> /\ h[p].user \in Users
        /\ h[p].booth \in Booths
        /\ regs[h[p].user].status = "WAITLISTED" /\ regs[h[p].user].booth = h[p].booth
        /\ \A c \in Booths \ {h[p].booth} : booths'[c] = booths[c]
    BY <1>0, <1>6, AtStep DEF ReserveBooth, SerialInv, InStep, Fits, Outside
  <2>2. CASE b = h[p].booth
    BY <2>1, <2>2 DEF Holds
  <2>3. CASE b # h[p].booth
    BY <1>3, <2>1, <2>3 DEF Held, Holds
  <2> QED BY <2>2, <2>3
<1>7. ASSUME NEW p \in Procs, StorePaymentId(p) \/ CheckInWrite(p) \/ PromoteNext(p)
      PROVE  Goal
  <2>1. /\ h[p].pc \in {"store", "ci_write", "c_promote"} /\ UNCHANGED <<booths, fails>>
        /\ \A u \in Users : /\ regs'[u].booth = regs[u].booth
                             /\ regs'[u].status \in {regs[u].status, "ATTENDED", "REGISTERED"}
    BY <1>0, <1>7 DEF StorePaymentId, CheckInWrite, PromoteNext, RowType, Outside
  <2> QED BY <1>3, <2>1 DEF Held, Holds
<1>8. ASSUME NEW p \in Procs, UndoRegistration(p) \/ CancelWrite(p) PROVE Goal
  <2> DEFINE u == h[p].user
  <2>1. /\ h[p].pc \in {"undo", "c_write"} /\ UNCHANGED <<booths, fails>>
        /\ u \in Users /\ regs[u].booth = h[p].booth /\ h[p] \in HandlerType
        /\ \A v \in Users \ {u} : regs'[v] = regs[v]
    BY <1>0, <1>8, AtStep DEF UndoRegistration, CancelWrite, SerialInv, InStep, Fits, Outside
  <2>2. CASE h[p].booth = b
    <3>1. h'[p].pc \in {"unbooth", "c_booth"} /\ h'[p].booth = b
      BY <1>0, <1>8, <2>1, <2>2, GotoLocal DEF UndoRegistration, CancelWrite, HandlerType
    <3> QED BY <3>1 DEF Releases
  <2>3. CASE h[p].booth # b
    <3>1. \A v \in Users : Holds(v, b) => Holds(v, b)'
      BY <2>1, <2>3 DEF Holds
    <3> QED BY <1>3, <2>1, <3>1 DEF Held
  <2> QED BY <2>2, <2>3
<1>9. ASSUME NEW p \in Procs, UndoBooth(p) \/ CancelBooth(p) PROVE Goal
  <2>1. /\ h[p].pc \in {"unbooth", "c_booth"} /\ UNCHANGED <<regs, fails>>
        /\ FreeBooth(h[p].booth) /\ h[p].booth \in Booths
    BY <1>0, <1>9, AtStep DEF UndoBooth, CancelBooth, Outside
  <2>2. b # h[p].booth /\ booths'[b] = booths[b]
    BY <1>0, <2>1 DEF FreeBooth, Held
  <2>3. ~\E q \in Procs : Releases(q, b)
    BY <2>2 DEF Releases, OneAtATime
  <2> QED BY <1>1, <2>1, <2>2, <2>3 DEF Held, Holds
<1>10. ASSUME NEW p \in Procs, ActivateTx(p) PROVE Goal
  <2> DEFINE u == h[p].user
  <2>1. /\ h[p].pc = "act_tx" /\ UNCHANGED fails /\ u \in Users /\ regs[u].booth = h[p].booth
    BY <1>0, <1>10, AtStep DEF ActivateTx, SerialInv, InStep, Fits, Outside
  <2>2. CASE UNCHANGED <<regs, booths>>
    BY <1>4, <2>1, <2>2
  <2>3. CASE /\ regs' = [regs EXCEPT ![u].status = "REGISTERED", ![u].paid = TRUE,
                                     ![u].pay = h[p].pay]
             /\ booths' = OccupyBooth(h[p].booth)
    <3>1. /\ regs'[u].status = "REGISTERED" /\ regs'[u].booth = h[p].booth
          /\ \A v \in Users \ {u} : regs'[v] = regs[v]
      BY <1>0, <2>1, <2>3 DEF RowType
    <3>2. CASE b = h[p].booth
      BY <2>1, <3>1, <3>2 DEF Holds
    <3>3. CASE b # h[p].booth
      <4>1. booths'[b] = booths[b]
        BY <1>0, <2>3, <3>3 DEF OccupyBooth
      <4>2. \A v \in Users : Holds(v, b) => Holds(v, b)'
        BY <2>1, <3>1, <3>3 DEF Holds
      <4> QED BY <1>3, <2>1, <4>1, <4>2 DEF Held
    <3> QED BY <3>2, <3>3
  <2> QED BY <1>10, <2>2, <2>3 DEF ActivateTx
<1>11. ASSUME NEW p \in Procs, DeleteBoothWrite(p) PROVE Goal
  <2>1. h[p].pc = "d_delete" /\ UNCHANGED fails /\ h[p].booth \in Booths
    BY <1>0, <1>11, AtStep DEF DeleteBoothWrite, Outside
  <2>2. CASE UNCHANGED <<regs, booths>>
    BY <1>4, <2>1, <2>2
  <2>3. CASE /\ booths' = [booths EXCEPT ![h[p].booth] = [status |-> "DELETED", by |-> None]]
             /\ regs' = [u \in Users |->
                          [regs[u] EXCEPT !.booth = IF @ = h[p].booth THEN None ELSE @]]
    <3>1. b # h[p].booth /\ booths'[b] = booths[b]
      BY <1>0, <2>1, <2>3 DEF Held
    <3>2. ASSUME NEW u \in Users, Holds(u, b) PROVE Holds(u, b)'
      BY <1>0, <2>3, <3>1, <3>2 DEF Holds, RowType
    <3> QED BY <1>3, <2>1, <3>1, <3>2 DEF Held
  <2> QED BY <1>11, <2>2, <2>3 DEF DeleteBoothWrite
<1>12. ASSUME NEW p \in Procs, Step(p) PROVE Goal
  BY <1>4, <1>5, <1>6, <1>7, <1>8, <1>9, <1>10, <1>11, <1>12 DEF Step, ReadExisting,
     ReadTicketType, ReadBooth, ActivateRead, FindNext, Database, Outside
<1>13. ASSUME NEW p \in Procs, Start(p) PROVE Goal
  BY <1>4, <1>13 DEF Start, Register, Accept, CheckInRead, CancelRead, DeleteBoothRead,
     Database, Outside
<1>14. ASSUME NEW s \in funds, Webhook(s) PROVE Goal
  BY <1>4, <1>14 DEF Webhook, StripeWebhook, WiseWebhook, Database, Outside
<1>15. ASSUME NEW p \in Procs, Fail(p) PROVE Goal
  BY <1>0, <1>15 DEF Fail
<1> QED
  BY <1>2, <1>12, <1>13, <1>14, <1>15 DEF Next, Pay, RemoveEvent, Database, Outside, vars

(* While handlers do not overlap and none died, a booth that is shown as   *)
(* taken is taken for somebody.                                            *)
THEOREM HeldBoothsHaveHolders == OneAtATime => (Spec => []HeldBoothHasHolder)
<1> SUFFICES ASSUME OneAtATime PROVE Spec => []HeldBoothHasHolder
  OBVIOUS
<1>1. SerialInv /\ HoldersKnown /\ [Next]_vars => SerialInv' /\ HoldersKnown'
  BY SerialInvStep, HoldersKnownStep
<1>2. HoldersKnown => HeldBoothHasHolder
  BY DEF HoldersKnown, Held, Holds, Releases, Quiet, HeldBoothHasHolder
<1>3. Init => HoldersKnown
  BY DEF Init, HoldersKnown, Held
<1> QED BY <1>1, <1>2, <1>3, SerialInvInit, PTL DEF Spec

-----------------------------------------------------------------------------
(* The inductive form of ConfirmedIsPaidFor: a row that costs money, waits *)
(* and carries no payment identifier is one that the running request still *)
(* works on, so that no freed place promotes it.                           *)
Working(p, u) == h[p].user = u /\ h[p].pc \in {"reserve", "store", "undo"}

Waits(u) == regs[u].status = "WAITLISTED" /\ regs[u].pay = NoPay /\ Owed(u)

PaysFirst == \A u \in Users : Waits(u) => \E p \in Procs : Working(p, u)

(* A row that no step of a handler, or one that pays nothing, rewrites.    *)
SameCost(u) ==
  /\ Owed(u)' => Owed(u)
  /\ regs'[u].pay = regs[u].pay /\ regs'[u].status = regs[u].status
  /\ regs'[u].paid = regs[u].paid

IsPaidFor(u) ==
  Confirmed(u) /\ Owed(u) => regs[u].paid /\ [user |-> u, pay |-> regs[u].pay] \in funds

LEMMA SameCostPaid ==
  ASSUME NEW u \in Users, IsPaidFor(u), SameCost(u), funds \subseteq funds'
  PROVE  IsPaidFor(u)' /\ (Waits(u)' => Waits(u))
  BY DEF IsPaidFor, SameCost, Confirmed, Waits

LEMMA PaidForStep ==
  ASSUME SerialInv, OneAtATime, PaymentInv, Orderly, ConfirmedIsPaidFor, PaysFirst,
         [Next]_vars, fails = 0, fails' = 0
  PROVE  ConfirmedIsPaidFor' /\ PaysFirst'
<1> SUFFICES ASSUME NEW u \in Users
             PROVE  IsPaidFor(u)' /\ (Waits(u)' => \E p \in Procs : Working(p, u)')
  BY DEF ConfirmedIsPaidFor, PaysFirst, IsPaidFor
<1> DEFINE Goal == IsPaidFor(u)' /\ (Waits(u)' => \E p \in Procs : Working(p, u)')
<1> SUFFICES Goal
  OBVIOUS
<1>0. /\ TypeInv /\ regs \in [Users -> RowType] /\ IsPaidFor(u)
      /\ \A p \in Procs : Fits(h[p], regs, booths)
  BY DEF SerialInv, InStep, TypeInv, TypeOK, ConfirmedIsPaidFor, IsPaidFor
<1>1. ASSUME NEW p \in Procs, h[p].pc \notin {"reserve", "store", "undo"} PROVE ~Waits(u)
  BY <1>1 DEF PaysFirst, Working, OneAtATime
<1>2. ASSUME NEW p \in Procs, h[p].pc \notin {"reserve", "store", "undo"}, SameCost(u),
             UNCHANGED funds
      PROVE  Goal
  BY <1>0, <1>1, <1>2, SameCostPaid
<1>3. ASSUME UNCHANGED <<regs, h>>, funds \subseteq funds' PROVE Goal
  BY <1>0, <1>3 DEF PaysFirst, Working, Waits, IsPaidFor, Owed, Confirmed
<1>4. ASSUME NEW p \in Procs, h[p].pc \notin {"reserve", "store", "undo"},
             UNCHANGED <<regs, funds>>
      PROVE  Goal
  BY <1>2, <1>4 DEF SameCost, Owed
<1>5. ASSUME NEW p \in Procs, WriteRegistration(p) PROVE Goal
  <2> DEFINE v == h[p].user
  <2>1. h[p].pc = "write" /\ UNCHANGED funds /\ v \in Users /\ h[p] \in HandlerType
    BY <1>0, <1>5, AtStep DEF WriteRegistration, Outside
  <2>2. CASE UNCHANGED regs
    BY <1>4, <2>1, <2>2
  <2>3. CASE /\ regs' = [regs EXCEPT ![v] = NewRow(p)]
             /\ Goto(p, IF h[p].booth # None /\ Costs(p) THEN [h[p] EXCEPT !.pc = "reserve"]
                        ELSE PaymentStep(p))
    <3>1. CASE u # v
      BY <1>0, <1>2, <2>1, <2>3, <3>1 DEF SameCost, Owed
    <3>2. CASE u = v
      <4>1. Owed(u)' = Costs(p) /\ (Costs(p) => regs'[u].status = "WAITLISTED")
        BY <1>0, <2>1, <2>3, <3>2 DEF NewRow, RowWith, Owed, Costs
      <4>2. Costs(p) => Working(p, u)'
        <5>1. ASSUME Goto(p, [h[p] EXCEPT !.pc = "reserve"]) PROVE Working(p, u)'
          <6>1. h'[p] = [h[p] EXCEPT !.pc = "reserve"]
            BY <1>0, <5>1, GotoLocal
          <6> QED BY <2>1, <3>2, <6>1 DEF HandlerType, Working
        <5>2. ASSUME Goto(p, PaymentStep(p)), Costs(p) PROVE Working(p, u)'
          <6>1. h'[p] = PaymentStep(p)
            BY <1>0, <5>2, GotoLocal
          <6> QED BY <3>2, <5>2, <6>1, PaymentStepTarget, PaymentStepLocal DEF Working
        <5> QED BY <2>3, <5>1, <5>2
      <4> QED BY <4>1, <4>2 DEF IsPaidFor, Confirmed, Waits
    <3> QED BY <3>1, <3>2
  <2> QED BY <1>5, <2>2, <2>3 DEF WriteRegistration
<1>6. ASSUME NEW p \in Procs, ReserveBooth(p) PROVE Goal
  <2>1. /\ h[p].pc = "reserve" /\ UNCHANGED <<regs, funds>> /\ Costs(p)
        /\ booths[h[p].booth].status # "DELETED"
    BY <1>0, <1>6 DEF ReserveBooth, Outside, Fits, PaymentInv, ReserveCosts
  <2>2. h'[p] = PaymentStep(p)
    BY <1>0, <1>6, <2>1, GotoLocal DEF ReserveBooth
  <2>3. u = h[p].user => Working(p, u)'
    BY <2>1, <2>2, PaymentStepTarget, PaymentStepLocal DEF Working
  <2>4. Waits(u) => u = h[p].user
    BY DEF PaysFirst, Working, OneAtATime
  <2> QED BY <1>0, <2>1, <2>3, <2>4 DEF IsPaidFor, Confirmed, Waits, Owed
<1>7. ASSUME NEW p \in Procs, StorePaymentId(p) \/ UndoRegistration(p) PROVE Goal
  <2> DEFINE v == h[p].user
  <2>1. /\ h[p].pc \in {"store", "undo"} /\ UNCHANGED funds /\ v \in Users
        /\ regs[v].status = "WAITLISTED" /\ h[p].via \in {"stripe", "wise"}
    BY <1>0, <1>7, AtStep DEF StorePaymentId, UndoRegistration, Outside, Fits, HandlerType
  <2>2. Waits(u) => u = v
    BY DEF PaysFirst, Working, OneAtATime
  <2>3. CASE u # v
    <3>1. regs'[u] = regs[u]
      BY <1>0, <1>7, <2>3 DEF StorePaymentId, UndoRegistration
    <3> QED BY <1>0, <2>1, <2>2, <2>3, <3>1 DEF IsPaidFor, Confirmed, Waits, Owed
  <2>4. CASE u = v /\ StorePaymentId(p)
    <3>1. NextCheckout(v, h[p].via) # NoPay
      BY <1>0, <2>1, NextCheckoutType, CheckoutIsPayment
    <3>2. regs'[u].status = "WAITLISTED" /\ regs'[u].pay # NoPay
      BY <1>0, <2>1, <2>4, <3>1 DEF StorePaymentId, RowType
    <3> QED BY <3>2 DEF IsPaidFor, Confirmed, Waits
  <2>5. CASE u = v /\ UndoRegistration(p)
    <3>1. regs'[u].status = "CANCELLED"
      BY <1>0, <2>5 DEF UndoRegistration, RowType
    <3> QED BY <3>1 DEF IsPaidFor, Confirmed, Waits
  <2> QED BY <1>7, <2>3, <2>4, <2>5
<1>8. ASSUME NEW p \in Procs, ActivateTx(p) PROVE Goal
  <2> DEFINE v == h[p].user
  <2>1. /\ h[p].pc = "act_tx" /\ UNCHANGED funds /\ v \in Users /\ HandlerOK(h[p])
    BY <1>0, <1>8, AtStep DEF ActivateTx, Outside, TypeInv
  <2>2. CASE UNCHANGED regs
    BY <1>4, <2>1, <2>2
  <2>3. CASE regs' = [regs EXCEPT ![v].status = "REGISTERED", ![v].paid = TRUE,
                                  ![v].pay = h[p].pay]
    <3>1. CASE u # v
      BY <1>0, <1>2, <2>1, <2>3, <3>1 DEF SameCost, Owed
    <3>2. CASE u = v
      <4>1. /\ regs'[u].status = "REGISTERED" /\ regs'[u].paid /\ regs'[u].pay = h[p].pay
            /\ Owed(u)' = Owed(u)
        BY <1>0, <2>1, <2>3, <3>2 DEF RowType, Owed
      <4>2. Owed(u) => [user |-> u, pay |-> h[p].pay] \in funds
        BY <2>1, <3>2 DEF PaymentInv, FreeActivation, HandlerOK
      <4> QED BY <2>1, <4>1, <4>2 DEF IsPaidFor, Waits
    <3> QED BY <3>1, <3>2
  <2> QED BY <1>8, <2>2, <2>3 DEF ActivateTx
<1>9. ASSUME NEW p \in Procs, CheckInWrite(p) \/ CancelWrite(p) \/ PromoteNext(p) PROVE Goal
  <2> DEFINE v == IF h[p].pc = "c_promote" THEN h[p].next ELSE h[p].user
  <2>1. h[p].pc \in {"ci_write", "c_write", "c_promote"} /\ UNCHANGED funds /\ v \in Users
    BY <1>0, <1>9, AtStep DEF CheckInWrite, CancelWrite, PromoteNext, Outside
  <2>2. PICK status : /\ regs' = [regs EXCEPT ![v].status = status]
                      /\ \/ status = "CANCELLED"
                         \/ status = "ATTENDED" /\ Confirmed(v)
                         \/ /\ status = "REGISTERED" /\ regs[v].status = "WAITLISTED"
                            /\ regs[v].pay = NoPay
    BY <1>0, <1>9 DEF CheckInWrite, CancelWrite, PromoteNext, Fits, Confirmed
  <2>3. CASE u # v
    BY <1>0, <1>2, <2>1, <2>2, <2>3 DEF SameCost, Owed
  <2>4. CASE u = v
    <3>1. /\ regs'[u].status = status /\ regs'[u].pay = regs[u].pay
          /\ regs'[u].paid = regs[u].paid /\ Owed(u)' = Owed(u)
      BY <1>0, <2>1, <2>2, <2>4 DEF RowType, Owed
    <3>2. ~Waits(u)
      BY <1>1, <2>1
    <3> QED BY <1>0, <2>1, <2>2, <2>4, <3>1, <3>2 DEF IsPaidFor, Confirmed, Waits
  <2> QED BY <2>3, <2>4
<1>10. ASSUME NEW p \in Procs, DeleteBoothWrite(p) PROVE Goal
  <2>1. h[p].pc = "d_delete" /\ UNCHANGED funds
    BY <1>10 DEF DeleteBoothWrite, Outside
  <2>2. CASE UNCHANGED regs
    BY <1>4, <2>1, <2>2
  <2>3. CASE regs' = [w \in Users |-> [regs[w] EXCEPT !.booth = IF @ = h[p].booth THEN None ELSE @]]
    <3>1. /\ regs'[u].status = regs[u].status /\ regs'[u].paid = regs[u].paid
          /\ regs'[u].pay = regs[u].pay /\ regs'[u].ticket = regs[u].ticket
          /\ regs'[u].booth \in {regs[u].booth, None}
      BY <1>0, <2>3 DEF RowType
    <3> QED BY <1>2, <2>1, <3>1 DEF SameCost, Owed, IsFree
  <2> QED BY <1>10, <2>2, <2>3 DEF DeleteBoothWrite
<1>11. ASSUME NEW p \in Procs, Step(p) PROVE Goal
  BY <1>4, <1>5, <1>6, <1>7, <1>8, <1>9, <1>10, <1>11 DEF Step, ReadExisting, ReadTicketType,
     ReadBooth, UndoBooth, ActivateRead, CancelBooth, FindNext, Database, Outside
<1>12. ASSUME NEW p \in Procs, Start(p) PROVE Goal
  BY <1>4, <1>12 DEF Start, Register, Accept, CheckInRead, CancelRead, DeleteBoothRead,
     Database, Outside
<1>13. ASSUME NEW s \in funds, Webhook(s) PROVE Goal
  BY <1>4, <1>13 DEF Webhook, StripeWebhook, WiseWebhook, Database, Outside
<1>14. ~\E p \in Procs : Fail(p)
  BY DEF Fail
<1> QED
  BY <1>3, <1>11, <1>12, <1>13, <1>14 DEF Next, Pay, RemoveEvent, Database, Outside, vars

(* Failures are only counted up.                                           *)
LEMMA FailsGrow ==
  ASSUME TypeInv, [Next]_vars, fails' = 0
  PROVE  fails = 0
<1>1. ASSUME NEW p \in Procs, Step(p) PROVE fails' = fails
  <2>1. CASE \/ ReadExisting(p) \/ ReadTicketType(p) \/ ReadBooth(p) \/ ActivateRead(p)
             \/ FindNext(p)
    BY <2>1 DEF ReadExisting, ReadTicketType, ReadBooth, ActivateRead, FindNext, Outside
  <2>2. CASE \/ WriteRegistration(p) \/ ReserveBooth(p) \/ StorePaymentId(p)
             \/ UndoRegistration(p) \/ UndoBooth(p) \/ ActivateTx(p)
    BY <2>2 DEF WriteRegistration, ReserveBooth, StorePaymentId, UndoRegistration, UndoBooth,
       ActivateTx, Outside
  <2>3. CASE \/ CheckInWrite(p) \/ CancelWrite(p) \/ CancelBooth(p) \/ PromoteNext(p)
             \/ DeleteBoothWrite(p)
    BY <2>3 DEF CheckInWrite, CancelWrite, CancelBooth, PromoteNext, DeleteBoothWrite, Outside
  <2> QED BY <1>1, <2>1, <2>2, <2>3 DEF Step
<1>2. ASSUME NEW p \in Procs, Start(p) PROVE fails' = fails
  BY <1>2 DEF Start, Register, CheckInRead, CancelRead, DeleteBoothRead, Outside
<1>3. ASSUME NEW s \in funds, Webhook(s) PROVE fails' = fails
  BY <1>3 DEF Webhook, StripeWebhook, WiseWebhook, Outside
<1>4. fails' = fails \/ fails' = fails + 1
  BY <1>1, <1>2, <1>3 DEF Next, Fail, Pay, RemoveEvent, Outside, vars
<1> QED BY <1>4 DEF TypeInv, TypeOK

LEMMA PaymentInvStep == Orderly /\ PaymentInv /\ [Next]_vars => PaymentInv'
  BY TypeInvStep, OneRequestStep, FreeActivationStep, ReserveCostsStep, PaidHasFundsStep
     DEF PaymentInv

(* While requests do not overlap, none died and no registration is         *)
(* activated by the sandbox, a registration that costs money is confirmed  *)
(* only against the paid checkout that its row names.                      *)
THEOREM ConfirmedArePaidFor ==
  Orderly /\ OneAtATime => (Spec => []ConfirmedIsPaidFor)
<1> SUFFICES ASSUME Orderly, OneAtATime PROVE Spec => []ConfirmedIsPaidFor
  OBVIOUS
<1> DEFINE Inv == SerialInv /\ PaymentInv /\ ConfirmedIsPaidFor /\ (fails = 0 => PaysFirst)
<1>1. Init => Inv
  BY SerialInvInit, PaymentInvInit DEF Init, ConfirmedIsPaidFor, PaysFirst, Confirmed, Waits, NoRow
<1>2. Inv /\ [Next]_vars => Inv'
  BY SerialInvStep, PaymentInvStep, PaidForStep, FailsGrow DEF SerialInv, ConfirmedIsPaidFor
<1> QED BY <1>1, <1>2, PTL DEF Spec

-----------------------------------------------------------------------------
(* The inductive form of WiseConfirmsLastCheckout: a Wise reference in a   *)
(* row, or in the hands of a webhook, is the last checkout of its user.    *)
LastReference ==
  /\ \A s \in sessions : s.pay.n <= Tries(s.user)
  /\ \A u \in Users : regs[u].pay.kind = "wise" => regs[u].pay.n = Tries(u)
  /\ \A p \in Procs : h[p].pc \in {"act_read", "act_tx"} /\ h[p].pay.kind = "wise" =>
       regs[h[p].user].pay = h[p].pay

(* A fresh checkout is one more.                                           *)
LEMMA TriesCount ==
  ASSUME TypeInv, LastReference, NEW u \in Users, NEW via \in {"stripe", "wise"},
         sessions' = sessions \cup {[user |-> u, pay |-> NextCheckout(u, via)]}
  PROVE  /\ Tries(u)' = Tries(u) + 1 /\ Tries(u) \in Nat
         /\ \A v \in Users \ {u} : Tries(v)' = Tries(v)
<1> DEFINE Of(v) == {s \in sessions : s.user = v}
           new == [user |-> u, pay |-> NextCheckout(u, via)]
<1>1. IsFiniteSet(Of(u)) /\ Cardinality(Of(u)) \in Nat
  BY FS_Subset, FS_CardinalityType DEF TypeInv, TypeOK
<1>2. new.pay.n = Tries(u) + 1 /\ new.user = u
  BY DEF NextCheckout
<1>3. new \notin Of(u)
  BY <1>1, <1>2 DEF LastReference, Tries
<1>4. Of(u)' = Of(u) \cup {new}
  BY <1>2
<1>5. \A v \in Users \ {u} : Of(v)' = Of(v)
  BY <1>2
<1>6. Cardinality(Of(u) \cup {new}) = Cardinality(Of(u)) + 1
  BY <1>1, <1>3, FS_AddElement
<1> QED BY <1>1, <1>4, <1>5, <1>6 DEF Tries

LEMMA LastReferenceStep ==
  ASSUME SerialInv, OneAtATime, LastReference, [Next]_vars
  PROVE  LastReference'
<1>0. /\ TypeInv /\ regs \in [Users -> RowType]
      /\ sessions \subseteq [user : Users, pay : Checkouts]
  BY DEF SerialInv, TypeInv, TypeOK
<1> DEFINE Fresh(r) == r.pc \in {"act_read", "act_tx"} => r.pay.kind # "wise"
           Kept(u) == regs'[u].pay = regs[u].pay \/ regs'[u].pay.kind # "wise"
<1>1. ASSUME UNCHANGED sessions, \A u \in Users : Kept(u),
             \A p \in Procs : h'[p].pc \in {"act_read", "act_tx"} /\ h'[p].pay.kind = "wise" =>
                regs'[h'[p].user].pay = h'[p].pay
      PROVE  LastReference'
  BY <1>1 DEF LastReference, Tries
<1>2. ASSUME UNCHANGED sessions, \A u \in Users : Kept(u), NEW p \in Procs, NEW r,
             Goto(p, r), Fresh(r)
      PROVE  LastReference'
  <2>1. \A q \in Procs : h'[q] = r
    BY <1>0, <1>2, GotoLocal DEF OneAtATime
  <2> QED BY <1>1, <1>2, <2>1
<1>3. ASSUME UNCHANGED sessions, \A u \in Users : Kept(u), NEW p \in Procs, Reply(p) \/ Throw(p)
      PROVE  LastReference'
  BY <1>2, <1>3 DEF Reply, Throw, Idle
<1>4. ASSUME UNCHANGED sessions, \A u \in Users : Kept(u), NEW p \in Procs,
             NEW pc \in PCs \ {"act_read", "act_tx"}, Goto(p, [h[p] EXCEPT !.pc = pc])
      PROVE  LastReference'
  <2>1. [h[p] EXCEPT !.pc = pc].pc = pc
    BY <1>0, AtStep DEF HandlerType
  <2> QED BY <1>2, <1>4, <2>1
<1>5. ASSUME NEW p \in Procs PROVE Fresh(PaymentStep(p))
  BY DEF PaymentStep, Continue, Idle, Free, Sandbox, NoPay
<1>6. ASSUME NEW p \in Procs, ReadExisting(p) \/ FindNext(p) PROVE LastReference'
  <2>1. UNCHANGED <<regs, sessions>>
    BY <1>6 DEF ReadExisting, FindNext, Database, Outside
  <2>2. ASSUME NEW had, Goto(p, [h[p] EXCEPT !.pc = "ticket", !.had = had]) PROVE LastReference'
    <3>1. [h[p] EXCEPT !.pc = "ticket", !.had = had].pc = "ticket"
      BY <1>0, AtStep DEF HandlerType
    <3> QED BY <1>2, <2>1, <2>2, <3>1
  <2>3. ASSUME NEW v, Goto(p, [h[p] EXCEPT !.pc = "c_promote", !.next = v]) PROVE LastReference'
    <3>1. [h[p] EXCEPT !.pc = "c_promote", !.next = v].pc = "c_promote"
      BY <1>0, AtStep DEF HandlerType
    <3> QED BY <1>2, <2>1, <2>3, <3>1
  <2> QED BY <1>3, <1>6, <2>1, <2>2, <2>3 DEF ReadExisting, FindNext
<1>7. ASSUME NEW p \in Procs, ReadTicketType(p) \/ ReadBooth(p) PROVE LastReference'
  BY <1>3, <1>4, <1>7 DEF ReadTicketType, ReadBooth, Database, Outside, PCs
<1>8. ASSUME NEW p \in Procs, WriteRegistration(p) \/ ReserveBooth(p) PROVE LastReference'
  <2>1. UNCHANGED sessions
    BY <1>8 DEF WriteRegistration, ReserveBooth, Outside
  <2>2. \A u \in Users : Kept(u)
    BY <1>0, <1>8 DEF WriteRegistration, ReserveBooth, NewRow, RowWith, NoPay
  <2> QED BY <1>2, <1>3, <1>4, <1>5, <1>8, <2>1, <2>2 DEF WriteRegistration, ReserveBooth, PCs
<1>9. ASSUME NEW p \in Procs, UndoRegistration(p) \/ CancelWrite(p) PROVE LastReference'
  <2>1. UNCHANGED sessions /\ \A u \in Users : Kept(u)
    BY <1>0, <1>9 DEF UndoRegistration, CancelWrite, Outside, RowType
  <2> QED BY <1>3, <1>4, <1>9, <2>1 DEF UndoRegistration, CancelWrite, PromotionStep, PCs
<1>10. ASSUME NEW p \in Procs, UndoBooth(p) \/ CancelBooth(p) PROVE LastReference'
  BY <1>3, <1>4, <1>10 DEF UndoBooth, CancelBooth, PromotionStep, Outside, PCs
<1>11. ASSUME NEW p \in Procs, CheckInWrite(p) \/ PromoteNext(p) \/ DeleteBoothWrite(p)
       PROVE  LastReference'
  <2>1. UNCHANGED sessions /\ \A u \in Users : Kept(u)
    BY <1>0, <1>11 DEF CheckInWrite, PromoteNext, DeleteBoothWrite, Outside, RowType
  <2> QED BY <1>3, <1>11, <2>1 DEF CheckInWrite, PromoteNext, DeleteBoothWrite
<1>12. ASSUME NEW p \in Procs, ActivateRead(p) PROVE LastReference'
  <2> DEFINE r == [h[p] EXCEPT !.pc = "act_tx", !.booth = regs[h[p].user].booth]
  <2>1. UNCHANGED <<regs, sessions>> /\ h[p].pc = "act_read"
    BY <1>12 DEF ActivateRead, Database, Outside
  <2>2. CASE Goto(p, r)
    <3>1. r.user = h[p].user /\ r.pay = h[p].pay
      BY <1>0, AtStep DEF HandlerType
    <3>2. \A q \in Procs : h'[q].user = h[p].user /\ h'[q].pay = h[p].pay
      BY <1>0, <2>2, <3>1, GotoLocal DEF OneAtATime
    <3>3. h[p].pay.kind = "wise" => regs[h[p].user].pay = h[p].pay
      BY <2>1 DEF LastReference
    <3> QED BY <1>1, <2>1, <3>2, <3>3
  <2> QED BY <1>3, <1>12, <2>1, <2>2 DEF ActivateRead
<1>13. ASSUME NEW p \in Procs, ActivateTx(p) PROVE LastReference'
  <2>1. UNCHANGED sessions /\ \A u \in Users : Kept(u)
    BY <1>0, <1>13 DEF ActivateTx, Outside, RowType, LastReference
  <2> QED BY <1>3, <1>13, <2>1 DEF ActivateTx
<1>14. ASSUME NEW p \in Procs, StorePaymentId(p) PROVE LastReference'
  <2>0. PICK u \in Users, via \in {"stripe", "wise"} : u = h[p].user /\ via = h[p].via
    BY <1>0, <1>14, AtStep DEF StorePaymentId, HandlerType
  <2> DEFINE c == NextCheckout(u, via)
  <2>1. /\ regs' = [regs EXCEPT ![u].pay = c]
        /\ sessions' = sessions \cup {[user |-> u, pay |-> c]}
    BY <1>14, <2>0 DEF StorePaymentId
  <2>a. /\ Tries(u)' = Tries(u) + 1 /\ Tries(u) \in Nat
        /\ \A v \in Users \ {u} : Tries(v)' = Tries(v)
    BY <1>0, <2>1, TriesCount
  <2>b. c.n = Tries(u) + 1
    BY DEF NextCheckout
  <2> HIDE DEF c
  <2>2. /\ Tries(u)' = Tries(u) + 1 /\ Tries(u) \in Nat /\ c.n = Tries(u) + 1
        /\ \A v \in Users \ {u} : Tries(v)' = Tries(v)
    BY <2>a, <2>b
  <2>3. regs'[u].pay = c /\ \A v \in Users \ {u} : regs'[v] = regs[v]
    BY <1>0, <2>1 DEF RowType
  <2>4. \A q \in Procs : h'[q] = Idle
    BY <1>0, <1>14, GotoLocal DEF StorePaymentId, Reply, OneAtATime
  <2>5. \A s \in sessions' : s.pay.n <= Tries(s.user)'
    <3>1. ASSUME NEW s \in sessions PROVE s.pay.n <= Tries(s.user)'
      <4>1. s.user \in Users /\ s.pay.n \in Nat /\ s.pay.n <= Tries(s.user)
        BY <1>0 DEF Checkouts, LastReference
      <4> QED BY <2>2, <4>1
    <3> QED BY <2>1, <2>2, <3>1
  <2> QED BY <2>2, <2>3, <2>4, <2>5 DEF LastReference, Idle
<1>15. ASSUME NEW p \in Procs, Step(p) PROVE LastReference'
  BY <1>6, <1>7, <1>8, <1>9, <1>10, <1>11, <1>12, <1>13, <1>14, <1>15 DEF Step
<1>16. ASSUME NEW p \in Procs, Start(p) PROVE LastReference'
  BY <1>2, <1>16 DEF Start, Register, CheckInRead, CancelRead, DeleteBoothRead, Database,
     Outside, Idle
<1>17. ASSUME NEW s \in funds, Webhook(s) PROVE LastReference'
  <2>1. UNCHANGED <<regs, sessions>>
    BY <1>17 DEF Webhook, StripeWebhook, WiseWebhook, Database, Outside
  <2>2. CASE UNCHANGED h
    BY <1>1, <2>1, <2>2 DEF LastReference
  <2>3. ASSUME NEW p \in Procs, StripeWebhook(p, s) PROVE LastReference'
    BY <1>2, <2>1, <2>3 DEF StripeWebhook, Idle
  <2>4. ASSUME NEW p \in Procs, WiseWebhook(p, s), ~UNCHANGED h PROVE LastReference'
    <3> DEFINE r == [Idle EXCEPT !.pc = "act_read", !.user = s.user, !.pay = s.pay, !.src = s.pay]
    <3>1. Goto(p, r) /\ regs[s.user].pay = s.pay /\ r.user = s.user /\ r.pay = s.pay
      BY <2>4 DEF WiseWebhook, KnownReference, Idle
    <3>2. \A q \in Procs : h'[q] = r
      BY <1>0, <3>1, GotoLocal DEF OneAtATime
    <3> QED BY <1>1, <2>1, <3>1, <3>2
  <2> QED BY <1>17, <2>2, <2>3, <2>4 DEF Webhook
<1>18. ASSUME NEW p \in Procs, Fail(p) PROVE LastReference'
  BY <1>3, <1>18 DEF Fail, Database
<1>19. CASE UNCHANGED <<regs, h, sessions>>
  BY <1>1, <1>19 DEF LastReference
<1> QED
  BY <1>15, <1>16, <1>17, <1>18, <1>19 DEF Next, Pay, RemoveEvent, Database, Outside, vars

(* While handlers do not overlap, a registration that Wise confirmed was   *)
(* paid under the reference of its last checkout, whatever handlers died.  *)
THEOREM WiseConfirmsTheLast == OneAtATime => (Spec => []WiseConfirmsLastCheckout)
<1> SUFFICES ASSUME OneAtATime PROVE Spec => []WiseConfirmsLastCheckout
  OBVIOUS
<1>1. SerialInv /\ LastReference /\ [Next]_vars => SerialInv' /\ LastReference'
  BY SerialInvStep, LastReferenceStep
<1>2. LastReference => WiseConfirmsLastCheckout
  BY DEF LastReference, WiseConfirmsLastCheckout
<1>3. Init => LastReference
  BY DEF Init, LastReference, NoRow, NoPay, Idle
<1> QED BY <1>1, <1>2, <1>3, SerialInvInit, PTL DEF Spec
=============================================================================
