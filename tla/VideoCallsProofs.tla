-------------------------- MODULE VideoCallsProofs --------------------------
(***************************************************************************)
(* Proofs about VideoCalls, for any members, plans and numbers of calls,   *)
(* reloads and timeouts: CallsInv is inductive, and says that a call rings *)
(* once, that an answer reaches the caller before any candidate of the     *)
(* connection that made it, and that what a modal refers to stays.         *)
(***************************************************************************)
EXTENDS VideoCalls, Integers, TLAPS

(* The offer of call n was sent; modal j accepted an offer and has sent    *)
(* its answer, or failed.                                                  *)
Begun(n) == n <= placed /\ call[n].step = "none" /\ (Mounted(n) => call[n].listening)

Settled(j) == call[j].answers # 0 /\ call[j].step = "none"

Queue(m) == m.early \cup m.pending

(* How far the modal of a caller, and that of a callee, can be.            *)
Shape(i, m) ==
  /\ m.user = Nobody => m = NoModal
  /\ m.incoming => m.offer # 0
  /\ i \in CallOffers =>
       m.status # "ringing" /\ m.answers = 0 /\ m.step \in {"none", "media", "offer"}
  /\ i \notin CallOffers =>
       /\ m.step \in {"none", "media", "describe", "answer"} /\ m.pc # "offered"
       /\ m.answers = 0 => m.step = "none" /\ m.pc = "none"
       /\ m.step # "none" => m.pc # "stable"
  /\ m.step \in {"describe", "answer"} \/ m.remote # 0 => m.pc # "none"

(* The offer that a modal shows, or accepted, is that of a subscriber.     *)
Refers(m) ==
  /\ m.offer # 0 => m.peer = call[m.offer].user /\ m.peer \in Subscribers
  /\ m.answers # 0 => m.to = call[m.answers].user /\ m.to \in Subscribers

Drained(m) == m.remote # 0 /\ ~m.closed => m.remote \notin Queue(m)

Answered(i, m) ==
  i \in CallOffers /\ m.remote # 0 =>
    /\ call[m.remote].answers # 0
    /\ call[call[m.remote].answers].user = m.user
    /\ m.user \in Subscribers

CandidateOK(c) == c \notin CallOffers => Settled(c)

ModalsOK ==
  \A i \in Modals :
    /\ Shape(i, call[i]) /\ Refers(call[i]) /\ Drained(call[i]) /\ Answered(i, call[i])
    /\ \A c \in Queue(call[i]) : CandidateOK(c)

ShownOK == \A u \in Members : shown[u] # 0 => call[shown[u]].user = u

(* An offer is sent once, and rings in one modal.                          *)
OnceOK ==
  \A n \in CallOffers :
    /\ n > placed => call[n] = NoModal
    /\ n \in asked => Begun(n) /\ call[MaxCalls + n] = NoModal
    /\ call[MaxCalls + n] # NoModal => Begun(n)
    /\ Mounted(n) /\ ~call[n].listening => call[n].step = "none"

(* The events on their way.                                                *)
Positions(u) == 1..Len(inbox[u])

Announced(j) ==
  \E u \in Members : \E k \in Positions(u) : inbox[u][k] = CallEvent("call-answered", j)

RingsOK(u, k, n) ==
  /\ n \in CallOffers /\ Begun(n) /\ n \notin asked /\ call[MaxCalls + n] = NoModal
  /\ call[n].user \in Subscribers
  /\ \A v \in Members : \A l \in Positions(v) :
       inbox[v][l] = CallEvent("incoming-call", n) => v = u /\ l = k

AnswerOK(u, k, j) ==
  /\ j \notin CallOffers /\ Settled(j) /\ call[call[j].answers].user = u /\ u \in Subscribers
  /\ \A i \in Modals : j \notin Queue(call[i])
  /\ \A v \in Members : \A l \in Positions(v) :
       inbox[v][l] = CallEvent("ice-candidate", j) => v = u /\ k < l

EventsOK ==
  \A u \in Members : \A k \in Positions(u) : \A j \in Modals :
    /\ inbox[u][k] = CallEvent("incoming-call", j) => RingsOK(u, k, j)
    /\ inbox[u][k] = CallEvent("call-answered", j) => AnswerOK(u, k, j)
    /\ inbox[u][k] = CallEvent("ice-candidate", j) => CandidateOK(j)

CallsInv == CallsTypeOK /\ ModalsOK /\ ShownOK /\ OnceOK /\ EventsOK

-----------------------------------------------------------------------------
(* Queues of events.                                                       *)
LEMMA EmitFacts ==
  ASSUME CallsTypeOK, NEW v, NEW e \in CallEventType, Emit(v, e)
  PROVE  /\ inbox' \in [Members -> Seq(CallEventType)]
         /\ \A u \in Members : \A k \in Positions(u)' :
              \/ k \in Positions(u) /\ inbox'[u][k] = inbox[u][k]
              \/ u = v /\ inbox'[u][k] = e /\ k = Len(inbox[u]) + 1
<1>1. inbox \in [Members -> Seq(CallEventType)]
  BY DEF CallsTypeOK
<1>2. inbox' \in [Members -> Seq(CallEventType)]
  <2>1. CASE v \in Members
    <3>1. Append(inbox[v], e) \in Seq(CallEventType)
      BY <1>1, <2>1
    <3> QED BY <1>1, <3>1 DEF Emit
  <2>2. CASE v \notin Members
    BY <1>1, <2>2 DEF Emit
  <2> QED BY <2>1, <2>2
<1>3. ASSUME NEW u \in Members, NEW k \in Positions(u)'
      PROVE  \/ k \in Positions(u) /\ inbox'[u][k] = inbox[u][k]
             \/ u = v /\ inbox'[u][k] = e /\ k = Len(inbox[u]) + 1
  <2>1. CASE u = v
    <3>1. inbox'[u] = Append(inbox[u], e) /\ inbox[u] \in Seq(CallEventType)
      BY <1>1, <2>1 DEF Emit
    <3>2. Len(inbox'[u]) = Len(inbox[u]) + 1 /\ Len(inbox[u]) \in Nat
      BY <3>1
    <3> QED BY <1>3, <2>1, <3>1, <3>2 DEF Positions
  <2>2. CASE u # v
    <3>1. inbox'[u] = inbox[u]
      BY <1>1, <2>2 DEF Emit
    <3> QED BY <1>3, <3>1 DEF Positions
  <2> QED BY <2>1, <2>2
<1> QED BY <1>2, <1>3

LEMMA PopFacts ==
  ASSUME CallsTypeOK, NEW u \in Members, inbox[u] # <<>>, Pop(u)
  PROVE  /\ inbox' \in [Members -> Seq(CallEventType)]
         /\ \A v \in Members \ {u} : inbox'[v] = inbox[v]
         /\ \A k \in Positions(u)' : k + 1 \in Positions(u) /\ inbox'[u][k] = inbox[u][k + 1]
         /\ 1 \in Positions(u) /\ Head(inbox[u]) = inbox[u][1]
         /\ inbox[u][1] \in CallEventType
<1>1. inbox \in [Members -> Seq(CallEventType)] /\ inbox[u] \in Seq(CallEventType)
  BY DEF CallsTypeOK
<1>2. inbox'[u] = Tail(inbox[u]) /\ \A v \in Members \ {u} : inbox'[v] = inbox[v]
  BY <1>1 DEF Pop
<1>3. Tail(inbox[u]) \in Seq(CallEventType) /\ Len(inbox[u]) \in Nat /\ Len(inbox[u]) > 0
  BY <1>1
<1>4. Len(Tail(inbox[u])) = Len(inbox[u]) - 1
  BY <1>1, <1>3
<1>5. \A k \in 1..Len(Tail(inbox[u])) : Tail(inbox[u])[k] = inbox[u][k + 1]
  BY <1>1
<1>6. Head(inbox[u]) = inbox[u][1]
  BY <1>1
<1>7. inbox' \in [Members -> Seq(CallEventType)]
  BY <1>1, <1>3 DEF Pop
<1> QED BY <1>1, <1>2, <1>3, <1>4, <1>5, <1>6, <1>7 DEF Positions

(* No step of this kind adds an event that refers to a modal; what waits   *)
(* may move up by one.                                                     *)
Meant(e) == e.type \in {"incoming-call", "call-answered", "ice-candidate"}

Fewer ==
  \E d \in [Members -> {0, 1}] :
    \A u \in Members : \A k \in Positions(u)' :
      Meant(inbox'[u][k]) =>
        k + d[u] \in Positions(u) /\ inbox'[u][k] = inbox[u][k + d[u]]

LEMMA SameInbox ==
  ASSUME CallsTypeOK, UNCHANGED inbox
  PROVE  inbox' \in [Members -> Seq(CallEventType)] /\ Fewer
<1>1. \A u \in Members : \A k \in Positions(u)' :
        k \in Nat /\ k + 0 \in Positions(u) /\ inbox'[u][k] = inbox[u][k + 0]
  BY DEF Positions, CallsTypeOK
<1>2. [u \in Members |-> 0] \in [Members -> {0, 1}]
  OBVIOUS
<1>3. \A u \in Members : [w \in Members |-> 0][u] = 0
  OBVIOUS
<1> QED BY <1>1, <1>2, <1>3 DEF Fewer, CallsTypeOK

LEMMA EmitFewer ==
  ASSUME CallsTypeOK, NEW v, NEW e \in CallEventType, Emit(v, e), ~Meant(e)
  PROVE  inbox' \in [Members -> Seq(CallEventType)] /\ Fewer
<1>1. \A u \in Members : \A k \in Positions(u)' : Meant(inbox'[u][k]) =>
        k \in Nat /\ k + 0 \in Positions(u) /\ inbox'[u][k] = inbox[u][k + 0]
  BY EmitFacts DEF Positions
<1>2. [u \in Members |-> 0] \in [Members -> {0, 1}]
  OBVIOUS
<1>3. \A u \in Members : [w \in Members |-> 0][u] = 0
  OBVIOUS
<1>4. inbox' \in [Members -> Seq(CallEventType)]
  BY EmitFacts
<1> QED BY <1>1, <1>2, <1>3, <1>4 DEF Fewer

LEMMA PopFewer ==
  ASSUME CallsTypeOK, NEW u \in Members, inbox[u] # <<>>, Pop(u)
  PROVE  inbox' \in [Members -> Seq(CallEventType)] /\ Fewer
<1> DEFINE d == [v \in Members |-> IF v = u THEN 1 ELSE 0]
<1>1. d \in [Members -> {0, 1}] /\ d[u] = 1 /\ \A v \in Members \ {u} : d[v] = 0
  OBVIOUS
<1>2. inbox \in [Members -> Seq(CallEventType)]
  BY DEF CallsTypeOK
<1> HIDE DEF d
<1>3. ASSUME NEW v \in Members, NEW k \in Positions(v)'
      PROVE  k + d[v] \in Positions(v) /\ inbox'[v][k] = inbox[v][k + d[v]]
  <2>1. CASE v = u
    BY <1>1, <1>3, <2>1, PopFacts
  <2>2. CASE v # u
    <3>1. inbox'[v] = inbox[v] /\ d[v] = 0 /\ k \in Nat
      BY <1>1, <1>3, <2>2, PopFacts DEF Positions
    <3> QED BY <1>3, <3>1 DEF Positions
  <2> QED BY <2>1, <2>2
<1> QED BY <1>1, <1>3, PopFacts DEF Fewer

-----------------------------------------------------------------------------
(* What was said of a modal stays true of it.                              *)
Stable ==
  /\ \A j \in Modals : call[j].user \in Members => call'[j].user = call[j].user
  /\ \A j \in Modals : call[j].answers # 0 =>
       call'[j].answers = call[j].answers /\ call'[j].to = call[j].to
  /\ \A n \in CallOffers : Begun(n) => Begun(n)'
  /\ \A j \in Modals : CandidateOK(j) => CandidateOK(j)'

LEMMA RefersStable ==
  ASSUME Stable, NEW m \in ModalType, Refers(m)
  PROVE  Refers(m)'
<1>0. Subscribers \subseteq Members /\ CallOffers \subseteq Modals
  BY CallsAssumption DEF CallOffers, Modals
<1>1. m.offer \in CallOffers \cup {0} /\ m.answers \in CallOffers \cup {0}
  BY DEF ModalType
<1>2. \A n \in CallOffers : call[n].user \in Subscribers => call'[n].user = call[n].user
  BY <1>0 DEF Stable
<1> QED BY <1>1, <1>2 DEF Refers

LEMMA AnsweredStable ==
  ASSUME CallsTypeOK, Stable, NEW i \in Modals, NEW m \in ModalType, Answered(i, m)
  PROVE  Answered(i, m)'
<1> SUFFICES ASSUME i \in CallOffers, m.remote # 0
             PROVE  /\ call'[m.remote].answers # 0
                    /\ call'[call'[m.remote].answers].user = m.user
                    /\ m.user \in Subscribers
  BY DEF Answered
<1>0. Subscribers \subseteq Members /\ CallOffers \subseteq Modals
  BY CallsAssumption DEF CallOffers, Modals
<1>1. m.remote \in Modals
  BY DEF ModalType
<1>2. call[m.remote].answers # 0 /\ call[call[m.remote].answers].user = m.user
      /\ m.user \in Subscribers
  BY DEF Answered
<1>3. call[m.remote].answers \in Modals
  BY <1>0, <1>1, <1>2 DEF CallsTypeOK, ModalType
<1>4. call'[m.remote].answers = call[m.remote].answers
  BY <1>1, <1>2 DEF Stable
<1> QED BY <1>0, <1>2, <1>3, <1>4 DEF Stable

(* The events on their way stay true if no modal is created for an offer  *)
(* that still has to ring and no candidate overtakes its answer.           *)
LEMMA EventsKept ==
  ASSUME CallsInv, Stable, Fewer,
         \A n \in CallOffers : n \in asked' => n \in asked \/ ~Begun(n),
         \A n \in CallOffers : call[MaxCalls + n] = NoModal =>
           \/ call'[MaxCalls + n] = NoModal
           \/ \A u \in Members : \A k \in Positions(u)' :
                inbox'[u][k] # CallEvent("incoming-call", n),
         \A i, j \in Modals : j \in Queue(call'[i]) => j \in Queue(call[i]) \/ ~Announced(j)'
  PROVE  EventsOK'
<1> PICK d \in [Members -> {0, 1}] :
      \A u \in Members : \A k \in Positions(u)' :
        Meant(inbox'[u][k]) => k + d[u] \in Positions(u) /\ inbox'[u][k] = inbox[u][k + d[u]]
  BY DEF Fewer
<1>1. ASSUME NEW u \in Members, NEW k \in Positions(u)', NEW j \in Modals,
             NEW type \in {"incoming-call", "call-answered", "ice-candidate"},
             inbox'[u][k] = CallEvent(type, j)
      PROVE  k + d[u] \in Positions(u) /\ inbox[u][k + d[u]] = CallEvent(type, j)
  <2>1. Meant(inbox'[u][k])
    BY <1>1 DEF Meant, CallEvent
  <2> QED BY <1>1, <2>1
<1>0. Subscribers \subseteq Members /\ CallOffers \subseteq Modals
  BY CallsAssumption DEF CallOffers, Modals
<1> SUFFICES ASSUME NEW u \in Members, NEW k \in Positions(u)', NEW j \in Modals
             PROVE  /\ inbox'[u][k] = CallEvent("incoming-call", j) => RingsOK(u, k, j)'
                    /\ inbox'[u][k] = CallEvent("call-answered", j) => AnswerOK(u, k, j)'
                    /\ inbox'[u][k] = CallEvent("ice-candidate", j) => CandidateOK(j)'
  BY DEF EventsOK
<1>2. ASSUME inbox'[u][k] = CallEvent("incoming-call", j) PROVE RingsOK(u, k, j)'
  <2>1. RingsOK(u, k + d[u], j)
    BY <1>1, <1>2 DEF CallsInv, EventsOK
  <2>2. j \in CallOffers /\ Begun(j)' /\ j \notin asked' /\ call'[MaxCalls + j] = NoModal
    BY <1>2, <2>1 DEF RingsOK, Stable
  <2>3. call'[j].user \in Subscribers
    BY <1>0, <2>1 DEF RingsOK, Stable
  <2>4. ASSUME NEW v \in Members, NEW l \in Positions(v)',
               inbox'[v][l] = CallEvent("incoming-call", j)
        PROVE  v = u /\ l = k
    <3>1. l + d[v] \in Positions(v) /\ inbox[v][l + d[v]] = CallEvent("incoming-call", j)
      BY <1>1, <2>4
    <3>2. v = u /\ l + d[v] = k + d[u]
      BY <2>1, <3>1 DEF RingsOK
    <3>3. l \in Int /\ k \in Int /\ d[u] \in Int
      BY <2>4 DEF Positions
    <3> QED BY <3>2, <3>3
  <2> QED BY <2>2, <2>3, <2>4 DEF RingsOK
<1>3. ASSUME inbox'[u][k] = CallEvent("call-answered", j) PROVE AnswerOK(u, k, j)'
  <2>1. AnswerOK(u, k + d[u], j)
    BY <1>1, <1>3 DEF CallsInv, EventsOK
  <2>2. j \notin CallOffers /\ Settled(j)' /\ call'[j].answers = call[j].answers
    BY <2>1 DEF AnswerOK, Settled, Stable, CandidateOK
  <2>3. call[j].answers \in Modals /\ call[call[j].answers].user = u /\ u \in Subscribers
    BY <1>0, <2>1 DEF AnswerOK, Settled, CallsInv, CallsTypeOK, ModalType
  <2>4. call'[call'[j].answers].user = u
    BY <2>2, <2>3 DEF Stable
  <2>5. Announced(j)'
    BY <1>3 DEF Announced
  <2>6. \A i \in Modals : j \notin Queue(call'[i])
    BY <2>1, <2>5 DEF AnswerOK
  <2>7. ASSUME NEW v \in Members, NEW l \in Positions(v)',
               inbox'[v][l] = CallEvent("ice-candidate", j)
        PROVE  v = u /\ k < l
    <3>1. l + d[v] \in Positions(v) /\ inbox[v][l + d[v]] = CallEvent("ice-candidate", j)
      BY <1>1, <2>7
    <3>2. v = u /\ k + d[u] < l + d[v]
      BY <2>1, <3>1 DEF AnswerOK
    <3>3. l \in Int /\ k \in Int /\ d[u] \in Int
      BY <2>7 DEF Positions
    <3> QED BY <3>2, <3>3
  <2> QED BY <2>2, <2>3, <2>4, <2>6, <2>7 DEF AnswerOK
<1>4. ASSUME inbox'[u][k] = CallEvent("ice-candidate", j) PROVE CandidateOK(j)'
  <2>1. CandidateOK(j)
    BY <1>1, <1>4 DEF CallsInv, EventsOK
  <2> QED BY <2>1 DEF Stable
<1> QED BY <1>2, <1>3, <1>4

-----------------------------------------------------------------------------
(* Most steps rewrite one modal, and may take it off the page.             *)
Quiet ==
  /\ UNCHANGED placed
  /\ inbox' \in [Members -> Seq(CallEventType)]
  /\ shown' \in [Members -> Modals \cup {0}] /\ \A u \in Members : shown'[u] \in {shown[u], 0}
  /\ timers' \in [Members -> Nat] /\ reloads' \in Nat

(* The new record m of modal i.                                            *)
Succeeds(i, m) ==
  /\ m \in ModalType /\ m.user = call[i].user
  /\ call[i].answers # 0 => m.answers = call[i].answers /\ m.to = call[i].to
  /\ call[i].step = "none" =>
       m.step = "none" \/ (call[i].answers = 0 /\ (i \in CallOffers => ~Begun(i)))
  /\ shown'[m.user] = i =>
       /\ call[i].listening => m.listening
       /\ i \in CallOffers /\ ~m.listening => m.step = "none"
  /\ Shape(i, m) /\ Refers(m) /\ Drained(m) /\ Answered(i, m)
  /\ \A c \in Queue(m) : c \in Queue(call[i]) \/ (CandidateOK(c) /\ ~Announced(c)')

NoNewModal == \A n \in CallOffers : call[MaxCalls + n] = NoModal => call'[MaxCalls + n] = NoModal

LEMMA LocalModals ==
  ASSUME CallsInv, Quiet, NEW i \in Modals, call[i].user \in Members, NEW m,
         call' = [call EXCEPT ![i] = m], Succeeds(i, m), asked' \subseteq CallOffers,
         \A n \in asked' : n \in asked \/ (Begun(n)' /\ call[MaxCalls + n] = NoModal)
  PROVE  /\ CallsTypeOK' /\ ModalsOK' /\ ShownOK' /\ OnceOK' /\ Stable /\ NoNewModal
         /\ \A k, j \in Modals : j \in Queue(call'[k]) => j \in Queue(call[k]) \/ ~Announced(j)'
<1>0. /\ call \in [Modals -> ModalType] /\ m \in ModalType /\ Nobody \notin Members
      /\ CallOffers \subseteq Modals /\ shown \in [Members -> Modals \cup {0}]
      /\ MaxCalls \in Nat
  BY CallsAssumption DEF CallsInv, CallsTypeOK, Succeeds, CallOffers, Modals
<1>1. call'[i] = m /\ \A j \in Modals \ {i} : call'[j] = call[j]
  BY <1>0
<1>2. CallsTypeOK'
  BY <1>0 DEF CallsInv, CallsTypeOK, Quiet
<1>3. call[i] # NoModal
  BY <1>0 DEF NoModal
<1>4. \A n \in CallOffers : Mounted(n)' => Mounted(n)
  <2> SUFFICES ASSUME NEW n \in CallOffers, Mounted(n)' PROVE Mounted(n)
    OBVIOUS
  <2>1. n \in Modals /\ n # 0 /\ call'[n].user = call[n].user
    BY <1>0, <1>1 DEF Succeeds, CallOffers
  <2>2. call[n].user \in Members
    BY <1>0, <2>1 DEF Mounted, ModalType
  <2> QED BY <2>1, <2>2 DEF Mounted, Quiet
<1>5. ASSUME NEW n \in CallOffers, Begun(n) PROVE Begun(n)'
  <2>1. CASE n # i
    BY <1>0, <1>1, <1>4, <1>5, <2>1 DEF Begun, Quiet
  <2>2. CASE n = i
    <3>1. m.step = "none"
      BY <1>5, <2>2 DEF Begun, Succeeds
    <3>2. Mounted(n)' => m.listening
      BY <1>1, <1>4, <1>5, <2>2 DEF Begun, Succeeds, Mounted
    <3> QED BY <1>1, <1>5, <2>2, <3>1, <3>2 DEF Begun, Quiet
  <2> QED BY <2>1, <2>2
<1>6. ASSUME NEW j \in Modals, CandidateOK(j) PROVE CandidateOK(j)'
  BY <1>0, <1>1, <1>6 DEF CandidateOK, Settled, Succeeds
<1>7. Stable
  BY <1>0, <1>1, <1>5, <1>6 DEF Stable, Succeeds
<1>8. ModalsOK'
  <2> SUFFICES ASSUME NEW j \in Modals
               PROVE  /\ Shape(j, call'[j]) /\ Refers(call[j])' /\ Drained(call'[j])
                      /\ Answered(j, call[j])' /\ \A c \in Queue(call'[j]) : CandidateOK(c)'
    BY DEF ModalsOK
  <2>1. PICK r \in ModalType : r = call'[j]
    BY <1>0, <1>1
  <2>2. Shape(j, r) /\ Refers(r) /\ Drained(r) /\ Answered(j, r)
    BY <1>1, <2>1 DEF CallsInv, ModalsOK, Succeeds
  <2>3. \A c \in Queue(r) : CandidateOK(c)
    BY <1>1, <2>1 DEF CallsInv, ModalsOK, Succeeds
  <2>4. Queue(r) \subseteq Modals
    BY DEF Queue, ModalType
  <2>5. Refers(r)' /\ Answered(j, r)'
    BY <1>7, <2>2, RefersStable, AnsweredStable DEF CallsInv
  <2>6. Refers(call[j])' /\ Answered(j, call[j])'
    BY <2>1, <2>5 DEF Refers, Answered
  <2> QED BY <1>6, <2>1, <2>2, <2>3, <2>4, <2>6
<1>9. ShownOK'
  <2> SUFFICES ASSUME NEW u \in Members, shown'[u] # 0 PROVE call'[shown'[u]].user = u
    BY DEF ShownOK
  <2>1. shown'[u] = shown[u] /\ shown[u] \in Modals /\ call[shown[u]].user = u
    BY <1>0 DEF Quiet, CallsInv, ShownOK
  <2> QED BY <1>1, <2>1 DEF Succeeds
<1>10. OnceOK'
  <2> SUFFICES ASSUME NEW n \in CallOffers
               PROVE  /\ n > placed' => call'[n] = NoModal
                      /\ n \in asked' => Begun(n)' /\ call'[MaxCalls + n] = NoModal
                      /\ call'[MaxCalls + n] # NoModal => Begun(n)'
                      /\ Mounted(n)' /\ ~call'[n].listening => call'[n].step = "none"
    BY DEF OnceOK
  <2>1. /\ n > placed => call[n] = NoModal
        /\ n \in asked => Begun(n) /\ call[MaxCalls + n] = NoModal
        /\ call[MaxCalls + n] # NoModal => Begun(n)
        /\ Mounted(n) /\ ~call[n].listening => call[n].step = "none"
    BY DEF CallsInv, OnceOK
  <2>2. MaxCalls + n \in Modals /\ n \in Modals
    BY <1>0 DEF CallOffers, Modals
  <2>3. call[MaxCalls + n] = NoModal => call'[MaxCalls + n] = NoModal
    BY <1>1, <1>3, <2>2
  <2>4. call'[MaxCalls + n] # NoModal => call[MaxCalls + n] # NoModal
    BY <2>3
  <2>5. n > placed' => call'[n] = NoModal
    BY <1>1, <1>3, <2>1, <2>2 DEF Quiet
  <2>6. Mounted(n)' /\ ~call'[n].listening => call'[n].step = "none"
    <3>1. CASE n = i
      BY <1>1, <3>1 DEF Mounted, Succeeds
    <3>2. CASE n # i
      BY <1>1, <1>4, <2>1, <2>2, <3>2
    <3> QED BY <3>1, <3>2
  <2> QED BY <1>5, <2>1, <2>3, <2>4, <2>5, <2>6 DEF Quiet
<1>11. NoNewModal
  BY <1>0, <1>1, <1>3 DEF NoNewModal, CallOffers, Modals
<1>12. \A k, j \in Modals : j \in Queue(call'[k]) => j \in Queue(call[k]) \/ ~Announced(j)'
  BY <1>1 DEF Succeeds
<1> QED BY <1>2, <1>7, <1>8, <1>9, <1>10, <1>11, <1>12

LEMMA Local ==
  ASSUME CallsInv, Quiet, NEW i \in Modals, call[i].user \in Members, NEW m,
         call' = [call EXCEPT ![i] = m], Succeeds(i, m), UNCHANGED asked, Fewer
  PROVE  CallsInv'
<1>1. asked' \subseteq CallOffers
  BY DEF CallsInv, CallsTypeOK
<1>2. /\ CallsTypeOK' /\ ModalsOK' /\ ShownOK' /\ OnceOK' /\ Stable /\ NoNewModal
      /\ \A k, j \in Modals : j \in Queue(call'[k]) => j \in Queue(call[k]) \/ ~Announced(j)'
  BY <1>1, LocalModals
<1>3. EventsOK'
  BY <1>2, EventsKept DEF NoNewModal
<1> QED BY <1>2, <1>3 DEF CallsInv

(* Most of these keep what a modal refers to.                              *)
LEMMA Succession ==
  ASSUME CallsInv, Quiet, NEW i \in Modals, call[i].user \in Members, NEW m \in ModalType,
         m.user = call[i].user, m.peer = call[i].peer, m.offer = call[i].offer,
         m.to = call[i].to, m.answers = call[i].answers, m.remote = call[i].remote,
         call[i].closed => m.closed,
         m.early \subseteq call[i].early, m.pending \subseteq call[i].pending,
         call[i].step = "none" => m.step = "none",
         shown'[m.user] = i => m.listening = call[i].listening,
         Shape(i, m)
  PROVE  Succeeds(i, m)
<1>1. /\ Refers(call[i]) /\ Drained(call[i]) /\ Answered(i, call[i])
  BY DEF CallsInv, ModalsOK
<1>2. Refers(m) /\ Drained(m) /\ Answered(i, m) /\ Queue(m) \subseteq Queue(call[i])
  BY <1>1 DEF Refers, Drained, Answered, Queue
<1>3. ASSUME shown'[m.user] = i, i \in CallOffers, ~m.listening PROVE m.step = "none"
  <2>1. i # 0 /\ call[i].user # Nobody
    BY CallsAssumption DEF Modals
  <2>2. Mounted(i)
    BY <1>3, <2>1 DEF Mounted, Quiet
  <2> QED BY <1>3, <2>2 DEF CallsInv, OnceOK
<1> QED BY <1>2, <1>3 DEF Succeeds

-----------------------------------------------------------------------------
(* An event that refers to a modal is sent.                                *)
LEMMA EventsEmitted ==
  ASSUME CallsInv, Stable, NoNewModal, NEW v, NEW e \in CallEventType, Emit(v, e),
         \A n \in CallOffers : n \in asked' => n \in asked,
         \A i, j \in Modals : j \in Queue(call'[i]) => j \in Queue(call[i]),
         \A n \in Modals : e = CallEvent("incoming-call", n) =>
           /\ n \in CallOffers /\ Begun(n)' /\ n \notin asked' /\ call'[MaxCalls + n] = NoModal
           /\ call'[n].user \in Subscribers
           /\ \A u \in Members : \A k \in Positions(u) : inbox[u][k] # e,
         \A j \in Modals : e = CallEvent("call-answered", j) =>
           /\ j \notin CallOffers /\ Settled(j)' /\ call'[call'[j].answers].user = v
           /\ v \in Subscribers
           /\ \A i \in Modals : j \notin Queue(call'[i])
           /\ \A u \in Members : \A k \in Positions(u) :
                inbox[u][k] # CallEvent("ice-candidate", j),
         \A j \in Modals : e = CallEvent("ice-candidate", j) =>
           /\ CandidateOK(j)'
           /\ \A u \in Members : \A k \in Positions(u) :
                inbox[u][k] = CallEvent("call-answered", j) => u = v
  PROVE  EventsOK'
<1>0. Subscribers \subseteq Members /\ CallOffers \subseteq Modals
  BY CallsAssumption DEF CallOffers, Modals
<1>1. \A u \in Members : \A k \in Positions(u)' :
        \/ k \in Positions(u) /\ inbox'[u][k] = inbox[u][k]
        \/ u = v /\ inbox'[u][k] = e /\ k = Len(inbox[u]) + 1
  BY EmitFacts DEF CallsInv
<1>2. \A u \in Members : Len(inbox[u]) \in Nat
  BY DEF CallsInv, CallsTypeOK
<1>3. \A t1, t2, a, b : CallEvent(t1, a) = CallEvent(t2, b) => t1 = t2 /\ a = b
  BY DEF CallEvent
<1> SUFFICES ASSUME NEW u \in Members, NEW k \in Positions(u)', NEW j \in Modals
             PROVE  /\ inbox'[u][k] = CallEvent("incoming-call", j) => RingsOK(u, k, j)'
                    /\ inbox'[u][k] = CallEvent("call-answered", j) => AnswerOK(u, k, j)'
                    /\ inbox'[u][k] = CallEvent("ice-candidate", j) => CandidateOK(j)'
  BY DEF EventsOK
<1>4. ASSUME inbox'[u][k] = CallEvent("incoming-call", j) PROVE RingsOK(u, k, j)'
  <2>1. CASE k \in Positions(u) /\ inbox[u][k] = inbox'[u][k]
    <3>1. RingsOK(u, k, j)
      BY <1>4, <2>1 DEF CallsInv, EventsOK
    <3>2. j \in CallOffers /\ Begun(j)' /\ j \notin asked' /\ call'[MaxCalls + j] = NoModal
      BY <3>1 DEF RingsOK, Stable, NoNewModal
    <3>3. call'[j].user \in Subscribers
      BY <1>0, <3>1 DEF RingsOK, Stable
    <3>4. e # CallEvent("incoming-call", j)
      BY <1>4, <2>1
    <3> QED BY <1>1, <3>1, <3>2, <3>3, <3>4 DEF RingsOK
  <2>2. CASE u = v /\ inbox'[u][k] = e /\ k = Len(inbox[u]) + 1
    BY <1>1, <1>4, <2>2 DEF RingsOK
  <2> QED BY <1>1, <2>1, <2>2
<1>5. ASSUME inbox'[u][k] = CallEvent("call-answered", j) PROVE AnswerOK(u, k, j)'
  <2>1. CASE k \in Positions(u) /\ inbox[u][k] = inbox'[u][k]
    <3>1. AnswerOK(u, k, j)
      BY <1>5, <2>1 DEF CallsInv, EventsOK
    <3>2. j \notin CallOffers /\ Settled(j)' /\ call'[j].answers = call[j].answers
      BY <3>1 DEF AnswerOK, Settled, Stable, CandidateOK
    <3>3. call[j].answers \in Modals /\ call[call[j].answers].user = u /\ u \in Subscribers
      BY <1>0, <3>1 DEF AnswerOK, Settled, CallsInv, CallsTypeOK, ModalType
    <3>4. call'[call'[j].answers].user = u
      BY <3>2, <3>3 DEF Stable
    <3>5. \A i \in Modals : j \notin Queue(call'[i])
      BY <3>1 DEF AnswerOK
    <3>6. ASSUME NEW w \in Members, NEW l \in Positions(w)',
                 inbox'[w][l] = CallEvent("ice-candidate", j)
          PROVE  w = u /\ k < l
      <4>1. CASE l \in Positions(w) /\ inbox[w][l] = inbox'[w][l]
        BY <3>1, <3>6, <4>1 DEF AnswerOK
      <4>2. CASE w = v /\ inbox'[w][l] = e /\ l = Len(inbox[w]) + 1
        <5>1. u = w
          BY <1>5, <2>1, <3>6, <4>2
        <5> QED BY <1>2, <2>1, <4>2, <5>1 DEF Positions
      <4> QED BY <1>1, <3>6, <4>1, <4>2
    <3> QED BY <3>2, <3>3, <3>4, <3>5, <3>6 DEF AnswerOK
  <2>2. CASE u = v /\ inbox'[u][k] = e /\ k = Len(inbox[u]) + 1
    <3>1. e = CallEvent("call-answered", j) /\ e # CallEvent("ice-candidate", j)
      BY <1>3, <1>5, <2>2
    <3>2. \A w \in Members : \A l \in Positions(w)' : inbox'[w][l] # CallEvent("ice-candidate", j)
      BY <1>1, <3>1
    <3> QED BY <2>2, <3>1, <3>2 DEF AnswerOK
  <2> QED BY <1>1, <2>1, <2>2
<1>6. ASSUME inbox'[u][k] = CallEvent("ice-candidate", j) PROVE CandidateOK(j)'
  <2>1. CASE k \in Positions(u) /\ inbox[u][k] = inbox'[u][k]
    BY <1>6, <2>1 DEF CallsInv, EventsOK, Stable
  <2> QED BY <1>1, <1>6, <2>1
<1> QED BY <1>4, <1>5, <1>6

-----------------------------------------------------------------------------
(* cleanup, and what it leaves of a modal.                                 *)
LEMMA CleanedModal ==
  ASSUME NEW m \in ModalType
  PROVE  /\ Cleaned(m) \in ModalType /\ Cleaned(m).closed
         /\ Cleaned(m).user = m.user /\ Cleaned(m).peer = m.peer /\ Cleaned(m).offer = m.offer
         /\ Cleaned(m).to = m.to /\ Cleaned(m).answers = m.answers
         /\ Cleaned(m).remote = m.remote /\ Cleaned(m).step = m.step
         /\ Cleaned(m).early = m.early /\ Cleaned(m).pending = m.pending
         /\ Cleaned(m).listening = m.listening /\ Cleaned(m).incoming = m.incoming
         /\ Cleaned(m).pc \in {m.pc, "closed"} /\ (Cleaned(m).pc = "none" <=> m.pc = "none")
<1>1. CASE m.closed
  BY <1>1 DEF Cleaned, ModalType
<1>2. CASE ~m.closed
  <2>1. PICK pc \in {m.pc, "closed"} : /\ pc = IF m.pc = "none" THEN "none" ELSE "closed"
                                       /\ pc = "none" <=> m.pc = "none"
    OBVIOUS
  <2>2. Cleaned(m) = [m EXCEPT !.closed = TRUE, !.pc = pc]
    BY <1>2, <2>1 DEF Cleaned
  <2>3. pc \in {"none", "new", "offered", "stable", "failed", "closed"}
    BY <2>1 DEF ModalType
  <2> DEFINE c == [m EXCEPT !.closed = TRUE, !.pc = pc]
  <2>4. /\ c \in ModalType /\ c.closed /\ c.pc = pc
        /\ c.user = m.user /\ c.peer = m.peer /\ c.offer = m.offer /\ c.to = m.to
        /\ c.answers = m.answers /\ c.remote = m.remote /\ c.step = m.step
        /\ c.early = m.early /\ c.pending = m.pending /\ c.listening = m.listening
        /\ c.incoming = m.incoming
    BY <2>3 DEF ModalType
  <2> HIDE DEF c
  <2>5. Cleaned(m) = c
    BY <2>2 DEF c
  <2> QED BY <2>1, <2>4, <2>5
<1> QED BY <1>1, <1>2

LEMMA CleanedFacts ==
  ASSUME NEW m \in ModalType,
         NEW status \in {"none", "calling", "ringing", "over", "refused"},
         NEW r \in {Over(m), Gone(m, status)}
  PROVE  /\ r \in ModalType /\ r.closed
         /\ r.user = m.user /\ r.peer = m.peer /\ r.offer = m.offer /\ r.to = m.to
         /\ r.answers = m.answers /\ r.remote = m.remote /\ r.step = m.step
         /\ r.incoming = m.incoming
         /\ r.early \subseteq m.early /\ r.pending \subseteq m.pending
         /\ r.pc \in {m.pc, "closed"} /\ (r.pc = "none" <=> m.pc = "none")
         /\ (r.listening => m.listening)
         /\ r.status \in {"over", status}
         /\ r = Over(m) => r.listening = m.listening /\ r.status = "over"
<1>1. PICK c \in ModalType : c = Cleaned(m)
  BY CleanedModal
<1>2. Over(m) = [c EXCEPT !.status = "over"]
  BY <1>1 DEF Over
<1>3. Gone(m, status) =
        [c EXCEPT !.status = status, !.listening = FALSE, !.early = {}, !.pending = {}]
  BY <1>1 DEF Gone
<1>4. /\ r \in ModalType
      /\ r.closed = c.closed /\ r.user = c.user /\ r.peer = c.peer
      /\ r.offer = c.offer /\ r.to = c.to /\ r.answers = c.answers
      /\ r.remote = c.remote /\ r.step = c.step /\ r.pc = c.pc
      /\ r.incoming = c.incoming
      /\ r.early \subseteq c.early /\ r.pending \subseteq c.pending
      /\ (r.listening => c.listening) /\ r.status \in {"over", status}
  <2>1. CASE r = Over(m)
    BY <1>2, <2>1 DEF ModalType
  <2>2. CASE r = Gone(m, status)
    BY <1>3, <2>2 DEF ModalType
  <2> QED BY <2>1, <2>2
<1>5. Over(m).listening = c.listening /\ Over(m).status = "over"
  BY <1>2 DEF ModalType
<1> QED BY <1>1, <1>4, <1>5, CleanedModal

(* Only what is still NoModal has no user, and nothing goes on in it.      *)
LEMMA OwnedByMembers ==
  ASSUME CallsInv, NEW i \in Modals, call[i] # NoModal
  PROVE  call[i].user \in Members
BY DEF CallsInv, CallsTypeOK, ModalsOK, Shape, ModalType

(* A modal of a member that fails, as the catch clauses make it.           *)
LEMMA MediaErrorKept ==
  ASSUME CallsInv, NEW i \in Modals, call[i].step # "none", MediaError(i)
  PROVE  CallsInv'
<1>1. call \in [Modals -> ModalType] /\ call[i] \in ModalType
      /\ timers \in [Members -> Nat] /\ shown \in [Members -> Modals \cup {0}] /\ reloads \in Nat
  BY DEF CallsInv, CallsTypeOK
<1>2. call[i].user \in Members
  BY OwnedByMembers DEF NoModal
<1> DEFINE m == [call[i] EXCEPT !.step = "none", !.status = "over"]
<1>3. call' = [call EXCEPT ![i] = m]
  BY <1>1 DEF MediaError
<1>4. /\ m \in ModalType /\ m.step = "none" /\ m.status = "over"
      /\ m.user = call[i].user /\ m.peer = call[i].peer /\ m.offer = call[i].offer
      /\ m.incoming = call[i].incoming
      /\ m.to = call[i].to /\ m.answers = call[i].answers /\ m.remote = call[i].remote
      /\ m.closed = call[i].closed /\ m.early = call[i].early /\ m.pending = call[i].pending
      /\ m.listening = call[i].listening /\ m.pc = call[i].pc
  BY <1>1 DEF ModalType
<1> HIDE DEF m
<1>5. Quiet
  BY <1>1, <1>2, SameInbox DEF Quiet, MediaError, CloseLater, CallsInv
<1>6. Shape(i, m)
  BY <1>2, <1>4, CallsAssumption DEF CallsInv, ModalsOK, Shape
<1>7. Succeeds(i, m)
  BY <1>2, <1>4, <1>5, <1>6, Succession
<1> QED BY <1>2, <1>3, <1>5, <1>7, Local, SameInbox DEF MediaError, CallsInv

-----------------------------------------------------------------------------
(* The steps that rewrite one modal and send nothing that refers to one.   *)
LEMMA ListenKept == ASSUME CallsInv, NEW i \in Modals, Listen(i) PROVE CallsInv'
<1>1. call \in [Modals -> ModalType] /\ call[i] \in ModalType
      /\ timers \in [Members -> Nat] /\ shown \in [Members -> Modals \cup {0}] /\ reloads \in Nat
  BY DEF CallsInv, CallsTypeOK
<1>2. call[i].user \in Members /\ Mounted(i) /\ ~call[i].listening
  BY <1>1 DEF Listen, Mounted, ModalType
<1>3. Shape(i, call[i]) /\ Refers(call[i]) /\ Drained(call[i]) /\ Answered(i, call[i])
  BY DEF CallsInv, ModalsOK
<1>4. Quiet
  BY <1>1, SameInbox DEF Quiet, Listen, CallsInv
<1>5. CASE i \in CallOffers
  <2> DEFINE m == [call[i] EXCEPT !.listening = TRUE, !.step = "media", !.to = call[i].peer]
  <2>1. call' = [call EXCEPT ![i] = m]
    BY <1>5 DEF Listen
  <2>2. /\ m \in ModalType /\ m.step = "media" /\ m.listening /\ m.status = call[i].status
        /\ m.user = call[i].user /\ m.peer = call[i].peer /\ m.offer = call[i].offer
        /\ m.incoming = call[i].incoming
        /\ m.answers = call[i].answers /\ m.remote = call[i].remote
        /\ m.closed = call[i].closed /\ m.early = call[i].early /\ m.pending = call[i].pending
        /\ m.pc = call[i].pc
    BY <1>1 DEF ModalType
  <2> HIDE DEF m
  <2>3. call[i].answers = 0 /\ ~Begun(i)
    BY <1>2, <1>3, <1>5 DEF Shape, Begun
  <2>4. Shape(i, m) /\ Refers(m) /\ Drained(m) /\ Answered(i, m) /\ Queue(m) = Queue(call[i])
    BY <1>2, <1>3, <1>5, <2>2, <2>3, CallsAssumption
    DEF Shape, Refers, Drained, Answered, Queue
  <2>5. Succeeds(i, m)
    BY <2>2, <2>3, <2>4 DEF Succeeds
  <2> QED BY <1>2, <1>4, <2>1, <2>5, Local, SameInbox DEF Listen, CallsInv
<1>6. CASE i \notin CallOffers
  <2> DEFINE m == [call[i] EXCEPT !.listening = TRUE]
  <2>1. call' = [call EXCEPT ![i] = m]
    BY <1>6 DEF Listen
  <2>2. /\ m \in ModalType /\ m.step = call[i].step /\ m.listening /\ m.status = call[i].status
        /\ m.user = call[i].user /\ m.peer = call[i].peer /\ m.offer = call[i].offer
        /\ m.incoming = call[i].incoming
        /\ m.answers = call[i].answers /\ m.remote = call[i].remote /\ m.to = call[i].to
        /\ m.closed = call[i].closed /\ m.early = call[i].early /\ m.pending = call[i].pending
        /\ m.pc = call[i].pc
    BY <1>1 DEF ModalType
  <2> HIDE DEF m
  <2>3. Shape(i, m) /\ Refers(m) /\ Drained(m) /\ Answered(i, m) /\ Queue(m) = Queue(call[i])
    BY <1>2, <1>3, <1>6, <2>2, CallsAssumption DEF Shape, Refers, Drained, Answered, Queue
  <2>4. Succeeds(i, m)
    BY <1>6, <2>2, <2>3 DEF Succeeds
  <2> QED BY <1>2, <1>4, <2>1, <2>4, Local, SameInbox DEF Listen, CallsInv
<1> QED BY <1>5, <1>6

LEMMA GetMediaKept == ASSUME CallsInv, NEW i \in Modals, GetMedia(i) PROVE CallsInv'
<1>1. call \in [Modals -> ModalType] /\ call[i] \in ModalType
      /\ timers \in [Members -> Nat] /\ shown \in [Members -> Modals \cup {0}] /\ reloads \in Nat
  BY DEF CallsInv, CallsTypeOK
<1>2. call[i].user \in Members
  BY OwnedByMembers DEF GetMedia, NoModal
<1>3. Shape(i, call[i])
  BY DEF CallsInv, ModalsOK
<1>4. Quiet
  BY <1>1, SameInbox DEF Quiet, GetMedia, CallsInv
<1> PICK step \in {"none", "media", "offer", "describe", "answer"} : 
        step = IF i \in CallOffers THEN "offer" ELSE "describe"
  OBVIOUS
<1> PICK m : m = [call[i] EXCEPT !.pc = "new", !.step = step]
  OBVIOUS
<1>5. call' = [call EXCEPT ![i] = m]
  BY <1>1 DEF GetMedia
<1>6. /\ m \in ModalType /\ m.step = step
      /\ m.listening = call[i].listening /\ m.status = call[i].status
      /\ m.user = call[i].user /\ m.peer = call[i].peer /\ m.offer = call[i].offer
      /\ m.incoming = call[i].incoming
      /\ m.answers = call[i].answers /\ m.remote = call[i].remote /\ m.to = call[i].to
      /\ m.closed = call[i].closed /\ m.early = call[i].early /\ m.pending = call[i].pending
      /\ m.pc = "new"
  <2>1. PICK r \in ModalType : r = call[i]
    BY <1>1
  <2>2. m = [r EXCEPT !.pc = "new", !.step = step]
    BY <2>1
  <2>3. /\ m \in ModalType /\ m.step = step /\ m.pc = "new"
        /\ m.listening = r.listening /\ m.status = r.status
        /\ m.user = r.user /\ m.peer = r.peer /\ m.offer = r.offer
        /\ m.incoming = r.incoming
        /\ m.answers = r.answers /\ m.remote = r.remote /\ m.to = r.to
        /\ m.closed = r.closed /\ m.early = r.early /\ m.pending = r.pending
    BY <2>2 DEF ModalType
  <2> QED BY <2>1, <2>3
<1>7. call[i].step = "media"
  BY DEF GetMedia
<1>8. Shape(i, m)
  BY <1>2, <1>3, <1>6, <1>7, CallsAssumption DEF Shape
<1>9. Succeeds(i, m)
  BY <1>2, <1>4, <1>6, <1>7, <1>8, Succession
<1> QED BY <1>2, <1>4, <1>5, <1>9, Local, SameInbox DEF GetMedia, CallsInv

LEMMA AcceptKept == ASSUME CallsInv, NEW i \in Modals, Accept(i) PROVE CallsInv'
<1>1. call \in [Modals -> ModalType] /\ call[i] \in ModalType
      /\ timers \in [Members -> Nat] /\ shown \in [Members -> Modals \cup {0}] /\ reloads \in Nat
  BY DEF CallsInv, CallsTypeOK
<1>2. call[i].user \in Members
  BY <1>1 DEF Accept, Ringing, Mounted, ModalType
<1>3. Shape(i, call[i]) /\ Refers(call[i]) /\ Drained(call[i]) /\ Answered(i, call[i])
  BY DEF CallsInv, ModalsOK
<1>4. Quiet
  BY <1>1, SameInbox DEF Quiet, Accept, CallsInv
<1> DEFINE m == [call[i] EXCEPT !.step = "media", !.to = call[i].peer, !.answers = call[i].offer]
<1>5. call' = [call EXCEPT ![i] = m]
  BY DEF Accept
<1>6. /\ m \in ModalType /\ m.step = "media"
      /\ m.listening = call[i].listening /\ m.status = call[i].status
      /\ m.user = call[i].user /\ m.peer = call[i].peer /\ m.offer = call[i].offer
      /\ m.incoming = call[i].incoming
      /\ m.answers = call[i].offer /\ m.remote = call[i].remote /\ m.to = call[i].peer
      /\ m.closed = call[i].closed /\ m.early = call[i].early /\ m.pending = call[i].pending
      /\ m.pc = call[i].pc
  BY <1>1 DEF ModalType
<1> HIDE DEF m
<1>7. i \notin CallOffers /\ call[i].step = "none" /\ call[i].answers = 0 /\ call[i].pc = "none"
  BY <1>3 DEF Accept, Ringing, Shape
<1>8. call[i].offer # 0
  BY <1>3 DEF Accept, Ringing, Shape
<1>9. Shape(i, m)
  BY <1>2, <1>3, <1>6, <1>7, <1>8, CallsAssumption DEF Shape
<1>10. Refers(m) /\ Drained(m) /\ Answered(i, m) /\ Queue(m) = Queue(call[i])
  BY <1>3, <1>6, <1>7 DEF Refers, Drained, Answered, Queue
<1>11. Succeeds(i, m)
  BY <1>6, <1>7, <1>9, <1>10 DEF Succeeds
<1> QED BY <1>2, <1>4, <1>5, <1>11, Local, SameInbox DEF Accept, CallsInv

LEMMA SetOfferKept == ASSUME CallsInv, NEW i \in Modals, SetOffer(i) PROVE CallsInv'
<1>1. call \in [Modals -> ModalType] /\ call[i] \in ModalType
      /\ timers \in [Members -> Nat] /\ shown \in [Members -> Modals \cup {0}] /\ reloads \in Nat
  BY DEF CallsInv, CallsTypeOK
<1>2. call[i].user \in Members /\ call[i].step = "describe"
  BY OwnedByMembers DEF SetOffer, NoModal
<1>3. Shape(i, call[i])
  BY DEF CallsInv, ModalsOK
<1>4. CASE call[i].pc = "closed"
  BY <1>2, <1>4, MediaErrorKept DEF SetOffer
<1>5. CASE call[i].pc # "closed"
  <2>1. Quiet
    BY <1>1, <1>5, SameInbox DEF Quiet, SetOffer, CallsInv
  <2>2. PICK status \in {call[i].status, "calling"} :
          call' = [call EXCEPT ![i] =
            [call[i] EXCEPT !.remote = call[i].answers, !.step = "answer",
                            !.early = @ \ Queued(call[i]), !.pending = @ \ Queued(call[i]),
                            !.status = IF @ = "ringing" THEN status ELSE @]]
    <3>1. PICK status \in {call[i].status, "calling"} :
            call' = [call EXCEPT ![i].remote = call[i].answers, ![i].step = "answer",
                                 ![i].early = @ \ Queued(call[i]),
                                 ![i].pending = @ \ Queued(call[i]),
                                 ![i].status = IF @ = "ringing" THEN status ELSE @]
      BY <1>5 DEF SetOffer
    <3> QED BY <1>1, <3>1, Zenon
  <2>3. PICK next \in {call[i].status, "calling"} :
          next = IF call[i].status = "ringing" THEN status ELSE call[i].status
    BY <2>2
  <2>4. call[i].early \ Queued(call[i]) = {} /\ call[i].pending \ Queued(call[i]) = {}
    BY DEF Queued
  <2> DEFINE m == [call[i] EXCEPT !.remote = call[i].answers, !.step = "answer",
                                  !.early = {}, !.pending = {}, !.status = next]
  <2>5. call' = [call EXCEPT ![i] = m]
    BY <2>2, <2>3, <2>4
  <2>6. /\ m \in ModalType /\ m.step = "answer" /\ m.status = next
        /\ m.user = call[i].user /\ m.peer = call[i].peer /\ m.offer = call[i].offer
        /\ m.incoming = call[i].incoming /\ m.listening = call[i].listening
        /\ m.answers = call[i].answers /\ m.remote = call[i].answers /\ m.to = call[i].to
        /\ m.closed = call[i].closed /\ m.early = {} /\ m.pending = {} /\ m.pc = call[i].pc
    <3>1. next \in {"none", "calling", "ringing", "over", "refused"} /\ call[i].answers \in Modals \cup {0}
      BY <1>1, CallsAssumption DEF ModalType, CallOffers, Modals
    <3>2. PICK r \in ModalType, remote \in Modals \cup {0} : r = call[i] /\ remote = call[i].answers
      BY <1>1, <3>1
    <3> PICK after : after = [r EXCEPT !.remote = remote, !.step = "answer",
                                       !.early = {}, !.pending = {}, !.status = next]
      OBVIOUS
    <3>3. /\ after \in ModalType /\ after.step = "answer" /\ after.status = next
          /\ after.user = r.user /\ after.peer = r.peer /\ after.offer = r.offer
          /\ after.incoming = r.incoming /\ after.listening = r.listening
          /\ after.answers = r.answers /\ after.remote = remote /\ after.to = r.to
          /\ after.closed = r.closed /\ after.early = {} /\ after.pending = {}
          /\ after.pc = r.pc
      BY <3>1 DEF ModalType
    <3> QED BY <3>2, <3>3
  <2> HIDE DEF m
  <2>7. i \notin CallOffers
    BY <1>2, <1>3 DEF Shape
  <2>8. Shape(i, m)
    BY <1>2, <1>3, <2>6, <2>7, CallsAssumption DEF Shape
  <2>9. Refers(m) /\ Drained(m) /\ Answered(i, m) /\ Queue(m) = {}
    BY <2>6, <2>7 DEF CallsInv, ModalsOK, Refers, Drained, Answered, Queue
  <2>10. Succeeds(i, m)
    BY <1>2, <2>6, <2>7, <2>8, <2>9 DEF Succeeds
  <2> QED BY <1>2, <1>5, <2>1, <2>5, <2>10, Local, SameInbox DEF SetOffer, CallsInv
<1> QED BY <1>4, <1>5

LEMMA EndedFacts ==
  ASSUME NEW m0 \in ModalType, NEW status \in {"none", "refused"},
         NEW m, m = Over(m0) \/ m = Gone(m0, status)
  PROVE  /\ m \in ModalType /\ m.closed
         /\ m.user = m0.user /\ m.peer = m0.peer /\ m.offer = m0.offer /\ m.to = m0.to
         /\ m.incoming = m0.incoming
         /\ m.answers = m0.answers /\ m.remote = m0.remote /\ m.step = m0.step
         /\ m.early \subseteq m0.early /\ m.pending \subseteq m0.pending
         /\ m.pc \in {m0.pc, "closed"} /\ (m.pc = "none" <=> m0.pc = "none")
         /\ m.status \in {"over", status}
         /\ m = Over(m0) => m.listening = m0.listening
BY CleanedFacts

(* A modal is closed by its member, by a member who hung up or refused, by *)
(* a timeout or by a failure of the connection.                            *)
LEMMA ClosedSucceeds ==
  ASSUME CallsInv, Quiet, NEW i \in Modals, call[i].user \in Members,
         NEW m0 \in ModalType, m0 = call[i] \/ (call[i].pc # "none" /\ m0 = [call[i] EXCEPT !.pc = "failed"]),
         NEW status \in {"none", "refused"},
         NEW m, m = Over(m0) \/ (m = Gone(m0, status) /\ shown'[call[i].user] # i)
  PROVE  Succeeds(i, m)
<1>1. call[i] \in ModalType /\ Shape(i, call[i])
  BY DEF CallsInv, CallsTypeOK, ModalsOK
<1>2. /\ m0.user = call[i].user /\ m0.peer = call[i].peer /\ m0.offer = call[i].offer
      /\ m0.incoming = call[i].incoming /\ m0.listening = call[i].listening
      /\ m0.answers = call[i].answers /\ m0.remote = call[i].remote /\ m0.to = call[i].to
      /\ m0.closed = call[i].closed /\ m0.early = call[i].early /\ m0.pending = call[i].pending
      /\ m0.step = call[i].step /\ m0.pc \in {call[i].pc, "failed"}
      /\ (m0.pc = "none" <=> call[i].pc = "none")
  BY <1>1 DEF ModalType
<1>3. /\ m \in ModalType /\ m.closed
      /\ m.user = m0.user /\ m.peer = m0.peer /\ m.offer = m0.offer /\ m.to = m0.to
      /\ m.incoming = m0.incoming
      /\ m.answers = m0.answers /\ m.remote = m0.remote /\ m.step = m0.step
      /\ m.early \subseteq m0.early /\ m.pending \subseteq m0.pending
      /\ m.pc \in {m0.pc, "closed"} /\ (m.pc = "none" <=> m0.pc = "none")
      /\ m.status \in {"over", status}
      /\ m = Over(m0) => m.listening = m0.listening
  BY EndedFacts
<1>4. Shape(i, m)
  BY <1>1, <1>2, <1>3, CallsAssumption DEF Shape
<1>5. shown'[m.user] = i => m.listening = call[i].listening
  BY <1>2, <1>3
<1> QED BY <1>2, <1>3, <1>4, <1>5, Succession

LEMMA HangUpKept ==
  ASSUME CallsInv, NEW i \in Modals, HangUp(i) \/ ConnectionFails(i)
  PROVE  CallsInv'
<1>1. call \in [Modals -> ModalType] /\ call[i] \in ModalType
      /\ timers \in [Members -> Nat] /\ shown \in [Members -> Modals \cup {0}] /\ reloads \in Nat
  BY DEF CallsInv, CallsTypeOK
<1>2. call[i].user \in Members
  BY <1>1, OwnedByMembers DEF HangUp, ConnectionFails, PeerGone, Mounted, ModalType, NoModal
<1>3. PICK m0 \in ModalType, v \in Members \cup {Nobody} :
        /\ m0 = call[i] \/ (call[i].pc # "none" /\ m0 = [call[i] EXCEPT !.pc = "failed"])
        /\ m0.user = call[i].user /\ EndCall(i, m0, v)
  <2>0. call[i].to \in Members \cup {Nobody} /\ call[i].peer \in Members \cup {Nobody}
    BY <1>1 DEF ModalType
  <2>1. CASE HangUp(i)
    BY <1>1, <2>0, <2>1 DEF HangUp
  <2>2. CASE ConnectionFails(i)
    <3>1. [call[i] EXCEPT !.pc = "failed"] \in ModalType
          /\ [call[i] EXCEPT !.pc = "failed"].user = call[i].user
      BY <1>1 DEF ModalType
    <3> QED BY <2>0, <2>2, <3>1 DEF ConnectionFails, PeerGone
  <2> QED BY <2>1, <2>2
<1>4. CallEvent("call-ended", i) \in CallEventType /\ ~Meant(CallEvent("call-ended", i))
  BY DEF CallEvent, CallEventType, Meant
<1>5. inbox' \in [Members -> Seq(CallEventType)] /\ Fewer
  BY <1>3, <1>4, EmitFewer DEF EndCall, CallsInv
<1>6. Quiet
  <2>1. UNCHANGED <<shown, placed, reloads>>
    BY <1>3 DEF EndCall
  <2>2. timers' = [timers EXCEPT ![call[i].user] = @ + 1]
    BY <1>3 DEF EndCall, CloseLater
  <2>3. timers' \in [Members -> Nat]
    BY <1>1, <1>2, <2>2
  <2> QED BY <1>1, <1>5, <2>1, <2>3 DEF Quiet
<1>7. Succeeds(i, Over(m0))
  BY <1>2, <1>3, <1>6, ClosedSucceeds
<1>8. call' = [call EXCEPT ![i] = Over(m0)] /\ UNCHANGED asked
  BY <1>3 DEF EndCall
<1> QED BY <1>2, <1>5, <1>6, <1>7, <1>8, Local

LEMMA RejectKept == ASSUME CallsInv, NEW i \in Modals, Reject(i) PROVE CallsInv'
<1>1. call \in [Modals -> ModalType] /\ call[i] \in ModalType
      /\ timers \in [Members -> Nat] /\ shown \in [Members -> Modals \cup {0}] /\ reloads \in Nat
  BY DEF CallsInv, CallsTypeOK
<1>2. call[i].user \in Members
  BY <1>1 DEF Reject, Ringing, Mounted, ModalType
<1>4. CallEvent("call-rejected", i) \in CallEventType /\ ~Meant(CallEvent("call-rejected", i))
  BY DEF CallEvent, CallEventType, Meant
<1>5. inbox' \in [Members -> Seq(CallEventType)] /\ Fewer
  BY <1>4, EmitFewer DEF Reject, TellRejected, CallsInv
<1>6. Quiet
  BY <1>1, <1>2, <1>5 DEF Quiet, Reject
<1>7. shown'[call[i].user] # i
  BY <1>1, <1>2, CallsAssumption DEF Reject, Modals
<1>8. Succeeds(i, Gone(call[i], "refused"))
  BY <1>1, <1>2, <1>6, <1>7, ClosedSucceeds
<1>9. call' = [call EXCEPT ![i] = Gone(call[i], "refused")] /\ UNCHANGED asked
  BY DEF Reject
<1> QED BY <1>2, <1>5, <1>6, <1>8, <1>9, Local

(* Nothing is rewritten.                                                   *)
LEMMA UnchangedModals ==
  ASSUME CallsInv, Quiet, UNCHANGED call, asked' \subseteq asked
  PROVE  CallsTypeOK' /\ ModalsOK' /\ ShownOK' /\ OnceOK' /\ Stable
<1>0. CallOffers \subseteq Modals /\ 0 \notin Modals /\ shown \in [Members -> Modals \cup {0}]
  BY CallsAssumption DEF CallOffers, Modals, CallsInv, CallsTypeOK
<1>1. CallsTypeOK'
  BY DEF CallsInv, CallsTypeOK, Quiet
<1>2. ASSUME NEW n \in CallOffers, Mounted(n)' PROVE Mounted(n)
  <2>1. call[n].user \in Members
    BY <1>0, <1>2 DEF Mounted, CallsInv, CallsTypeOK, ModalType
  <2> QED BY <1>0, <1>2, <2>1 DEF Mounted, Quiet
<1>3. Stable
  <2>1. \A n \in CallOffers : Begun(n) => Begun(n)'
    BY <1>2 DEF Begun, Quiet
  <2>2. \A j \in Modals : CandidateOK(j) => CandidateOK(j)'
    BY DEF CandidateOK, Settled
  <2> QED BY <2>1, <2>2 DEF Stable
<1>4. ModalsOK'
  BY DEF CallsInv, ModalsOK, Shape, Refers, Drained, Answered, Queue, CandidateOK, Settled
<1>5. ShownOK'
  BY DEF CallsInv, ShownOK, Quiet
<1>6. OnceOK'
  BY <1>2, <1>3 DEF CallsInv, OnceOK, Quiet, Stable
<1> QED BY <1>1, <1>3, <1>4, <1>5, <1>6

LEMMA NothingRewritten ==
  ASSUME CallsInv, Quiet, UNCHANGED <<call, asked>>, Fewer
  PROVE  CallsInv'
<1>1. CallsTypeOK' /\ ModalsOK' /\ ShownOK' /\ OnceOK' /\ Stable
  BY UnchangedModals
<1>2. EventsOK'
  BY <1>1, EventsKept
<1> QED BY <1>1, <1>2 DEF CallsInv

LEMMA TimerKept == ASSUME CallsInv, NEW u \in Members, TimerFires(u) PROVE CallsInv'
<1>1. call \in [Modals -> ModalType] /\ 0 \notin Modals
      /\ timers \in [Members -> Nat] /\ shown \in [Members -> Modals \cup {0}] /\ reloads \in Nat
  BY CallsAssumption DEF CallsInv, CallsTypeOK, Modals
<1>2. timers' \in [Members -> Nat]
  BY <1>1 DEF TimerFires, TimerDue
<1>3. Quiet
  BY <1>1, <1>2, SameInbox DEF Quiet, TimerFires, CallsInv
<1>4. CASE shown[u] = 0
  BY <1>3, <1>4, NothingRewritten, SameInbox DEF TimerFires, CallsInv
<1>5. CASE shown[u] # 0
  <2>1. PICK i \in Modals : i = shown[u]
    BY <1>1, <1>5
  <2>2. call[i].user = u /\ call[i] \in ModalType
    BY <1>1, <1>5, <2>1 DEF CallsInv, ShownOK
  <2>3. shown'[u] # i
    BY <1>1, <2>1 DEF TimerFires
  <2>4. Succeeds(i, Gone(call[i], "none"))
    BY <1>3, <2>2, <2>3, ClosedSucceeds
  <2>5. call' = [call EXCEPT ![i] = Gone(call[i], "none")] /\ UNCHANGED asked
    BY <1>5, <2>1 DEF TimerFires
  <2> QED BY <1>3, <2>2, <2>4, <2>5, Local, SameInbox DEF TimerFires, CallsInv
<1> QED BY <1>4, <1>5

-----------------------------------------------------------------------------
(* The events at a socket, but for a call that rings.                      *)
LEMMA ClosedKept ==
  ASSUME CallsInv, NEW u \in Members, inbox[u] # <<>>, OnClosed(u), Pop(u),
         UNCHANGED <<placed, asked, reloads>>
  PROVE  CallsInv'
<1>1. call \in [Modals -> ModalType] /\ 0 \notin Modals
      /\ timers \in [Members -> Nat] /\ shown \in [Members -> Modals \cup {0}] /\ reloads \in Nat
  BY CallsAssumption DEF CallsInv, CallsTypeOK, Modals
<1>2. inbox' \in [Members -> Seq(CallEventType)] /\ Fewer
  BY PopFewer DEF CallsInv
<1>3. timers' \in [Members -> Nat] /\ UNCHANGED shown
  BY <1>1 DEF OnClosed, CloseLater
<1>4. Quiet
  BY <1>1, <1>2, <1>3 DEF Quiet
<1>5. CASE ~Listening(u)
  BY <1>2, <1>4, <1>5, NothingRewritten DEF OnClosed
<1>6. CASE Listening(u)
  <2>1. PICK i \in Modals : i = shown[u]
    BY <1>1, <1>6 DEF Listening
  <2>2. call[i].user = u /\ call[i] \in ModalType
    BY <1>1, <1>6, <2>1 DEF CallsInv, ShownOK, Listening
  <2>3. Succeeds(i, Over(call[i]))
    BY <1>4, <2>2, ClosedSucceeds
  <2>4. call' = [call EXCEPT ![i] = Over(call[i])]
    BY <1>6, <2>1 DEF OnClosed
  <2> QED BY <1>2, <1>4, <2>2, <2>3, <2>4, Local
<1> QED BY <1>5, <1>6

LEMMA AnsweredKept ==
  ASSUME CallsInv, NEW u \in Members, inbox[u] # <<>>, NEW j \in Modals,
         Head(inbox[u]) = CallEvent("call-answered", j), OnAnswered(u, j), Pop(u),
         UNCHANGED <<placed, asked, reloads>>
  PROVE  CallsInv'
<1>1. call \in [Modals -> ModalType] /\ 0 \notin Modals
      /\ timers \in [Members -> Nat] /\ shown \in [Members -> Modals \cup {0}] /\ reloads \in Nat
  BY CallsAssumption DEF CallsInv, CallsTypeOK, Modals
<1>2. inbox' \in [Members -> Seq(CallEventType)] /\ Fewer
  BY PopFewer DEF CallsInv
<1>3. Quiet
  BY <1>1, <1>2 DEF Quiet, OnAnswered
<1>4. AnswerOK(u, 1, j)
  BY PopFacts DEF CallsInv, EventsOK
<1>5. CASE shown[u] = 0 \/ call[shown[u]].pc # "offered"
  BY <1>2, <1>3, <1>5, NothingRewritten DEF OnAnswered
<1>6. CASE shown[u] # 0 /\ call[shown[u]].pc = "offered"
  <2>1. PICK i \in Modals : i = shown[u]
    BY <1>1, <1>6
  <2>2. PICK r \in ModalType : r = call[i]
    BY <1>1
  <2>3. r.user = u /\ r.pc = "offered" /\ Shape(i, r) /\ Refers(r)
    BY <1>6, <2>1, <2>2 DEF CallsInv, ShownOK, ModalsOK
  <2>4. i \in CallOffers
    BY <2>3 DEF Shape
  <2>5. PICK m : m = [r EXCEPT !.remote = j, !.pc = "stable", !.pending = {}]
    OBVIOUS
  <2>6. /\ m \in ModalType /\ m.step = r.step /\ m.status = r.status
        /\ m.user = r.user /\ m.peer = r.peer /\ m.offer = r.offer
        /\ m.incoming = r.incoming /\ m.listening = r.listening
        /\ m.answers = r.answers /\ m.remote = j /\ m.to = r.to
        /\ m.closed = r.closed /\ m.early = r.early /\ m.pending = {} /\ m.pc = "stable"
    BY <2>5 DEF ModalType
  <2>7. call' = [call EXCEPT ![i] = m]
    BY <1>1, <1>6, <2>1, <2>2, <2>5 DEF OnAnswered
  <2>8. Shape(i, m) /\ Refers(m)
    BY <2>3, <2>4, <2>6, CallsAssumption DEF Shape, Refers
  <2>9. Queue(m) \subseteq Queue(r) /\ j \notin Queue(r)
    BY <1>4, <2>2, <2>6 DEF Queue, AnswerOK
  <2>10. Drained(m)
    BY <2>6, <2>9 DEF Drained
  <2>11. Answered(i, m)
    BY <1>4, <2>3, <2>6 DEF Answered, AnswerOK, Settled
  <2>12. i \in CallOffers /\ ~m.listening /\ shown'[m.user] = i => m.step = "none"
    <3>1. Mounted(i)
      BY <1>1, <2>1, <2>2, <2>3, CallsAssumption DEF Mounted
    <3> QED BY <2>2, <2>6, <3>1 DEF CallsInv, OnceOK
  <2>13. Succeeds(i, m)
    BY <2>2, <2>6, <2>8, <2>9, <2>10, <2>11, <2>12 DEF Succeeds
  <2> QED BY <1>2, <1>3, <2>2, <2>3, <2>7, <2>13, Local
<1> QED BY <1>5, <1>6

LEMMA CandidateKept ==
  ASSUME CallsInv, NEW u \in Members, inbox[u] # <<>>, NEW c \in Modals,
         Head(inbox[u]) = CallEvent("ice-candidate", c), OnIce(u, c), Pop(u),
         UNCHANGED <<placed, asked, reloads>>
  PROVE  CallsInv'
<1>1. call \in [Modals -> ModalType] /\ 0 \notin Modals
      /\ timers \in [Members -> Nat] /\ shown \in [Members -> Modals \cup {0}] /\ reloads \in Nat
  BY CallsAssumption DEF CallsInv, CallsTypeOK, Modals
<1>2. inbox' \in [Members -> Seq(CallEventType)] /\ Fewer
  BY PopFewer DEF CallsInv
<1>3. Quiet
  BY <1>1, <1>2 DEF Quiet, OnIce
<1>4. CandidateOK(c)
  BY PopFacts DEF CallsInv, EventsOK
<1>5. ~Announced(c)'
  <2> SUFFICES ASSUME NEW v \in Members, NEW k \in Positions(v)',
                      inbox'[v][k] = CallEvent("call-answered", c)
               PROVE  FALSE
    BY DEF Announced
  <2>1. PICK d \in Nat : k + d \in Positions(v) /\ inbox[v][k + d] = CallEvent("call-answered", c)
                         /\ k + d > 0 /\ (v = u => d = 1)
    <3>1. CASE v = u
      BY <3>1, PopFacts DEF Positions, CallsInv
    <3>2. CASE v # u
      <4>1. inbox'[v] = inbox[v]
        BY <3>2, PopFacts DEF CallsInv
      <4>2. k \in Nat /\ k > 0 /\ k + 0 = k /\ k \in Positions(v)
        BY <4>1 DEF Positions
      <4> QED BY <3>2, <4>1, <4>2
    <3> QED BY <3>1, <3>2
  <2>2. AnswerOK(v, k + d, c)
    BY <2>1 DEF CallsInv, EventsOK
  <2>3. u = v /\ k + d < 1
    BY <2>2, PopFacts DEF AnswerOK, CallsInv
  <2>4. k \in Int /\ d \in Int
    BY DEF Positions
  <2> QED BY <2>1, <2>3, <2>4
<1>6. CASE UNCHANGED call
  BY <1>2, <1>3, <1>6, NothingRewritten
<1>7. CASE ~UNCHANGED call
  <2>1. Listening(u) /\ shown[u] \in Modals
    BY <1>1, <1>7 DEF OnIce, Listening
  <2>2. PICK i \in Modals : i = shown[u]
    BY <2>1
  <2>3. PICK r \in ModalType : r = call[i]
    BY <1>1
  <2>4. r.user = u /\ Shape(i, r) /\ Refers(r) /\ Drained(r) /\ Answered(i, r) /\ r.listening
    BY <1>1, <2>1, <2>2, <2>3 DEF CallsInv, ShownOK, ModalsOK, Listening
  <2>5. PICK m : /\ call' = [call EXCEPT ![i] = m]
                 /\ \/ m = [r EXCEPT !.early = @ \cup {c}] /\ r.pc = "none"
                    \/ m = [r EXCEPT !.pending = @ \cup {c}] /\ r.remote = 0
    BY <1>7, <2>1, <2>2, <2>3 DEF OnIce
  <2>6. /\ m \in ModalType /\ m.step = r.step /\ m.status = r.status
        /\ m.user = r.user /\ m.peer = r.peer /\ m.offer = r.offer
        /\ m.incoming = r.incoming /\ m.listening = r.listening
        /\ m.answers = r.answers /\ m.remote = r.remote /\ m.to = r.to
        /\ m.closed = r.closed /\ m.pc = r.pc
        /\ Queue(m) \subseteq Queue(r) \cup {c}
    BY <2>5 DEF ModalType, Queue
  <2>7. m.remote = 0
    BY <2>4, <2>5, <2>6 DEF Shape
  <2>8. Shape(i, m) /\ Refers(m) /\ Drained(m) /\ Answered(i, m)
    BY <2>4, <2>6, <2>7, CallsAssumption DEF Shape, Refers, Drained, Answered
  <2>9. Succeeds(i, m)
    BY <1>4, <1>5, <2>3, <2>4, <2>6, <2>8 DEF Succeeds
  <2> QED BY <1>2, <1>3, <2>3, <2>4, <2>5, <2>9, Local
<1> QED BY <1>6, <1>7

-----------------------------------------------------------------------------
(* A modal is mounted: that of a call placed, or of the offer n that rings.*)
LEMMA Created ==
  ASSUME CallsInv, NEW u \in Members, shown[u] = 0, NEW i \in Modals, call[i] = NoModal,
         NEW m \in ModalType, call' = [call EXCEPT ![i] = m], shown' = [shown EXCEPT ![u] = i],
         m.user = u, m.answers = 0, m.step = "none", m.remote = 0, m.early = {}, m.pending = {},
         Shape(i, m), Refers(m),
         \/ i = placed + 1 /\ i \in CallOffers /\ placed' = i
         \/ UNCHANGED placed /\ \E n \in CallOffers : i = MaxCalls + n /\ n \notin asked /\ Begun(n),
         inbox' \in [Members -> Seq(CallEventType)], UNCHANGED <<asked, timers, reloads>>
  PROVE  /\ CallsTypeOK' /\ ModalsOK' /\ ShownOK' /\ OnceOK' /\ Stable
         /\ \A k, j \in Modals : j \in Queue(call'[k]) => j \in Queue(call[k])
<1>0. /\ call \in [Modals -> ModalType] /\ shown \in [Members -> Modals \cup {0}]
      /\ CallOffers = 1..MaxCalls /\ Modals = 1..(2 * MaxCalls) /\ MaxCalls \in Nat
      /\ CallOffers \subseteq Modals /\ 0 \notin Modals /\ Nobody \notin Members
      /\ placed \in 0..MaxCalls
  BY CallsAssumption DEF CallsInv, CallsTypeOK, CallOffers, Modals
<1>1. call'[i] = m /\ \A j \in Modals \ {i} : call'[j] = call[j]
  BY <1>0
<1>2. CallsTypeOK'
  BY <1>0 DEF CallsInv, CallsTypeOK
<1>3. call[i].user = Nobody /\ call[i].answers = 0 /\ call[i].step = "none"
  BY DEF NoModal
<1>4. placed' \in Nat /\ placed <= placed'
  BY <1>0
<1>5. ASSUME NEW n \in CallOffers, n # i, Mounted(n)' PROVE Mounted(n)
  <2>1. call'[n] = call[n] /\ call[n].user \in Members
    BY <1>0, <1>1, <1>5 DEF Mounted, ModalType
  <2>2. call[n].user # u
    BY <1>0, <1>5, <2>1 DEF Mounted
  <2> QED BY <1>0, <1>5, <2>1, <2>2 DEF Mounted
<1>6. ASSUME NEW n \in CallOffers, Begun(n) PROVE Begun(n)'
  <2>1. n # i
    BY <1>0, <1>6 DEF Begun
  <2> QED BY <1>0, <1>1, <1>4, <1>5, <1>6, <2>1 DEF Begun
<1>7. ASSUME NEW j \in Modals, CandidateOK(j) PROVE CandidateOK(j)'
  <2>1. CASE j = i
    BY <1>3, <1>7, <2>1 DEF CandidateOK, Settled
  <2>2. CASE j # i
    BY <1>1, <1>7, <2>2 DEF CandidateOK, Settled
  <2> QED BY <2>1, <2>2
<1>8. Stable
  BY <1>0, <1>1, <1>3, <1>6, <1>7 DEF Stable
<1>9. ModalsOK'
  <2> SUFFICES ASSUME NEW j \in Modals
               PROVE  /\ Shape(j, call'[j]) /\ Refers(call[j])' /\ Drained(call'[j])
                      /\ Answered(j, call[j])' /\ \A c \in Queue(call'[j]) : CandidateOK(c)'
    BY DEF ModalsOK
  <2>1. PICK r \in ModalType : r = call'[j]
    BY <1>0, <1>1
  <2>2. Shape(j, r) /\ Refers(r) /\ Drained(r) /\ Answered(j, r)
    <3>1. CASE j = i
      BY <1>1, <2>1, <3>1 DEF Drained, Answered
    <3>2. CASE j # i
      BY <1>1, <2>1, <3>2 DEF CallsInv, ModalsOK
    <3> QED BY <3>1, <3>2
  <2>3. \A c \in Queue(r) : CandidateOK(c)
    <3>1. CASE j = i
      BY <1>1, <2>1, <3>1 DEF Queue
    <3>2. CASE j # i
      BY <1>1, <2>1, <3>2 DEF CallsInv, ModalsOK
    <3> QED BY <3>1, <3>2
  <2>4. Queue(r) \subseteq Modals
    BY DEF Queue, ModalType
  <2>5. Refers(r)' /\ Answered(j, r)'
    BY <1>8, <2>2, RefersStable, AnsweredStable DEF CallsInv
  <2>6. Refers(call[j])' /\ Answered(j, call[j])'
    BY <2>1, <2>5 DEF Refers, Answered
  <2> QED BY <1>7, <2>1, <2>2, <2>3, <2>4, <2>6
<1>10. ShownOK'
  <2> SUFFICES ASSUME NEW v \in Members, shown'[v] # 0 PROVE call'[shown'[v]].user = v
    BY DEF ShownOK
  <2>1. CASE v = u
    BY <1>0, <1>1, <2>1
  <2>2. CASE v # u
    <3>1. shown'[v] = shown[v] /\ shown[v] \in Modals /\ call[shown[v]].user = v
      BY <1>0, <2>2 DEF CallsInv, ShownOK
    <3>2. shown[v] # i
      BY <1>0, <1>3, <3>1
    <3> QED BY <1>1, <3>1, <3>2
  <2> QED BY <2>1, <2>2
<1>11. OnceOK'
  <2> SUFFICES ASSUME NEW n \in CallOffers
               PROVE  /\ n > placed' => call'[n] = NoModal
                      /\ n \in asked' => Begun(n)' /\ call'[MaxCalls + n] = NoModal
                      /\ call'[MaxCalls + n] # NoModal => Begun(n)'
                      /\ Mounted(n)' /\ ~call'[n].listening => call'[n].step = "none"
    BY DEF OnceOK
  <2>1. /\ n > placed => call[n] = NoModal
        /\ n \in asked => Begun(n) /\ call[MaxCalls + n] = NoModal
        /\ call[MaxCalls + n] # NoModal => Begun(n)
        /\ Mounted(n) /\ ~call[n].listening => call[n].step = "none"
    BY DEF CallsInv, OnceOK
  <2>2. MaxCalls + n \in Modals /\ n \in Modals /\ n \in Int /\ MaxCalls + n \notin CallOffers
    BY <1>0
  <2>3. n > placed' => call'[n] = NoModal
    <3>1. n > placed' => n # i
      BY <1>0, <2>2
    <3> QED BY <1>0, <1>1, <1>4, <2>1, <2>2, <3>1
  <2>4. i = MaxCalls + n => n \notin asked /\ Begun(n)
    BY <1>0, <2>2
  <2>5. MaxCalls + n # i => call'[MaxCalls + n] = call[MaxCalls + n]
    BY <1>1, <2>2
  <2>6. Mounted(n)' /\ ~call'[n].listening => call'[n].step = "none"
    BY <1>1, <1>5, <2>1, <2>2
  <2> QED BY <1>6, <2>1, <2>3, <2>4, <2>5, <2>6
<1>12. \A k, j \in Modals : j \in Queue(call'[k]) => j \in Queue(call[k])
  <2>1. Queue(m) = {}
    BY DEF Queue
  <2> QED BY <1>1, <2>1
<1> QED BY <1>2, <1>8, <1>9, <1>10, <1>11, <1>12

LEMMA StartKept ==
  ASSUME CallsInv, NEW u \in Members, NEW v \in Members, StartCall(u, v)
  PROVE  CallsInv'
<1>0. /\ MaxCalls \in Nat /\ CallOffers = 1..MaxCalls /\ Modals = 1..(2 * MaxCalls)
      /\ placed \in 0..MaxCalls /\ placed < MaxCalls /\ Nobody \notin Members
  BY CallsAssumption DEF CallsInv, CallsTypeOK, CallOffers, Modals, StartCall
<1>1. PICK i \in CallOffers : i = placed + 1 /\ placed' = i
  BY <1>0 DEF StartCall
<1>2. i \in Modals /\ call[i] = NoModal
  BY <1>0, <1>1 DEF CallsInv, OnceOK
<1>3. PICK m : m = [NoModal EXCEPT !.user = u, !.peer = v, !.status = "calling"]
  OBVIOUS
<1>4. /\ m \in ModalType /\ m.user = u /\ m.answers = 0 /\ m.step = "none" /\ m.remote = 0
      /\ m.early = {} /\ m.pending = {} /\ m.offer = 0 /\ ~m.incoming /\ m.status = "calling"
  BY <1>3 DEF NoModal, ModalType
<1>5. Shape(i, m) /\ Refers(m)
  BY <1>0, <1>4 DEF Shape, Refers
<1>6. /\ call' = [call EXCEPT ![i] = m] /\ shown' = [shown EXCEPT ![u] = i] /\ shown[u] = 0
      /\ UNCHANGED <<asked, inbox, timers, reloads>>
  BY <1>1, <1>3 DEF StartCall
<1>7. inbox' \in [Members -> Seq(CallEventType)] /\ Fewer
  BY <1>6, SameInbox DEF CallsInv
<1>8. /\ CallsTypeOK' /\ ModalsOK' /\ ShownOK' /\ OnceOK' /\ Stable
      /\ \A k, j \in Modals : j \in Queue(call'[k]) => j \in Queue(call[k])
  BY <1>1, <1>2, <1>4, <1>5, <1>6, <1>7, Created
<1>9. \A n \in CallOffers : call[MaxCalls + n] = NoModal => call'[MaxCalls + n] = NoModal
  <2>1. \A n \in CallOffers : MaxCalls + n \in Modals /\ MaxCalls + n # i
    BY <1>0
  <2> QED BY <1>6, <2>1 DEF CallsInv, CallsTypeOK
<1>10. EventsOK'
  BY <1>6, <1>7, <1>8, <1>9, EventsKept
<1> QED BY <1>8, <1>10 DEF CallsInv

LEMMA RingKept ==
  ASSUME CallsInv, NEW u \in Members, inbox[u] # <<>>, NEW n \in Modals,
         Head(inbox[u]) = CallEvent("incoming-call", n), OnIncomingCall(u, n), Pop(u),
         UNCHANGED <<placed, asked, reloads>>
  PROVE  CallsInv'
<1>0. /\ MaxCalls \in Nat /\ CallOffers = 1..MaxCalls /\ Modals = 1..(2 * MaxCalls)
      /\ CallOffers \subseteq Modals /\ 0 \notin Modals
      /\ Nobody \notin Members /\ Subscribers \subseteq Members
      /\ call \in [Modals -> ModalType] /\ shown \in [Members -> Modals \cup {0}]
      /\ timers \in [Members -> Nat] /\ reloads \in Nat
  BY CallsAssumption DEF CallsInv, CallsTypeOK, CallOffers, Modals
<1>1. inbox' \in [Members -> Seq(CallEventType)] /\ Fewer
  BY PopFewer DEF CallsInv
<1>2. RingsOK(u, 1, n) /\ 1 \in Positions(u)
  BY PopFacts DEF CallsInv, EventsOK
<1>3. n \in CallOffers /\ Begun(n) /\ n \notin asked /\ call[MaxCalls + n] = NoModal
      /\ call[n].user \in Subscribers
  BY <1>2 DEF RingsOK
<1>4. PICK w \in Subscribers : w = call[n].user
  BY <1>3
<1>5. CASE shown[u] = 0
  <2>1. PICK i \in Modals : i = MaxCalls + n /\ i \notin CallOffers
    BY <1>0, <1>3
  <2>2. PICK m : m = [[NoModal EXCEPT !.user = u, !.status = "ringing"]
                        EXCEPT !.peer = w, !.offer = n, !.incoming = TRUE]
    OBVIOUS
  <2>3. /\ m \in ModalType /\ m.user = u /\ m.answers = 0 /\ m.step = "none" /\ m.remote = 0
        /\ m.early = {} /\ m.pending = {} /\ m.offer = n /\ m.peer = w /\ m.pc = "none"
    <3>1. w \in Members
      BY <1>0
    <3> QED BY <1>3, <2>2, <3>1 DEF NoModal, ModalType
  <2>4. Shape(i, m) /\ Refers(m)
    <3>1. n # 0
      BY <1>0, <1>3
    <3> QED BY <1>0, <1>4, <2>1, <2>3, <3>1 DEF Shape, Refers
  <2>5. call' = [call EXCEPT ![i] = m] /\ shown' = [shown EXCEPT ![u] = i] /\ UNCHANGED timers
    BY <1>0, <1>4, <1>5, <2>1, <2>2 DEF OnIncomingCall
  <2>6. /\ CallsTypeOK' /\ ModalsOK' /\ ShownOK' /\ OnceOK' /\ Stable
        /\ \A k, j \in Modals : j \in Queue(call'[k]) => j \in Queue(call[k])
    <3>1. UNCHANGED placed /\ \E o \in CallOffers : i = MaxCalls + o /\ o \notin asked /\ Begun(o)
      BY <1>3, <2>1
    <3>2. call[i] = NoModal
      BY <1>3, <2>1
    <3> QED BY <1>1, <1>5, <2>3, <2>4, <2>5, <3>1, <3>2, Created
  <2>7. ASSUME NEW v \in Members, NEW k \in Positions(v)'
        PROVE  inbox'[v][k] # CallEvent("incoming-call", n)
    <3>1. CASE v = u
      <4>1. k + 1 \in Positions(u) /\ inbox'[u][k] = inbox[u][k + 1] /\ k \in Nat /\ k > 0
        BY <2>7, <3>1, PopFacts DEF CallsInv, Positions
      <4>2. k + 1 # 1
        BY <4>1
      <4> QED BY <1>2, <3>1, <4>1, <4>2 DEF RingsOK
    <3>2. CASE v # u
      <4>1. inbox'[v] = inbox[v]
        BY <3>2, PopFacts DEF CallsInv
      <4> QED BY <1>2, <2>7, <3>2, <4>1 DEF RingsOK, Positions
    <3> QED BY <3>1, <3>2
  <2>8. \A o \in CallOffers : call[MaxCalls + o] = NoModal =>
          \/ call'[MaxCalls + o] = NoModal
          \/ \A v \in Members : \A k \in Positions(v)' :
               inbox'[v][k] # CallEvent("incoming-call", o)
    <3>1. \A o \in CallOffers : MaxCalls + o \in Modals /\ (o # n => MaxCalls + o # i)
      BY <1>0, <1>3, <2>1
    <3> QED BY <1>0, <2>5, <2>7, <3>1
  <2>9. EventsOK'
    BY <1>1, <2>6, <2>8, EventsKept
  <2> QED BY <2>6, <2>9 DEF CallsInv
<1>6. CASE shown[u] # 0
  <2>1. PICK i \in Modals : i = shown[u]
    BY <1>0, <1>6
  <2>2. PICK r \in ModalType : r = call[i]
    BY <1>0
  <2>3. r.user = u /\ Shape(i, r) /\ Refers(r) /\ Drained(r) /\ Answered(i, r)
    BY <1>6, <2>1, <2>2 DEF CallsInv, ShownOK, ModalsOK
  <2>4. PICK m : m = [r EXCEPT !.peer = w, !.offer = n, !.incoming = TRUE]
    OBVIOUS
  <2>5. /\ m \in ModalType /\ m.user = u /\ m.answers = r.answers /\ m.step = r.step
        /\ m.remote = r.remote /\ m.early = r.early /\ m.pending = r.pending /\ m.offer = n
        /\ m.peer = w /\ m.pc = r.pc /\ m.status = r.status /\ m.to = r.to
        /\ m.listening = r.listening /\ m.closed = r.closed
    <3>1. w \in Members
      BY <1>0
    <3> QED BY <1>3, <2>3, <2>4, <3>1 DEF ModalType
  <2>6. Shape(i, m) /\ Refers(m) /\ Drained(m) /\ Answered(i, m) /\ Queue(m) = Queue(r)
    <3>1. n # 0
      BY <1>0, <1>3
    <3> QED BY <1>0, <1>4, <2>3, <2>5, <3>1 DEF Shape, Refers, Drained, Answered, Queue
  <2>7. call' = [call EXCEPT ![i] = m] /\ shown' = [shown EXCEPT ![u] = i] /\ UNCHANGED timers
    BY <1>0, <1>4, <1>6, <2>1, <2>2, <2>4 DEF OnIncomingCall
  <2>8. Quiet
    BY <1>0, <1>1, <2>1, <2>7 DEF Quiet
  <2>9. i \in CallOffers /\ ~m.listening => m.step = "none"
    <3>1. Mounted(i)
      BY <1>0, <2>1, <2>2, <2>3 DEF Mounted
    <3> QED BY <2>2, <2>5, <3>1 DEF CallsInv, OnceOK
  <2>10. Succeeds(i, m)
    BY <2>2, <2>3, <2>5, <2>6, <2>9 DEF Succeeds
  <2> QED BY <1>1, <2>2, <2>3, <2>7, <2>8, <2>10, Local
<1> QED BY <1>5, <1>6

-----------------------------------------------------------------------------
(* The steps that send an offer, an answer or a candidate.                 *)
LEMMA OfferKept == ASSUME CallsInv, NEW i \in Modals, SendOffer(i) PROVE CallsInv'
<1>1. /\ call \in [Modals -> ModalType] /\ timers \in [Members -> Nat]
      /\ shown \in [Members -> Modals \cup {0}] /\ reloads \in Nat
      /\ MaxCalls \in Nat /\ CallOffers = 1..MaxCalls /\ 0 \notin Modals /\ asked \subseteq CallOffers
  BY CallsAssumption DEF CallsInv, CallsTypeOK, CallOffers, Modals
<1>2. call[i].step = "offer"
  BY DEF SendOffer
<1>3. PICK r \in ModalType : r = call[i]
  BY <1>1
<1>4. r.user \in Members /\ Shape(i, r) /\ r.step = "offer" /\ i \in CallOffers
  <2>1. call[i].user \in Members
    BY <1>2, OwnedByMembers DEF NoModal
  <2>2. Shape(i, call[i])
    BY DEF CallsInv, ModalsOK
  <2> QED BY <1>2, <1>3, <2>1, <2>2 DEF Shape
<1>5. CASE r.pc = "closed"
  BY <1>2, <1>3, <1>5, MediaErrorKept DEF SendOffer
<1>6. CASE r.pc # "closed"
  <2>1. PICK m : m = [r EXCEPT !.pc = "offered", !.step = "none"]
    OBVIOUS
  <2>2. /\ m \in ModalType /\ m.user = r.user /\ m.answers = r.answers /\ m.step = "none"
        /\ m.remote = r.remote /\ m.early = r.early /\ m.pending = r.pending
        /\ m.offer = r.offer /\ m.incoming = r.incoming
        /\ m.peer = r.peer /\ m.pc = "offered" /\ m.status = r.status /\ m.to = r.to
        /\ m.listening = r.listening /\ m.closed = r.closed
    BY <2>1 DEF ModalType
  <2>3. /\ call' = [call EXCEPT ![i] = m] /\ asked' = asked \cup {i}
        /\ UNCHANGED <<shown, placed, inbox, timers, reloads>>
    BY <1>1, <1>3, <1>6, <2>1 DEF SendOffer
  <2>4. Quiet /\ Fewer
    BY <1>1, <2>3, SameInbox DEF Quiet, CallsInv
  <2>5. Shape(i, m)
    BY <1>1, <1>4, <2>2, CallsAssumption DEF Shape
  <2>6. Succeeds(i, m)
    BY <1>3, <1>4, <2>2, <2>4, <2>5, Succession
  <2>7. ~Begun(i)
    BY <1>2 DEF Begun
  <2>8. i <= placed
    <3>1. i > placed => call[i] = NoModal
      BY <1>4 DEF CallsInv, OnceOK
    <3>2. i \in Int /\ placed \in Int
      BY <1>1, <1>4 DEF CallsInv, CallsTypeOK
    <3> QED BY <1>2, <3>1, <3>2 DEF NoModal
  <2>9. Mounted(i) => r.listening
    BY <1>2, <1>3, <1>4 DEF CallsInv, OnceOK
  <2>10. Begun(i)'
    <3>1. call'[i] = m
      BY <1>1, <2>3
    <3>2. Mounted(i)' => Mounted(i)
      BY <1>3, <2>2, <2>3, <3>1 DEF Mounted
    <3> QED BY <2>2, <2>3, <2>8, <2>9, <3>1, <3>2 DEF Begun
  <2>11. call[MaxCalls + i] = NoModal
    BY <1>4, <2>7 DEF CallsInv, OnceOK
  <2>12. asked' \subseteq CallOffers
         /\ \A n \in asked' : n \in asked \/ (Begun(n)' /\ call[MaxCalls + n] = NoModal)
    BY <1>1, <1>4, <2>3, <2>10, <2>11
  <2>13. /\ CallsTypeOK' /\ ModalsOK' /\ ShownOK' /\ OnceOK' /\ Stable /\ NoNewModal
         /\ \A k, j \in Modals : j \in Queue(call'[k]) => j \in Queue(call[k]) \/ ~Announced(j)'
    BY <1>3, <1>4, <2>3, <2>4, <2>6, <2>12, LocalModals
  <2>14. \A n \in CallOffers : n \in asked' => n \in asked \/ ~Begun(n)
    BY <2>3, <2>7
  <2>15. EventsOK'
    BY <2>4, <2>13, <2>14, EventsKept DEF NoNewModal
  <2> QED BY <2>13, <2>15 DEF CallsInv
<1> QED BY <1>5, <1>6

LEMMA RelayKept == ASSUME CallsInv, NEW i \in Modals, RelayCall(i) PROVE CallsInv'
<1>1. /\ call \in [Modals -> ModalType] /\ timers \in [Members -> Nat]
      /\ shown \in [Members -> Modals \cup {0}] /\ reloads \in Nat /\ asked \subseteq CallOffers
  BY DEF CallsInv, CallsTypeOK
<1>2. i \in asked /\ i \in CallOffers /\ asked' = asked \ {i}
      /\ UNCHANGED <<call, shown, placed, timers, reloads>>
  BY <1>1 DEF RelayCall
<1>3. PICK v \in Members \cup {Nobody}, type \in {"incoming-call", "call-rejected"} :
        /\ Emit(v, CallEvent(type, i))
        /\ type = "incoming-call" => call[i].user \in Subscribers
  <2>1. call[i].to \in Members \cup {Nobody} /\ call[i].user \in Members \cup {Nobody}
    BY <1>1 DEF ModalType
  <2> QED BY <2>1 DEF RelayCall, MayCall
<1>4. CallEvent(type, i) \in CallEventType
  BY DEF CallEvent, CallEventType
<1>5. inbox' \in [Members -> Seq(CallEventType)]
  BY <1>3, <1>4, EmitFacts DEF CallsInv
<1>6. Quiet
  BY <1>1, <1>2, <1>5 DEF Quiet
<1>7. CallsTypeOK' /\ ModalsOK' /\ ShownOK' /\ OnceOK' /\ Stable
  BY <1>2, <1>6, UnchangedModals
<1>8. CASE type = "incoming-call"
  <2>1. Begun(i) /\ call[MaxCalls + i] = NoModal
    BY <1>2 DEF CallsInv, OnceOK
  <2>2. \A u \in Members : \A k \in Positions(u) : inbox[u][k] # CallEvent("incoming-call", i)
    BY <1>2 DEF CallsInv, EventsOK, RingsOK
  <2>3. \A n \in Modals : CallEvent(type, i) = CallEvent("incoming-call", n) =>
          /\ n \in CallOffers /\ Begun(n)' /\ n \notin asked' /\ call'[MaxCalls + n] = NoModal
          /\ call'[n].user \in Subscribers
          /\ \A u \in Members : \A k \in Positions(u) : inbox[u][k] # CallEvent(type, i)
    <3>1. \A n \in Modals : CallEvent(type, i) = CallEvent("incoming-call", n) => n = i
      BY DEF CallEvent
    <3>2. Begun(i)' /\ call' = call
      BY <1>2, <1>7, <2>1 DEF Stable
    <3> QED BY <1>2, <1>3, <1>8, <2>1, <2>2, <3>1, <3>2
  <2>4. \A j \in Modals : CallEvent(type, i) # CallEvent("call-answered", j)
                          /\ CallEvent(type, i) # CallEvent("ice-candidate", j)
    BY <1>8 DEF CallEvent
  <2>5. NoNewModal /\ (\A n \in CallOffers : n \in asked' => n \in asked)
        /\ \A k, j \in Modals : j \in Queue(call'[k]) => j \in Queue(call[k])
    BY <1>2 DEF NoNewModal
  <2>6. EventsOK'
    BY <1>3, <1>4, <1>7, <2>3, <2>4, <2>5, EventsEmitted
  <2> QED BY <1>7, <2>6 DEF CallsInv
<1>9. CASE type = "call-rejected"
  <2>1. ~Meant(CallEvent(type, i))
    BY <1>9 DEF Meant, CallEvent
  <2>2. Fewer
    BY <1>3, <1>4, <2>1, EmitFewer DEF CallsInv
  <2>3. EventsOK'
    BY <1>2, <1>7, <2>2, EventsKept
  <2> QED BY <1>7, <2>3 DEF CallsInv
<1> QED BY <1>8, <1>9

LEMMA SendCandidateKept == ASSUME CallsInv, NEW i \in Modals, SendCandidate(i) PROVE CallsInv'
<1>1. /\ call \in [Modals -> ModalType] /\ timers \in [Members -> Nat]
      /\ shown \in [Members -> Modals \cup {0}] /\ reloads \in Nat /\ asked \subseteq CallOffers
  BY DEF CallsInv, CallsTypeOK
<1>2. PICK r \in ModalType : r = call[i]
  BY <1>1
<1>3. r.pc \in {"offered", "stable"} /\ Emit(r.to, CallEvent("ice-candidate", i))
      /\ UNCHANGED <<shown, placed, asked, timers, reloads>>
  BY <1>2 DEF SendCandidate
<1>4. r.user \in Members /\ Shape(i, r) /\ Refers(r)
  <2>1. call[i].user \in Members
    BY <1>2, <1>3, OwnedByMembers DEF NoModal
  <2> QED BY <1>2, <2>1 DEF CallsInv, ModalsOK
<1>5. PICK m : m = [r EXCEPT !.sent = TRUE]
  OBVIOUS
<1>6. /\ m \in ModalType /\ m.user = r.user /\ m.answers = r.answers /\ m.step = r.step
      /\ m.remote = r.remote /\ m.early = r.early /\ m.pending = r.pending
      /\ m.offer = r.offer /\ m.incoming = r.incoming
      /\ m.peer = r.peer /\ m.pc = r.pc /\ m.status = r.status /\ m.to = r.to
      /\ m.listening = r.listening /\ m.closed = r.closed
  BY <1>5 DEF ModalType
<1>7. call' = [call EXCEPT ![i] = m]
  BY <1>1, <1>2, <1>5 DEF SendCandidate
<1>8. CallEvent("ice-candidate", i) \in CallEventType
  BY DEF CallEvent, CallEventType
<1>9. Quiet
  <2>1. inbox' \in [Members -> Seq(CallEventType)]
    BY <1>3, <1>8, EmitFacts DEF CallsInv
  <2> QED BY <1>1, <1>3, <2>1 DEF Quiet
<1>10. Shape(i, m)
  BY <1>4, <1>6, CallsAssumption DEF Shape
<1>11. Succeeds(i, m)
  BY <1>2, <1>4, <1>6, <1>9, <1>10, Succession
<1>12. /\ CallsTypeOK' /\ ModalsOK' /\ ShownOK' /\ OnceOK' /\ Stable /\ NoNewModal
  BY <1>1, <1>2, <1>3, <1>4, <1>7, <1>9, <1>11, LocalModals
<1>13. \A k, j \in Modals : j \in Queue(call'[k]) => j \in Queue(call[k])
  <2>1. Queue(m) = Queue(r)
    BY <1>6 DEF Queue
  <2> QED BY <1>1, <1>2, <1>7, <2>1
<1>14. CandidateOK(i)
  BY <1>2, <1>3, <1>4 DEF CandidateOK, Settled, Shape
<1>15. \A u \in Members : \A k \in Positions(u) :
         inbox[u][k] = CallEvent("call-answered", i) => u = r.to
  <2> SUFFICES ASSUME NEW u \in Members, NEW k \in Positions(u),
                      inbox[u][k] = CallEvent("call-answered", i)
               PROVE  u = r.to
    OBVIOUS
  <2>1. AnswerOK(u, k, i)
    BY DEF CallsInv, EventsOK
  <2> QED BY <1>2, <1>4, <2>1 DEF AnswerOK, Settled, Refers
<1>16. \A j \in Modals :
         /\ CallEvent("ice-candidate", i) # CallEvent("incoming-call", j)
         /\ CallEvent("ice-candidate", i) # CallEvent("call-answered", j)
         /\ CallEvent("ice-candidate", i) = CallEvent("ice-candidate", j) => j = i
  BY DEF CallEvent
<1>17. CandidateOK(i)'
  BY <1>12, <1>14 DEF Stable
<1>18. EventsOK'
  BY <1>3, <1>8, <1>12, <1>13, <1>15, <1>16, <1>17, EventsEmitted
<1> QED BY <1>12, <1>18 DEF CallsInv

LEMMA AnswerKept == ASSUME CallsInv, NEW i \in Modals, SendAnswer(i) PROVE CallsInv'
<1>1. /\ call \in [Modals -> ModalType] /\ timers \in [Members -> Nat]
      /\ shown \in [Members -> Modals \cup {0}] /\ reloads \in Nat /\ asked \subseteq CallOffers
  BY DEF CallsInv, CallsTypeOK
<1>2. PICK r \in ModalType : r = call[i]
  BY <1>1
<1>3. r.step = "answer"
  BY <1>2 DEF SendAnswer
<1>4. r.user \in Members /\ Shape(i, r) /\ Refers(r)
  <2>1. call[i].user \in Members
    BY <1>2, <1>3, OwnedByMembers DEF NoModal
  <2> QED BY <1>2, <2>1 DEF CallsInv, ModalsOK
<1>5. i \notin CallOffers /\ r.answers # 0
  BY <1>3, <1>4 DEF Shape
<1>6. CASE r.pc = "closed"
  BY <1>2, <1>3, <1>6, MediaErrorKept DEF SendAnswer
<1>7. CASE r.pc # "closed"
  <2>1. PICK status \in {"none", "calling", "ringing", "over", "refused"} :
          status = IF r.status = "ringing" THEN "calling" ELSE r.status
    BY DEF ModalType
  <2>2. PICK m : m = [r EXCEPT !.pc = "stable", !.step = "none", !.status = status]
    OBVIOUS
  <2>3. /\ m \in ModalType /\ m.user = r.user /\ m.answers = r.answers /\ m.step = "none"
        /\ m.remote = r.remote /\ m.early = r.early /\ m.pending = r.pending
        /\ m.offer = r.offer /\ m.incoming = r.incoming
        /\ m.peer = r.peer /\ m.pc = "stable" /\ m.status = status /\ m.to = r.to
        /\ m.listening = r.listening /\ m.closed = r.closed
    BY <2>2 DEF ModalType
  <2>4. /\ call' = [call EXCEPT ![i] = m] /\ Emit(r.to, CallEvent("call-answered", i))
        /\ UNCHANGED <<shown, placed, asked, timers, reloads>>
    BY <1>1, <1>2, <1>7, <2>1, <2>2 DEF SendAnswer, EmitAnswer
  <2>5. CallEvent("call-answered", i) \in CallEventType
    BY DEF CallEvent, CallEventType
  <2>6. Quiet
    <3>1. inbox' \in [Members -> Seq(CallEventType)]
      BY <2>4, <2>5, EmitFacts DEF CallsInv
    <3> QED BY <1>1, <2>4, <3>1 DEF Quiet
  <2>7. Shape(i, m)
    BY <1>4, <1>5, <2>3, CallsAssumption DEF Shape
  <2>8. Succeeds(i, m)
    BY <1>2, <1>4, <2>3, <2>6, <2>7, Succession
  <2>9. /\ CallsTypeOK' /\ ModalsOK' /\ ShownOK' /\ OnceOK' /\ Stable /\ NoNewModal
    BY <1>1, <1>2, <1>4, <2>4, <2>6, <2>8, LocalModals
  <2>10. \A k, j \in Modals : j \in Queue(call'[k]) => j \in Queue(call[k])
    <3>1. Queue(m) = Queue(r)
      BY <2>3 DEF Queue
    <3> QED BY <1>1, <1>2, <2>4, <3>1
  <2>11. ~CandidateOK(i)
    BY <1>2, <1>3, <1>5 DEF CandidateOK, Settled
  <2>12. \A k \in Modals : i \notin Queue(call'[k])
    BY <2>10, <2>11 DEF CallsInv, ModalsOK
  <2>13. \A u \in Members : \A k \in Positions(u) : inbox[u][k] # CallEvent("ice-candidate", i)
    BY <2>11 DEF CallsInv, EventsOK
  <2>14. Settled(i)' /\ call'[i].answers = r.answers
    BY <1>1, <1>5, <2>3, <2>4 DEF Settled
  <2>15. r.answers \in Modals /\ call[r.answers].user = r.to /\ r.to \in Subscribers
    <3>1. r.answers \in CallOffers
      BY <1>5 DEF ModalType
    <3> QED BY <1>4, <1>5, <3>1, CallsAssumption DEF Refers, CallOffers, Modals
  <2>16. call'[call'[i].answers].user = r.to
    BY <2>9, <2>14, <2>15, CallsAssumption DEF Stable
  <2>17. \A j \in Modals :
           /\ CallEvent("call-answered", i) # CallEvent("incoming-call", j)
           /\ CallEvent("call-answered", i) # CallEvent("ice-candidate", j)
           /\ CallEvent("call-answered", i) = CallEvent("call-answered", j) => j = i
    BY DEF CallEvent
  <2>18. EventsOK'
    BY <1>5, <2>4, <2>5, <2>9, <2>10, <2>12, <2>13, <2>14, <2>15, <2>16, <2>17, EventsEmitted
  <2> QED BY <2>9, <2>18 DEF CallsInv
<1> QED BY <1>6, <1>7

-----------------------------------------------------------------------------
(* The page of a member is reloaded.                                       *)
Reloaded(m) ==
  [Gone(m, "none") EXCEPT !.step = "none", !.pc = IF @ = "none" THEN "none" ELSE "closed"]

LEMMA StoppedFacts ==
  ASSUME NEW g \in ModalType, NEW r,
         r = [g EXCEPT !.step = "none", !.pc = IF @ = "none" THEN "none" ELSE "closed"]
  PROVE  /\ r \in ModalType /\ r.closed = g.closed /\ r.step = "none" /\ r.status = g.status
         /\ r.user = g.user /\ r.peer = g.peer /\ r.offer = g.offer /\ r.to = g.to
         /\ r.incoming = g.incoming /\ r.answers = g.answers /\ r.remote = g.remote
         /\ r.early = g.early /\ r.pending = g.pending
         /\ r.pc \in {"none", "closed"} /\ (r.pc = "none" <=> g.pc = "none")
<1>1. CASE g.pc = "none"
  <2>1. r = [g EXCEPT !.step = "none", !.pc = "none"]
    BY <1>1
  <2>2. /\ r \in ModalType /\ r.closed = g.closed /\ r.step = "none" /\ r.status = g.status
        /\ r.user = g.user /\ r.peer = g.peer /\ r.offer = g.offer /\ r.to = g.to
        /\ r.incoming = g.incoming /\ r.answers = g.answers /\ r.remote = g.remote
        /\ r.early = g.early /\ r.pending = g.pending /\ r.pc = "none"
    BY <2>1 DEF ModalType
  <2> QED BY <1>1, <2>2
<1>2. CASE g.pc # "none"
  <2>1. r = [g EXCEPT !.step = "none", !.pc = "closed"]
    BY <1>2
  <2>2. /\ r \in ModalType /\ r.closed = g.closed /\ r.step = "none" /\ r.status = g.status
        /\ r.user = g.user /\ r.peer = g.peer /\ r.offer = g.offer /\ r.to = g.to
        /\ r.incoming = g.incoming /\ r.answers = g.answers /\ r.remote = g.remote
        /\ r.early = g.early /\ r.pending = g.pending /\ r.pc = "closed"
    BY <2>1 DEF ModalType
  <2> QED BY <1>2, <2>2
<1> QED BY <1>1, <1>2

LEMMA ReloadedFacts ==
  ASSUME NEW m \in ModalType, NEW r, r = Reloaded(m)
  PROVE  /\ r \in ModalType /\ r.closed /\ r.step = "none" /\ r.status = "none"
         /\ r.user = m.user /\ r.peer = m.peer /\ r.offer = m.offer /\ r.to = m.to
         /\ r.incoming = m.incoming /\ r.answers = m.answers /\ r.remote = m.remote
         /\ r.early = {} /\ r.pending = {}
         /\ r.pc \in {"none", "closed"} /\ (r.pc = "none" <=> m.pc = "none")
<1>1. PICK g : g = Gone(m, "none")
  OBVIOUS
<1>2. /\ g \in ModalType /\ g.closed
      /\ g.user = m.user /\ g.peer = m.peer /\ g.offer = m.offer /\ g.to = m.to
      /\ g.incoming = m.incoming /\ g.answers = m.answers /\ g.remote = m.remote
      /\ (g.pc = "none" <=> m.pc = "none")
  BY <1>1, EndedFacts
<1>3. g.early = {} /\ g.pending = {} /\ g.status = "none"
  <2>1. PICK c \in ModalType : c = Cleaned(m)
    BY CleanedModal
  <2>2. g = [c EXCEPT !.status = "none", !.listening = FALSE, !.early = {}, !.pending = {}]
    BY <1>1, <2>1 DEF Gone
  <2> QED BY <2>2 DEF ModalType
<1>4. r = [g EXCEPT !.step = "none", !.pc = IF @ = "none" THEN "none" ELSE "closed"]
  BY <1>1 DEF Reloaded
<1>5. /\ r \in ModalType /\ r.closed = g.closed /\ r.step = "none" /\ r.status = g.status
      /\ r.user = g.user /\ r.peer = g.peer /\ r.offer = g.offer /\ r.to = g.to
      /\ r.incoming = g.incoming /\ r.answers = g.answers /\ r.remote = g.remote
      /\ r.early = g.early /\ r.pending = g.pending
      /\ r.pc \in {"none", "closed"} /\ (r.pc = "none" <=> g.pc = "none")
  BY <1>2, <1>4, StoppedFacts
<1> QED BY <1>2, <1>3, <1>5

LEMMA ReloadKept == ASSUME CallsInv, NEW u \in Members, Reload(u) PROVE CallsInv'
<1>0. /\ call \in [Modals -> ModalType] /\ timers \in [Members -> Nat]
      /\ inbox \in [Members -> Seq(CallEventType)]
      /\ shown \in [Members -> Modals \cup {0}] /\ reloads \in Nat /\ asked \subseteq CallOffers
      /\ CallOffers \subseteq Modals /\ 0 \notin Modals /\ Nobody \notin Members
      /\ \A n \in CallOffers : MaxCalls + n \in Modals
  BY CallsAssumption DEF CallsInv, CallsTypeOK, CallOffers, Modals
<1>1. /\ call' = [j \in Modals |-> IF call[j].user = u THEN Reloaded(call[j]) ELSE call[j]]
      /\ shown' = [shown EXCEPT ![u] = 0] /\ inbox' = [inbox EXCEPT ![u] = <<>>]
      /\ timers' = [timers EXCEPT ![u] = 0] /\ reloads' = reloads + 1
      /\ UNCHANGED <<placed, asked>>
  BY DEF Reload, Reloaded
<1>2. ASSUME NEW j \in Modals
      PROVE  /\ call[j].user # u => call'[j] = call[j]
             /\ call[j].user = u => call'[j] = Reloaded(call[j])
  BY <1>1
<1>3. ASSUME NEW j \in Modals, call[j].user = u
      PROVE  /\ call'[j] \in ModalType /\ call'[j].closed /\ call'[j].step = "none"
             /\ call'[j].status = "none" /\ call'[j].user = u
             /\ call'[j].peer = call[j].peer /\ call'[j].offer = call[j].offer
             /\ call'[j].to = call[j].to /\ call'[j].incoming = call[j].incoming
             /\ call'[j].answers = call[j].answers /\ call'[j].remote = call[j].remote
             /\ call'[j].early = {} /\ call'[j].pending = {}
             /\ call'[j].pc \in {"none", "closed"} /\ (call'[j].pc = "none" <=> call[j].pc = "none")
  <2>1. PICK r : r = call'[j]
    OBVIOUS
  <2>2. r = Reloaded(call[j]) /\ call[j] \in ModalType
    BY <1>0, <1>2, <1>3, <2>1
  <2> QED BY <1>3, <2>1, <2>2, ReloadedFacts
<1>4. call' \in [Modals -> ModalType]
  <2>1. \A j \in Modals : call'[j] \in ModalType
    BY <1>0, <1>2, <1>3
  <2> QED BY <1>1, <2>1
<1>5. inbox' \in [Members -> Seq(CallEventType)] /\ inbox'[u] = <<>>
      /\ \A v \in Members \ {u} : inbox'[v] = inbox[v]
  <2>1. <<>> \in Seq(CallEventType)
    OBVIOUS
  <2> QED BY <1>0, <1>1, <2>1
<1>6. CallsTypeOK'
  BY <1>0, <1>1, <1>4, <1>5 DEF CallsInv, CallsTypeOK
<1>7. \A n \in CallOffers : Mounted(n)' => Mounted(n) /\ call[n].user # u
  <2> SUFFICES ASSUME NEW n \in CallOffers, Mounted(n)' PROVE Mounted(n) /\ call[n].user # u
    OBVIOUS
  <2>1. call[n].user # u
    BY <1>0, <1>1, <1>3 DEF Mounted
  <2>2. call'[n] = call[n]
    BY <1>0, <1>2, <2>1
  <2>3. call[n].user \in Members
    BY <1>0, <2>2 DEF Mounted, ModalType
  <2> QED BY <1>0, <1>1, <2>1, <2>2, <2>3 DEF Mounted
<1>8. ASSUME NEW n \in CallOffers, Begun(n) PROVE Begun(n)'
  <2>1. CASE call[n].user = u
    BY <1>0, <1>1, <1>3, <1>7, <1>8, <2>1 DEF Begun
  <2>2. CASE call[n].user # u
    BY <1>0, <1>1, <1>2, <1>7, <1>8, <2>2 DEF Begun
  <2> QED BY <2>1, <2>2
<1>9. ASSUME NEW j \in Modals, CandidateOK(j) PROVE CandidateOK(j)'
  <2>1. CASE call[j].user = u
    BY <1>3, <1>9, <2>1 DEF CandidateOK, Settled
  <2>2. CASE call[j].user # u
    BY <1>2, <1>9, <2>2 DEF CandidateOK, Settled
  <2> QED BY <2>1, <2>2
<1>10. Stable
  <2>1. ASSUME NEW j \in Modals
        PROVE  call'[j].user = call[j].user /\ call'[j].answers = call[j].answers
               /\ call'[j].to = call[j].to
    BY <1>2, <1>3
  <2> QED BY <1>8, <1>9, <2>1 DEF Stable
<1>11. ModalsOK'
  <2> SUFFICES ASSUME NEW j \in Modals
               PROVE  /\ Shape(j, call'[j]) /\ Refers(call[j])' /\ Drained(call'[j])
                      /\ Answered(j, call[j])' /\ \A c \in Queue(call'[j]) : CandidateOK(c)'
    BY DEF ModalsOK
  <2>1. PICK r \in ModalType : r = call'[j]
    BY <1>4
  <2>2. Shape(j, call[j]) /\ Refers(call[j]) /\ Drained(call[j]) /\ Answered(j, call[j])
        /\ \A c \in Queue(call[j]) : CandidateOK(c)
    BY DEF CallsInv, ModalsOK
  <2>3. Shape(j, r) /\ Refers(r) /\ Drained(r) /\ Answered(j, r)
    <3>1. CASE call[j].user = u
      <4>1. Shape(j, r)
        BY <1>0, <1>3, <2>1, <2>2, <3>1 DEF Shape
      <4>2. Refers(r) /\ Drained(r) /\ Answered(j, r)
        BY <1>3, <2>1, <2>2, <3>1 DEF Refers, Drained, Answered
      <4> QED BY <4>1, <4>2
    <3>2. CASE call[j].user # u
      BY <1>2, <2>1, <2>2, <3>2
    <3> QED BY <3>1, <3>2
  <2>4. \A c \in Queue(r) : CandidateOK(c)
    <3>1. CASE call[j].user = u
      BY <1>3, <2>1, <3>1 DEF Queue
    <3>2. CASE call[j].user # u
      BY <1>2, <2>1, <2>2, <3>2
    <3> QED BY <3>1, <3>2
  <2>5. Queue(r) \subseteq Modals
    BY DEF Queue, ModalType
  <2>6. Refers(r)' /\ Answered(j, r)'
    BY <1>10, <2>3, RefersStable, AnsweredStable DEF CallsInv
  <2>7. Refers(call[j])' /\ Answered(j, call[j])'
    BY <2>1, <2>6 DEF Refers, Answered
  <2> QED BY <1>9, <2>1, <2>3, <2>4, <2>5, <2>7
<1>12. ShownOK'
  <2> SUFFICES ASSUME NEW v \in Members, shown'[v] # 0 PROVE call'[shown'[v]].user = v
    BY DEF ShownOK
  <2>1. v # u /\ shown'[v] = shown[v] /\ shown[v] \in Modals /\ call[shown[v]].user = v
    BY <1>0, <1>1 DEF CallsInv, ShownOK
  <2> QED BY <1>2, <2>1
<1>13. \A j \in Modals : call'[j] = NoModal <=> call[j] = NoModal
  <2>1. NoModal.user = Nobody
    BY DEF NoModal
  <2> QED BY <1>0, <1>2, <1>3, <2>1
<1>14. OnceOK'
  <2> SUFFICES ASSUME NEW n \in CallOffers
               PROVE  /\ n > placed' => call'[n] = NoModal
                      /\ n \in asked' => Begun(n)' /\ call'[MaxCalls + n] = NoModal
                      /\ call'[MaxCalls + n] # NoModal => Begun(n)'
                      /\ Mounted(n)' /\ ~call'[n].listening => call'[n].step = "none"
    BY DEF OnceOK
  <2>1. /\ n > placed => call[n] = NoModal
        /\ n \in asked => Begun(n) /\ call[MaxCalls + n] = NoModal
        /\ call[MaxCalls + n] # NoModal => Begun(n)
        /\ Mounted(n) /\ ~call[n].listening => call[n].step = "none"
    BY DEF CallsInv, OnceOK
  <2> QED BY <1>0, <1>1, <1>2, <1>7, <1>8, <1>13, <2>1
<1>15. \A i, j \in Modals : j \in Queue(call'[i]) => j \in Queue(call[i])
  BY <1>2, <1>3 DEF Queue
<1>16. Fewer
  <2>1. [v \in Members |-> 0] \in [Members -> {0, 1}]
        /\ \A v \in Members : [w \in Members |-> 0][v] = 0
    OBVIOUS
  <2>2. ASSUME NEW v \in Members, NEW k \in Positions(v)'
        PROVE  k \in Nat /\ k + 0 \in Positions(v) /\ inbox'[v][k] = inbox[v][k + 0]
    <3>1. v # u
      BY <1>5, <2>2 DEF Positions
    <3> QED BY <1>5, <2>2, <3>1 DEF Positions
  <2> QED BY <2>1, <2>2 DEF Fewer
<1>17. EventsOK'
  BY <1>0, <1>1, <1>10, <1>13, <1>15, <1>16, EventsKept
<1> QED BY <1>6, <1>11, <1>12, <1>14, <1>17 DEF CallsInv

-----------------------------------------------------------------------------
LEMMA CallsInvInit == CallInit => CallsInv
<1> SUFFICES ASSUME CallInit PROVE CallsInv
  OBVIOUS
<1>0. /\ MaxCalls \in Nat /\ CallOffers = 1..MaxCalls /\ Modals = 1..(2 * MaxCalls)
      /\ CallOffers \subseteq Modals /\ 0 \notin Modals
      /\ \A n \in CallOffers : MaxCalls + n \in Modals
  BY CallsAssumption DEF CallOffers, Modals
<1>1. /\ call = [i \in Modals |-> NoModal] /\ shown = [u \in Members |-> 0]
      /\ placed = 0 /\ asked = {} /\ inbox = [u \in Members |-> <<>>]
      /\ timers = [u \in Members |-> 0] /\ reloads = 0
  BY DEF CallInit
<1>2. /\ NoModal \in ModalType /\ NoModal.status = "none" /\ NoModal.answers = 0
      /\ NoModal.step = "none" /\ NoModal.pc = "none" /\ NoModal.remote = 0
      /\ NoModal.offer = 0 /\ ~NoModal.incoming /\ NoModal.early = {} /\ NoModal.pending = {}
  BY DEF NoModal, ModalType
<1>3. CallsTypeOK
  <2>1. <<>> \in Seq(CallEventType)
    OBVIOUS
  <2> QED BY <1>0, <1>1, <1>2, <2>1 DEF CallsTypeOK
<1>4. ModalsOK
  <2> SUFFICES ASSUME NEW i \in Modals
               PROVE  /\ Shape(i, call[i]) /\ Refers(call[i]) /\ Drained(call[i])
                      /\ Answered(i, call[i]) /\ \A c \in Queue(call[i]) : CandidateOK(c)
    BY DEF ModalsOK
  <2>1. PICK m : m = call[i] /\ m = NoModal
    BY <1>1
  <2>2. Shape(i, m) /\ Refers(m) /\ Drained(m) /\ Answered(i, m) /\ Queue(m) = {}
    BY <1>2, <2>1 DEF Shape, Refers, Drained, Answered, Queue
  <2> QED BY <2>1, <2>2
<1>5. ShownOK
  BY <1>1 DEF ShownOK
<1>6. OnceOK
  BY <1>0, <1>1, <1>2 DEF OnceOK
<1>7. EventsOK
  BY <1>1 DEF EventsOK, Positions
<1> QED BY <1>3, <1>4, <1>5, <1>6, <1>7 DEF CallsInv

LEMMA CallsInvStep == CallsInv /\ [CallNext]_callVars => CallsInv'
<1> SUFFICES ASSUME CallsInv, [CallNext]_callVars PROVE CallsInv'
  OBVIOUS
<1>1. CASE \E u, v \in Members : StartCall(u, v)
  BY <1>1, StartKept
<1>2. ASSUME NEW i \in Modals,
             \/ Listen(i) \/ GetMedia(i) \/ MediaRefused(i)
             \/ SendOffer(i) \/ RelayCall(i) \/ SendCandidate(i)
             \/ Accept(i) \/ SetOffer(i) \/ SendAnswer(i) \/ Reject(i)
             \/ HangUp(i) \/ ConnectionFails(i)
      PROVE  CallsInv'
  <2>1. CASE MediaRefused(i)
    <3>1. call[i].step # "none" /\ MediaError(i)
      BY <2>1 DEF MediaRefused
    <3> QED BY <3>1, MediaErrorKept
  <2> QED BY <1>2, <2>1, ListenKept, GetMediaKept, OfferKept, RelayKept, SendCandidateKept,
             AcceptKept, SetOfferKept, AnswerKept, RejectKept, HangUpKept
<1>3. ASSUME NEW u \in Members, Deliver(u) PROVE CallsInv'
  <2>1. inbox[u] # <<>> /\ Pop(u) /\ UNCHANGED <<placed, asked, reloads>>
    BY <1>3 DEF Deliver
  <2>2. PICK e \in CallEventType : e = Head(inbox[u])
    BY <2>1, PopFacts DEF CallsInv
  <2>3. e.of \in Modals /\ e = CallEvent(e.type, e.of)
    BY DEF CallEventType, CallEvent
  <2>4. CASE e.type = "incoming-call" /\ OnIncomingCall(u, e.of)
    BY <2>1, <2>2, <2>3, <2>4, RingKept
  <2>5. CASE e.type = "call-answered" /\ OnAnswered(u, e.of)
    BY <2>1, <2>2, <2>3, <2>5, AnsweredKept
  <2>6. CASE e.type = "ice-candidate" /\ OnIce(u, e.of)
    BY <2>1, <2>2, <2>3, <2>6, CandidateKept
  <2>7. CASE OnClosed(u)
    BY <2>1, <2>7, ClosedKept
  <2> QED BY <1>3, <2>2, <2>4, <2>5, <2>6, <2>7 DEF Deliver
<1>4. ASSUME NEW u \in Members, TimerFires(u) \/ Reload(u) PROVE CallsInv'
  BY <1>4, TimerKept, ReloadKept
<1>5. CASE UNCHANGED callVars
  <2>1. UNCHANGED <<call, shown, placed, asked, inbox, timers, reloads>>
    BY <1>5 DEF callVars
  <2>2. Quiet /\ Fewer
    BY <2>1, SameInbox DEF Quiet, CallsInv, CallsTypeOK
  <2> QED BY <2>1, <2>2, NothingRewritten
<1> QED BY <1>1, <1>2, <1>3, <1>4, <1>5 DEF CallNext

LEMMA CallsInvariant == CallSpec => []CallsInv
BY CallsInvInit, CallsInvStep, PTL DEF CallSpec

(* Modals, connections and events keep the shapes the components declare,  *)
(* in every run of the calls of any members.                               *)
THEOREM CallsTypeCorrect == CallSpec => []CallsTypeOK
<1>1. CallsInv => CallsTypeOK
  BY DEF CallsInv
<1> QED BY <1>1, CallsInvariant, PTL

(* "Candidates that arrive before acceptIncomingCall creates the           *)
(* RTCPeerConnection" do not stay in a queue: whatever the order in which  *)
(* clicks, media, descriptions and candidates come, a connection that has  *)
(* the description of its other end holds back no candidate of that end.   *)
THEOREM CandidatesAreAdded == CallSpec => []NoCandidateWaits
<1>1. CallsInv => NoCandidateWaits
  BY DEF CallsInv, ModalsOK, Drained, Queue, NoCandidateWaits
<1> QED BY <1>1, CallsInvariant, PTL

(* The answer that a caller's connection takes is that of a member who     *)
(* accepted an offer of that caller, whose plan includes calls: however    *)
(* late the plan is read, the answer comes, or another call was placed.    *)
THEOREM AnswersComeFromTheCalled == CallSpec => []AnswererWasCalled
<1>1. CallsInv => AnswererWasCalled
  <2>1. CallOffers \subseteq Modals
    BY CallsAssumption DEF CallOffers, Modals
  <2> QED BY <2>1 DEF CallsInv, ModalsOK, Answered, AnswererWasCalled
<1> QED BY <1>1, CallsInvariant, PTL
=============================================================================
