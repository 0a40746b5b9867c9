----------------------------- MODULE VideoCalls -----------------------------
(***************************************************************************)
(* Audio and video calls: the signalling relays of messaging.gateway.ts    *)
(* and, in each member's browser, the call modal VideoCallModal.tsx with   *)
(* its hosts GlobalSocketContext, GlobalCallHandler and MessagesPage.      *)
(*                                                                         *)
(* A member has one tab and one socket.  The modal covers the page, so a   *)
(* member has at most one, whether Messages or the global handler shows    *)
(* it.  Call n places offer n; the modal that first shows it to the callee *)
(* is MaxCalls + n.  A modal's asynchronous handlers go on after the modal *)
(* is unmounted, so its record stays.  Descriptions and candidates are     *)
(* named by the modal whose peer connection made them; one candidate       *)
(* stands for all those of a connection.                                   *)
(***************************************************************************)
EXTENDS Naturals, Sequences

CONSTANTS
  Members,        \* users that are logged in
  Nobody,         \* no user
  Contacts,       \* pairs of members of which the first may call the second
  Subscribers,    \* members whose plan includes calls (canAccessVideoCall)
  MaxCalls,       \* bound: calls placed
  Trickling,      \* bound: modals whose connection gathers a candidate
  MaxTimers,      \* bound: pending timeouts of a member's modal when they hang up
  MaxReloads      \* bound: pages that are reloaded

ASSUME CallsAssumption ==
  /\ Nobody \notin Members /\ Subscribers \subseteq Members /\ Contacts \subseteq Members \X Members
  /\ {MaxCalls, MaxTimers, MaxReloads} \subseteq Nat /\ Trickling \subseteq 1..(2 * MaxCalls)

VARIABLES
  call,      \* call[i]: modal i and its peer connection
  shown,     \* shown[u]: the modal mounted in the page of u, 0 if none
  placed,    \* calls placed so far
  asked,     \* offers whose caller's plan the gateway is reading
  inbox,     \* inbox[u]: events on their way to the socket of u, oldest first
  timers,    \* timers[u]: timeouts that will call onClose in the page of u
  reloads

callVars == <<call, shown, placed, asked, inbox, timers, reloads>>

CallOffers == 1..MaxCalls
Modals == 1..(2 * MaxCalls)

NoModal ==
  [user |-> Nobody, peer |-> Nobody, offer |-> 0, incoming |-> FALSE, status |-> "none",
   listening |-> FALSE, closed |-> FALSE, step |-> "none", pc |-> "none",
   to |-> Nobody, answers |-> 0, remote |-> 0, sent |-> FALSE, early |-> {}, pending |-> {}]

CallInit ==
  /\ call = [i \in Modals |-> NoModal]
  /\ shown = [u \in Members |-> 0]
  /\ placed = 0 /\ asked = {}
  /\ inbox = [u \in Members |-> <<>>]
  /\ timers = [u \in Members |-> 0]
  /\ reloads = 0

Mounted(i) == call[i].user # Nobody /\ shown[call[i].user] = i

CallEvent(type, i) == [type |-> type, of |-> i]

(* server.to(u).emit: the event reaches the socket in the room of u.       *)
Emit(u, event) == inbox' = [inbox EXCEPT ![u] = Append(@, event)]

(* cleanup, behind closedRef: a second call of it does nothing.            *)
Cleaned(m) ==
  IF m.closed THEN m
  ELSE [m EXCEPT !.closed = TRUE, !.pc = IF @ = "none" THEN "none" ELSE "closed"]

(* The modal says that the call is over; or it goes, with its queues.      *)
Over(m) == [Cleaned(m) EXCEPT !.status = "over"]
Gone(m, status) ==
  [Cleaned(m) EXCEPT !.status = status, !.listening = FALSE, !.early = {}, !.pending = {}]

CloseLater(u) == timers' = [timers EXCEPT ![u] = @ + 1]

(* The catch clauses: the modal shows an error and closes after a while.   *)
MediaError(i) ==
  /\ call' = [call EXCEPT ![i].step = "none", ![i].status = "over"]
  /\ CloseLater(call[i].user)
  /\ UNCHANGED <<shown, placed, asked, inbox, reloads>>

-----------------------------------------------------------------------------
(* The caller                                                              *)

(* startCall.  The limits that the page looks at may be out of date, so    *)
(* any member may call whoever they have a conversation with.              *)
StartCall(u, v) ==
  /\ <<u, v>> \in Contacts /\ shown[u] = 0 /\ placed < MaxCalls
  /\ placed' = placed + 1
  /\ call' = [call EXCEPT ![placed'] =
                [NoModal EXCEPT !.user = u, !.peer = v, !.status = "calling"]]
  /\ shown' = [shown EXCEPT ![u] = placed']
  /\ UNCHANGED <<asked, inbox, timers, reloads>>

(* The effect that runs after the first render: listeners are registered,  *)
(* and an outgoing call asks for the microphone.                           *)
Listen(i) ==
  /\ Mounted(i) /\ ~call[i].listening
  /\ call' = [call EXCEPT ![i] =
                IF i \in CallOffers
                THEN [@ EXCEPT !.listening = TRUE, !.step = "media", !.to = call[i].peer]
                ELSE [@ EXCEPT !.listening = TRUE]]
  /\ UNCHANGED <<shown, placed, asked, inbox, timers, reloads>>

(* getMedia succeeds and the connection is built, closed modal or not.     *)
GetMedia(i) ==
  /\ call[i].step = "media"
  /\ call' = [call EXCEPT ![i].pc = "new", ![i].step = IF i \in CallOffers THEN "offer" ELSE "describe"]
  /\ UNCHANGED <<shown, placed, asked, inbox, timers, reloads>>

MediaRefused(i) == call[i].step = "media" /\ MediaError(i)

(* createOffer, setLocalDescription and video-call-request.                *)
SendOffer(i) ==
  /\ call[i].step = "offer"
  /\ IF call[i].pc = "closed" THEN MediaError(i)
     ELSE /\ call' = [call EXCEPT ![i].pc = "offered", ![i].step = "none"]
          /\ asked' = asked \cup {i}
          /\ UNCHANGED <<shown, placed, inbox, timers, reloads>>

MayCall(u) == u \in Subscribers

(* handleVideoCallRequest, once the caller's plan is read.                 *)
RelayCall(i) ==
  /\ i \in asked
  /\ asked' = asked \ {i}
  /\ IF MayCall(call[i].user)
     THEN Emit(call[i].to, CallEvent("incoming-call", i))
     ELSE Emit(call[i].user, CallEvent("call-rejected", i))
  /\ UNCHANGED <<call, shown, placed, timers, reloads>>

(* onicecandidate and handleIceCandidate, which relays at once.            *)
SendCandidate(i) ==
  /\ i \in Trickling /\ call[i].pc \in {"offered", "stable"} /\ ~call[i].sent
  /\ call' = [call EXCEPT ![i].sent = TRUE]
  /\ Emit(call[i].to, CallEvent("ice-candidate", i))
  /\ UNCHANGED <<shown, placed, asked, timers, reloads>>

-----------------------------------------------------------------------------
(* The callee                                                              *)

Ringing(i) == Mounted(i) /\ call[i].status = "ringing" /\ call[i].incoming

(* acceptIncomingCall; a second click on the button is left out.           *)
Accept(i) ==
  /\ Ringing(i) /\ call[i].step = "none" /\ call[i].answers = 0
  /\ call' = [call EXCEPT ![i].step = "media", ![i].to = call[i].peer,
                          ![i].answers = call[i].offer]
  /\ UNCHANGED <<shown, placed, asked, inbox, timers, reloads>>

(* The candidates that wait for the offer.  The mutant forgets those that  *)
(* came before the peer connection was there.                              *)
OnlyPending(m) == m.pending
Queued(m) == m.early \cup m.pending

(* setRemoteDescription with the offer, and the queues are emptied.  The    *)
(* tracks of the offer may show the call as connected at once.             *)
SetOffer(i) ==
  /\ call[i].step = "describe"
  /\ IF call[i].pc = "closed" THEN MediaError(i)
     ELSE /\ \E status \in {call[i].status, "calling"} :
               call' = [call EXCEPT ![i].remote = call[i].answers, ![i].step = "answer",
                                    ![i].early = @ \ Queued(call[i]),
                                    ![i].pending = @ \ Queued(call[i]),
                                    ![i].status = IF @ = "ringing" THEN status ELSE @]
          /\ UNCHANGED <<shown, placed, asked, inbox, timers, reloads>>

(* Mutant: handleVideoCallAnswer broadcasts, as server.emit does.          *)
Broadcast(u, event) == inbox' = [v \in Members |-> Append(inbox[v], event)]

EmitAnswer(u, event) == Emit(u, event)

SendAnswer(i) ==
  /\ call[i].step = "answer"
  /\ IF call[i].pc = "closed" THEN MediaError(i)
     ELSE /\ call' = [call EXCEPT ![i].pc = "stable", ![i].step = "none",
                                  ![i].status = IF @ = "ringing" THEN "calling" ELSE @]
          /\ EmitAnswer(call[i].to, CallEvent("call-answered", i))
          /\ UNCHANGED <<shown, placed, asked, timers, reloads>>

(* rejectCall.  The mutant only closes the modal, as declineGlobalCall.    *)
RejectQuietly(i) == UNCHANGED inbox
TellRejected(i) == Emit(call[i].peer, CallEvent("call-rejected", i))

Reject(i) ==
  /\ Ringing(i)
  /\ TellRejected(i)
  /\ call' = [call EXCEPT ![i] = Gone(@, "refused")]
  /\ shown' = [shown EXCEPT ![call[i].user] = 0]
  /\ UNCHANGED <<placed, asked, timers, reloads>>

-----------------------------------------------------------------------------
(* Either side                                                             *)

(* endCall of modal i, whose record was m, told to v.                      *)
EndCall(i, m, v) ==
  /\ Emit(v, CallEvent("call-ended", i))
  /\ call' = [call EXCEPT ![i] = Over(m)]
  /\ CloseLater(m.user)
  /\ UNCHANGED <<shown, placed, asked, reloads>>

HangUp(i) ==
  /\ Mounted(i) /\ ~Ringing(i) /\ timers[call[i].user] < MaxTimers
  /\ EndCall(i, call[i], call[i].peer)

(* The connection fails, once, because that of the other side is closed.   *)
PeerGone(i) ==
  call[i].pc = "stable" /\ call[i].remote # 0 /\ call[call[i].remote].pc = "closed"

(* Mutant: the failure is shown, and the call goes on.                     *)
FailureShown(i) ==
  /\ PeerGone(i)
  /\ call' = [call EXCEPT ![i].pc = "failed", ![i].status = "over"]
  /\ UNCHANGED <<shown, placed, asked, inbox, timers, reloads>>

ConnectionFails(i) ==
  PeerGone(i) /\ EndCall(i, [call[i] EXCEPT !.pc = "failed"], call[i].to)

TimerDue(u) == timers[u] > 0

(* onClose, after a timeout: whatever modal is shown by then goes.         *)
TimerFires(u) ==
  /\ TimerDue(u)
  /\ timers' = [timers EXCEPT ![u] = @ - 1]
  /\ shown' = [shown EXCEPT ![u] = 0]
  /\ call' = IF shown[u] = 0 THEN call ELSE [call EXCEPT ![shown[u]] = Gone(@, "none")]
  /\ UNCHANGED <<placed, asked, inbox, reloads>>

-----------------------------------------------------------------------------
(* Events at the socket of u                                               *)

Pop(u) == inbox' = [inbox EXCEPT ![u] = Tail(@)]

(* setPendingCall or setActiveCall.  A modal that is already there is not  *)
(* replaced: it has no key, only its properties change.                    *)
OnIncomingCall(u, n) ==
  LET i == IF shown[u] = 0 THEN MaxCalls + n ELSE shown[u] IN
  /\ call' = [call EXCEPT ![i] =
                [(IF shown[u] = 0 THEN [NoModal EXCEPT !.user = u, !.status = "ringing"] ELSE @)
                 EXCEPT !.peer = call[n].user, !.offer = n, !.incoming = TRUE]]
  /\ shown' = [shown EXCEPT ![u] = i]
  /\ UNCHANGED timers

(* The effect on remoteAnswer: only a connection that waits for an answer  *)
(* takes it, any other modal drops it.                                     *)
OnAnswered(u, j) ==
  LET i == shown[u] IN
  /\ call' = IF i # 0 /\ call[i].pc = "offered"
             THEN [call EXCEPT ![i].remote = j, ![i].pc = "stable", ![i].pending = {}]
             ELSE call
  /\ UNCHANGED <<shown, timers>>

Listening(u) == shown[u] # 0 /\ call[shown[u]].listening

(* onRejected and onEnded: neither looks at which call is meant.           *)
OnClosed(u) ==
  IF Listening(u)
  THEN /\ call' = [call EXCEPT ![shown[u]] = Over(@)]
       /\ CloseLater(u)
       /\ UNCHANGED shown
  ELSE UNCHANGED <<call, shown, timers>>

(* onIce: without a connection, or without the description of its other    *)
(* end, the candidate waits; else it is added or, when closed, dropped.    *)
OnIce(u, c) ==
  LET i == shown[u] IN
  /\ call' = IF ~Listening(u) THEN call
             ELSE IF call[i].pc = "none" THEN [call EXCEPT ![i].early = @ \cup {c}]
             ELSE IF call[i].pc # "closed" /\ call[i].remote = 0
                  THEN [call EXCEPT ![i].pending = @ \cup {c}]
             ELSE call
  /\ UNCHANGED <<shown, timers>>

Deliver(u) ==
  /\ inbox[u] # <<>>
  /\ LET event == Head(inbox[u]) IN
       \/ event.type = "incoming-call" /\ OnIncomingCall(u, event.of)
       \/ event.type = "call-answered" /\ OnAnswered(u, event.of)
       \/ event.type \in {"call-rejected", "call-ended"} /\ OnClosed(u)
       \/ event.type = "ice-candidate" /\ OnIce(u, event.of)
  /\ Pop(u)
  /\ UNCHANGED <<placed, asked, reloads>>

(* The page is reloaded or loses its socket: what was on its way is lost,  *)
(* and nobody is told.                                                     *)
Reload(u) ==
  /\ reloads < MaxReloads
  /\ reloads' = reloads + 1
  /\ call' = [i \in Modals |->
                IF call[i].user = u
                THEN [Gone(call[i], "none") EXCEPT
                        !.step = "none", !.pc = IF @ = "none" THEN "none" ELSE "closed"]
                ELSE call[i]]
  /\ shown' = [shown EXCEPT ![u] = 0]
  /\ inbox' = [inbox EXCEPT ![u] = <<>>]
  /\ timers' = [timers EXCEPT ![u] = 0]
  /\ UNCHANGED <<placed, asked>>

-----------------------------------------------------------------------------
CallNext ==
  \/ \E u, v \in Members : StartCall(u, v)
  \/ \E i \in Modals :
       \/ Listen(i) \/ GetMedia(i) \/ MediaRefused(i)
       \/ SendOffer(i) \/ RelayCall(i) \/ SendCandidate(i)
       \/ Accept(i) \/ SetOffer(i) \/ SendAnswer(i) \/ Reject(i)
       \/ HangUp(i) \/ ConnectionFails(i)
  \/ \E u \in Members : Deliver(u) \/ TimerFires(u) \/ Reload(u)

CallSpec == CallInit /\ [][CallNext]_callVars

-----------------------------------------------------------------------------
ModalType ==
  [user : Members \cup {Nobody}, peer : Members \cup {Nobody}, offer : CallOffers \cup {0},
   incoming : BOOLEAN,
   status : {"none", "calling", "ringing", "over", "refused"},
   listening : BOOLEAN, closed : BOOLEAN,
   step : {"none", "media", "offer", "describe", "answer"},
   pc : {"none", "new", "offered", "stable", "failed", "closed"},
   to : Members \cup {Nobody}, answers : CallOffers \cup {0}, remote : Modals \cup {0},
   sent : BOOLEAN, early : SUBSET Modals, pending : SUBSET Modals]

CallEventType ==
  [type : {"incoming-call", "call-answered", "call-rejected", "call-ended", "ice-candidate"},
   of : Modals]

(* Modals, connections and events have the shapes the components declare.  *)
CallsTypeOK ==
  /\ call \in [Modals -> ModalType]
  /\ shown \in [Members -> Modals \cup {0}]
  /\ placed \in 0..MaxCalls /\ asked \subseteq CallOffers
  /\ inbox \in [Members -> Seq(CallEventType)]
  /\ timers \in [Members -> Nat] /\ reloads \in Nat

(* "Candidates that arrive before acceptIncomingCall creates the           *)
(* RTCPeerConnection" are not forgotten in a queue: once a connection has  *)
(* the description of its other end, no candidate of that end still waits. *)
NoCandidateWaits ==
  \A i \in Modals :
    call[i].remote # 0 /\ ~call[i].closed => call[i].remote \notin call[i].early \cup call[i].pending

(* Whoever answers was called: the answer that a caller's connection takes *)
(* comes from a member who accepted an offer of that caller; and "seul     *)
(* l'appelant doit avoir un plan qui inclut les appels".                   *)
AnswererWasCalled ==
  \A i \in CallOffers : call[i].remote # 0 =>
    LET j == call[i].remote IN
    /\ call[j].answers # 0
    /\ call[call[j].answers].user = call[i].user
    /\ call[i].user \in Subscribers

(* A member who refused a call, or whose plan has none, does not leave the *)
(* caller waiting: the modal of the refused offer closes.                  *)
RefusedCallEnds ==
  \A n \in CallOffers :
    /\ (\E i \in Modals : call[i].offer = n /\ call[i].status = "refused") ~> call[n].closed
    /\ (n \in asked /\ call[n].user \notin Subscribers) ~> call[n].closed

(* Nobody goes on talking to a connection that is gone: when one end of an *)
(* answered call hangs up or disappears, the other end closes.             *)
NobodyLeftTalking == \A i \in Modals : PeerGone(i) ~> call[i].closed

=============================================================================
