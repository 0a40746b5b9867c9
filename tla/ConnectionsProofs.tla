------------------------- MODULE ConnectionsProofs -------------------------
(***************************************************************************)
(* Proofs about Connections, for any users, handlers and bounds.  All rest *)
(* on one inductive invariant: what a handler carries from its first call  *)
(* is consented to by the time it creates the relations, and no request or *)
(* handler is about a single user.                                         *)
(***************************************************************************)
EXTENDS Connections, TLAPS

(* What a handler with record r carries from its first call.               *)
Carried(r, consents) ==
  /\ r.pc \in {"relation", "request", "create", "accept", "relate"} => r.from # r.to
  /\ r.pc \in {"accept", "relate"} => <<r.from, r.to>> \in consents

Handlers == h \in [Procs -> HandlerType] /\ \A p \in Procs : Carried(h[p], agreed)

ConnectionInv ==
  /\ TypeOK /\ Symmetric /\ ConnectedByConsent /\ Handlers
  /\ \A q \in requests : q.id <= created /\ q.from # q.to

LEMMA InitInv == Init => ConnectionInv
  BY DEF Init, ConnectionInv, Handlers, TypeOK, Keys, Symmetric, ConnectedByConsent, Carried,
     Idle, HandlerType, RequestType

-----------------------------------------------------------------------------
(* The handlers stay in order when one goes on with a record r that is.    *)
LEMMA GotoKeeps ==
  ASSUME Handlers, NEW p \in Procs, NEW r \in HandlerType, Goto(p, r),
         agreed \subseteq agreed', Carried(r, agreed')
  PROVE  Handlers'
<1>1. h' \in [Procs -> HandlerType] /\ h'[p] = r /\ \A q \in Procs \ {p} : h'[q] = h[q]
  BY DEF Goto, Handlers
<1>2. \A q \in Procs : Carried(h'[q], agreed')
  BY <1>1 DEF Carried, Handlers
<1> QED BY <1>1, <1>2 DEF Handlers

LEMMA ReturnKeeps ==
  ASSUME Handlers, NEW p \in Procs, Return(p), agreed \subseteq agreed'
  PROVE  Handlers'
<1>1. Idle \in HandlerType /\ Carried(Idle, agreed')
  BY DEF HandlerType, Idle, Carried
<1> QED BY <1>1, GotoKeeps DEF Return

(* A handler that runs carries two users and a number, and keeps them.     *)
LEMMA Running ==
  ASSUME Handlers, NEW p \in Procs, h[p].pc # "idle"
  PROVE  /\ h[p].from \in Users /\ h[p].to \in Users /\ h[p].id \in Nat
         /\ h[p] \in [pc : {"relation", "request", "create", "accept", "relate", "decline",
                            "remove"}, from : Users, to : Users, id : Nat]
  BY DEF Handlers, HandlerType, Idle

LEMMA ThenKeeps ==
  ASSUME Handlers, NEW p \in Procs, NEW pc \in {"request", "create", "relate"},
         h[p].pc \in {"relation", "request", "accept"}, pc = "relate" => h[p].pc = "accept",
         Then(p, pc), agreed' = agreed
  PROVE  Handlers'
<1> DEFINE r == [h[p] EXCEPT !.pc = pc]
<1>1. r \in HandlerType /\ r.pc = pc /\ r.from = h[p].from /\ r.to = h[p].to
  BY Running DEF HandlerType
<1>2. Carried(h[p], agreed)
  BY DEF Handlers
<1>3. Carried(r, agreed')
  BY <1>1, <1>2 DEF Carried
<1>4. Goto(p, r)
  BY DEF Then
<1> HIDE DEF r
<1> QED BY <1>1, <1>3, <1>4, GotoKeeps

(* A request to the API begins with two users, and with consent if it      *)
(* accepts.                                                                *)
LEMMA DoingKeeps ==
  ASSUME Handlers, NEW p \in Procs, NEW s \in Users, NEW r \in Users, NEW id \in Nat,
         NEW pc \in {"relation", "accept", "decline", "remove"},
         pc \in {"relation", "accept"} => s # r, pc = "accept" => <<s, r>> \in agreed',
         Goto(p, Doing(pc, s, r, id)), agreed \subseteq agreed'
  PROVE  Handlers'
<1>1. Doing(pc, s, r, id) \in HandlerType /\ Carried(Doing(pc, s, r, id), agreed')
  BY DEF HandlerType, Doing, Carried
<1> QED BY <1>1, GotoKeeps

-----------------------------------------------------------------------------
(* An action that takes requests and relations away, both rows of a        *)
(* connection at once, keeps the rest.                                     *)
LEMMA LessKeeps ==
  ASSUME ConnectionInv, Handlers', UNCHANGED <<created, fails>>, members' \subseteq members,
         requests' \subseteq requests, relations' \subseteq relations, Symmetric',
         agreed \subseteq agreed', agreed' \subseteq Users \X Users
  PROVE  ConnectionInv'
<1>1. TypeOK'
  BY DEF ConnectionInv, TypeOK, Keys, Handlers
<1>2. ConnectedByConsent'
  BY DEF ConnectionInv, ConnectedByConsent
<1> QED BY <1>1, <1>2 DEF ConnectionInv

LEMMA SameRelations ==
  ASSUME ConnectionInv, UNCHANGED relations
  PROVE  Symmetric'
  BY DEF ConnectionInv, Symmetric

LEMMA StartInv ==
  ASSUME ConnectionInv, NEW p \in Procs, Start(p)
  PROVE  ConnectionInv'
<1>0. Handlers /\ agreed \subseteq Users \X Users
  BY DEF ConnectionInv, TypeOK
<1>1. ASSUME NEW s \in Users, NEW r \in Users, SendRequest(p, s, r) PROVE ConnectionInv'
  <2>1. Handlers'
    BY <1>0, <1>1, DoingKeeps DEF SendRequest
  <2> QED BY <1>0, <1>1, <2>1, LessKeeps, SameRelations DEF SendRequest, tables
<1>2. ASSUME NEW s \in Users, NEW r \in Users, RemoveConnection(p, s, r) PROVE ConnectionInv'
  <2>1. Handlers'
    BY <1>0, <1>2, DoingKeeps DEF RemoveConnection
  <2>2. relations' = relations \ {<<s, r>>, <<r, s>>}
    BY <1>2 DEF RemoveConnection, BothWays
  <2>3. Symmetric'
    <3> SUFFICES ASSUME NEW e \in relations'
                 PROVE  <<e[2], e[1]>> \in relations' /\ e[1] # e[2]
      BY DEF Symmetric
    <3>1. e \in relations /\ e = <<e[1], e[2]>> /\ e # <<s, r>> /\ e # <<r, s>>
      BY <2>2 DEF ConnectionInv, TypeOK
    <3>2. <<e[2], e[1]>> \in relations /\ e[1] # e[2]
      BY <3>1 DEF ConnectionInv, Symmetric
    <3>3. <<e[2], e[1]>> # <<s, r>> /\ <<e[2], e[1]>> # <<r, s>>
      BY <3>1
    <3> QED BY <2>2, <3>2, <3>3
  <2> QED BY <1>0, <1>2, <2>1, <2>2, <2>3, LessKeeps DEF RemoveConnection
<1>3. ASSUME NEW u \in Users, NEW q \in requests, AcceptRequest(p, u, q) PROVE ConnectionInv'
  <2>1. q.from \in Users /\ q.to \in Users /\ q.id \in Nat /\ q.from # q.to
    BY DEF ConnectionInv, TypeOK, RequestType
  <2>2. agreed' = agreed \cup {<<q.from, q.to>>}
    BY <1>3 DEF AcceptRequest, MayAnswer
  <2>3. Handlers'
    BY <1>0, <1>3, <2>1, <2>2, DoingKeeps DEF AcceptRequest
  <2> QED BY <1>0, <1>3, <2>1, <2>2, <2>3, LessKeeps, SameRelations DEF AcceptRequest, tables
<1>4. ASSUME NEW u \in Users, NEW q \in requests, DeclineRequest(p, u, q) PROVE ConnectionInv'
  <2>1. q.from \in Users /\ q.to \in Users /\ q.id \in Nat
    BY DEF ConnectionInv, TypeOK, RequestType
  <2>2. Handlers'
    BY <1>0, <1>4, <2>1, DoingKeeps DEF DeclineRequest
  <2> QED BY <1>0, <1>4, <2>2, LessKeeps, SameRelations DEF DeclineRequest, tables
<1> QED BY <1>1, <1>2, <1>3, <1>4 DEF Start

-----------------------------------------------------------------------------
LEMMA CreateInv ==
  ASSUME ConnectionInv, NEW p \in Procs, CreateRequest(p)
  PROVE  ConnectionInv'
<1>1. Handlers /\ agreed \subseteq Users \X Users /\ created \in Nat
  BY DEF ConnectionInv, TypeOK
<1>2. Handlers'
  BY <1>1, ReturnKeeps DEF CreateRequest
<1>3. CASE UNCHANGED <<requests, created>>
  BY <1>1, <1>2, <1>3, LessKeeps, SameRelations DEF CreateRequest
<1>4. CASE ~UNCHANGED <<requests, created>>
  <2> DEFINE new == [id |-> created + 1, from |-> h[p].from, to |-> h[p].to, status |-> "PENDING"]
  <2>1. /\ requests' = requests \cup {new} /\ created' = created + 1
        /\ SentBefore(h[p].from, h[p].to) = {}
    BY <1>4 DEF CreateRequest
  <2>2. h[p].from \in Users /\ h[p].to \in Users /\ h[p].from # h[p].to
    <3>1. h[p].pc = "create" /\ Carried(h[p], agreed)
      BY <1>1 DEF CreateRequest, Handlers
    <3> QED BY <1>1, <3>1, Running DEF Carried
  <2>3. new \in RequestType /\ new.from = h[p].from /\ new.to = h[p].to /\ new.id = created'
    BY <1>1, <2>1, <2>2 DEF RequestType
  <2> HIDE DEF new
  <2>4. \A q \in requests : /\ q \in RequestType /\ q.id \in Nat /\ q.id <= created
                            /\ ~(q.from = new.from /\ q.to = new.to) /\ q.from # q.to
    BY <2>1, <2>3 DEF ConnectionInv, TypeOK, RequestType, SentBefore
  <2>5. \A q \in requests : q.id # new.id /\ q.id <= created'
    BY <1>1, <2>1, <2>3, <2>4
  <2>6. Keys'
    BY <2>1, <2>4, <2>5 DEF Keys, ConnectionInv, TypeOK
  <2>7. \A q \in requests' : q \in RequestType /\ q.id <= created' /\ q.from # q.to
    BY <1>1, <2>1, <2>2, <2>3, <2>4, <2>5
  <2>8. TypeOK'
    BY <1>1, <1>2, <2>1, <2>6, <2>7 DEF CreateRequest, ConnectionInv, TypeOK, Handlers
  <2> QED BY <1>2, <2>7, <2>8 DEF CreateRequest, ConnectionInv, Symmetric, ConnectedByConsent
<1> QED BY <1>3, <1>4

LEMMA MarkInv ==
  ASSUME ConnectionInv, NEW p \in Procs, MarkAccepted(p)
  PROVE  ConnectionInv'
<1>1. Handlers /\ agreed \subseteq Users \X Users
  BY DEF ConnectionInv, TypeOK
<1>2. Handlers'
  BY <1>1, ReturnKeeps, ThenKeeps DEF MarkAccepted
<1>3. CASE UNCHANGED requests
  BY <1>1, <1>2, <1>3, LessKeeps, SameRelations DEF MarkAccepted
<1>4. CASE ~UNCHANGED requests
  <2>1. requests' = Accepted(h[p].id)
    BY <1>4 DEF MarkAccepted
  <2>2. ASSUME NEW a \in requests'
        PROVE  \E x \in requests : /\ a.id = x.id /\ a.from = x.from /\ a.to = x.to
                                   /\ a.id = h[p].id => a.status = "ACCEPTED"
                                   /\ a.id # h[p].id => a = x
                                   /\ a \in RequestType
    BY <2>1 DEF Accepted, Row, ConnectionInv, TypeOK, RequestType
  <2>3. Keys'
    <3> SUFFICES ASSUME NEW a \in requests', NEW b \in requests',
                        a.id = b.id \/ (a.from = b.from /\ a.to = b.to)
                 PROVE  a = b
      BY DEF Keys
    <3>1. PICK x \in requests : /\ a.id = x.id /\ a.from = x.from /\ a.to = x.to
                                /\ a.id = h[p].id => a.status = "ACCEPTED"
                                /\ a.id # h[p].id => a = x
                                /\ a \in RequestType
      BY <2>2
    <3>2. PICK y \in requests : /\ b.id = y.id /\ b.from = y.from /\ b.to = y.to
                                /\ b.id = h[p].id => b.status = "ACCEPTED"
                                /\ b.id # h[p].id => b = y
                                /\ b \in RequestType
      BY <2>2
    <3>3. x = y
      BY <3>1, <3>2 DEF Keys, ConnectionInv, TypeOK
    <3> QED BY <3>1, <3>2, <3>3 DEF RequestType
  <2>4. \A q \in requests' : q \in RequestType /\ q.id <= created' /\ q.from # q.to
    BY <2>2 DEF ConnectionInv, MarkAccepted
  <2>5. TypeOK'
    BY <1>1, <1>2, <2>3, <2>4 DEF MarkAccepted, ConnectionInv, TypeOK, Handlers
  <2> QED BY <1>2, <2>4, <2>5 DEF MarkAccepted, ConnectionInv, Symmetric, ConnectedByConsent
<1> QED BY <1>3, <1>4

LEMMA RelateInv ==
  ASSUME ConnectionInv, NEW p \in Procs, Relate(p)
  PROVE  /\ ConnectionInv'
         /\ <<h[p].from, h[p].to>> \in agreed
         /\ h[p].from \in Users /\ h[p].to \in Users
<1>1. Handlers /\ agreed \subseteq Users \X Users
  BY DEF ConnectionInv, TypeOK
<1>2. Handlers'
  BY <1>1, ReturnKeeps DEF Relate
<1>3. /\ h[p].from \in Users /\ h[p].to \in Users /\ h[p].from # h[p].to
      /\ <<h[p].from, h[p].to>> \in agreed
  <2>1. h[p].pc = "relate" /\ Carried(h[p], agreed)
    BY <1>1 DEF Relate, Handlers
  <2> QED BY <1>1, <2>1, Running DEF Carried
<1>4. \/ UNCHANGED relations
      \/ relations' = relations \cup {<<h[p].from, h[p].to>>, <<h[p].to, h[p].from>>}
  BY DEF Relate, NewRelations, BothWays
<1>5. relations' \subseteq Users \X Users
  BY <1>3, <1>4 DEF ConnectionInv, TypeOK
<1>6. Symmetric'
  <2> DEFINE s == h[p].from
             r == h[p].to
  <2> SUFFICES ASSUME NEW e \in relations'
               PROVE  <<e[2], e[1]>> \in relations' /\ e[1] # e[2]
    BY DEF Symmetric
  <2>1. s # r /\ (relations' = relations \/ relations' = relations \cup {<<s, r>>, <<r, s>>})
    BY <1>3, <1>4
  <2> HIDE DEF s, r
  <2>2. CASE e \in relations
    BY <2>1, <2>2 DEF ConnectionInv, Symmetric
  <2>3. CASE e \notin relations
    <3>1. e = <<s, r>> \/ e = <<r, s>>
      BY <2>1, <2>3
    <3> QED BY <2>1, <2>3, <3>1
  <2> QED BY <2>2, <2>3
<1>7. ConnectedByConsent'
  <2>1. UNCHANGED agreed
    BY DEF Relate
  <2> QED BY <1>3, <1>4, <2>1 DEF ConnectionInv, ConnectedByConsent, BothWays
<1>8. TypeOK'
  BY <1>2, <1>5 DEF Relate, ConnectionInv, TypeOK, Keys, Handlers
<1> QED BY <1>2, <1>3, <1>6, <1>7, <1>8 DEF Relate, ConnectionInv

LEMMA StepInv ==
  ASSUME ConnectionInv, NEW p \in Procs, Step(p)
  PROVE  ConnectionInv'
<1>0. Handlers /\ agreed \subseteq Users \X Users
  BY DEF ConnectionInv, TypeOK
<1>1. CASE FindRelation(p) \/ FindRequest(p)
  <2>1. Handlers'
    BY <1>0, <1>1, ThenKeeps, ReturnKeeps DEF FindRelation, FindRequest
  <2> QED BY <1>0, <1>1, <2>1, LessKeeps, SameRelations DEF FindRelation, FindRequest, tables
<1>2. CASE DeleteRequest(p) \/ RemoveRequests(p)
  <2>1. Handlers'
    BY <1>0, <1>2, ReturnKeeps DEF DeleteRequest, RemoveRequests
  <2> QED BY <1>0, <1>2, <2>1, LessKeeps, SameRelations DEF DeleteRequest, RemoveRequests
<1> QED BY <1>1, <1>2, CreateInv, MarkInv, RelateInv DEF Step

LEMMA NextInv == ConnectionInv /\ [Next]_vars => ConnectionInv'
<1> SUFFICES ASSUME ConnectionInv, [Next]_vars PROVE ConnectionInv'
  OBVIOUS
<1>0. Handlers /\ agreed \subseteq Users \X Users
  BY DEF ConnectionInv, TypeOK
<1>1. ASSUME NEW p \in Procs, Fail(p) PROVE ConnectionInv'
  <2>1. Handlers'
    BY <1>0, <1>1, ReturnKeeps DEF Fail
  <2>2. TypeOK'
    BY <1>1, <2>1 DEF Fail, ConnectionInv, TypeOK, Keys, tables, Handlers
  <2> QED BY <1>1, <2>1, <2>2 DEF Fail, ConnectionInv, Symmetric, ConnectedByConsent, tables
<1>2. ASSUME NEW u \in Users, DeleteUser(u) PROVE ConnectionInv'
  <2>1. Handlers'
    BY <1>0, <1>2 DEF DeleteUser, Handlers
  <2>2. Symmetric'
    BY <1>2 DEF DeleteUser, ConnectionInv, Symmetric
  <2> QED BY <1>0, <1>2, <2>1, <2>2, LessKeeps DEF DeleteUser
<1>3. CASE UNCHANGED vars
  BY <1>3 DEF vars, ConnectionInv, TypeOK, Keys, Symmetric, ConnectedByConsent, Handlers
<1> QED BY <1>1, <1>2, <1>3, StartInv, StepInv DEF Next

(* The inductive invariant holds in every state the program reaches.       *)
THEOREM Invariance == Spec => []ConnectionInv
  BY InitInv, NextInv, PTL DEF Spec

(* Rows keep the shape and the keys of the schema, however handlers        *)
(* overlap, fail or meet the deletion of a user.                           *)
THEOREM TypeCorrect == Spec => []TypeOK
<1>1. ConnectionInv => TypeOK
  BY DEF ConnectionInv
<1> QED BY <1>1, Invariance, PTL

(* A connection always has its two rows, and nobody is connected to        *)
(* oneself.                                                                *)
THEOREM AlwaysSymmetric == Spec => []Symmetric
<1>1. ConnectionInv => Symmetric
  BY DEF ConnectionInv
<1> QED BY <1>1, Invariance, PTL

(* Nobody is connected without an accepted invitation.                     *)
THEOREM NoConnectionWithoutConsent == Spec => []ConnectedByConsent
<1>1. ConnectionInv => ConnectedByConsent
  BY DEF ConnectionInv
<1> QED BY <1>1, Invariance, PTL

-----------------------------------------------------------------------------
(* Each step of a handler is a step of the graph or leaves it alone.       *)
LEMMA StartImplements ==
  ASSUME ConnectionInv, NEW p \in Procs, Start(p)
  PROVE  [Graph!GraphNext]_<<Pairs, agreed>>
<1>1. ASSUME NEW s \in Users, NEW r \in Users, RemoveConnection(p, s, r)
      PROVE  Graph!Disconnect(s, r)
  <2>1. relations' = relations \ {<<s, r>>, <<r, s>>} /\ UNCHANGED agreed
    BY <1>1 DEF RemoveConnection, BothWays
  <2>2. ASSUME NEW e \in relations
        PROVE  {e[1], e[2]} = {s, r} <=> e \in {<<s, r>>, <<r, s>>}
    <3>1. e = <<e[1], e[2]>>
      BY DEF ConnectionInv, TypeOK
    <3> QED BY <3>1
  <2>3. Pairs' = Pairs \ {{s, r}}
    BY <2>1, <2>2 DEF Pairs
  <2> QED BY <2>1, <2>3 DEF Graph!Disconnect
<1>2. ASSUME NEW u \in Users, NEW q \in requests, AcceptRequest(p, u, q)
      PROVE  q.from \in Users /\ Graph!Agree(q.from, u)
  <2>1. q.from \in Users /\ q.from # u
    BY <1>2 DEF AcceptRequest, MayAnswer, ConnectionInv, TypeOK, RequestType
  <2>2. agreed' = agreed \cup {<<q.from, u>>} /\ Pairs' = Pairs
    BY <1>2 DEF AcceptRequest, tables, Pairs
  <2> QED BY <2>1, <2>2 DEF Graph!Agree
<1>3. ASSUME NEW s \in Users, NEW r \in Users, SendRequest(p, s, r)
      PROVE  UNCHANGED <<Pairs, agreed>>
  BY <1>3 DEF SendRequest, tables, Pairs
<1>4. ASSUME NEW u \in Users, NEW q \in requests, DeclineRequest(p, u, q)
      PROVE  UNCHANGED <<Pairs, agreed>>
  BY <1>4 DEF DeclineRequest, tables, Pairs
<1> QED BY <1>1, <1>2, <1>3, <1>4 DEF Start, Graph!GraphNext

LEMMA StepImplements ==
  ASSUME ConnectionInv, NEW p \in Procs, Step(p)
  PROVE  [Graph!GraphNext]_<<Pairs, agreed>>
<1>1. CASE Relate(p)
  <2> DEFINE s == h[p].from
             r == h[p].to
  <2>1. s \in Users /\ r \in Users /\ <<s, r>> \in agreed
    BY <1>1, RelateInv
  <2>2. /\ UNCHANGED agreed
        /\ relations' = relations \/ relations' = relations \cup {<<s, r>>, <<r, s>>}
    BY <1>1 DEF Relate, NewRelations, BothWays
  <2> HIDE DEF s, r
  <2>3. Pairs' = Pairs \/ Pairs' = Pairs \cup {{s, r}}
    BY <2>2 DEF Pairs
  <2> QED BY <2>1, <2>2, <2>3 DEF Graph!GraphNext, Graph!Connect
<1>2. CASE ~Relate(p)
  <2>1. UNCHANGED <<relations, agreed>>
    BY <1>2 DEF Step, FindRelation, FindRequest, CreateRequest, MarkAccepted, DeleteRequest,
       RemoveRequests, tables
  <2> QED BY <2>1 DEF Pairs
<1> QED BY <1>1, <1>2

LEMMA NextImplements == ConnectionInv /\ [Next]_vars => [Graph!GraphNext]_<<Pairs, agreed>>
<1> SUFFICES ASSUME ConnectionInv, [Next]_vars PROVE [Graph!GraphNext]_<<Pairs, agreed>>
  OBVIOUS
<1>1. ASSUME NEW p \in Procs, Fail(p) PROVE UNCHANGED <<Pairs, agreed>>
  BY <1>1 DEF Fail, tables, Pairs
<1>2. ASSUME NEW u \in Users, DeleteUser(u) PROVE Graph!Leave(u)
  <2>1. relations' = {e \in relations : u \notin {e[1], e[2]}} /\ UNCHANGED agreed
    BY <1>2 DEF DeleteUser
  <2>2. Pairs' = {pair \in Pairs : u \notin pair}
    BY <2>1 DEF Pairs
  <2> QED BY <2>1, <2>2 DEF Graph!Leave
<1>3. CASE UNCHANGED vars
  BY <1>3 DEF vars, Pairs
<1> QED BY <1>1, <1>2, <1>3, StartImplements, StepImplements DEF Next, Graph!GraphNext

(* The handlers of the service, interleaved call by call and dying half    *)
(* way, implement the graph of connections.                                *)
THEOREM ImplementsGraph == Spec => GraphSpec
<1>1. Init => Graph!GraphInit
  BY DEF Init, Graph!GraphInit, Pairs
<1> QED BY <1>1, Invariance, NextImplements, PTL DEF Spec, GraphSpec, Graph!GraphSpec
=============================================================================
