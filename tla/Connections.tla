---------------------------- MODULE Connections ----------------------------
(***************************************************************************)
(* Connection requests between members and the relations they lead to:     *)
(* connections/connections.service.ts, and the deletion of a member by an  *)
(* administrator (admin.service.ts, deleteUser).                           *)
(*                                                                         *)
(* Requests to the API are handlers in slots p \in Procs that await one    *)
(* database call after the other; a call is one atomic step, and handlers  *)
(* of different slots interleave between calls.  A handler keeps in h[p]   *)
(* what it read.  It may die between two calls.                            *)
(***************************************************************************)
EXTENDS Naturals, FiniteSets

CONSTANTS
  Users,
  Limit,        \* Limit[u]: maxConnections of the plan of u, Unlimited for -1
  Unlimited,
  Procs,        \* handler slots
  Deletable,    \* users whom the administrator may delete
  MaxRequests,  \* bound: connection requests created
  MaxFails      \* bound: handlers that die half way

ASSUME ConnectionAssumption ==
  /\ IsFiniteSet(Users)
  /\ Limit \in [Users -> Nat \cup {Unlimited}] /\ Unlimited \notin Nat
  /\ Deletable \subseteq Users
  /\ MaxRequests \in Nat /\ MaxFails \in Nat

VARIABLES
  members,    \* the users that exist
  requests,   \* rows of ConnectionRequest
  relations,  \* rows of UserRelation: <<userId, friendId>>
  agreed,     \* history: <<s, r>> once r was let accept a request of s
  h,          \* h[p]: the handler running in slot p
  created,    \* requests created so far, which numbers them
  fails       \* handlers that died so far

vars == <<members, requests, relations, agreed, h, created, fails>>
tables == <<members, requests, relations>>

-----------------------------------------------------------------------------
Idle == [pc |-> "idle"]
Doing(pc, s, r, id) == [pc |-> pc, from |-> s, to |-> r, id |-> id]

Init ==
  /\ members = Users /\ requests = {} /\ relations = {} /\ agreed = {}
  /\ h = [p \in Procs |-> Idle]
  /\ created = 0 /\ fails = 0

Ready(p) == h[p] = Idle
Goto(p, r) == h' = [h EXCEPT ![p] = r]

(* The handler of p answers or throws: nothing tells these apart here.     *)
Return(p) == Goto(p, Idle)

(* Slot p goes from one call to the next.                                  *)
Then(p, pc) == Goto(p, [h[p] EXCEPT !.pc = pc])

Friends(u) == {v \in Users : <<u, v>> \in relations}
BothWays(s, r) == {<<s, r>>, <<r, s>>}
Between(s, r) == {q \in requests : <<q.from, q.to>> \in BothWays(s, r)}

-----------------------------------------------------------------------------
(* sendRequest                                                             *)

(* The sender's plan and the number of the sender's relations are read.    *)
SendRequest(p, s, r) ==
  /\ Ready(p) /\ s # r /\ s \in members
  /\ Limit[s] # Unlimited => Cardinality(Friends(s)) < Limit[s]
  /\ created < MaxRequests
  /\ Goto(p, Doing("relation", s, r, 0))
  /\ UNCHANGED <<tables, agreed, created, fails>>

FindRelation(p) ==
  LET s == h[p].from
      r == h[p].to
  IN
  /\ h[p].pc = "relation"
  /\ IF BothWays(s, r) \cap relations = {} THEN Then(p, "request") ELSE Return(p)
  /\ UNCHANGED <<tables, agreed, created, fails>>

FindRequest(p) ==
  /\ h[p].pc = "request"
  /\ IF Between(h[p].from, h[p].to) = {} THEN Then(p, "create") ELSE Return(p)
  /\ UNCHANGED <<tables, agreed, created, fails>>

SentBefore(s, r) == {q \in requests : q.from = s /\ q.to = r}

(* (senderId, receiverId) is unique, in this direction only, and both      *)
(* users must exist.                                                       *)
CreateRequest(p) ==
  LET s == h[p].from
      r == h[p].to
  IN
  /\ h[p].pc = "create"
  /\ Return(p)
  /\ IF {s, r} \subseteq members /\ SentBefore(s, r) = {}
     THEN /\ requests' = requests \cup
                         {[id |-> created + 1, from |-> s, to |-> r, status |-> "PENDING"]}
          /\ created' = created + 1
     ELSE UNCHANGED <<requests, created>>
  /\ UNCHANGED <<members, relations, agreed, fails>>

-----------------------------------------------------------------------------
(* acceptRequest                                                           *)

(* Mutant: whoever knows the request may accept it.                        *)
AnyMember(u, q) == TRUE

(* The request is addressed to u.                                          *)
MayAnswer(u, q) == q.to = u

AcceptRequest(p, u, q) ==
  /\ Ready(p) /\ u \in members /\ q \in requests
  /\ MayAnswer(u, q) /\ q.status # "ACCEPTED"
  /\ Goto(p, Doing("accept", q.from, q.to, q.id))
  /\ agreed' = agreed \cup {<<q.from, u>>}
  /\ UNCHANGED <<tables, created, fails>>

Row(id) == {q \in requests : q.id = id}

(* Mutant: the accepted request is inserted next to the pending one.       *)
Inserted(id) == requests \cup {[q EXCEPT !.status = "ACCEPTED"] : q \in Row(id)}

Accepted(id) ==
  (requests \ Row(id)) \cup {[q EXCEPT !.status = "ACCEPTED"] : q \in Row(id)}

(* update by id: it throws when the request is gone.                       *)
MarkAccepted(p) ==
  LET id == h[p].id IN
  /\ h[p].pc = "accept"
  /\ IF Row(id) = {}
     THEN Return(p) /\ UNCHANGED requests
     ELSE Then(p, "relate") /\ requests' = Accepted(id)
  /\ UNCHANGED <<members, relations, agreed, created, fails>>

(* Mutant: one row only.                                                   *)
OneWay(s, r) == {<<s, r>>}

NewRelations(s, r) == BothWays(s, r)

(* createMany, skipping duplicates; it throws when a user is gone.         *)
Relate(p) ==
  LET s == h[p].from
      r == h[p].to
  IN
  /\ h[p].pc = "relate"
  /\ Return(p)
  /\ relations' = IF {s, r} \subseteq members THEN relations \cup NewRelations(s, r)
                  ELSE relations
  /\ UNCHANGED <<members, requests, agreed, created, fails>>

-----------------------------------------------------------------------------
(* declineRequest: the status of the request is not looked at.             *)

DeclineRequest(p, u, q) ==
  /\ Ready(p) /\ u \in members /\ q \in requests /\ MayAnswer(u, q)
  /\ Goto(p, Doing("decline", q.from, q.to, q.id))
  /\ UNCHANGED <<tables, agreed, created, fails>>

DeleteRequest(p) ==
  /\ h[p].pc = "decline"
  /\ requests' = requests \ Row(h[p].id)
  /\ Return(p)
  /\ UNCHANGED <<members, relations, agreed, created, fails>>

-----------------------------------------------------------------------------
(* removeConnection: relations first, then requests.                       *)

RemoveConnection(p, s, r) ==
  /\ Ready(p) /\ s \in members
  /\ relations' = relations \ BothWays(s, r)
  /\ Goto(p, Doing("remove", s, r, 0))
  /\ UNCHANGED <<members, requests, agreed, created, fails>>

RemoveRequests(p) ==
  /\ h[p].pc = "remove"
  /\ requests' = requests \ Between(h[p].from, h[p].to)
  /\ Return(p)
  /\ UNCHANGED <<members, relations, agreed, created, fails>>

-----------------------------------------------------------------------------
(* admin.deleteUser: the rows of the user go with it (ON DELETE CASCADE).  *)
DeleteUser(u) ==
  /\ u \in members \cap Deletable
  /\ members' = members \ {u}
  /\ requests' = {q \in requests : u \notin {q.from, q.to}}
  /\ relations' = {e \in relations : u \notin {e[1], e[2]}}
  /\ UNCHANGED <<agreed, h, created, fails>>

Fail(p) ==
  /\ ~Ready(p) /\ fails < MaxFails
  /\ fails' = fails + 1
  /\ Return(p)
  /\ UNCHANGED <<tables, agreed, created>>

Step(p) ==
  \/ FindRelation(p) \/ FindRequest(p) \/ CreateRequest(p)
  \/ MarkAccepted(p) \/ Relate(p) \/ DeleteRequest(p) \/ RemoveRequests(p)

Start(p) ==
  \/ \E s, r \in Users : SendRequest(p, s, r) \/ RemoveConnection(p, s, r)
  \/ \E u \in Users, q \in requests : AcceptRequest(p, u, q) \/ DeclineRequest(p, u, q)

Next ==
  \/ \E p \in Procs : Step(p) \/ Start(p) \/ Fail(p)
  \/ \E u \in Users : DeleteUser(u)

Spec == Init /\ [][Next]_vars

-----------------------------------------------------------------------------
RequestType == [id : Nat, from : Users, to : Users, status : {"PENDING", "ACCEPTED"}]

HandlerType ==
  {Idle} \cup [pc : {"relation", "request", "create", "accept", "relate", "decline", "remove"},
               from : Users, to : Users, id : Nat]

(* id and (senderId, receiverId) are keys of the requests.                 *)
Keys ==
  \A q1, q2 \in requests : q1.id = q2.id \/ (q1.from = q2.from /\ q1.to = q2.to) => q1 = q2

(* Members, rows and handlers have the shape and the keys that the schema  *)
(* gives them.                                                             *)
TypeOK ==
  /\ members \subseteq Users
  /\ requests \subseteq RequestType /\ Keys
  /\ relations \subseteq Users \X Users
  /\ agreed \subseteq Users \X Users
  /\ h \in [Procs -> HandlerType]
  /\ created \in Nat /\ fails \in Nat

(* For any interleaving: a connection shown to one member is shown to the  *)
(* other, and nobody is connected to oneself.                              *)
Symmetric == \A e \in relations : <<e[2], e[1]>> \in relations /\ e[1] # e[2]

(* For any interleaving: nobody is connected to somebody with whom no      *)
(* invitation was accepted by the one it was addressed to.                 *)
ConnectedByConsent ==
  \A e \in relations : \E q \in agreed : e \in BothWays(q[1], q[2])

(* What the rows of relations say to a reader of either.                   *)
Pairs == {{e[1], e[2]} : e \in relations}

Graph == INSTANCE ConnectionGraph WITH friends <- Pairs

(* For any interleaving: the tables implement the graph of connections     *)
(* (ConnectionGraph) in which every edge appears after consent and goes    *)
(* only by a removal or with one of its members.                           *)
GraphSpec == Graph!GraphSpec

-----------------------------------------------------------------------------
Quiet == \A p \in Procs : Ready(p)

(* connections.service.ts:57, "Vous êtes déjà connectés.": an accepted     *)
(* request means a connection, so refusing a new request is right.         *)
AcceptedIsConnected ==
  Quiet => \A q \in requests : q.status = "ACCEPTED" => <<q.from, q.to>> \in relations
=============================================================================
