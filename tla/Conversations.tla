--------------------------- MODULE Conversations ---------------------------
(***************************************************************************)
(* Messages: messaging/messaging.service.ts, sendMessage and getMessages,  *)
(* and the page that shows one conversation at a time, MessagesPage.tsx.   *)
(*                                                                         *)
(* A message is stored in a transaction that tells the sockets of the      *)
(* participants before it commits.  The page of the sender also takes the  *)
(* answer of its request.  Message n is the n-th that is sent.             *)
(***************************************************************************)
EXTENDS Naturals, Sequences, FiniteSets

CONSTANTS
  Talkers,      \* users, each with one page open on Messages
  Rooms,        \* conversations
  Participants, \* Participants[c]: the participants of conversation c
  Quota,        \* Quota[u]: maxMessagesPerMonth of the plan of u
  Waiting,      \* users who send again only when the last request is answered
  MaxMessages,  \* bound: messages sent
  MaxLoads,     \* bound: conversations selected
  MaxBreaks     \* bound: requests and transactions that fail

ASSUME ConversationAssumption ==
  /\ Participants \in [Rooms -> SUBSET Talkers] /\ Quota \in [Talkers -> Nat]
  /\ Waiting \subseteq Talkers /\ {MaxMessages, MaxLoads, MaxBreaks} \subseteq Nat

VARIABLES
  stored,    \* stored[c]: rows of Message of conversation c, oldest first
  message,   \* message[n]: its sender, its conversation, how far its request is
  sent,      \* messages sent so far
  news,      \* news[u]: newMessage events on their way to the page of u
  room,      \* room[u]: the conversation selected by u, {} if none
  thread,    \* thread[u]: the messages shown
  load,      \* load[k]: the k-th request for the messages of a conversation
  loads,     \* such requests so far
  crossed,   \* history: pages that something overtook (see below)
  breaks     \* failures so far

conversationVars ==
  <<stored, message, sent, news, room, thread, load, loads, crossed, breaks>>

Numbers == 1..MaxMessages
Loads == 1..MaxLoads
NoMessage == [from |-> {}, room |-> {}, at |-> "none"]
NoLoad == [by |-> {}, room |-> {}, at |-> "none", list |-> <<>>]

ConversationInit ==
  /\ stored = [c \in Rooms |-> <<>>] /\ message = [n \in Numbers |-> NoMessage] /\ sent = 0
  /\ news = [u \in Talkers |-> <<>>]
  /\ room = [u \in Talkers |-> {}] /\ thread = [u \in Talkers |-> <<>>]
  /\ load = [k \in Loads |-> NoLoad] /\ loads = 0
  /\ crossed = {} /\ breaks = 0

Shown(s) == {s[i] : i \in 1..Len(s)}
Sending(u) == \E n \in Numbers : message[n].from = {u} /\ message[n].at \notin {"done", "failed"}
Loading(u, stages) == \E k \in Loads : load[k].by = {u} /\ load[k].at \in stages

MessageAt(n, at) == message' = [message EXCEPT ![n].at = at]
Loaded(k) == load' = [load EXCEPT ![k] = NoLoad]
Breaks == breaks < MaxBreaks /\ breaks' = breaks + 1
Crossed(u, when) == crossed' = IF when THEN crossed \cup {u} ELSE crossed

-----------------------------------------------------------------------------
(* getMessages and the effect on selectedConversationId                    *)

Select(u, c) ==
  /\ u \in Participants[c] /\ room[u] # {c} /\ loads < MaxLoads
  /\ room' = [room EXCEPT ![u] = {c}]
  /\ loads' = loads + 1
  /\ load' = [load EXCEPT ![loads'] = [by |-> {u}, room |-> {c}, at |-> "asked", list |-> <<>>]]
  /\ Crossed(u, Sending(u) \/ Loading(u, {"asked", "read"}))
  /\ UNCHANGED <<stored, message, sent, news, thread, breaks>>

Within(c) == {n \in Numbers : message[n].room = c}
Announced(c) == \E n \in Within(c) : message[n].at = "announced"

(* findMany: a message that is announced but not committed is not there.   *)
LoadMessages(k) ==
  /\ load[k].at = "asked"
  /\ \E c \in load[k].room : load' = [load EXCEPT ![k].at = "read", ![k].list = stored[c]]
  /\ crossed' = IF Announced(load[k].room) THEN crossed \cup load[k].by ELSE crossed
  /\ UNCHANGED <<stored, message, sent, news, room, thread, loads, breaks>>

(* setMessages(data), whichever conversation is selected by now.           *)
SetMessages(k) ==
  /\ load[k].at = "read"
  /\ thread' = [u \in Talkers |-> IF load[k].by = {u} THEN load[k].list ELSE thread[u]]
  /\ Loaded(k)
  /\ UNCHANGED <<stored, message, sent, news, room, loads, crossed, breaks>>

LoadFails(k) ==
  /\ load[k].at \in {"asked", "read"} /\ Breaks
  /\ Loaded(k)
  /\ UNCHANGED <<stored, message, sent, news, room, thread, loads, crossed>>

-----------------------------------------------------------------------------
(* sendMessage                                                             *)

Send(u) ==
  /\ room[u] # {} /\ sent < MaxMessages
  /\ u \in Waiting => ~Sending(u)
  /\ sent' = sent + 1
  /\ message' = [message EXCEPT ![sent'] = [from |-> {u}, room |-> room[u], at |-> "asked"]]
  /\ UNCHANGED <<stored, news, room, thread, load, loads, crossed, breaks>>

SentBy(u) == Cardinality({n \in Numbers : message[n].from = {u} /\ \E c \in Rooms : n \in Shown(stored[c])})

Below(u) == SentBy(u) < Quota[u]

CountMessages(n) ==
  /\ message[n].at = "asked"
  /\ MessageAt(n, IF \A u \in message[n].from : Below(u) THEN "create" ELSE "failed")
  /\ UNCHANGED <<stored, sent, news, room, thread, load, loads, crossed, breaks>>

(* The transaction creates the message and tells all participants.         *)
Announce(n) ==
  /\ message[n].at = "create"
  /\ news' = [u \in Talkers |->
                IF \E c \in message[n].room : u \in Participants[c] THEN Append(news[u], n) ELSE news[u]]
  /\ MessageAt(n, "announced")
  /\ UNCHANGED <<stored, sent, room, thread, load, loads, crossed, breaks>>

CommitMessage(n) ==
  /\ message[n].at = "announced"
  /\ stored' = [c \in Rooms |-> IF message[n].room = {c} THEN Append(stored[c], n) ELSE stored[c]]
  /\ MessageAt(n, "stored")
  /\ UNCHANGED <<sent, news, room, thread, load, loads, crossed, breaks>>

(* A call fails, or the transaction is lost.  When it is the insertion of  *)
(* a notification, the error is caught, PostgreSQL rolls back at the       *)
(* commit, and the request is answered with the message all the same.      *)
TransactionFails(n) ==
  /\ Breaks
  /\ \/ message[n].at \in {"asked", "create", "announced"} /\ MessageAt(n, "failed")
     \/ message[n].at = "announced" /\ MessageAt(n, "stored")
  /\ UNCHANGED <<stored, sent, news, room, thread, load, loads, crossed>>

Show(s, n) == IF n \in Shown(s) THEN s ELSE Append(s, n)

(* The answer goes to the thread shown by now.                             *)
ShowSaved(n) ==
  /\ message[n].at = "stored"
  /\ thread' = [u \in Talkers |-> IF message[n].from = {u} THEN Show(thread[u], n) ELSE thread[u]]
  /\ MessageAt(n, "done")
  /\ crossed' = crossed \cup {u \in message[n].from : Loading(u, {"read"})}
  /\ UNCHANGED <<stored, sent, news, room, load, loads, breaks>>

(* The answer is lost: the text is put back, though the message is there.  *)
AnswerLost(n) ==
  /\ message[n].at = "stored" /\ Breaks
  /\ MessageAt(n, "failed")
  /\ UNCHANGED <<stored, sent, news, room, thread, load, loads, crossed>>

(* Mutant: an event goes to whatever thread is shown.                      *)
AnyRoom(u, n) == TRUE

ForRoom(u, n) == message[n].room = room[u]

OnNewMessage(u) ==
  /\ news[u] # <<>>
  /\ news' = [news EXCEPT ![u] = Tail(@)]
  /\ thread' = IF ForRoom(u, Head(news[u]))
               THEN [thread EXCEPT ![u] = Show(@, Head(news[u]))] ELSE thread
  /\ Crossed(u, Loading(u, {"read"}))
  /\ UNCHANGED <<stored, message, sent, room, load, loads, breaks>>

-----------------------------------------------------------------------------
ConversationNext ==
  \/ \E u \in Talkers : Send(u) \/ OnNewMessage(u) \/ \E c \in Rooms : Select(u, c)
  \/ \E k \in Loads : LoadMessages(k) \/ SetMessages(k) \/ LoadFails(k)
  \/ \E n \in Numbers :
       \/ CountMessages(n) \/ Announce(n) \/ CommitMessage(n) \/ TransactionFails(n)
       \/ ShowSaved(n) \/ AnswerLost(n)

ConversationSpec == ConversationInit /\ [][ConversationNext]_conversationVars

-----------------------------------------------------------------------------
AllSaid(u) == ~Sending(u) /\ ~Loading(u, {"asked", "read"}) /\ news[u] = <<>>

(* "le socket peut arriver après, la déduplication l'ignore": in any order *)
(* of answer, event and load, no message is shown twice.                   *)
(* Once all is said and nothing failed, a page shows the messages of the   *)
(* conversation it is on, and no other, unless it was overtaken: it changed *)
(* conversation while a request was under way, or took a message after its *)
(* list was read, or its list was read between announcement and commit.    *)
ThreadIsConversation ==
  /\ \A u \in Talkers : Cardinality(Shown(thread[u])) = Len(thread[u])
  /\ breaks = 0 /\ ~(\E n \in Numbers : message[n].at = "announced") =>
       \A u \in Talkers \ crossed, c \in Rooms :
         AllSaid(u) /\ room[u] = {c} => Shown(thread[u]) = Shown(stored[c])
=============================================================================
