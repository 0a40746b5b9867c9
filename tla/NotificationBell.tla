-------------------------- MODULE NotificationBell --------------------------
(***************************************************************************)
(* Notifications of one user: notifications.service.ts, the relay of       *)
(* messaging.gateway.ts, and the bell of each dashboard that the user has  *)
(* open, NotificationCenter.tsx, which fetches the list once and then      *)
(* lives on events of a socket of its own.  The notification of a message  *)
(* is created, and emitted, inside the transaction of sendMessage.         *)
(***************************************************************************)
EXTENDS Naturals, Sequences, FiniteSets

CONSTANTS
  Bells,       \* dashboards of the user
  MaxNotes,    \* bound: notifications
  MaxMarks,    \* bound: clicks that mark as read
  MaxLosses    \* bound: requests, connections and transactions that are lost

ASSUME BellAssumption == {MaxNotes, MaxMarks, MaxLosses} \subseteq Nat

VARIABLES
  note,       \* note[n]: the n-th Notification row, "none", "pending" (not yet
              \* committed), "gone" (rolled back), "unread" or "read"
  live,       \* notifications that are created and not yet emitted
  online,     \* bells whose socket is connected
  events,     \* events[b]: notifications on their way to b
  list,       \* list[b]: what bell b shows, newest first
  fetching,   \* fetching[b]: fetchNotifications of b: at, and the rows that were read
  marking,    \* marking[b]: handleMarkRead or handleMarkAllRead of b
  witnessed,  \* history: notifications created while b was up, and up ever since
  hasty,      \* history: those that markAllRead of b missed, and its answer did not
  marks, losses

bellVars == <<note, live, online, events, list, fetching, marking, witnessed, hasty, marks, losses>>
server == <<note, live>>
requested == <<fetching, marking>>

Notes == 1..MaxNotes
Unasked == [at |-> "none", rows |-> <<>>]
Unmarked == [at |-> "none", which |-> {}]

BellInit ==
  /\ note = [n \in Notes |-> "none"] /\ live = {}
  /\ online = {} /\ events = [b \in Bells |-> <<>>] /\ list = [b \in Bells |-> <<>>]
  /\ fetching = [b \in Bells |-> [Unasked EXCEPT !.at = "asked"]]
  /\ marking = [b \in Bells |-> Unmarked]
  /\ witnessed = [b \in Bells |-> {}] /\ hasty = [b \in Bells |-> {}]
  /\ marks = 0 /\ losses = 0

Lose == losses < MaxLosses /\ losses' = losses + 1
Up(b) == b \in online /\ fetching[b] = Unasked
Listed(b) == {list[b][k] : k \in DOMAIN list[b]}
Unread(b) == {s.id : s \in {t \in Listed(b) : ~t.read}}

-----------------------------------------------------------------------------
(* create: the row, and then the event; and sendMessage: the same, before  *)
(* the row is committed.                                                   *)
CreateNote ==
  \E n \in Notes, row \in {"unread", "pending"} :
    /\ note[n] = "none" /\ \A m \in 1..(n - 1) : note[m] # "none"
    /\ note' = [note EXCEPT ![n] = row]
    /\ live' = live \cup {n}
    /\ witnessed' = [b \in Bells |-> IF Up(b) THEN witnessed[b] \cup {n} ELSE witnessed[b]]
    /\ hasty' = [b \in Bells |-> IF marking[b].at = "answered" /\ n \in marking[b].which
                                 THEN hasty[b] \cup {n} ELSE hasty[b]]
    /\ UNCHANGED <<online, events, list, requested, marks, losses>>

(* Mutant: one socket is kept for the user, not a room.                    *)
OneSocket == IF online = {} THEN {} ELSE {CHOOSE b \in online : TRUE}
Room == online

EmitNote(n) ==
  /\ n \in live
  /\ live' = live \ {n}
  /\ events' = [b \in Bells |-> IF b \in Room THEN Append(events[b], n) ELSE events[b]]
  /\ UNCHANGED <<note, online, list, requested, witnessed, hasty, marks, losses>>

(* The transaction of sendMessage ends, well or not.                       *)
EndMessage(n) ==
  /\ note[n] = "pending" /\ n \notin live
  /\ \/ note' = [note EXCEPT ![n] = "unread"] /\ UNCHANGED losses
     \/ note' = [note EXCEPT ![n] = "gone"] /\ Lose
  /\ UNCHANGED <<live, online, events, list, requested, witnessed, hasty, marks>>

-----------------------------------------------------------------------------
(* The socket of the bell; nothing is fetched when it connects again.      *)
ConnectBell(b) ==
  /\ b \notin online
  /\ online' = online \cup {b}
  /\ UNCHANGED <<server, events, list, requested, witnessed, hasty, marks, losses>>

LoseSocket(b) ==
  /\ b \in online /\ Lose
  /\ online' = online \ {b}
  /\ events' = [events EXCEPT ![b] = <<>>]
  /\ witnessed' = [witnessed EXCEPT ![b] = {}]
  /\ UNCHANGED <<server, list, requested, hasty, marks>>

OnNotification(b) ==
  LET n == Head(events[b]) IN
  /\ events[b] # <<>>
  /\ events' = [events EXCEPT ![b] = Tail(@)]
  /\ list' = [list EXCEPT ![b] = <<[id |-> n, read |-> FALSE]>> \o @]
  /\ UNCHANGED <<server, online, requested, witnessed, hasty, marks, losses>>

(* findAll, newest first: what is committed.                               *)
Stored == {n \in Notes : note[n] \in {"unread", "read"}}
NewestFirst(order) == \A j, k \in DOMAIN order : j < k => order[j] > order[k]
Rows(order) == [k \in DOMAIN order |-> [id |-> order[k], read |-> note[order[k]] = "read"]]

ReadNotes(b) ==
  /\ fetching[b].at = "asked"
  /\ \E order \in [1..Cardinality(Stored) -> Stored] :
       /\ NewestFirst(order)
       /\ fetching' = [fetching EXCEPT ![b] = [at |-> "read", rows |-> Rows(order)]]
  /\ UNCHANGED <<server, online, events, list, marking, witnessed, hasty, marks, losses>>

(* setNotifications, or the error is only logged.                          *)
ShowNotes(b) ==
  /\ fetching[b] # Unasked
  /\ \/ fetching[b].at = "read" /\ list' = [list EXCEPT ![b] = fetching[b].rows] /\ UNCHANGED losses
     \/ Lose /\ UNCHANGED list
  /\ fetching' = [fetching EXCEPT ![b] = Unasked]
  /\ UNCHANGED <<server, online, events, marking, witnessed, hasty, marks>>

-----------------------------------------------------------------------------
(* handleMarkRead on an item, or handleMarkAllRead.  A second click before *)
(* the answer is left out.                                                 *)
ClickMark(b) ==
  /\ marking[b] = Unmarked /\ Unread(b) # {} /\ marks < MaxMarks
  /\ marks' = marks + 1
  /\ \E which \in {{n} : n \in Unread(b)} \cup {Notes} :
       marking' = [marking EXCEPT ![b] = [at |-> "sent", which |-> which]]
  /\ UNCHANGED <<server, online, events, list, fetching, witnessed, hasty, losses>>

(* markAsRead does not find what is not stored, markAllAsRead passes over  *)
(* it.                                                                     *)
NotFound(b) == marking[b].which # Notes /\ ~(marking[b].which \subseteq Stored)
PassedOver(b) == {n \in marking[b].which : note[n] \in {"pending", "gone"}}

UpdateNotes(b) ==
  /\ marking[b].at = "sent" /\ ~NotFound(b)
  /\ note' = [n \in Notes |-> IF n \in marking[b].which /\ note[n] = "unread" THEN "read" ELSE note[n]]
  /\ marking' = [marking EXCEPT ![b].at = "answered"]
  /\ hasty' = [hasty EXCEPT ![b] = @ \cup PassedOver(b)]
  /\ UNCHANGED <<live, online, events, list, fetching, witnessed, marks, losses>>

MarkShown(b) ==
  list' = [list EXCEPT ![b] =
    [k \in DOMAIN @ |-> IF @[k].id \in marking[b].which THEN [@[k] EXCEPT !.read = TRUE] ELSE @[k]]]

MarkAnswered(b) ==
  /\ \/ marking[b].at = "answered" /\ MarkShown(b) /\ UNCHANGED losses
     \/ marking[b].at = "sent" /\ NotFound(b) /\ UNCHANGED <<list, losses>>
     \/ marking[b].at \in {"sent", "answered"} /\ Lose /\ UNCHANGED list
  /\ marking' = [marking EXCEPT ![b] = Unmarked]
  /\ UNCHANGED <<server, online, events, fetching, witnessed, hasty, marks>>

BellNext ==
  \/ CreateNote
  \/ \E n \in Notes : EmitNote(n) \/ EndMessage(n)
  \/ \E b \in Bells :
       \/ ConnectBell(b) \/ LoseSocket(b) \/ OnNotification(b)
       \/ ReadNotes(b) \/ ShowNotes(b)
       \/ ClickMark(b) \/ UpdateNotes(b) \/ MarkAnswered(b)

BellSpec == BellInit /\ [][BellNext]_bellVars

-----------------------------------------------------------------------------
(* "emitting live notification": once all is delivered, every dashboard    *)
(* that was up, with its list fetched and its socket connected, when a     *)
(* notification was created shows it, and shows it once, committed or not; *)
(* and as read only if it is, unless "Tout lire" was answered before the   *)
(* row was there to be marked.                                             *)
WitnessedShownOnce ==
  /\ live = {} => \A b \in Bells : events[b] = <<>> =>
       \A n \in witnessed[b] : \E k \in DOMAIN list[b] :
         \A j \in DOMAIN list[b] : list[b][j].id = n <=> j = k
  /\ \A b \in Bells : \A s \in Listed(b) : s.read => note[s.id] = "read" \/ s.id \in hasty[b]
=============================================================================
