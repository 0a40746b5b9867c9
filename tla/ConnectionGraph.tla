-------------------------- MODULE ConnectionGraph --------------------------
(***************************************************************************)
(* What the network of connections promises: two members are connected     *)
(* both ways or not at all, and only after one of them agreed to an        *)
(* invitation of the other.                                                *)
(***************************************************************************)
CONSTANT Users

VARIABLES
  friends,  \* the connected pairs, as sets of two users
  agreed    \* <<s, r>>: r has agreed to an invitation of s

GraphInit == friends = {} /\ agreed = {}

Agree(s, r) ==
  /\ s # r
  /\ agreed' = agreed \cup {<<s, r>>}
  /\ UNCHANGED friends

Connect(s, r) ==
  /\ <<s, r>> \in agreed
  /\ friends' = friends \cup {{s, r}}
  /\ UNCHANGED agreed

Disconnect(s, r) ==
  /\ friends' = friends \ {{s, r}}
  /\ UNCHANGED agreed

(* A user who leaves is connected to nobody.                               *)
Leave(u) ==
  /\ friends' = {pair \in friends : u \notin pair}
  /\ UNCHANGED agreed

GraphNext ==
  \/ \E s, r \in Users : Agree(s, r) \/ Connect(s, r) \/ Disconnect(s, r)
  \/ \E u \in Users : Leave(u)

GraphSpec == GraphInit /\ [][GraphNext]_<<friends, agreed>>
=============================================================================
