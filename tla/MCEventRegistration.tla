------------------------ MODULE MCEventRegistration ------------------------
(* Small instances of EventRegistration for TLC.                           *)
EXTENDS EventRegistration, TLC

CONSTANTS alice, bob, carol, stand, vip, p1, p2

Unlimited == [t \in Tickets |-> 0]
OneEach   == [t \in Tickets |-> 1]
OneSlot   == {p1}
Symmetry == Permutations(Users)
=============================================================================
