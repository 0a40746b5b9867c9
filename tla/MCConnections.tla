--------------------------- MODULE MCConnections ---------------------------
(* Instances of Connections for TLC.                                       *)
EXTENDS Connections, TLC

CONSTANTS ann, ben, cleo, p1, p2

NoLimit == [u \in Users |-> Unlimited]
OneEach == [u \in Users |-> 1]
Symmetry == Permutations(Users) \cup Permutations(Procs)
SlotSymmetry == Permutations(Procs)
=============================================================================
