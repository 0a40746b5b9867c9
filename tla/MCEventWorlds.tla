---------------------------- MODULE MCEventWorlds ----------------------------
(***************************************************************************)
(* Registrations in two worlds: in the one cards cannot be charged in      *)
(* production and Wise is used as well; in the other everybody pays by     *)
(* card and ticket types do not sell out.                                  *)
(***************************************************************************)
EXTENDS MCEventRegistration

CONSTANT CardFails  \* bound: handlers that die half way, among cards

VARIABLE cards

ByCard == INSTANCE EventRegistration
  WITH Providers <- {"stripe"}, StripeOn <- TRUE, TicketCap <- Unlimited, MaxFails <- CardFails

WorldsInit == cards \in BOOLEAN /\ Init
WorldsNext == UNCHANGED cards /\ IF cards THEN ByCard!Next ELSE Next
WorldsSpec == WorldsInit /\ [][WorldsNext]_<<cards, vars>>

(* In the world of cards the server runs every handler to its end, and     *)
(* Stripe delivers a webhook until it is answered 200.  Users and          *)
(* organizers owe nothing.  Delivery is strongly fair only because the     *)
(* slots of the model can all be busy, which the server's event loop never *)
(* is for ever.                                                            *)
FairWorlds ==
  /\ WorldsSpec
  /\ \A p \in Procs : WF_vars(cards /\ ByCard!Step(p))
  /\ \A u \in Users, n \in 1..MaxTries :
       SF_vars(cards /\ ByCard!Deliver([user |-> u, pay |-> [kind |-> "stripe", n |-> n]]))
=============================================================================
