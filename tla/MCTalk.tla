-------------------------------- MODULE MCTalk --------------------------------
(***************************************************************************)
(* What members say to each other, on small instances, in one run: calls,  *)
(* messages, the likes of a post, and the bell.  No module reads the       *)
(* variables of another, so their steps commute: a behaviour moves the     *)
(* part that it started with, and the others stay as they are.             *)
(***************************************************************************)
EXTENDS VideoCalls, Conversations, FeedLikes, NotificationBell, TLC

CONSTANTS ann, ben, cleo, k1, k2, r1, r2

VARIABLE part

OneMessageEach == [u \in Talkers |-> 1]
EverybodyIn == [c \in Rooms |-> Talkers]
AnnAndCleoCallBen == {<<ann, ben>>, <<cleo, ben>>}
SlotSymmetry == Permutations({k1, k2})

Parts == {"calls", "conversations", "feed", "bell"}

TalkInit == part \in Parts /\ CallInit /\ ConversationInit /\ FeedInit /\ BellInit

TalkNext ==
  /\ UNCHANGED part
  /\ IF part = "calls" THEN CallNext ELSE UNCHANGED callVars
  /\ IF part = "conversations" THEN ConversationNext ELSE UNCHANGED conversationVars
  /\ IF part = "feed" THEN FeedNext ELSE UNCHANGED feedVars
  /\ IF part = "bell" THEN BellNext ELSE UNCHANGED bellVars

talkVars == <<part, callVars, conversationVars, feedVars, bellVars>>

TalkSpec == TalkInit /\ [][TalkNext]_talkVars
=============================================================================
