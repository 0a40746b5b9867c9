----------------------------- MODULE FeedLikes -----------------------------
(***************************************************************************)
(* The likes of one post of the feed: feed.service.ts, toggleLike, and the *)
(* pages that show it, EnhancedActivityFeed.tsx.                           *)
(*                                                                         *)
(* A page keeps the likes it was sent (posts), and each card a heart of    *)
(* its own that a click turns at once.  The server tells all sockets of a  *)
(* like; a page whose socket is down misses that, and is not told later; a *)
(* page may also fetch the feed again, once more before it has the last    *)
(* one.  A click is a request to the server, whose handler awaits one      *)
(* database call after the other.                                          *)
(***************************************************************************)
EXTENDS Naturals, Sequences

CONSTANTS
  Fans,        \* users, each with the feed on one page
  Writer,      \* the author of the post
  Patient,     \* users who click again only when the last click is answered
  MaxClicks,   \* bound: clicks on hearts
  MaxFetches,  \* bound: fetches of the feed
  MaxErrors    \* bound: requests and calls that fail

ASSUME FeedAssumption ==
  Patient \subseteq Fans /\ {MaxClicks, MaxFetches, MaxErrors} \subseteq Nat

VARIABLES
  likes,    \* rows of FeedPostLike: the users who like the post
  toggle,   \* toggle[n]: the request of click n and its handler
  clicks,   \* clicks so far
  wire,     \* wire[v]: postLikeUpdated events on their way to the page of v
  page,     \* page[v]: post.likes in the page of v
  heart,    \* heart[v]: localLiked on the card of v
  loading,  \* loading[v]: isLoading, the page of v shows no cards
  fetch,    \* fetch[f]: the request of fetch f
  fetches,  \* fetches so far
  missed,   \* history: pages whose feed lacks an event that they will not take again
  errors    \* failures so far

feedVars == <<likes, toggle, clicks, wire, page, heart, loading, fetch, fetches, missed, errors>>
shownFeed == <<wire, page, heart, loading, fetch, fetches, missed>>

Clicks == 1..MaxClicks
Fetches == 1..MaxFetches
NoToggle == [user |-> Writer, at |-> "none", liked |-> FALSE]
NoFetch == [by |-> Writer, at |-> "none", likes |-> {}, stale |-> FALSE]

FeedInit ==
  /\ likes = {} /\ toggle = [n \in Clicks |-> NoToggle] /\ clicks = 0
  /\ wire = [v \in Fans |-> <<>>] /\ page = [v \in Fans |-> {}]
  /\ heart = [v \in Fans |-> FALSE] /\ loading = [v \in Fans |-> FALSE]
  /\ fetch = [f \in Fetches |-> NoFetch] /\ fetches = 0
  /\ missed = {} /\ errors = 0

Answered(n) == toggle[n].at \in {"none", "done", "failed"}
Idling(v) == \A n \in Clicks : toggle[n].user = v => Answered(n)

Proceed(n, at) == toggle' = [toggle EXCEPT ![n].at = at]
FeedError == errors < MaxErrors /\ errors' = errors + 1

(* The effect on post.likes: the card follows the page.                    *)
Resync(v) == heart' = [heart EXCEPT ![v] = v \in page'[v]]

-----------------------------------------------------------------------------
(* handleLike: cards are not there while the feed is loading.              *)
ClickHeart(v) ==
  /\ clicks < MaxClicks /\ ~loading[v]
  /\ v \in Patient => Idling(v)
  /\ clicks' = clicks + 1
  /\ heart' = [heart EXCEPT ![v] = ~@]
  /\ toggle' = [toggle EXCEPT ![clicks'] = [user |-> v, at |-> "read", liked |-> FALSE]]
  /\ UNCHANGED <<likes, wire, page, loading, fetch, fetches, missed, errors>>

(* The request is lost, or a database call throws: handleToggleLike        *)
(* swallows it.                                                            *)
ToggleFails(n) ==
  /\ toggle[n].at \in {"read", "create", "delete"} /\ FeedError
  /\ Proceed(n, "failed")
  /\ UNCHANGED <<likes, clicks, shownFeed>>

FindLike(n) ==
  /\ toggle[n].at = "read"
  /\ Proceed(n, IF toggle[n].user \in likes THEN "delete" ELSE "create")
  /\ UNCHANGED <<likes, clicks, shownFeed, errors>>

(* The row may be gone, or there already, by now: the call throws.         *)
DeleteLike(n) ==
  LET u == toggle[n].user IN
  /\ toggle[n].at = "delete"
  /\ likes' = likes \ {u}
  /\ Proceed(n, IF u \in likes THEN "emit" ELSE "failed")
  /\ UNCHANGED <<clicks, shownFeed, errors>>

CreateLike(n) ==
  LET u == toggle[n].user IN
  /\ toggle[n].at = "create"
  /\ likes' = likes \cup {u}
  /\ toggle' = [toggle EXCEPT ![n].liked = TRUE,
                  ![n].at = IF u \in likes THEN "failed" ELSE IF u = Writer THEN "emit" ELSE "notify"]
  /\ UNCHANGED <<clicks, shownFeed, errors>>

Notify(n) ==
  /\ toggle[n].at = "notify"
  /\ Proceed(n, "emit")
  /\ UNCHANGED <<likes, clicks, shownFeed, errors>>

(* "Error creating post like notification": the like is announced all the  *)
(* same.  In the mutant it ends the request.                               *)
EndThere(n) == Proceed(n, "done")
CatchNotify(n) == Proceed(n, "emit")

NotifyFails(n) ==
  /\ toggle[n].at = "notify" /\ FeedError
  /\ CatchNotify(n)
  /\ UNCHANGED <<likes, clicks, shownFeed>>

EmitToAll(n) ==
  /\ toggle[n].at = "emit"
  /\ wire' = [v \in Fans |-> Append(wire[v], [user |-> toggle[n].user, liked |-> toggle[n].liked])]
  /\ Proceed(n, "done")
  /\ UNCHANGED <<likes, clicks, page, heart, loading, fetch, fetches, missed, errors>>

(* The server restarts: what its handlers had not said is never said.      *)
ServerDies ==
  /\ FeedError
  /\ toggle' = [n \in Clicks |-> IF Answered(n) THEN toggle[n] ELSE [toggle[n] EXCEPT !.at = "failed"]]
  /\ UNCHANGED <<likes, clicks, shownFeed>>

-----------------------------------------------------------------------------
(* The pages                                                               *)

(* An event that reaches v, or is lost, is not in the feeds that were read *)
(* for v before.                                                           *)
Outdate(v) ==
  fetch' = [f \in Fetches |-> IF fetch[f].by = v /\ fetch[f].at = "read"
                              THEN [fetch[f] EXCEPT !.stale = TRUE] ELSE fetch[f]]

(* postLikeUpdated: a like that the page knows of changes nothing, so the  *)
(* card's effect does not run.                                             *)
Receive(v) ==
  LET event == Head(wire[v]) IN
  /\ wire[v] # <<>>
  /\ wire' = [wire EXCEPT ![v] = Tail(@)]
  /\ page' = [page EXCEPT ![v] = IF event.liked THEN @ \cup {event.user} ELSE @ \ {event.user}]
  /\ IF page' = page THEN UNCHANGED heart ELSE Resync(v)
  /\ Outdate(v)
  /\ UNCHANGED <<likes, toggle, clicks, loading, fetches, missed, errors>>

(* The socket of v is down for a while: it connects again by itself, but   *)
(* the page does not fetch what it missed.                                 *)
Disconnect(v) ==
  /\ wire[v] # <<>> /\ FeedError
  /\ wire' = [wire EXCEPT ![v] = <<>>]
  /\ missed' = missed \cup {v}
  /\ Outdate(v)
  /\ UNCHANGED <<likes, toggle, clicks, page, heart, loading, fetches>>

(* fetchFeed, after a comment or a new post.                               *)
FetchFeed(v) ==
  /\ fetches < MaxFetches
  /\ fetches' = fetches + 1
  /\ fetch' = [fetch EXCEPT ![fetches'] = [NoFetch EXCEPT !.by = v, !.at = "asked"]]
  /\ loading' = [loading EXCEPT ![v] = TRUE]
  /\ UNCHANGED <<likes, toggle, clicks, wire, page, heart, missed, errors>>

FindAll(f) ==
  /\ fetch[f].at = "asked"
  /\ fetch' = [fetch EXCEPT ![f].at = "read", ![f].likes = likes]
  /\ UNCHANGED <<likes, toggle, clicks, wire, page, heart, loading, fetches, missed, errors>>

(* setPosts, whatever another fetch said; the cards are there again.       *)
SetPosts(f) ==
  LET v == fetch[f].by IN
  /\ fetch[f].at = "read"
  /\ page' = [page EXCEPT ![v] = fetch[f].likes]
  /\ missed' = IF fetch[f].stale THEN missed \cup {v} ELSE missed \ {v}
  /\ fetch' = [fetch EXCEPT ![f] = NoFetch]
  /\ loading' = [loading EXCEPT ![v] = FALSE]
  /\ Resync(v)
  /\ UNCHANGED <<likes, toggle, clicks, wire, fetches, errors>>

(* The error is swallowed.  Cards that were not there are mounted again.   *)
FetchFails(f) ==
  LET v == fetch[f].by IN
  /\ fetch[f].at # "none" /\ FeedError
  /\ fetch' = [fetch EXCEPT ![f] = NoFetch]
  /\ loading' = [loading EXCEPT ![v] = FALSE]
  /\ UNCHANGED page
  /\ IF loading[v] THEN Resync(v) ELSE UNCHANGED heart
  /\ UNCHANGED <<likes, toggle, clicks, wire, fetches, missed>>

-----------------------------------------------------------------------------
ToggleStep(n) == FindLike(n) \/ DeleteLike(n) \/ CreateLike(n) \/ Notify(n) \/ EmitToAll(n)

FeedNext ==
  \/ \E n \in Clicks : ToggleStep(n) \/ ToggleFails(n) \/ NotifyFails(n)
  \/ \E v \in Fans : ClickHeart(v) \/ Receive(v) \/ Disconnect(v) \/ FetchFeed(v)
  \/ \E f \in Fetches : FindAll(f) \/ SetPosts(f) \/ FetchFails(f)
  \/ ServerDies

FeedSpec == FeedInit /\ [][FeedNext]_feedVars

-----------------------------------------------------------------------------
Settled ==
  /\ \A n \in Clicks : Answered(n)
  /\ \A v \in Fans : wire[v] = <<>>
  /\ \A f \in Fetches : fetch[f] = NoFetch

Failed(v) == \E n \in Clicks : toggle[n].user = v /\ toggle[n].at = "failed"

(* "mise à jour reçue en temps réel via socket": once all is said, a page  *)
(* shows a like exactly when its row is there.  The fan waits for answers, *)
(* no request of theirs failed, and the page did not take an event while   *)
(* an older feed was on its way to it, nor lose one, unless it has fetched *)
(* the feed since.  Under the same conditions, the heart of a fan shows    *)
(* what their page knows.                                                  *)
PagesShowLikes ==
  Settled => \A v \in Fans \ missed, u \in Patient :
               /\ ~Failed(u) => (u \in page[v] <=> u \in likes)
               /\ ~Failed(u) /\ u = v => (heart[v] <=> v \in page[v])
=============================================================================
