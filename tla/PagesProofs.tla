---------------------------- MODULE PagesProofs ----------------------------
(***************************************************************************)
(* What the pages show, for any number of members, posts, requests, losses *)
(* and events: the likes of FeedLikes, the bells of NotificationBell and   *)
(* the threads of Conversations.  Each is proved from an inductive         *)
(* invariant that says where a change is until the page shows it: with the *)
(* server, on its way, or in a list that was read.                         *)
(***************************************************************************)
EXTENDS FeedLikes, NotificationBell, Conversations,
        Integers, SequenceTheorems, FiniteSetTheorems, TLAPS

-----------------------------------------------------------------------------
(* FeedLikes                                                               *)
Stages == {"none", "read", "create", "delete", "notify", "emit", "done", "failed"}
EventType == [user : Fans, liked : BOOLEAN]
ToggleType == [user : Fans \cup {Writer}, at : Stages, liked : BOOLEAN]
FetchType == [by : Fans \cup {Writer}, at : {"none", "asked", "read"}, likes : SUBSET Fans,
              stale : BOOLEAN]

(* The clicks so far have a request, by a fan, and no other has.           *)
ClicksOK ==
  \A n \in Clicks : /\ toggle[n].at = "none" <=> n > clicks
                    /\ toggle[n].at # "none" => toggle[n].user \in Fans
                    /\ toggle[n].at \in {"read", "create", "delete"} => ~toggle[n].liked

FeedTypeOK ==
  /\ likes \subseteq Fans /\ missed \subseteq Fans
  /\ clicks \in 0..MaxClicks /\ fetches \in Nat /\ errors \in Nat
  /\ toggle \in [Clicks -> ToggleType]
  /\ wire \in [Fans -> Seq(EventType)]
  /\ page \in [Fans -> SUBSET Fans] /\ heart \in [Fans -> BOOLEAN]
  /\ fetch \in [Fetches -> FetchType] /\ loading \in [Fans -> BOOLEAN]
  /\ \A f \in Fetches : fetch[f].at # "none" => fetch[f].by \in Fans
  /\ ClicksOK

(* The stages of u's clicks, and whether an event of u is still to come.   *)
At(u, stages) == \E n \in Clicks : toggle[n].user = u /\ toggle[n].at \in stages
Emitting(u) == At(u, {"notify", "emit"})

(* A page that shows S and then takes the events s shows the like of u if  *)
(* and only if it is in L: the last event of u says so, or S, if there is  *)
(* none.                                                                   *)
Leaves(S, s, u, L) ==
  \/ (\A i \in DOMAIN s : s[i].user # u) /\ (u \in S <=> u \in L)
  \/ \E i \in DOMAIN s : /\ s[i].user = u /\ (s[i].liked <=> u \in L)
                         /\ \A j \in DOMAIN s : j > i => s[j].user # u

FanOK(u) ==
  /\ \A m, n \in Clicks : toggle[m].user = u /\ toggle[n].user = u /\ ~Answered(m) /\ ~Answered(n) => m = n
  /\ ~Failed(u) => \A n \in Clicks : toggle[n].user = u /\ toggle[n].at \in {"notify", "emit"} =>
                                       (toggle[n].liked <=> u \in likes)

(* A feed that was read for v and has not missed what v took since.        *)
Fresh(f, v) == fetch[f].by = v /\ fetch[f].at = "read" /\ ~fetch[f].stale

PageOK(v, u) ==
  ~Failed(u) /\ ~Emitting(u) =>
    /\ Leaves(likes, wire[v], u, likes)
    /\ v \notin missed => Leaves(page[v], wire[v], u, likes)
    /\ \A f \in Fetches : Fresh(f, v) => Leaves(fetch[f].likes, wire[v], u, likes)

(* A heart that differs from its page is about to be told: by an event on  *)
(* the wire that changes the page, or by one that is still to come.        *)
HeartOK(v) ==
  ~Failed(v) /\ ~(heart[v] <=> v \in page[v]) =>
    \/ \E i \in DOMAIN wire[v] : wire[v][i].user = v /\ ~(wire[v][i].liked <=> v \in page[v])
    \/ At(v, {"read", "create", "delete"})
    \/ \E n \in Clicks : /\ toggle[n].user = v /\ toggle[n].at \in {"notify", "emit"}
                         /\ ~(toggle[n].liked <=> v \in page[v])

FeedInv ==
  /\ FeedTypeOK
  /\ \A u \in Patient : FanOK(u) /\ (u \notin missed => HeartOK(u))
  /\ \A v \in Fans, u \in Patient : PageOK(v, u)

(* What a page shows after event e.                                        *)
Took(S, e) == IF e.liked THEN S \cup {e.user} ELSE S \ {e.user}

-----------------------------------------------------------------------------
LEMMA LeavesAppend ==
  ASSUME NEW s \in Seq(EventType), NEW e \in EventType, NEW S, NEW u, NEW L,
         IF e.user = u THEN e.liked <=> u \in L ELSE Leaves(S, s, u, L)
  PROVE  Leaves(S, Append(s, e), u, L)
<1> DEFINE t == Append(s, e)
<1>1. /\ DOMAIN s = 1..Len(s) /\ DOMAIN t = 1..(Len(s) + 1) /\ Len(s) \in Nat
      /\ t[Len(s) + 1] = e /\ \A i \in DOMAIN s : t[i] = s[i]
  BY AppendProperties, LenProperties
<1>2. CASE e.user = u
  BY <1>1, <1>2 DEF Leaves
<1>3. CASE e.user # u
  BY <1>1, <1>3 DEF Leaves
<1> QED BY <1>2, <1>3

LEMMA LeavesTail ==
  ASSUME NEW s \in Seq(EventType), s # <<>>, NEW S, NEW u, NEW L, Leaves(S, s, u, L)
  PROVE  Leaves(Took(S, Head(s)), Tail(s), u, L)
<1> DEFINE t == Tail(s)
<1>1. /\ DOMAIN s = 1..Len(s) /\ DOMAIN t = 1..(Len(s) - 1) /\ Len(s) \in Nat \ {0}
      /\ Head(s) = s[1] /\ \A i \in DOMAIN t : t[i] = s[i + 1]
  BY HeadTailProperties, LenProperties, EmptySeq
<1>2. CASE (\A i \in DOMAIN s : s[i].user # u) /\ (u \in S <=> u \in L)
  <2>1. \A i \in DOMAIN t : t[i].user # u
    BY <1>1, <1>2
  <2>2. u \in Took(S, Head(s)) <=> u \in L
    BY <1>1, <1>2 DEF Took
  <2> QED BY <2>1, <2>2 DEF Leaves
<1>3. ASSUME NEW i \in DOMAIN s, s[i].user = u, s[i].liked <=> u \in L,
             \A j \in DOMAIN s : j > i => s[j].user # u
      PROVE  Leaves(Took(S, Head(s)), t, u, L)
  <2>1. CASE i = 1
    <3>1. \A j \in DOMAIN t : t[j].user # u
      BY <1>1, <1>3, <2>1
    <3>2. u \in Took(S, Head(s)) <=> u \in L
      BY <1>1, <1>3, <2>1 DEF Took
    <3> QED BY <3>1, <3>2 DEF Leaves
  <2>2. CASE i # 1
    <3>1. i - 1 \in DOMAIN t /\ t[i - 1] = s[i]
      BY <1>1, <1>3, <2>2
    <3>2. \A j \in DOMAIN t : j > i - 1 => t[j].user # u
      BY <1>1, <1>3
    <3> QED BY <1>3, <3>1, <3>2 DEF Leaves
  <2> QED BY <2>1, <2>2
<1> QED BY <1>2, <1>3 DEF Leaves

(* A page that takes a fresh copy ends up the same.                        *)
LEMMA LeavesFresh == ASSUME NEW s, NEW S, NEW u, NEW L, Leaves(S, s, u, L) PROVE Leaves(L, s, u, L)
BY DEF Leaves

LEMMA FeedTypes == ASSUME FeedTypeOK
  PROVE /\ \A n \in Clicks : /\ toggle[n] \in ToggleType /\ toggle[n].at \in Stages /\ toggle[n].liked \in BOOLEAN
                            /\ (~Answered(n) => toggle[n].user \in Fans /\ toggle[n].at # "none")
                            /\ (Answered(n) <=> toggle[n].at \in {"none", "done", "failed"})
        /\ \A v \in Fans : /\ wire[v] \in Seq(EventType) /\ page[v] \subseteq Fans /\ heart[v] \in BOOLEAN
        /\ \A f \in Fetches : fetch[f] \in FetchType /\ fetch[f].likes \subseteq Fans
BY DEF FeedTypeOK, ClicksOK, Answered, ToggleType, FetchType

-----------------------------------------------------------------------------
(* One click moves on.                                                     *)
Moves(n, t) ==
  /\ n \in Clicks /\ t \in ToggleType /\ toggle' = [toggle EXCEPT ![n] = t]
  /\ ~Answered(n) /\ t.user = toggle[n].user /\ t.at # "none"
  /\ t.at \in {"read", "create", "delete"} => ~t.liked

LEMMA MoveTypes ==
  ASSUME FeedTypeOK, NEW n, NEW t, Moves(n, t)
  PROVE  /\ toggle' \in [Clicks -> ToggleType]
         /\ \A m \in Clicks : /\ toggle'[m].at = "none" <=> m > clicks
                              /\ toggle'[m].at # "none" => toggle'[m].user \in Fans
                              /\ toggle'[m].at \in {"read", "create", "delete"} => ~toggle'[m].liked
         /\ toggle'[n] = t /\ t.user \in Fans
         /\ \A m \in Clicks : toggle'[m].user = toggle[m].user /\ (m # n => toggle'[m] = toggle[m])
<1>1. toggle \in [Clicks -> ToggleType] /\ toggle[n].at \notin {"none", "done", "failed"}
  BY DEF FeedTypeOK, ClicksOK, Moves, Answered
<1>2. toggle'[n] = t /\ (\A m \in Clicks : m # n => toggle'[m] = toggle[m]) /\ toggle' \in [Clicks -> ToggleType]
  BY <1>1 DEF Moves
<1>3. t.user \in Fans /\ ~(n > clicks)
  BY <1>1 DEF FeedTypeOK, ClicksOK, Moves
<1> QED BY <1>2, <1>3 DEF FeedTypeOK, ClicksOK, Moves

LEMMA MoveFan ==
  ASSUME FeedTypeOK, NEW n, NEW t, Moves(n, t), NEW u, FanOK(u),
         u # t.user => (u \in likes' <=> u \in likes),
         u = t.user => Failed(u) \/ t.at \notin {"notify", "emit"} \/ (t.liked <=> u \in likes')
  PROVE  FanOK(u)'
<1>1. /\ toggle'[n] = t /\ n \in Clicks /\ ~Answered(n) /\ toggle[n].user = t.user
      /\ \A m \in Clicks : toggle'[m].user = toggle[m].user /\ (m # n => toggle'[m] = toggle[m])
  BY MoveTypes DEF Moves
<1>2. \A m \in Clicks : (~Answered(m))' => ~Answered(m)
  BY <1>1 DEF Answered
<1>3. Failed(u) => Failed(u)'
  BY <1>1 DEF Failed, Answered
<1>4. ASSUME ~Failed(u)', NEW m \in Clicks, toggle'[m].user = u, toggle'[m].at \in {"notify", "emit"}
      PROVE  toggle'[m].liked <=> u \in likes'
  <2>1. CASE m = n
    BY <1>1, <1>3, <1>4, <2>1
  <2>2. CASE m # n
    <3>1. ~Answered(m) /\ toggle'[m] = toggle[m] /\ toggle[m].user = u
      BY <1>1, <1>4, <2>2 DEF Answered
    <3>2. t.user # u
      BY <1>1, <2>2, <3>1 DEF FanOK
    <3> QED BY <1>3, <1>4, <3>1, <3>2 DEF FanOK
  <2> QED BY <2>1, <2>2
<1> QED BY <1>1, <1>2, <1>4 DEF FanOK

LEMMA MovePage ==
  ASSUME FeedTypeOK, NEW n, NEW t, Moves(n, t), NEW u, NEW v, PageOK(v, u), UNCHANGED <<wire, page, fetch, missed>>,
         u # t.user => (u \in likes' <=> u \in likes),
         u = t.user => \/ t.at \in {"failed", "notify", "emit"}
                       \/ toggle[n].at \notin {"notify", "emit"} /\ (u \in likes' <=> u \in likes)
  PROVE  PageOK(v, u)'
<1>1. /\ toggle'[n] = t /\ n \in Clicks /\ ~Answered(n) /\ toggle[n].user = t.user
      /\ \A m \in Clicks : toggle'[m].user = toggle[m].user /\ (m # n => toggle'[m] = toggle[m])
  BY MoveTypes DEF Moves
<1> SUFFICES ASSUME ~Failed(u)', ~Emitting(u)'
             PROVE  /\ Leaves(likes', wire[v], u, likes')
                    /\ v \notin missed => Leaves(page[v], wire[v], u, likes')
                    /\ \A f \in Fetches : Fresh(f, v) => Leaves(fetch[f].likes, wire[v], u, likes')
  BY DEF PageOK, Fresh
<1>2. ~Failed(u)
  BY <1>1 DEF Failed, Answered
<1>3. u \in likes' <=> u \in likes
  BY <1>1 DEF Failed, Emitting, At
<1>4. ~Emitting(u)
  BY <1>1 DEF Failed, Emitting, At
<1> QED BY <1>2, <1>3, <1>4 DEF PageOK, Leaves

LEMMA MoveHeart ==
  ASSUME FeedTypeOK, NEW n, NEW t, Moves(n, t), NEW v \in Fans, HeartOK(v), UNCHANGED <<wire, page, heart>>,
         v = t.user => \/ t.at \in {"failed", "read", "create", "delete"}
                       \/ /\ t.at \in {"notify", "emit"} /\ toggle[n].at \in {"notify", "emit"}
                          /\ t.liked <=> toggle[n].liked
                       \/ /\ t.at \in {"notify", "emit"} /\ ~(t.liked <=> v \in likes)
                          /\ ~Failed(v) => Leaves(page[v], wire[v], v, likes)
  PROVE  HeartOK(v)'
<1>1. /\ toggle'[n] = t /\ n \in Clicks /\ ~Answered(n) /\ toggle[n].user = t.user
      /\ \A m \in Clicks : toggle'[m].user = toggle[m].user /\ (m # n => toggle'[m] = toggle[m])
  BY MoveTypes DEF Moves
<1> SUFFICES ASSUME ~Failed(v)', ~(heart[v] <=> v \in page[v]),
                    \A i \in DOMAIN wire[v] : wire[v][i].user = v => (wire[v][i].liked <=> v \in page[v])
             PROVE  \/ At(v, {"read", "create", "delete"})'
                    \/ \E m \in Clicks : /\ toggle'[m].user = v /\ toggle'[m].at \in {"notify", "emit"}
                                         /\ ~(toggle'[m].liked <=> v \in page[v])
  BY DEF HeartOK
<1>2. ~Failed(v)
  BY <1>1 DEF Failed, Answered
<1>3. PICK m \in Clicks : /\ toggle[m].user = v
                          /\ \/ toggle[m].at \in {"read", "create", "delete"}
                             \/ toggle[m].at \in {"notify", "emit"} /\ ~(toggle[m].liked <=> v \in page[v])
  BY <1>2 DEF HeartOK, At
<1>4. CASE m # n
  BY <1>1, <1>3, <1>4 DEF At
<1>5. CASE m = n /\ t.at = "failed"
  BY <1>1, <1>3, <1>5 DEF Failed
<1>6. CASE m = n /\ t.at \in {"read", "create", "delete"}
  BY <1>1, <1>3, <1>6 DEF At
<1>7. CASE /\ m = n /\ t.at \in {"notify", "emit"} /\ toggle[n].at \in {"notify", "emit"}
           /\ t.liked <=> toggle[n].liked
  BY <1>1, <1>3, <1>7
<1>8. CASE /\ m = n /\ t.at \in {"notify", "emit"} /\ ~(t.liked <=> v \in likes)
           /\ ~Failed(v) => Leaves(page[v], wire[v], v, likes)
  <2>1. v \in page[v] <=> v \in likes
    BY <1>2, <1>8 DEF Leaves
  <2> QED BY <1>1, <1>3, <1>8, <2>1
<1> QED BY <1>1, <1>3, <1>4, <1>5, <1>6, <1>7, <1>8

-----------------------------------------------------------------------------
(* The shape of the state.                                                 *)
LEMMA MoveKeepsType ==
  ASSUME FeedTypeOK, NEW n, NEW t, Moves(n, t), UNCHANGED <<clicks, page, heart, loading, fetch, fetches, missed>>,
         likes' \subseteq Fans, errors' \in Nat, wire' \in [Fans -> Seq(EventType)]
  PROVE  FeedTypeOK'
BY MoveTypes DEF FeedTypeOK, ClicksOK

LEMMA FeedInvParts ==
  ASSUME FeedInv
  PROVE  /\ FeedTypeOK /\ Patient \subseteq Fans /\ {MaxClicks, MaxFetches, MaxErrors} \subseteq Nat
         /\ \A u \in Patient : FanOK(u) /\ (u \notin missed => HeartOK(u))
         /\ \A v \in Fans, u \in Patient : PageOK(v, u)
BY FeedAssumption DEF FeedInv

(* Every step of a handler but the last, and the failure of one.           *)
LEMMA ToggleKeeps ==
  ASSUME FeedInv, NEW n \in Clicks,
         FindLike(n) \/ DeleteLike(n) \/ CreateLike(n) \/ Notify(n) \/ NotifyFails(n) \/ ToggleFails(n)
  PROVE  FeedInv'
<1>0. /\ FeedTypeOK /\ Patient \subseteq Fans /\ toggle[n] \in ToggleType
      /\ toggle \in [Clicks -> ToggleType] /\ likes \subseteq Fans /\ errors \in Nat
      /\ toggle[n].at \in {"read", "create", "delete"} => ~toggle[n].liked
  BY FeedInvParts DEF FeedTypeOK, ClicksOK
<1>1. UNCHANGED shownFeed /\ clicks' = clicks /\ toggle[n].at \in {"read", "create", "delete", "notify"}
      /\ ~Answered(n)
  BY DEF FindLike, DeleteLike, CreateLike, Notify, NotifyFails, CatchNotify, ToggleFails, Answered
<1>2. toggle[n].user \in Fans
  BY <1>0, <1>1, FeedTypes
<1>3. PICK t \in ToggleType :
        /\ Moves(n, t) /\ errors' \in Nat /\ likes' \subseteq Fans
        /\ t.user = toggle[n].user
        /\ \A u : u # t.user => (u \in likes' <=> u \in likes)
        /\ \/ t.at = "failed"
           \/ /\ t.at \in {"create", "delete"} /\ toggle[n].at = "read" /\ likes' = likes
           \/ /\ t.at = "emit" /\ toggle[n].at = "notify" /\ likes' = likes /\ t.liked = toggle[n].liked
           \/ /\ t.at \in {"notify", "emit"} /\ toggle[n].at \in {"create", "delete"}
              /\ (t.liked <=> t.user \in likes') /\ ~(t.liked <=> t.user \in likes)
  <2> DEFINE Q(t) ==
        /\ Moves(n, t) /\ errors' \in Nat /\ likes' \subseteq Fans
        /\ t.user = toggle[n].user
        /\ \A u : u # t.user => (u \in likes' <=> u \in likes)
        /\ \/ t.at = "failed"
           \/ /\ t.at \in {"create", "delete"} /\ toggle[n].at = "read" /\ likes' = likes
           \/ /\ t.at = "emit" /\ toggle[n].at = "notify" /\ likes' = likes /\ t.liked = toggle[n].liked
           \/ /\ t.at \in {"notify", "emit"} /\ toggle[n].at \in {"create", "delete"}
              /\ (t.liked <=> t.user \in likes') /\ ~(t.liked <=> t.user \in likes)
  <2>1. PICK r \in ToggleType : r = toggle[n]
    BY <1>0
  <2>2. ASSUME NEW at \in Stages \ {"none"}, Proceed(n, at)
        PROVE  \E t \in ToggleType : /\ t.at = at /\ t.user = r.user /\ t.liked = r.liked
                                    /\ toggle' = [toggle EXCEPT ![n] = t]
    <3>1. PICK t : t = [r EXCEPT !.at = at]
      OBVIOUS
    <3>2. t \in ToggleType /\ t.at = at /\ t.user = r.user /\ t.liked = r.liked
      BY <2>1, <2>2, <3>1 DEF ToggleType
    <3> QED BY <1>0, <2>1, <2>2, <3>1, <3>2 DEF Proceed
  <2>3. CASE FindLike(n)
    <3>1. PICK t \in ToggleType : /\ t.at \in {"create", "delete"} /\ t.user = r.user /\ t.liked = r.liked
                                 /\ toggle' = [toggle EXCEPT ![n] = t]
      BY <2>1, <2>2, <2>3 DEF FindLike, Stages
    <3> QED BY <1>0, <1>1, <2>1, <2>3, <3>1 DEF FindLike, Moves
  <2>4. CASE DeleteLike(n)
    <3>1. PICK t \in ToggleType : /\ t.at = IF r.user \in likes THEN "emit" ELSE "failed"
                                 /\ t.user = r.user /\ t.liked = r.liked
                                 /\ toggle' = [toggle EXCEPT ![n] = t]
      BY <2>1, <2>2, <2>4 DEF DeleteLike, Stages
    <3> QED BY <1>0, <1>1, <2>1, <2>4, <3>1 DEF DeleteLike, Moves
  <2>5. CASE CreateLike(n)
    <3>1. PICK at : at = IF r.user \in likes THEN "failed" ELSE IF r.user = Writer THEN "emit" ELSE "notify"
      OBVIOUS
    <3>2. PICK t : t = [r EXCEPT !.liked = TRUE, !.at = at]
      OBVIOUS
    <3>3. t \in ToggleType /\ t.at = at /\ t.user = r.user /\ t.liked
      BY <2>1, <3>1, <3>2 DEF ToggleType, Stages
    <3>4. toggle' = [toggle EXCEPT ![n] = t]
      BY <1>0, <2>1, <2>5, <3>1, <3>2 DEF CreateLike
    <3> QED BY <1>0, <1>1, <1>2, <2>1, <2>5, <3>1, <3>3, <3>4 DEF CreateLike, Moves
  <2>6. CASE Notify(n) \/ NotifyFails(n)
    <3>1. PICK t \in ToggleType : /\ t.at = "emit" /\ t.user = r.user /\ t.liked = r.liked
                                 /\ toggle' = [toggle EXCEPT ![n] = t]
      BY <2>1, <2>2, <2>6 DEF Notify, NotifyFails, CatchNotify, Stages
    <3>2. toggle[n].at = "notify" /\ likes' = likes /\ errors' \in Nat
      BY <1>0, <2>6 DEF Notify, NotifyFails, FeedError
    <3>3. Moves(n, t)
      BY <1>1, <2>1, <3>1 DEF Moves
    <3> QED BY <1>0, <2>1, <3>1, <3>2, <3>3
  <2>7. CASE ToggleFails(n)
    <3>1. PICK t \in ToggleType : /\ t.at = "failed" /\ t.user = r.user /\ t.liked = r.liked
                                 /\ toggle' = [toggle EXCEPT ![n] = t]
      BY <2>1, <2>2, <2>7 DEF ToggleFails, Stages
    <3>2. likes' = likes /\ errors' \in Nat
      BY <1>0, <2>7 DEF ToggleFails, FeedError
    <3>3. Moves(n, t)
      BY <1>1, <2>1, <3>1 DEF Moves
    <3> QED BY <1>0, <2>1, <3>1, <3>2, <3>3
  <2> QED BY <2>3, <2>4, <2>5, <2>6, <2>7
<1>4. UNCHANGED <<wire, page, heart, loading, fetch, fetches, missed>>
  BY <1>1 DEF shownFeed
<1>5. FeedTypeOK'
  BY <1>0, <1>1, <1>3, <1>4, MoveKeepsType DEF FeedTypeOK, ClicksOK
<1>6. ASSUME NEW u \in Patient PROVE FanOK(u)'
  <2>1. u = t.user => Failed(u) \/ t.at \notin {"notify", "emit"} \/ (t.liked <=> u \in likes')
    BY <1>0, <1>1, <1>3, <1>6, FeedInvParts DEF FanOK, Failed, Moves
  <2> QED BY <1>0, <1>3, <1>6, <2>1, FeedInvParts, MoveFan
<1>7. ASSUME NEW v \in Fans, NEW u \in Patient PROVE PageOK(v, u)'
  <2>1. u = t.user => \/ t.at \in {"failed", "notify", "emit"}
                      \/ toggle[n].at \notin {"notify", "emit"} /\ (u \in likes' <=> u \in likes)
    BY <1>3
  <2> QED BY <1>0, <1>3, <1>4, <1>7, <2>1, FeedInvParts, MovePage
<1>8. ASSUME NEW v \in Patient, v \notin missed PROVE HeartOK(v)'
  <2>1. ASSUME v = t.user, toggle[n].at \in {"create", "delete"}, ~Failed(v)
        PROVE  Leaves(page[v], wire[v], v, likes)
    <3>1. ~Emitting(v)
      BY <1>1, <1>3, <1>8, <2>1, FeedInvParts DEF Emitting, At, FanOK, Answered
    <3> QED BY <1>0, <1>8, <2>1, <3>1, FeedInvParts DEF PageOK
  <2>2. v = t.user => \/ t.at \in {"failed", "read", "create", "delete"}
                      \/ /\ t.at \in {"notify", "emit"} /\ toggle[n].at \in {"notify", "emit"}
                         /\ t.liked <=> toggle[n].liked
                      \/ /\ t.at \in {"notify", "emit"} /\ ~(t.liked <=> v \in likes)
                         /\ ~Failed(v) => Leaves(page[v], wire[v], v, likes)
    BY <1>3, <2>1
  <2> QED BY <1>0, <1>3, <1>4, <1>8, <2>2, FeedInvParts, MoveHeart
<1> QED BY <1>4, <1>5, <1>6, <1>7, <1>8 DEF FeedInv

LEMMA EmitKeeps == ASSUME FeedInv, NEW n \in Clicks, EmitToAll(n) PROVE FeedInv'
<1>0. /\ FeedTypeOK /\ Patient \subseteq Fans /\ toggle[n] \in ToggleType
      /\ toggle \in [Clicks -> ToggleType] /\ wire \in [Fans -> Seq(EventType)]
      /\ toggle[n].at = "emit" /\ ~Answered(n) /\ toggle[n].user \in Fans
  BY FeedInvParts, FeedTypes DEF FeedTypeOK, ClicksOK, EmitToAll, Answered
<1>1. PICK t : t = [toggle[n] EXCEPT !.at = "done"]
  OBVIOUS
<1>2. t \in ToggleType /\ t.at = "done" /\ t.user = toggle[n].user /\ Moves(n, t)
  BY <1>0, <1>1 DEF Moves, ToggleType, Stages, EmitToAll, Proceed
<1>3. PICK e : e = [user |-> toggle[n].user, liked |-> toggle[n].liked]
  OBVIOUS
<1>4. e \in EventType /\ e.user = t.user /\ e.liked = toggle[n].liked
  BY <1>0, <1>2, <1>3 DEF EventType, ToggleType
<1>5. /\ wire' = [v \in Fans |-> Append(wire[v], e)] /\ wire' \in [Fans -> Seq(EventType)]
      /\ \A v \in Fans : wire'[v] = Append(wire[v], e) /\ wire[v] \in Seq(EventType)
      /\ UNCHANGED <<likes, clicks, page, heart, loading, fetch, fetches, missed, errors>>
  <2>1. wire' = [v \in Fans |-> Append(wire[v], e)]
    BY <1>3 DEF EmitToAll
  <2>2. \A v \in Fans : wire[v] \in Seq(EventType) /\ Append(wire[v], e) \in Seq(EventType)
    BY <1>0, <1>4, AppendProperties
  <2> QED BY <2>1, <2>2 DEF EmitToAll
<1>6. FeedTypeOK'
  BY <1>0, <1>2, <1>5, MoveKeepsType DEF FeedTypeOK, ClicksOK
<1>7. ASSUME NEW u \in Patient PROVE FanOK(u)'
  BY <1>0, <1>2, <1>5, <1>7, FeedInvParts, MoveFan
<1>8. /\ toggle'[n] = t /\ \A m \in Clicks : toggle'[m].user = toggle[m].user /\ (m # n => toggle'[m] = toggle[m])
  BY <1>0, <1>2, MoveTypes
<1>9. \A u : Failed(u) => Failed(u)'
  BY <1>0, <1>8 DEF Failed
<1>10. ASSUME NEW v \in Fans, NEW u \in Patient PROVE PageOK(v, u)'
  <2> SUFFICES ASSUME ~Failed(u)', ~Emitting(u)'
               PROVE  /\ Leaves(likes, wire'[v], u, likes)
                      /\ v \notin missed => Leaves(page[v], wire'[v], u, likes)
                      /\ \A f \in Fetches : Fresh(f, v) => Leaves(fetch[f].likes, wire'[v], u, likes)
    BY <1>5 DEF PageOK, Fresh
  <2>1. ~Failed(u)
    BY <1>9
  <2>2. CASE u = e.user
    <3>1. e.liked <=> u \in likes
      BY <1>0, <1>2, <1>4, <1>10, <2>1, <2>2, FeedInvParts DEF FanOK
    <3> QED BY <1>4, <1>5, <1>10, <2>2, <3>1, LeavesAppend
  <2>3. CASE u # e.user
    <3>1. ~Emitting(u)
      BY <1>2, <1>4, <1>8, <2>3 DEF Emitting, At
    <3>2. /\ Leaves(likes, wire[v], u, likes)
          /\ v \notin missed => Leaves(page[v], wire[v], u, likes)
          /\ \A f \in Fetches : Fresh(f, v) => Leaves(fetch[f].likes, wire[v], u, likes)
      BY <1>10, <2>1, <3>1, FeedInvParts DEF PageOK
    <3>3. \A S : Leaves(S, wire[v], u, likes) => Leaves(S, Append(wire[v], e), u, likes)
      BY <1>4, <1>5, <1>10, <2>3, LeavesAppend
    <3> QED BY <1>5, <3>2, <3>3
  <2> QED BY <2>2, <2>3
<1>11. ASSUME NEW v \in Patient, v \notin missed PROVE HeartOK(v)'
  <2> DEFINE w == wire[v]
             x == Append(wire[v], e)
  <2>1. /\ DOMAIN w = 1..Len(w) /\ DOMAIN x = 1..(Len(w) + 1) /\ Len(w) \in Nat
        /\ x[Len(w) + 1] = e /\ \A i \in DOMAIN w : x[i] = w[i]
    BY <1>0, <1>4, <1>5, <1>11, AppendProperties, LenProperties
  <2> HIDE DEF w, x
  <2> SUFFICES ASSUME ~Failed(v)', ~(heart[v] <=> v \in page[v]),
                      \A i \in DOMAIN x : x[i].user = v => (x[i].liked <=> v \in page[v])
               PROVE  \/ At(v, {"read", "create", "delete"})'
                      \/ \E m \in Clicks : /\ toggle'[m].user = v /\ toggle'[m].at \in {"notify", "emit"}
                                           /\ ~(toggle'[m].liked <=> v \in page[v])
    BY <1>0, <1>5, <1>11 DEF HeartOK, x
  <2>2. ~Failed(v) /\ HeartOK(v)
    BY <1>9, <1>11, FeedInvParts
  <2>3. \A i \in DOMAIN w : w[i].user = v => (w[i].liked <=> v \in page[v])
    BY <2>1
  <2>4. PICK m \in Clicks : /\ toggle[m].user = v
                            /\ \/ toggle[m].at \in {"read", "create", "delete"}
                               \/ toggle[m].at \in {"notify", "emit"} /\ ~(toggle[m].liked <=> v \in page[v])
    BY <2>2, <2>3 DEF HeartOK, At, w
  <2>5. m # n
    <3>1. Len(w) + 1 \in DOMAIN x /\ x[Len(w) + 1] = e
      BY <2>1
    <3>2. e.user = v => (e.liked <=> v \in page[v])
      BY <3>1
    <3> QED BY <1>0, <1>2, <1>4, <2>4, <3>2
  <2> QED BY <1>8, <2>4, <2>5 DEF At
<1> QED BY <1>5, <1>6, <1>7, <1>10, <1>11 DEF FeedInv

LEMMA ClickKeeps == ASSUME FeedInv, NEW v \in Fans, ClickHeart(v) PROVE FeedInv'
<1>0. /\ FeedTypeOK /\ Patient \subseteq Fans /\ MaxClicks \in Nat /\ clicks \in 0..MaxClicks
      /\ toggle \in [Clicks -> ToggleType] /\ heart \in [Fans -> BOOLEAN]
  BY FeedInvParts DEF FeedTypeOK, ClicksOK
<1>1. PICK n : n = clicks + 1
  OBVIOUS
<1>2. PICK t : t = [user |-> v, at |-> "read", liked |-> FALSE]
  OBVIOUS
<1>3. /\ n \in Clicks /\ clicks' = n /\ clicks' \in 0..MaxClicks /\ toggle' = [toggle EXCEPT ![n] = t]
      /\ heart' = [heart EXCEPT ![v] = ~@] /\ (v \in Patient => Idling(v))
      /\ UNCHANGED <<likes, wire, page, loading, fetch, fetches, missed, errors>>
  BY <1>0, <1>1, <1>2 DEF ClickHeart, Clicks
<1>4. t \in ToggleType /\ t.user = v /\ t.at = "read" /\ t.liked = FALSE /\ toggle[n].at = "none"
  BY <1>0, <1>1, <1>2, <1>3 DEF ToggleType, Stages, FeedTypeOK, ClicksOK
<1>5. toggle'[n] = t /\ \A m \in Clicks : m # n => toggle'[m] = toggle[m]
  BY <1>0, <1>3
<1>6. heart'[v] = ~heart[v] /\ \A u \in Fans : u # v => heart'[u] = heart[u]
  BY <1>0, <1>3
<1>7. FeedTypeOK'
  <2>1. toggle' \in [Clicks -> ToggleType] /\ heart' \in [Fans -> BOOLEAN]
    BY <1>0, <1>3, <1>4
  <2>2. ClicksOK'
    <3>1. \A m \in Clicks : m \in Nat /\ (m # n => (m > clicks <=> m > n)) /\ (m = n => ~(m > n))
      BY <1>0, <1>1 DEF Clicks
    <3>2. ClicksOK
      BY <1>0 DEF FeedTypeOK
    <3> SUFFICES ASSUME NEW m \in Clicks
                 PROVE  /\ toggle'[m].at = "none" <=> m > n
                        /\ toggle'[m].at # "none" => toggle'[m].user \in Fans
                        /\ toggle'[m].at \in {"read", "create", "delete"} => ~toggle'[m].liked
      BY <1>3 DEF ClicksOK
    <3>3. CASE m = n
      BY <1>4, <1>5, <3>1, <3>3
    <3>4. CASE m # n
      BY <1>5, <3>1, <3>2, <3>4 DEF ClicksOK
    <3> QED BY <3>3, <3>4
  <2>3. /\ likes' \subseteq Fans /\ missed' \subseteq Fans /\ clicks' \in 0..MaxClicks /\ fetches' \in Nat
        /\ errors' \in Nat /\ wire' \in [Fans -> Seq(EventType)] /\ page' \in [Fans -> SUBSET Fans]
        /\ fetch' \in [Fetches -> FetchType] /\ loading' \in [Fans -> BOOLEAN]
        /\ \A f \in Fetches : fetch'[f].at # "none" => fetch'[f].by \in Fans
    BY <1>0, <1>3 DEF FeedTypeOK, ClicksOK
  <2> QED BY <2>1, <2>2, <2>3 DEF FeedTypeOK, ClicksOK
<1>8. \A u : Failed(u)' <=> Failed(u)
  BY <1>3, <1>4, <1>5 DEF Failed
<1>9. \A u : Emitting(u)' <=> Emitting(u)
  BY <1>3, <1>4, <1>5 DEF Emitting, At
<1>10. ASSUME NEW u \in Patient PROVE FanOK(u)'
  <2>1. CASE u = v
    <3>1. \A m \in Clicks : m # n /\ toggle'[m].user = u => Answered(m) /\ toggle'[m] = toggle[m]
      BY <1>3, <1>5, <1>10, <2>1 DEF Idling
    <3>2. \A m \in Clicks : m # n /\ toggle'[m].user = u => Answered(m)'
      BY <3>1 DEF Answered
    <3> QED BY <1>4, <1>5, <3>2 DEF FanOK, Answered
  <2>2. CASE u # v
    BY <1>3, <1>4, <1>5, <1>8, <1>10, <2>2, FeedInvParts DEF FanOK, Answered
  <2> QED BY <2>1, <2>2
<1>11. ASSUME NEW p \in Fans, NEW u \in Patient PROVE PageOK(p, u)'
  BY <1>3, <1>8, <1>9, <1>11, FeedInvParts DEF PageOK, Fresh
<1>12. ASSUME NEW u \in Patient, u \notin missed PROVE HeartOK(u)'
  <2>1. CASE u = v
    BY <1>3, <1>4, <1>5, <2>1 DEF HeartOK, At
  <2>2. CASE u # v
    <3>1. \A m \in Clicks : toggle[m].user = u /\ toggle[m].at # "none" => toggle'[m] = toggle[m]
      BY <1>4, <1>5
    <3>2. HeartOK(u) /\ heart'[u] = heart[u]
      BY <1>0, <1>6, <1>12, <2>2, FeedInvParts
    <3> QED BY <1>3, <1>8, <3>1, <3>2 DEF HeartOK, At
  <2> QED BY <2>1, <2>2
<1> QED BY <1>3, <1>7, <1>10, <1>11, <1>12 DEF FeedInv

LEMMA ServerDiesKeeps == ASSUME FeedInv, ServerDies PROVE FeedInv'
<1>0. /\ FeedTypeOK /\ toggle \in [Clicks -> ToggleType] /\ errors \in Nat /\ Patient \subseteq Fans
  BY FeedInvParts DEF FeedTypeOK, ClicksOK
<1>1. UNCHANGED <<likes, clicks, wire, page, heart, loading, fetch, fetches, missed>> /\ errors' \in Nat
  BY <1>0 DEF ServerDies, FeedError, shownFeed
<1>2. ASSUME NEW n \in Clicks
      PROVE  /\ toggle'[n] \in ToggleType /\ toggle'[n].user = toggle[n].user
             /\ Answered(n) => toggle'[n] = toggle[n]
             /\ ~Answered(n) => toggle'[n].at = "failed"
  <2>1. PICK r \in ToggleType : r = toggle[n]
    BY <1>0
  <2>2. PICK t : t = [r EXCEPT !.at = "failed"]
    OBVIOUS
  <2>3. t \in ToggleType /\ t.user = r.user /\ t.at = "failed"
    BY <2>2 DEF ToggleType, Stages
  <2>4. toggle'[n] = IF Answered(n) THEN r ELSE t
    BY <2>1, <2>2 DEF ServerDies
  <2> QED BY <2>1, <2>3, <2>4
<1>3. FeedTypeOK'
  <2>1. toggle' \in [Clicks -> ToggleType]
    BY <1>2 DEF ServerDies
  <2>2. ClicksOK'
    BY <1>0, <1>1, <1>2 DEF FeedTypeOK, ClicksOK, Answered
  <2>3. /\ likes' \subseteq Fans /\ missed' \subseteq Fans /\ clicks' \in 0..MaxClicks /\ fetches' \in Nat
        /\ errors' \in Nat /\ wire' \in [Fans -> Seq(EventType)] /\ page' \in [Fans -> SUBSET Fans]
        /\ fetch' \in [Fetches -> FetchType] /\ heart' \in [Fans -> BOOLEAN]
        /\ loading' \in [Fans -> BOOLEAN]
        /\ \A f \in Fetches : fetch'[f].at # "none" => fetch'[f].by \in Fans
    BY <1>0, <1>1 DEF FeedTypeOK, ClicksOK
  <2> QED BY <2>1, <2>2, <2>3 DEF FeedTypeOK
<1>4. ASSUME NEW u
      PROVE  \/ Failed(u)'
             \/ /\ ~Failed(u)
                /\ \A n \in Clicks : toggle[n].user = u => Answered(n) /\ toggle'[n] = toggle[n]
  BY <1>2 DEF Failed, Answered
<1>5. \A n \in Clicks : Answered(n)'
  BY <1>2 DEF Answered
<1>6. ASSUME NEW u \in Patient PROVE FanOK(u)'
  BY <1>5 DEF FanOK, Answered
<1>7. ASSUME NEW p \in Fans, NEW u \in Patient PROVE PageOK(p, u)'
  <2>1. CASE Failed(u)'
    BY <2>1 DEF PageOK
  <2>2. CASE ~Failed(u)'
    <3>1. ~Failed(u) /\ ~Emitting(u)
      BY <1>4, <2>2 DEF Emitting, At, Answered
    <3> QED BY <1>1, <1>7, <3>1, FeedInvParts DEF PageOK, Fresh
  <2> QED BY <2>1, <2>2
<1>8. ASSUME NEW u \in Patient, u \notin missed PROVE HeartOK(u)'
  <2>1. CASE Failed(u)'
    BY <2>1 DEF HeartOK
  <2>2. CASE ~Failed(u)'
    <3>1. ~Failed(u) /\ HeartOK(u) /\ \A n \in Clicks : toggle[n].user = u => Answered(n)
      BY <1>4, <1>8, <2>2, FeedInvParts
    <3> QED BY <1>1, <3>1 DEF HeartOK, At, Answered
  <2> QED BY <2>1, <2>2
<1> QED BY <1>1, <1>3, <1>6, <1>7, <1>8 DEF FeedInv

-----------------------------------------------------------------------------
(* The pages.  Only page v changes.                                        *)
OnePage(v) ==
  /\ UNCHANGED <<likes, toggle, clicks>>
  /\ \A p \in Fans \ {v} :
       /\ wire'[p] = wire[p] /\ page'[p] = page[p] /\ heart'[p] = heart[p]
       /\ p \in missed' <=> p \in missed
       /\ \A f \in Fetches : Fresh(f, p)' => Fresh(f, p) /\ fetch'[f].likes = fetch[f].likes

LEMMA PageKeeps ==
  ASSUME FeedInv, NEW v \in Fans, OnePage(v), FeedTypeOK',
         \A u \in Patient : PageOK(v, u)',
         v \in Patient \ missed' => HeartOK(v)'
  PROVE  FeedInv'
<1>1. /\ \A u \in Patient : FanOK(u) /\ (u \notin missed => HeartOK(u))
      /\ \A p \in Fans, u \in Patient : PageOK(p, u)
      /\ Patient \subseteq Fans
  BY FeedInvParts
<1>2. \A u : Failed(u)' <=> Failed(u)
  BY DEF OnePage, Failed
<1>3. \A u : FanOK(u) => FanOK(u)'
  BY <1>2 DEF OnePage, FanOK, Answered
<1>4. ASSUME NEW p \in Fans, p # v, NEW u \in Patient PROVE PageOK(p, u)'
  BY <1>1, <1>2, <1>4 DEF OnePage, PageOK, Emitting, At
<1>5. ASSUME NEW p \in Patient, p # v, p \notin missed' PROVE HeartOK(p)'
  BY <1>1, <1>2, <1>5 DEF OnePage, HeartOK, At
<1> QED BY <1>1, <1>3, <1>4, <1>5 DEF FeedInv

(* What v took, or lost, makes its feeds stale, and no other feed.         *)
LEMMA Outdated ==
  ASSUME FeedTypeOK, NEW v \in Fans, Outdate(v)
  PROVE  /\ fetch' \in [Fetches -> FetchType]
         /\ \A f \in Fetches : fetch'[f].at # "none" => fetch'[f].by \in Fans
         /\ \A f \in Fetches : ~Fresh(f, v)'
         /\ \A p, f \in Fetches \cup Fans :
              f \in Fetches /\ Fresh(f, p)' => Fresh(f, p) /\ fetch'[f].likes = fetch[f].likes
<1>1. fetch \in [Fetches -> FetchType] /\ \A f \in Fetches : fetch[f].at # "none" => fetch[f].by \in Fans
  BY DEF FeedTypeOK
<1>2. ASSUME NEW f \in Fetches
      PROVE  /\ fetch'[f] \in FetchType
             /\ \/ fetch'[f] = fetch[f] /\ ~(fetch[f].by = v /\ fetch[f].at = "read")
                \/ fetch'[f].stale /\ fetch'[f].by = fetch[f].by /\ fetch'[f].at = fetch[f].at
  <2>1. PICK g : g = [fetch[f] EXCEPT !.stale = TRUE]
    OBVIOUS
  <2>2. g \in FetchType /\ g.stale /\ g.by = fetch[f].by /\ g.at = fetch[f].at
    BY <1>1, <2>1 DEF FetchType
  <2>3. fetch'[f] = IF fetch[f].by = v /\ fetch[f].at = "read" THEN g ELSE fetch[f]
    BY <2>1 DEF Outdate
  <2> QED BY <1>1, <2>2, <2>3
<1>3. fetch' \in [Fetches -> FetchType]
  BY <1>2 DEF Outdate
<1> QED BY <1>1, <1>2, <1>3 DEF Fresh

LEMMA Resyncs ==
  ASSUME heart \in [Fans -> BOOLEAN], NEW v \in Fans, Resync(v)
  PROVE  /\ heart' \in [Fans -> BOOLEAN] /\ (heart'[v] <=> v \in page'[v])
         /\ \A p \in Fans \ {v} : heart'[p] = heart[p]
<1>1. PICK b \in BOOLEAN : b <=> v \in page'[v]
  OBVIOUS
<1>2. heart' = [heart EXCEPT ![v] = b]
  BY <1>1 DEF Resync
<1> QED BY <1>1, <1>2

LEMMA ReceiveKeeps == ASSUME FeedInv, NEW v \in Fans, Receive(v) PROVE FeedInv'
<1>0. /\ FeedTypeOK /\ Patient \subseteq Fans
      /\ wire \in [Fans -> Seq(EventType)] /\ page \in [Fans -> SUBSET Fans] /\ heart \in [Fans -> BOOLEAN]
      /\ missed \subseteq Fans
  BY FeedInvParts DEF FeedTypeOK, ClicksOK
<1>1. PICK s \in Seq(EventType) : s = wire[v] /\ s # <<>>
  BY <1>0 DEF Receive
<1>2. Head(s) \in EventType /\ Tail(s) \in Seq(EventType)
  BY <1>1, HeadTailProperties
<1>3. /\ wire' = [wire EXCEPT ![v] = Tail(s)] /\ page' = [page EXCEPT ![v] = Took(page[v], Head(s))]
      /\ UNCHANGED <<likes, toggle, clicks, loading, fetches, missed, errors>> /\ Outdate(v)
  BY <1>0, <1>1 DEF Receive, Took
<1>4. \/ heart' = heart /\ page' = page
      \/ Resync(v)
  BY DEF Receive
<1>5. Took(page[v], Head(s)) \in SUBSET Fans
  BY <1>0, <1>2 DEF Took, EventType
<1>6. /\ wire'[v] = Tail(s) /\ page'[v] = Took(page[v], Head(s))
      /\ wire' \in [Fans -> Seq(EventType)] /\ page' \in [Fans -> SUBSET Fans]
      /\ heart' \in [Fans -> BOOLEAN]
  BY <1>0, <1>2, <1>3, <1>4, <1>5, Resyncs
<1>7. FeedTypeOK'
  BY <1>0, <1>3, <1>6, Outdated DEF FeedTypeOK, ClicksOK
<1>8. OnePage(v)
  BY <1>0, <1>3, <1>4, Resyncs, Outdated DEF OnePage
<1>9. ASSUME NEW u \in Patient PROVE PageOK(v, u)'
  <2> SUFFICES ASSUME ~Failed(u)', ~Emitting(u)'
               PROVE  /\ Leaves(likes, Tail(s), u, likes)
                      /\ v \notin missed => Leaves(page'[v], Tail(s), u, likes)
    BY <1>0, <1>3, <1>6, Outdated DEF PageOK
  <2>1. ~Failed(u) /\ ~Emitting(u)
    BY <1>3 DEF Failed, Emitting, At
  <2>2. Leaves(likes, s, u, likes) /\ (v \notin missed => Leaves(page[v], s, u, likes))
    BY <1>1, <1>9, <2>1, FeedInvParts DEF PageOK
  <2>3. Leaves(Took(likes, Head(s)), Tail(s), u, likes)
    BY <1>1, <2>2, LeavesTail
  <2> QED BY <1>1, <1>6, <2>2, <2>3, LeavesTail, LeavesFresh
<1>10. ASSUME v \in Patient, v \notin missed' PROVE HeartOK(v)'
  <2>1. CASE heart'[v] <=> v \in page'[v]
    BY <2>1 DEF HeartOK
  <2>2. CASE heart' = heart /\ page' = page
    <3>1. HeartOK(v) /\ Took(page[v], Head(s)) = page[v] /\ (Failed(v)' <=> Failed(v))
      BY <1>0, <1>3, <1>6, <1>10, <2>2, FeedInvParts DEF Failed
    <3>2. /\ DOMAIN s = 1..Len(s) /\ DOMAIN Tail(s) = 1..(Len(s) - 1) /\ Len(s) \in Nat \ {0}
          /\ Head(s) = s[1] /\ \A i \in DOMAIN Tail(s) : Tail(s)[i] = s[i + 1]
      BY <1>1, HeadTailProperties, LenProperties, EmptySeq
    <3>3. s[1].user = v => (s[1].liked <=> v \in page[v])
      BY <3>1, <3>2 DEF Took
    <3>4. ASSUME NEW i \in DOMAIN s, s[i].user = v, ~(s[i].liked <=> v \in page[v])
          PROVE  \E j \in DOMAIN Tail(s) : Tail(s)[j].user = v /\ ~(Tail(s)[j].liked <=> v \in page[v])
      <4>1. i # 1
        BY <3>3, <3>4
      <4>2. i - 1 \in DOMAIN Tail(s) /\ Tail(s)[i - 1] = s[i]
        BY <3>2, <3>4, <4>1
      <4> QED BY <3>4, <4>2
    <3> QED BY <1>1, <1>3, <1>6, <2>2, <3>1, <3>4 DEF HeartOK, At
  <2>3. CASE Resync(v)
    BY <1>0, <2>1, <2>3, Resyncs
  <2> QED BY <1>4, <2>2, <2>3
<1> QED BY <1>7, <1>8, <1>9, <1>10, PageKeeps

(* The events that v lost are no longer on their way.                      *)
LEMMA DisconnectKeeps == ASSUME FeedInv, NEW v \in Fans, Disconnect(v) PROVE FeedInv'
<1>0. FeedTypeOK /\ Patient \subseteq Fans
  BY FeedInvParts
<1>1. /\ wire' = [wire EXCEPT ![v] = <<>>] /\ missed' = missed \cup {v} /\ Outdate(v) /\ errors' \in Nat
      /\ UNCHANGED <<likes, toggle, clicks, page, heart, loading, fetches>>
  BY <1>0 DEF Disconnect, FeedError, FeedTypeOK
<1>2. wire'[v] = <<>> /\ wire' \in [Fans -> Seq(EventType)] /\ missed' \subseteq Fans
  BY <1>0, <1>1 DEF FeedTypeOK
<1>3. FeedTypeOK'
  BY <1>0, <1>1, <1>2, Outdated DEF FeedTypeOK, ClicksOK
<1>4. OnePage(v)
  BY <1>0, <1>1, Outdated DEF OnePage, FeedTypeOK
<1>5. ASSUME NEW u \in Patient PROVE PageOK(v, u)'
  <2>1. Leaves(likes', <<>>, u, likes')
    BY DEF Leaves
  <2> QED BY <1>0, <1>1, <1>2, <2>1, Outdated DEF PageOK
<1> QED BY <1>1, <1>3, <1>4, <1>5, PageKeeps

LEMMA FetchFeedKeeps == ASSUME FeedInv, NEW v \in Fans, FetchFeed(v) PROVE FeedInv'
<1>0. /\ FeedTypeOK /\ fetch \in [Fetches -> FetchType] /\ loading \in [Fans -> BOOLEAN]
      /\ fetches \in Nat /\ MaxFetches \in Nat /\ Patient \subseteq Fans
      /\ \A f \in Fetches : fetch[f].at # "none" => fetch[f].by \in Fans
  BY FeedInvParts DEF FeedTypeOK
<1>1. PICK r : r = [NoFetch EXCEPT !.by = v, !.at = "asked"]
  OBVIOUS
<1>2. r \in FetchType /\ r.by = v /\ r.at = "asked"
  BY <1>1 DEF FetchType, NoFetch
<1>3. PICK f \in Fetches : f = fetches + 1
  BY <1>0 DEF Fetches, FetchFeed
<1>4. /\ fetches' \in Nat /\ fetch' = [fetch EXCEPT ![f] = r] /\ loading' = [loading EXCEPT ![v] = TRUE]
      /\ UNCHANGED <<likes, toggle, clicks, wire, page, heart, missed, errors>>
  BY <1>0, <1>1, <1>3 DEF FetchFeed
<1>5. /\ fetch' \in [Fetches -> FetchType] /\ fetch'[f] = r
      /\ \A g \in Fetches \ {f} : fetch'[g] = fetch[g]
  BY <1>0, <1>2, <1>4
<1>6. FeedTypeOK'
  BY <1>0, <1>2, <1>4, <1>5 DEF FeedTypeOK, ClicksOK
<1>7. \A p : \A g \in Fetches : Fresh(g, p)' => Fresh(g, p) /\ fetch'[g].likes = fetch[g].likes
  BY <1>2, <1>5 DEF Fresh
<1>8. OnePage(v)
  BY <1>4, <1>7 DEF OnePage
<1>9. ASSUME NEW u \in Patient PROVE PageOK(v, u)'
  BY <1>4, <1>7, <1>9, FeedInvParts DEF PageOK, Failed, Emitting, At
<1>10. ASSUME v \in Patient \ missed' PROVE HeartOK(v)'
  BY <1>4, <1>10, FeedInvParts DEF HeartOK, Failed, At
<1> QED BY <1>6, <1>8, <1>9, <1>10, PageKeeps

LEMMA FindAllKeeps == ASSUME FeedInv, NEW f \in Fetches, FindAll(f) PROVE FeedInv'
<1>0. /\ FeedTypeOK /\ fetch \in [Fetches -> FetchType] /\ likes \subseteq Fans /\ Patient \subseteq Fans
      /\ \A g \in Fetches : fetch[g].at # "none" => fetch[g].by \in Fans
  BY FeedInvParts DEF FeedTypeOK
<1>1. PICK r : r = [fetch[f] EXCEPT !.at = "read", !.likes = likes]
  OBVIOUS
<1>2. /\ r \in FetchType /\ r.by = fetch[f].by /\ r.likes = likes /\ r.stale = fetch[f].stale
  BY <1>0, <1>1 DEF FetchType
<1>3. PICK v \in Fans : v = fetch[f].by
  BY <1>0 DEF FindAll
<1>4. /\ fetch' = [fetch EXCEPT ![f] = r]
      /\ UNCHANGED <<likes, toggle, clicks, wire, page, heart, loading, fetches, missed, errors>>
  BY <1>0, <1>1 DEF FindAll
<1>5. /\ fetch' \in [Fetches -> FetchType] /\ fetch'[f] = r
      /\ \A g \in Fetches \ {f} : fetch'[g] = fetch[g]
  BY <1>0, <1>2, <1>4
<1>6. FeedTypeOK'
  BY <1>0, <1>2, <1>3, <1>4, <1>5 DEF FeedTypeOK, ClicksOK
<1>7. \A p : \A g \in Fetches : Fresh(g, p)' =>
        \/ Fresh(g, p) /\ fetch'[g].likes = fetch[g].likes
        \/ p = v /\ fetch'[g].likes = likes
  BY <1>2, <1>3, <1>5 DEF Fresh
<1>8. OnePage(v)
  BY <1>4, <1>7 DEF OnePage
<1>9. ASSUME NEW u \in Patient PROVE PageOK(v, u)'
  BY <1>4, <1>7, <1>9, FeedInvParts DEF PageOK, Failed, Emitting, At
<1>10. ASSUME v \in Patient \ missed' PROVE HeartOK(v)'
  BY <1>4, <1>10, FeedInvParts DEF HeartOK, Failed, At
<1> QED BY <1>6, <1>8, <1>9, <1>10, PageKeeps

(* A fetch ends, with its posts or without.                                *)
LEMMA FetchEndKeeps == ASSUME FeedInv, NEW f \in Fetches, SetPosts(f) \/ FetchFails(f) PROVE FeedInv'
<1>0. /\ FeedTypeOK /\ fetch \in [Fetches -> FetchType] /\ page \in [Fans -> SUBSET Fans]
      /\ heart \in [Fans -> BOOLEAN] /\ loading \in [Fans -> BOOLEAN] /\ missed \subseteq Fans
      /\ errors \in Nat /\ Patient \subseteq Fans
      /\ \A g \in Fetches : fetch[g].at # "none" => fetch[g].by \in Fans
      /\ fetch[f].likes \subseteq Fans
  BY FeedInvParts, FeedTypes DEF FeedTypeOK
<1>1. NoFetch \in FetchType /\ NoFetch.at = "none"
  BY DEF FetchType, NoFetch
<1>2. PICK v \in Fans : v = fetch[f].by
  BY <1>0 DEF SetPosts, FetchFails
<1>3. /\ fetch' = [fetch EXCEPT ![f] = NoFetch] /\ loading' = [loading EXCEPT ![v] = FALSE]
      /\ UNCHANGED <<likes, toggle, clicks, wire, fetches>> /\ errors' \in Nat
      /\ Resync(v) \/ (heart' = heart /\ page' = page /\ missed' = missed)
      /\ \/ page' = page /\ missed' = missed
         \/ /\ fetch[f].at = "read" /\ page' = [page EXCEPT ![v] = fetch[f].likes]
            /\ missed' = IF fetch[f].stale THEN missed \cup {v} ELSE missed \ {v}
  BY <1>0, <1>2 DEF SetPosts, FetchFails, FeedError
<1>4. /\ fetch' \in [Fetches -> FetchType] /\ fetch'[f] = NoFetch
      /\ \A g \in Fetches \ {f} : fetch'[g] = fetch[g]
  BY <1>0, <1>1, <1>3
<1>5. /\ page' \in [Fans -> SUBSET Fans] /\ heart' \in [Fans -> BOOLEAN] /\ missed' \subseteq Fans
      /\ loading' \in [Fans -> BOOLEAN] /\ \A p \in Fans \ {v} : page'[p] = page[p] /\ heart'[p] = heart[p]
  BY <1>0, <1>3, Resyncs
<1>6. FeedTypeOK'
  BY <1>0, <1>1, <1>3, <1>4, <1>5 DEF FeedTypeOK, ClicksOK
<1>7. \A p : \A g \in Fetches : Fresh(g, p)' => Fresh(g, p) /\ fetch'[g].likes = fetch[g].likes
  BY <1>1, <1>4 DEF Fresh
<1>8. OnePage(v)
  BY <1>3, <1>5, <1>7 DEF OnePage
<1>9. ASSUME NEW u \in Patient PROVE PageOK(v, u)'
  <2> SUFFICES ASSUME ~Failed(u)', ~Emitting(u)'
               PROVE  /\ Leaves(likes, wire[v], u, likes)
                      /\ v \notin missed' => Leaves(page'[v], wire[v], u, likes)
                      /\ \A g \in Fetches : Fresh(g, v) => Leaves(fetch[g].likes, wire[v], u, likes)
    BY <1>3, <1>7 DEF PageOK
  <2>1. ~Failed(u) /\ ~Emitting(u)
    BY <1>3 DEF Failed, Emitting, At
  <2>2. /\ Leaves(likes, wire[v], u, likes)
        /\ v \notin missed => Leaves(page[v], wire[v], u, likes)
        /\ \A g \in Fetches : Fresh(g, v) => Leaves(fetch[g].likes, wire[v], u, likes)
    BY <1>9, <2>1, FeedInvParts DEF PageOK
  <2>3. CASE page' = page /\ missed' = missed
    BY <2>2, <2>3
  <2>4. CASE /\ fetch[f].at = "read" /\ page' = [page EXCEPT ![v] = fetch[f].likes]
             /\ missed' = IF fetch[f].stale THEN missed \cup {v} ELSE missed \ {v}
    <3>1. v \notin missed' => Fresh(f, v) /\ page'[v] = fetch[f].likes
      BY <1>0, <1>2, <2>4 DEF Fresh
    <3> QED BY <2>2, <3>1
  <2> QED BY <1>3, <2>3, <2>4
<1>10. ASSUME v \in Patient \ missed' PROVE HeartOK(v)'
  <2>1. CASE heart' = heart /\ page' = page /\ missed' = missed
    BY <1>3, <1>10, <2>1, FeedInvParts DEF HeartOK, At, Failed
  <2>2. CASE Resync(v)
    <3>1. heart'[v] <=> v \in page'[v]
      BY <1>0, <2>2, Resyncs
    <3> QED BY <3>1 DEF HeartOK
  <2> QED BY <1>3, <2>1, <2>2
<1> QED BY <1>6, <1>8, <1>9, <1>10, PageKeeps

-----------------------------------------------------------------------------
LEMMA FeedInvInit == ASSUME FeedInit PROVE FeedInv
<1>0. MaxClicks \in Nat /\ Patient \subseteq Fans
  BY FeedAssumption
<1>1. NoToggle \in ToggleType /\ NoToggle.at = "none" /\ NoFetch \in FetchType /\ NoFetch.at = "none"
      /\ <<>> \in Seq(EventType)
  BY DEF NoToggle, NoFetch, ToggleType, FetchType, Stages
<1>2. FeedTypeOK
  BY <1>0, <1>1 DEF FeedInit, FeedTypeOK, ClicksOK, Clicks
<1>3. \A n \in Clicks : toggle[n] = NoToggle /\ toggle[n].at = "none"
  BY <1>1 DEF FeedInit
<1>4. ASSUME NEW u \in Patient PROVE FanOK(u) /\ HeartOK(u)
  BY <1>0, <1>3, <1>4 DEF FeedInit, FanOK, HeartOK, Answered
<1>5. ASSUME NEW v \in Fans, NEW u \in Patient PROVE PageOK(v, u)
  BY <1>1, <1>5 DEF FeedInit, PageOK, Fresh, Leaves
<1> QED BY <1>2, <1>4, <1>5 DEF FeedInv

LEMMA FeedInvStep == FeedInv /\ [FeedNext]_feedVars => FeedInv'
<1> SUFFICES ASSUME FeedInv, [FeedNext]_feedVars PROVE FeedInv'
  OBVIOUS
<1>1. CASE UNCHANGED feedVars
  BY <1>1 DEF feedVars, FeedInv, FeedTypeOK, ClicksOK, FanOK, PageOK, Fresh, HeartOK, Answered, Failed,
              Emitting, At
<1>2. CASE FeedNext
  BY <1>2, ToggleKeeps, EmitKeeps, ClickKeeps, ServerDiesKeeps, ReceiveKeeps, DisconnectKeeps,
          FetchFeedKeeps, FindAllKeeps, FetchEndKeeps DEF FeedNext, ToggleStep
<1> QED BY <1>1, <1>2

(* feed.service.ts and the pages: once all is said, a page shows the like  *)
(* of a fan if and only if its row is there, whatever others click, fetch  *)
(* or fail to, and the fan's own heart says the same.                      *)
THEOREM PagesAgree == FeedSpec => []PagesShowLikes
<1>1. FeedInv => PagesShowLikes
  <2> SUFFICES ASSUME FeedInv, Settled, NEW v \in Fans \ missed, NEW u \in Patient, ~Failed(u)
               PROVE  (u \in page[v] <=> u \in likes) /\ (u = v => (heart[v] <=> v \in page[v]))
    BY DEF PagesShowLikes
  <2>1. (\A n \in Clicks : toggle[n].at \in {"none", "done", "failed"}) /\ wire[v] = <<>>
    BY DEF Settled, Answered
  <2>2. ~Emitting(u) /\ PageOK(v, u) /\ (u = v => HeartOK(v))
    BY <2>1, FeedInvParts DEF Emitting, At
  <2>3. u \in page[v] <=> u \in likes
    BY <2>1, <2>2 DEF PageOK, Leaves
  <2>4. u = v => (heart[v] <=> v \in page[v])
    BY <2>1, <2>2 DEF HeartOK, At
  <2> QED BY <2>3, <2>4
<1> QED BY FeedInvInit, FeedInvStep, <1>1, PTL DEF FeedSpec

-----------------------------------------------------------------------------
(* NotificationBell                                                        *)
Items == [id : Notes, read : BOOLEAN]
FetchingType == [at : {"none", "asked", "read"}, rows : Seq(Items)]
MarkingType == [at : {"none", "sent", "answered"}, which : SUBSET Notes]

NoteStates == {"none", "pending", "gone", "unread", "read"}

BellTypeOK ==
  /\ note \in [Notes -> NoteStates] /\ live \subseteq Notes
  /\ online \subseteq Bells /\ marks \in Nat /\ losses \in Nat
  /\ events \in [Bells -> Seq(Notes)] /\ list \in [Bells -> Seq(Items)]
  /\ fetching \in [Bells -> FetchingType]
  /\ marking \in [Bells -> MarkingType]
  /\ witnessed \in [Bells -> SUBSET Notes] /\ hasty \in [Bells -> SUBSET Notes]

(* Notifications are numbered as they are created.                         *)
Numbered == \E c \in 0..MaxNotes : \A n \in Notes : note[n] # "none" <=> n <= c

Created == {n \in Notes : note[n] # "none"}
Seen == {n \in Notes : note[n] = "read"}

(* What is on its way, or shown, exists; and what is shown as read is, or  *)
(* will be, once the answer on its way is there.                           *)
ShownOK(b) ==
  /\ \A k \in DOMAIN events[b] : events[b][k] \in Created
  /\ \A k \in DOMAIN list[b] : /\ list[b][k].id \in Created
                               /\ list[b][k].read => list[b][k].id \in Seen \cup hasty[b]
  /\ \A k \in DOMAIN fetching[b].rows : /\ fetching[b].rows[k].id \in Created
                                        /\ fetching[b].rows[k].read => fetching[b].rows[k].id \in Seen
  /\ marking[b].at = "answered" => Created \cap marking[b].which \subseteq Seen \cup hasty[b]

(* n is in the sequence once, or not at all.                               *)
Once(s, n) == \E k \in DOMAIN s : \A j \in DOMAIN s : s[j] = n <=> j = k
Never(s, n) == \A j \in DOMAIN s : s[j] # n
ListedOnce(l, n) == \E k \in DOMAIN l : \A j \in DOMAIN l : l[j].id = n <=> j = k
NeverListed(l, n) == \A j \in DOMAIN l : l[j].id # n

(* A notification that bell b witnessed is in one place, once: with the    *)
(* server, on its way to b, or shown.                                      *)
InOnePlace(b, n) ==
  \/ n \in live /\ Never(events[b], n) /\ NeverListed(list[b], n)
  \/ n \notin live /\ Once(events[b], n) /\ NeverListed(list[b], n)
  \/ n \notin live /\ Never(events[b], n) /\ ListedOnce(list[b], n)

BellInv ==
  /\ BellTypeOK /\ Numbered /\ live \subseteq Created
  /\ \A b \in Bells : ShownOK(b) /\ \A n \in witnessed[b] : Up(b) /\ InOnePlace(b, n)

-----------------------------------------------------------------------------
LEMMA OnceAppended ==
  ASSUME NEW T, NEW s \in Seq(T), NEW x \in T, NEW n
  PROVE  /\ x = n /\ Never(s, n) => Once(Append(s, x), n)
         /\ x # n => (Once(s, n) => Once(Append(s, x), n)) /\ (Never(s, n) => Never(Append(s, x), n))
<1> DEFINE t == Append(s, x)
<1>1. /\ DOMAIN s = 1..Len(s) /\ DOMAIN t = 1..(Len(s) + 1) /\ Len(s) \in Nat
      /\ t[Len(s) + 1] = x /\ \A i \in DOMAIN s : t[i] = s[i]
  BY AppendProperties, LenProperties
<1> HIDE DEF t
<1>2. ASSUME x = n, Never(s, n) PROVE Once(t, n)
  <2>1. Len(s) + 1 \in DOMAIN t /\ \A j \in DOMAIN t : j # Len(s) + 1 => j \in DOMAIN s
    BY <1>1
  <2>2. \A j \in DOMAIN t : t[j] = n <=> j = Len(s) + 1
    BY <1>1, <1>2, <2>1 DEF Never
  <2> QED BY <2>1, <2>2 DEF Once
<1>3. x # n /\ Never(s, n) => Never(t, n)
  BY <1>1 DEF Never
<1>4. x # n /\ Once(s, n) => Once(t, n)
  BY <1>1 DEF Once
<1> QED BY <1>2, <1>3, <1>4 DEF t

LEMMA OnceTail ==
  ASSUME NEW T, NEW s \in Seq(T), NEW n, s # <<>>
  PROVE  /\ Never(s, n) => Head(s) # n /\ Never(Tail(s), n)
         /\ Once(s, n) => IF Head(s) = n THEN Never(Tail(s), n) ELSE Once(Tail(s), n)
<1> DEFINE t == Tail(s)
<1>1. /\ DOMAIN s = 1..Len(s) /\ DOMAIN t = 1..(Len(s) - 1) /\ Len(s) \in Nat \ {0}
      /\ Head(s) = s[1] /\ \A i \in DOMAIN t : t[i] = s[i + 1]
  BY HeadTailProperties, LenProperties, EmptySeq
<1> HIDE DEF t
<1>2. Never(s, n) => Head(s) # n /\ Never(t, n)
  BY <1>1 DEF Never
<1>3. ASSUME NEW k \in DOMAIN s, \A j \in DOMAIN s : s[j] = n <=> j = k
      PROVE  IF Head(s) = n THEN Never(t, n) ELSE Once(t, n)
  <2>1. CASE k = 1
    BY <1>1, <1>3, <2>1 DEF Never
  <2>2. CASE k # 1
    <3>1. k - 1 \in DOMAIN t /\ Head(s) # n
      BY <1>1, <1>3, <2>2
    <3>2. \A j \in DOMAIN t : t[j] = n <=> j = k - 1
      BY <1>1, <1>3
    <3> QED BY <3>1, <3>2 DEF Once
  <2> QED BY <2>1, <2>2
<1> QED BY <1>2, <1>3 DEF Once, t

LEMMA ListedInFront ==
  ASSUME NEW l \in Seq(Items), NEW x \in Items, NEW n
  PROVE  LET m == <<x>> \o l IN
         /\ m \in Seq(Items) /\ DOMAIN m = 1..(Len(l) + 1) /\ DOMAIN l = 1..Len(l) /\ Len(l) \in Nat
         /\ m[1] = x /\ \A k \in DOMAIN l : m[k + 1] = l[k]
         /\ x.id = n /\ NeverListed(l, n) => ListedOnce(m, n)
         /\ x.id # n => (ListedOnce(l, n) => ListedOnce(m, n)) /\ (NeverListed(l, n) => NeverListed(m, n))
<1> DEFINE m == <<x>> \o l
<1>0. <<x>> \in Seq(Items) /\ Len(<<x>>) = 1 /\ <<x>>[1] = x
  OBVIOUS
<1>1. /\ m \in Seq(Items) /\ Len(m) = Len(l) + 1 /\ Len(l) \in Nat
      /\ \A k \in 1..Len(m) : m[k] = IF k <= 1 THEN <<x>>[k] ELSE l[k - 1]
  BY <1>0, ConcatProperties, LenProperties
<1>2. DOMAIN m = 1..(Len(l) + 1) /\ DOMAIN l = 1..Len(l)
  BY <1>1, LenProperties
<1> HIDE DEF m
<1>3. m[1] = x /\ \A k \in DOMAIN l : m[k + 1] = l[k]
  BY <1>0, <1>1, <1>2
<1>4. \A k \in DOMAIN m : k = 1 \/ (k - 1 \in DOMAIN l /\ m[k] = l[k - 1])
  BY <1>1, <1>2
<1>5. x.id = n /\ NeverListed(l, n) => ListedOnce(m, n)
  BY <1>2, <1>3, <1>4 DEF ListedOnce, NeverListed
<1>6. x.id # n /\ NeverListed(l, n) => NeverListed(m, n)
  BY <1>2, <1>3, <1>4 DEF NeverListed
<1>7. ASSUME x.id # n, NEW k \in DOMAIN l, \A j \in DOMAIN l : l[j].id = n <=> j = k PROVE ListedOnce(m, n)
  <2>1. k + 1 \in DOMAIN m
    BY <1>1, <1>2, <1>7
  <2>2. ASSUME NEW j \in DOMAIN m PROVE m[j].id = n <=> j = k + 1
    <3>1. CASE j = 1
      BY <1>2, <1>3, <1>7, <3>1
    <3>2. CASE j # 1
      <4>1. j - 1 \in DOMAIN l /\ m[j] = l[j - 1]
        BY <1>4, <2>2, <3>2
      <4>2. j - 1 = k <=> j = k + 1
        BY <1>1, <1>2, <1>7, <2>2
      <4> QED BY <1>7, <4>1, <4>2
    <3> QED BY <3>1, <3>2
  <2> QED BY <2>1, <2>2 DEF ListedOnce
<1> QED BY <1>1, <1>2, <1>3, <1>5, <1>6, <1>7 DEF m, ListedOnce

LEMMA BellParts ==
  ASSUME BellTypeOK, NEW b \in Bells
  PROVE  /\ events[b] \in Seq(Notes) /\ list[b] \in Seq(Items)
         /\ fetching[b] \in FetchingType /\ fetching[b].rows \in Seq(Items)
         /\ marking[b] \in MarkingType /\ marking[b].which \subseteq Notes
         /\ witnessed[b] \subseteq Notes /\ hasty[b] \subseteq Notes
BY DEF BellTypeOK, FetchingType, MarkingType

LEMMA NotesAreThere ==
  ASSUME NEW order \in [1..Cardinality(Stored) -> Stored]
  PROVE  LET rows == Rows(order) IN
         /\ rows \in Seq(Items)
         /\ \A k \in DOMAIN rows : rows[k].id \in Created /\ (rows[k].read => rows[k].id \in Seen)
<1>1. Cardinality(Stored) \in Nat
  <2>1. IsFiniteSet(Notes) /\ Stored \subseteq Notes
    BY BellAssumption, FS_Interval DEF Notes, Stored
  <2> QED BY <2>1, FS_Subset, FS_CardinalityType
<1>2. PICK c \in Nat : c = Cardinality(Stored)
  BY <1>1
<1>3. PICK rows : rows = Rows(order)
  OBVIOUS
<1>4. DOMAIN rows = 1..c /\ order \in [1..c -> Stored]
  BY <1>2, <1>3 DEF Rows
<1>5. ASSUME NEW k \in 1..c
      PROVE  rows[k] \in Items /\ rows[k].id \in Created /\ (rows[k].read => rows[k].id \in Seen)
  <2>1. PICK n \in Stored : n = order[k]
    BY <1>4
  <2>2. PICK b \in BOOLEAN : b <=> note[n] = "read"
    OBVIOUS
  <2>3. rows[k] = [id |-> n, read |-> b]
    BY <1>3, <1>4, <2>1, <2>2 DEF Rows
  <2>4. n \in Notes /\ note[n] # "none"
    BY <2>1 DEF Stored
  <2>5. rows[k] \in Items /\ rows[k].id = n /\ rows[k].read = b
    BY <2>3, <2>4 DEF Items
  <2> QED BY <2>2, <2>4, <2>5 DEF Created, Seen
<1>6. rows = [k \in 1..c |-> rows[k]]
  BY <1>3, <1>4 DEF Rows
<1>7. rows \in [1..c -> Items]
  BY <1>5, <1>6
<1> QED BY <1>3, <1>4, <1>5, <1>7, SeqDef

-----------------------------------------------------------------------------
(* Notifications are created, and read, for good.                          *)
Onward == Created \subseteq Created' /\ Seen \subseteq Seen'

LEMMA ShownStays ==
  ASSUME NEW b \in Bells, ShownOK(b), Onward, events'[b] = events[b], list'[b] = list[b],
         fetching'[b] = fetching[b], hasty[b] \subseteq hasty'[b],
         marking'[b].at = "answered" => Created' \cap marking'[b].which \subseteq Seen' \cup hasty'[b]
  PROVE  ShownOK(b)'
BY DEF ShownOK, Onward

LEMMA BellInvParts ==
  ASSUME BellInv
  PROVE  /\ BellTypeOK /\ Numbered /\ MaxNotes \in Nat /\ live \subseteq Created
         /\ \A b \in Bells : ShownOK(b)
         /\ \A b \in Bells : \A n \in witnessed[b] : Up(b) /\ InOnePlace(b, n)
BY BellAssumption DEF BellInv

(* Only bell c moves, and notes are at most marked as read.                *)
OneBell(c) ==
  /\ live' = live /\ \A n \in Notes : note'[n] = note[n] \/ (note[n] = "unread" /\ note'[n] = "read")
  /\ \A b \in Bells \ {c} :
       /\ events'[b] = events[b] /\ list'[b] = list[b] /\ fetching'[b] = fetching[b]
       /\ marking'[b] = marking[b] /\ witnessed'[b] = witnessed[b] /\ hasty'[b] = hasty[b]
       /\ b \in online' <=> b \in online

LEMMA OneBellOnward == ASSUME NEW c, OneBell(c) PROVE Onward
BY DEF OneBell, Onward, Created, Seen

LEMMA OneBellKeeps ==
  ASSUME BellInv, NEW c \in Bells, OneBell(c), BellTypeOK', ShownOK(c)',
         \A n \in witnessed'[c] : Up(c)' /\ InOnePlace(c, n)'
  PROVE  BellInv'
<1>1. Onward
  BY OneBellOnward
<1>2. \A n \in Notes : note'[n] # "none" <=> note[n] # "none"
  BY DEF OneBell
<1>3. Numbered' /\ live' \subseteq Created'
  BY <1>2, BellInvParts DEF Numbered, OneBell, Created
<1>4. ASSUME NEW b \in Bells, b # c PROVE ShownOK(b)' /\ \A n \in witnessed'[b] : Up(b)' /\ InOnePlace(b, n)'
  <2>1. Created' = Created
    BY <1>2 DEF Created
  <2>2. marking'[b].at = "answered" => Created' \cap marking'[b].which \subseteq Seen' \cup hasty'[b]
    BY <1>1, <1>4, <2>1, BellInvParts DEF OneBell, ShownOK, Onward
  <2>3. ShownOK(b)'
    BY <1>1, <1>4, <2>2, BellInvParts, ShownStays DEF OneBell
  <2>4. \A n \in witnessed'[b] : Up(b)' /\ InOnePlace(b, n)'
    BY <1>4, BellInvParts DEF OneBell, Up, InOnePlace
  <2> QED BY <2>3, <2>4
<1> QED BY <1>3, <1>4 DEF BellInv

-----------------------------------------------------------------------------
LEMMA CreateNoteKeeps == ASSUME BellInv, CreateNote PROVE BellInv'
<1>1. PICK n \in Notes, row \in {"unread", "pending"} :
        /\ note[n] = "none" /\ \A m \in 1..(n - 1) : note[m] # "none"
        /\ note' = [note EXCEPT ![n] = row]
        /\ live' = live \cup {n}
        /\ witnessed' = [b \in Bells |-> IF Up(b) THEN witnessed[b] \cup {n} ELSE witnessed[b]]
        /\ hasty' = [b \in Bells |-> IF marking[b].at = "answered" /\ n \in marking[b].which
                                     THEN hasty[b] \cup {n} ELSE hasty[b]]
        /\ UNCHANGED <<online, events, list, fetching, marking, marks, losses>>
  BY DEF CreateNote, requested
<1>2. /\ BellTypeOK /\ note \in [Notes -> NoteStates] /\ live \subseteq Notes
      /\ \A b \in Bells : witnessed[b] \subseteq Notes /\ hasty[b] \subseteq Notes
  BY BellInvParts DEF BellTypeOK
<1>3. /\ note' \in [Notes -> NoteStates] /\ note'[n] # "none"
      /\ \A m \in Notes : m # n => note'[m] = note[m]
  BY <1>1, <1>2 DEF NoteStates
<1>4. BellTypeOK'
  <2>1. witnessed' \in [Bells -> SUBSET Notes] /\ hasty' \in [Bells -> SUBSET Notes]
    BY <1>1, <1>2
  <2> QED BY <1>1, <1>2, <1>3, <2>1 DEF BellTypeOK
<1>5. Onward /\ n \notin Created /\ n \in Created'
  BY <1>1, <1>3 DEF Onward, Created, Seen
<1>6. Numbered'
  <2>1. PICK c \in 0..MaxNotes : \A m \in Notes : note[m] # "none" <=> m <= c
    BY BellInvParts DEF Numbered
  <2>2. MaxNotes \in Nat /\ n \in 1..MaxNotes /\ c \in Nat
    BY <2>1, BellInvParts DEF Notes
  <2>3. n = c + 1
    <3>1. ~(n <= c)
      BY <1>1, <2>1
    <3>2. ~(c + 1 < n)
      <4>1. SUFFICES ASSUME c + 1 < n PROVE FALSE
        OBVIOUS
      <4>2. c + 1 \in Notes /\ c + 1 \in 1..(n - 1)
        BY <2>2, <4>1 DEF Notes
      <4>3. c + 1 <= c
        BY <1>1, <2>1, <4>2
      <4> QED BY <2>2, <4>3
    <3> QED BY <2>2, <3>1, <3>2
  <2>4. ASSUME NEW m \in Notes PROVE note'[m] # "none" <=> m <= c + 1
    <3>1. m \in Nat
      BY <2>4 DEF Notes
    <3> QED BY <1>3, <2>1, <2>2, <2>3, <2>4, <3>1
  <2> QED BY <2>2, <2>3, <2>4 DEF Numbered
<1>7. live' \subseteq Created'
  BY <1>1, <1>2, <1>5, BellInvParts DEF Onward
<1>8. ASSUME NEW b \in Bells PROVE ShownOK(b)'
  <2>1. hasty[b] \subseteq hasty'[b] /\ Created' = Created \cup {n}
    BY <1>1, <1>3, <1>8 DEF Created
  <2>2. marking'[b].at = "answered" => Created' \cap marking'[b].which \subseteq Seen' \cup hasty'[b]
    <3> SUFFICES ASSUME marking[b].at = "answered", NEW m \in Created' \cap marking[b].which
                 PROVE  m \in Seen' \cup hasty'[b]
      BY <1>1
    <3>1. CASE m = n
      BY <1>1, <1>8, <3>1
    <3>2. CASE m # n
      BY <1>5, <1>8, <2>1, <3>2, BellInvParts DEF ShownOK, Onward
    <3> QED BY <3>1, <3>2
  <2> QED BY <1>1, <1>2, <1>5, <1>8, <2>1, <2>2, BellInvParts, ShownStays
<1>9. ASSUME NEW b \in Bells, NEW m \in witnessed'[b] PROVE Up(b)' /\ InOnePlace(b, m)'
  <2>1. CASE m \in witnessed[b]
    <3>1. Up(b) /\ InOnePlace(b, m)
      BY <1>9, <2>1, BellInvParts
    <3>2. m # n
      BY <1>5, <1>9, <3>1, BellInvParts DEF InOnePlace, Once, ListedOnce, ShownOK
    <3> QED BY <1>1, <3>1, <3>2 DEF Up, InOnePlace
  <2>2. CASE m \notin witnessed[b]
    <3>1. m = n /\ Up(b)
      BY <1>1, <1>9, <2>2
    <3>2. Never(events[b], n) /\ NeverListed(list[b], n)
      BY <1>5, <1>9, BellInvParts DEF Never, NeverListed, ShownOK
    <3> QED BY <1>1, <3>1, <3>2 DEF Up, InOnePlace
  <2> QED BY <2>1, <2>2
<1> QED BY <1>4, <1>6, <1>7, <1>8, <1>9 DEF BellInv

LEMMA EmitNoteKeeps == ASSUME BellInv, NEW n \in Notes, EmitNote(n) PROVE BellInv'
<1>0. /\ BellTypeOK /\ events \in [Bells -> Seq(Notes)] /\ n \in Created
  BY BellInvParts DEF BellTypeOK, EmitNote
<1>1. /\ n \in live /\ live' = live \ {n}
      /\ events' = [b \in Bells |-> IF b \in online THEN Append(events[b], n) ELSE events[b]]
      /\ UNCHANGED <<note, online, list, fetching, marking, witnessed, hasty, marks, losses>>
  BY DEF EmitNote, Room, requested
<1>2. BellTypeOK'
  <2>1. \A b \in Bells : Append(events[b], n) \in Seq(Notes)
    BY <1>0, AppendProperties
  <2>2. events' \in [Bells -> Seq(Notes)]
    BY <1>0, <1>1, <2>1
  <2> QED BY <1>0, <1>1, <2>2 DEF BellTypeOK
<1>3. Numbered' /\ live' \subseteq Created'
  BY <1>1, BellInvParts DEF Numbered, Created
<1>4. ASSUME NEW b \in Bells PROVE ShownOK(b)'
  <2>1. \A k \in DOMAIN events'[b] : events'[b][k] \in Created
    <3>1. CASE b \in online
      <4> DEFINE t == Append(events[b], n)
      <4>1. /\ DOMAIN events[b] = 1..Len(events[b]) /\ DOMAIN t = 1..(Len(events[b]) + 1)
            /\ Len(events[b]) \in Nat /\ t[Len(events[b]) + 1] = n
            /\ \A i \in DOMAIN events[b] : t[i] = events[b][i]
        BY <1>0, <1>4, AppendProperties, LenProperties
      <4>2. events'[b] = t
        BY <1>1, <1>4, <3>1
      <4> HIDE DEF t
      <4>3. \A k \in DOMAIN t : k = Len(events[b]) + 1 \/ k \in DOMAIN events[b]
        BY <4>1
      <4> QED BY <1>0, <1>4, <4>1, <4>2, <4>3, BellInvParts DEF ShownOK
    <3>2. CASE b \notin online
      BY <1>1, <1>4, <3>2, BellInvParts DEF ShownOK
    <3> QED BY <3>1, <3>2
  <2>2. Created' = Created /\ Seen' = Seen
    BY <1>1 DEF Created, Seen
  <2> QED BY <1>1, <1>4, <2>1, <2>2, BellInvParts DEF ShownOK
<1>5. ASSUME NEW b \in Bells, NEW m \in witnessed'[b] PROVE Up(b)' /\ InOnePlace(b, m)'
  <2>1. Up(b) /\ Up(b)' /\ InOnePlace(b, m)
    BY <1>1, <1>5, BellInvParts DEF Up
  <2>2. events'[b] = Append(events[b], n) /\ events[b] \in Seq(Notes)
    BY <1>0, <1>1, <1>5, <2>1 DEF Up
  <2>3. /\ n = m /\ Never(events[b], m) => Once(events'[b], m)
        /\ n # m => (Once(events[b], m) => Once(events'[b], m)) /\ (Never(events[b], m) => Never(events'[b], m))
    BY <2>2, OnceAppended
  <2> QED BY <1>1, <2>1, <2>3 DEF InOnePlace
<1> QED BY <1>2, <1>3, <1>4, <1>5 DEF BellInv

LEMMA EndMessageKeeps == ASSUME BellInv, NEW n \in Notes, EndMessage(n) PROVE BellInv'
<1>1. PICK row \in {"unread", "gone"} :
        /\ note[n] = "pending" /\ note' = [note EXCEPT ![n] = row] /\ losses' \in Nat
        /\ UNCHANGED <<live, online, events, list, fetching, marking, witnessed, hasty, marks>>
  BY BellInvParts DEF EndMessage, BellTypeOK, Lose, requested
<1>2. BellTypeOK /\ note \in [Notes -> NoteStates]
  BY BellInvParts DEF BellTypeOK
<1>3. /\ note' \in [Notes -> NoteStates] /\ note'[n] \notin {"none", "read"}
      /\ \A m \in Notes : m # n => note'[m] = note[m]
  BY <1>1, <1>2 DEF NoteStates
<1>4. Created' = Created /\ Seen' = Seen /\ \A m \in Notes : note'[m] # "none" <=> note[m] # "none"
  BY <1>1, <1>3 DEF Created, Seen
<1>5. BellTypeOK'
  BY <1>1, <1>2, <1>3 DEF BellTypeOK
<1>6. Numbered' /\ live' \subseteq Created'
  BY <1>1, <1>4, BellInvParts DEF Numbered
<1>7. ASSUME NEW b \in Bells PROVE ShownOK(b)'
  BY <1>1, <1>4, <1>7, BellInvParts DEF ShownOK
<1>8. ASSUME NEW b \in Bells, NEW m \in witnessed'[b] PROVE Up(b)' /\ InOnePlace(b, m)'
  BY <1>1, <1>8, BellInvParts DEF Up, InOnePlace
<1> QED BY <1>5, <1>6, <1>7, <1>8 DEF BellInv

-----------------------------------------------------------------------------
LEMMA SocketKeeps == ASSUME BellInv, NEW c \in Bells, ConnectBell(c) \/ LoseSocket(c) PROVE BellInv'
<1>0. BellTypeOK /\ \A b \in Bells : events[b] \in Seq(Notes)
  BY BellInvParts, BellParts
<1>1. /\ UNCHANGED <<note, live, list, fetching, marking, hasty>> /\ marks' \in Nat /\ losses' \in Nat
      /\ \/ online' = online \cup {c} /\ UNCHANGED <<events, witnessed>> /\ c \notin online
         \/ /\ online' = online \ {c} /\ events' = [events EXCEPT ![c] = <<>>]
            /\ witnessed' = [witnessed EXCEPT ![c] = {}]
  BY <1>0 DEF ConnectBell, LoseSocket, Lose, server, requested, BellTypeOK
<1>2. BellTypeOK'
  <2>1. <<>> \in Seq(Notes)
    OBVIOUS
  <2>2. events' \in [Bells -> Seq(Notes)] /\ witnessed' \in [Bells -> SUBSET Notes] /\ online' \subseteq Bells
    BY <1>0, <1>1, <2>1 DEF BellTypeOK
  <2> QED BY <1>0, <1>1, <2>2 DEF BellTypeOK
<1>3. OneBell(c)
  BY <1>0, <1>1 DEF OneBell, BellTypeOK
<1>4. \A n \in witnessed'[c] : FALSE
  BY <1>0, <1>1, BellInvParts DEF Up, BellTypeOK
<1>5. ShownOK(c)'
  <2>1. (events'[c] = events[c] \/ events'[c] = <<>>) /\ Created' = Created /\ Seen' = Seen
    BY <1>0, <1>1 DEF BellTypeOK, Created, Seen
  <2>2. \A k \in DOMAIN events'[c] : events'[c][k] \in Created
    BY <2>1, BellInvParts DEF ShownOK
  <2> QED BY <1>1, <2>1, <2>2, BellInvParts DEF ShownOK
<1> QED BY <1>2, <1>3, <1>4, <1>5, OneBellKeeps

LEMMA OnNotificationKeeps == ASSUME BellInv, NEW c \in Bells, OnNotification(c) PROVE BellInv'
<1>0. /\ BellTypeOK /\ events \in [Bells -> Seq(Notes)] /\ list \in [Bells -> Seq(Items)]
  BY BellInvParts DEF BellTypeOK
<1>1. PICK q \in Seq(Notes), l \in Seq(Items) : q = events[c] /\ l = list[c] /\ q # <<>>
  BY <1>0 DEF OnNotification
<1>2. PICK x : x = [id |-> Head(q), read |-> FALSE]
  OBVIOUS
<1>3. Head(q) \in Notes /\ Tail(q) \in Seq(Notes) /\ x \in Items /\ x.id = Head(q) /\ ~x.read
  BY <1>1, <1>2, HeadTailProperties DEF Items
<1>4. PICK m : m = <<x>> \o l
  OBVIOUS
<1>5. /\ m \in Seq(Items) /\ DOMAIN m = 1..(Len(l) + 1) /\ DOMAIN l = 1..Len(l) /\ Len(l) \in Nat
      /\ m[1] = x /\ \A k \in DOMAIN l : m[k + 1] = l[k]
  BY <1>3, <1>4, ListedInFront
<1>6. /\ events' = [events EXCEPT ![c] = Tail(q)] /\ list' = [list EXCEPT ![c] = m]
      /\ UNCHANGED <<note, live, online, fetching, marking, witnessed, hasty, marks, losses>>
  BY <1>1, <1>2, <1>4 DEF OnNotification, server, requested
<1>7. events'[c] = Tail(q) /\ list'[c] = m
  BY <1>0, <1>6
<1>8. BellTypeOK'
  <2>1. events' \in [Bells -> Seq(Notes)] /\ list' \in [Bells -> Seq(Items)]
    BY <1>0, <1>3, <1>5, <1>6
  <2> QED BY <1>0, <1>6, <2>1 DEF BellTypeOK
<1>9. OneBell(c)
  BY <1>0, <1>6 DEF OneBell
<1>10. Created' = Created /\ Seen' = Seen
  BY <1>6 DEF Created, Seen
<1>11. ShownOK(c)'
  <2>1. /\ DOMAIN q = 1..Len(q) /\ DOMAIN Tail(q) = 1..(Len(q) - 1) /\ Len(q) \in Nat \ {0}
        /\ Head(q) = q[1] /\ \A i \in DOMAIN Tail(q) : Tail(q)[i] = q[i + 1]
    BY <1>1, HeadTailProperties, LenProperties, EmptySeq
  <2>2. Head(q) \in Created /\ \A k \in DOMAIN Tail(q) : Tail(q)[k] \in Created
    BY <1>1, <2>1, BellInvParts DEF ShownOK
  <2>3. ASSUME NEW k \in DOMAIN m
        PROVE  m[k].id \in Created /\ (m[k].read => m[k].id \in Seen \cup hasty[c])
    <3>1. CASE k = 1
      BY <1>3, <1>5, <2>2, <3>1
    <3>2. CASE k # 1
      <4>1. k - 1 \in DOMAIN l /\ m[k] = l[k - 1]
        BY <1>5, <2>3, <3>2
      <4> QED BY <1>1, <4>1, BellInvParts DEF ShownOK
    <3> QED BY <3>1, <3>2
  <2> QED BY <1>6, <1>7, <1>10, <2>2, <2>3, BellInvParts DEF ShownOK
<1>12. ASSUME NEW n \in witnessed'[c] PROVE Up(c)' /\ InOnePlace(c, n)'
  <2>1. Up(c) /\ InOnePlace(c, n)
    BY <1>6, <1>12, BellInvParts
  <2>2. Up(c)' /\ live' = live
    BY <1>6, <2>1 DEF Up
  <2>3. /\ Never(q, n) => Head(q) # n /\ Never(Tail(q), n)
        /\ Once(q, n) => IF Head(q) = n THEN Never(Tail(q), n) ELSE Once(Tail(q), n)
    BY <1>1, OnceTail
  <2>4. /\ x.id = n /\ NeverListed(l, n) => ListedOnce(m, n)
        /\ x.id # n => (ListedOnce(l, n) => ListedOnce(m, n)) /\ (NeverListed(l, n) => NeverListed(m, n))
    BY <1>3, <1>4, ListedInFront
  <2>5. \/ n \in live /\ Never(q, n) /\ NeverListed(l, n)
        \/ n \notin live /\ Once(q, n) /\ NeverListed(l, n)
        \/ n \notin live /\ Never(q, n) /\ ListedOnce(l, n)
    BY <1>1, <2>1 DEF InOnePlace
  <2>6. \/ n \in live /\ Never(Tail(q), n) /\ NeverListed(m, n)
        \/ n \notin live /\ Once(Tail(q), n) /\ NeverListed(m, n)
        \/ n \notin live /\ Never(Tail(q), n) /\ ListedOnce(m, n)
    BY <1>3, <2>3, <2>4, <2>5
  <2> QED BY <1>7, <2>2, <2>6 DEF InOnePlace
<1> QED BY <1>8, <1>9, <1>11, <1>12, OneBellKeeps

LEMMA FetchingKeeps == ASSUME BellInv, NEW c \in Bells, ReadNotes(c) \/ ShowNotes(c) PROVE BellInv'
<1>0. /\ BellTypeOK /\ list \in [Bells -> Seq(Items)] /\ fetching \in [Bells -> FetchingType]
      /\ fetching[c].rows \in Seq(Items) /\ losses \in Nat
  BY BellInvParts, BellParts DEF BellTypeOK
<1>1. UNCHANGED <<note, live, online, events, marking, witnessed, hasty, marks>> /\ losses' \in Nat
  BY <1>0 DEF ReadNotes, ShowNotes, server, Lose
<1>2. fetching[c] # Unasked
  BY DEF ReadNotes, ShowNotes, Unasked
<1>3. PICK f \in FetchingType, l \in Seq(Items) :
        /\ fetching' = [fetching EXCEPT ![c] = f] /\ list' = [list EXCEPT ![c] = l]
        /\ (\E order \in [1..Cardinality(Stored) -> Stored] : f.rows = Rows(order)) \/ f.rows = <<>>
        /\ l = list[c] \/ l = fetching[c].rows
  <2>1. CASE ReadNotes(c)
    <3>0. PICK order \in [1..Cardinality(Stored) -> Stored] :
            fetching' = [fetching EXCEPT ![c] = [at |-> "read", rows |-> Rows(order)]]
      BY <2>1 DEF ReadNotes
    <3>1. PICK f : f = [at |-> "read", rows |-> Rows(order)]
      OBVIOUS
    <3>2. f \in FetchingType /\ f.rows = Rows(order)
      BY <3>1, NotesAreThere DEF FetchingType
    <3>3. fetching' = [fetching EXCEPT ![c] = f] /\ list' = list
      BY <2>1, <3>0, <3>1 DEF ReadNotes
    <3>4. list[c] \in Seq(Items) /\ list' = [list EXCEPT ![c] = list[c]]
      BY <1>0, <3>3
    <3> QED BY <3>2, <3>3, <3>4
  <2>2. CASE ShowNotes(c)
    <3>1. Unasked \in FetchingType /\ Unasked.rows = <<>>
      BY DEF FetchingType, Unasked
    <3>2. fetching' = [fetching EXCEPT ![c] = Unasked]
      BY <2>2 DEF ShowNotes
    <3>3. \E l \in {list[c], fetching[c].rows} : list' = [list EXCEPT ![c] = l]
      BY <1>0, <2>2 DEF ShowNotes
    <3>4. list[c] \in Seq(Items)
      BY <1>0
    <3> QED BY <1>0, <3>1, <3>2, <3>3, <3>4
  <2> QED BY <2>1, <2>2
<1>4. fetching'[c] = f /\ list'[c] = l
  BY <1>0, <1>3
<1>5. BellTypeOK'
  <2>1. fetching' \in [Bells -> FetchingType] /\ list' \in [Bells -> Seq(Items)]
    BY <1>0, <1>3
  <2> QED BY <1>0, <1>1, <2>1 DEF BellTypeOK
<1>6. OneBell(c)
  BY <1>0, <1>1, <1>3 DEF OneBell
<1>7. \A n \in witnessed'[c] : FALSE
  BY <1>1, <1>2, BellInvParts DEF Up
<1>8. Created' = Created /\ Seen' = Seen
  BY <1>1 DEF Created, Seen
<1>9. \A k \in DOMAIN f.rows : f.rows[k].id \in Created /\ (f.rows[k].read => f.rows[k].id \in Seen)
  BY <1>3, NotesAreThere
<1>10. \A k \in DOMAIN l : l[k].id \in Created /\ (l[k].read => l[k].id \in Seen \cup hasty[c])
  BY <1>3, BellInvParts DEF ShownOK
<1>11. ShownOK(c)'
  BY <1>1, <1>4, <1>8, <1>9, <1>10, BellInvParts DEF ShownOK
<1> QED BY <1>5, <1>6, <1>7, <1>11, OneBellKeeps

LEMMA MarkingKeeps ==
  ASSUME BellInv, NEW c \in Bells, ClickMark(c) \/ UpdateNotes(c) \/ MarkAnswered(c)
  PROVE  BellInv'
<1>0. /\ BellTypeOK /\ list \in [Bells -> Seq(Items)] /\ marking \in [Bells -> MarkingType]
      /\ list[c] \in Seq(Items) /\ losses \in Nat /\ marks \in Nat /\ marking[c].which \subseteq Notes
      /\ note \in [Notes -> NoteStates] /\ hasty \in [Bells -> SUBSET Notes]
  BY BellInvParts, BellParts DEF BellTypeOK
<1>1. UNCHANGED <<live, online, events, fetching, witnessed>> /\ losses' \in Nat /\ marks' \in Nat
  BY <1>0 DEF ClickMark, UpdateNotes, MarkAnswered, server, Lose
<1>2. /\ DOMAIN list[c] = 1..Len(list[c]) /\ Len(list[c]) \in Nat
      /\ \A k \in DOMAIN list[c] : list[c][k] \in Items /\ list[c][k].id \in Notes
  <2>1. PICK l0 \in Seq(Items) : l0 = list[c]
    BY <1>0
  <2>2. DOMAIN l0 = 1..Len(l0) /\ Len(l0) \in Nat
    BY LenProperties
  <2>3. \A k \in 1..Len(l0) : l0[k] \in Items
    BY ElementOfSeq
  <2>4. \A i \in Items : i.id \in Notes
    BY DEF Items
  <2> QED BY <2>1, <2>2, <2>3, <2>4
<1>3. PICK g \in MarkingType, l \in Seq(Items), h \in SUBSET Notes :
        /\ hasty' = [hasty EXCEPT ![c] = h] /\ hasty[c] \subseteq h
        /\ marking' = [marking EXCEPT ![c] = g] /\ list' = [list EXCEPT ![c] = l]
        /\ DOMAIN l = DOMAIN list[c] /\ \A k \in DOMAIN l : l[k].id = list[c][k].id
        /\ \/ g.at # "answered" /\ l = list[c] /\ note' = note
           \/ /\ g.at = "answered" /\ l = list[c] /\ g.which = marking[c].which /\ PassedOver(c) \subseteq h
              /\ note' = [n \in Notes |-> IF n \in g.which /\ note[n] = "unread" THEN "read" ELSE note[n]]
           \/ /\ g.at # "answered" /\ marking[c].at = "answered" /\ note' = note
              /\ \A k \in DOMAIN l : l[k].read => list[c][k].read \/ l[k].id \in marking[c].which
  <2>1. /\ list' = list => list' = [list EXCEPT ![c] = list[c]]
        /\ hasty' = hasty => hasty' = [hasty EXCEPT ![c] = hasty[c]] /\ hasty[c] \in SUBSET Notes
    BY <1>0
  <2>2. Unmarked \in MarkingType /\ Unmarked.at # "answered"
    BY DEF Unmarked, MarkingType
  <2>3. CASE ClickMark(c)
    <3>1. PICK which \in {{n} : n \in Unread(c)} \cup {Notes} :
             marking' = [marking EXCEPT ![c] = [at |-> "sent", which |-> which]]
      BY <2>3 DEF ClickMark
    <3>2. Unread(c) \subseteq Notes
      BY <1>2 DEF Unread, Listed
    <3>3. PICK g : g = [at |-> "sent", which |-> which]
      OBVIOUS
    <3>4. g \in MarkingType /\ g.at = "sent"
      BY <3>1, <3>2, <3>3 DEF MarkingType
    <3> QED BY <1>0, <2>1, <2>3, <3>1, <3>3, <3>4 DEF ClickMark, server
  <2>4. CASE UpdateNotes(c)
    <3>1. PICK g : g = [marking[c] EXCEPT !.at = "answered"]
      OBVIOUS
    <3>2. g \in MarkingType /\ g.at = "answered" /\ g.which = marking[c].which
      BY <1>0, <3>1 DEF MarkingType
    <3>3. marking' = [marking EXCEPT ![c] = g]
      BY <1>0, <2>4, <3>1 DEF UpdateNotes
    <3>4. note' = [n \in Notes |-> IF n \in g.which /\ note[n] = "unread" THEN "read" ELSE note[n]]
      BY <2>4, <3>2 DEF UpdateNotes
    <3>5. PICK h : h = hasty[c] \cup PassedOver(c)
      OBVIOUS
    <3>6. h \in SUBSET Notes /\ hasty' = [hasty EXCEPT ![c] = h]
      BY <1>0, <2>4, <3>5 DEF UpdateNotes, PassedOver
    <3>7. hasty[c] \subseteq h /\ PassedOver(c) \subseteq h
      BY <3>5
    <3>8. PICK l : l = list[c]
      OBVIOUS
    <3>9. l \in Seq(Items) /\ list' = [list EXCEPT ![c] = l]
      BY <1>0, <2>1, <2>4, <3>8 DEF UpdateNotes
    <3> QED BY <3>2, <3>3, <3>4, <3>6, <3>7, <3>8, <3>9
  <2>5. CASE MarkAnswered(c) /\ list' = list
    BY <1>0, <2>1, <2>2, <2>5 DEF MarkAnswered, server
  <2>6. CASE MarkAnswered(c) /\ marking[c].at = "answered" /\ MarkShown(c)
    <3>1. PICK l : l = [k \in DOMAIN list[c] |-> IF list[c][k].id \in marking[c].which
                                                THEN [list[c][k] EXCEPT !.read = TRUE] ELSE list[c][k]]
      OBVIOUS
    <3>2. list' = [list EXCEPT ![c] = l] /\ DOMAIN l = DOMAIN list[c]
      BY <1>0, <2>6, <3>1 DEF MarkShown
    <3>3. ASSUME NEW k \in DOMAIN list[c]
          PROVE  /\ l[k] \in Items /\ l[k].id = list[c][k].id
                 /\ l[k].read => list[c][k].read \/ l[k].id \in marking[c].which
      <4>1. PICK r \in Items : r = list[c][k]
        BY <1>2, <3>3
      <4>2. PICK t : t = [r EXCEPT !.read = TRUE]
        OBVIOUS
      <4>3. t \in Items /\ t.id = r.id
        BY <4>1, <4>2 DEF Items
      <4>4. l[k] = IF r.id \in marking[c].which THEN t ELSE r
        BY <3>1, <3>3, <4>1, <4>2
      <4>5. CASE r.id \in marking[c].which
        BY <4>1, <4>3, <4>4, <4>5
      <4>6. CASE r.id \notin marking[c].which
        BY <4>1, <4>4, <4>6
      <4> QED BY <4>5, <4>6
    <3>4. l \in [1..Len(list[c]) -> Items]
      BY <1>2, <3>1, <3>3
    <3>5. l \in Seq(Items)
      BY <1>2, <3>4, SeqDef
    <3>6. marking' = [marking EXCEPT ![c] = Unmarked] /\ note' = note /\ hasty' = hasty
      BY <2>6 DEF MarkAnswered, server
    <3> QED BY <2>1, <2>2, <2>6, <3>2, <3>3, <3>5, <3>6
  <2> QED BY <2>3, <2>4, <2>5, <2>6 DEF MarkAnswered
<1>4. marking'[c] = g /\ list'[c] = l /\ hasty'[c] = h /\ note' \in [Notes -> NoteStates]
  BY <1>0, <1>3 DEF NoteStates
<1>5. BellTypeOK'
  <2>1. /\ marking' \in [Bells -> MarkingType] /\ list' \in [Bells -> Seq(Items)]
        /\ hasty' \in [Bells -> SUBSET Notes]
    BY <1>0, <1>3
  <2> QED BY <1>0, <1>1, <1>4, <2>1 DEF BellTypeOK
<1>6. \A n \in Notes : note'[n] = note[n] \/ (note[n] = "unread" /\ note'[n] = "read")
  BY <1>0, <1>3
<1>7. OneBell(c)
  BY <1>0, <1>1, <1>3, <1>6 DEF OneBell
<1>8. Created' = Created /\ Seen \subseteq Seen'
  BY <1>6 DEF Created, Seen
<1>9. ASSUME NEW k \in DOMAIN l
      PROVE  l[k].id \in Created /\ (l[k].read => l[k].id \in Seen' \cup h)
  <2>1. /\ list[c][k].id \in Created /\ (list[c][k].read => list[c][k].id \in Seen \cup hasty[c])
        /\ l[k].id = list[c][k].id
        /\ marking[c].at = "answered" => Created \cap marking[c].which \subseteq Seen \cup hasty[c]
    BY <1>3, <1>9, BellInvParts DEF ShownOK
  <2> QED BY <1>3, <1>8, <1>9, <2>1
<1>10. g.at = "answered" => Created \cap g.which \subseteq Seen' \cup h
  <2> SUFFICES ASSUME g.at = "answered", NEW n \in Created \cap g.which PROVE n \in Seen' \cup h
    OBVIOUS
  <2>1. /\ n \in Notes /\ note[n] # "none" /\ n \in marking[c].which /\ PassedOver(c) \subseteq h
        /\ note' = [m \in Notes |-> IF m \in g.which /\ note[m] = "unread" THEN "read" ELSE note[m]]
    BY <1>3 DEF Created
  <2>2. CASE note[n] \in {"pending", "gone"}
    BY <2>1, <2>2 DEF PassedOver
  <2>3. CASE note[n] \in {"unread", "read"}
    BY <2>1, <2>3 DEF Seen
  <2> QED BY <1>0, <2>1, <2>2, <2>3 DEF NoteStates
<1>11. ShownOK(c)'
  <2>1. /\ \A k \in DOMAIN events[c] : events[c][k] \in Created
        /\ \A k \in DOMAIN fetching[c].rows : /\ fetching[c].rows[k].id \in Created
                                              /\ fetching[c].rows[k].read => fetching[c].rows[k].id \in Seen'
    BY <1>8, BellInvParts DEF ShownOK
  <2> QED BY <1>1, <1>4, <1>8, <1>9, <1>10, <2>1 DEF ShownOK
<1>12. ASSUME NEW n \in witnessed'[c] PROVE Up(c)' /\ InOnePlace(c, n)'
  <2>1. Up(c) /\ InOnePlace(c, n)
    BY <1>1, <1>12, BellInvParts
  <2>2. /\ NeverListed(list[c], n) => NeverListed(l, n)
        /\ ListedOnce(list[c], n) => ListedOnce(l, n)
    <3>1. DOMAIN l = DOMAIN list[c] /\ \A k \in DOMAIN l : l[k].id = list[c][k].id
      BY <1>3
    <3>2. NeverListed(list[c], n) => NeverListed(l, n)
      BY <3>1 DEF NeverListed
    <3>3. ASSUME NEW k \in DOMAIN list[c], \A j \in DOMAIN list[c] : list[c][j].id = n <=> j = k
          PROVE  ListedOnce(l, n)
      <4>1. k \in DOMAIN l /\ \A j \in DOMAIN l : l[j].id = n <=> j = k
        BY <3>1, <3>3
      <4> QED BY <4>1 DEF ListedOnce
    <3> QED BY <3>2, <3>3 DEF ListedOnce
  <2> QED BY <1>1, <1>4, <2>1, <2>2 DEF InOnePlace, Up
<1> QED BY <1>5, <1>7, <1>11, <1>12, OneBellKeeps

-----------------------------------------------------------------------------
LEMMA BellInvInit == ASSUME BellInit PROVE BellInv
<1>0. MaxNotes \in Nat /\ <<>> \in Seq(Notes) /\ <<>> \in Seq(Items)
  BY BellAssumption
<1>1. PICK f : f = [Unasked EXCEPT !.at = "asked"]
  OBVIOUS
<1>2. f \in FetchingType /\ f.rows = <<>> /\ Unmarked \in MarkingType /\ Unmarked.at = "none"
  <2>1. f = [at |-> "asked", rows |-> <<>>]
    BY <1>1 DEF Unasked
  <2>2. f \in FetchingType /\ f.rows = <<>>
    BY <1>0, <2>1 DEF FetchingType
  <2>3. Unmarked \in MarkingType /\ Unmarked.at = "none"
    BY DEF Unmarked, MarkingType
  <2> QED BY <2>2, <2>3
<1>3. fetching = [b \in Bells |-> f]
  BY <1>1 DEF BellInit
<1>4. BellTypeOK
  BY <1>0, <1>2, <1>3 DEF BellInit, BellTypeOK, NoteStates
<1>5. Numbered
  <2>1. \A n \in Notes : note[n] # "none" <=> n <= 0
    BY <1>0 DEF BellInit, Notes
  <2> QED BY <1>0, <2>1 DEF Numbered
<1>6. ASSUME NEW b \in Bells PROVE ShownOK(b) /\ witnessed[b] = {}
  BY <1>2, <1>3, <1>6 DEF BellInit, ShownOK
<1> QED BY <1>4, <1>5, <1>6 DEF BellInv, BellInit

LEMMA BellInvStep == BellInv /\ [BellNext]_bellVars => BellInv'
<1> SUFFICES ASSUME BellInv, [BellNext]_bellVars PROVE BellInv'
  OBVIOUS
<1>1. CASE UNCHANGED bellVars
  <2>1. /\ UNCHANGED <<note, live, online, events, list, fetching, marking, witnessed, hasty, marks, losses>>
        /\ Created' = Created /\ Seen' = Seen
    BY <1>1 DEF bellVars, Created, Seen
  <2>2. (BellTypeOK /\ Numbered /\ live \subseteq Created)'
    BY <2>1 DEF BellInv, BellTypeOK, Numbered
  <2>3. ASSUME NEW b \in Bells PROVE ShownOK(b)'
    BY <2>1 DEF BellInv, ShownOK
  <2>4. ASSUME NEW b \in Bells, NEW n \in witnessed'[b] PROVE Up(b)' /\ InOnePlace(b, n)'
    BY <2>1, <2>4 DEF BellInv, Up, InOnePlace
  <2> QED BY <2>2, <2>3, <2>4 DEF BellInv
<1>2. CASE BellNext
  BY <1>2, CreateNoteKeeps, EmitNoteKeeps, EndMessageKeeps, SocketKeeps, OnNotificationKeeps, FetchingKeeps, MarkingKeeps
     DEF BellNext
<1> QED BY <1>1, <1>2

(* NotificationCenter.tsx: each dashboard shows each notification that it  *)
(* witnessed once, and shows as read only what is, for any number of       *)
(* dashboards, notifications and losses.                                   *)
THEOREM TheWitnessedAreShown == BellSpec => []WitnessedShownOnce
<1>1. BellInv => WitnessedShownOnce
  <2> SUFFICES ASSUME BellInv PROVE WitnessedShownOnce
    OBVIOUS
  <2>1. ASSUME live = {}, NEW b \in Bells, events[b] = <<>>, NEW n \in witnessed[b]
        PROVE  \E k \in DOMAIN list[b] : \A j \in DOMAIN list[b] : list[b][j].id = n <=> j = k
    <3>1. InOnePlace(b, n)
      BY <2>1, BellInvParts
    <3> QED BY <2>1, <3>1 DEF InOnePlace, Once, ListedOnce
  <2>2. ASSUME NEW b \in Bells, NEW r \in Listed(b), r.read PROVE note[r.id] = "read" \/ r.id \in hasty[b]
    <3>1. r.id \in Seen \cup hasty[b]
      BY <2>2, BellInvParts DEF Listed, ShownOK
    <3> QED BY <3>1 DEF Seen
  <2> QED BY <2>1, <2>2 DEF WitnessedShownOnce
<1> QED BY BellInvInit, BellInvStep, <1>1, PTL DEF BellSpec

-----------------------------------------------------------------------------
(* Conversations                                                           *)
Maybe(S) == {{}} \cup {{x} : x \in S}
MessageType == [from : Maybe(Talkers), room : Maybe(Rooms),
                at : {"none", "asked", "create", "announced", "stored", "done", "failed"}]
LoadType == [by : Maybe(Talkers), room : Maybe(Rooms), at : {"none", "asked", "read"}, list : Seq(Numbers)]

ConversationTypeOK ==
  /\ stored \in [Rooms -> Seq(Numbers)] /\ message \in [Numbers -> MessageType] /\ sent \in 0..MaxMessages
  /\ news \in [Talkers -> Seq(Numbers)] /\ thread \in [Talkers -> Seq(Numbers)]
  /\ room \in [Talkers -> Maybe(Rooms)]
  /\ load \in [Loads -> LoadType] /\ loads \in 0..MaxLoads
  /\ crossed \subseteq Talkers /\ breaks \in Nat

Distinct(s) == \A i, j \in 1..Len(s) : s[i] = s[j] => i = j
Underway(n) == message[n].at \notin {"none", "done", "failed"}

(* The messages of conversation c that its participants were told of, as   *)
(* long as no transaction failed.                                          *)
Told(c) == Shown(stored[c]) \cup {n \in Within({c}) : message[n].at = "announced"}

(* Numbers and slots are used once; a row is of one message, once.         *)
RowsOK ==
  /\ \A n \in Numbers : n > sent => message[n] = NoMessage
  /\ \A k \in Loads : (k > loads => load[k] = NoLoad) /\ (load[k].at = "none" => load[k] = NoLoad)
  /\ \A c \in Rooms : /\ Distinct(stored[c])
                      /\ Shown(stored[c]) \subseteq {n \in Within({c}) : message[n].at \in {"stored", "done", "failed"}}
  /\ \A u \in Talkers : \A n \in Shown(news[u]) : message[n].at # "none"

DistinctOK ==
  /\ \A u \in Talkers : Distinct(thread[u])
  /\ \A k \in Loads : Distinct(load[k].list)

(* An event, or an answer, is of a message that was told of.               *)
ToldOK ==
  \A c \in Rooms : \A n \in Within({c}) :
    /\ message[n].at = "stored" => n \in Shown(stored[c])
    /\ \A u \in Talkers : n \in Shown(news[u]) => n \in Told(c)

(* s holds nothing but messages of c that were told of, and the others are *)
(* on their way to u.                                                      *)
InStep(u, c, s) == Shown(s) \subseteq Told(c) /\ Told(c) \subseteq Shown(s) \cup Shown(news[u])

(* The page of u, on conversation c, when nothing overtook it.             *)
PageInStep(u, c) ==
  /\ u \in Participants[c]
  /\ \A n \in Numbers : message[n].from = {u} /\ Underway(n) => message[n].room = {c}
  /\ \A k \in Loads : load[k].by = {u} =>
       /\ load[k].room = {c} /\ \A j \in Loads : load[j].by = {u} => j = k
       /\ load[k].at = "read" => InStep(u, c, load[k].list)
  /\ (\A k \in Loads : load[k].by # {u}) => InStep(u, c, thread[u])

ConversationInv ==
  /\ ConversationTypeOK /\ RowsOK /\ DistinctOK
  /\ breaks = 0 => ToldOK /\ \A u \in Talkers \ crossed, c \in Rooms : room[u] = {c} => PageInStep(u, c)

-----------------------------------------------------------------------------
LEMMA ShownMembers ==
  ASSUME NEW T, NEW s \in Seq(T)
  PROVE  Shown(s) \subseteq T /\ Len(s) \in Nat
BY ElementOfSeq, LenProperties DEF Shown

LEMMA ShownAppended ==
  ASSUME NEW T, NEW s \in Seq(T), NEW x \in T
  PROVE  /\ Append(s, x) \in Seq(T) /\ Shown(Append(s, x)) = Shown(s) \cup {x}
         /\ Distinct(s) /\ x \notin Shown(s) => Distinct(Append(s, x))
<1> DEFINE t == Append(s, x)
<1>1. /\ t \in Seq(T) /\ Len(t) = Len(s) + 1 /\ Len(s) \in Nat
      /\ t[Len(s) + 1] = x /\ \A i \in 1..Len(s) : t[i] = s[i]
  BY AppendProperties, LenProperties
<1> HIDE DEF t
<1>2. \A i \in 1..Len(t) : i \in 1..Len(s) \/ i = Len(s) + 1
  BY <1>1
<1>3. 1..Len(s) \subseteq 1..Len(t) /\ Len(s) + 1 \in 1..Len(t)
  BY <1>1
<1>4. Shown(t) = Shown(s) \cup {x}
  BY <1>1, <1>2, <1>3 DEF Shown
<1>5. ASSUME Distinct(s), x \notin Shown(s) PROVE Distinct(t)
  BY <1>1, <1>2, <1>5 DEF Shown, Distinct
<1> QED BY <1>1, <1>4, <1>5 DEF t

LEMMA ShownTail ==
  ASSUME NEW T, NEW s \in Seq(T), s # <<>>
  PROVE  Head(s) \in T /\ Tail(s) \in Seq(T) /\ Shown(s) = {Head(s)} \cup Shown(Tail(s))
<1> DEFINE t == Tail(s)
<1>1. /\ Head(s) \in T /\ t \in Seq(T) /\ Head(s) = s[1] /\ Len(s) \in Nat \ {0}
      /\ Len(t) = Len(s) - 1 /\ \A i \in 1..Len(t) : t[i] = s[i + 1]
  BY HeadTailProperties, LenProperties, EmptySeq
<1> HIDE DEF t
<1>2. \A i \in 1..Len(s) : i = 1 \/ i - 1 \in 1..Len(t)
  BY <1>1
<1>3. 1 \in 1..Len(s) /\ \A i \in 1..Len(t) : i + 1 \in 1..Len(s)
  BY <1>1
<1>4. \A i \in 1..Len(s) : s[i] = Head(s) \/ s[i] \in Shown(t)
  <2>1. ASSUME NEW i \in 1..Len(s), i # 1 PROVE s[i] \in Shown(t)
    <3>1. PICK j \in 1..Len(t) : j = i - 1
      BY <1>2, <2>1
    <3>2. j + 1 = i
      BY <1>1, <3>1
    <3> QED BY <1>1, <3>2 DEF Shown
  <2> QED BY <1>1, <2>1
<1>5. Head(s) \in Shown(s) /\ \A i \in 1..Len(t) : t[i] \in Shown(s)
  BY <1>1, <1>3 DEF Shown
<1> QED BY <1>1, <1>4, <1>5 DEF t, Shown

LEMMA ShowAdds ==
  ASSUME NEW T, NEW s \in Seq(T), NEW n \in T
  PROVE  /\ Show(s, n) \in Seq(T) /\ Shown(Show(s, n)) = Shown(s) \cup {n}
         /\ Distinct(s) => Distinct(Show(s, n))
BY ShownAppended DEF Show

(* Distinct messages are as many as they are.                              *)
LEMMA DistinctCounts ==
  ASSUME NEW T, NEW s \in Seq(T), Distinct(s)
  PROVE  Cardinality(Shown(s)) = Len(s)
<1>1. Len(s) \in Nat /\ DOMAIN s = 1..Len(s) /\ s \in [1..Len(s) -> Shown(s)]
  BY LenProperties DEF Shown
<1>2. s \in Surjection(1..Len(s), Shown(s)) /\ s \in Injection(1..Len(s), Shown(s))
  <2>1. IsInjective(s)
    BY <1>1 DEF Distinct, IsInjective
  <2>2. \A t \in Shown(s) : \E i \in 1..Len(s) : s[i] = t
    BY DEF Shown
  <2> QED BY <1>1, <2>1, <2>2 DEF Surjection, Injection
<1>3. IsFiniteSet(1..Len(s)) /\ Cardinality(1..Len(s)) = Len(s)
  BY <1>1, FS_Interval
<1> QED BY <1>2, <1>3, FS_Surjection

LEMMA NothingShown == Shown(<<>>) = {} /\ Distinct(<<>>)
BY DEF Shown, Distinct

-----------------------------------------------------------------------------
LEMMA ConversationParts ==
  ASSUME ConversationInv
  PROVE  /\ ConversationTypeOK /\ RowsOK /\ DistinctOK
         /\ breaks = 0 => ToldOK
         /\ \A u \in Talkers \ crossed, c \in Rooms : breaks = 0 /\ room[u] = {c} => PageInStep(u, c)
BY DEF ConversationInv

LEMMA ConversationTypes ==
  ASSUME ConversationTypeOK
  PROVE  /\ \A c \in Rooms : stored[c] \in Seq(Numbers) /\ Shown(stored[c]) \subseteq Numbers
         /\ \A n \in Numbers : /\ message[n] \in MessageType /\ message[n].from \in Maybe(Talkers)
                               /\ message[n].room \in Maybe(Rooms)
         /\ \A u \in Talkers : /\ news[u] \in Seq(Numbers) /\ Shown(news[u]) \subseteq Numbers
                               /\ thread[u] \in Seq(Numbers) /\ Shown(thread[u]) \subseteq Numbers
                               /\ room[u] \in Maybe(Rooms)
         /\ \A k \in Loads : /\ load[k] \in LoadType /\ load[k].by \in Maybe(Talkers)
                             /\ load[k].room \in Maybe(Rooms) /\ load[k].list \in Seq(Numbers)
                             /\ load[k].at \in {"none", "asked", "read"}
<1>1. ASSUME NEW r \in MessageType PROVE r.from \in Maybe(Talkers) /\ r.room \in Maybe(Rooms)
  BY DEF MessageType
<1>2. ASSUME NEW r \in LoadType
      PROVE  /\ r.by \in Maybe(Talkers) /\ r.room \in Maybe(Rooms) /\ r.list \in Seq(Numbers)
             /\ r.at \in {"none", "asked", "read"}
  BY DEF LoadType
<1>3. \A s \in Seq(Numbers) : Shown(s) \subseteq Numbers
  BY ShownMembers
<1> QED BY <1>1, <1>2, <1>3 DEF ConversationTypeOK

(* Told(c) is of c, and depends on the rows and the messages only.         *)
LEMMA ToldWithin ==
  ASSUME RowsOK, NEW c \in Rooms
  PROVE  /\ Told(c) \subseteq Within({c}) /\ Shown(stored[c]) \subseteq Told(c)
         /\ \A n \in Told(c) : message[n].at \in {"announced", "stored", "done", "failed"}
BY DEF RowsOK, Told, Within

(* What a step of message n changes: how far its request is.               *)
Moved(n, at) ==
  /\ message' \in [Numbers -> MessageType]
  /\ \A j \in Numbers : /\ message'[j].from = message[j].from /\ message'[j].room = message[j].room
                        /\ message'[j].at = IF j = n THEN at ELSE message[j].at

LEMMA MessageMoves ==
  ASSUME message \in [Numbers -> MessageType], NEW n \in Numbers,
         NEW at \in {"none", "asked", "create", "announced", "stored", "done", "failed"}, MessageAt(n, at)
  PROVE  Moved(n, at)
<1>1. PICK r \in MessageType : r = message[n]
  OBVIOUS
<1>2. PICK t : t = [r EXCEPT !.at = at]
  OBVIOUS
<1>3. t \in MessageType /\ t.from = r.from /\ t.room = r.room /\ t.at = at
  BY <1>1, <1>2 DEF MessageType
<1>4. message' = [message EXCEPT ![n] = t]
  BY <1>1, <1>2 DEF MessageAt
<1> QED BY <1>1, <1>3, <1>4 DEF Moved

(* What a step of request k changes.                                       *)
Turned(k, l) == load' \in [Loads -> LoadType] /\ load'[k] = l /\ \A j \in Loads : j # k => load'[j] = load[j]

LEMMA NoLoadTyped == NoLoad \in LoadType /\ NoLoad.by = {} /\ NoLoad.at = "none" /\ NoLoad.list = <<>>
BY DEF NoLoad, LoadType, Maybe

LEMMA LoadEnds ==
  ASSUME load \in [Loads -> LoadType], NEW k \in Loads, Loaded(k)
  PROVE  Turned(k, NoLoad)
BY NoLoadTyped DEF Loaded, Turned

(* A page of a step that leaves alone the messages, the rows and the news. *)
LEMMA SameTold ==
  ASSUME UNCHANGED <<stored, message>>, NEW c \in Rooms
  PROVE  Told(c)' = Told(c) /\ Within({c})' = Within({c})
BY DEF Told, Within

-----------------------------------------------------------------------------
LEMMA SelectKeeps ==
  ASSUME ConversationInv, NEW v \in Talkers, NEW d \in Rooms, Select(v, d)
  PROVE  ConversationInv'
<1>0. /\ ConversationTypeOK /\ RowsOK /\ DistinctOK /\ loads \in 0..MaxLoads /\ MaxLoads \in Nat
      /\ load \in [Loads -> LoadType] /\ room \in [Talkers -> Maybe(Rooms)]
  BY ConversationParts, ConversationAssumption DEF ConversationTypeOK
<1>1. UNCHANGED <<stored, message, sent, news, thread, breaks>>
  BY DEF Select
<1>2. PICK k \in Loads : k = loads + 1
  BY <1>0 DEF Select, Loads
<1>3. PICK l : l = [by |-> {v}, room |-> {d}, at |-> "asked", list |-> <<>>]
  OBVIOUS
<1>4. l \in LoadType /\ l.by = {v} /\ l.room = {d} /\ l.at = "asked" /\ l.list = <<>>
  BY <1>3 DEF LoadType, Maybe
<1>5. loads' = k /\ loads' \in 0..MaxLoads /\ Turned(k, l) /\ load[k] = NoLoad
  <2>1. loads' = k /\ load' = [load EXCEPT ![k] = l]
    BY <1>2, <1>3 DEF Select
  <2>2. k > loads /\ k \in 0..MaxLoads
    BY <1>0, <1>2 DEF Loads
  <2> QED BY <1>0, <1>4, <2>1, <2>2 DEF Turned, RowsOK
<1>6. /\ room' \in [Talkers -> Maybe(Rooms)] /\ room'[v] = {d}
      /\ \A u \in Talkers : u # v => room'[u] = room[u]
  BY <1>0 DEF Select, Maybe
<1>7. crossed' \subseteq Talkers /\ crossed \subseteq crossed'
  BY <1>0 DEF Select, Crossed, ConversationTypeOK
<1>8. v \notin crossed' => ~Sending(v) /\ ~Loading(v, {"asked", "read"}) /\ v \in Participants[d]
  BY DEF Select, Crossed
<1>9. ConversationTypeOK'
  BY <1>0, <1>1, <1>5, <1>6, <1>7 DEF ConversationTypeOK, Turned
<1>10. RowsOK'
  <2>1. \A j \in Loads : (j > loads' => load'[j] = NoLoad) /\ (load'[j].at = "none" => load'[j] = NoLoad)
    <3>1. \A j \in Loads : j > loads' => j > loads /\ j # k
      BY <1>0, <1>2, <1>5 DEF Loads
    <3> QED BY <1>0, <1>4, <1>5, <3>1 DEF RowsOK, Turned
  <2> QED BY <1>0, <1>1, <2>1 DEF RowsOK, Within
<1>11. DistinctOK'
  BY <1>0, <1>1, <1>4, <1>5, NothingShown DEF DistinctOK, Turned
<1>12. ASSUME breaks' = 0 PROVE ToldOK'
  <2>1. ToldOK
    BY <1>1, <1>12, ConversationParts
  <2> QED BY <1>1, <2>1, SameTold DEF ToldOK
<1>13. ASSUME breaks' = 0, NEW u \in Talkers \ crossed', NEW c \in Rooms, room'[u] = {c} PROVE PageInStep(u, c)'
  <2>0. Told(c)' = Told(c)
    BY <1>1, SameTold
  <2>1. CASE u = v
    <3>1. c = d /\ v \notin crossed'
      BY <1>6, <1>13, <2>1
    <3>2. \A n \in Numbers : message[n].from = {u} => ~Underway(n)
      BY <1>8, <2>1, <3>1 DEF Sending, Underway
    <3>3. \A j \in Loads : load'[j].by = {u} => j = k
      <4>1. \A j \in Loads : load[j].by = {u} => load[j].at = "none"
        BY <1>0, <1>8, <2>1, <3>1, ConversationTypes DEF Loading
      <4>2. \A j \in Loads : load[j].by # {u}
        BY <1>0, <4>1, NoLoadTyped DEF RowsOK
      <4> QED BY <1>5, <4>2 DEF Turned
    <3>4. load'[k] = l
      BY <1>5 DEF Turned
    <3> QED BY <1>1, <1>4, <1>8, <2>1, <3>1, <3>2, <3>3, <3>4 DEF PageInStep, Underway
  <2>2. CASE u # v
    <3>1. PageInStep(u, c)
      BY <1>1, <1>6, <1>7, <1>13, <2>2, ConversationParts
    <3>2. load'[k].by # {u} /\ load[k].by # {u}
      BY <1>4, <1>5, <2>2, NoLoadTyped DEF Turned
    <3> QED BY <1>1, <1>5, <2>0, <3>1, <3>2 DEF PageInStep, Underway, InStep, Turned
  <2> QED BY <2>1, <2>2
<1> QED BY <1>9, <1>10, <1>11, <1>12, <1>13 DEF ConversationInv

LEMMA LoadingKeeps ==
  ASSUME ConversationInv, NEW k \in Loads, LoadMessages(k) \/ SetMessages(k) \/ LoadFails(k)
  PROVE  ConversationInv'
<1>0. /\ ConversationTypeOK /\ RowsOK /\ DistinctOK /\ loads \in 0..MaxLoads /\ MaxLoads \in Nat
      /\ load \in [Loads -> LoadType] /\ thread \in [Talkers -> Seq(Numbers)] /\ breaks \in Nat
  BY ConversationParts, ConversationAssumption DEF ConversationTypeOK
<1>1. UNCHANGED <<stored, message, sent, news, room, loads>> /\ k <= loads
  <2>1. load[k].at # "none"
    BY DEF LoadMessages, SetMessages, LoadFails
  <2>2. ~(k > loads)
    BY <1>0, <2>1, NoLoadTyped DEF RowsOK
  <2> QED BY <1>0, <2>2 DEF LoadMessages, SetMessages, LoadFails, Loads
<1>2. breaks' \in Nat /\ (breaks' = 0 => breaks = 0)
  BY <1>0 DEF LoadMessages, SetMessages, LoadFails, Breaks
<1>3. crossed \subseteq crossed' /\ crossed' \subseteq Talkers
  <2>1. load[k].by \subseteq Talkers
    BY <1>0, ConversationTypes DEF Maybe
  <2> QED BY <1>0, <2>1 DEF LoadMessages, SetMessages, LoadFails, ConversationTypeOK
<1>4. PICK l \in LoadType :
        /\ Turned(k, l) /\ Distinct(l.list) /\ (l.at = "none" => l = NoLoad)
        /\ \/ /\ LoadMessages(k) /\ l.by = load[k].by /\ l.room = load[k].room /\ l.at = "read"
              /\ \A c \in Rooms : l.room = {c} => l.list = stored[c]
           \/ (SetMessages(k) \/ LoadFails(k)) /\ l = NoLoad
  <2>1. CASE LoadMessages(k)
    <3>1. PICK r \in LoadType : r = load[k]
      BY <1>0
    <3>2. PICK c \in r.room : load' = [load EXCEPT ![k] = [r EXCEPT !.at = "read", !.list = stored[c]]]
      BY <2>1, <3>1 DEF LoadMessages
    <3>3. c \in Rooms /\ r.room = {c} /\ stored[c] \in Seq(Numbers) /\ Distinct(stored[c])
      <4>1. r.room \in Maybe(Rooms)
        BY DEF LoadType
      <4>2. c \in Rooms /\ r.room = {c}
        BY <3>2, <4>1 DEF Maybe
      <4> QED BY <1>0, <4>2, ConversationTypes DEF RowsOK
    <3>4. PICK l : l = [r EXCEPT !.at = "read", !.list = stored[c]]
      OBVIOUS
    <3>5. l \in LoadType /\ l.by = r.by /\ l.room = r.room /\ l.at = "read" /\ l.list = stored[c]
      BY <3>3, <3>4 DEF LoadType
    <3>6. Turned(k, l)
      BY <1>0, <3>2, <3>4, <3>5 DEF Turned
    <3>7. \A b \in Rooms : l.room = {b} => b = c
      BY <3>3, <3>5
    <3> QED BY <2>1, <3>1, <3>3, <3>5, <3>6, <3>7
  <2>2. CASE SetMessages(k) \/ LoadFails(k)
    <3>1. Turned(k, NoLoad)
      BY <1>0, <2>2, LoadEnds DEF SetMessages, LoadFails
    <3> QED BY <2>2, <3>1, NoLoadTyped, NothingShown
  <2> QED BY <2>1, <2>2
<1>5. /\ thread' \in [Talkers -> Seq(Numbers)]
      /\ \A u \in Talkers : \/ thread'[u] = thread[u] /\ (SetMessages(k) => load[k].by # {u})
                            \/ SetMessages(k) /\ load[k].by = {u} /\ thread'[u] = load[k].list
  BY <1>0, ConversationTypes DEF LoadMessages, SetMessages, LoadFails
<1>6. ConversationTypeOK'
  BY <1>0, <1>1, <1>2, <1>3, <1>4, <1>5 DEF ConversationTypeOK, Turned
<1>7. RowsOK'
  <2>1. \A j \in Loads : j > loads => j # k
    BY <1>0, <1>1 DEF Loads
  <2>2. \A j \in Loads : (j > loads' => load'[j] = NoLoad) /\ (load'[j].at = "none" => load'[j] = NoLoad)
    BY <1>0, <1>1, <1>4, <2>1 DEF RowsOK, Turned
  <2> QED BY <1>0, <1>1, <2>2 DEF RowsOK, Within
<1>8. DistinctOK'
  BY <1>0, <1>4, <1>5 DEF DistinctOK, Turned
<1>9. ASSUME breaks' = 0 PROVE ToldOK'
  <2>1. ToldOK
    BY <1>2, <1>9, ConversationParts
  <2> QED BY <1>1, <2>1, SameTold DEF ToldOK
<1>10. ASSUME breaks' = 0, NEW u \in Talkers \ crossed', NEW c \in Rooms, room'[u] = {c} PROVE PageInStep(u, c)'
  <2>0. /\ Told(c)' = Told(c) /\ PageInStep(u, c) /\ ~LoadFails(k)
        /\ UNCHANGED <<message, news>>
    <3>1. ~LoadFails(k)
      BY <1>0, <1>10 DEF LoadFails, Breaks
    <3> QED BY <1>1, <1>2, <1>3, <1>10, <3>1, SameTold, ConversationParts
  <2>1. CASE load[k].by # {u}
    <3>1. load'[k].by # {u} /\ thread'[u] = thread[u]
      BY <1>4, <1>5, <2>1, NoLoadTyped DEF Turned
    <3> QED BY <1>4, <2>0, <2>1, <3>1 DEF PageInStep, Underway, InStep, Turned
  <2>2. CASE load[k].by = {u} /\ LoadMessages(k)
    <3>1. load[k].room = {c} /\ \A j \in Loads : load[j].by = {u} => j = k
      BY <2>0, <2>2 DEF PageInStep
    <3>2. Told(c) = Shown(stored[c])
      <4>1. ~Announced({c})
        BY <1>10, <2>2, <3>1 DEF LoadMessages
      <4> QED BY <4>1 DEF Told, Announced
    <3>3. load'[k] = l /\ l.by = {u} /\ l.room = {c} /\ l.list = stored[c]
      <4>1. ~SetMessages(k)
        BY <2>2 DEF LoadMessages, SetMessages
      <4>2. LoadMessages(k) /\ l.by = load[k].by /\ l.room = load[k].room /\ \A d \in Rooms : l.room = {d} => l.list = stored[d]
        BY <1>4, <2>0, <4>1
      <4>3. load'[k] = l
        BY <1>4 DEF Turned
      <4> QED BY <2>2, <3>1, <4>2, <4>3
    <3>4. \A j \in Loads : load'[j].by = {u} => j = k
      BY <1>4, <3>1 DEF Turned
    <3> QED BY <2>0, <3>2, <3>3, <3>4 DEF PageInStep, Underway, InStep
  <2>3. CASE load[k].by = {u} /\ SetMessages(k)
    <3>1. load[k].at = "read" /\ \A j \in Loads : load[j].by = {u} => j = k
      BY <2>0, <2>3 DEF PageInStep, SetMessages
    <3>2. InStep(u, c, load[k].list) /\ thread'[u] = load[k].list
      BY <1>5, <2>0, <2>3, <3>1 DEF PageInStep
    <3>3. l.by = {} /\ load'[k] = l
      BY <1>4, <2>3, NoLoadTyped DEF Turned, LoadMessages, SetMessages
    <3>4. \A j \in Loads : load'[j].by # {u}
      BY <1>4, <3>1, <3>3 DEF Turned
    <3> QED BY <2>0, <3>2, <3>4 DEF PageInStep, Underway, InStep
  <2> QED BY <2>0, <2>1, <2>2, <2>3
<1> QED BY <1>6, <1>7, <1>8, <1>9, <1>10 DEF ConversationInv

-----------------------------------------------------------------------------
(* A page keeps in step when what it was told of, and what is on its way,  *)
(* stay as they are, and so does how it loads and what it shows.           *)
LEMMA PageUntouched ==
  ASSUME ConversationInv, breaks = 0, NEW u \in Talkers \ crossed, NEW c \in Rooms, room[u] = {c},
         UNCHANGED load, Told(c)' = Told(c), Shown(news[u])' = Shown(news[u]), thread'[u] = thread[u],
         \A n \in Numbers : message'[n].from = {u} /\ Underway(n)' => message'[n].room = {c}
  PROVE  PageInStep(u, c)'
<1>1. PageInStep(u, c)
  BY ConversationParts
<1> QED BY <1>1 DEF PageInStep, InStep

LEMMA SendKeeps ==
  ASSUME ConversationInv, NEW v \in Talkers, Send(v)
  PROVE  ConversationInv'
<1>0. /\ ConversationTypeOK /\ RowsOK /\ DistinctOK /\ sent \in 0..MaxMessages /\ MaxMessages \in Nat
      /\ message \in [Numbers -> MessageType] /\ room[v] \in Maybe(Rooms)
  BY ConversationParts, ConversationTypes, ConversationAssumption DEF ConversationTypeOK
<1>1. UNCHANGED <<stored, news, room, thread, load, loads, crossed, breaks>>
  BY DEF Send
<1>2. PICK n \in Numbers : n = sent + 1
  BY <1>0 DEF Send, Numbers
<1>3. PICK m : m = [from |-> {v}, room |-> room[v], at |-> "asked"]
  OBVIOUS
<1>4. m \in MessageType /\ m.from = {v} /\ m.room = room[v] /\ m.at = "asked"
  BY <1>0, <1>3 DEF MessageType, Maybe
<1>5. /\ sent' = n /\ sent' \in 0..MaxMessages /\ message' \in [Numbers -> MessageType]
      /\ message'[n] = m /\ \A j \in Numbers : j # n => message'[j] = message[j]
      /\ message[n] = NoMessage
  <2>1. sent' = n /\ message' = [message EXCEPT ![n] = m]
    BY <1>2, <1>3 DEF Send
  <2>2. n > sent /\ n \in 0..MaxMessages
    BY <1>0, <1>2 DEF Numbers
  <2> QED BY <1>0, <1>4, <2>1, <2>2 DEF RowsOK
<1>6. message[n].at = "none" /\ message[n].room = {} /\ \A c \in Rooms : n \notin Shown(stored[c])
  <2>1. message[n].at = "none" /\ message[n].room = {}
    BY <1>5 DEF NoMessage
  <2> QED BY <1>0, <2>1 DEF RowsOK
<1>7. ASSUME NEW c \in Rooms PROVE Told(c)' = Told(c) /\ Within({c}) \subseteq Within({c})'
  <2>1. \A j \in Numbers : message'[j].at = "announced" /\ message'[j].room = {c}
                           <=> message[j].at = "announced" /\ message[j].room = {c}
    BY <1>4, <1>5, <1>6
  <2> QED BY <1>1, <1>5, <1>6, <2>1 DEF Told, Within
<1>8. ConversationTypeOK'
  BY <1>0, <1>1, <1>5 DEF ConversationTypeOK
<1>9. RowsOK'
  <2>1. \A j \in Numbers : j > sent' => j > sent /\ j # n
    BY <1>0, <1>2, <1>5 DEF Numbers
  <2>2. \A j \in Numbers : j > sent' => message'[j] = NoMessage
    BY <1>0, <1>5, <2>1 DEF RowsOK
  <2>3. ASSUME NEW c \in Rooms, NEW j \in Shown(stored[c])
        PROVE  j \in Within({c})' /\ message'[j].at \in {"stored", "done", "failed"}
    BY <1>0, <1>5, <1>6, <2>3 DEF RowsOK, Within
  <2>4. ASSUME NEW u \in Talkers, NEW j \in Shown(news[u]) PROVE message'[j].at # "none"
    <3>1. j \in Numbers /\ message[j].at # "none"
      BY <1>0, ConversationTypes DEF RowsOK
    <3>2. j # n /\ message'[j] = message[j]
      BY <1>5, <1>6, <3>1
    <3> QED BY <3>1, <3>2
  <2> QED BY <1>0, <1>1, <2>2, <2>3, <2>4 DEF RowsOK
<1>10. DistinctOK'
  BY <1>0, <1>1 DEF DistinctOK
<1>11. ASSUME breaks' = 0 PROVE ToldOK'
  <2>1. ToldOK
    BY <1>1, <1>11, ConversationParts
  <2>2. ASSUME NEW c \in Rooms, NEW j \in Within({c})'
        PROVE  /\ message'[j].at = "stored" => j \in Shown(stored[c])
               /\ \A u \in Talkers : j \in Shown(news[u]) => j \in Told(c)
    <3>1. CASE j = n
      <4>1. ASSUME NEW u \in Talkers PROVE n \notin Shown(news[u])
        BY <1>0, <1>6 DEF RowsOK
      <4> QED BY <1>4, <1>5, <3>1, <4>1
    <3>2. CASE j # n
      <4>1. j \in Numbers /\ message'[j] = message[j] /\ j \in Within({c})
        BY <1>5, <2>2, <3>2 DEF Within
      <4> QED BY <2>1, <4>1 DEF ToldOK
    <3> QED BY <3>1, <3>2
  <2> QED BY <1>1, <1>7, <2>2 DEF ToldOK
<1>12. ASSUME breaks' = 0, NEW u \in Talkers \ crossed', NEW c \in Rooms, room'[u] = {c} PROVE PageInStep(u, c)'
  <2>1. PageInStep(u, c)
    BY <1>1, <1>12, ConversationParts
  <2>2. ASSUME NEW j \in Numbers, message'[j].from = {u}, Underway(j)' PROVE message'[j].room = {c}
    <3>1. CASE j = n
      BY <1>1, <1>4, <1>5, <1>12, <2>2, <3>1
    <3>2. CASE j # n
      BY <1>5, <2>1, <2>2, <3>2 DEF PageInStep, Underway
    <3> QED BY <3>1, <3>2
  <2> QED BY <1>1, <1>7, <1>12, <2>2, PageUntouched
<1> QED BY <1>8, <1>9, <1>10, <1>11, <1>12 DEF ConversationInv

(* The steps of a request before its message is committed, and those that  *)
(* fail: how far it is, and what its participants are told.                *)
LEMMA RequestKeeps ==
  ASSUME ConversationInv, NEW n \in Numbers,
         CountMessages(n) \/ Announce(n) \/ TransactionFails(n) \/ AnswerLost(n)
  PROVE  ConversationInv'
<1>0. /\ ConversationTypeOK /\ RowsOK /\ DistinctOK /\ message \in [Numbers -> MessageType]
      /\ news \in [Talkers -> Seq(Numbers)] /\ breaks \in Nat /\ sent \in 0..MaxMessages /\ MaxMessages \in Nat
  BY ConversationParts, ConversationAssumption DEF ConversationTypeOK
<1>1. UNCHANGED <<stored, sent, room, thread, load, loads, crossed>> /\ breaks' \in Nat
  BY <1>0 DEF CountMessages, Announce, TransactionFails, AnswerLost, Breaks
<1>2. PICK at \in {"none", "asked", "create", "announced", "stored", "done", "failed"} :
        /\ MessageAt(n, at)
        /\ \/ /\ Announce(n) /\ message[n].at = "create" /\ at = "announced" /\ breaks' = breaks
           \/ /\ message[n].at = "asked" /\ at \in {"create", "failed"} /\ news' = news /\ breaks' = breaks
           \/ /\ message[n].at \in {"asked", "create", "announced", "stored"} /\ at \in {"stored", "failed"}
              /\ (message[n].at \in {"asked", "create"} => at = "failed") /\ news' = news /\ breaks' # 0
  <2>1. CASE CountMessages(n)
    BY <2>1 DEF CountMessages
  <2>2. CASE Announce(n)
    BY <2>2 DEF Announce
  <2>3. CASE TransactionFails(n) \/ AnswerLost(n)
    BY <1>0, <2>3 DEF TransactionFails, AnswerLost, Breaks
  <2> QED BY <2>1, <2>2, <2>3
<1>3. Moved(n, at)
  BY <1>0, <1>2, MessageMoves
<1>4. /\ news' \in [Talkers -> Seq(Numbers)]
      /\ \A u \in Talkers :
           \/ Shown(news[u])' = Shown(news[u]) /\ (Announce(n) => \A c \in message[n].room : u \notin Participants[c])
           \/ Announce(n) /\ Shown(news[u])' = Shown(news[u]) \cup {n}
  <2>1. CASE ~Announce(n)
    BY <1>0, <1>2, <2>1
  <2>2. CASE Announce(n)
    <3>1. \A u \in Talkers : Append(news[u], n) \in Seq(Numbers) /\ Shown(Append(news[u], n)) = Shown(news[u]) \cup {n}
      BY <1>0, ShownAppended
    <3>2. news' = [u \in Talkers |->
                IF \E c \in message[n].room : u \in Participants[c] THEN Append(news[u], n) ELSE news[u]]
      BY <2>2 DEF Announce
    <3>3. news' \in [Talkers -> Seq(Numbers)]
      BY <1>0, <3>1, <3>2
    <3>4. ASSUME NEW u \in Talkers
          PROVE  IF \E c \in message[n].room : u \in Participants[c]
                 THEN Shown(news[u])' = Shown(news[u]) \cup {n} ELSE Shown(news[u])' = Shown(news[u])
      BY <3>1, <3>2
    <3> QED BY <2>2, <3>3, <3>4
  <2> QED BY <2>1, <2>2
<1>5. ASSUME NEW c \in Rooms
      PROVE  /\ Within({c})' = Within({c})
             /\ breaks' = 0 => IF Announce(n) /\ message[n].room = {c}
                               THEN Told(c)' = Told(c) \cup {n} ELSE Told(c)' = Told(c)
  <2>1. Within({c})' = Within({c})
    BY <1>3 DEF Within, Moved
  <2>2. CASE breaks' = 0
    <3>1. at = "announced" <=> Announce(n)
      BY <1>2, <2>2 DEF Announce
    <3>2. message[n].at # "announced"
      BY <1>2, <2>2
    <3>3. \A j \in Numbers : message'[j].at = "announced" <=> message[j].at = "announced" \/ (j = n /\ Announce(n))
      BY <1>3, <3>1, <3>2 DEF Moved
    <3> QED BY <1>1, <2>1, <3>3 DEF Told, Within
  <2> QED BY <2>1, <2>2
<1>6. ConversationTypeOK'
  BY <1>0, <1>1, <1>3, <1>4 DEF ConversationTypeOK, Moved
<1>7. RowsOK'
  <2>1. n <= sent /\ message[n].at # "none" /\ at # "none"
    <3>1. message[n].at # "none" /\ at # "none"
      BY <1>2
    <3>2. n > sent => message[n].at = "none"
      BY <1>0 DEF RowsOK, NoMessage
    <3> QED BY <1>0, <3>1, <3>2 DEF Numbers
  <2>2. ASSUME NEW j \in Numbers, j > sent PROVE message'[j] = NoMessage
    <3>1. j # n /\ message[j] = NoMessage
      BY <1>0, <2>1, <2>2 DEF RowsOK, Numbers
    <3>2. \A r \in Numbers : r # n => message'[r] = message[r]
      BY <1>0, <1>2 DEF MessageAt
    <3> QED BY <3>1, <3>2
  <2>3. ASSUME NEW c \in Rooms, NEW j \in Shown(stored[c])
        PROVE  j \in Within({c})' /\ message'[j].at \in {"stored", "done", "failed"}
    <3>1. j \in Numbers /\ j \in Within({c}) /\ message[j].at \in {"stored", "done", "failed"}
      BY <1>0, <2>3 DEF RowsOK, Within
    <3>2. j = n => at = "failed" \/ at = "stored"
      BY <1>2, <3>1
    <3> QED BY <1>3, <1>5, <3>1, <3>2 DEF Moved
  <2>4. ASSUME NEW u \in Talkers, NEW j \in Shown(news[u])' PROVE message'[j].at # "none"
    <3>1. j \in Numbers /\ (j = n \/ j \in Shown(news[u]))
      BY <1>0, <1>4, <2>4, ConversationTypes
    <3> QED BY <1>0, <1>3, <2>1, <3>1 DEF RowsOK, Moved
  <2> QED BY <1>0, <1>1, <2>2, <2>3, <2>4 DEF RowsOK
<1>8. DistinctOK'
  BY <1>0, <1>1 DEF DistinctOK
<1>9. ASSUME breaks' = 0 PROVE breaks = 0 /\ ToldOK'
  <2>0. breaks = 0
    BY <1>2, <1>9
  <2>1. ToldOK
    BY <2>0, ConversationParts
  <2>2. ASSUME NEW c \in Rooms, NEW j \in Within({c})
        PROVE  /\ message'[j].at = "stored" => j \in Shown(stored[c])
               /\ \A u \in Talkers : j \in Shown(news[u])' => j \in Told(c)'
    <3>1. message'[j].at = "stored" => message[j].at = "stored"
      BY <1>2, <1>3, <1>9 DEF Moved, Within
    <3>2. message[j].room = {c} /\ j \in Numbers
      BY DEF Within
    <3>3. Told(c) \subseteq Told(c)' /\ (Announce(n) /\ j = n => n \in Told(c)')
      BY <1>5, <1>9, <3>2
    <3>4. ASSUME NEW u \in Talkers, j \in Shown(news[u])' PROVE j \in Told(c)'
      BY <1>4, <2>1, <3>3, <3>4 DEF ToldOK
    <3> QED BY <2>1, <3>1, <3>4 DEF ToldOK
  <2> QED BY <1>1, <1>5, <2>0, <2>2 DEF ToldOK
<1>10. ASSUME breaks' = 0, NEW u \in Talkers \ crossed', NEW c \in Rooms, room'[u] = {c} PROVE PageInStep(u, c)'
  <2>1. breaks = 0 /\ PageInStep(u, c)
    BY <1>1, <1>9, <1>10, ConversationParts
  <2>2. \A j \in Numbers : message'[j].from = {u} /\ Underway(j)' => message'[j].room = {c}
    <3>1. Underway(n)
      BY <1>2 DEF Underway
    <3>2. \A j \in Numbers : Underway(j)' => Underway(j)
      BY <1>3, <3>1 DEF Moved, Underway
    <3> QED BY <1>3, <2>1, <3>2 DEF PageInStep, Moved
  <2>3. CASE ~Announce(n)
    BY <1>1, <1>4, <1>5, <1>10, <2>1, <2>2, <2>3, PageUntouched
  <2>4. CASE Announce(n) /\ message[n].room # {c}
    <3>1. Told(c)' = Told(c) /\ n \notin Told(c)
      BY <1>0, <1>5, <1>10, <2>4, ToldWithin DEF Within
    <3>2. \A s : Shown(s) \subseteq Told(c) /\ Told(c) \subseteq Shown(s) \cup Shown(news[u])
                 => Told(c) \subseteq Shown(s) \cup Shown(news[u])'
      BY <1>4
    <3> QED BY <1>1, <2>1, <2>2, <3>1, <3>2 DEF PageInStep, InStep
  <2>5. CASE Announce(n) /\ message[n].room = {c}
    <3>1. Told(c)' = Told(c) \cup {n} /\ Shown(news[u])' = Shown(news[u]) \cup {n}
      BY <1>4, <1>5, <1>10, <2>1, <2>5 DEF PageInStep
    <3>2. \A s : InStep(u, c, s) => Shown(s) \subseteq Told(c)' /\ Told(c)' \subseteq Shown(s) \cup Shown(news[u])'
      BY <3>1 DEF InStep
    <3> QED BY <1>1, <2>1, <2>2, <3>2 DEF PageInStep, InStep
  <2> QED BY <2>3, <2>4, <2>5
<1> QED BY <1>6, <1>7, <1>8, <1>9, <1>10 DEF ConversationInv

LEMMA CommitKeeps ==
  ASSUME ConversationInv, NEW n \in Numbers, CommitMessage(n)
  PROVE  ConversationInv'
<1>0. /\ ConversationTypeOK /\ RowsOK /\ DistinctOK /\ message \in [Numbers -> MessageType]
      /\ stored \in [Rooms -> Seq(Numbers)] /\ sent \in 0..MaxMessages /\ MaxMessages \in Nat
  BY ConversationParts, ConversationAssumption DEF ConversationTypeOK
<1>1. /\ UNCHANGED <<sent, news, room, thread, load, loads, crossed, breaks>>
      /\ message[n].at = "announced" /\ Moved(n, "stored") /\ MessageAt(n, "stored")
  BY <1>0, MessageMoves DEF CommitMessage
<1>2. ASSUME NEW c \in Rooms PROVE Within({c})' = Within({c})
  BY <1>1 DEF Within, Moved
<1>3. ASSUME NEW c \in Rooms
      PROVE  /\ stored'[c] \in Seq(Numbers) /\ Distinct(stored'[c])
             /\ Shown(stored[c])' = Shown(stored[c]) \cup (Within({c}) \cap {n})
  <2>1. stored'[c] = IF message[n].room = {c} THEN Append(stored[c], n) ELSE stored[c]
    BY DEF CommitMessage
  <2>2. n \notin Shown(stored[c]) /\ Distinct(stored[c])
    BY <1>0, <1>1 DEF RowsOK
  <2>3. n \in Within({c}) <=> message[n].room = {c}
    BY DEF Within
  <2>4. /\ Append(stored[c], n) \in Seq(Numbers) /\ Distinct(Append(stored[c], n))
        /\ Shown(Append(stored[c], n)) = Shown(stored[c]) \cup {n}
    BY <1>0, <2>2, ShownAppended
  <2>5. CASE message[n].room = {c}
    BY <2>1, <2>3, <2>4, <2>5
  <2>6. CASE message[n].room # {c}
    BY <1>0, <2>1, <2>2, <2>3, <2>6
  <2> QED BY <2>5, <2>6
<1>4. ASSUME NEW c \in Rooms PROVE Told(c)' = Told(c)
  <2>1. \A j \in Numbers : message'[j].at = "announced" <=> message[j].at = "announced" /\ j # n
    BY <1>1 DEF Moved
  <2> QED BY <1>1, <1>2, <1>3, <2>1 DEF Told, Within
<1>5. stored' \in [Rooms -> Seq(Numbers)]
  BY <1>3 DEF CommitMessage
<1>6. ConversationTypeOK'
  BY <1>0, <1>1, <1>5 DEF ConversationTypeOK, Moved
<1>7. RowsOK'
  <2>1. ASSUME NEW j \in Numbers, j > sent PROVE message'[j] = NoMessage
    <3>1. j # n /\ message[j] = NoMessage
      BY <1>0, <1>1, <2>1 DEF RowsOK, NoMessage
    <3>2. \A r \in Numbers : r # n => message'[r] = message[r]
      BY <1>0, <1>1 DEF MessageAt
    <3> QED BY <3>1, <3>2
  <2>2. ASSUME NEW c \in Rooms, NEW j \in Shown(stored[c])'
        PROVE  j \in Within({c})' /\ message'[j].at \in {"stored", "done", "failed"}
    <3>1. j \in Within({c}) /\ (j = n \/ message[j].at \in {"stored", "done", "failed"})
      BY <1>0, <1>3, <2>2 DEF RowsOK
    <3> QED BY <1>1, <1>2, <3>1 DEF Moved, Within
  <2>3. ASSUME NEW u \in Talkers, NEW j \in Shown(news[u]) PROVE message'[j].at # "none"
    <3>1. j \in Numbers /\ message[j].at # "none"
      BY <1>0, ConversationTypes DEF RowsOK
    <3> QED BY <1>1, <3>1 DEF Moved
  <2> QED BY <1>0, <1>1, <1>3, <2>1, <2>2, <2>3 DEF RowsOK
<1>8. DistinctOK'
  BY <1>0, <1>1 DEF DistinctOK
<1>9. ASSUME breaks' = 0 PROVE ToldOK'
  <2>1. ToldOK
    BY <1>1, <1>9, ConversationParts
  <2>2. ASSUME NEW c \in Rooms, NEW j \in Within({c}), message'[j].at = "stored" PROVE j \in Shown(stored[c])'
    <3>1. j = n \/ message[j].at = "stored"
      BY <1>1, <2>2 DEF Moved, Within
    <3> QED BY <1>3, <2>1, <2>2, <3>1 DEF ToldOK
  <2> QED BY <1>1, <1>2, <1>4, <2>1, <2>2 DEF ToldOK
<1>10. ASSUME breaks' = 0, NEW u \in Talkers \ crossed', NEW c \in Rooms, room'[u] = {c} PROVE PageInStep(u, c)'
  <2>1. breaks = 0 /\ PageInStep(u, c)
    BY <1>1, <1>10, ConversationParts
  <2>2. \A j \in Numbers : message'[j].from = {u} /\ Underway(j)' => message'[j].room = {c}
    <3>1. \A j \in Numbers : Underway(j)' => Underway(j)
      BY <1>1 DEF Moved, Underway
    <3> QED BY <1>1, <2>1, <3>1 DEF PageInStep, Moved
  <2> QED BY <1>1, <1>4, <1>10, <2>1, <2>2, PageUntouched
<1> QED BY <1>6, <1>7, <1>8, <1>9, <1>10 DEF ConversationInv

(* Message n, that u was told of, is added to what is shown.               *)
LEMMA ShowInStep ==
  ASSUME ConversationTypeOK, NEW u \in Talkers, NEW c \in Rooms, NEW n \in Told(c), n \in Numbers,
         InStep(u, c, thread[u]), Told(c)' = Told(c), thread'[u] = Show(thread[u], n),
         Shown(news[u]) \subseteq Shown(news[u])' \cup {n}
  PROVE  InStep(u, c, thread[u])'
<1>1. Shown(thread[u])' = Shown(thread[u]) \cup {n}
  BY ConversationTypes, ShowAdds
<1> QED BY <1>1 DEF InStep

LEMMA ShowSavedKeeps ==
  ASSUME ConversationInv, NEW n \in Numbers, ShowSaved(n)
  PROVE  ConversationInv'
<1>0. /\ ConversationTypeOK /\ RowsOK /\ DistinctOK /\ message \in [Numbers -> MessageType]
      /\ thread \in [Talkers -> Seq(Numbers)] /\ sent \in 0..MaxMessages /\ MaxMessages \in Nat
  BY ConversationParts, ConversationAssumption DEF ConversationTypeOK
<1>1. /\ UNCHANGED <<stored, sent, news, room, load, loads, breaks>>
      /\ message[n].at = "stored" /\ Moved(n, "done") /\ MessageAt(n, "done")
  BY <1>0, MessageMoves DEF ShowSaved
<1>2. crossed \subseteq crossed' /\ crossed' \subseteq Talkers
  <2>1. message[n].from \subseteq Talkers
    BY <1>0, ConversationTypes DEF Maybe
  <2> QED BY <1>0, <2>1 DEF ShowSaved, ConversationTypeOK
<1>3. ASSUME NEW c \in Rooms PROVE Within({c})' = Within({c}) /\ Told(c)' = Told(c)
  <2>1. Within({c})' = Within({c})
    BY <1>1 DEF Within, Moved
  <2>2. \A j \in Numbers : message'[j].at = "announced" <=> message[j].at = "announced"
    BY <1>1 DEF Moved
  <2> QED BY <1>1, <2>1, <2>2 DEF Told, Within
<1>4. /\ thread' \in [Talkers -> Seq(Numbers)]
      /\ \A u \in Talkers : thread'[u] = IF message[n].from = {u} THEN Show(thread[u], n) ELSE thread[u]
  BY <1>0, ShowAdds DEF ShowSaved
<1>5. ConversationTypeOK'
  BY <1>0, <1>1, <1>2, <1>4 DEF ConversationTypeOK, Moved
<1>6. RowsOK'
  <2>1. ASSUME NEW j \in Numbers, j > sent PROVE message'[j] = NoMessage
    <3>1. j # n /\ message[j] = NoMessage
      BY <1>0, <1>1, <2>1 DEF RowsOK, NoMessage
    <3>2. \A r \in Numbers : r # n => message'[r] = message[r]
      BY <1>0, <1>1 DEF MessageAt
    <3> QED BY <3>1, <3>2
  <2>2. ASSUME NEW c \in Rooms, NEW j \in Shown(stored[c])
        PROVE  j \in Within({c})' /\ message'[j].at \in {"stored", "done", "failed"}
    <3>1. j \in Within({c}) /\ message[j].at \in {"stored", "done", "failed"}
      BY <1>0, <2>2 DEF RowsOK
    <3> QED BY <1>1, <1>3, <3>1 DEF Moved, Within
  <2>3. ASSUME NEW u \in Talkers, NEW j \in Shown(news[u]) PROVE message'[j].at # "none"
    <3>1. j \in Numbers /\ message[j].at # "none"
      BY <1>0, ConversationTypes DEF RowsOK
    <3> QED BY <1>1, <3>1 DEF Moved
  <2> QED BY <1>0, <1>1, <2>1, <2>2, <2>3 DEF RowsOK
<1>7. DistinctOK'
  <2>1. ASSUME NEW u \in Talkers PROVE Distinct(thread'[u])
    <3>1. thread[u] \in Seq(Numbers) /\ Distinct(thread[u])
      BY <1>0 DEF DistinctOK
    <3>2. Distinct(Show(thread[u], n))
      BY <3>1, ShowAdds
    <3> QED BY <1>4, <3>1, <3>2
  <2> QED BY <1>0, <1>1, <2>1 DEF DistinctOK
<1>8. ASSUME breaks' = 0 PROVE ToldOK'
  <2>1. ToldOK
    BY <1>1, <1>8, ConversationParts
  <2>2. \A j \in Numbers : message'[j].at = "stored" => message[j].at = "stored"
    BY <1>1 DEF Moved
  <2>3. \A c \in Rooms : Within({c}) \subseteq Numbers
    BY DEF Within
  <2> QED BY <1>1, <1>3, <2>1, <2>2, <2>3 DEF ToldOK
<1>9. ASSUME breaks' = 0, NEW u \in Talkers \ crossed', NEW c \in Rooms, room'[u] = {c} PROVE PageInStep(u, c)'
  <2>1. breaks = 0 /\ PageInStep(u, c) /\ ToldOK
    BY <1>1, <1>2, <1>9, ConversationParts
  <2>2. \A j \in Numbers : message'[j].from = {u} /\ Underway(j)' => message'[j].room = {c}
    <3>1. \A j \in Numbers : Underway(j)' => Underway(j)
      BY <1>1 DEF Moved, Underway
    <3> QED BY <1>1, <2>1, <3>1 DEF PageInStep, Moved
  <2>3. CASE message[n].from # {u}
    <3>1. thread'[u] = thread[u]
      BY <1>4, <2>3
    <3> QED BY <1>1, <1>2, <1>3, <1>9, <2>1, <2>2, <3>1, PageUntouched
  <2>4. CASE message[n].from = {u}
    <3>1. n \in Told(c)
      <4>1. message[n].room = {c}
        BY <1>1, <2>1, <2>4 DEF PageInStep, Underway
      <4>2. n \in Within({c})
        BY <4>1 DEF Within
      <4> QED BY <1>0, <1>1, <2>1, <4>2, ToldWithin DEF ToldOK
    <3>2. ~Loading(u, {"read"})
      BY <1>9, <2>4 DEF ShowSaved
    <3>3. \A k \in Loads : load[k].by = {u} => load[k].at # "read"
      BY <3>2 DEF Loading
    <3>4. InStep(u, c, thread[u]) => InStep(u, c, thread[u])'
      BY <1>0, <1>1, <1>3, <1>4, <2>4, <3>1, ShowInStep
    <3> QED BY <1>1, <2>1, <2>2, <3>3, <3>4 DEF PageInStep
  <2> QED BY <2>3, <2>4
<1> QED BY <1>5, <1>6, <1>7, <1>8, <1>9 DEF ConversationInv

LEMMA OnNewMessageKeeps ==
  ASSUME ConversationInv, NEW v \in Talkers, OnNewMessage(v)
  PROVE  ConversationInv'
<1>0. /\ ConversationTypeOK /\ RowsOK /\ DistinctOK
      /\ thread \in [Talkers -> Seq(Numbers)] /\ news \in [Talkers -> Seq(Numbers)]
  BY ConversationParts DEF ConversationTypeOK
<1>1. UNCHANGED <<stored, message, sent, room, load, loads, breaks>>
  BY DEF OnNewMessage
<1>2. PICK n : n = Head(news[v])
  OBVIOUS
<1>3. /\ n \in Numbers /\ Tail(news[v]) \in Seq(Numbers)
      /\ Shown(news[v]) = {n} \cup Shown(Tail(news[v]))
  BY <1>0, <1>2, ShownTail DEF OnNewMessage
<1>4. /\ news' \in [Talkers -> Seq(Numbers)] /\ Shown(news[v]) = Shown(news[v])' \cup {n}
      /\ \A u \in Talkers : u # v => news'[u] = news[u]
      /\ \A u \in Talkers : Shown(news[u])' \subseteq Shown(news[u])
  <2>1. news' = [news EXCEPT ![v] = Tail(news[v])]
    BY DEF OnNewMessage
  <2>2. news' \in [Talkers -> Seq(Numbers)] /\ news'[v] = Tail(news[v]) /\ \A u \in Talkers : u # v => news'[u] = news[u]
    BY <1>0, <1>3, <2>1
  <2> QED BY <1>3, <2>2
<1>5. /\ thread' \in [Talkers -> Seq(Numbers)] /\ \A u \in Talkers : u # v => thread'[u] = thread[u]
      /\ thread'[v] = IF ForRoom(v, n) THEN Show(thread[v], n) ELSE thread[v]
  <2>1. Show(thread[v], n) \in Seq(Numbers)
    BY <1>0, <1>3, ShowAdds
  <2>2. thread' = IF ForRoom(v, n) THEN [thread EXCEPT ![v] = Show(thread[v], n)] ELSE thread
    BY <1>2 DEF OnNewMessage
  <2> QED BY <1>0, <2>1, <2>2
<1>6. crossed \subseteq crossed' /\ crossed' \subseteq Talkers
  BY <1>0 DEF OnNewMessage, Crossed, ConversationTypeOK
<1>7. ConversationTypeOK'
  BY <1>0, <1>1, <1>4, <1>5, <1>6 DEF ConversationTypeOK
<1>8. RowsOK'
  BY <1>0, <1>1, <1>4 DEF RowsOK, Within
<1>9. DistinctOK'
  <2>1. Distinct(thread[v]) => Distinct(Show(thread[v], n))
    BY <1>0, <1>3, ShowAdds
  <2>2. ASSUME NEW u \in Talkers PROVE Distinct(thread'[u])
    BY <1>0, <1>5, <2>1 DEF DistinctOK
  <2> QED BY <1>0, <1>1, <2>2 DEF DistinctOK
<1>10. ASSUME breaks' = 0 PROVE ToldOK'
  <2>1. ToldOK
    BY <1>1, <1>10, ConversationParts
  <2> QED BY <1>1, <1>4, <2>1, SameTold DEF ToldOK
<1>11. ASSUME breaks' = 0, NEW u \in Talkers \ crossed', NEW c \in Rooms, room'[u] = {c} PROVE PageInStep(u, c)'
  <2>1. breaks = 0 /\ PageInStep(u, c) /\ ToldOK /\ Told(c)' = Told(c)
    BY <1>1, <1>6, <1>11, SameTold, ConversationParts
  <2>2. \A j \in Numbers : message'[j].from = {u} /\ Underway(j)' => message'[j].room = {c}
    BY <1>1, <2>1 DEF PageInStep, Underway
  <2>3. CASE u # v
    BY <1>1, <1>4, <1>5, <1>6, <1>11, <2>1, <2>2, <2>3, PageUntouched
  <2>4. CASE u = v
    <3>1. \A k \in Loads : load[k].by = {u} => load[k].at # "read"
      BY <1>11, <2>4 DEF OnNewMessage, Crossed, Loading
    <3>2. ASSUME InStep(u, c, thread[u]) PROVE InStep(u, c, thread[u])'
      <4>1. CASE message[n].room = {c}
        <5>1. ForRoom(v, n) /\ n \in Within({c})
          BY <1>1, <1>3, <1>11, <2>4, <4>1 DEF ForRoom, Within
        <5>2. n \in Told(c)
          BY <1>4, <2>1, <2>4, <5>1 DEF ToldOK
        <5> QED BY <1>0, <1>3, <1>4, <1>5, <2>1, <2>4, <3>2, <5>1, <5>2, ShowInStep
      <4>2. CASE message[n].room # {c}
        <5>1. ~ForRoom(v, n) /\ n \notin Told(c)
          BY <1>0, <1>1, <1>11, <2>4, <4>2, ToldWithin DEF ForRoom, Within
        <5> QED BY <1>4, <1>5, <2>1, <2>4, <3>2, <5>1 DEF InStep
      <4> QED BY <4>1, <4>2
    <3> QED BY <1>1, <2>1, <2>2, <3>1, <3>2 DEF PageInStep
  <2> QED BY <2>3, <2>4
<1> QED BY <1>7, <1>8, <1>9, <1>10, <1>11 DEF ConversationInv

-----------------------------------------------------------------------------
LEMMA ConversationInvInit == ASSUME ConversationInit PROVE ConversationInv
<1>0. MaxMessages \in Nat /\ MaxLoads \in Nat /\ <<>> \in Seq(Numbers)
  BY ConversationAssumption
<1>1. NoMessage \in MessageType /\ NoMessage.at = "none" /\ NoMessage.room = {}
  BY DEF NoMessage, MessageType, Maybe
<1>2. ConversationTypeOK
  BY <1>0, <1>1, NoLoadTyped DEF ConversationInit, ConversationTypeOK, Maybe
<1>3. RowsOK
  BY NothingShown, NoLoadTyped DEF ConversationInit, RowsOK
<1>4. DistinctOK
  BY NothingShown, NoLoadTyped DEF ConversationInit, DistinctOK
<1>5. ToldOK
  BY <1>1, NothingShown DEF ConversationInit, ToldOK, Within
<1>6. \A u \in Talkers, c \in Rooms : room[u] # {c}
  BY DEF ConversationInit
<1> QED BY <1>2, <1>3, <1>4, <1>5, <1>6 DEF ConversationInv

LEMMA ConversationInvStep == ConversationInv /\ [ConversationNext]_conversationVars => ConversationInv'
<1> SUFFICES ASSUME ConversationInv, [ConversationNext]_conversationVars PROVE ConversationInv'
  OBVIOUS
<1>1. CASE UNCHANGED conversationVars
  <2>1. UNCHANGED <<stored, message, sent, news, room, thread, load, loads, crossed, breaks>>
    BY <1>1 DEF conversationVars
  <2>2. ConversationTypeOK' /\ RowsOK' /\ DistinctOK'
    BY <2>1, ConversationParts DEF ConversationTypeOK, RowsOK, DistinctOK, Within
  <2>3. \A c \in Rooms : Told(c)' = Told(c) /\ Within({c})' = Within({c})
    BY <2>1, SameTold
  <2>4. breaks' = 0 => ToldOK'
    BY <2>1, <2>3, ConversationParts DEF ToldOK
  <2>5. ASSUME breaks' = 0, NEW u \in Talkers \ crossed', NEW c \in Rooms, room'[u] = {c} PROVE PageInStep(u, c)'
    <3>1. PageInStep(u, c)
      BY <2>1, <2>5, ConversationParts
    <3> QED BY <2>1, <2>3, <3>1 DEF PageInStep, InStep, Underway
  <2> QED BY <2>2, <2>4, <2>5 DEF ConversationInv
<1>2. CASE ConversationNext
  BY <1>2, SelectKeeps, LoadingKeeps, SendKeeps, RequestKeeps, CommitKeeps, ShowSavedKeeps, OnNewMessageKeeps
     DEF ConversationNext
<1> QED BY <1>1, <1>2

(* MessagesPage.tsx: no message is shown twice, and a page that nothing    *)
(* overtook shows the messages of its conversation and no other, for any   *)
(* number of users, conversations, messages and requests.                  *)
THEOREM ThreadsAreConversations == ConversationSpec => []ThreadIsConversation
<1>1. ConversationInv => ThreadIsConversation
  <2> SUFFICES ASSUME ConversationInv PROVE ThreadIsConversation
    OBVIOUS
  <2>0. ConversationTypeOK /\ RowsOK /\ DistinctOK
    BY ConversationParts
  <2>1. ASSUME NEW u \in Talkers PROVE Cardinality(Shown(thread[u])) = Len(thread[u])
    BY <2>0, DistinctCounts, ConversationTypes DEF DistinctOK
  <2>2. ASSUME breaks = 0, ~(\E n \in Numbers : message[n].at = "announced"),
               NEW u \in Talkers \ crossed, NEW c \in Rooms, AllSaid(u), room[u] = {c}
        PROVE  Shown(thread[u]) = Shown(stored[c])
    <3>1. PageInStep(u, c)
      BY <2>2, ConversationParts
    <3>2. Shown(news[u]) = {} /\ Told(c) = Shown(stored[c])
      BY <2>2, NothingShown DEF AllSaid, Told, Within
    <3>3. \A k \in Loads : load[k].by # {u}
      <4>1. \A k \in Loads : load[k].by = {u} => load[k].at = "none"
        BY <2>0, <2>2, ConversationTypes DEF AllSaid, Loading
      <4> QED BY <2>0, <4>1, NoLoadTyped DEF RowsOK
    <3>4. InStep(u, c, thread[u])
      BY <3>1, <3>3 DEF PageInStep
    <3> QED BY <3>2, <3>4 DEF InStep
  <2> QED BY <2>1, <2>2 DEF ThreadIsConversation
<1> QED BY <1>1, ConversationInvInit, ConversationInvStep, PTL DEF ConversationSpec
=============================================================================
