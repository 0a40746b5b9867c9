------------------------------ MODULE Sessions ------------------------------
(***************************************************************************)
(* The session of one browser: the cookies that auth.controller.ts sets,   *)
(* the marker cookie and the silent refresh of lib/api.ts, the redirects   *)
(* of middleware.ts and the guard of dashboard/page.tsx.                   *)
(*                                                                         *)
(* Tabs share the cookies.  A tab shows the login page or the dashboard    *)
(* and runs one job: the guard's /auth/me, or a request of a page.  Time   *)
(* is counted in lives of the access token.  A cookie is the time at which *)
(* it expires.                                                             *)
(***************************************************************************)
EXTENDS Naturals

CONSTANTS
  Tabs,
  RefreshLife,   \* life of the refresh token, in lives of the access token
  MaxDays,       \* bound: time
  MaxActs,       \* bound: what the user does
  MaxOutages,    \* bound: requests that fail on the network
  MaxLogouts     \* bound: logouts under way; more of them do the same

ASSUME SessionAssumption ==
  /\ RefreshLife \in Nat \ {0, 1} /\ {MaxDays, MaxActs, MaxOutages, MaxLogouts} \subseteq Nat

VARIABLES
  day,       \* time
  access,    \* gc_access of the API: until when it is good
  refresh,   \* gc_refresh
  marker,    \* gc_access of the frontend's domain, set by lib/api.ts
  view,      \* view[t]: the page that tab t shows
  job,       \* job[t]: what tab t waits for
  logouts,   \* calls of api.auth.logout that nobody awaits
  acts,      \* acts of the user so far
  outages,   \* failed requests so far
  left       \* history: the user logged out

sessionVars == <<day, access, refresh, marker, view, job, logouts, acts, outages, left>>
cookies == <<access, refresh>>

SessionInit ==
  /\ day = 0 /\ access = 0 /\ refresh = 0 /\ marker = 0
  /\ view = [t \in Tabs |-> "login"] /\ job = [t \in Tabs |-> "none"]
  /\ logouts = 0 /\ acts = 0 /\ outages = 0 /\ left = FALSE

Good(cookie) == cookie > day

Act == acts < MaxActs /\ acts' = acts + 1
Outage == outages < MaxOutages /\ outages' = outages + 1
Job(t, j) == job' = [job EXCEPT ![t] = j]
Stay == UNCHANGED <<view, logouts>>

(* setAuthCookies, and the marker that the answer makes lib/api.ts set.    *)
SetCookies == access' = day + 1 /\ refresh' = day + RefreshLife /\ marker' = day + 1
ClearCookies == access' = 0 /\ refresh' = 0

(* middleware.ts: the dashboard needs the marker, and the login page goes  *)
(* to the dashboard when there is one.  A dashboard that is shown already  *)
(* may or may not be mounted again.                                        *)
Load(t, good) ==
  /\ view' = [view EXCEPT ![t] = IF good THEN "app" ELSE "login"]
  /\ \/ Job(t, IF good THEN "me" ELSE "none")
     \/ good /\ view[t] = "app" /\ Job(t, "none")

-----------------------------------------------------------------------------
(* The user                                                                *)

SignIn(t) ==
  /\ view[t] = "login" /\ Act
  /\ SetCookies
  /\ view' = [view EXCEPT ![t] = "app"] /\ Job(t, "me")
  /\ left' = FALSE
  /\ UNCHANGED <<day, logouts, outages>>

(* The user opens the dashboard, or any page of the site.                  *)
Visit(t) ==
  /\ job[t] = "none" /\ Act
  /\ Load(t, Good(marker))
  /\ UNCHANGED <<day, cookies, marker, logouts, outages, left>>

(* A page asks the API for something.                                      *)
ApiRequest(t) ==
  /\ view[t] = "app" /\ job[t] = "none" /\ Act
  /\ Job(t, "request")
  /\ UNCHANGED <<day, cookies, marker, view, logouts, outages, left>>

(* The cookies go if the server is reached.                                *)
AskLogout ==
  \/ ClearCookies /\ UNCHANGED outages
  \/ Outage /\ UNCHANGED cookies

(* handleLogout: awaited, so the marker is gone before the redirect.       *)
LogOut(t) ==
  /\ view[t] = "app" /\ job[t] = "none" /\ Act
  /\ AskLogout /\ marker' = 0 /\ left' = TRUE
  /\ view' = [view EXCEPT ![t] = "login"]
  /\ UNCHANGED <<day, job, logouts>>

NextDay ==
  /\ day < MaxDays
  /\ day' = day + 1
  /\ UNCHANGED <<cookies, marker, view, job, logouts, acts, outages, left>>

-----------------------------------------------------------------------------
(* The guard of the dashboard                                              *)

MeAnswered(t) ==
  /\ job[t] = "me" /\ Good(access)
  /\ Job(t, "none")
  /\ UNCHANGED <<day, cookies, marker, acts, outages, left>> /\ Stay

(* The catch clause: logout, not awaited, and on to the login page.  The   *)
(* mutant only goes to the login page.                                     *)
OnlyRedirect(t) == Job(t, "push") /\ Stay

SignOut(t) ==
  /\ Job(t, "push") /\ UNCHANGED view
  /\ logouts' = IF logouts < MaxLogouts THEN logouts + 1 ELSE logouts

(* A 401 of /auth/me is not followed by a refresh ("/auth/" is excluded).  *)
MeRefused(t) ==
  /\ job[t] = "me" /\ ~Good(access)
  /\ SignOut(t)
  /\ UNCHANGED <<day, cookies, marker, acts, outages, left>>

MeFails(t) ==
  /\ job[t] = "me" /\ Outage
  /\ SignOut(t)
  /\ UNCHANGED <<day, cookies, marker, acts, left>>

(* router.push('/login') meets the middleware, and the marker may be there. *)
Pushed(t) ==
  /\ job[t] = "push"
  /\ Load(t, Good(marker))
  /\ UNCHANGED <<day, cookies, marker, logouts, acts, outages, left>>

(* api.auth.logout: the marker goes in any case.                           *)
LogoutEnds ==
  /\ logouts > 0 /\ logouts' = logouts - 1
  /\ AskLogout /\ marker' = 0
  /\ UNCHANGED <<day, view, job, acts, left>>

-----------------------------------------------------------------------------
(* request of lib/api.ts                                                   *)

Requested(t) ==
  /\ job[t] = "request"
  /\ Job(t, IF Good(access) THEN "none" ELSE "refresh")
  /\ UNCHANGED <<day, cookies, marker, acts, outages, left>> /\ Stay

RequestFails(t) ==
  /\ job[t] = "request" /\ Outage
  /\ Job(t, "none")
  /\ UNCHANGED <<day, cookies, marker, acts, left>> /\ Stay

(* "tenter un refresh silencieux une fois"; then the request is made again *)
(* and is final.                                                           *)
Refreshed(t) ==
  /\ job[t] = "refresh" /\ Good(refresh)
  /\ SetCookies
  /\ Job(t, "none")
  /\ UNCHANGED <<day, acts, outages, left>> /\ Stay

(* The session is over for this tab: user and marker are removed, and the  *)
(* server is asked to remove the cookies.  The mutant only throws.         *)
OnlyThrow(t) == Job(t, "none")
Leave(t) == Job(t, "leave")

RefreshRefused(t) ==
  /\ job[t] = "refresh"
  /\ \/ ~Good(refresh) /\ UNCHANGED outages
     \/ Outage
  /\ marker' = 0
  /\ Leave(t)
  /\ UNCHANGED <<day, cookies, acts, left>> /\ Stay

(* The logout is awaited, and the browser loads the login page.            *)
LeaveForLogin(t) ==
  /\ job[t] = "leave"
  /\ AskLogout
  /\ Load(t, Good(marker))
  /\ UNCHANGED <<day, marker, logouts, acts, left>>

-----------------------------------------------------------------------------
TabStep(t) ==
  \/ MeAnswered(t) \/ MeRefused(t) \/ Pushed(t) \/ Requested(t)
  \/ Refreshed(t) \/ RefreshRefused(t) \/ LeaveForLogin(t)

SessionNext ==
  \/ \E t \in Tabs :
       \/ TabStep(t) \/ MeFails(t) \/ RequestFails(t)
       \/ SignIn(t) \/ Visit(t) \/ ApiRequest(t) \/ LogOut(t)
  \/ LogoutEnds \/ NextDay

SessionSpec == SessionInit /\ [][SessionNext]_sessionVars

-----------------------------------------------------------------------------
(* Middleware and dashboard guard send the browser to each other, each on  *)
(* its own idea of the session: that comes to an end.                      *)
RedirectsEnd == <>[](\A t \in Tabs : job[t] = "none")

(* A page that finds, on a request, that neither token is good any more    *)
(* ends up on the login page, unless a session starts in another tab.      *)
RequestWithoutSessionLeaves ==
  \A t \in Tabs :
    (job[t] = "refresh" /\ ~Good(refresh)) ~> (view[t] = "login" \/ Good(access))

-----------------------------------------------------------------------------
(* What does not hold.                                                     *)

(* auth.controller.ts:25, "REFRESH_TTL ... 7 jours": a user of the         *)
(* dashboard who opens it again is not sent to the login page before the   *)
(* refresh token expires, unless they logged out or a request failed.      *)
SessionLastsAsRefreshToken ==
  [][\A t \in Tabs : view[t] = "app" /\ job[t] = "none" /\ view'[t] = "login" =>
       ~Good(refresh) \/ left' \/ outages > 0]_sessionVars
=============================================================================
