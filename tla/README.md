# Goconnexion in TLA+

Goconnexion is a platform for entrepreneurs and freelancers: a NestJS server over PostgreSQL (Prisma) in `src/backend`, a
Next.js client in `src/frontend`. The server is one Node process: it interleaves handlers at every `await`, and each
database call is atomic. Nothing locks; what protects the data is keys, cascades, `updateMany` with a status in the
`where` clause, and one transaction here and there. So the modules have one action per database call, file system
call, call of a provider or event of a socket, and everything between two of them may happen in between.

Paths below are relative to `src/backend/src` or, for the client, to `src/frontend`.

## Components

| Component | State | Operations | What makes it correct |
|---|---|---|---|
| events (`events/`) | Event, tickets, EventBooth, EventRegistration | register, pay, activate, check in, cancel and promote, delete booths, remind daily | confirmed means free or paid; a booth has one holder; a payment is recorded; one reminder per registration |
| subscription (`subscription/`) | Subscription, User.plan, Stripe and Wise | trial, checkout, webhooks, reminders, cancellation, expiry | both copies of the plan agree; every plan is paid for; one trial; a transfer is credited once |
| connections (`connections/`) | ConnectionRequest, Connection | invite, accept, refuse, remove | two-way, by consent |
| admin (`admin/`) | what it edits | delete user, set plan, roles | the cascades leave no half of anything |
| projects (`projects/`) | Project, ProjectApplication | create, apply, decide, delete | quotas of the plan; one application per freelancer |
| marketplace (`marketplace/`) | MarketplaceService, MarketplaceOrder | order, pay, complete | a sale was paid; a completed order stays so |
| internships (`internships/`), uploads | offers, applications, File rows, two directories | publish, apply, withdraw, remove | the CV of an application is there, and goes with it |
| messaging (`messaging/`) | Conversation, Message, the sockets' rooms | send, load, signal calls | a thread shows its conversation; an answer comes from somebody who was called |
| notifications (`notifications/`), mail | Notification rows, mails | create, list, mark read; daily jobs | once for each cause; live and fetched lists agree |
| referral (`referral/`) | ReferralCode, Referral | create a code, register a referral | the total is the number of rows |
| auth (`auth/`) | User, streak, cookies | register, login, refresh, logout | the streak counts days; a session ends once and at the right time |
| feed (`feed/`) | posts, likes | toggle a like, tell everybody | hearts show the rows |
| agent (`agent/`) | AgentFollowUp, drafts | reengagement job, chatbot, drafts | absent users are mailed, not twice within the cooldown |
| client: calls, pages, session | call modal, lists and hearts, marker cookie | events, answers and fetches in any order | a call ends for both; what is shown is what is stored; redirects end |
| incubator, users, freelancers, entrepreneurs, business-cards, advertisements, site-content, analytics, cli | rows | single writes and reads | the keys of the schema |

Interactions. Stripe's one webhook (`subscription/subscription.service.ts:377`) dispatches by metadata to events
(389-400), marketplace (402-407) and subscriptions; Wise's (`:222`) by the prefix of the reference to events (`WE-`) or
subscriptions (`WC-`). Connections, projects, messages and calls read the plan for their limits. Every service writes
notifications; `messaging/messaging.gateway.ts` is called statically to emit on sockets, and relays the signals of calls.
`admin` deletes users, and the schema's cascades remove their rows, or refuse to, under running handlers. Requests keep
`lastActiveAt`, which the daily jobs read.

What is hard: check-then-act without a lock (almost every handler), pairs of writes outside a transaction, webhooks
repeated, late and out of order, references replaced while a payment is under way, jobs that act on what they read, deaths
between a side effect and its record, events of sockets that overtake the answers of requests. `PROJECT.json` lists the
hazards at their line, with the properties that cover them or the reason why none does.

## Modules

| Module | Models |
|---|---|
| `EventRegistration` | registration to one event: `events/events.service.ts` and its part of both webhooks |
| `SubscriptionBilling` | the subscription of one account: `subscription/*.ts`, `admin/admin.service.ts:56-66` |
| `ConnectionGraph` | abstract: what connections promise |
| `Connections` | `connections/connections.service.ts`, `admin/admin.service.ts:49-54`; refines `ConnectionGraph` |
| `InternshipApplications` | `internships/internships.service.ts`, `uploads/uploads.controller.ts`, the cascades of deleteUser |
| `Referrals` | `referral/referral.service.ts`, deleteUser where keys refuse it |
| `ProjectBoard` | `projects/projects.service.ts` |
| `MarketplaceOrders` | `marketplace/marketplace.service.ts`, the marketplace branch of the Stripe webhook |
| `LoginStreak` | `auth/auth.service.ts`: register, login, updateLoginStreak |
| `DailyJobs` | `notifications/cron.service.ts`, `agent/prospects/prospects.service.ts`, the reminders of `events/events.service.ts`, `lastActiveAt` |
| `Conversations` | `messaging/messaging.service.ts` and the thread of `MessagesPage.tsx` |
| `VideoCalls` | the relays of `messaging/messaging.gateway.ts`, `VideoCallModal.tsx` and its hosts |
| `FeedLikes` | `feed/feed.service.ts`, toggleLike, and `EnhancedActivityFeed.tsx` |
| `NotificationBell` | `notifications/notifications.service.ts` and `NotificationCenter.tsx` |
| `Sessions` | cookies of `auth/auth.controller.ts`, `lib/api.ts`, `middleware.ts`, the guard of `app/dashboard/page.tsx` |
| `MCEventRegistration`, `MCConnections` | instances of one module |
| `MCEventWorlds` | `EventRegistration` in two worlds: everybody pays by card; or cards cannot be charged in production and Wise is used too. It states the fairness of the first |
| `MCSubscriptionBilling` | `SubscriptionBilling` in two worlds: webhooks in any order, and in order with more events |
| `MCWork`, `MCTalk`, `MCLive` | several modules in one run; the variable `part` names the one that a behaviour moves |
| `EventRegistrationProofs`, `SubscriptionBillingProofs`, `ConnectionsProofs`, `InternshipProofs`, `VideoCallsProofs` | theorems about the module of that name; billing also about the ordered world of `MCSubscriptionBilling` |
| `RequestProofs` | theorems about `Referrals`, `ProjectBoard`, `MarketplaceOrders`, and about `MCWork` as a composition |
| `DaysProofs` | theorems about `LoginStreak` and `DailyJobs` |
| `PagesProofs` | theorems about `FeedLikes`, `NotificationBell` and `Conversations` |

`MCWork`, `MCTalk` and `MCLive` put modules with separate variables side by side. Steps of different parts commute and no
property relates two parts, so a behaviour moves the part with which it starts: nothing is lost, and the states add
up instead of multiplying. The daily jobs make two parts of `MCWork`: "absences", where nobody registers for an event, and
"fairs", where nobody is active; no property relates the two. For `MCWork` the other direction is a theorem (`PartsAreModules`): a behaviour of the composition
is one of each module, so what is proved of a module holds in the run.

**EventRegistration.** `regs[u]` is the row of user `u` (the key (eventId, userId) allows one), `booths[b]` a booth,
`active` the event's flag. `sessions`, `funds` and `acked` are outside the database: checkouts that were returned, those
that were paid, payments whose webhook was answered 200. `h[p]` is what the handler in slot `p` read, and `pc` the call
that comes next. `registerWithPayment` is the chain Register, ReadExisting, ReadTicketType, ReadBooth, WriteRegistration,
ReserveBooth, then StorePaymentId, or UndoRegistration and UndoBooth, or the activation (ActivateRead, ActivateTx), which
the webhooks also call. Prices are "free or not"; session ids and references a kind and a number. The unique `boothId` is
the guard `Writable`.

**SubscriptionBilling.** `row` and `userPlan` are the two copies of the plan. `stripe[n]` is the n-th checkout and the
subscription it becomes; every change appends a snapshot to `log`, which webhooks deliver, in order or not (`InOrder`),
until a 200 is received. `offers`, `transfers` and `answered` are the same for Wise. Handlers with two updates
(`429-442`, `456-463`) are two actions. Time is a bounded `clock`. Stripe is external: past-due invoices, recoveries,
ends of period, cancellations.

**Connections.** `requests` and `relations` are the two tables, `members` the users that exist; `agreed` is a history
variable, written when a receiver passes the check of `acceptRequest`. `friends` of `ConnectionGraph` maps to the
unordered pairs in `relations`.

**InternshipApplications.** `path[f]` is what the File row of an upload points to, `publicFiles` and `privateCvs` the two
directories. `apply` is seven calls: existing application, File row, copy, insertion or, in its catch clause, removal of
the copy, then removal of the public file and update of the row. Withdrawal and removal of an offer delete rows first,
files afterwards, one call per file.

**Referrals, ProjectBoard, MarketplaceOrders, LoginStreak.** Tables, and slots that hold what a request read before it
writes. In Referrals the unique `referredUserId` aborts a transaction together with its increment, and missing cascades
refuse the deletion of a user. ProjectBoard has no such key: `Calm` names the users who wait for an answer. In
LoginStreak a login reads the user, checks the password and counts with the row read before; `NightOwls` may have
a login under way at midnight, and `Veterans` have an account whose `lastStreakDate` is null.

**DailyJobs.** Time in half days; jobs read their lists at even times, members are active, register and cancel, and
organizers remove events, at odd ones, when a job may still be dealing with one row after the other. A failure or a
restart leaves the rest of a list; `unlucky` remembers whom that concerns. `joined` and `since` are the columns status and isActive,
with the time since when they are so.

**Conversations, FeedLikes, NotificationBell.** A table, the calls of the handlers that write it, the events on their
way to each page, and what each page shows. In Conversations `stored[c]` is the rows of conversation `c`, and the event is emitted inside the transaction, before the
commit. So is the notification of a message: in NotificationBell its row is "pending" when the event goes out, and may never
be committed. In FeedLikes fetches overlap, the last answer wins, and a socket that is down loses its events. `crossed`, `missed` and `hasty` are history variables that name the pages which something overtook.

**VideoCalls.** `call[i]` is a modal and its RTCPeerConnection; its asynchronous handlers go on when it is unmounted, so
the record stays. Events name the modal they come from, and the handlers, as in the code, do not look at it. Timeouts
close whatever modal is shown when they fire.

**Sessions.** A cookie is the time at which it expires, in lives of the access token. Each tab shows the login page or
the dashboard and runs one job: the guard's `/auth/me`, or a request with its silent refresh.

## Runs

Sizes are distinct states.

| Run | Question | Bounds |
|---|---|---|
| `events_serial` | Do rows, booths and payments agree between requests, with late and repeated webhooks; are transfers matched to the last checkout? | 2 users, 1 booth, 1 ticket type, full at 1, 2 checkouts each, one handler at a time; by card nobody dies; without cards: Wise, ticket capacity 1, 1 death (2.8 M) |
| `events_live` | With overlapping handlers and one death: is paid real, and is every Stripe payment recorded in the end? | 1 user, 1 booth, 2 slots, 2 checkouts; by card 1 death; without cards: Wise (355 k) |
| `billing` | Do the copies of the plan agree, is every plan paid for, is a transfer credited once? In order: does the row say what Stripe bills? | 1 slot, 1 Stripe subscription, 1 death; any order: 2 references, 3 events, 3 time units; in order: 6 events, 5 time units (2.6 M) |
| `work` | Do tables stay consistent under requests and jobs that check, then write, overlap and die? | 2 slots, 2 members; 1 offer, 1 upload, 2 copies; 3 persons; 2 founders and 2 freelancers, one of them with room for 2 applications, one of each with two tabs, 3 projects, 3 applications; 12 half days; 4 days; 1 failure each (1.9 M) |
| `talk` | Do calls, threads, hearts and bells stay with what happened, in whatever order events, answers and fetches come? | 3 members and 2 calls; 2 users, 2 conversations, 2 messages, 2 loads; 2 clicks, 2 fetches; 2 bells, 2 notifications; 1 failure each (1.8 M) |
| `live` | Does what must happen, happen? | 1 slot, 3 events and an administrator; 1 call, 1 reload; 2 tabs, 3 acts; 2 orders; 1 failure each (58 k) |
| `events_released_booth` | *violated*: a released booth can be booked | 2 users, 1 checkout each |
| `events_full` | *violated*: free registrations to a full event wait | the same |
| `billing_cancel_charges` | *violated*: cancellation stops the charges | 1 subscription, 1 reference |
| `billing_trial_overlap` | *violated*: who has subscribed keeps the plan when a trial ends | 2 slots, 1 subscription, no death |
| `connections_half_accepted` | *violated*: an accepted request is a connection | 1 slot, 1 death |
| `sessions_week` | *violated*: a session lasts as long as its refresh token | 1 tab, 7 days |

Why the bounds are enough. Two users are the fewest that compete for a booth, a ticket or a place, or that connect; two
checkouts per user are what a stale payment needs. Two slots show every race of two handlers, and one death every
half-finished handler; a webhook that dies is delivered again. Stripe's scenarios need at most six events: completed,
renewed, unpaid (two events), recovered, deleted. Two calls are what a late event of the first needs to meet the second;
two messages and two loads, or two fetches, what overtaking needs; twelve half days hold an absence, a mail, its cooldown and
a second mail, and an event before and after its reminder. With two founders the limit of applications (1 and 2) is met
and, by the freelancer with two tabs, passed.
`events_serial` and `billing` use one slot on purpose: they ask what holds when handlers do not overlap, so that
what is lost when they do is visible in the hazards, and in `billing_trial_overlap`. The theorems about these properties name the same premise (`OneAtATime`,
`OneSlot`); what holds with any number of slots (`PlanIsPaidFor`, `PaidHasFunds`) is proved without it.
`CHECK_DEADLOCK FALSE` is stated in every configuration because the bounded system may stop once its bounds are used
up.

Exceptions. Some properties name whom they do not speak of, because the code really does not promise more:
`ThreadIsConversation` excepts pages that changed conversation or took a message while a request was under way, for
`setMessages` replaces whatever is shown; `PagesShowLikes` excepts clicks of the impatient and failed requests, which
leave a heart turned, and pages that lost an event, or took one while an older feed was on its way, until they fetch again; `WitnessedShownOnce` speaks of notifications created while the bell was connected and its list
there, for nothing is fetched again, and excepts from "read" a notification that "Tout lire" passed over because its
transaction was not committed; `CompletedStays` excepts a webhook delivered again after a lost answer, which takes
a completed order back to PAID; `StreakCountsDays` excepts logins under way at midnight; `AppliedOnce` and `LimitsHold` allow users with several tabs as
many too many as requests overlap, less one; `ConfirmedIsPaidFor` excepts histories with a death; `AbsentAreMailed`, `AbsenceNotedOnce`, `RemindedOnce` and `CooldownKept` those hit by a failure.

What the properties leave of a hazard, beyond that. `PaidHasFunds` asks for some payment by the user, not for one of the
right amount; `PlanIsPaidFor` takes any transfer as paying for a Wise plan, as the code does. `AnswererWasCalled` does not say
that an event closes or answers the very call it is about. `NoCandidateWaits` is about candidates that reached a modal;
one that comes before the modal listens is dropped. `NobodyLeftTalking` holds by the failing connection alone. In `DailyJobs`
windows meet at half days: that they meet to the millisecond, and runs that are a moment early or late, is left out. In
`InternshipApplications` no two copies of one applicant for one offer have the same `Date.now()`
(`internships/internships.service.ts:190`).

Every property of a passing run has a *mutant*: a plausible bug, written as an alternative definition beside the one it
replaces, under which TLC finds the property violated.

## Fairness

Only liveness properties use it. Every handler runs to its end (`WF`): Node's event loop runs every continuation. A
webhook is delivered until answered 200 (`SF` for events and subscriptions, `WF` for orders, whose delivery stays enabled):
providers retry errors, for days in reality and without end here; jobs run again and again (`SF`), being scheduled by the
clock. These are strong only because the model has one or two slots, which may be busy whenever a delivery is due; the
server has no such limit. Time passes (`WF` on `Tick`) for trials. In calls, sockets deliver, timeouts fire, promises
resolve, and the browser notices that the other end of a connection is gone (`ConnectionFails`); in sessions, requests are
answered or fail. Users, organizers and administrators owe nothing: no fairness on requests, payments, clicks or transfers. In `MCLive`
every condition is restricted to the part that moves, in `MCEventWorlds` to the world of cards.

## Proofs

Checked by TLAPS for all values of the constants, from the named assumptions of the modules (finite sets where a
cardinality is used, distinct model values, naturals as bounds; in `DailyJobs` events start at odd times, when no job
runs, and not before the first jobs). Every invariant and every action property of the passing runs is the statement of a theorem.
Four premises occur. They are needed: with a second slot in the configuration TLC finds each of the serial properties violated.

- `OneAtATime`, `OneSlot`: handlers do not overlap. The server does not ensure this; what overlap breaks is in the hazards.
- `Orderly`: one request in flight per user, and Stripe configured or production, so that no sandbox payment confirms a row.
- `fails = 0` inside a property: no handler has died so far.
- `OneSubscription`: in addition to `OneSlot`, one checkout at Stripe and no administrator who gives plans away. The
  deletion of an old subscription downgrades a new one, so nothing of the kind holds for two.

**EventRegistrationProofs.** `TypeCorrect`: the next write of a handler depends on what it carries, so `TypeInv` adds
`HandlerOK`. `PaymentsAreReal` (`PaidHasFunds`, under `Orderly`, any interleaving): `PaymentInv` adds that requests of a user exclude each
other, that a handler that activates with the identifier "free" has a row that costs nothing, and that only costly
registrations reserve booths. The serial theorems rest on `SerialInv`: what the running handler has read still fits the rows and
booths (`InStep`), and, with `Sound`, a booth belongs to one row, a waiting row is unpaid, a paid row has its booth. From
it follow `PaidBoothsAreOccupied` and `ConfirmationsStick`, with any number of deaths. `HeldBoothsHaveHolders` adds
`HoldersKnown`, which names the handler in whose hands a booth may have no holder. `ConfirmedArePaidFor` (also under
`Orderly`, and as long as nobody died) adds `PaysFirst`: a costly WAITLISTED row without a payment id is being worked on; that is what a death breaks.
`WiseConfirmsTheLast` needs `LastReference`: the identifier in a row is the last one its user was given.

**SubscriptionBillingProofs.** `TypeCorrect`, from `TypeInv`: a handler of a webhook knows an event that was sent.
`NothingForFree`: `PlanIsPaidFor` for any number of slots, without administrators who give plans away. `PaidInv`: the account, every handler
and every logged event carry a plan that is paid for, and a checkout that was not completed has none; "paid for"
only grows. `TransfersCreditOnce`, from `RefsInv`: the reference in the row was not credited, and a
handler about to credit holds that one. `CopiesAgree` (`PlansAgree`), from `AgreeInv`: when the copies
differ, a webhook that says so is still to be acknowledged. `RowsFollowStripe` (`OrderedRowMirrorsStripe`), from `MirrorInv`:
the events answered are a prefix of the log, the row shows what the last of them says or, when a handler died before its 200 or is
about to send it, what the next one says; the last event of the log says what Stripe's state is; a failed payment comes after an
event that gave the plan; the row shows a cancellation only if Stripe was asked for it. Its steps are proved of actions
without the bounds of the model (`Moves`, `Dies`, `Passes`), to which those of the ordered world are mapped.

**ConnectionsProofs.** `TypeCorrect`, `AlwaysSymmetric`, `NoConnectionWithoutConsent`, from one `ConnectionInv`: types,
symmetry, consent of every relation and accepted request, and a handler past the check carries a pair in `agreed`.
`ImplementsGraph`: `Spec => GraphSpec`; the check is `Agree`, the creation of relations `Connect`, their deletion
`Disconnect`, deletion of a member `Leave`, everything else stutters.

**InternshipProofs.** `CvIsThere` (`RowHasCv`): a copy belongs to one request until its row is there and to one row
afterwards, for its name is dated; what a request took from deleted rows stays apart from every later copy.
`CvsGoWithApplications` (`CvGoesWithApplication`), from `KeptInv`: as long as nobody died, a private copy is in a row or in the
hands of a request that will write the row or remove it. `InternshipsTypeCorrect`.

**RequestProofs.** `ReferralsTypeCorrect`; `TotalsAreRight` (`TotalIsRows`): the code that a request read still exists when its transaction
runs, because a user with a code is never deleted. `OneApplication` (`AppliedOnce`) and `LimitsKept` (`LimitsHold`), from `BoardInv`: a user
who waits has one slot at most (`Solo`), and a request that has passed the count (`RoomForProjects`, `RoomForPitches`) or
the look-up (`PitchedOnce`) counts as if its row were there.
`SalesArePaid` (`CompletedStays`): an order without a paid session is PENDING at most and its completion is not allowed.
`PartsAreModules`: a step of `MCWork` is a step of the part that moves and leaves the others alone. With it `WorkTypeCorrect` follows
from the type theorems of the modules.

**DaysProofs.** `StreaksAreRuns` (`StreakCountsDays`): the columns describe the last and the longest run of visits,
and a login under way by somebody who is not a night owl holds today's row. The lemma `OneMoreDay` says that counting
a day keeps the description. `AbsencesAreNoted`, `RemindersAreSentOnce`, `TheAbsentAreMailed`, `CooldownHolds`, from
`JobsInv`: which jobs of a day are over at each time, and how often a user was noted, mailed or reminded as a function
of the time since he was seen and of whether his row is still ahead of the job that runs.

**VideoCallsProofs.** `AnswersComeFromTheCalled` (`AnswererWasCalled`) and `CandidatesAreAdded` (`NoCandidateWaits`), from `CallsInv`: each offer
rings once, the answer reaches the caller before any candidate of the connection that made it, and the modals to which events and other
modals refer stay, mounted or not. `CallsTypeCorrect`.

**PagesProofs.** Each invariant says where a change is until a page shows it. `PagesAgree` (`PagesShowLikes`), from `FeedInv`: what a page shows,
followed by the events on their way to it (`Leaves`), is the table, but for clicks still to emit. `TheWitnessedAreShown`
(`WitnessedShownOnce`), from `BellInv`: a witnessed notification is in exactly one place, not emitted, on its way or
in the list. `ThreadsAreConversations` (`ThreadIsConversation`), from `ConversationInv`: whatever a page was told of, it shows, or
is being sent, or the page is one that something overtook.

Model-checked only. Liveness is beyond the prover: `DeletionReachesUser`, `TrialEnds`, `RefusedCallEnds`, `NobodyLeftTalking`, the termination
of redirects and of requests in `Sessions` (`RedirectsEnd`, `RequestWithoutSessionLeaves`), `PaymentReachesOrder`, and `StripePaymentRecorded` in `events_live`.
`Sessions` has no other property, hence no proofs.

## Findings

Each is a run that is expected to be violated; `PROJECT.json` quotes the line that says otherwise.

1. A cancelled registration keeps the unique `boothId` of the booth it releases: the booth is offered, and nobody but its
   former holder can book it (`events_released_booth`).
2. Free registrations to a full event are written WAITLISTED and activated by the same request (`events_full`).
3. `expireTrials` lists the trials that are over and then sets each FREE without looking again: a member who subscribes between
   the two is billed and has the free plan; `startTrial` overwrites a plan bought between its check and its write likewise
   (`billing_trial_overlap`).
4. A Stripe subscriber who once opened the Wise instructions cancels: Stripe is not told (`billing_cancel_charges`).
5. `acceptRequest` dies between its writes: the members are not connected and can neither accept nor ask again
   (`connections_half_accepted`).
6. The refresh token is good for a week, but the marker cookie that the middleware asks for expires with the access token,
   and the guard's `/auth/me` is excluded from the refresh: the dashboard is lost after a day (`sessions_week`).

Met while modelling, without a run, because nothing in the repository says otherwise: a payment-pending row whose id is
not stored yet is promoted without payment; a Wise renewal falls back on PRO; a cancelled Wise subscription never ends;
a late `customer.subscription.updated` restores an ended plan;
the deletion of an old subscription downgrades the new one; crossing invitations create two requests; the limit of
connections does not bind the receiver; a repeated webhook takes a COMPLETED order back to PAID; an application created
while its offer is removed leaves its CV; a late `call-ended` closes the next call; a failing notification ends the inactivity
job for everybody after it; a failed like leaves the heart turned; the notification of a message whose transaction is rolled back
stays on the bell.

Further hazards of the same kinds in code that is not modelled: `messaging/messaging.gateway.ts:103` (a socket that
disconnects while it connects stays in `onlineUsers`); `messaging/messaging.service.ts:11` (two conversations between one
pair); `feed/feed.service.ts:106` (the cooldown said to be per post is queried per author); `auth/auth.service.ts:227` (a
reset token looked up, then cleared); `admin/admin.service.ts:82` (a role read, then written); `events/events.service.ts:154`
(an organizer's edit overwrites a booth's status); `subscription/subscription.service.ts:479` (an invoice matched by a customer id that was
replaced) and `:271` (a transfer of another amount is credited all the same); `subscription/wise.service.ts:46` (references of one
second's resolution).

## Not modelled, and why

- Most of the client: pages that fetch once, show and post forms, their texts, animations and styles
  (`app/page.tsx`, `app/pricing`, `app/dashboard/profile`, `EventsPage.tsx`, `ProjectsPage.tsx`, the home and join pages, about
  four fifths of its lines). They keep no state that another actor changes; the server's answer is what they show. This is also why
  the modules cover a small share of all lines although they cover most of the handlers with more than one
  write.
- incubator, users, freelancers, entrepreneurs, business-cards, advertisements, site-content: one write per request, which
  the database makes atomic, or counters incremented in the database; the incubator's like is the toggle of
  `FeedLikes` without its event. analytics only reads.
- The chatbot and the drafts of `agent` pass text to an external model and store the answer. Mail templates, SMTP and
  seeds are I/O and data.
- startConversation, presence and typing; the birthday job (the loop of the inactivity job over another list); verification and
  reset tokens (one row, checked and cleared); saves, comments and shares in the feed; creation and edition of events,
  tickets, booths and services; roles.
- The queries of the services (lists, details, statistics) and `updateApplicationStatus` of internships: they change nothing, or one
  row that no other operation reads. Edits of an event's date.
- Formatting, translations, prices and dates beyond the order of deadlines: no handler that is modelled decides by
  them.
- One event, one account, one post and one user's bells at a time: no handler relates two of them.

## Plan

What is left, in order: an abstract paid registration (none, pending, confirmed, attended, cancelled) that
`EventRegistration` refines when handlers do not overlap; the composition theorem for `MCTalk` and `MCLive`; type theorems for the
modules that have none (`ProjectBoard`, `MarketplaceOrders`, the pages), whose type invariants are parts of the proofs
already; presence and startConversation beside `Conversations`; verification and reset tokens beside `Sessions`.
