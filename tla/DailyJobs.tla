------------------------------ MODULE DailyJobs ------------------------------
(***************************************************************************)
(* The jobs that run once a day: the inactivity check of cron.service.ts,  *)
(* the reengagement mails of prospects.service.ts and the reminders of     *)
(* events.service.ts; and what they read, lastActiveAt and registrations.  *)
(*                                                                         *)
(* Time is counted in half days.  The jobs read their lists at even times; *)
(* members are active, register and cancel, organizers remove events, and  *)
(* events start at odd ones.  A job deals with one row of its list after   *)
(* the other, while members and organizers go on, and is done by the next  *)
(* day.  The date of an event stays.                                       *)
(***************************************************************************)
EXTENDS Naturals, FiniteSets

CONSTANTS
  Subjects,       \* users
  InactiveDays,   \* 21: the job looks for InactiveDays to InactiveDays + 1 days
  ThresholdDays,  \* INACTIVITY_THRESHOLD_DAYS
  CooldownDays,   \* RESEND_COOLDOWN_DAYS
  Fairs,          \* events
  StartOf,        \* StartOf[e]: when event e starts
  MaxTime,        \* bound: time
  MaxMishaps      \* bound: failed calls, restarts and runs that are missed

ASSUME JobsAssumption ==
  /\ {InactiveDays, ThresholdDays, CooldownDays, MaxTime, MaxMishaps} \subseteq Nat
  /\ StartOf \in [Fairs -> {t \in Nat : t % 2 = 1 /\ t > 4}]

VARIABLES
  time,
  seen,       \* seen[u]: lastActiveAt
  followUp,   \* followUp[u]: sentAt of the latest AgentFollowUp row, 0 if none
  joined,     \* joined[e][u]: since when u is REGISTERED for e, 0 if they are not
  since,      \* since[e]: since when e is active, 0 if it is not
  due,        \* jobs of the day that have not started
  todo,       \* todo[j]: rows of its list that job j has still to deal with
  mailed,     \* users whose mail is sent and whose row is not yet written
  nudges,     \* history: inactivity notifications on the absence of u
  lastMail,   \* history: when u was last sent a reengagement mail, 0 if never
  reminders,  \* history: reminders that u got of e
  unlucky,    \* history: users whose row, or whose job, met a mishap
  mishaps

jobVars == <<time, seen, followUp, joined, since, due, todo, mailed, nudges, lastMail,
             reminders, unlucky, mishaps>>
columns == <<seen, joined, since>>

Jobs == {"inactivity", "prospects", "reminders"}
Registrations == Fairs \X Subjects

JobsInit ==
  /\ time = 1 /\ due = {} /\ todo = [j \in Jobs |-> {}] /\ mailed = {}
  /\ seen = [u \in Subjects |-> 1] /\ followUp = [u \in Subjects |-> 0]
  /\ joined = [e \in Fairs |-> [u \in Subjects |-> 0]] /\ since = [e \in Fairs |-> 1]
  /\ nudges = [u \in Subjects |-> 0] /\ lastMail = [u \in Subjects |-> 0]
  /\ reminders = [r \in Registrations |-> 0]
  /\ unlucky = {} /\ mishaps = 0

JobTime == time % 2 = 0
Ago(days) == IF time < 2 * days THEN 0 ELSE time - 2 * days
Mishap == mishaps < MaxMishaps /\ mishaps' = mishaps + 1
Checked(j, row) == todo' = [todo EXCEPT ![j] = @ \ {row}]
AllDone == mailed = {} /\ \A j \in Jobs : todo[j] = {}

-----------------------------------------------------------------------------
(* Members and organizers                                                  *)

(* LastActiveInterceptor, on any request of the user.                      *)
BeActive(u) ==
  /\ ~JobTime /\ seen[u] # time
  /\ seen' = [seen EXCEPT ![u] = time]
  /\ nudges' = [nudges EXCEPT ![u] = 0]
  /\ UNCHANGED <<time, followUp, joined, since, due, todo, mailed, lastMail, reminders, unlucky,
                 mishaps>>

(* A registration for an active event is confirmed, or cancelled.          *)
SetJoined(e, u) ==
  /\ ~JobTime /\ time < StartOf[e]
  /\ \/ joined[e][u] = 0 /\ since[e] # 0 /\ joined' = [joined EXCEPT ![e][u] = time]
     \/ joined[e][u] # 0 /\ joined' = [joined EXCEPT ![e][u] = 0]
  /\ UNCHANGED <<time, seen, since, followUp, due, todo, mailed, nudges, lastMail, reminders,
                 unlucky, mishaps>>

(* remove, and an update that takes it back.                               *)
SetActive(e) ==
  /\ ~JobTime /\ time < StartOf[e]
  /\ since' = [since EXCEPT ![e] = IF @ = 0 THEN time ELSE 0]
  /\ UNCHANGED <<time, seen, joined, followUp, due, todo, mailed, nudges, lastMail, reminders,
                 unlucky, mishaps>>

(* The jobs of a day begin within minutes and are done within hours: time  *)
(* waits for them.                                                         *)
Pass ==
  /\ time < MaxTime /\ due = {} /\ (JobTime \/ AllDone)
  /\ time' = time + 1
  /\ due' = IF time' % 2 = 0 THEN Jobs ELSE {}
  /\ UNCHANGED <<columns, followUp, todo, mailed, nudges, lastMail, reminders, unlucky, mishaps>>

-----------------------------------------------------------------------------
(* The lists                                                               *)

(* "between 21 and 22 days ago".  The mutant starts a day later.           *)
FromNextDay(u) == seen[u] <= Ago(InactiveDays + 1)
InWindow(u) == Ago(InactiveDays + 1) <= seen[u] /\ seen[u] <= Ago(InactiveDays)

(* The mutant looks for users who were mailed before.                      *)
NoCooldown(u) == TRUE
CooledDown(u) == followUp[u] < Ago(CooldownDays) \/ followUp[u] = 0

(* From tomorrow to the day after, at this hour.  The mutant looks at both *)
(* days.                                                                   *)
WithinTwoDays(e) == time <= StartOf[e] /\ StartOf[e] <= time + 4
Tomorrow(e) == time + 2 <= StartOf[e] /\ StartOf[e] <= time + 4

List(j) ==
  CASE j = "inactivity" -> {u \in Subjects : InWindow(u)}
    [] j = "prospects" -> {u \in Subjects : seen[u] <= Ago(ThresholdDays) /\ CooledDown(u)}
    [] OTHER -> {r \in Registrations : joined[r[1]][r[2]] # 0 /\ since[r[1]] # 0 /\ Tomorrow(r[1])}

StartJob(j) ==
  /\ j \in due
  /\ due' = due \ {j}
  /\ todo' = [todo EXCEPT ![j] = List(j)]
  /\ UNCHANGED <<time, columns, followUp, mailed, nudges, lastMail, reminders, unlucky, mishaps>>

-----------------------------------------------------------------------------
(* The loops                                                               *)

(* notifications.create; its error ends the loop, and the rest of the list *)
(* gets nothing.  A remark to somebody who came back since the list was    *)
(* read is about the absence that is over.                                 *)
Nudge(u) ==
  /\ u \in todo["inactivity"] /\ Checked("inactivity", u)
  /\ nudges' = IF seen[u] = time THEN nudges ELSE [nudges EXCEPT ![u] = @ + 1]
  /\ UNCHANGED <<time, columns, followUp, due, mailed, lastMail, reminders, unlucky, mishaps>>

Remind(r) ==
  /\ r \in todo["reminders"] /\ Checked("reminders", r)
  /\ reminders' = [reminders EXCEPT ![r] = @ + 1]
  /\ UNCHANGED <<time, columns, followUp, due, mailed, nudges, lastMail, unlucky, mishaps>>

NotificationFails(j) ==
  /\ j # "prospects" /\ todo[j] # {} /\ Mishap
  /\ todo' = [todo EXCEPT ![j] = {}]
  /\ unlucky' = Subjects
  /\ UNCHANGED <<time, columns, followUp, due, mailed, nudges, lastMail, reminders>>

(* A mail that fails is only logged: it counts as sent.                    *)
SendReengagement(u) ==
  /\ mailed = {} /\ u \in todo["prospects"] /\ Checked("prospects", u)
  /\ lastMail' = [lastMail EXCEPT ![u] = time]
  /\ mailed' = {u}
  /\ UNCHANGED <<time, columns, followUp, due, nudges, reminders, unlucky, mishaps>>

CreateFollowUp(u) ==
  /\ u \in mailed
  /\ followUp' = [followUp EXCEPT ![u] = time]
  /\ mailed' = {}
  /\ UNCHANGED <<time, columns, due, todo, nudges, lastMail, reminders, unlucky, mishaps>>

(* The catch clause inside the loop.  The mutant leaves the loop.          *)
LeaveLoop == todo' = [todo EXCEPT !["prospects"] = {}]
NextUser == UNCHANGED todo

FollowUpFails(u) ==
  /\ u \in mailed /\ Mishap
  /\ NextUser
  /\ mailed' = {} /\ unlucky' = unlucky \cup {u}
  /\ UNCHANGED <<time, columns, followUp, due, nudges, lastMail, reminders>>

(* The server restarts, or is down: what was due at this hour is not done  *)
(* later.                                                                  *)
Restart ==
  /\ Mishap
  /\ todo' = [j \in Jobs |-> {}] /\ due' \in SUBSET due /\ mailed' = {}
  /\ unlucky' = Subjects
  /\ UNCHANGED <<time, columns, followUp, nudges, lastMail, reminders>>

JobsNext ==
  \/ \E u \in Subjects :
       \/ BeActive(u) \/ Nudge(u) \/ SendReengagement(u) \/ CreateFollowUp(u) \/ FollowUpFails(u)
       \/ \E e \in Fairs : SetJoined(e, u)
  \/ \E e \in Fairs : SetActive(e)
  \/ \E r \in Registrations : Remind(r)
  \/ \E j \in Jobs : StartJob(j) \/ NotificationFails(j)
  \/ Restart \/ Pass

JobsSpec == JobsInit /\ [][JobsNext]_jobVars

-----------------------------------------------------------------------------
(* "cela fait 3 semaines": whatever fails, an absence is remarked on at    *)
(* most once; and it is remarked on, once it has lasted a day more, when   *)
(* no run of the job was missed.                                           *)
AbsenceNotedOnce ==
  \A u \in Subjects :
    /\ nudges[u] <= 1
    /\ u \notin unlucky /\ time - seen[u] > 2 * (InactiveDays + 1) => nudges[u] = 1

(* Members are not mailed again before the cooldown is over, unless the    *)
(* row that says so was not written.                                       *)
CooldownKept ==
  [][\A u \in Subjects :
       lastMail'[u] # lastMail[u] /\ lastMail[u] # 0 /\ u \notin unlucky
       => lastMail'[u] - lastMail[u] >= 2 * CooldownDays]_jobVars

(* Whoever is away for a day more than the threshold has been mailed, and  *)
(* at most a cooldown, a day and the hours of the job ago, whatever befalls*)
(* the others on the list.                                                 *)
AbsentAreMailed ==
  \A u \in Subjects \ unlucky :
    time - seen[u] > 2 * (ThresholdDays + 1) =>
      lastMail[u] # 0 /\ lastMail[u] + 2 * CooldownDays + 3 >= time

(* "commence demain": nobody is reminded twice of an event, however often  *)
(* they cancel, or it is removed; and who is registered since before the   *)
(* last run that could remind them, for an event that is active since      *)
(* before it, has been reminded.                                           *)
RemindedOnce ==
  \A e \in Fairs, u \in Subjects :
    /\ reminders[<<e, u>>] <= 1
    /\ /\ u \notin unlucky /\ time > StartOf[e] - 2
       /\ {joined[e][u], since[e]} \subseteq 1..(StartOf[e] - 3)
       => reminders[<<e, u>>] = 1
=============================================================================
