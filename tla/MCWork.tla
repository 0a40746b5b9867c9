-------------------------------- MODULE MCWork --------------------------------
(***************************************************************************)
(* The tables that requests and jobs write behind each other's back, on    *)
(* small instances, in one run: connections, internship applications,      *)
(* referrals, project applications, the daily jobs and the login streak.   *)
(* No module reads the variables of another, so a behaviour moves the part *)
(* that it started with, and the others stay as they are.                  *)
(***************************************************************************)
EXTENDS Connections, InternshipApplications, Referrals, ProjectBoard, DailyJobs,
        LoginStreak, TLC

CONSTANTS ann, ben, cleo, dan, k1, k2, offer, cv, fair

VARIABLE part

OneEach == [u \in Users |-> 1]
OneProjectEach == [u \in Founders |-> 1]
TwoForAnn == [u \in Freelancers |-> IF u = ann THEN 2 ELSE 1]
ByAnn == [o \in Offers |-> ann]
ByBen == [f \in Uploads |-> ben]
FifthHour == [e \in Fairs |-> 5]
SlotSymmetry == Permutations({k1, k2})

Parts == {"connections", "internships", "referrals", "projects", "absences", "fairs", "streak"}

WorkInit ==
  /\ part \in Parts
  /\ Init /\ InternshipInit /\ ReferralInit /\ ProjectInit /\ JobsInit /\ StreakInit

WorkNext ==
  /\ UNCHANGED part
  /\ IF part = "connections" THEN Next ELSE UNCHANGED vars
  /\ IF part = "internships" THEN InternshipNext ELSE UNCHANGED internshipVars
  /\ IF part = "referrals" THEN ReferralNext ELSE UNCHANGED referralVars
  /\ IF part = "projects" THEN ProjectNext ELSE UNCHANGED projectVars
  /\ IF part = "absences" THEN JobsNext /\ UNCHANGED <<joined, since>>
     ELSE IF part = "fairs" THEN JobsNext /\ UNCHANGED seen ELSE UNCHANGED jobVars
  /\ IF part = "streak" THEN StreakNext ELSE UNCHANGED streakVars

workVars ==
  <<part, vars, internshipVars, referralVars, projectVars, jobVars, streakVars>>

WorkSpec == WorkInit /\ [][WorkNext]_workVars

(* The tables of connections, internships and referrals, and the requests  *)
(* on them, have the shape and the keys of the schema, also after the      *)
(* deletion of a member.                                                   *)
WorkTypeOK == TypeOK /\ InternshipsTypeOK /\ ReferralsTypeOK
=============================================================================
