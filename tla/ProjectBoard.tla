---------------------------- MODULE ProjectBoard ----------------------------
(***************************************************************************)
(* Projects of entrepreneurs and the applications of freelancers to them:  *)
(* projects/projects.service.ts.  A request runs in a slot and awaits one  *)
(* database call after the other.  Neither the limits of the plans nor     *)
(* "one application per project" is a constraint of the schema.            *)
(***************************************************************************)
EXTENDS Naturals, FiniteSets

CONSTANTS
  Founders,      \* entrepreneurs
  Freelancers,
  ProjectLimit,  \* ProjectLimit[u]: maxProjects of the plan of u
  PitchLimit,    \* PitchLimit[u]: maxApplications of the plan of u
  Calm,          \* users who wait for an answer before they ask again
  Slots,         \* handler slots
  MaxProjects,   \* bound: projects created
  MaxPitches     \* bound: applications created

ASSUME ProjectAssumption ==
  /\ IsFiniteSet(Slots) /\ Slots # {}
  /\ ProjectLimit \in [Founders -> Nat] /\ PitchLimit \in [Freelancers -> Nat]
  /\ MaxProjects \in Nat /\ MaxPitches \in Nat

VARIABLES
  projects,   \* rows of Project: [id, owner]
  pitches,    \* rows of ProjectApplication: [id, project, by, status]
  slot,       \* slot[k]: the request running in slot k
  founded,    \* projects created so far, which numbers them
  pitched     \* applications created so far

projectVars == <<projects, pitches, slot, founded, pitched>>

Vacant == [at |-> "none", user |-> {}, project |-> 0]

ProjectInit ==
  /\ projects = {} /\ pitches = {} /\ slot = [k \in Slots |-> Vacant]
  /\ founded = 0 /\ pitched = 0

Put(k, at, u, id) == slot' = [slot EXCEPT ![k] = [at |-> at, user |-> {u}, project |-> id]]
Vacate(k) == slot' = [slot EXCEPT ![k] = Vacant]
Onward(k, at) == slot' = [slot EXCEPT ![k].at = at]

MayAsk(k, u) == slot[k] = Vacant /\ (u \in Calm => \A j \in Slots : slot[j].user # {u})

OwnedBy(u) == {p \in projects : p.owner = u}
PitchesBy(u) == {a \in pitches : a.by = u}

(* Mutant: the last one is counted too late.                               *)
UpTo(n, limit) == n <= limit

Under(n, limit) == n < limit

-----------------------------------------------------------------------------
(* create: the profile and the plan do not change here, the count does.    *)
CountProjects(k, u) ==
  /\ MayAsk(k, u) /\ Under(Cardinality(OwnedBy(u)), ProjectLimit[u])
  /\ Put(k, "project", u, 0)
  /\ UNCHANGED <<projects, pitches, founded, pitched>>

CreateProject(k) ==
  /\ slot[k].at = "project" /\ founded < MaxProjects
  /\ founded' = founded + 1
  /\ projects' = projects \cup {[id |-> founded', owner |-> u] : u \in slot[k].user}
  /\ Vacate(k)
  /\ UNCHANGED <<pitches, pitched>>

(* delete: its applications go with the project (ON DELETE CASCADE).       *)
DeleteProject(p) ==
  /\ p \in projects
  /\ projects' = projects \ {p}
  /\ pitches' = {a \in pitches : a.project # p.id}
  /\ UNCHANGED <<slot, founded, pitched>>

-----------------------------------------------------------------------------
(* apply: whether the project is open is not looked at.                    *)
CountPitches(k, u, p) ==
  /\ MayAsk(k, u) /\ p \in projects
  /\ Under(Cardinality(PitchesBy(u)), PitchLimit[u])
  /\ Put(k, "existing", u, p.id)
  /\ UNCHANGED <<projects, pitches, founded, pitched>>

(* Mutant: an application that was rejected may be made again.             *)
NotRejected(u, id) == {a \in PitchesBy(u) : a.project = id /\ a.status # "REJECTED"}

Existing(u, id) == {a \in PitchesBy(u) : a.project = id}

FindPitch(k) ==
  /\ slot[k].at = "existing"
  /\ IF \E u \in slot[k].user : Existing(u, slot[k].project) # {} THEN Vacate(k) ELSE Onward(k, "pitch")
  /\ UNCHANGED <<projects, pitches, founded, pitched>>

(* The project may be gone by now: the call throws.                        *)
CreatePitch(k) ==
  /\ slot[k].at = "pitch" /\ pitched < MaxPitches
  /\ IF \E p \in projects : p.id = slot[k].project
     THEN /\ pitched' = pitched + 1
          /\ pitches' = pitches \cup
               {[id |-> pitched', project |-> slot[k].project, by |-> u, status |-> "PENDING"]
                  : u \in slot[k].user}
     ELSE UNCHANGED <<pitches, pitched>>
  /\ Vacate(k)
  /\ UNCHANGED <<projects, founded>>

(* updateApplicationStatus, by the owner of the project.                   *)
DecidePitch(a, status) ==
  /\ a \in pitches /\ a.status # status
  /\ pitches' = (pitches \ {a}) \cup {[a EXCEPT !.status = status]}
  /\ UNCHANGED <<projects, slot, founded, pitched>>

ProjectNext ==
  \/ \E k \in Slots :
       \/ CreateProject(k) \/ FindPitch(k) \/ CreatePitch(k)
       \/ \E u \in Founders : CountProjects(k, u)
       \/ \E u \in Freelancers, p \in projects : CountPitches(k, u, p)
  \/ \E p \in projects : DeleteProject(p)
  \/ \E a \in pitches, s \in {"PENDING", "ACCEPTED", "REJECTED"} : DecidePitch(a, s)

ProjectSpec == ProjectInit /\ [][ProjectNext]_projectVars

-----------------------------------------------------------------------------
(* How many requests of u can be under way at once.                        *)
Tabs(u) == IF u \in Calm THEN 1 ELSE Cardinality(Slots)

(* "You have already applied to this project": a freelancer who waits for  *)
(* answers applies to a project once, however the first application was    *)
(* decided meanwhile; one who does not has at most as many applications to *)
(* it as requests that overlap.                                            *)
AppliedOnce == \A a \in pitches : Cardinality(Existing(a.by, a.project)) <= Tabs(a.by)

(* The limits of the plan are counted in one call and used up in a later   *)
(* one: nobody exceeds them by more than the requests that overlap, less   *)
(* one, and whoever waits for answers not at all, whatever others create   *)
(* or delete meanwhile.                                                    *)
LimitsHold ==
  /\ \A u \in Founders : Cardinality(OwnedBy(u)) < ProjectLimit[u] + Tabs(u)
  /\ \A u \in Freelancers : Cardinality(PitchesBy(u)) < PitchLimit[u] + Tabs(u)
=============================================================================
