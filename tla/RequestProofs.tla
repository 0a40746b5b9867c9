---------------------------- MODULE RequestProofs ----------------------------
(***************************************************************************)
(* Proofs about Referrals, ProjectBoard and MarketplaceOrders, whose       *)
(* requests read one table and write another, for any users, plans, slots, *)
(* failures and bounds; and about MCWork, which puts the modules of        *)
(* requests and jobs side by side.                                         *)
(***************************************************************************)
EXTENDS MCWork, ConnectionsProofs, InternshipProofs, MarketplaceOrders, FiniteSetTheorems, TLAPS

-----------------------------------------------------------------------------
(* Referrals.  Beside types and totals, the invariant says that the code   *)
(* which a request has read still exists when its transaction runs: a user *)
(* with a code is never deleted.                                           *)

(* A request that registers a referral carries a code that exists.         *)
CodesStay == \A k \in Clerks : clerk[k].at \in {"referred", "write"} => clerk[k].owner \in codes

ReferralInv == ReferralsTypeOK /\ TotalIsRows /\ CodesStay /\ IsFiniteSet(referrals)

LEMMA ReferralInitInv == ReferralInit => ReferralInv
<1> SUFFICES ASSUME ReferralInit PROVE ReferralInv
  OBVIOUS
<1>1. ReferralsTypeOK /\ CodesStay
  BY ReferralAssumption DEF ReferralInit, ReferralsTypeOK, CodesStay, NoTask
<1>2. \A c \in Persons : ReferredTo(c) = {}
  BY DEF ReferralInit, ReferredTo
<1>3. TotalIsRows /\ IsFiniteSet(referrals)
  BY <1>2, FS_EmptySet DEF ReferralInit, TotalIsRows
<1> QED BY <1>1, <1>3 DEF ReferralInv

-----------------------------------------------------------------------------
(* A request that runs carries its step, two users and a number.           *)
TaskType == [at : {"code", "referred", "write"}, owner : Persons, user : Persons, count : Nat]

LEMMA AtWork ==
  ASSUME ReferralInv, NEW k \in Clerks, clerk[k].at \in {"code", "referred", "write"}
  PROVE  clerk[k] \in TaskType
  BY DEF ReferralInv, ReferralsTypeOK, TaskType, NoTask

(* The clerks stay in order when one goes on with a task that is.          *)
LEMMA TakeKeeps ==
  ASSUME ReferralInv, NEW k \in Clerks, NEW task \in TaskType \cup {NoTask}, Take(k, task),
         codes \subseteq codes', task.at \in {"referred", "write"} => task.owner \in codes
  PROVE  clerk' \in [Clerks -> {NoTask} \cup TaskType] /\ CodesStay'
<1>1. clerk \in [Clerks -> {NoTask} \cup TaskType]
  BY DEF ReferralInv, ReferralsTypeOK, TaskType
<1>2. /\ clerk' \in [Clerks -> {NoTask} \cup TaskType]
      /\ clerk'[k] = task /\ \A j \in Clerks \ {k} : clerk'[j] = clerk[j]
  BY <1>1 DEF Take
<1> QED BY <1>2 DEF ReferralInv, CodesStay

LEMMA FinishKeeps ==
  ASSUME ReferralInv, NEW k \in Clerks, Finish(k), codes \subseteq codes'
  PROVE  clerk' \in [Clerks -> {NoTask} \cup TaskType] /\ CodesStay'
  BY TakeKeeps DEF Finish, NoTask

(* What depends on the tables alone.                                       *)
LEMMA SameTables ==
  ASSUME ReferralInv, clerk' \in [Clerks -> {NoTask} \cup TaskType], CodesStay',
         codes \subseteq codes', codes' \subseteq persons, stumbles' \in Nat,
         UNCHANGED <<persons, total, referrals>>
  PROVE  ReferralInv'
<1>1. ReferralsTypeOK'
  BY DEF ReferralInv, ReferralsTypeOK, TaskType
<1>2. TotalIsRows'
  BY DEF ReferralInv, TotalIsRows, ReferredTo
<1> QED BY <1>1, <1>2 DEF ReferralInv

-----------------------------------------------------------------------------
LEMMA WriteReferralKeeps ==
  ASSUME ReferralInv, NEW k \in Clerks, WriteReferral(k)
  PROVE  ReferralInv'
<1>0. PICK c \in Persons, u \in Persons :
        c = clerk[k].owner /\ u = clerk[k].user /\ c \in codes
  BY AtWork DEF WriteReferral, ReferralInv, CodesStay, TaskType
<1> DEFINE new == [code |-> c, referred |-> u]
<1>2. clerk' \in [Clerks -> {NoTask} \cup TaskType] /\ CodesStay'
  BY FinishKeeps DEF WriteReferral
<1>3. CASE ~(u \in persons /\ Referred(u) = {})
  BY <1>0, <1>2, <1>3, SameTables DEF WriteReferral, ReferralInv, ReferralsTypeOK
<1>4. CASE u \in persons /\ Referred(u) = {}
  <2>1. /\ referrals' = referrals \cup {new}
        /\ total' = [total EXCEPT ![c] = total[c] + 1]
        /\ UNCHANGED <<persons, codes, stumbles>>
    BY <1>0, <1>4 DEF WriteReferral, Incremented
  <2>2. new \notin referrals /\ \A r \in referrals : r.referred # u
    BY <1>4 DEF Referred
  <2>3. ReferralsTypeOK'
    BY <1>0, <1>2, <1>4, <2>1 DEF ReferralInv, ReferralsTypeOK, TaskType
  <2>4. IsFiniteSet(referrals')
    BY <2>1, FS_AddElement DEF ReferralInv
  <2>5. total'[c] = Cardinality(ReferredTo(c)')
    <3>1. ReferredTo(c)' = ReferredTo(c) \cup {new} /\ new \notin ReferredTo(c)
      BY <2>1, <2>2 DEF ReferredTo
    <3>2. IsFiniteSet(ReferredTo(c))
      BY FS_Subset DEF ReferredTo, ReferralInv
    <3>3. Cardinality(ReferredTo(c)') = Cardinality(ReferredTo(c)) + 1
      BY <3>1, <3>2, FS_AddElement
    <3> QED BY <2>1, <3>3 DEF ReferralInv, ReferralsTypeOK, TotalIsRows
  <2>6. \A d \in Persons \ {c} : total'[d] = Cardinality(ReferredTo(d)')
    <3> SUFFICES ASSUME NEW d \in Persons \ {c} PROVE total'[d] = Cardinality(ReferredTo(d)')
      OBVIOUS
    <3>1. ReferredTo(d)' = ReferredTo(d)
      BY <2>1 DEF ReferredTo
    <3> QED BY <2>1, <3>1 DEF ReferralInv, ReferralsTypeOK, TotalIsRows
  <2>7. \A r, s \in referrals' : r.referred = s.referred => r = s
    BY <2>1, <2>2 DEF ReferralInv, TotalIsRows
  <2> QED BY <1>2, <2>3, <2>4, <2>5, <2>6, <2>7 DEF ReferralInv, TotalIsRows
<1> QED BY <1>3, <1>4

(* Nobody who is deleted has a code or a referral.                         *)
LEMMA DeletePersonKeeps ==
  ASSUME ReferralInv, NEW u \in Persons, DeletePerson(u)
  PROVE  ReferralInv'
<1>1. u \notin codes /\ \A r \in referrals : r.referred # u
  BY DEF DeletePerson, Unreferenced, Referred
<1>2. codes' = codes /\ referrals' = referrals /\ UNCHANGED <<total, clerk, stumbles>>
  BY <1>1 DEF DeletePerson, Referred
<1>3. ReferralsTypeOK'
  BY <1>1, <1>2 DEF DeletePerson, ReferralInv, ReferralsTypeOK
<1>4. TotalIsRows' /\ CodesStay' /\ IsFiniteSet(referrals')
  BY <1>2 DEF ReferralInv, TotalIsRows, ReferredTo, CodesStay
<1> QED BY <1>3, <1>4 DEF ReferralInv

-----------------------------------------------------------------------------
LEMMA ClerkKeeps ==
  ASSUME ReferralInv, NEW k \in Clerks,
         \/ CreateCode(k) \/ CheckReferred(k) \/ Stumble(k)
         \/ \E u \in Persons : AskCode(k, u) \/ \E c \in Persons : RegisterReferral(k, c, u)
  PROVE  ReferralInv'
<1>0. /\ codes \subseteq persons /\ persons \subseteq Persons
      /\ total \in [Persons -> Nat] /\ stumbles \in Nat
  BY DEF ReferralInv, ReferralsTypeOK
<1>1. CASE CreateCode(k)
  BY <1>0, <1>1, FinishKeeps, SameTables DEF CreateCode
<1>2. CASE CheckReferred(k)
  <2>1. CASE Finish(k)
    BY <1>0, <1>2, <2>1, FinishKeeps, SameTables DEF CheckReferred
  <2>2. CASE Take(k, [clerk[k] EXCEPT !.at = "write"])
    <3> DEFINE task == [clerk[k] EXCEPT !.at = "write"]
    <3>1. clerk[k] \in TaskType /\ clerk[k].owner \in codes
      BY <1>2, AtWork DEF CheckReferred, ReferralInv, CodesStay
    <3>2. task \in TaskType /\ task.owner \in codes
      BY <3>1 DEF TaskType
    <3> HIDE DEF task
    <3>3. clerk' \in [Clerks -> {NoTask} \cup TaskType] /\ CodesStay'
      BY <1>2, <2>2, <3>2, TakeKeeps DEF CheckReferred, task
    <3> QED BY <1>0, <1>2, <3>3, SameTables DEF CheckReferred
  <2> QED BY <1>2, <2>1, <2>2 DEF CheckReferred
<1>3. CASE Stumble(k)
  BY <1>0, <1>3, FinishKeeps, SameTables DEF Stumble
<1>4. ASSUME NEW u \in Persons, AskCode(k, u) PROVE ReferralInv'
  <2>1. Task("code", u, u, 0) \in TaskType
    BY DEF Task, TaskType
  <2>2. clerk' \in [Clerks -> {NoTask} \cup TaskType] /\ CodesStay'
    BY <1>4, <2>1, TakeKeeps DEF AskCode, Task
  <2> QED BY <1>0, <1>4, <2>2, SameTables DEF AskCode
<1>5. ASSUME NEW u \in Persons, NEW c \in Persons, RegisterReferral(k, c, u) PROVE ReferralInv'
  <2>1. Task("referred", c, u, total[c]) \in TaskType /\ c \in codes
    BY <1>0, <1>5 DEF RegisterReferral, Task, TaskType
  <2>2. clerk' \in [Clerks -> {NoTask} \cup TaskType] /\ CodesStay'
    BY <1>5, <2>1, TakeKeeps DEF RegisterReferral, Task
  <2> QED BY <1>0, <1>5, <2>2, SameTables DEF RegisterReferral
<1> QED BY <1>1, <1>2, <1>3, <1>4, <1>5

LEMMA ReferralNextInv == ReferralInv /\ [ReferralNext]_referralVars => ReferralInv'
<1> SUFFICES ASSUME ReferralInv, [ReferralNext]_referralVars PROVE ReferralInv'
  OBVIOUS
<1>1. CASE UNCHANGED referralVars
  BY <1>1 DEF referralVars, ReferralInv, ReferralsTypeOK, TotalIsRows, ReferredTo, CodesStay
<1>2. CASE ReferralNext
  BY <1>2, ClerkKeeps, WriteReferralKeeps, DeletePersonKeeps DEF ReferralNext
<1> QED BY <1>1, <1>2

(* For any users and slots, and however requests interleave and die: the   *)
(* total kept beside the rows of a code is their number, and nobody was    *)
(* brought by two members.                                                 *)
THEOREM TotalsAreRight == ReferralSpec => []TotalIsRows
<1>1. ReferralInv => TotalIsRows
  BY DEF ReferralInv
<1> QED BY <1>1, ReferralInitInv, ReferralNextInv, PTL DEF ReferralSpec

(* Codes and referrals keep the shape and the keys of the schema: a code   *)
(* is that of a user who exists, and so is a referred user.                *)
THEOREM ReferralsTypeCorrect == ReferralSpec => []ReferralsTypeOK
<1>1. ReferralInv => ReferralsTypeOK
  BY DEF ReferralInv
<1> QED BY <1>1, ReferralInitInv, ReferralNextInv, PTL DEF ReferralSpec

-----------------------------------------------------------------------------
(* Project applications.                                                   *)

Places == {"none", "project", "existing", "pitch"}

ProjectType == [id : Nat, owner : Founders]
PitchType == [id : Nat, project : Nat, by : Freelancers, status : {"PENDING", "ACCEPTED", "REJECTED"}]
SlotType == [at : Places, user : SUBSET (Founders \cup Freelancers), project : Nat]

(* A request is that of one user: a founder's, or a freelancer's.          *)
SlotFits(r) ==
  /\ r.at = "none" => r = Vacant
  /\ r.at = "project" => \E u \in Founders : r.user = {u}
  /\ r.at \in {"existing", "pitch"} => \E u \in Freelancers : r.user = {u}

BoardTypeOK ==
  /\ projects \subseteq ProjectType /\ IsFiniteSet(projects)
  /\ pitches \subseteq PitchType /\ IsFiniteSet(pitches)
  /\ slot \in [Slots -> SlotType] /\ \A k \in Slots : SlotFits(slot[k])
  /\ founded \in Nat /\ pitched \in Nat

(* The requests of a user that have passed the check of a limit, and those *)
(* that have found no application to the project.                          *)
RequestsOf(u) == {k \in Slots : slot[k].user = {u}}
Founding(u) == {k \in RequestsOf(u) : slot[k].at = "project"}
Pitching(u) == {k \in RequestsOf(u) : slot[k].at \in {"existing", "pitch"}}
Creating(u, id) == {k \in RequestsOf(u) : slot[k].at = "pitch" /\ slot[k].project = id}

(* A user who waits for answers has one request at most.                   *)
Solo == \A u \in Calm : \A j, k \in RequestsOf(u) : j = k

(* A row that a request will create counts as if it were there.            *)
RoomForProjects ==
  \A u \in Founders :
    Cardinality(OwnedBy(u)) + Cardinality(Founding(u)) < ProjectLimit[u] + Tabs(u)

RoomForPitches ==
  \A u \in Freelancers :
    Cardinality(PitchesBy(u)) + Cardinality(Pitching(u)) < PitchLimit[u] + Tabs(u)

PitchedOnce ==
  \A u \in Freelancers, id \in Nat :
    Cardinality(Existing(u, id)) + Cardinality(Creating(u, id)) <= Tabs(u)

BoardInv == BoardTypeOK /\ Solo /\ RoomForProjects /\ RoomForPitches /\ PitchedOnce

-----------------------------------------------------------------------------
(* Counting                                                                *)

LEMMA Fewer ==
  ASSUME NEW S, NEW T, IsFiniteSet(S), T \subseteq S
  PROVE  IsFiniteSet(T) /\ Cardinality(T) \in Nat /\ Cardinality(S) \in Nat
         /\ Cardinality(T) <= Cardinality(S)
  BY FS_Subset, FS_CardinalityType

LEMMA OneMore ==
  ASSUME NEW S, NEW x, IsFiniteSet(S)
  PROVE  /\ IsFiniteSet(S \cup {x}) /\ Cardinality(S) \in Nat
         /\ Cardinality(S \cup {x}) \in Nat /\ Cardinality(S \cup {x}) <= Cardinality(S) + 1
  BY FS_AddElement, FS_CardinalityType

(* Two sets of which one gained at most what the other lost.               *)
LEMMA Lighter ==
  ASSUME NEW S, NEW T, NEW A, NEW B, IsFiniteSet(S), IsFiniteSet(T), A \subseteq S, B \subseteq T
  PROVE  /\ Cardinality(A) + Cardinality(B) <= Cardinality(S) + Cardinality(T)
         /\ Cardinality(A) + Cardinality(B) \in Nat /\ Cardinality(S) + Cardinality(T) \in Nat
  BY Fewer

LEMMA Traded ==
  ASSUME NEW S, NEW T, NEW A, NEW B, IsFiniteSet(S), IsFiniteSet(T),
         \E x : A \subseteq S \cup {x}, \E k \in T : B \subseteq T \ {k}
  PROVE  /\ Cardinality(A) + Cardinality(B) <= Cardinality(S) + Cardinality(T)
         /\ Cardinality(A) + Cardinality(B) \in Nat /\ Cardinality(S) + Cardinality(T) \in Nat
<1> PICK x : A \subseteq S \cup {x}
  OBVIOUS
<1> PICK k \in T : B \subseteq T \ {k}
  OBVIOUS
<1>1. /\ IsFiniteSet(S \cup {x}) /\ Cardinality(S \cup {x}) <= Cardinality(S) + 1
      /\ Cardinality(S) \in Nat /\ Cardinality(S \cup {x}) \in Nat
  BY OneMore
<1>2. /\ IsFiniteSet(T \ {k}) /\ Cardinality(T \ {k}) = Cardinality(T) - 1
      /\ Cardinality(T) \in Nat /\ Cardinality(T \ {k}) \in Nat
  BY FS_RemoveElement, FS_CardinalityType
<1>3. Cardinality(A) \in Nat /\ Cardinality(A) <= Cardinality(S \cup {x})
  BY <1>1, Fewer
<1>4. Cardinality(B) \in Nat /\ Cardinality(B) <= Cardinality(T \ {k})
  BY <1>2, Fewer
<1> QED BY <1>1, <1>2, <1>3, <1>4

LEMMA Swapped ==
  ASSUME NEW S, NEW a \in S, NEW b, IsFiniteSet(S)
  PROVE  /\ IsFiniteSet((S \ {a}) \cup {b}) /\ Cardinality((S \ {a}) \cup {b}) \in Nat
         /\ Cardinality(S) \in Nat /\ Cardinality((S \ {a}) \cup {b}) <= Cardinality(S)
<1>1. IsFiniteSet(S \ {a}) /\ Cardinality(S \ {a}) = Cardinality(S) - 1 /\ Cardinality(S) \in Nat
  BY FS_RemoveElement, FS_CardinalityType
<1>2. /\ IsFiniteSet((S \ {a}) \cup {b}) /\ Cardinality((S \ {a}) \cup {b}) \in Nat
      /\ Cardinality((S \ {a}) \cup {b}) <= Cardinality(S \ {a}) + 1
  BY <1>1, OneMore
<1> QED BY <1>1, <1>2

LEMMA Limits ==
  /\ \A u \in Founders : ProjectLimit[u] \in Nat
  /\ \A u \in Freelancers : PitchLimit[u] \in Nat
  /\ \A u : Tabs(u) \in Nat /\ Tabs(u) > 0
<1>1. Cardinality(Slots) \in Nat /\ Cardinality(Slots) > 0
  BY ProjectAssumption, FS_EmptySet, FS_CardinalityType
<1> QED BY <1>1, ProjectAssumption DEF Tabs

(* No more requests are under way at once than the user has tabs.          *)
LEMMA AtOnce ==
  ASSUME NEW u, NEW K \in SUBSET Slots, u \in Calm => \A j, k \in K : j = k
  PROVE  IsFiniteSet(K) /\ Cardinality(K) \in Nat /\ Cardinality(K) <= Tabs(u)
<1>1. IsFiniteSet(K) /\ Cardinality(K) \in Nat /\ Cardinality(K) <= Cardinality(Slots)
  BY ProjectAssumption, Fewer
<1>2. ASSUME u \in Calm PROVE Cardinality(K) <= 1
  <2>1. CASE K = {}
    BY <2>1, FS_EmptySet
  <2>2. CASE K # {}
    <3>1. PICK k \in K : K = {k}
      BY <1>2, <2>2
    <3> QED BY <3>1, FS_Singleton
  <2> QED BY <2>1, <2>2
<1> QED BY <1>1, <1>2 DEF Tabs

LEMMA RowsFinite ==
  ASSUME BoardInv, NEW u, NEW id
  PROVE  /\ IsFiniteSet(OwnedBy(u)) /\ IsFiniteSet(PitchesBy(u)) /\ IsFiniteSet(Existing(u, id))
         /\ IsFiniteSet(Founding(u)) /\ IsFiniteSet(Pitching(u)) /\ IsFiniteSet(Creating(u, id))
<1>1. IsFiniteSet(projects) /\ IsFiniteSet(pitches) /\ IsFiniteSet(Slots)
  BY ProjectAssumption DEF BoardInv, BoardTypeOK
<1>2. /\ OwnedBy(u) \subseteq projects /\ PitchesBy(u) \subseteq pitches
      /\ Existing(u, id) \subseteq pitches /\ Founding(u) \subseteq Slots
      /\ Pitching(u) \subseteq Slots /\ Creating(u, id) \subseteq Slots
  BY DEF OwnedBy, PitchesBy, Existing, Founding, Pitching, Creating, RequestsOf
<1> QED BY <1>1, <1>2, FS_Subset

LEMMA BoardInvApplied == BoardInv => AppliedOnce /\ LimitsHold
<1> SUFFICES ASSUME BoardInv PROVE AppliedOnce /\ LimitsHold
  OBVIOUS
<1>1. \A u, id : /\ Cardinality(Founding(u)) \in Nat /\ Cardinality(Pitching(u)) \in Nat
                 /\ Cardinality(Creating(u, id)) \in Nat /\ Cardinality(OwnedBy(u)) \in Nat
                 /\ Cardinality(PitchesBy(u)) \in Nat /\ Cardinality(Existing(u, id)) \in Nat
  BY RowsFinite, FS_CardinalityType
<1>2. AppliedOnce
  <2>1. \A a \in pitches : a.by \in Freelancers /\ a.project \in Nat
    BY DEF BoardInv, BoardTypeOK, PitchType
  <2> QED BY <1>1, <2>1, Limits DEF BoardInv, PitchedOnce, AppliedOnce
<1>3. ASSUME NEW u \in Founders PROVE Cardinality(OwnedBy(u)) < ProjectLimit[u] + Tabs(u)
  <2>1. Cardinality(OwnedBy(u)) + Cardinality(Founding(u)) < ProjectLimit[u] + Tabs(u)
    BY DEF BoardInv, RoomForProjects
  <2>2. Cardinality(OwnedBy(u)) \in Nat /\ Cardinality(Founding(u)) \in Nat
    BY <1>1
  <2> QED BY <2>1, <2>2, Limits
<1>4. ASSUME NEW u \in Freelancers PROVE Cardinality(PitchesBy(u)) < PitchLimit[u] + Tabs(u)
  <2>1. Cardinality(PitchesBy(u)) + Cardinality(Pitching(u)) < PitchLimit[u] + Tabs(u)
    BY DEF BoardInv, RoomForPitches
  <2>2. Cardinality(PitchesBy(u)) \in Nat /\ Cardinality(Pitching(u)) \in Nat
    BY <1>1
  <2> QED BY <2>1, <2>2, Limits
<1> QED BY <1>2, <1>3, <1>4 DEF LimitsHold

LEMMA BoardStart == ProjectInit => BoardInv
<1> SUFFICES ASSUME ProjectInit PROVE BoardInv
  OBVIOUS
<1>1. BoardTypeOK
  BY FS_EmptySet DEF ProjectInit, BoardTypeOK, SlotType, SlotFits, Vacant, Places
<1>2. \A u, id : /\ OwnedBy(u) = {} /\ PitchesBy(u) = {} /\ Existing(u, id) = {}
                 /\ RequestsOf(u) = {} /\ Founding(u) = {} /\ Pitching(u) = {}
                 /\ Creating(u, id) = {}
  BY DEF ProjectInit, Vacant, OwnedBy, PitchesBy, Existing, RequestsOf, Founding, Pitching, Creating
<1>3. Cardinality({}) = 0
  BY FS_EmptySet
<1>4. Solo
  BY <1>2 DEF Solo
<1>5. RoomForProjects /\ RoomForPitches /\ PitchedOnce
  <2>1. \A u, id : /\ Cardinality(OwnedBy(u)) = 0 /\ Cardinality(PitchesBy(u)) = 0
                   /\ Cardinality(Existing(u, id)) = 0 /\ Cardinality(Founding(u)) = 0
                   /\ Cardinality(Pitching(u)) = 0 /\ Cardinality(Creating(u, id)) = 0
    BY <1>2, <1>3
  <2> QED BY <2>1, Limits DEF RoomForProjects, RoomForPitches, PitchedOnce
<1> QED BY <1>1, <1>4, <1>5 DEF BoardInv

-----------------------------------------------------------------------------
(* What a step does to the slots and to the rows of one user.              *)
SlotsOK == slot' \in [Slots -> SlotType] /\ \A k \in Slots : SlotFits(slot'[k])

LEMMA FoundingKept ==
  ASSUME BoardInv, NEW u \in Founders,
         \/ OwnedBy(u)' \subseteq OwnedBy(u) /\ Founding(u)' \subseteq Founding(u)
         \/ \E x, k : /\ k \in Founding(u)
                      /\ OwnedBy(u)' \subseteq OwnedBy(u) \cup {x}
                      /\ Founding(u)' \subseteq Founding(u) \ {k}
  PROVE  Cardinality(OwnedBy(u)') + Cardinality(Founding(u)') < ProjectLimit[u] + Tabs(u)
<1>1. IsFiniteSet(OwnedBy(u)) /\ IsFiniteSet(Founding(u))
  BY RowsFinite
<1>2. /\ Cardinality(OwnedBy(u)') + Cardinality(Founding(u)') <=
           Cardinality(OwnedBy(u)) + Cardinality(Founding(u))
      /\ Cardinality(OwnedBy(u)') + Cardinality(Founding(u)') \in Nat
      /\ Cardinality(OwnedBy(u)) + Cardinality(Founding(u)) \in Nat
  BY <1>1, Lighter, Traded
<1>3. Cardinality(OwnedBy(u)) + Cardinality(Founding(u)) < ProjectLimit[u] + Tabs(u)
  BY DEF BoardInv, RoomForProjects
<1> QED BY <1>2, <1>3, Limits

LEMMA PitchingKept ==
  ASSUME BoardInv, NEW u \in Freelancers,
         \/ PitchesBy(u)' \subseteq PitchesBy(u) /\ Pitching(u)' \subseteq Pitching(u)
         \/ \E x, k : /\ k \in Pitching(u)
                      /\ PitchesBy(u)' \subseteq PitchesBy(u) \cup {x}
                      /\ Pitching(u)' \subseteq Pitching(u) \ {k}
  PROVE  Cardinality(PitchesBy(u)') + Cardinality(Pitching(u)') < PitchLimit[u] + Tabs(u)
<1>1. IsFiniteSet(PitchesBy(u)) /\ IsFiniteSet(Pitching(u))
  BY RowsFinite
<1>2. /\ Cardinality(PitchesBy(u)') + Cardinality(Pitching(u)') <=
           Cardinality(PitchesBy(u)) + Cardinality(Pitching(u))
      /\ Cardinality(PitchesBy(u)') + Cardinality(Pitching(u)') \in Nat
      /\ Cardinality(PitchesBy(u)) + Cardinality(Pitching(u)) \in Nat
  BY <1>1, Lighter, Traded
<1>3. Cardinality(PitchesBy(u)) + Cardinality(Pitching(u)) < PitchLimit[u] + Tabs(u)
  BY DEF BoardInv, RoomForPitches
<1> QED BY <1>2, <1>3, Limits

LEMMA CreatingKept ==
  ASSUME BoardInv, NEW u \in Freelancers, NEW id \in Nat,
         \/ Existing(u, id)' \subseteq Existing(u, id) /\ Creating(u, id)' \subseteq Creating(u, id)
         \/ \E x, k : /\ k \in Creating(u, id)
                      /\ Existing(u, id)' \subseteq Existing(u, id) \cup {x}
                      /\ Creating(u, id)' \subseteq Creating(u, id) \ {k}
  PROVE  Cardinality(Existing(u, id)') + Cardinality(Creating(u, id)') <= Tabs(u)
<1>1. IsFiniteSet(Existing(u, id)) /\ IsFiniteSet(Creating(u, id))
  BY RowsFinite
<1>2. /\ Cardinality(Existing(u, id)') + Cardinality(Creating(u, id)') <=
           Cardinality(Existing(u, id)) + Cardinality(Creating(u, id))
      /\ Cardinality(Existing(u, id)') + Cardinality(Creating(u, id)') \in Nat
      /\ Cardinality(Existing(u, id)) + Cardinality(Creating(u, id)) \in Nat
  <2>1. CASE Existing(u, id)' \subseteq Existing(u, id) /\ Creating(u, id)' \subseteq Creating(u, id)
    BY <1>1, <2>1, Lighter
  <2>2. CASE \E x, k : /\ k \in Creating(u, id)
                       /\ Existing(u, id)' \subseteq Existing(u, id) \cup {x}
                       /\ Creating(u, id)' \subseteq Creating(u, id) \ {k}
    <3>1. /\ \E x : Existing(u, id)' \subseteq Existing(u, id) \cup {x}
          /\ \E k \in Creating(u, id) : Creating(u, id)' \subseteq Creating(u, id) \ {k}
      BY <2>2
    <3> QED BY <1>1, <3>1, Traded
  <2> QED BY <2>1, <2>2
<1>3. Cardinality(Existing(u, id)) + Cardinality(Creating(u, id)) <= Tabs(u)
  BY DEF BoardInv, PitchedOnce
<1> QED BY <1>2, <1>3, Limits

(* Requests that end, while no row is added.                               *)
LEMMA FewerKeeps ==
  ASSUME BoardInv, BoardTypeOK', projects' \subseteq projects, pitches' \subseteq pitches,
         \A k \in Slots : slot'[k] = slot[k] \/ slot'[k] = Vacant
  PROVE  BoardInv'
<1>1. Vacant.user = {}
  BY DEF Vacant
<1>2. \A u : RequestsOf(u)' \subseteq RequestsOf(u)
  BY <1>1 DEF RequestsOf
<1>3. Solo'
  BY <1>2 DEF BoardInv, Solo
<1>4. \A u, id : /\ OwnedBy(u)' \subseteq OwnedBy(u) /\ PitchesBy(u)' \subseteq PitchesBy(u)
                 /\ Existing(u, id)' \subseteq Existing(u, id)
                 /\ Founding(u)' \subseteq Founding(u) /\ Pitching(u)' \subseteq Pitching(u)
                 /\ Creating(u, id)' \subseteq Creating(u, id)
  BY <1>1 DEF OwnedBy, PitchesBy, Existing, RequestsOf, Founding, Pitching, Creating
<1>5. RoomForProjects'
  BY <1>4, FoundingKept DEF RoomForProjects
<1>6. RoomForPitches'
  BY <1>4, PitchingKept DEF RoomForPitches
<1>7. PitchedOnce'
  BY <1>4, CreatingKept DEF PitchedOnce
<1> QED BY <1>3, <1>5, <1>6, <1>7 DEF BoardInv

LEMMA VacateFits ==
  ASSUME BoardInv, NEW k \in Slots, Vacate(k)
  PROVE  /\ SlotsOK /\ slot'[k] = Vacant /\ Vacant.user = {}
         /\ \A j \in Slots \ {k} : slot'[j] = slot[j]
  BY DEF BoardInv, BoardTypeOK, Vacate, SlotsOK, SlotType, SlotFits, Vacant, Places

-----------------------------------------------------------------------------
(* A request begins.                                                       *)
LEMMA PutKeeps ==
  ASSUME BoardInv, NEW k \in Slots, NEW u \in Founders \cup Freelancers, NEW at \in Places,
         NEW id \in Nat, MayAsk(k, u), Put(k, at, u, id),
         at = "project" => u \in Founders,
         at \in {"existing", "pitch"} => u \in Freelancers,
         at # "none"
  PROVE  /\ SlotsOK /\ Solo'
         /\ slot'[k].at = at /\ slot'[k].user = {u} /\ \A j \in Slots \ {k} : slot'[j] = slot[j]
         /\ slot[k] = Vacant
<1>1. /\ slot'[k] = [at |-> at, user |-> {u}, project |-> id]
      /\ \A j \in Slots \ {k} : slot'[j] = slot[j]
      /\ slot[k] = Vacant
  BY DEF Put, BoardInv, BoardTypeOK, MayAsk
<1>2. SlotsOK
  <2>1. [at |-> at, user |-> {u}, project |-> id] \in SlotType
    BY DEF SlotType
  <2>2. SlotFits([at |-> at, user |-> {u}, project |-> id])
    BY DEF SlotFits
  <2> QED BY <1>1, <2>1, <2>2 DEF Put, BoardInv, BoardTypeOK, SlotsOK
<1>3. Solo'
  <2> SUFFICES ASSUME NEW w \in Calm, NEW i \in Slots, NEW j \in Slots, slot'[i].user = {w},
                      slot'[j].user = {w}
               PROVE  i = j
    BY DEF Solo, RequestsOf
  <2>1. CASE w = u
    BY <1>1, <2>1 DEF MayAsk
  <2>2. CASE w # u
    BY <1>1, <2>2 DEF BoardInv, Solo, RequestsOf
  <2> QED BY <2>1, <2>2
<1> QED BY <1>1, <1>2, <1>3

LEMMA CountProjectsKeeps ==
  ASSUME BoardInv, NEW k \in Slots, NEW u \in Founders, CountProjects(k, u)
  PROVE  BoardInv'
<1>1. MayAsk(k, u) /\ Put(k, "project", u, 0) /\ Cardinality(OwnedBy(u)) < ProjectLimit[u]
  BY DEF CountProjects, Under
<1>2. UNCHANGED <<projects, pitches, founded, pitched>>
  BY DEF CountProjects
<1>3. /\ SlotsOK /\ Solo' /\ slot[k] = Vacant /\ slot'[k].at = "project" /\ slot'[k].user = {u}
      /\ \A j \in Slots \ {k} : slot'[j] = slot[j]
  BY <1>1, PutKeeps DEF Places
<1>4. \A w, id : /\ OwnedBy(w)' = OwnedBy(w) /\ PitchesBy(w)' = PitchesBy(w)
                 /\ Existing(w, id)' = Existing(w, id)
  BY <1>2 DEF OwnedBy, PitchesBy, Existing
<1>5. \A w, id : Pitching(w)' \subseteq Pitching(w) /\ Creating(w, id)' \subseteq Creating(w, id)
  BY <1>3 DEF Pitching, Creating, RequestsOf
<1>6. RoomForPitches'
  BY <1>4, <1>5, PitchingKept DEF RoomForPitches
<1>7. PitchedOnce'
  BY <1>4, <1>5, CreatingKept DEF PitchedOnce
<1>8. RoomForProjects'
  <2> SUFFICES ASSUME NEW w \in Founders
               PROVE  Cardinality(OwnedBy(w)') + Cardinality(Founding(w)') < ProjectLimit[w] + Tabs(w)
    BY DEF RoomForProjects
  <2>1. CASE w = u
    <3>1. Founding(w)' \in SUBSET Slots /\ (w \in Calm => \A i, j \in Founding(w)' : i = j)
      BY <1>3 DEF Founding, RequestsOf, Solo
    <3>2. Cardinality(Founding(w)') \in Nat /\ Cardinality(Founding(w)') <= Tabs(w)
      BY <3>1, AtOnce
    <3>3. Cardinality(OwnedBy(w)') < ProjectLimit[w] /\ Cardinality(OwnedBy(w)') \in Nat
      BY <1>1, <1>4, <2>1, RowsFinite, FS_CardinalityType
    <3> QED BY <3>2, <3>3, Limits
  <2>2. CASE w # u
    <3>1. Founding(w)' \subseteq Founding(w)
      BY <1>3, <2>2 DEF Founding, RequestsOf
    <3> QED BY <1>4, <3>1, FoundingKept
  <2> QED BY <2>1, <2>2
<1> QED BY <1>2, <1>3, <1>6, <1>7, <1>8 DEF BoardInv, BoardTypeOK, SlotsOK

LEMMA CountPitchesKeeps ==
  ASSUME BoardInv, NEW k \in Slots, NEW u \in Freelancers, NEW p \in projects, CountPitches(k, u, p)
  PROVE  BoardInv'
<1>1. MayAsk(k, u) /\ Put(k, "existing", u, p.id) /\ Cardinality(PitchesBy(u)) < PitchLimit[u]
  BY DEF CountPitches, Under
<1>2. UNCHANGED <<projects, pitches, founded, pitched>> /\ p.id \in Nat
  BY DEF CountPitches, BoardInv, BoardTypeOK, ProjectType
<1>3. /\ SlotsOK /\ Solo' /\ slot[k] = Vacant /\ slot'[k].at = "existing" /\ slot'[k].user = {u}
      /\ \A j \in Slots \ {k} : slot'[j] = slot[j]
  BY <1>1, <1>2, PutKeeps DEF Places
<1>4. \A w, id : /\ OwnedBy(w)' = OwnedBy(w) /\ PitchesBy(w)' = PitchesBy(w)
                 /\ Existing(w, id)' = Existing(w, id)
  BY <1>2 DEF OwnedBy, PitchesBy, Existing
<1>5. \A w, id : Founding(w)' \subseteq Founding(w) /\ Creating(w, id)' \subseteq Creating(w, id)
  BY <1>3 DEF Founding, Creating, RequestsOf
<1>6. RoomForProjects'
  BY <1>4, <1>5, FoundingKept DEF RoomForProjects
<1>7. PitchedOnce'
  BY <1>4, <1>5, CreatingKept DEF PitchedOnce
<1>8. RoomForPitches'
  <2> SUFFICES ASSUME NEW w \in Freelancers
               PROVE  Cardinality(PitchesBy(w)') + Cardinality(Pitching(w)') < PitchLimit[w] + Tabs(w)
    BY DEF RoomForPitches
  <2>1. CASE w = u
    <3>1. Pitching(w)' \in SUBSET Slots /\ (w \in Calm => \A i, j \in Pitching(w)' : i = j)
      BY <1>3 DEF Pitching, RequestsOf, Solo
    <3>2. Cardinality(Pitching(w)') \in Nat /\ Cardinality(Pitching(w)') <= Tabs(w)
      BY <3>1, AtOnce
    <3>3. Cardinality(PitchesBy(w)') < PitchLimit[w] /\ Cardinality(PitchesBy(w)') \in Nat
      BY <1>1, <1>4, <2>1, RowsFinite, FS_CardinalityType
    <3> QED BY <3>2, <3>3, Limits
  <2>2. CASE w # u
    <3>1. Pitching(w)' \subseteq Pitching(w)
      BY <1>3, <2>2 DEF Pitching, RequestsOf
    <3> QED BY <1>4, <3>1, PitchingKept
  <2> QED BY <2>1, <2>2
<1> QED BY <1>2, <1>3, <1>6, <1>7, <1>8 DEF BoardInv, BoardTypeOK, SlotsOK

-----------------------------------------------------------------------------
(* A request goes on to its row, or ends.                                  *)
LEMMA FindPitchKeeps ==
  ASSUME BoardInv, NEW k \in Slots, FindPitch(k)
  PROVE  BoardInv'
<1>1. UNCHANGED <<projects, pitches, founded, pitched>>
  BY DEF FindPitch
<1>2. CASE Vacate(k)
  <2>1. BoardTypeOK' /\ \A j \in Slots : slot'[j] = slot[j] \/ slot'[j] = Vacant
    BY <1>1, <1>2, VacateFits DEF BoardInv, BoardTypeOK, SlotsOK
  <2> QED BY <1>1, <2>1, FewerKeeps
<1>3. CASE ~Vacate(k)
  <2>1. PICK u \in Freelancers : slot[k].user = {u}
    BY DEF FindPitch, BoardInv, BoardTypeOK, SlotFits
  <2>2. Onward(k, "pitch") /\ Existing(u, slot[k].project) = {} /\ slot[k].at = "existing"
    BY <1>3, <2>1 DEF FindPitch
  <2>3. /\ slot'[k].at = "pitch" /\ slot'[k].user = {u} /\ slot'[k].project = slot[k].project
        /\ slot'[k] \in SlotType /\ \A j \in Slots \ {k} : slot'[j] = slot[j]
    BY <2>1, <2>2 DEF Onward, BoardInv, BoardTypeOK, SlotType, Places
  <2>4. SlotsOK
    BY <2>2, <2>3 DEF Onward, BoardInv, BoardTypeOK, SlotFits, SlotsOK
  <2>5. \A w : RequestsOf(w)' = RequestsOf(w)
    BY <2>1, <2>3 DEF RequestsOf
  <2>6. \A w, id : /\ OwnedBy(w)' = OwnedBy(w) /\ PitchesBy(w)' = PitchesBy(w)
                   /\ Existing(w, id)' = Existing(w, id)
    BY <1>1 DEF OwnedBy, PitchesBy, Existing
  <2>7. Solo'
    BY <2>5 DEF BoardInv, Solo
  <2>8. \A w : Founding(w)' \subseteq Founding(w) /\ Pitching(w)' \subseteq Pitching(w)
    BY <2>2, <2>3, <2>5 DEF Founding, Pitching, RequestsOf
  <2>9. RoomForProjects' /\ RoomForPitches'
    BY <2>6, <2>8, FoundingKept, PitchingKept DEF RoomForProjects, RoomForPitches
  <2>10. PitchedOnce'
    <3> SUFFICES ASSUME NEW w \in Freelancers, NEW id \in Nat
                 PROVE  Cardinality(Existing(w, id)') + Cardinality(Creating(w, id)') <= Tabs(w)
      BY DEF PitchedOnce
    <3>1. CASE w = u /\ id = slot[k].project
      <4>1. /\ Creating(w, id)' \in SUBSET Slots
            /\ w \in Calm => \A i, j \in Creating(w, id)' : i = j
        BY <2>7 DEF Creating, RequestsOf, Solo
      <4>2. Cardinality(Creating(w, id)') \in Nat /\ Cardinality(Creating(w, id)') <= Tabs(w)
        BY <4>1, AtOnce
      <4>3. Existing(w, id)' = {}
        BY <2>2, <2>6, <3>1
      <4>4. Cardinality(Existing(w, id)') = 0
        BY <4>3, FS_EmptySet
      <4> QED BY <4>2, <4>4
    <3>2. CASE w # u \/ id # slot[k].project
      <4>1. Creating(w, id)' \subseteq Creating(w, id)
        BY <2>1, <2>3, <3>2 DEF Creating, RequestsOf
      <4> QED BY <2>6, <4>1, CreatingKept
    <3> QED BY <3>1, <3>2
  <2> QED BY <1>1, <2>4, <2>7, <2>9, <2>10 DEF BoardInv, BoardTypeOK, SlotsOK
<1> QED BY <1>2, <1>3

LEMMA CreateProjectKeeps ==
  ASSUME BoardInv, NEW k \in Slots, CreateProject(k)
  PROVE  BoardInv'
<1>1. PICK u \in Founders : slot[k].user = {u} /\ slot[k].at = "project"
  BY DEF CreateProject, BoardInv, BoardTypeOK, SlotFits
<1>2. PICK id \in Nat : founded' = id
  BY DEF CreateProject, BoardInv, BoardTypeOK
<1> DEFINE row == [id |-> id, owner |-> u]
<1>3. projects' = projects \cup {row} /\ UNCHANGED <<pitches, pitched>>
  BY <1>1, <1>2 DEF CreateProject
<1>4. /\ SlotsOK /\ slot'[k] = Vacant /\ Vacant.user = {}
      /\ \A j \in Slots \ {k} : slot'[j] = slot[j]
  BY VacateFits DEF CreateProject
<1>5. BoardTypeOK'
  <2>1. row \in ProjectType
    BY DEF ProjectType
  <2>2. IsFiniteSet(projects \cup {row})
    BY FS_AddElement DEF BoardInv, BoardTypeOK
  <2> QED BY <1>2, <1>3, <1>4, <2>1, <2>2 DEF BoardInv, BoardTypeOK, SlotsOK
<1>6. Solo'
  BY <1>4 DEF BoardInv, Solo, RequestsOf
<1>7. \A w, i : /\ PitchesBy(w)' = PitchesBy(w) /\ Existing(w, i)' = Existing(w, i)
                /\ Pitching(w)' \subseteq Pitching(w) /\ Creating(w, i)' \subseteq Creating(w, i)
  BY <1>3, <1>4 DEF PitchesBy, Existing, Pitching, Creating, RequestsOf
<1>8. RoomForPitches' /\ PitchedOnce'
  BY <1>7, PitchingKept, CreatingKept DEF RoomForPitches, PitchedOnce
<1>9. RoomForProjects'
  <2>1. /\ k \in Founding(u) /\ OwnedBy(u)' \subseteq OwnedBy(u) \cup {row}
        /\ Founding(u)' \subseteq Founding(u) \ {k}
    BY <1>1, <1>3, <1>4 DEF OwnedBy, Founding, RequestsOf
  <2>2. \A w : w # u => OwnedBy(w)' = OwnedBy(w) /\ Founding(w)' \subseteq Founding(w)
    BY <1>3, <1>4 DEF OwnedBy, Founding, RequestsOf
  <2> HIDE DEF row
  <2> QED BY <2>1, <2>2, FoundingKept DEF RoomForProjects
<1> QED BY <1>5, <1>6, <1>8, <1>9 DEF BoardInv

LEMMA CreatePitchKeeps ==
  ASSUME BoardInv, NEW k \in Slots, CreatePitch(k)
  PROVE  BoardInv'
<1>1. PICK u \in Freelancers : slot[k].user = {u} /\ slot[k].at = "pitch"
  BY DEF CreatePitch, BoardInv, BoardTypeOK, SlotFits
<1>2. /\ SlotsOK /\ slot'[k] = Vacant /\ Vacant.user = {}
      /\ \A j \in Slots \ {k} : slot'[j] = slot[j]
      /\ UNCHANGED <<projects, founded>>
  BY VacateFits DEF CreatePitch
<1>3. CASE UNCHANGED <<pitches, pitched>>
  <2>1. BoardTypeOK'
    BY <1>2, <1>3 DEF BoardInv, BoardTypeOK, SlotsOK
  <2> QED BY <1>2, <1>3, <2>1, FewerKeeps
<1>4. CASE ~UNCHANGED <<pitches, pitched>>
  <2>1. PICK id \in Nat : pitched' = id
    BY <1>4 DEF CreatePitch, BoardInv, BoardTypeOK
  <2> DEFINE row == [id |-> id, project |-> slot[k].project, by |-> u, status |-> "PENDING"]
  <2>2. pitches' = pitches \cup {row}
    BY <1>1, <1>4, <2>1 DEF CreatePitch
  <2>3. BoardTypeOK'
    <3>1. row \in PitchType
      BY DEF PitchType, BoardInv, BoardTypeOK, SlotType
    <3>2. IsFiniteSet(pitches \cup {row})
      BY FS_AddElement DEF BoardInv, BoardTypeOK
    <3> QED BY <1>2, <2>1, <2>2, <3>1, <3>2 DEF BoardInv, BoardTypeOK, SlotsOK
  <2>4. Solo'
    BY <1>2 DEF BoardInv, Solo, RequestsOf
  <2>5. \A w : OwnedBy(w)' = OwnedBy(w) /\ Founding(w)' \subseteq Founding(w)
    BY <1>2 DEF OwnedBy, Founding, RequestsOf
  <2>6. RoomForProjects'
    BY <2>5, FoundingKept DEF RoomForProjects
  <2>7. RoomForPitches'
    <3>1. /\ k \in Pitching(u) /\ PitchesBy(u)' \subseteq PitchesBy(u) \cup {row}
          /\ Pitching(u)' \subseteq Pitching(u) \ {k}
      BY <1>1, <1>2, <2>2 DEF PitchesBy, Pitching, RequestsOf
    <3>2. \A w : w # u => PitchesBy(w)' = PitchesBy(w) /\ Pitching(w)' \subseteq Pitching(w)
      BY <1>2, <2>2 DEF PitchesBy, Pitching, RequestsOf
    <3> HIDE DEF row
    <3> QED BY <3>1, <3>2, PitchingKept DEF RoomForPitches
  <2>8. PitchedOnce'
    <3>0. PICK i \in Nat : slot[k].project = i
      BY DEF BoardInv, BoardTypeOK, SlotType
    <3>1. /\ k \in Creating(u, i) /\ Existing(u, i)' \subseteq Existing(u, i) \cup {row}
          /\ Creating(u, i)' \subseteq Creating(u, i) \ {k}
      BY <1>1, <1>2, <2>2, <3>0 DEF Existing, PitchesBy, Creating, RequestsOf
    <3>2. \A w, j : w # u \/ j # i =>
            Existing(w, j)' = Existing(w, j) /\ Creating(w, j)' \subseteq Creating(w, j)
      BY <1>2, <2>2, <3>0 DEF Existing, PitchesBy, Creating, RequestsOf
    <3> HIDE DEF row
    <3>3. Cardinality(Existing(u, i)') + Cardinality(Creating(u, i)') <= Tabs(u)
      BY <3>1, CreatingKept
    <3>4. ASSUME NEW w \in Freelancers, NEW j \in Nat, w # u \/ j # i
          PROVE  Cardinality(Existing(w, j)') + Cardinality(Creating(w, j)') <= Tabs(w)
      BY <3>2, <3>4, CreatingKept
    <3> QED BY <3>3, <3>4 DEF PitchedOnce
  <2> QED BY <2>3, <2>4, <2>6, <2>7, <2>8 DEF BoardInv
<1> QED BY <1>3, <1>4

-----------------------------------------------------------------------------
(* Rows go, or change.                                                     *)
LEMMA DeleteProjectKeeps ==
  ASSUME BoardInv, NEW p \in projects, DeleteProject(p)
  PROVE  BoardInv'
<1>1. projects' \subseteq projects /\ pitches' \subseteq pitches /\ UNCHANGED <<slot, founded, pitched>>
  BY DEF DeleteProject
<1>2. BoardTypeOK'
  BY <1>1, Fewer DEF BoardInv, BoardTypeOK
<1> QED BY <1>1, <1>2, FewerKeeps

LEMMA DecidePitchKeeps ==
  ASSUME BoardInv, NEW a \in pitches, NEW status \in {"PENDING", "ACCEPTED", "REJECTED"},
         DecidePitch(a, status)
  PROVE  BoardInv'
<1> DEFINE b == [a EXCEPT !.status = status]
<1>1. pitches' = (pitches \ {a}) \cup {b} /\ UNCHANGED <<projects, slot, founded, pitched>>
  BY DEF DecidePitch
<1>2. a \in PitchType /\ b \in PitchType /\ b.by = a.by /\ b.project = a.project
  BY DEF BoardInv, BoardTypeOK, PitchType
<1> HIDE DEF b
<1>3. BoardTypeOK'
  <2>1. IsFiniteSet((pitches \ {a}) \cup {b})
    BY Swapped DEF BoardInv, BoardTypeOK
  <2> QED BY <1>1, <1>2, <2>1 DEF BoardInv, BoardTypeOK
<1>4. \A u, id : /\ OwnedBy(u)' = OwnedBy(u) /\ RequestsOf(u)' = RequestsOf(u)
                 /\ Founding(u)' = Founding(u) /\ Pitching(u)' = Pitching(u)
                 /\ Creating(u, id)' = Creating(u, id)
  BY <1>1 DEF OwnedBy, RequestsOf, Founding, Pitching, Creating
<1>5. Solo' /\ RoomForProjects'
  BY <1>4 DEF BoardInv, Solo, RoomForProjects
<1>6. \A S, T : S \in SUBSET pitches /\ (T = S \/ (a \in S /\ T = (S \ {a}) \cup {b})) =>
        Cardinality(T) <= Cardinality(S) /\ Cardinality(T) \in Nat /\ Cardinality(S) \in Nat
  <2> SUFFICES ASSUME NEW S \in SUBSET pitches, NEW T, T = S \/ (a \in S /\ T = (S \ {a}) \cup {b})
               PROVE  Cardinality(T) <= Cardinality(S) /\ Cardinality(T) \in Nat
                      /\ Cardinality(S) \in Nat
    OBVIOUS
  <2>1. IsFiniteSet(S) /\ Cardinality(S) \in Nat
    BY Fewer DEF BoardInv, BoardTypeOK
  <2>2. CASE T = S
    BY <2>1, <2>2
  <2>3. CASE a \in S /\ T = (S \ {a}) \cup {b}
    BY <2>1, <2>3, Swapped
  <2> QED BY <2>2, <2>3
<1>7. RoomForPitches'
  <2> SUFFICES ASSUME NEW u \in Freelancers
               PROVE  Cardinality(PitchesBy(u)') + Cardinality(Pitching(u)') < PitchLimit[u] + Tabs(u)
    BY DEF RoomForPitches
  <2>1. PitchesBy(u)' = PitchesBy(u) \/ (a \in PitchesBy(u) /\ PitchesBy(u)' = (PitchesBy(u) \ {a}) \cup {b})
    BY <1>1, <1>2 DEF PitchesBy
  <2>2. PitchesBy(u) \in SUBSET pitches
    BY DEF PitchesBy
  <2>3. /\ Cardinality(PitchesBy(u)') <= Cardinality(PitchesBy(u))
        /\ Cardinality(PitchesBy(u)') \in Nat /\ Cardinality(PitchesBy(u)) \in Nat
    BY <1>6, <2>1, <2>2
  <2>4. Cardinality(Pitching(u)) \in Nat /\ Pitching(u)' = Pitching(u)
    BY <1>4, RowsFinite, FS_CardinalityType
  <2>5. Cardinality(PitchesBy(u)) + Cardinality(Pitching(u)) < PitchLimit[u] + Tabs(u)
    BY DEF BoardInv, RoomForPitches
  <2> QED BY <2>3, <2>4, <2>5, Limits
<1>8. PitchedOnce'
  <2> SUFFICES ASSUME NEW u \in Freelancers, NEW id \in Nat
               PROVE  Cardinality(Existing(u, id)') + Cardinality(Creating(u, id)') <= Tabs(u)
    BY DEF PitchedOnce
  <2> DEFINE S == Existing(u, id)
  <2>1. S' = S \/ (a \in S /\ S' = (S \ {a}) \cup {b})
    BY <1>1, <1>2 DEF PitchesBy, Existing
  <2>2. S \in SUBSET pitches
    BY DEF PitchesBy, Existing
  <2>3. /\ Cardinality(S') <= Cardinality(S) /\ Cardinality(S') \in Nat /\ Cardinality(S) \in Nat
    BY <1>6, <2>1, <2>2
  <2>4. Cardinality(Creating(u, id)) \in Nat /\ Creating(u, id)' = Creating(u, id)
    BY <1>4, RowsFinite, FS_CardinalityType
  <2>5. Cardinality(S) + Cardinality(Creating(u, id)) <= Tabs(u)
    BY DEF BoardInv, PitchedOnce
  <2> QED BY <2>3, <2>4, <2>5, Limits
<1> QED BY <1>3, <1>5, <1>7, <1>8 DEF BoardInv

-----------------------------------------------------------------------------
LEMMA BoardKeeps == BoardInv /\ [ProjectNext]_projectVars => BoardInv'
<1> SUFFICES ASSUME BoardInv, [ProjectNext]_projectVars PROVE BoardInv'
  OBVIOUS
<1>1. CASE UNCHANGED projectVars
  <2>1. UNCHANGED <<projects, pitches, slot, founded, pitched>>
    BY <1>1 DEF projectVars
  <2>2. BoardTypeOK'
    BY <2>1 DEF BoardInv, BoardTypeOK
  <2> QED BY <2>1, <2>2, FewerKeeps
<1>2. CASE ProjectNext
  BY <1>2, CountProjectsKeeps, CountPitchesKeeps, FindPitchKeeps, CreateProjectKeeps, CreatePitchKeeps,
     DeleteProjectKeeps, DecidePitchKeeps DEF ProjectNext
<1> QED BY <1>1, <1>2

(* A freelancer who waits for answers applies to a project once, one who   *)
(* does not at most as often as requests overlap, for any users, plans and *)
(* slots, and whatever the others do meanwhile.                            *)
THEOREM OneApplication == ProjectSpec => []AppliedOnce
  BY BoardStart, BoardKeeps, BoardInvApplied, PTL DEF ProjectSpec

(* Nobody who waits for answers has more projects or applications than the *)
(* plan allows, and nobody exceeds the limit by as many as the requests    *)
(* that overlap.                                                           *)
THEOREM LimitsKept == ProjectSpec => []LimitsHold
  BY BoardStart, BoardKeeps, BoardInvApplied, PTL DEF ProjectSpec

-----------------------------------------------------------------------------
(* Orders of the marketplace.                                              *)

Statuses == {"none", "PENDING", "PAID", "COMPLETED"}
OrderType == [buyer : SUBSET Buyers, service : SUBSET Services, status : Statuses]
Calls == {"none", "create", "session", "store", "returned", "done"}
Sold == {"PAID", "COMPLETED"}
PaidAt == {"paid", "heard"}

MarketTypeOK ==
  /\ order \in [OrderIds -> OrderType] /\ request \in [OrderIds -> Calls]
  /\ checkout \in [OrderIds -> {"none", "open", "paid", "heard"}]
  /\ confirm \subseteq OrderIds /\ ordered \in Nat /\ slips \in Nat

(* An order that is not placed yet, or whose request has not come to       *)
(* Stripe, has no session there.                                           *)
Unasked(n) == n > ordered \/ request[n] \in {"create", "session"}

(* A sale has its payment.  While Stripe still delivers the webhook of a   *)
(* sale, or of one whose completion is under way, an answer was lost.      *)
Sound(n) ==
  /\ n > ordered => request[n] = "none"
  /\ Unasked(n) => checkout[n] = "none"
  /\ order[n].status \in Sold \/ n \in confirm =>
       checkout[n] = "heard" \/ (checkout[n] = "paid" /\ slips > 0)

MarketInv == MarketTypeOK /\ \A n \in OrderIds : Sound(n)

LEMMA MarketStart == MarketInit => MarketInv
  BY MarketplaceAssumption DEF MarketInit, MarketInv, MarketTypeOK, Sound, Unasked, OrderIds, NoOrder,
     OrderType, Statuses, Calls, Sold

(* The steps of a row, one order at a time; the others keep what they have. *)
LEMMA OneOrder ==
  ASSUME MarketInv, MarketTypeOK', NEW n \in OrderIds, Sound(n)',
         \A m \in OrderIds \ {n} :
           /\ order'[m] = order[m] /\ request'[m] = request[m] /\ checkout'[m] = checkout[m]
           /\ m \in confirm' => m \in confirm,
         ordered' = ordered, slips' >= slips
  PROVE  MarketInv'
<1>1. ASSUME NEW m \in OrderIds \ {n} PROVE Sound(m)'
  <2>1. Sound(m)
    BY DEF MarketInv
  <2>2. slips > 0 => slips' > 0
    BY DEF MarketInv, MarketTypeOK
  <2> QED BY <2>1, <2>2 DEF Sound, Unasked
<1> QED BY <1>1 DEF MarketInv

LEMMA FindServiceSound ==
  ASSUME MarketInv, NEW u \in Buyers, NEW s \in Services, FindService(u, s)
  PROVE  MarketInv'
<1>1. PICK n \in OrderIds : n = ordered + 1 /\ ordered' = n
  BY MarketplaceAssumption DEF FindService, OrderIds, MarketInv, MarketTypeOK
<1> DEFINE row == [buyer |-> {u}, service |-> {s}, status |-> "none"]
<1>2. order' = [order EXCEPT ![n] = row] /\ request' = [request EXCEPT ![n] = "create"]
  BY <1>1 DEF FindService, RequestAt
<1>3. UNCHANGED <<checkout, confirm, slips>>
  BY DEF FindService
<1>4. row \in OrderType /\ row.status = "none"
  BY DEF OrderType, Statuses
<1> HIDE DEF row
<1>5. MarketTypeOK'
  BY <1>1, <1>2, <1>3, <1>4 DEF MarketInv, MarketTypeOK, OrderIds, Calls
<1>6. Sound(n) /\ n > ordered
  BY <1>1 DEF MarketInv, MarketTypeOK
<1>7. Sound(n)'
  <2>1. order'[n].status = "none" /\ request'[n] = "create"
    BY <1>2, <1>4 DEF MarketInv, MarketTypeOK
  <2>2. checkout'[n] = "none" /\ n \notin confirm'
    BY <1>3, <1>6 DEF Sound, Unasked
  <2>3. ~(n > ordered')
    BY <1>1 DEF OrderIds
  <2> QED BY <2>1, <2>2, <2>3 DEF Sound, Sold
<1>8. ASSUME NEW m \in OrderIds \ {n} PROVE Sound(m)'
  <2>1. order'[m] = order[m] /\ request'[m] = request[m]
    BY <1>2 DEF MarketInv, MarketTypeOK
  <2>2. m > ordered' => m > ordered
    BY <1>1 DEF OrderIds, MarketInv, MarketTypeOK
  <2>3. Sound(m)
    BY DEF MarketInv
  <2> QED BY <1>3, <2>1, <2>2, <2>3 DEF Sound, Unasked
<1> QED BY <1>5, <1>7, <1>8 DEF MarketInv

LEMMA RequestSound ==
  ASSUME MarketInv, NEW n \in OrderIds,
         CreateOrder(n) \/ OpenSession(n) \/ StoreSession(n) \/ RequestDies(n)
  PROVE  MarketInv'
<1>0. Sound(n) /\ MarketTypeOK
  BY DEF MarketInv
<1>1. CASE CreateOrder(n)
  <2>1. MarketTypeOK'
    BY <1>0, <1>1 DEF CreateOrder, SetOrder, RequestAt, MarketTypeOK, OrderType, Statuses, Calls
  <2>2. Sound(n)'
    BY <1>0, <1>1 DEF CreateOrder, SetOrder, RequestAt, MarketTypeOK, OrderType, Sound, Unasked, Sold
  <2> QED BY <1>0, <1>1, <2>1, <2>2, OneOrder DEF CreateOrder, SetOrder, RequestAt, MarketTypeOK
<1>2. CASE OpenSession(n)
  <2>1. MarketTypeOK'
    BY <1>0, <1>2 DEF OpenSession, RequestAt, MarketTypeOK, Calls
  <2>2. Sound(n)'
    BY <1>0, <1>2 DEF OpenSession, RequestAt, MarketTypeOK, Sound, Unasked
  <2> QED BY <1>0, <1>2, <2>1, <2>2, OneOrder DEF OpenSession, RequestAt, MarketTypeOK
<1>3. CASE StoreSession(n)
  <2>1. MarketTypeOK'
    BY <1>0, <1>3 DEF StoreSession, RequestAt, MarketTypeOK, Calls
  <2>2. Sound(n)'
    BY <1>0, <1>3 DEF StoreSession, RequestAt, MarketTypeOK, Sound, Unasked
  <2> QED BY <1>0, <1>3, <2>1, <2>2, OneOrder DEF StoreSession, RequestAt, MarketTypeOK
<1>4. CASE RequestDies(n)
  <2>1. MarketTypeOK' /\ slips' >= slips /\ (slips > 0 => slips' > 0)
    BY <1>0, <1>4 DEF RequestDies, Slip, RequestAt, MarketTypeOK, Calls
  <2>2. Sound(n)'
    BY <1>0, <1>4, <2>1 DEF RequestDies, RequestAt, MarketTypeOK, Sound, Unasked
  <2> QED BY <1>0, <1>4, <2>1, <2>2, OneOrder DEF RequestDies, RequestAt, MarketTypeOK
<1> QED BY <1>1, <1>2, <1>3, <1>4

LEMMA PaymentSound ==
  ASSUME MarketInv, NEW n \in OrderIds,
         Pay(n) \/ OrderPaid(n) \/ WebhookFails(n) \/ CompleteOrder(n) \/ WriteCompleted(n)
  PROVE  MarketInv'
<1>0. Sound(n) /\ MarketTypeOK
  BY DEF MarketInv
<1>1. CASE Pay(n)
  <2>1. MarketTypeOK'
    BY <1>0, <1>1 DEF Pay, MarketTypeOK
  <2>2. Sound(n)'
    BY <1>0, <1>1 DEF Pay, MarketTypeOK, Sound, Unasked
  <2> QED BY <1>0, <1>1, <2>1, <2>2, OneOrder DEF Pay, MarketTypeOK
<1>2. CASE OrderPaid(n)
  <2>1. slips' >= slips /\ slips' \in Nat /\ (checkout'[n] = "heard" \/ (checkout'[n] = "paid" /\ slips' > 0))
    BY <1>0, <1>2 DEF OrderPaid, Slip, MarketTypeOK
  <2>2. MarketTypeOK'
    BY <1>0, <1>2, <2>1 DEF OrderPaid, SetOrder, MarketTypeOK, OrderType, Statuses
  <2>3. Sound(n)'
    BY <1>0, <1>2, <2>1 DEF OrderPaid, Sound, Unasked
  <2> QED BY <1>0, <1>2, <2>1, <2>2, <2>3, OneOrder DEF OrderPaid, SetOrder, MarketTypeOK
<1>3. CASE WebhookFails(n)
  <2>1. MarketTypeOK' /\ slips' >= slips /\ (slips > 0 => slips' > 0)
    BY <1>0, <1>3 DEF WebhookFails, DeliverAgain, Slip, MarketTypeOK
  <2>2. Sound(n)'
    BY <1>0, <1>3, <2>1 DEF WebhookFails, DeliverAgain, Sound, Unasked
  <2> QED BY <1>0, <1>3, <2>1, <2>2, OneOrder DEF WebhookFails, DeliverAgain
<1>4. CASE CompleteOrder(n)
  <2>1. order[n].status = "PAID"
    BY <1>0, <1>4 DEF CompleteOrder, Completable, MarketTypeOK, OrderType, Statuses
  <2>2. MarketTypeOK' /\ Sound(n)'
    BY <1>0, <1>4, <2>1 DEF CompleteOrder, MarketTypeOK, Sound, Unasked, Sold
  <2>3. ordered' = ordered /\ slips' >= slips
    BY <1>0, <1>4 DEF CompleteOrder, MarketTypeOK
  <2>4. UNCHANGED <<order, request, checkout>> /\ confirm' = confirm \cup {n}
    BY <1>4 DEF CompleteOrder
  <2>5. \A m \in OrderIds \ {n} :
          /\ order'[m] = order[m] /\ request'[m] = request[m] /\ checkout'[m] = checkout[m]
          /\ m \in confirm' => m \in confirm
    BY <2>4
  <2> QED BY <2>2, <2>3, <2>5, OneOrder
<1>5. CASE WriteCompleted(n)
  <2>1. MarketTypeOK'
    BY <1>0, <1>5 DEF WriteCompleted, SetOrder, MarketTypeOK, OrderType, Statuses
  <2>2. Sound(n)'
    BY <1>0, <1>5 DEF WriteCompleted, Sound, Unasked
  <2>3. ordered' = ordered /\ slips' >= slips
    BY <1>0, <1>5 DEF WriteCompleted, MarketTypeOK
  <2> QED BY <1>0, <1>5, <2>1, <2>2, <2>3, OneOrder DEF WriteCompleted, SetOrder, MarketTypeOK
<1> QED BY <1>1, <1>2, <1>3, <1>4, <1>5

LEMMA MarketKeeps == MarketInv /\ [MarketNext]_marketVars => MarketInv'
<1> SUFFICES ASSUME MarketInv, [MarketNext]_marketVars PROVE MarketInv'
  OBVIOUS
<1>1. CASE UNCHANGED marketVars \/ \E s \in Services, status \in {"ACTIVE", "PAUSED", "DELETED"} :
             UpdateService(s, status)
  BY <1>1 DEF marketVars, UpdateService, MarketInv, MarketTypeOK, Sound, Unasked
<1> QED BY <1>1, FindServiceSound, RequestSound, PaymentSound DEF MarketNext

-----------------------------------------------------------------------------
Kept(n) ==
  /\ order[n].status = "COMPLETED" =>
       order'[n].status = "COMPLETED" \/ (checkout[n] = "paid" /\ slips > 0)
  /\ order'[n].status \in {"PAID", "COMPLETED"} => checkout'[n] \in {"paid", "heard"}

LEMMA StepKeeps ==
  ASSUME MarketInv, MarketInv', [MarketNext]_marketVars, NEW n \in OrderIds
  PROVE  Kept(n)
<1>1. Sound(n) /\ Sound(n)' /\ MarketTypeOK
  BY DEF MarketInv
<1>2. order'[n].status \in {"PAID", "COMPLETED"} => checkout'[n] \in {"paid", "heard"}
  BY <1>1 DEF Sound, Sold
<1>3. ASSUME order[n].status = "COMPLETED", order'[n].status # "COMPLETED"
      PROVE  checkout[n] = "paid" /\ slips > 0
  <2>1. checkout[n] # "none" /\ (checkout[n] = "heard" \/ (checkout[n] = "paid" /\ slips > 0))
    BY <1>1, <1>3 DEF Sound, Sold
  <2>2. \/ OrderPaid(n) \/ CreateOrder(n) \/ WriteCompleted(n)
        \/ \E s \in Services, u \in Buyers : FindService(u, s) /\ ordered' = n
    <3>1. CASE \E m \in OrderIds : OrderPaid(m) \/ CreateOrder(m) \/ WriteCompleted(m)
      BY <1>1, <1>3, <3>1 DEF OrderPaid, CreateOrder, WriteCompleted, SetOrder, MarketTypeOK
    <3>2. CASE \E s \in Services, u \in Buyers : FindService(u, s)
      BY <1>1, <1>3, <3>2 DEF FindService, MarketTypeOK
    <3>3. CASE order' = order
      BY <1>3, <3>3
    <3> QED BY <3>1, <3>2, <3>3 DEF MarketNext, marketVars, UpdateService, OpenSession, StoreSession,
               RequestDies, Pay, WebhookFails, CompleteOrder
  <2>3. CASE OrderPaid(n)
    BY <2>1, <2>3 DEF OrderPaid
  <2>4. CASE CreateOrder(n)
    BY <1>1, <2>1, <2>4 DEF CreateOrder, Sound, Unasked
  <2>5. CASE WriteCompleted(n)
    BY <1>1, <1>3, <2>5 DEF WriteCompleted, SetOrder, MarketTypeOK, OrderType
  <2>6. CASE \E s \in Services, u \in Buyers : FindService(u, s) /\ ordered' = n
    <3>1. n > ordered
      BY <1>1, <2>6 DEF FindService, MarketTypeOK
    <3> QED BY <1>1, <2>1, <3>1 DEF Sound, Unasked
  <2> QED BY <2>2, <2>3, <2>4, <2>5, <2>6
<1> QED BY <1>2, <1>3 DEF Kept

(* A completed order stays completed, but for a webhook delivered again    *)
(* after a lost answer, and no order becomes a sale without its payment,   *)
(* for any services, users, number of orders and failures.                 *)
THEOREM SalesArePaid == MarketSpec => CompletedStays
<1>1. MarketInv /\ MarketInv' /\ [MarketNext]_marketVars => \A n \in OrderIds : Kept(n)
  BY StepKeeps
<1>2. MarketSpec => [][\A n \in OrderIds : Kept(n)]_marketVars
  BY <1>1, MarketStart, MarketKeeps, PTL DEF MarketSpec
<1>3. (\A n \in OrderIds : Kept(n)) <=>
        \A n \in OrderIds :
          /\ order[n].status = "COMPLETED" =>
               order'[n].status = "COMPLETED" \/ (checkout[n] = "paid" /\ slips > 0)
          /\ order'[n].status \in {"PAID", "COMPLETED"} => checkout'[n] \in {"paid", "heard"}
  BY DEF Kept
<1> QED BY <1>2, <1>3, PTL DEF CompletedStays

-----------------------------------------------------------------------------
(* MCWork.  A step of one part leaves the others as they are: side by side *)
(* they behave as each does alone, and what is proved of one module is so  *)
(* of the run that puts it beside the others.                              *)

LEMMA PartsStart ==
  WorkInit => Init /\ InternshipInit /\ ReferralInit /\ ProjectInit /\ JobsInit /\ StreakInit
  BY DEF WorkInit

LEMMA PartsMove ==
  [WorkNext]_workVars =>
    /\ [Next]_vars
    /\ [InternshipNext]_internshipVars
    /\ [ReferralNext]_referralVars
    /\ [ProjectNext]_projectVars
    /\ [JobsNext]_jobVars
    /\ [StreakNext]_streakVars
<1>1. CASE WorkNext
  BY <1>1 DEF WorkNext
<1>2. CASE UNCHANGED workVars
  BY <1>2 DEF workVars
<1> QED BY <1>1, <1>2

(* Every behaviour of the parts put side by side is, seen from one part, a *)
(* behaviour of its module.                                                *)
THEOREM PartsAreModules ==
  WorkSpec => Spec /\ InternshipSpec /\ ReferralSpec /\ ProjectSpec /\ JobsSpec /\ StreakSpec
  BY PartsStart, PartsMove, PTL
     DEF WorkSpec, Spec, InternshipSpec, ReferralSpec, ProjectSpec, JobsSpec, StreakSpec

(* Connections, internship applications and referrals keep the shape and   *)
(* the keys of the schema, whatever runs beside them.                      *)
THEOREM WorkTypeCorrect == WorkSpec => []WorkTypeOK
<1>1. TypeOK /\ InternshipsTypeOK /\ ReferralsTypeOK => WorkTypeOK
  BY DEF WorkTypeOK
<1> QED BY <1>1, PartsAreModules, TypeCorrect, InternshipsTypeCorrect, ReferralsTypeCorrect, PTL
=============================================================================
