----------------------------- MODULE Referrals -----------------------------
(***************************************************************************)
(* Referral codes and the members they brought: referral.service.ts.  The  *)
(* number of referrals of a code is kept beside the rows.  A request runs  *)
(* in a slot and awaits one database call after the other.                 *)
(***************************************************************************)
EXTENDS Naturals, FiniteSets

CONSTANTS
  Persons,     \* users
  Clerks,      \* handler slots
  MaxStumbles  \* bound: requests that die half way

ASSUME ReferralAssumption == IsFiniteSet(Persons) /\ MaxStumbles \in Nat

VARIABLES
  persons,    \* users that exist
  codes,      \* users that have a ReferralCode row
  total,      \* total[u]: totalReferrals of the code of u
  referrals,  \* rows of Referral: [code, referred], code being its owner
  clerk,      \* clerk[k]: the request running in slot k
  stumbles    \* requests that died so far

referralVars == <<persons, codes, total, referrals, clerk, stumbles>>

NoTask == [at |-> "none"]
Task(at, owner, user, count) == [at |-> at, owner |-> owner, user |-> user, count |-> count]

ReferralInit ==
  /\ persons = Persons /\ codes = {} /\ referrals = {}
  /\ total = [u \in Persons |-> 0]
  /\ clerk = [k \in Clerks |-> NoTask] /\ stumbles = 0

Take(k, task) == clerk' = [clerk EXCEPT ![k] = task]
Finish(k) == Take(k, NoTask)

ReferredTo(c) == {r \in referrals : r.code = c}
Referred(u) == {r \in referrals : r.referred = u}

(* getOrCreateCode: the row is looked for, then created.                   *)
AskCode(k, u) ==
  /\ clerk[k] = NoTask /\ u \in persons \ codes
  /\ Take(k, Task("code", u, u, 0))
  /\ UNCHANGED <<persons, codes, total, referrals, stumbles>>

(* userId is unique: the second of two requests throws.                    *)
CreateCode(k) ==
  LET u == clerk[k].owner IN
  /\ clerk[k].at = "code"
  /\ codes' = IF u \in persons THEN codes \cup {u} ELSE codes
  /\ Finish(k)
  /\ UNCHANGED <<persons, total, referrals, stumbles>>

(* registerReferral: the code is read with its total.                      *)
RegisterReferral(k, c, u) ==
  /\ clerk[k] = NoTask /\ u \in persons /\ c \in codes /\ c # u
  /\ Take(k, Task("referred", c, u, total[c]))
  /\ UNCHANGED <<persons, codes, total, referrals, stumbles>>

CheckReferred(k) ==
  /\ clerk[k].at = "referred"
  /\ IF Referred(clerk[k].user) = {} THEN Take(k, [clerk[k] EXCEPT !.at = "write"]) ELSE Finish(k)
  /\ UNCHANGED <<persons, codes, total, referrals, stumbles>>

(* Mutant: the total that was read is written back, plus one.              *)
FromRead(k) == clerk[k].count + 1

Incremented(k) == total[clerk[k].owner] + 1

(* $transaction: the row, whose referredUserId is unique, and the total.   *)
WriteReferral(k) ==
  LET c == clerk[k].owner
      u == clerk[k].user
  IN
  /\ clerk[k].at = "write"
  /\ IF u \in persons /\ Referred(u) = {}
     THEN /\ referrals' = referrals \cup {[code |-> c, referred |-> u]}
          /\ total' = [total EXCEPT ![c] = Incremented(k)]
     ELSE UNCHANGED <<referrals, total>>
  /\ Finish(k)
  /\ UNCHANGED <<persons, codes, stumbles>>

(* Mutant: the rows of a deleted user go with the user.                    *)
MayDelete(u) == TRUE

(* The foreign keys have no cascade: the database refuses to delete a user *)
(* who has a code or a referral.                                           *)
Unreferenced(u) == u \notin codes /\ Referred(u) = {}

DeletePerson(u) ==
  /\ u \in persons /\ Unreferenced(u)
  /\ persons' = persons \ {u}
  /\ codes' = codes \ {u}
  /\ referrals' = referrals \ Referred(u)
  /\ UNCHANGED <<total, clerk, stumbles>>

Stumble(k) ==
  /\ clerk[k] # NoTask /\ stumbles < MaxStumbles
  /\ stumbles' = stumbles + 1
  /\ Finish(k)
  /\ UNCHANGED <<persons, codes, total, referrals>>

ReferralNext ==
  \/ \E k \in Clerks :
       \/ CreateCode(k) \/ CheckReferred(k) \/ WriteReferral(k) \/ Stumble(k)
       \/ \E u \in Persons : AskCode(k, u) \/ \E c \in Persons : RegisterReferral(k, c, u)
  \/ \E u \in Persons : DeletePerson(u)

ReferralSpec == ReferralInit /\ [][ReferralNext]_referralVars

-----------------------------------------------------------------------------
(* Codes and referrals have the shape and the keys of the schema.          *)
ReferralsTypeOK ==
  /\ persons \subseteq Persons /\ codes \subseteq persons
  /\ total \in [Persons -> Nat]
  /\ referrals \subseteq [code : codes, referred : persons]
  /\ clerk \in [Clerks -> {NoTask} \cup
                  [at : {"code", "referred", "write"}, owner : Persons, user : Persons, count : Nat]]
  /\ stumbles \in Nat

(* For any interleaving and any death: the total shown to a member, and by *)
(* which the leaderboard ranks, is the number of members they brought, and *)
(* nobody was brought by two.                                              *)
TotalIsRows ==
  /\ \A c \in Persons : total[c] = Cardinality(ReferredTo(c))
  /\ \A r, s \in referrals : r.referred = s.referred => r = s
=============================================================================
