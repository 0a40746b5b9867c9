----------------------- MODULE InternshipApplications -----------------------
(***************************************************************************)
(* Internship offers, applications to them and the CVs on the two disks:   *)
(* internships/internships.service.ts, uploads/uploads.controller.ts and   *)
(* the cascades of admin.service.ts, deleteUser.                           *)
(*                                                                         *)
(* A request runs in a slot d \in Desks and awaits one database or file    *)
(* system call after the other; desk[d] is what it holds between two       *)
(* calls.  It may die there.  The name of a private CV holds the offer,    *)
(* the applicant and the time in milliseconds; no two copies of one        *)
(* applicant for one offer are made in the same millisecond.               *)
(***************************************************************************)
EXTENDS Naturals

CONSTANTS
  Offers,      \* offers
  Accounts,    \* users
  Author,      \* Author[o]: the user who publishes offer o
  Uploads,     \* files that are uploaded
  Owner,       \* Owner[f]: the user who uploads f
  Desks,       \* handler slots
  Dismissed,   \* users whom the administrator may delete
  MaxCopies,   \* bound: private copies made
  MaxFaults    \* bound: requests that die half way, disk and database errors

ASSUME InternshipAssumption ==
  /\ Author \in [Offers -> Accounts] /\ Owner \in [Uploads -> Accounts]
  /\ Dismissed \subseteq Accounts
  /\ MaxCopies \in Nat /\ MaxFaults \in Nat

VARIABLES
  offers,        \* offers[o]: status of the row, "none" before and "gone" after
  accounts,      \* users that exist
  applications,  \* rows of InternshipApplication
  privateCvs,    \* files in CV_DIR
  publicFiles,   \* uploads in PUBLIC_UPLOADS_DIR
  path,          \* path[f]: what the File row of upload f points to
  desk,          \* desk[d]: the request running in slot d
  copies,        \* private copies made so far, which date them
  faults         \* such errors so far

internshipVars ==
  <<offers, accounts, applications, privateCvs, publicFiles, path, desk, copies, faults>>
rows == <<offers, accounts, applications>>
files == <<privateCvs, publicFiles, path>>

(* The mutant leaves the time out of the name.                             *)
Undated(o, u, n) == [offer |-> o, user |-> u, at |-> 0]
Cv(o, u, n) == [offer |-> o, user |-> u, at |-> n]
NoFile == [kind |-> "none"]
Public == [kind |-> "public"]
Forgotten == [kind |-> "gone"]

(* file.update writes the path of the private copy c.                      *)
Private(c) == [kind |-> "private", cv |-> c]

Free == [at |-> "free"]
Applying(o, u, f) == [at |-> "existing", offer |-> o, user |-> u, upload |-> f]
Copied(r, c) == [at |-> "create", offer |-> r.offer, user |-> r.user, upload |-> r.upload, cv |-> c]
Dropping(cvs) == [at |-> "drop", unlink |-> cvs, forget |-> {}]

InternshipInit ==
  /\ offers = [o \in Offers |-> "none"] /\ accounts = Accounts /\ applications = {}
  /\ privateCvs = {} /\ publicFiles = {} /\ path = [f \in Uploads |-> NoFile]
  /\ desk = [d \in Desks |-> Free] /\ copies = 0 /\ faults = 0

IsFree(d) == desk[d] = Free
Hold(d, r) == desk' = [desk EXCEPT ![d] = r]
Await(d, at) == Hold(d, [desk[d] EXCEPT !.at = at])
Leave(d) == Hold(d, Free)

(* An error; where the code catches it, the request goes on.               *)
Fault == faults < MaxFaults /\ faults' = faults + 1

-----------------------------------------------------------------------------
(* Offers and uploads                                                      *)

PublishOffer(o) ==
  /\ offers[o] = "none" /\ Author[o] \in accounts
  /\ offers' = [offers EXCEPT ![o] = "PUBLISHED"]
  /\ UNCHANGED <<accounts, applications, files, desk, copies, faults>>

(* update: the author never changes, so only the write matters.            *)
UpdateOffer(o, status) ==
  /\ offers[o] \in {"PUBLISHED", "CLOSED"} /\ status # offers[o]
  /\ offers' = [offers EXCEPT ![o] = status]
  /\ UNCHANGED <<accounts, applications, files, desk, copies, faults>>

(* multer writes the file, then its row is saved.                          *)
Upload(f) ==
  /\ path[f] = NoFile /\ Owner[f] \in accounts
  /\ publicFiles' = publicFiles \cup {f}
  /\ path' = [path EXCEPT ![f] = Public]
  /\ UNCHANGED <<rows, privateCvs, desk, copies, faults>>

-----------------------------------------------------------------------------
(* apply                                                                   *)

Of(o, u) == {a \in applications : a.offer = o /\ a.user = u}

Apply(d, o, u, f) ==
  /\ IsFree(d) /\ u \in accounts /\ u # Author[o] /\ offers[o] = "PUBLISHED"
  /\ Hold(d, Applying(o, u, f))
  /\ UNCHANGED <<rows, files, copies, faults>>

FindExisting(d) ==
  /\ desk[d].at = "existing"
  /\ IF Of(desk[d].offer, desk[d].user) = {} THEN Await(d, "file") ELSE Leave(d)
  /\ UNCHANGED <<rows, files, copies, faults>>

(* The File row of the applicant, and the signature of what it points to.  *)
FindFile(d) ==
  LET f == desk[d].upload IN
  /\ desk[d].at = "file"
  /\ IF path[f] = Public /\ Owner[f] = desk[d].user /\ f \in publicFiles
     THEN Await(d, "copy") ELSE Leave(d)
  /\ UNCHANGED <<rows, files, copies, faults>>

(* copyFile throws when another request has unlinked the public copy.      *)
CopyCv(d) ==
  LET c == Cv(desk[d].offer, desk[d].user, copies + 1) IN
  /\ desk[d].at = "copy" /\ copies < MaxCopies
  /\ IF desk[d].upload \in publicFiles
     THEN /\ copies' = copies + 1
          /\ privateCvs' = privateCvs \cup {c}
          /\ Hold(d, Copied(desk[d], c))
     ELSE Leave(d) /\ UNCHANGED <<copies, privateCvs>>
  /\ UNCHANGED <<rows, publicFiles, path, faults>>

Possible(o, u) == offers[o] # "gone" /\ u \in accounts /\ Of(o, u) = {}

(* (offerId, applicantId) is unique, and both must exist; else the copy is *)
(* removed.  The mutant throws without it.                                 *)
ThrowAtOnce(d) == Leave(d)
CatchCreate(d) == Await(d, "undo")

CreateApplication(d) ==
  LET o == desk[d].offer
      u == desk[d].user
  IN
  /\ desk[d].at = "create"
  /\ IF Possible(o, u)
     THEN /\ applications' = applications \cup {[offer |-> o, user |-> u, cv |-> desk[d].cv]}
          /\ Await(d, "unlink")
     ELSE CatchCreate(d) /\ UNCHANGED applications
  /\ UNCHANGED <<offers, accounts, files, copies, faults>>

(* The database fails: no row, and the same clause.                        *)
CreateFails(d) ==
  /\ desk[d].at = "create" /\ Fault
  /\ CatchCreate(d)
  /\ UNCHANGED <<rows, files, copies>>

UndoCopy(d) ==
  /\ desk[d].at = "undo"
  /\ privateCvs' = privateCvs \ {desk[d].cv}
  /\ Leave(d)
  /\ UNCHANGED <<rows, publicFiles, path, copies, faults>>

UnlinkUpload(d) ==
  /\ desk[d].at = "unlink"
  /\ \/ publicFiles' = publicFiles \ {desk[d].upload} /\ UNCHANGED faults
     \/ Fault /\ UNCHANGED publicFiles
  /\ Await(d, "path")
  /\ UNCHANGED <<rows, privateCvs, path, copies>>

(* file.update, which throws when the row is gone.                         *)
MovePath(d) ==
  LET f == desk[d].upload IN
  /\ desk[d].at = "path"
  /\ path' = IF path[f] = Forgotten THEN path ELSE [path EXCEPT ![f] = Private(desk[d].cv)]
  /\ Leave(d)
  /\ UNCHANGED <<rows, privateCvs, publicFiles, copies, faults>>

-----------------------------------------------------------------------------
(* withdraw and remove                                                     *)

Withdraw(d, a) ==
  /\ IsFree(d) /\ a \in applications
  /\ Hold(d, [at |-> "withdraw", application |-> a])
  /\ UNCHANGED <<rows, files, copies, faults>>

(* delete by id, which throws when the row is gone; then deleteCvFile.     *)
DeleteApplication(d) ==
  LET a == desk[d].application IN
  /\ desk[d].at = "withdraw"
  /\ applications' = applications \ {a}
  /\ IF a \in applications THEN Hold(d, Dropping({a.cv})) ELSE Leave(d)
  /\ UNCHANGED <<offers, accounts, files, copies, faults>>

CvsOf(o) == {a.cv : a \in {b \in applications : b.offer = o}}

RemoveOffer(d, o) ==
  /\ IsFree(d) /\ offers[o] \in {"PUBLISHED", "CLOSED"}
  /\ Hold(d, [at |-> "remove", offer |-> o, cvs |-> CvsOf(o)])
  /\ UNCHANGED <<rows, files, copies, faults>>

WithoutOffers(gone, users) ==
  /\ offers' = [o \in Offers |-> IF o \in gone /\ offers[o] # "none" THEN "gone" ELSE offers[o]]
  /\ applications' = {a \in applications : a.offer \notin gone /\ a.user \in users}

(* The applications go with their offer (ON DELETE CASCADE).               *)
DeleteOffer(d) ==
  /\ desk[d].at = "remove"
  /\ IF offers[desk[d].offer] = "gone" THEN Leave(d) ELSE Hold(d, Dropping(desk[d].cvs))
  /\ WithoutOffers({desk[d].offer}, accounts)
  /\ UNCHANGED <<accounts, files, copies, faults>>

(* deleteCvFile of all CVs at once: a file, then the File row of its path. *)
UnlinkCv(d) ==
  /\ desk[d].at = "drop"
  /\ \E c \in desk[d].unlink :
       /\ \/ privateCvs' = privateCvs \ {c} /\ UNCHANGED faults
          \/ Fault /\ UNCHANGED privateCvs
       /\ Hold(d, [desk[d] EXCEPT !.unlink = @ \ {c}, !.forget = @ \cup {c}])
  /\ UNCHANGED <<rows, publicFiles, path, copies>>

ForgetFile(d) ==
  /\ desk[d].at = "drop"
  /\ \E c \in desk[d].forget :
       /\ path' = [f \in Uploads |-> IF path[f] = Private(c) THEN Forgotten ELSE path[f]]
       /\ Hold(d, [desk[d] EXCEPT !.forget = @ \ {c}])
  /\ UNCHANGED <<rows, privateCvs, publicFiles, copies, faults>>

Dropped(d) ==
  /\ desk[d] = Dropping({})
  /\ Leave(d)
  /\ UNCHANGED <<rows, files, copies, faults>>

(* admin.deleteUser: offers, applications and File rows go, no file does.  *)
DismissUser(u) ==
  /\ u \in accounts \cap Dismissed
  /\ accounts' = accounts \ {u}
  /\ WithoutOffers({o \in Offers : Author[o] = u}, accounts \ {u})
  /\ path' = [f \in Uploads |-> IF Owner[f] = u THEN Forgotten ELSE path[f]]
  /\ UNCHANGED <<privateCvs, publicFiles, desk, copies, faults>>

Die(d) ==
  /\ ~IsFree(d) /\ Fault
  /\ Leave(d)
  /\ UNCHANGED <<rows, files, copies>>

DeskStep(d) ==
  \/ FindExisting(d) \/ FindFile(d) \/ CopyCv(d) \/ CreateApplication(d) \/ CreateFails(d)
  \/ UndoCopy(d) \/ UnlinkUpload(d) \/ MovePath(d)
  \/ DeleteApplication(d) \/ DeleteOffer(d) \/ UnlinkCv(d) \/ ForgetFile(d) \/ Dropped(d)
  \/ Die(d)

InternshipNext ==
  \/ \E o \in Offers : PublishOffer(o) \/ \E s \in {"PUBLISHED", "CLOSED"} : UpdateOffer(o, s)
  \/ \E f \in Uploads : Upload(f)
  \/ \E d \in Desks, o \in Offers :
       RemoveOffer(d, o) \/ \E u \in Accounts, f \in Uploads : Apply(d, o, u, f)
  \/ \E d \in Desks : DeskStep(d) \/ \E a \in applications : Withdraw(d, a)
  \/ \E u \in Accounts : DismissUser(u)

InternshipSpec == InternshipInit /\ [][InternshipNext]_internshipVars

-----------------------------------------------------------------------------
CvType == [offer : Offers, user : Accounts, at : Nat]

(* Offers, applications, File rows and the two disks hold what the schema  *)
(* and the service write.                                                  *)
InternshipsTypeOK ==
  /\ offers \in [Offers -> {"none", "PUBLISHED", "CLOSED", "gone"}]
  /\ accounts \subseteq Accounts
  /\ applications \subseteq [offer : Offers, user : Accounts, cv : CvType]
  /\ privateCvs \subseteq CvType /\ publicFiles \subseteq Uploads
  /\ path \in [Uploads -> {NoFile, Public, Forgotten} \cup [kind : {"private"}, cv : CvType]]
  /\ copies \in Nat /\ faults \in Nat

(* For any interleaving, and wherever requests die: the CV of an           *)
(* application that the offer's author can list is there to be opened      *)
(* (getCv).                                                                *)
RowHasCv == \A a \in applications : a.cv \in privateCvs

Carries(r, c) ==
  \/ r.at \in {"create", "undo"} /\ r.cv = c
  \/ r.at = "drop" /\ c \in r.unlink

(* "Retrait par le candidat : supprime la candidature et son CV privé": as *)
(* long as offer and candidate exist and nothing failed, a private CV      *)
(* belongs to an application or to a request that is about to decide.      *)
CvGoesWithApplication ==
  faults = 0 =>
    \A c \in privateCvs : offers[c.offer] # "gone" /\ c.user \in accounts =>
      (\E a \in applications : a.cv = c) \/ (\E d \in Desks : Carries(desk[d], c))
=============================================================================
