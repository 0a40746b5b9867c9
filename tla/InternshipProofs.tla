-------------------------- MODULE InternshipProofs --------------------------
(***************************************************************************)
(* Proofs about InternshipApplications, for any offers, users, uploads,    *)
(* slots and faults: the CV of an application is always there, and a       *)
(* private CV goes with its application.                                   *)
(*                                                                         *)
(* A request removes a private CV in two places: when the row could not be *)
(* created (undo), and after the row is gone (drop).  The invariant says   *)
(* that neither can be the CV of an application: the name of a copy is     *)
(* dated, so a copy belongs to one request until its row is there and to   *)
(* one row afterwards, and what a request took from the rows stays apart   *)
(* from every later copy.                                                  *)
(***************************************************************************)
EXTENDS InternshipApplications, TLAPS

RowType == [offer : Offers, user : Accounts, cv : CvType]

DeskType ==
  {Free}
  \cup [at : {"existing", "file", "copy"}, offer : Offers, user : Accounts, upload : Uploads]
  \cup [at : {"create", "undo", "unlink", "path"}, offer : Offers, user : Accounts,
        upload : Uploads, cv : CvType]
  \cup [at : {"withdraw"}, application : RowType]
  \cup [at : {"remove"}, offer : Offers, cvs : SUBSET CvType]
  \cup [at : {"drop"}, unlink : SUBSET CvType, forget : SUBSET CvType]

(* A request with record r holds copy c, which is in no row yet; or it     *)
(* took c from a row, to remove it once the row is gone.                   *)
Holds(r, c) == r.at \in {"create", "undo"} /\ c = r.cv
Took(r, c) ==
  \/ r.at = "withdraw" /\ c = r.application.cv
  \/ r.at = "remove" /\ c \in r.cvs
  \/ r.at = "drop" /\ c \in r.unlink

(* What a request with record r may hold and take, while there are n       *)
(* copies, these rows, and these private CVs.                              *)
InOrder(r, n, apps, cvs) ==
  /\ \A c \in CvType : Holds(r, c) \/ Took(r, c) => c.at <= n
  /\ \A c \in CvType : Holds(r, c) => c \in cvs /\ (\A a \in apps : a.cv # c)
  /\ r.at \in {"create", "undo"} => r.cv.offer = r.offer
  /\ r.at = "remove" => \A c \in r.cvs : c.offer = r.offer
  /\ r.at = "withdraw" => \A a \in apps : a.cv = r.application.cv => a = r.application
  /\ r.at = "drop" => \A c \in r.unlink, a \in apps : a.cv # c

(* Two requests never hold the same copy, nor does one hold what another   *)
(* took.                                                                   *)
Apart == \A d, e \in Desks : d # e =>
           \A c \in CvType : Holds(desk[d], c) => ~Holds(desk[e], c) /\ ~Took(desk[e], c)

Rows ==
  /\ applications \subseteq RowType /\ privateCvs \subseteq CvType /\ copies \in Nat
  /\ \A a \in applications : a.cv \in privateCvs /\ a.cv.offer = a.offer /\ a.cv.at <= copies
  /\ \A a, b \in applications : a.cv = b.cv => a = b

DesksOK ==
  /\ desk \in [Desks -> DeskType]
  /\ \A d \in Desks : InOrder(desk[d], copies, applications, privateCvs)

CvInv == Rows /\ DesksOK /\ Apart

LEMMA CvInitInv == InternshipInit => CvInv
  BY DEF InternshipInit, CvInv, Rows, DesksOK, Apart, InOrder, Holds, Took, Free, DeskType

LEMMA CvStutter ==
  ASSUME CvInv, UNCHANGED <<applications, privateCvs, desk, copies>>
  PROVE  CvInv'
  BY DEF CvInv, Rows, DesksOK, Apart

-----------------------------------------------------------------------------
(* A request goes on with record r, and the others stay in order.          *)
LEMMA HoldKeeps ==
  ASSUME CvInv, NEW d \in Desks, NEW r \in DeskType, Hold(d, r),
         Rows',
         InOrder(r, copies', applications', privateCvs'),
         \A e \in Desks \ {d} : InOrder(desk[e], copies', applications', privateCvs'),
         \A e \in Desks \ {d}, c \in CvType :
           /\ Holds(r, c) => ~Holds(desk[e], c) /\ ~Took(desk[e], c)
           /\ Holds(desk[e], c) => ~Took(r, c)
  PROVE  CvInv'
<1>1. desk' \in [Desks -> DeskType] /\ desk'[d] = r /\ \A e \in Desks \ {d} : desk'[e] = desk[e]
  BY DEF Hold, CvInv, DesksOK
<1>2. DesksOK'
  BY <1>1 DEF DesksOK
<1>3. Apart'
  <2> SUFFICES ASSUME NEW e \in Desks, NEW f \in Desks, e # f, NEW c \in CvType, Holds(desk'[e], c)
               PROVE  ~Holds(desk'[f], c) /\ ~Took(desk'[f], c)
    BY DEF Apart
  <2>1. CASE e = d
    BY <1>1, <2>1
  <2>2. CASE f = d
    BY <1>1, <2>2
  <2>3. CASE e # d /\ f # d
    BY <1>1, <2>3 DEF CvInv, Apart
  <2> QED BY <2>1, <2>2, <2>3
<1> QED BY <1>2, <1>3 DEF CvInv

(* A request goes on without a copy in hand and with nothing taken that it *)
(* had not taken before; rows and files stay.                              *)
LEMMA GoesOn ==
  ASSUME CvInv, NEW d \in Desks, NEW r \in DeskType, Hold(d, r),
         \A c \in CvType : ~Holds(r, c) /\ (Took(r, c) => Took(desk[d], c)),
         r.at \notin {"create", "undo", "withdraw", "remove"},
         r.at = "drop" => desk[d].at = "drop",
         UNCHANGED <<applications, privateCvs, copies>>
  PROVE  CvInv'
<1>1. Rows'
  BY DEF CvInv, Rows
<1>2. InOrder(desk[d], copies, applications, privateCvs)
  BY DEF CvInv, DesksOK
<1>3. r.at = "drop" => \A c \in r.unlink : c \in CvType /\ c \in desk[d].unlink
  <2> SUFFICES ASSUME r.at = "drop", NEW c \in r.unlink PROVE c \in CvType /\ c \in desk[d].unlink
    OBVIOUS
  <2>1. c \in CvType
    BY DEF DeskType, Free
  <2> QED BY <2>1 DEF Took
<1>4. InOrder(r, copies', applications', privateCvs')
  BY <1>2, <1>3 DEF InOrder
<1>5. \A e \in Desks \ {d} : InOrder(desk[e], copies', applications', privateCvs')
  BY DEF CvInv, DesksOK
<1>6. \A e \in Desks \ {d}, c \in CvType :
        /\ Holds(r, c) => ~Holds(desk[e], c) /\ ~Took(desk[e], c)
        /\ Holds(desk[e], c) => ~Took(r, c)
  BY DEF CvInv, Apart
<1> QED BY <1>1, <1>4, <1>5, <1>6, HoldKeeps

LEMMA LeaveKeeps ==
  ASSUME CvInv, NEW d \in Desks, Leave(d), UNCHANGED <<applications, privateCvs, copies>>
  PROVE  CvInv'
  BY GoesOn DEF Leave, Free, Holds, Took, DeskType

(* A record that a request holds, from the step it is in.                  *)
LEMMA InHand ==
  ASSUME CvInv, NEW d \in Desks
  PROVE  /\ desk[d].at \in {"existing", "file", "copy"} =>
              desk[d] \in [at : {"existing", "file", "copy"}, offer : Offers, user : Accounts,
                           upload : Uploads]
         /\ desk[d].at \in {"create", "undo", "unlink", "path"} =>
              desk[d] \in [at : {"create", "undo", "unlink", "path"}, offer : Offers,
                           user : Accounts, upload : Uploads, cv : CvType]
         /\ desk[d].at = "withdraw" => desk[d].application \in RowType
         /\ desk[d].at = "remove" => desk[d].offer \in Offers /\ desk[d].cvs \in SUBSET CvType
         /\ desk[d].at = "drop" =>
              desk[d] \in [at : {"drop"}, unlink : SUBSET CvType, forget : SUBSET CvType]
  BY DEF CvInv, DesksOK, DeskType, Free

-----------------------------------------------------------------------------
(* apply                                                                   *)

LEMMA ApplyKeeps ==
  ASSUME CvInv, NEW d \in Desks,
         \/ \E o \in Offers, u \in Accounts, f \in Uploads : Apply(d, o, u, f)
         \/ FindExisting(d) \/ FindFile(d) \/ UnlinkUpload(d) \/ MovePath(d)
  PROVE  CvInv'
<1>1. ASSUME NEW o \in Offers, NEW u \in Accounts, NEW f \in Uploads, Apply(d, o, u, f)
      PROVE  CvInv'
  <2>1. Applying(o, u, f) \in DeskType
    BY DEF Applying, DeskType
  <2> QED BY <1>1, <2>1, GoesOn DEF Apply, rows, files, Applying, Holds, Took
<1>2. ASSUME NEW at \in {"file", "copy"}, Await(d, at), desk[d].at \in {"existing", "file"},
             UNCHANGED <<applications, privateCvs, copies>>
      PROVE  CvInv'
  <2> DEFINE r == [desk[d] EXCEPT !.at = at]
  <2>1. r \in DeskType /\ r.at = at
    BY <1>2, InHand DEF DeskType
  <2>2. Hold(d, r)
    BY <1>2 DEF Await
  <2> HIDE DEF r
  <2> QED BY <1>2, <2>1, <2>2, GoesOn DEF Holds, Took
<1>3. CASE FindExisting(d)
  BY <1>2, <1>3, LeaveKeeps DEF FindExisting, rows, files
<1>4. CASE FindFile(d)
  BY <1>2, <1>4, LeaveKeeps DEF FindFile, rows, files
<1>5. CASE UnlinkUpload(d)
  <2> DEFINE r == [desk[d] EXCEPT !.at = "path"]
  <2>1. r \in DeskType /\ r.at = "path"
    BY <1>5, InHand DEF DeskType, UnlinkUpload
  <2>2. Hold(d, r) /\ UNCHANGED <<applications, privateCvs, copies>>
    BY <1>5 DEF Await, UnlinkUpload, rows
  <2> HIDE DEF r
  <2> QED BY <2>1, <2>2, GoesOn DEF Holds, Took
<1>6. CASE MovePath(d)
  BY <1>6, LeaveKeeps DEF MovePath, rows
<1> QED BY <1>1, <1>3, <1>4, <1>5, <1>6

(* A copy is dated after all the others, so nobody holds or took it.       *)
LEMMA CopyCvKeeps ==
  ASSUME CvInv, NEW d \in Desks, CopyCv(d)
  PROVE  CvInv'
<1>1. CASE Leave(d) /\ UNCHANGED <<copies, privateCvs>>
  BY <1>1, LeaveKeeps DEF CopyCv, rows
<1>2. CASE ~(Leave(d) /\ UNCHANGED <<copies, privateCvs>>)
  <2>1. PICK r0 \in [at : {"existing", "file", "copy"}, offer : Offers, user : Accounts,
                     upload : Uploads] : r0 = desk[d]
    BY InHand DEF CopyCv
  <2> DEFINE c == [offer |-> r0.offer, user |-> r0.user, at |-> copies + 1]
             r == Copied(r0, c)
  <2>2. /\ copies' = copies + 1 /\ privateCvs' = privateCvs \cup {c}
        /\ Hold(d, r) /\ applications' = applications
    BY <1>2, <2>1 DEF CopyCv, Cv, rows
  <2>3. c \in CvType /\ copies \in Nat /\ c.at = copies + 1
    BY DEF CvType, CvInv, Rows
  <2>4. r \in DeskType /\ r.at = "create" /\ r.cv = c /\ r.offer = r0.offer
    BY <2>3 DEF Copied, DeskType
  <2>5. \A b \in CvType : b.at \in Nat
    BY DEF CvType
  <2>6. Rows'
    BY <2>2, <2>3, <2>5 DEF CvInv, Rows, RowType
  <2>7. \A a \in applications : a.cv # c
    BY <2>3 DEF CvInv, Rows
  <2>8. InOrder(r, copies', applications', privateCvs')
    BY <2>2, <2>3, <2>4, <2>7 DEF InOrder, Holds, Took
  <2>9. \A e \in Desks : \A b \in CvType : Holds(desk[e], b) \/ Took(desk[e], b) => b.at <= copies
    BY DEF CvInv, DesksOK, InOrder
  <2>10. \A e \in Desks : InOrder(desk[e], copies', applications', privateCvs')
    <3> SUFFICES ASSUME NEW e \in Desks PROVE InOrder(desk[e], copies', applications', privateCvs')
      OBVIOUS
    <3>1. \A b \in CvType : Holds(desk[e], b) \/ Took(desk[e], b) => b.at <= copies'
      BY <2>2, <2>3, <2>5, <2>9
    <3>2. InOrder(desk[e], copies, applications, privateCvs)
      BY DEF CvInv, DesksOK
    <3> QED BY <2>2, <3>1, <3>2 DEF InOrder
  <2>11. \A e \in Desks, b \in CvType :
          /\ Holds(r, b) => ~Holds(desk[e], b) /\ ~Took(desk[e], b)
          /\ ~Took(r, b)
    BY <2>3, <2>4, <2>9 DEF Holds, Took
  <2> HIDE DEF c, r
  <2> QED BY <2>2, <2>4, <2>6, <2>8, <2>10, <2>11, HoldKeeps
<1> QED BY <1>1, <1>2

(* The row takes the copy over.                                            *)
LEMMA CreateApplicationKeeps ==
  ASSUME CvInv, NEW d \in Desks, CreateApplication(d) \/ CreateFails(d)
  PROVE  CvInv'
<1>1. PICK r0 \in [at : {"create", "undo", "unlink", "path"}, offer : Offers, user : Accounts,
                   upload : Uploads, cv : CvType] : r0 = desk[d] /\ r0.at = "create"
  BY InHand DEF CreateApplication, CreateFails
<1> DEFINE c == r0.cv
<1>2. InOrder(r0, copies, applications, privateCvs)
  BY <1>1 DEF CvInv, DesksOK
<1>3. /\ c \in CvType /\ c.at <= copies /\ c \in privateCvs /\ c.offer = r0.offer
      /\ \A a \in applications : a.cv # c
  BY <1>1, <1>2 DEF InOrder, Holds
<1>4. \A e \in Desks \ {d} : ~Holds(desk[e], c) /\ ~Took(desk[e], c)
  BY <1>1, <1>3 DEF CvInv, Apart, Holds
<1>5. \A e \in Desks \ {d} : \A b \in CvType : Holds(desk[e], b) => b # c
  BY <1>4
<1>6. \A e \in Desks : InOrder(desk[e], copies, applications, privateCvs)
  BY DEF CvInv, DesksOK
<1>7. CASE Await(d, "undo") /\ UNCHANGED <<applications, privateCvs, copies>>
  <2> DEFINE r == [r0 EXCEPT !.at = "undo"]
  <2>1. r \in DeskType /\ r.at = "undo" /\ r.cv = c /\ r.offer = r0.offer
    BY DEF DeskType
  <2>2. Hold(d, r)
    BY <1>1, <1>7 DEF Await
  <2>3. Rows' /\ \A e \in Desks \ {d} : InOrder(desk[e], copies', applications', privateCvs')
    BY <1>6, <1>7 DEF CvInv, Rows
  <2>4. InOrder(r, copies', applications', privateCvs')
    BY <1>3, <1>7, <2>1 DEF InOrder, Holds, Took
  <2>5. \A e \in Desks \ {d}, b \in CvType :
          /\ Holds(r, b) => ~Holds(desk[e], b) /\ ~Took(desk[e], b)
          /\ Holds(desk[e], b) => ~Took(r, b)
    BY <1>4, <2>1 DEF Holds, Took
  <2> HIDE DEF r
  <2> QED BY <2>1, <2>2, <2>3, <2>4, <2>5, HoldKeeps
<1>8. CASE /\ Await(d, "unlink") /\ UNCHANGED <<privateCvs, copies>>
           /\ applications' = applications \cup {[offer |-> r0.offer, user |-> r0.user, cv |-> c]}
  <2> DEFINE r == [r0 EXCEPT !.at = "unlink"]
             new == [offer |-> r0.offer, user |-> r0.user, cv |-> c]
  <2>1. r \in DeskType /\ r.at = "unlink"
    BY DEF DeskType
  <2>2. Hold(d, r)
    BY <1>1, <1>8 DEF Await
  <2>3. applications' = applications \cup {new} /\ new \in RowType /\ new.cv = c
        /\ new.offer = r0.offer
    BY <1>8 DEF RowType
  <2>4. Rows'
    BY <1>3, <1>8, <2>3 DEF CvInv, Rows
  <2>5. InOrder(r, copies', applications', privateCvs')
    BY <2>1 DEF InOrder, Holds, Took
  <2>6. ASSUME NEW e \in Desks \ {d} PROVE InOrder(desk[e], copies', applications', privateCvs')
    <3>1. InOrder(desk[e], copies, applications, privateCvs)
      BY <1>6
    <3>2. \A b \in CvType : Holds(desk[e], b) => new.cv # b
      BY <1>5, <2>3
    <3>3. desk[e].at = "withdraw" => desk[e].application.cv # c
      BY <1>3, <1>4 DEF Took
    <3>4. desk[e].at = "drop" => c \notin desk[e].unlink
      BY <1>3, <1>4 DEF Took
    <3> QED BY <1>8, <2>3, <3>1, <3>2, <3>3, <3>4 DEF InOrder
  <2>7. \A e \in Desks \ {d}, b \in CvType : ~Holds(r, b) /\ ~Took(r, b)
    BY <2>1 DEF Holds, Took
  <2> HIDE DEF r
  <2> QED BY <2>1, <2>2, <2>4, <2>5, <2>6, <2>7, HoldKeeps
<1>9. CASE CreateApplication(d)
  BY <1>1, <1>7, <1>8, <1>9 DEF CreateApplication, CatchCreate, files
<1>10. CASE CreateFails(d)
  BY <1>7, <1>10 DEF CreateFails, CatchCreate, rows, files
<1> QED BY <1>9, <1>10

(* A copy that goes is in no row, is held by no other request, and is one  *)
(* that d held or took.                                                    *)
LEMMA UndoCopyKeeps ==
  ASSUME CvInv, NEW d \in Desks, UndoCopy(d)
  PROVE  CvInv'
<1>1. PICK r0 \in [at : {"create", "undo", "unlink", "path"}, offer : Offers, user : Accounts,
                   upload : Uploads, cv : CvType] : r0 = desk[d] /\ r0.at = "undo"
  BY InHand DEF UndoCopy
<1> DEFINE c == r0.cv
<1>2. InOrder(r0, copies, applications, privateCvs)
  BY <1>1 DEF CvInv, DesksOK
<1>3. c \in CvType /\ \A a \in applications : a.cv # c
  BY <1>1, <1>2 DEF InOrder, Holds
<1>4. \A e \in Desks \ {d} : ~Holds(desk[e], c)
  BY <1>1, <1>3 DEF CvInv, Apart, Holds
<1>5. privateCvs' = privateCvs \ {c} /\ UNCHANGED <<applications, copies>> /\ Hold(d, Free)
  BY <1>1 DEF UndoCopy, Leave, rows
<1>6. Rows'
  BY <1>3, <1>5 DEF CvInv, Rows
<1>7. \A e \in Desks \ {d} : InOrder(desk[e], copies', applications', privateCvs')
  <2> SUFFICES ASSUME NEW e \in Desks \ {d} PROVE InOrder(desk[e], copies', applications', privateCvs')
    OBVIOUS
  <2>1. InOrder(desk[e], copies, applications, privateCvs)
    BY DEF CvInv, DesksOK
  <2> QED BY <1>4, <1>5, <2>1 DEF InOrder
<1>8. Free \in DeskType /\ InOrder(Free, copies', applications', privateCvs')
  BY DEF Free, DeskType, InOrder, Holds, Took
<1>9. \A b \in CvType : ~Holds(Free, b) /\ ~Took(Free, b)
  BY DEF Free, Holds, Took
<1> QED BY <1>5, <1>6, <1>7, <1>8, <1>9, HoldKeeps

-----------------------------------------------------------------------------
(* withdraw, remove and deleteUser                                         *)

(* Rows may go under every request.                                        *)
LEMMA FewerRows ==
  ASSUME CvInv, applications' \subseteq applications, UNCHANGED <<privateCvs, copies>>
  PROVE  Rows' /\ \A e \in Desks : InOrder(desk[e], copies', applications', privateCvs')
<1>1. Rows'
  BY DEF CvInv, Rows
<1>2. ASSUME NEW e \in Desks PROVE InOrder(desk[e], copies', applications', privateCvs')
  <2>1. InOrder(desk[e], copies, applications, privateCvs)
    BY DEF CvInv, DesksOK
  <2> QED BY <2>1 DEF InOrder
<1> QED BY <1>1, <1>2

LEMMA DismissUserKeeps ==
  ASSUME CvInv, NEW u \in Accounts, DismissUser(u)
  PROVE  CvInv'
<1>1. applications' \subseteq applications /\ UNCHANGED <<privateCvs, copies, desk>>
  BY DEF DismissUser, WithoutOffers
<1>2. DesksOK' /\ Apart'
  BY <1>1, FewerRows DEF CvInv, DesksOK, Apart
<1> QED BY <1>1, <1>2, FewerRows DEF CvInv

(* What a request takes from the rows is held by nobody.                   *)
LEMMA TakesRows ==
  ASSUME CvInv, NEW d \in Desks, NEW r \in DeskType, Hold(d, r),
         r.at \in {"withdraw", "remove"},
         \A c \in CvType : Took(r, c) => \E a \in applications : a.cv = c,
         r.at = "remove" => \A c \in r.cvs : c.offer = r.offer,
         r.at = "withdraw" => r.application \in applications,
         UNCHANGED <<applications, privateCvs, copies>>
  PROVE  CvInv'
<1>1. Rows' /\ \A e \in Desks : InOrder(desk[e], copies', applications', privateCvs')
  BY FewerRows
<1>2. \A c \in CvType : ~Holds(r, c) /\ (Took(r, c) => c.at <= copies)
  BY DEF Holds, CvInv, Rows
<1>3. InOrder(r, copies', applications', privateCvs')
  BY <1>2 DEF InOrder, CvInv, Rows
<1>4. \A e \in Desks, c \in CvType : Holds(desk[e], c) => ~Took(r, c)
  BY DEF CvInv, DesksOK, InOrder
<1> QED BY <1>1, <1>2, <1>3, <1>4, HoldKeeps

LEMMA WithdrawKeeps ==
  ASSUME CvInv, NEW d \in Desks, NEW a \in applications, Withdraw(d, a)
  PROVE  CvInv'
<1> DEFINE r == [at |-> "withdraw", application |-> a]
<1>1. r \in DeskType /\ r.at = "withdraw" /\ r.application = a
  BY DEF DeskType, CvInv, Rows
<1>2. Hold(d, r) /\ UNCHANGED <<applications, privateCvs, copies>>
  BY DEF Withdraw, rows, files
<1> HIDE DEF r
<1> QED BY <1>1, <1>2, TakesRows DEF Took

LEMMA RemoveOfferKeeps ==
  ASSUME CvInv, NEW d \in Desks, NEW o \in Offers, RemoveOffer(d, o)
  PROVE  CvInv'
<1> DEFINE r == [at |-> "remove", offer |-> o, cvs |-> CvsOf(o)]
<1>1. \A c \in CvsOf(o) : c \in CvType /\ c.offer = o /\ \E a \in applications : a.cv = c
  BY DEF CvsOf, CvInv, Rows, RowType
<1>2. r \in DeskType /\ r.at = "remove" /\ r.cvs = CvsOf(o) /\ r.offer = o
  BY <1>1 DEF DeskType
<1>3. Hold(d, r) /\ UNCHANGED <<applications, privateCvs, copies>>
  BY DEF RemoveOffer, rows, files
<1> HIDE DEF r
<1> QED BY <1>1, <1>2, <1>3, TakesRows DEF Took

(* The rows of what was taken are gone: the files follow.                  *)
LEMMA DropKeeps ==
  ASSUME CvInv, NEW d \in Desks, NEW cvs \in SUBSET CvType, Hold(d, Dropping(cvs)),
         \A c \in cvs : Took(desk[d], c),
         applications' \subseteq applications, \A c \in cvs, a \in applications' : a.cv # c,
         UNCHANGED <<privateCvs, copies>>
  PROVE  CvInv'
<1> DEFINE r == Dropping(cvs)
<1>1. r \in DeskType /\ r.at = "drop" /\ r.unlink = cvs
  BY DEF Dropping, DeskType
<1>2. InOrder(desk[d], copies, applications, privateCvs)
  BY DEF CvInv, DesksOK
<1>3. \A c \in CvType : ~Holds(r, c) /\ (Took(r, c) <=> c \in cvs)
  BY <1>1 DEF Holds, Took
<1>4. InOrder(r, copies', applications', privateCvs')
  BY <1>1, <1>2, <1>3 DEF InOrder
<1>5. \A e \in Desks \ {d}, c \in CvType : Holds(desk[e], c) => ~Took(r, c)
  BY <1>3 DEF CvInv, Apart
<1>6. Hold(d, r)
  OBVIOUS
<1> HIDE DEF r
<1> QED BY <1>1, <1>3, <1>4, <1>5, <1>6, FewerRows, HoldKeeps

LEMMA FreeKeeps ==
  ASSUME CvInv, NEW d \in Desks, Leave(d), applications' \subseteq applications,
         UNCHANGED <<privateCvs, copies>>
  PROVE  CvInv'
<1>1. Free \in DeskType /\ InOrder(Free, copies', applications', privateCvs')
  BY DEF Free, DeskType, InOrder, Holds, Took
<1>2. \A b \in CvType : ~Holds(Free, b) /\ ~Took(Free, b)
  BY DEF Free, Holds, Took
<1> QED BY <1>1, <1>2, FewerRows, HoldKeeps DEF Leave

LEMMA DeleteApplicationKeeps ==
  ASSUME CvInv, NEW d \in Desks, DeleteApplication(d)
  PROVE  CvInv'
<1>1. PICK a \in RowType : a = desk[d].application
  BY InHand DEF DeleteApplication
<1>2. applications' = applications \ {a} /\ UNCHANGED <<privateCvs, copies>>
  BY <1>1 DEF DeleteApplication, files
<1>3. CASE a \in applications
  <2>1. {a.cv} \in SUBSET CvType /\ Hold(d, Dropping({a.cv}))
    BY <1>1, <1>3 DEF DeleteApplication, RowType
  <2>2. Took(desk[d], a.cv)
    BY <1>1 DEF DeleteApplication, Took
  <2>3. \A b \in applications' : b.cv # a.cv
    BY <1>2, <1>3 DEF CvInv, Rows
  <2> QED BY <1>2, <2>1, <2>2, <2>3, DropKeeps
<1>4. CASE a \notin applications
  BY <1>1, <1>2, <1>4, FreeKeeps DEF DeleteApplication
<1> QED BY <1>3, <1>4

LEMMA DeleteOfferKeeps ==
  ASSUME CvInv, NEW d \in Desks, DeleteOffer(d)
  PROVE  CvInv'
<1>1. PICK o \in Offers, cvs \in SUBSET CvType : o = desk[d].offer /\ cvs = desk[d].cvs
  BY InHand DEF DeleteOffer
<1>2. /\ applications' \subseteq applications /\ \A a \in applications' : a.offer # o
      /\ UNCHANGED <<privateCvs, copies>>
  BY <1>1 DEF DeleteOffer, WithoutOffers, files
<1>3. \A c \in cvs : c.offer = o
  BY <1>1 DEF DeleteOffer, CvInv, DesksOK, InOrder
<1>4. \A c \in cvs : Took(desk[d], c) /\ \A a \in applications' : a.cv # c
  BY <1>1, <1>2, <1>3 DEF DeleteOffer, Took, CvInv, Rows
<1>5. CASE Hold(d, Dropping(cvs))
  BY <1>2, <1>4, <1>5, DropKeeps
<1>6. CASE Leave(d)
  BY <1>2, <1>6, FreeKeeps
<1> QED BY <1>1, <1>5, <1>6 DEF DeleteOffer

LEMMA UnlinkCvKeeps ==
  ASSUME CvInv, NEW d \in Desks, UnlinkCv(d)
  PROVE  CvInv'
<1>1. PICK r0 \in [at : {"drop"}, unlink : SUBSET CvType, forget : SUBSET CvType] : r0 = desk[d]
  BY InHand DEF UnlinkCv
<1>2. PICK c \in r0.unlink :
        /\ privateCvs' \in {privateCvs, privateCvs \ {c}}
        /\ Hold(d, [r0 EXCEPT !.unlink = @ \ {c}, !.forget = @ \cup {c}])
  BY <1>1 DEF UnlinkCv
<1> DEFINE r == [r0 EXCEPT !.unlink = @ \ {c}, !.forget = @ \cup {c}]
<1>3. UNCHANGED <<applications, copies>> /\ c \in CvType
  BY DEF UnlinkCv, rows
<1>4. r \in DeskType /\ r.at = "drop" /\ r.unlink = r0.unlink \ {c}
  BY <1>3 DEF DeskType
<1>5. InOrder(r0, copies, applications, privateCvs)
  BY <1>1 DEF CvInv, DesksOK
<1>6. (\A a \in applications : a.cv # c) /\ \A e \in Desks \ {d} : ~Holds(desk[e], c)
  BY <1>1, <1>3, <1>5 DEF InOrder, CvInv, Apart, Took
<1>7. Rows'
  BY <1>2, <1>3, <1>6 DEF CvInv, Rows
<1>8. ASSUME NEW e \in Desks \ {d} PROVE InOrder(desk[e], copies', applications', privateCvs')
  <2>1. InOrder(desk[e], copies, applications, privateCvs)
    BY DEF CvInv, DesksOK
  <2> QED BY <1>2, <1>3, <1>6, <2>1 DEF InOrder
<1>9. \A b \in CvType : ~Holds(r, b) /\ (Took(r, b) => Took(r0, b))
  BY <1>4 DEF Holds, Took
<1>10. InOrder(r, copies', applications', privateCvs')
  BY <1>3, <1>4, <1>5, <1>9 DEF InOrder
<1>11. \A e \in Desks \ {d}, b \in CvType : Holds(desk[e], b) => ~Took(r, b)
  BY <1>1, <1>9 DEF CvInv, Apart
<1> HIDE DEF r
<1> QED BY <1>2, <1>4, <1>7, <1>8, <1>9, <1>10, <1>11, HoldKeeps DEF r

LEMMA OtherDropsKeep ==
  ASSUME CvInv, NEW d \in Desks, ForgetFile(d) \/ Dropped(d) \/ Die(d)
  PROVE  CvInv'
<1>1. CASE ForgetFile(d)
  <2>1. PICK r0 \in [at : {"drop"}, unlink : SUBSET CvType, forget : SUBSET CvType] : r0 = desk[d]
    BY <1>1, InHand DEF ForgetFile
  <2>2. PICK c \in r0.forget : Hold(d, [r0 EXCEPT !.forget = @ \ {c}])
    BY <1>1, <2>1 DEF ForgetFile
  <2> DEFINE r == [r0 EXCEPT !.forget = @ \ {c}]
  <2>3. r \in DeskType /\ r.at = "drop" /\ r.unlink = r0.unlink
    BY DEF DeskType
  <2>4. UNCHANGED <<applications, privateCvs, copies>>
    BY <1>1 DEF ForgetFile, rows
  <2> HIDE DEF r
  <2>5. Hold(d, r)
    BY <2>2 DEF r
  <2> QED BY <2>1, <2>3, <2>4, <2>5, GoesOn DEF Holds, Took
<1>2. CASE Dropped(d) \/ Die(d)
  BY <1>2, LeaveKeeps DEF Dropped, Die, rows, files
<1> QED BY <1>1, <1>2

-----------------------------------------------------------------------------
LEMMA CvNextInv == CvInv /\ [InternshipNext]_internshipVars => CvInv'
<1> SUFFICES ASSUME CvInv, [InternshipNext]_internshipVars PROVE CvInv'
  OBVIOUS
<1>1. CASE UNCHANGED internshipVars
  BY <1>1, CvStutter DEF internshipVars
<1>2. ASSUME NEW o \in Offers, PublishOffer(o) \/ \E s \in {"PUBLISHED", "CLOSED"} : UpdateOffer(o, s)
      PROVE  CvInv'
  BY <1>2, CvStutter DEF PublishOffer, UpdateOffer, files
<1>3. ASSUME NEW f \in Uploads, Upload(f) PROVE CvInv'
  BY <1>3, CvStutter DEF Upload, rows
<1>4. ASSUME NEW d \in Desks, DeskStep(d) PROVE CvInv'
  BY <1>4, ApplyKeeps, CopyCvKeeps, CreateApplicationKeeps, UndoCopyKeeps, DeleteApplicationKeeps,
     DeleteOfferKeeps, UnlinkCvKeeps, OtherDropsKeep DEF DeskStep
<1> QED BY <1>1, <1>2, <1>3, <1>4, ApplyKeeps, WithdrawKeeps, RemoveOfferKeeps, DismissUserKeeps
        DEF InternshipNext

(* For any offers, users, uploads, interleaving and faults: every          *)
(* application has its private CV, which its author's route can serve.     *)
THEOREM CvIsThere == InternshipSpec => []RowHasCv
<1>1. CvInv => RowHasCv
  BY DEF CvInv, Rows, RowHasCv
<1> QED BY <1>1, CvInitInv, CvNextInv, PTL DEF InternshipSpec

-----------------------------------------------------------------------------
(* A private CV goes with its application.  The invariant adds the tables  *)
(* that decide whether offer and candidate exist: an offer that somebody   *)
(* applied to was published, and a copy bears the name of its candidate.   *)

TablesOK ==
  /\ offers \in [Offers -> {"none", "PUBLISHED", "CLOSED", "gone"}]
  /\ accounts \subseteq Accounts /\ publicFiles \subseteq Uploads
  /\ path \in [Uploads -> {NoFile, Public, Forgotten} \cup [kind : {"private"}, cv : CvType]]
  /\ faults \in Nat

Answers == {"existing", "file", "copy", "create", "undo", "remove"}

Published ==
  /\ \A a \in applications : a.cv.user = a.user /\ offers[a.offer] # "none"
  /\ \A d \in Desks : /\ desk[d].at \in Answers => offers[desk[d].offer] # "none"
                      /\ desk[d].at \in {"create", "undo"} => desk[d].cv.user = desk[d].user

KeptInv == CvInv /\ TablesOK /\ Published /\ CvGoesWithApplication

LEMMA DeskAfter ==
  ASSUME CvInv, NEW d \in Desks, NEW r, Hold(d, r)
  PROVE  desk'[d] = r /\ \A e \in Desks : e # d => desk'[e] = desk[e]
BY DEF CvInv, DesksOK, Hold

(* What a request holds when it answers for an offer.                      *)
LEMMA AnswersFor ==
  ASSUME CvInv, NEW d \in Desks, desk[d].at \in Answers
  PROVE  desk[d].offer \in Offers
BY InHand DEF Answers

LEMMA PublishedKept ==
  ASSUME KeptInv, NEW d \in Desks, NEW r, Hold(d, r),
         \A o \in Offers : offers[o] # "none" => offers'[o] # "none",
         \A a \in applications' :
           a \in applications \/ (a.cv.user = a.user /\ a.offer \in Offers /\ offers[a.offer] # "none"),
         r.at \in Answers => r.offer \in Offers /\ offers[r.offer] # "none",
         r.at \in {"create", "undo"} => r.cv.user = r.user
  PROVE  Published'
<1>0. CvInv /\ Published
  BY DEF KeptInv
<1>1. ASSUME NEW a \in applications' PROVE a.cv.user = a.user /\ offers'[a.offer] # "none"
  <2>1. \A b \in applications : b.offer \in Offers
    BY <1>0 DEF CvInv, Rows, RowType
  <2> QED BY <1>0, <2>1 DEF Published
<1>2. ASSUME NEW e \in Desks
      PROVE  /\ desk'[e].at \in Answers => offers'[desk'[e].offer] # "none"
             /\ desk'[e].at \in {"create", "undo"} => desk'[e].cv.user = desk'[e].user
  <2>1. CASE e = d
    BY <1>0, <2>1, DeskAfter
  <2>2. CASE e # d
    <3>1. desk'[e] = desk[e]
      BY <1>0, <2>2, DeskAfter
    <3> QED BY <1>0, <3>1, AnswersFor DEF Published
  <2> QED BY <2>1, <2>2
<1> QED BY <1>1, <1>2 DEF Published

LEMMA CvsKept ==
  ASSUME KeptInv, NEW d \in Desks, NEW r, Hold(d, r), faults' = 0 => faults = 0,
         \A o \in Offers : offers'[o] # "gone" => offers[o] # "gone", accounts' \subseteq accounts,
         faults' = 0 =>
           \A c \in privateCvs' : offers'[c.offer] # "gone" /\ c.user \in accounts' =>
             \/ Carries(r, c)
             \/ /\ c \in privateCvs
                /\ \A a \in applications : a.cv = c => a \in applications'
                /\ Carries(desk[d], c) => \E a \in applications' : a.cv = c
  PROVE  (privateCvs' \subseteq CvType) => CvGoesWithApplication'
<1>0. CvInv
  BY DEF KeptInv
<1> SUFFICES ASSUME privateCvs' \subseteq CvType, faults' = 0, NEW c \in privateCvs',
                    offers'[c.offer] # "gone", c.user \in accounts'
             PROVE  (\E a \in applications' : a.cv = c) \/ (\E e \in Desks : Carries(desk'[e], c))
  BY DEF CvGoesWithApplication, Carries
<1>1. CASE Carries(r, c)
  BY <1>0, <1>1, DeskAfter
<1>2. CASE /\ c \in privateCvs
           /\ \A a \in applications : a.cv = c => a \in applications'
           /\ Carries(desk[d], c) => \E a \in applications' : a.cv = c
  <2>1. c.offer \in Offers
    BY DEF CvType
  <2>2. (\E a \in applications : a.cv = c) \/ (\E e \in Desks : Carries(desk[e], c))
    BY <1>2, <2>1 DEF KeptInv, CvGoesWithApplication
  <2>3. CASE \E a \in applications : a.cv = c
    BY <1>2, <2>3
  <2>4. CASE \E e \in Desks : Carries(desk[e], c)
    BY <1>0, <1>2, <2>4, DeskAfter
  <2> QED BY <2>2, <2>3, <2>4
<1> QED BY <1>1, <1>2

(* A request that carries no copy, and touches neither offers, users, rows *)
(* nor private CVs.                                                        *)
LEMMA StepsOn ==
  ASSUME KeptInv, CvInv', NEW d \in Desks, NEW r, Hold(d, r), faults' = 0 => faults = 0,
         UNCHANGED <<offers, accounts, applications, privateCvs>>,
         faults' = 0 => \A c \in CvType : Carries(desk[d], c) => Carries(r, c),
         r.at \in Answers => r.offer \in Offers /\ offers[r.offer] # "none",
         r.at \in {"create", "undo"} => r.cv.user = r.user
  PROVE  Published' /\ CvGoesWithApplication'
<1>1. privateCvs' \subseteq CvType
  BY DEF CvInv, Rows
<1>2. Published'
  BY PublishedKept
<1>3. CvGoesWithApplication'
  BY <1>1, CvsKept
<1> QED BY <1>2, <1>3

LEMMA FreeCarries == Free.at = "free" /\ ~(Free.at \in Answers) /\ \A c : ~Carries(Free, c)
BY DEF Free, Answers, Carries

LEMMA ApplyStepsOn ==
  ASSUME KeptInv, CvInv', NEW d \in Desks,
         \/ \E o \in Offers, u \in Accounts, f \in Uploads : Apply(d, o, u, f)
         \/ FindExisting(d) \/ FindFile(d) \/ UnlinkUpload(d) \/ MovePath(d)
  PROVE  Published' /\ CvGoesWithApplication'
<1>0. CvInv /\ Published /\ TablesOK
  BY DEF KeptInv
<1>1. ASSUME NEW o \in Offers, NEW u \in Accounts, NEW f \in Uploads, Apply(d, o, u, f)
      PROVE  Published' /\ CvGoesWithApplication'
  <2>1. PICK r : r = Applying(o, u, f)
    OBVIOUS
  <2>2. r.at = "existing" /\ r.offer = o /\ \A c : ~Carries(r, c)
    BY <2>1 DEF Applying, Carries
  <2>3. \A c : ~Carries(desk[d], c)
    BY <1>1, FreeCarries DEF Apply, IsFree
  <2>4. Hold(d, r) /\ UNCHANGED <<offers, accounts, applications, privateCvs, faults>> /\ offers[o] # "none"
    BY <1>1, <2>1 DEF Apply, rows, files
  <2> QED BY <2>2, <2>3, <2>4, StepsOn
<1>2. ASSUME NEW at \in {"file", "copy", "path"}, Await(d, at),
             at # "path" => desk[d].at \in {"existing", "file"}, desk[d].at \in {"existing", "file", "unlink"},
             UNCHANGED <<offers, accounts, applications, privateCvs>>, faults' = 0 => faults = 0
      PROVE  Published' /\ CvGoesWithApplication'
  <2>1. PICK r0 \in DeskType : r0 = desk[d]
    BY <1>0 DEF CvInv, DesksOK
  <2>2. PICK r : r = [r0 EXCEPT !.at = at]
    OBVIOUS
  <2>3. r.at = at /\ (at # "path" => r.offer = r0.offer)
    <3>1. CASE desk[d].at \in {"existing", "file"}
      BY <1>0, <2>1, <2>2, <3>1, InHand
    <3>2. CASE desk[d].at = "unlink"
      BY <1>0, <1>2, <2>1, <2>2, <3>2, InHand
    <3> QED BY <1>2, <3>1, <3>2
  <2>4. at # "path" => r.offer \in Offers /\ offers[r.offer] # "none"
    BY <1>0, <1>2, <2>1, <2>3, AnswersFor DEF Published, Answers
  <2>5. \A c : ~Carries(desk[d], c)
    BY <1>2 DEF Carries
  <2>6. Hold(d, r)
    BY <1>2, <2>1, <2>2 DEF Await
  <2>7. r.at \in Answers => at # "path"
    BY <2>3 DEF Answers
  <2> QED BY <1>2, <2>3, <2>4, <2>5, <2>6, <2>7, StepsOn
<1>3. ASSUME Leave(d), desk[d].at \in {"existing", "file", "path"},
             UNCHANGED <<offers, accounts, applications, privateCvs, faults>>
      PROVE  Published' /\ CvGoesWithApplication'
  <2>1. \A c : ~Carries(desk[d], c)
    BY <1>3 DEF Carries
  <2> QED BY <1>3, <2>1, FreeCarries, StepsOn DEF Leave
<1>4. CASE FindExisting(d)
  BY <1>2, <1>3, <1>4 DEF FindExisting, rows, files
<1>5. CASE FindFile(d)
  BY <1>2, <1>3, <1>5 DEF FindFile, rows, files
<1>6. CASE UnlinkUpload(d)
  <2>1. faults' = 0 => faults = 0
    BY <1>0, <1>6 DEF UnlinkUpload, Fault, TablesOK
  <2> QED BY <1>2, <1>6, <2>1 DEF UnlinkUpload, rows
<1>7. CASE MovePath(d)
  BY <1>3, <1>7 DEF MovePath, rows
<1> QED BY <1>1, <1>4, <1>5, <1>6, <1>7

LEMMA CopyCvStepsOn ==
  ASSUME KeptInv, CvInv', NEW d \in Desks, CopyCv(d)
  PROVE  Published' /\ CvGoesWithApplication'
<1>0. CvInv /\ Published /\ privateCvs' \subseteq CvType
  BY DEF KeptInv, CvInv, Rows
<1>1. UNCHANGED <<offers, accounts, applications, faults>> /\ desk[d].at = "copy"
  BY DEF CopyCv, rows
<1>2. \A c : ~Carries(desk[d], c)
  BY <1>1 DEF Carries
<1>3. PICK r0 \in [at : {"existing", "file", "copy"}, offer : Offers, user : Accounts,
                   upload : Uploads] : r0 = desk[d]
  BY <1>0, <1>1, InHand
<1>4. r0.offer \in Offers /\ offers[r0.offer] # "none"
  BY <1>0, <1>1, <1>3 DEF Published, Answers
<1>5. CASE Leave(d) /\ UNCHANGED privateCvs
  BY <1>1, <1>2, <1>5, FreeCarries, StepsOn DEF Leave
<1>6. CASE ~(Leave(d) /\ UNCHANGED privateCvs)
  <2>1. PICK c : c = [offer |-> r0.offer, user |-> r0.user, at |-> copies + 1]
    OBVIOUS
  <2>2. PICK r : r = [at |-> "create", offer |-> r0.offer, user |-> r0.user, upload |-> r0.upload, cv |-> c]
    OBVIOUS
  <2>3. privateCvs' = privateCvs \cup {c} /\ Hold(d, r)
    BY <1>3, <1>6, <2>1, <2>2 DEF CopyCv, Cv, Copied
  <2>4. r.at = "create" /\ r.offer = r0.offer /\ r.cv = c /\ r.cv.user = r.user
    BY <2>1, <2>2
  <2>5. Carries(r, c)
    BY <2>4 DEF Carries
  <2>6. Published'
    BY <1>1, <1>4, <2>3, <2>4, PublishedKept
  <2>7. \A b \in privateCvs' : Carries(r, b) \/ b \in privateCvs
    BY <2>3, <2>5
  <2>8. CvGoesWithApplication'
    BY <1>0, <1>1, <1>2, <2>3, <2>7, CvsKept
  <2> QED BY <2>6, <2>8
<1> QED BY <1>5, <1>6 DEF CopyCv

LEMMA CreateStepsOn ==
  ASSUME KeptInv, CvInv', NEW d \in Desks, CreateApplication(d) \/ CreateFails(d) \/ UndoCopy(d)
  PROVE  Published' /\ CvGoesWithApplication'
<1>0. CvInv /\ Published /\ TablesOK /\ privateCvs' \subseteq CvType
  BY DEF KeptInv, CvInv, Rows
<1>1. PICK r0 \in [at : {"create", "undo", "unlink", "path"}, offer : Offers, user : Accounts,
                   upload : Uploads, cv : CvType] : r0 = desk[d] /\ r0.at \in {"create", "undo"}
  BY <1>0, InHand DEF CreateApplication, CreateFails, UndoCopy
<1>2. r0.offer \in Offers /\ offers[r0.offer] # "none" /\ r0.cv.user = r0.user
  BY <1>0, <1>1 DEF Published, Answers
<1>3. \A c : Carries(desk[d], c) <=> c = r0.cv
  BY <1>1 DEF Carries
<1>4. UNCHANGED <<offers, accounts>> /\ (faults' = 0 => faults = 0)
  BY <1>0 DEF CreateApplication, CreateFails, UndoCopy, rows, Fault, TablesOK
<1>5. CASE Await(d, "undo") /\ UNCHANGED <<applications, privateCvs>>
  <2>1. PICK r : r = [r0 EXCEPT !.at = "undo"]
    OBVIOUS
  <2>2. r.at = "undo" /\ r.cv = r0.cv /\ r.offer = r0.offer /\ r.user = r0.user
    BY <2>1
  <2>3. Hold(d, r)
    BY <1>1, <1>5, <2>1 DEF Await
  <2>4. \A c : Carries(r, c) <=> c = r0.cv
    BY <2>2 DEF Carries
  <2> QED BY <1>2, <1>3, <1>4, <1>5, <2>2, <2>3, <2>4, StepsOn
<1>6. CASE CreateApplication(d) /\ Possible(r0.offer, r0.user)
  <2>1. PICK r, a : r = [r0 EXCEPT !.at = "unlink"] /\ a = [offer |-> r0.offer, user |-> r0.user, cv |-> r0.cv]
    OBVIOUS
  <2>2. r.at = "unlink" /\ a.offer = r0.offer /\ a.user = r0.user /\ a.cv = r0.cv
    BY <2>1
  <2>3. Hold(d, r) /\ applications' = applications \cup {a} /\ privateCvs' = privateCvs
    BY <1>1, <1>6, <2>1 DEF CreateApplication, CatchCreate, Await, files
  <2>4. Published'
    BY <1>2, <1>4, <2>2, <2>3, PublishedKept DEF Answers
  <2>5. \A c \in privateCvs' :
          /\ c \in privateCvs /\ \A b \in applications : b.cv = c => b \in applications'
          /\ Carries(desk[d], c) => \E b \in applications' : b.cv = c
    BY <1>3, <2>2, <2>3
  <2>6. CvGoesWithApplication'
    BY <1>0, <1>4, <2>3, <2>5, CvsKept
  <2> QED BY <2>4, <2>6
<1>7. CASE UndoCopy(d)
  <2>1. privateCvs' = privateCvs \ {r0.cv} /\ applications' = applications /\ Hold(d, Free)
    BY <1>1, <1>7 DEF UndoCopy, Leave, rows
  <2>2. Published'
    BY <1>4, <2>1, FreeCarries, PublishedKept
  <2>3. CvGoesWithApplication'
    BY <1>0, <1>3, <1>4, <2>1, CvsKept
  <2> QED BY <2>2, <2>3
<1>8. CreateFails(d) \/ (CreateApplication(d) /\ ~Possible(r0.offer, r0.user))
        => Await(d, "undo") /\ UNCHANGED <<applications, privateCvs>>
  BY <1>1 DEF CreateApplication, CreateFails, CatchCreate, rows, files
<1> QED BY <1>5, <1>6, <1>7, <1>8

(* Somebody looks at what is to be withdrawn or removed.                   *)
LEMMA TakingStepsOn ==
  ASSUME KeptInv, CvInv', NEW d \in Desks,
         (\E a \in applications : Withdraw(d, a)) \/ (\E o \in Offers : RemoveOffer(d, o))
  PROVE  Published' /\ CvGoesWithApplication'
<1>1. /\ UNCHANGED <<offers, accounts, applications, privateCvs, faults>>
      /\ \A c : ~Carries(desk[d], c)
  BY FreeCarries DEF Withdraw, RemoveOffer, rows, files, IsFree
<1>2. PICK r : /\ Hold(d, r)
               /\ \/ r.at = "withdraw"
                  \/ r.at = "remove" /\ r.offer \in Offers /\ offers[r.offer] # "none"
  <2>1. ASSUME NEW a \in applications, Withdraw(d, a)
        PROVE  \E r : Hold(d, r) /\ r.at = "withdraw"
    <3>1. [at |-> "withdraw", application |-> a].at = "withdraw"
      OBVIOUS
    <3> QED BY <2>1, <3>1 DEF Withdraw
  <2>2. ASSUME NEW o \in Offers, RemoveOffer(d, o)
        PROVE  \E r : Hold(d, r) /\ r.at = "remove" /\ r.offer \in Offers /\ offers[r.offer] # "none"
    <3>1. PICK r : r = [at |-> "remove", offer |-> o, cvs |-> CvsOf(o)]
      OBVIOUS
    <3>2. r.at = "remove" /\ r.offer = o
      BY <3>1
    <3> QED BY <2>2, <3>1, <3>2 DEF RemoveOffer
  <2> QED BY <2>1, <2>2
<1>3. /\ r.at \in Answers => r.offer \in Offers /\ offers[r.offer] # "none"
      /\ r.at \notin {"create", "undo"}
  BY <1>2 DEF Answers
<1> QED BY <1>1, <1>2, <1>3, StepsOn

LEMMA DeleteApplicationStepsOn ==
  ASSUME KeptInv, CvInv', NEW d \in Desks, DeleteApplication(d)
  PROVE  Published' /\ CvGoesWithApplication'
<1>0. CvInv /\ privateCvs' \subseteq CvType
  BY DEF KeptInv, CvInv, Rows
<1>1. PICK a \in RowType : a = desk[d].application
  BY <1>0, InHand DEF DeleteApplication
<1>2. /\ applications' = applications \ {a} /\ UNCHANGED <<offers, accounts, privateCvs, faults>>
      /\ \A c : ~Carries(desk[d], c)
  BY <1>1 DEF DeleteApplication, files, Carries
<1>3. CASE a \in applications
  <2>1. PICK r : r = [at |-> "drop", unlink |-> {a.cv}, forget |-> {}]
    OBVIOUS
  <2>2. r.at = "drop" /\ r.unlink = {a.cv} /\ Hold(d, r)
    BY <1>1, <1>3, <2>1 DEF DeleteApplication, Dropping
  <2>3. Carries(r, a.cv)
    BY <2>2 DEF Carries
  <2>4. Published'
    BY <1>2, <2>2, PublishedKept DEF Answers
  <2>5. \A c \in privateCvs' : Carries(r, c) \/ \A b \in applications : b.cv = c => b \in applications'
    BY <1>2, <2>3
  <2>6. CvGoesWithApplication'
    BY <1>0, <1>2, <2>2, <2>5, CvsKept
  <2> QED BY <2>4, <2>6
<1>4. CASE a \notin applications
  <2>1. applications' = applications /\ Hold(d, Free)
    BY <1>1, <1>2, <1>4 DEF DeleteApplication, Leave
  <2> QED BY <1>2, <2>1, FreeCarries, StepsOn
<1> QED BY <1>3, <1>4

(* The rows that go with offers or users are of an offer, or of a user,    *)
(* that is gone.                                                           *)
LEMMA CascadeRows ==
  ASSUME KeptInv, NEW gone \in SUBSET Offers, NEW users \in SUBSET accounts, WithoutOffers(gone, users),
         \A o \in Offers : o \in gone /\ offers[o] = "none" => \A a \in applications : a.offer # o
  PROVE  /\ applications' \subseteq applications
         /\ \A o \in Offers : /\ offers[o] # "none" => offers'[o] # "none"
                              /\ offers'[o] # "gone" => offers[o] # "gone"
         /\ \A a \in applications : offers'[a.cv.offer] # "gone" /\ a.cv.user \in users => a \in applications'
<1>1. applications' \subseteq applications
  BY DEF WithoutOffers
<1>2. \A o \in Offers : offers'[o] = IF o \in gone /\ offers[o] # "none" THEN "gone" ELSE offers[o]
  BY DEF WithoutOffers
<1>3. \A a \in applications : a.offer \in Offers /\ a.cv.offer = a.offer /\ a.cv.user = a.user
  BY DEF KeptInv, CvInv, Rows, RowType, Published
<1>4. ASSUME NEW a \in applications, offers'[a.cv.offer] # "gone", a.cv.user \in users
      PROVE  a \in applications'
  <2>1. a.offer \notin gone
    BY <1>2, <1>3, <1>4
  <2> QED BY <1>3, <1>4, <2>1 DEF WithoutOffers
<1> QED BY <1>1, <1>2, <1>4

LEMMA DeleteOfferStepsOn ==
  ASSUME KeptInv, CvInv', NEW d \in Desks, DeleteOffer(d)
  PROVE  Published' /\ CvGoesWithApplication'
<1>0. CvInv /\ Published /\ privateCvs' \subseteq CvType
  BY DEF KeptInv, CvInv, Rows
<1>1. PICK o \in Offers : o = desk[d].offer
  BY <1>0, InHand DEF DeleteOffer
<1>2. offers[o] # "none"
  BY <1>0, <1>1 DEF DeleteOffer, Published, Answers
<1>3. /\ WithoutOffers({o}, accounts) /\ UNCHANGED <<accounts, privateCvs, faults>>
      /\ \A c : ~Carries(desk[d], c)
  BY <1>1 DEF DeleteOffer, files, Carries
<1>4. /\ applications' \subseteq applications
      /\ \A p \in Offers : /\ offers[p] # "none" => offers'[p] # "none"
                           /\ offers'[p] # "gone" => offers[p] # "gone"
      /\ \A a \in applications : offers'[a.cv.offer] # "gone" /\ a.cv.user \in accounts => a \in applications'
  <2>1. PICK gone \in SUBSET Offers, users \in SUBSET accounts : gone = {o} /\ users = accounts
    OBVIOUS
  <2>2. WithoutOffers(gone, users) /\ \A p \in Offers : p \in gone => offers[p] # "none"
    BY <1>2, <1>3, <2>1
  <2> QED BY <2>1, <2>2, CascadeRows
<1>5. PICK r : Hold(d, r) /\ r.at \in {"free", "drop"}
  <2>1. Dropping(desk[d].cvs).at = "drop"
    BY DEF Dropping
  <2> QED BY <2>1, FreeCarries DEF DeleteOffer, Leave
<1>6. Published'
  BY <1>4, <1>5, PublishedKept DEF Answers
<1>7. CvGoesWithApplication'
  BY <1>0, <1>3, <1>4, <1>5, CvsKept
<1> QED BY <1>6, <1>7

LEMMA DropStepsOn ==
  ASSUME KeptInv, CvInv', NEW d \in Desks, UnlinkCv(d) \/ ForgetFile(d) \/ Dropped(d)
  PROVE  Published' /\ CvGoesWithApplication'
<1>0. CvInv /\ TablesOK /\ privateCvs' \subseteq CvType
  BY DEF KeptInv, CvInv, Rows
<1>1. UNCHANGED <<offers, accounts, applications>>
  BY DEF UnlinkCv, ForgetFile, Dropped, rows
<1>2. CASE Dropped(d)
  <2>1. \A c : ~Carries(desk[d], c)
    BY <1>2 DEF Dropped, Dropping, Carries
  <2>2. Hold(d, Free) /\ UNCHANGED <<privateCvs, faults>>
    BY <1>2 DEF Dropped, Leave, files
  <2> QED BY <1>1, <2>1, <2>2, FreeCarries, StepsOn
<1>3. CASE UnlinkCv(d) \/ ForgetFile(d)
  <2>1. PICK r0 \in [at : {"drop"}, unlink : SUBSET CvType, forget : SUBSET CvType] : r0 = desk[d]
    BY <1>0, <1>3, InHand DEF UnlinkCv, ForgetFile
  <2>2. PICK r : /\ Hold(d, r) /\ r.at = "drop" /\ (faults' = 0 => faults = 0)
                 /\ privateCvs' \subseteq privateCvs
                 /\ faults' = 0 => \A c \in r0.unlink : c \in r.unlink \/ c \notin privateCvs'
    <3>1. CASE UnlinkCv(d)
      <4>1. PICK c \in r0.unlink :
              /\ (privateCvs' = privateCvs \ {c} /\ UNCHANGED faults) \/ (Fault /\ UNCHANGED privateCvs)
              /\ Hold(d, [r0 EXCEPT !.unlink = @ \ {c}, !.forget = @ \cup {c}])
        BY <2>1, <3>1 DEF UnlinkCv
      <4>2. PICK r : r = [r0 EXCEPT !.unlink = @ \ {c}, !.forget = @ \cup {c}]
        OBVIOUS
      <4>3. r.at = "drop" /\ r.unlink = r0.unlink \ {c}
        BY <4>2
      <4>4. Fault => faults' # 0
        BY <1>0 DEF Fault, TablesOK
      <4>5. Hold(d, r)
        BY <4>1, <4>2
      <4>6. (faults' = 0 => faults = 0) /\ privateCvs' \subseteq privateCvs
            /\ (faults' = 0 => \A b \in r0.unlink : b \in r.unlink \/ b \notin privateCvs')
        BY <4>1, <4>3, <4>4
      <4> QED BY <4>3, <4>5, <4>6
    <3>2. CASE ForgetFile(d)
      <4>1. PICK c \in r0.forget : Hold(d, [r0 EXCEPT !.forget = @ \ {c}])
        BY <2>1, <3>2 DEF ForgetFile
      <4>2. PICK r : r = [r0 EXCEPT !.forget = @ \ {c}]
        OBVIOUS
      <4>3. r.at = "drop" /\ r.unlink = r0.unlink
        BY <4>2
      <4>4. UNCHANGED <<privateCvs, faults>> /\ Hold(d, r)
        BY <3>2, <4>1, <4>2 DEF ForgetFile
      <4> QED BY <4>3, <4>4
    <3> QED BY <1>3, <3>1, <3>2
  <2>3. Published'
    BY <1>1, <2>2, PublishedKept DEF Answers
  <2>4. \A c : Carries(desk[d], c) <=> c \in r0.unlink
    BY <2>1 DEF Carries
  <2>5. \A c : c \in r.unlink => Carries(r, c)
    BY <2>2 DEF Carries
  <2>6. CvGoesWithApplication'
    BY <1>0, <1>1, <2>2, <2>4, <2>5, CvsKept
  <2> QED BY <2>3, <2>6
<1> QED BY <1>2, <1>3

LEMMA DieStepsOn ==
  ASSUME KeptInv, CvInv', NEW d \in Desks, Die(d)
  PROVE  Published' /\ CvGoesWithApplication'
<1>1. UNCHANGED <<offers, accounts, applications, privateCvs>> /\ Hold(d, Free) /\ faults' # 0
  BY DEF Die, Leave, rows, files, Fault, KeptInv, TablesOK
<1> QED BY <1>1, FreeCarries, StepsOn

(* The steps that are not of a request.                                    *)
LEMMA OutsideStepsOn ==
  ASSUME KeptInv, CvInv',
         \/ \E o \in Offers : PublishOffer(o) \/ \E st \in {"PUBLISHED", "CLOSED"} : UpdateOffer(o, st)
         \/ \E f \in Uploads : Upload(f)
         \/ \E u \in Accounts : DismissUser(u)
         \/ UNCHANGED internshipVars
  PROVE  Published' /\ CvGoesWithApplication'
<1>0. CvInv /\ Published /\ TablesOK
  BY DEF KeptInv
<1>1. /\ UNCHANGED <<privateCvs, desk, faults>> /\ accounts' \subseteq accounts
      /\ applications' \subseteq applications
      /\ \A o \in Offers : /\ offers[o] # "none" => offers'[o] # "none"
                           /\ offers'[o] # "gone" => offers[o] # "gone"
      /\ \A a \in applications : offers'[a.cv.offer] # "gone" /\ a.cv.user \in accounts' => a \in applications'
  <2>1. ASSUME NEW o \in Offers, PublishOffer(o) \/ \E st \in {"PUBLISHED", "CLOSED"} : UpdateOffer(o, st)
        PROVE  /\ UNCHANGED <<privateCvs, desk, faults, accounts, applications>>
               /\ \A p \in Offers : /\ offers[p] # "none" => offers'[p] # "none"
                                    /\ offers'[p] # "gone" => offers[p] # "gone"
    BY <1>0, <2>1 DEF PublishOffer, UpdateOffer, files, TablesOK
  <2>2. CASE (\E f \in Uploads : Upload(f)) \/ UNCHANGED internshipVars
    BY <2>2 DEF Upload, internshipVars, rows
  <2>3. ASSUME NEW u \in Accounts, DismissUser(u)
        PROVE  /\ UNCHANGED <<privateCvs, desk, faults>> /\ accounts' \subseteq accounts
               /\ applications' \subseteq applications
               /\ \A o \in Offers : /\ offers[o] # "none" => offers'[o] # "none"
                                    /\ offers'[o] # "gone" => offers[o] # "gone"
               /\ \A a \in applications : offers'[a.cv.offer] # "gone" /\ a.cv.user \in accounts' => a \in applications'
    <3>1. PICK gone \in SUBSET Offers, users \in SUBSET accounts : accounts' = users /\ WithoutOffers(gone, users)
      BY <2>3 DEF DismissUser
    <3>2. \A a \in applications : offers[a.offer] # "none"
      BY <1>0 DEF Published
    <3> QED BY <2>3, <3>1, <3>2, CascadeRows DEF DismissUser
  <2> QED BY <2>1, <2>2, <2>3
<1>2. Published'
  <2>1. \A a \in applications : a.offer \in Offers
    BY <1>0 DEF CvInv, Rows, RowType
  <2>2. \A d \in Desks : desk[d].at \in Answers => desk[d].offer \in Offers
    BY <1>0, AnswersFor
  <2> QED BY <1>0, <1>1, <2>1, <2>2 DEF Published
<1>3. CvGoesWithApplication'
  <2> SUFFICES ASSUME faults' = 0, NEW c \in privateCvs, offers'[c.offer] # "gone", c.user \in accounts'
               PROVE  (\E a \in applications' : a.cv = c) \/ (\E d \in Desks : Carries(desk[d], c))
    BY <1>1 DEF CvGoesWithApplication
  <2>1. c.offer \in Offers
    BY <1>0 DEF CvInv, Rows, CvType
  <2>2. (\E a \in applications : a.cv = c) \/ (\E d \in Desks : Carries(desk[d], c))
    BY <1>1, <2>1 DEF KeptInv, CvGoesWithApplication
  <2> QED BY <1>1, <2>2
<1> QED BY <1>2, <1>3

LEMMA TablesStepOn ==
  ASSUME KeptInv, [InternshipNext]_internshipVars
  PROVE  TablesOK'
<1>0. CvInv /\ TablesOK
  BY DEF KeptInv
<1>1. CASE /\ UNCHANGED <<offers, accounts>> /\ publicFiles' \subseteq publicFiles
           /\ path' = path /\ faults' \in Nat
  BY <1>0, <1>1 DEF TablesOK
<1>2. ASSUME NEW o \in Offers, PublishOffer(o) \/ \E st \in {"PUBLISHED", "CLOSED"} : UpdateOffer(o, st)
      PROVE  TablesOK'
  BY <1>0, <1>2 DEF PublishOffer, UpdateOffer, files, TablesOK
<1>3. ASSUME NEW f \in Uploads, Upload(f) PROVE TablesOK'
  BY <1>0, <1>3 DEF Upload, rows, TablesOK
<1>4. ASSUME NEW u \in Accounts, DismissUser(u) PROVE TablesOK'
  BY <1>0, <1>4 DEF DismissUser, WithoutOffers, TablesOK
<1>5. ASSUME NEW d \in Desks, DeleteOffer(d) PROVE TablesOK'
  BY <1>0, <1>5 DEF DeleteOffer, WithoutOffers, TablesOK, files
<1>6. ASSUME NEW d \in Desks, MovePath(d) PROVE TablesOK'
  <2>1. PICK c \in CvType : c = desk[d].cv
    BY <1>0, <1>6, InHand DEF MovePath
  <2>2. Private(c) \in [kind : {"private"}, cv : CvType]
    BY DEF Private
  <2>3. path' = path \/ path' = [path EXCEPT ![desk[d].upload] = Private(c)]
    BY <1>6, <2>1 DEF MovePath
  <2> QED BY <1>0, <1>6, <2>2, <2>3 DEF MovePath, rows, TablesOK
<1>7. ASSUME NEW d \in Desks, ForgetFile(d) PROVE TablesOK'
  BY <1>0, <1>7 DEF ForgetFile, rows, TablesOK
<1>8. ASSUME NEW d \in Desks,
             \/ \E o \in Offers : RemoveOffer(d, o) \/ \E u \in Accounts, f \in Uploads : Apply(d, o, u, f)
             \/ \E a \in applications : Withdraw(d, a)
             \/ FindExisting(d) \/ FindFile(d) \/ CopyCv(d) \/ CreateApplication(d) \/ UndoCopy(d)
             \/ DeleteApplication(d) \/ Dropped(d)
      PROVE  TablesOK'
  <2>1. UNCHANGED <<offers, accounts, publicFiles, path, faults>>
    BY <1>8 DEF RemoveOffer, Apply, Withdraw, FindExisting, FindFile, CopyCv, CreateApplication, UndoCopy,
                DeleteApplication, Dropped, rows, files
  <2> QED BY <1>0, <1>1, <2>1 DEF TablesOK
<1>9. ASSUME NEW d \in Desks, CreateFails(d) \/ UnlinkUpload(d) \/ UnlinkCv(d) \/ Die(d)
      PROVE  TablesOK'
  <2>1. UNCHANGED <<offers, accounts, path>> /\ publicFiles' \subseteq publicFiles /\ faults' \in Nat
    <3>1. faults \in Nat /\ (Fault => faults' \in Nat)
      BY <1>0 DEF TablesOK, Fault
    <3>2. CASE CreateFails(d) \/ Die(d)
      BY <3>1, <3>2 DEF CreateFails, Die, rows, files
    <3>3. CASE UnlinkUpload(d)
      BY <3>1, <3>3 DEF UnlinkUpload, rows
    <3>4. CASE UnlinkCv(d)
      BY <3>1, <3>4 DEF UnlinkCv, rows
    <3> QED BY <1>9, <3>2, <3>3, <3>4
  <2> QED BY <1>1, <2>1
<1>10. CASE UNCHANGED internshipVars
  BY <1>0, <1>1, <1>10 DEF internshipVars, TablesOK
<1> QED BY <1>2, <1>3, <1>4, <1>5, <1>6, <1>7, <1>8, <1>9, <1>10 DEF InternshipNext, DeskStep

LEMMA KeptInit == InternshipInit => KeptInv
<1> SUFFICES ASSUME InternshipInit PROVE KeptInv
  OBVIOUS
<1>1. CvInv
  BY CvInitInv
<1>2. TablesOK /\ CvGoesWithApplication
  BY DEF InternshipInit, TablesOK, CvGoesWithApplication
<1>3. Published
  BY FreeCarries DEF InternshipInit, Published
<1> QED BY <1>1, <1>2, <1>3 DEF KeptInv

LEMMA KeptNext == KeptInv /\ [InternshipNext]_internshipVars => KeptInv'
<1> SUFFICES ASSUME KeptInv, [InternshipNext]_internshipVars PROVE KeptInv'
  OBVIOUS
<1>1. CvInv' /\ TablesOK'
  BY CvNextInv, TablesStepOn DEF KeptInv
<1>2. ASSUME NEW d \in Desks, DeskStep(d) PROVE Published' /\ CvGoesWithApplication'
  BY <1>1, <1>2, ApplyStepsOn, CopyCvStepsOn, CreateStepsOn, DeleteApplicationStepsOn, DeleteOfferStepsOn,
     DropStepsOn, DieStepsOn DEF DeskStep
<1>3. Published' /\ CvGoesWithApplication'
  BY <1>1, <1>2, ApplyStepsOn, TakingStepsOn, OutsideStepsOn DEF InternshipNext
<1> QED BY <1>1, <1>3 DEF KeptInv

(* The types of the tables of internships.service.ts and of the two disks. *)
THEOREM InternshipsTypeCorrect == InternshipSpec => []InternshipsTypeOK
<1>1. KeptInv => InternshipsTypeOK
  BY DEF KeptInv, TablesOK, CvInv, Rows, RowType, InternshipsTypeOK
<1> QED BY <1>1, KeptInit, KeptNext, PTL DEF InternshipSpec

(* As long as offer and candidate exist and no request failed, a private   *)
(* CV belongs to an application, or to a request that will give it a row   *)
(* or remove it, for any interleaving of any requests.                     *)
THEOREM CvsGoWithApplications == InternshipSpec => []CvGoesWithApplication
<1>1. KeptInv => CvGoesWithApplication
  BY DEF KeptInv
<1> QED BY <1>1, KeptInit, KeptNext, PTL DEF InternshipSpec
====
