------------------------------ MODULE DaysProofs ------------------------------
(***************************************************************************)
(* Proofs about what counts days: LoginStreak, for any addresses, slots    *)
(* and number of days, and DailyJobs, for any users, events, periods and   *)
(* number of mishaps.                                                      *)
(***************************************************************************)
EXTENDS LoginStreak, DailyJobs, Integers, TLAPS

RowType == [current : Nat, longest : Nat, last : Nat]
LineType == {NoLine} \cup [at : {"register", "password", "write"}, who : Addresses, row : RowType]

StreakTypeOK ==
  /\ date \in Days /\ account \in [Addresses -> RowType]
  /\ line \in [Lines -> LineType] /\ visits \in [Addresses -> SUBSET Nat]

(* The streak columns against the history, with what the induction needs:  *)
(* the counted days lie between the first day and today.                   *)
StreakOK(s, v) ==
  /\ s.last \in 1..date /\ s.current \in 1..s.last
  /\ \A d \in v : d \in 1..s.last
  /\ (s.last + 1 - s.current)..s.last \subseteq v /\ s.last - s.current \notin v
  /\ \E m \in 1..date : m <= m + s.longest - 1 /\ m..(m + s.longest - 1) \subseteq v
  /\ \A m, n \in Nat : m <= n /\ m..n \subseteq v => n - m + 1 <= s.longest

(* What a login knows: the row as it is, or as it was before another login *)
(* of the same day counted that day.                                       *)
LineOK(l) ==
  l # NoLine /\ l.who \notin NightOwls =>
    LET s == account[l.who] IN
    /\ l.at \in {"password", "write"} => HasAccount(l.who)
    /\ l.at = "password" => l.row = s \/ (l.row.last # date /\ s = Counted(l.row))
    /\ l.at = "write" => (l.row = s /\ s.last = date) \/ (s.last # date /\ l.row = Counted(s))

StreakInv ==
  /\ StreakTypeOK
  /\ \A a \in Addresses \ NightOwls :
       IF account[a] = Uncounted THEN visits[a] = {} ELSE StreakOK(account[a], visits[a])
  /\ \A k \in Lines : LineOK(line[k])

LEMMA InvCounts == StreakInv => StreakCountsDays
<1> SUFFICES ASSUME StreakInv, NEW a \in Addresses \ NightOwls, account[a] # Uncounted
             PROVE  LET s == account[a] IN
                    /\ Run(a, s.last + 1 - s.current, s.last) /\ s.last - s.current \notin visits[a]
                    /\ \A d \in visits[a] : d <= s.last
                    /\ \E m \in Days : Run(a, m, m + s.longest - 1)
                    /\ \A m, n \in Days : Run(a, m, n) => n - m + 1 <= s.longest
  BY DEF StreakCountsDays
<1> DEFINE s == account[a]
<1>1. StreakOK(s, visits[a]) /\ s \in RowType /\ date \in Days
  BY DEF StreakInv, StreakTypeOK
<1>2. s.last \in Nat /\ s.current \in Nat /\ s.longest \in Nat
  BY <1>1 DEF RowType
<1> HIDE DEF s
<1>3. Run(a, s.last + 1 - s.current, s.last) /\ s.last - s.current \notin visits[a]
  BY <1>1, <1>2 DEF StreakOK, Run
<1>4. \A d \in visits[a] : d <= s.last
  BY <1>1, <1>2 DEF StreakOK
<1>5. \E m \in Days : Run(a, m, m + s.longest - 1)
  BY <1>1, <1>2, StreakAssumption DEF StreakOK, Run, Days
<1>6. \A m, n \in Days : Run(a, m, n) => n - m + 1 <= s.longest
  BY <1>1, <1>2, StreakAssumption DEF StreakOK, Run, Days
<1> QED BY <1>3, <1>4, <1>5, <1>6 DEF s

LEMMA UncountedOK == Uncounted \in RowType
  BY DEF Uncounted, RowType

LEMMA StreakStart == ASSUME StreakInit PROVE StreakInv
<1>1. StreakTypeOK
  BY UncountedOK, StreakAssumption DEF StreakInit, StreakTypeOK, LineType, Days
<1>2. \A k \in Lines : LineOK(line[k])
  BY DEF StreakInit, LineOK
<1> QED BY <1>1, <1>2 DEF StreakInit, StreakInv

-----------------------------------------------------------------------------
(* Arithmetic of one more day                                              *)

(* The first day of all.                                                   *)
LEMMA FirstDay ==
  ASSUME date \in Days, NEW s, s = [current |-> 1, longest |-> 1, last |-> date]
  PROVE  StreakOK(s, {date})
<1>0. date \in Nat /\ date >= 1
  BY StreakAssumption DEF Days
<1>1. s.last = date /\ s.current = 1 /\ s.longest = 1
  OBVIOUS
<1>2. \A m, n \in Nat : m <= n /\ m..n \subseteq {date} => n - m + 1 <= 1
  <2> SUFFICES ASSUME NEW m \in Nat, NEW n \in Nat, m <= n, m..n \subseteq {date} PROVE n - m + 1 <= 1
    OBVIOUS
  <2>1. m \in m..n /\ n \in m..n
    OBVIOUS
  <2>2. m = date /\ n = date
    BY <2>1
  <2> QED BY <1>0, <2>2
<1>3. \E m \in 1..date : m <= m + 1 - 1 /\ m..(m + 1 - 1) \subseteq {date}
  <2>1. date \in 1..date /\ date <= date + 1 - 1 /\ date..(date + 1 - 1) \subseteq {date}
    BY <1>0
  <2> QED BY <2>1
<1>4. (date + 1 - 1)..date \subseteq {date} /\ date - 1 \notin {date}
  BY <1>0
<1>5. date \in 1..date /\ 1 \in 1..date
  BY <1>0
<1> QED BY <1>1, <1>2, <1>3, <1>4, <1>5 DEF StreakOK

LEMMA CountedFields ==
  ASSUME NEW s \in RowType, date \in Days
  PROVE  LET c == Counted(s) IN
         /\ c \in RowType /\ c.last = date
         /\ c.current = IF s.last # 0 /\ s.last + 1 = date THEN s.current + 1 ELSE 1
         /\ c.longest = IF s.longest > c.current THEN s.longest ELSE c.current
<1> DEFINE current == IF Yesterday(s) THEN s.current + 1 ELSE 1
<1>1. current \in Nat /\ date \in Nat /\ s.longest \in Nat
  BY StreakAssumption DEF RowType, Days
<1>2. Larger(s.longest, current) \in Nat
  BY <1>1 DEF Larger
<1>3. Counted(s) = [current |-> current, longest |-> Larger(s.longest, current), last |-> date]
  BY DEF Counted
<1>4. current = IF s.last # 0 /\ s.last + 1 = date THEN s.current + 1 ELSE 1
  BY DEF Yesterday
<1> HIDE DEF current
<1> QED BY <1>1, <1>2, <1>3, <1>4 DEF RowType, Larger

(* A later day.                                                            *)
LEMMA OneMoreDay ==
  ASSUME date \in Days, NEW s \in RowType, NEW v \in SUBSET Nat, StreakOK(s, v), s.last # date
  PROVE  StreakOK(Counted(s), v \cup {date})
<1> DEFINE c == Counted(s)
           w == v \cup {date}
<1>0. /\ date \in Nat /\ s.last \in Nat /\ s.current \in Nat /\ s.longest \in Nat
      /\ 1 <= s.last /\ s.last < date /\ 1 <= s.current /\ s.current <= s.last
  BY StreakAssumption DEF RowType, StreakOK, Days
<1>1. /\ c.last = date /\ c.current \in Nat /\ c.longest \in Nat
      /\ c.current = IF s.last + 1 = date THEN s.current + 1 ELSE 1
      /\ c.longest = IF s.longest > c.current THEN s.longest ELSE c.current
  BY <1>0, CountedFields DEF RowType
<1> HIDE DEF c
<1>2. \A d \in v : 1 <= d /\ d <= s.last
  BY <1>0 DEF StreakOK
<1>3. c.last \in 1..date /\ c.current \in 1..c.last /\ \A d \in w : d \in 1..c.last
  <2>1. 1 <= c.current /\ c.current <= date
    BY <1>0, <1>1
  <2>2. \A d \in w : d \in Nat /\ 1 <= d /\ d <= date
    BY <1>0, <1>2
  <2> QED BY <1>0, <1>1, <2>1, <2>2
<1>4. (date + 1 - c.current)..date \subseteq w /\ date - c.current \notin w
  <2>1. CASE s.last + 1 = date
    <3>1. c.current = s.current + 1
      BY <1>1, <2>1
    <3>2. (s.last + 1 - s.current)..s.last \subseteq v /\ s.last - s.current \notin v
      BY DEF StreakOK
    <3>3. \A d \in (date + 1 - c.current)..date : d = date \/ d \in (s.last + 1 - s.current)..s.last
      BY <1>0, <2>1, <3>1
    <3>4. date - c.current = s.last - s.current /\ date - c.current # date
      BY <1>0, <2>1, <3>1
    <3> QED BY <3>2, <3>3, <3>4
  <2>2. CASE s.last + 1 # date
    <3>1. c.current = 1
      BY <1>1, <2>2
    <3>2. date - 1 \notin v /\ date - 1 # date
      BY <1>0, <1>2, <2>2
    <3>3. \A d \in (date + 1 - c.current)..date : d = date
      BY <1>0, <3>1
    <3> QED BY <3>1, <3>2, <3>3
  <2> QED BY <2>1, <2>2
<1>5. \E m \in 1..date : m <= m + c.longest - 1 /\ m..(m + c.longest - 1) \subseteq w
  <2>1. CASE c.longest = s.longest
    BY <2>1 DEF StreakOK
  <2>2. CASE c.longest = c.current
    <3> DEFINE m == date + 1 - c.current
    <3>1. m \in 1..date /\ m + c.longest - 1 = date /\ m <= date
      BY <1>0, <1>1, <1>3, <2>2
    <3> HIDE DEF m
    <3>2. m..date \subseteq w
      BY <1>4 DEF m
    <3> QED BY <3>1, <3>2
  <2> QED BY <1>1, <2>1, <2>2
<1>6. \A m, n \in Nat : m <= n /\ m..n \subseteq w => n - m + 1 <= c.longest
  <2> SUFFICES ASSUME NEW m \in Nat, NEW n \in Nat, m <= n, m..n \subseteq w
               PROVE  n - m + 1 <= c.longest
    OBVIOUS
  <2>0. c.longest >= s.longest /\ c.longest >= c.current
    BY <1>0, <1>1
  <2>1. \A d \in m..n : d \in v \/ d = date
    OBVIOUS
  <2>2. m \in m..n /\ n \in m..n
    OBVIOUS
  <2>3. n <= date
    BY <1>0, <1>2, <2>1, <2>2
  <2>4. CASE n < date
    <3>1. m..n \subseteq v
      BY <1>0, <2>1, <2>4
    <3>2. n - m + 1 <= s.longest
      BY <3>1 DEF StreakOK
    <3> QED BY <1>0, <1>1, <2>0, <3>2
  <2>5. CASE n = date /\ m = date
    BY <1>0, <1>1, <1>3, <2>0, <2>5
  <2>6. CASE n = date /\ m < date
    <3>1. date - 1 \in m..n /\ date - 1 # date
      BY <1>0, <2>6
    <3>2. s.last + 1 = date
      BY <1>0, <1>2, <2>1, <3>1
    <3>3. c.current = s.current + 1
      BY <1>1, <3>2
    <3>4. m > s.last - s.current
      <4> SUFFICES ASSUME m <= s.last - s.current PROVE FALSE
        BY <1>0
      <4>1. s.last - s.current \in m..n /\ s.last - s.current # date
        BY <1>0, <2>6
      <4> QED BY <2>1, <4>1 DEF StreakOK
    <3> QED BY <1>0, <1>1, <2>0, <2>6, <3>2, <3>3, <3>4
  <2> QED BY <1>0, <2>3, <2>4, <2>5, <2>6
<1> QED BY <1>1, <1>3, <1>4, <1>5, <1>6 DEF StreakOK, c

-----------------------------------------------------------------------------
(* The steps                                                               *)

(* Slot k goes on with l, and no row changes.                              *)
LEMMA LineKeeps ==
  ASSUME StreakInv, NEW k \in Lines, NEW l \in LineType, line' = [line EXCEPT ![k] = l], LineOK(l),
         UNCHANGED <<date, account, visits>>
  PROVE  StreakInv'
<1>1. line' \in [Lines -> LineType] /\ line'[k] = l /\ \A j \in Lines \ {k} : line'[j] = line[j]
  BY DEF StreakInv, StreakTypeOK
<1>2. StreakTypeOK'
  BY <1>1 DEF StreakInv, StreakTypeOK, Days
<1>3. \A j \in Lines : LineOK(line'[j])
  BY <1>1 DEF StreakInv
<1>4. \A j \in Lines : LineOK(line[j])'
  BY <1>1, <1>3 DEF LineOK, HasAccount, Counted, Yesterday
<1>5. \A a \in Addresses \ NightOwls :
        IF account'[a] = Uncounted THEN visits'[a] = {} ELSE StreakOK(account[a], visits[a])'
  BY DEF StreakInv, StreakOK
<1> QED BY <1>2, <1>4, <1>5 DEF StreakInv

LEMMA BusyLine ==
  ASSUME StreakInv, NEW k \in Lines, line[k].at # "none"
  PROVE  /\ line[k] \in [at : {"register", "password", "write"}, who : Addresses, row : RowType]
         /\ line[k] # NoLine /\ line[k].who \in Addresses /\ line[k].row \in RowType
         /\ LineOK(line[k])
  BY DEF StreakInv, StreakTypeOK, LineType, NoLine

LEMMA HangUpKeeps ==
  ASSUME StreakInv, NEW k \in Lines, HangUpLine(k), UNCHANGED <<date, account, visits>>
  PROVE  StreakInv'
<1>1. NoLine \in LineType /\ LineOK(NoLine)
  BY DEF LineType, LineOK
<1> QED BY <1>1, LineKeeps DEF HangUpLine

LEMMA BeginKeeps ==
  ASSUME StreakInv, NEW k \in Lines, NEW a \in Addresses, Register(k, a) \/ Login(k, a)
  PROVE  StreakInv'
<1>1. PICK at \in {"register", "password"} :
        Begin(k, a, at) /\ (at = "password" => HasAccount(a))
  BY DEF Register, Login
<1> DEFINE l == [at |-> at, who |-> a, row |-> account[a]]
<1>2. l \in LineType
  BY DEF StreakInv, StreakTypeOK, LineType
<1>3. LineOK(l)
  BY <1>1 DEF LineOK
<1>4. line' = [line EXCEPT ![k] = l] /\ UNCHANGED <<date, account, visits>>
  BY <1>1 DEF Begin, Register, Login
<1> HIDE DEF l
<1> QED BY <1>2, <1>3, <1>4, LineKeeps

LEMMA CountDayKeeps ==
  ASSUME StreakInv, NEW k \in Lines, CountDay(k)
  PROVE  StreakInv'
<1>0. UNCHANGED <<date, account, visits>> /\ line[k].at = "password"
  BY DEF CountDay
<1>1. CASE HangUpLine(k)
  BY <1>0, <1>1, HangUpKeeps
<1>2. CASE ~HangUpLine(k)
  <2> DEFINE l == [at |-> "write", who |-> line[k].who, row |-> Counted(line[k].row)]
  <2>1. line' = [line EXCEPT ![k] = l] /\ line[k].row.last # date
    BY <1>2 DEF CountDay
  <2>2. Counted(line[k].row) \in RowType /\ Counted(line[k].row).last = date
    BY <1>0, BusyLine, CountedFields DEF StreakInv, StreakTypeOK
  <2>3. l \in LineType
    BY <1>0, <2>2, BusyLine DEF LineType
  <2>4. LineOK(l)
    <3>1. LineOK(line[k]) /\ line[k] # NoLine
      BY <1>0, BusyLine
    <3> QED BY <1>0, <2>1, <2>2, <3>1 DEF LineOK
  <2> HIDE DEF l
  <2> QED BY <1>0, <2>1, <2>3, <2>4, LineKeeps
<1> QED BY <1>1, <1>2

(* The row of one address changes.                                         *)
LEMMA RowKeeps ==
  ASSUME StreakInv, NEW k \in Lines, NEW a \in Addresses, NEW s \in RowType, NEW v \in SUBSET Nat,
         HangUpLine(k), date' = date,
         account' = [account EXCEPT ![a] = s], visits' = [visits EXCEPT ![a] = v],
         a \notin NightOwls => /\ StreakOK(s, v) /\ s # Uncounted /\ s.last = date
                               /\ ~HasAccount(a) \/ account[a] = s
                                    \/ (account[a].last # date /\ s = Counted(account[a]))
  PROVE  StreakInv'
<1>1. /\ account' \in [Addresses -> RowType] /\ account'[a] = s
      /\ visits' \in [Addresses -> SUBSET Nat] /\ visits'[a] = v
      /\ \A b \in Addresses \ {a} : account'[b] = account[b] /\ visits'[b] = visits[b]
  BY DEF StreakInv, StreakTypeOK
<1>2. NoLine \in LineType /\ line' \in [Lines -> LineType]
      /\ \A j \in Lines : line'[j] = NoLine \/ line'[j] = line[j]
  BY DEF HangUpLine, StreakInv, StreakTypeOK, LineType
<1>3. StreakTypeOK'
  BY <1>1, <1>2 DEF StreakInv, StreakTypeOK, Days
<1>4. ASSUME NEW b \in Addresses \ NightOwls
      PROVE  IF account'[b] = Uncounted THEN visits'[b] = {} ELSE StreakOK(account[b], visits[b])'
  <2>1. IF account'[b] = Uncounted THEN visits'[b] = {} ELSE StreakOK(account'[b], visits'[b])
    BY <1>1 DEF StreakInv
  <2> QED BY <2>1 DEF StreakOK
<1>5. ASSUME NEW j \in Lines PROVE LineOK(line[j])'
  <2>1. CASE line'[j] = NoLine
    BY <2>1 DEF LineOK
  <2>2. CASE line'[j] # NoLine /\ line[j].who # a
    <3>1. line'[j] = line[j] /\ line[j].who \in Addresses /\ LineOK(line[j]) /\ line[j] # NoLine
      BY <1>2, <2>2, BusyLine DEF StreakInv, StreakTypeOK, LineType, NoLine
    <3>2. account'[line[j].who] = account[line[j].who]
      BY <1>1, <2>2, <3>1
    <3> QED BY <3>1, <3>2 DEF LineOK, HasAccount, Counted, Yesterday
  <2>3. CASE line'[j] # NoLine /\ line[j].who = a /\ a \notin NightOwls
    <3>1. line'[j] = line[j] /\ LineOK(line[j]) /\ line[j] # NoLine
      BY <1>2, <2>3 DEF StreakInv
    <3>2. PICK l \in LineType : l = line[j]
      BY DEF StreakInv, StreakTypeOK
    <3>3. /\ l.at \in {"password", "write"} => HasAccount(a)
          /\ l.at = "password" =>
               l.row = account[a] \/ (l.row.last # date /\ account[a] = Counted(l.row))
          /\ l.at = "write" => \/ l.row = account[a] /\ account[a].last = date
                               \/ account[a].last # date /\ l.row = Counted(account[a])
      BY <2>3, <3>1, <3>2 DEF LineOK
    <3>4. l.row \in RowType => Counted(l.row).last = date
      BY CountedFields DEF StreakInv, StreakTypeOK
    <3>5. l.at = "password" => l.row \in RowType
      BY <3>2, BusyLine
    <3>6. /\ l.at = "password" => l.row = s \/ (l.row.last # date /\ s = Counted(l.row))
          /\ l.at = "write" => l.row = s /\ s.last = date
      BY <2>3, <3>3, <3>4, <3>5
    <3> QED BY <1>1, <2>3, <3>1, <3>2, <3>6 DEF LineOK, HasAccount, Counted, Yesterday
  <2>4. CASE line'[j] # NoLine /\ line[j].who = a /\ a \in NightOwls
    BY <1>2, <2>4 DEF LineOK
  <2> QED BY <2>1, <2>2, <2>3, <2>4
<1> QED BY <1>3, <1>4, <1>5 DEF StreakInv

LEMMA CreateUserKeeps ==
  ASSUME StreakInv, NEW k \in Lines, CreateUser(k)
  PROVE  StreakInv'
<1>1. PICK a \in Addresses : a = line[k].who
  BY BusyLine DEF CreateUser
<1>2. CASE HasAccount(a)
  BY <1>1, <1>2, HangUpKeeps DEF CreateUser
<1>3. CASE ~HasAccount(a)
  <2> DEFINE s == [current |-> 1, longest |-> 1, last |-> date]
             v == visits[a] \cup {date}
  <2>1. /\ account' = [account EXCEPT ![a] = s] /\ visits' = [visits EXCEPT ![a] = v]
        /\ HangUpLine(k) /\ date' = date
    BY <1>1, <1>3 DEF CreateUser
  <2>2. date \in Nat /\ date \in Days
    BY DEF StreakInv, StreakTypeOK, Days
  <2>3. s \in RowType /\ v \in SUBSET Nat /\ s # Uncounted /\ s.last = date
    BY <2>2 DEF RowType, Uncounted, StreakInv, StreakTypeOK
  <2>4. a \notin NightOwls => StreakOK(s, v)
    <3> SUFFICES ASSUME a \notin NightOwls PROVE StreakOK(s, v)
      OBVIOUS
    <3>1. v = {date}
      BY <1>3 DEF StreakInv, HasAccount
    <3>2. StreakOK(s, {date})
      BY <2>2, FirstDay
    <3> QED BY <3>1, <3>2
  <2> HIDE DEF s, v
  <2> QED BY <1>3, <2>1, <2>3, <2>4, RowKeeps
<1> QED BY <1>2, <1>3

LEMMA WriteStreakKeeps ==
  ASSUME StreakInv, NEW k \in Lines, WriteStreak(k)
  PROVE  StreakInv'
<1>1. PICK a \in Addresses : a = line[k].who
  BY BusyLine DEF WriteStreak
<1>2. PICK s \in RowType : s = line[k].row
  BY BusyLine DEF WriteStreak
<1> DEFINE v == visits[a] \cup {s.last}
<1>3. /\ account' = [account EXCEPT ![a] = s] /\ visits' = [visits EXCEPT ![a] = v]
      /\ HangUpLine(k) /\ date' = date
  BY <1>1, <1>2 DEF WriteStreak
<1>4. v \in SUBSET Nat
  BY DEF RowType, StreakInv, StreakTypeOK
<1>5. ASSUME a \notin NightOwls
      PROVE  /\ StreakOK(s, v) /\ s # Uncounted /\ s.last = date
             /\ account[a] = s \/ (account[a].last # date /\ s = Counted(account[a]))
  <2>1. LineOK(line[k]) /\ line[k] # NoLine /\ line[k].at = "write"
    BY BusyLine DEF WriteStreak
  <2>2. \/ s = account[a] /\ account[a].last = date
        \/ account[a].last # date /\ s = Counted(account[a])
    BY <1>1, <1>2, <1>5, <2>1 DEF LineOK
  <2>3. /\ account[a] \in RowType /\ visits[a] \in SUBSET Nat
        /\ date \in Days /\ date \in Nat /\ date # 0
    BY <1>5, <2>2, StreakAssumption DEF StreakInv, StreakTypeOK, Days
  <2>4. CASE s = account[a] /\ account[a].last = date
    <3>0. s # Uncounted /\ StreakOK(s, visits[a])
      BY <1>5, <2>3, <2>4 DEF StreakInv, Uncounted
    <3>1. s.last + 1 - s.current \in Nat /\ s.last \in (s.last + 1 - s.current)..s.last
      BY <3>0 DEF StreakOK, RowType
    <3>2. v = visits[a]
      BY <2>3, <2>4, <3>0, <3>1 DEF StreakOK
    <3> HIDE DEF v
    <3> QED BY <2>4, <3>0, <3>2
  <2>5. CASE account[a].last # date /\ s = Counted(account[a])
    <3>1. s.last = date
      BY <2>3, <2>5, CountedFields
    <3>2. s # Uncounted
      BY <2>3, <3>1 DEF Uncounted
    <3>3. CASE account[a] # Uncounted
      <4>1. StreakOK(account[a], visits[a])
        BY <1>5, <3>3 DEF StreakInv
      <4>2. StreakOK(s, visits[a] \cup {date})
        BY <2>3, <2>5, <4>1, OneMoreDay
      <4> QED BY <2>5, <3>1, <3>2, <4>2
    <3>4. CASE account[a] = Uncounted
      <4>1. visits[a] = {}
        BY <1>5, <3>4 DEF StreakInv
      <4>2. s = [current |-> 1, longest |-> 1, last |-> date]
        BY <2>3, <2>5, <3>4 DEF Counted, Yesterday, Larger, Uncounted
      <4>3. StreakOK(s, visits[a] \cup {date})
        BY <2>3, <4>1, <4>2, FirstDay
      <4> QED BY <2>5, <3>1, <3>2, <4>3
    <3> QED BY <3>3, <3>4
  <2> QED BY <2>2, <2>4, <2>5
<1> HIDE DEF v
<1> QED BY <1>3, <1>4, <1>5, RowKeeps

(* Midnight passes while no login of theirs is under way.                  *)
LEMMA MidnightKeeps == ASSUME StreakInv, Midnight PROVE StreakInv'
<1>1. date' = date + 1 /\ date \in Nat /\ date' \in Days /\ UNCHANGED <<account, line, visits>>
  BY StreakAssumption DEF Midnight, StreakInv, StreakTypeOK, Days
<1>2. StreakTypeOK'
  BY <1>1 DEF StreakInv, StreakTypeOK
<1>3. ASSUME NEW s \in RowType, NEW v \in SUBSET Nat, StreakOK(s, v) PROVE StreakOK(s, v)'
  <2>1. 1..date \subseteq 1..date'
    BY <1>1
  <2> QED BY <1>3, <2>1 DEF StreakOK
<1>4. \A a \in Addresses \ NightOwls :
        IF account'[a] = Uncounted THEN visits'[a] = {} ELSE StreakOK(account[a], visits[a])'
  <2> TAKE a \in Addresses \ NightOwls
  <2>1. account[a] \in RowType /\ visits[a] \in SUBSET Nat
    BY DEF StreakInv, StreakTypeOK
  <2>2. CASE account[a] = Uncounted
    BY <1>1, <2>2 DEF StreakInv
  <2>3. CASE account[a] # Uncounted
    <3>1. PICK s \in RowType, v \in SUBSET Nat : s = account[a] /\ v = visits[a]
      BY <2>1
    <3>2. StreakOK(s, v)'
      BY <1>3, <2>3, <3>1 DEF StreakInv
    <3>3. StreakOK(account[a], visits[a])'
      BY <1>1, <3>1, <3>2 DEF StreakOK
    <3> QED BY <1>1, <2>3, <3>3
  <2> QED BY <2>2, <2>3
<1>5. \A k \in Lines : LineOK(line[k])'
  BY <1>1 DEF Midnight, LineOK, HasAccount
<1> QED BY <1>2, <1>4, <1>5 DEF StreakInv

LEMMA StreakKeeps == StreakInv /\ [StreakNext]_streakVars => StreakInv'
<1> SUFFICES ASSUME StreakInv, [StreakNext]_streakVars PROVE StreakInv'
  OBVIOUS
<1>1. CASE UNCHANGED streakVars
  BY <1>1 DEF streakVars, StreakInv, StreakTypeOK, StreakOK, LineOK, HasAccount, Counted, Yesterday, Days
<1>2. ASSUME NEW k \in Lines, RequestEnds(k) PROVE StreakInv'
  BY <1>2, HangUpKeeps DEF RequestEnds
<1> QED BY <1>1, <1>2, MidnightKeeps, CreateUserKeeps, CountDayKeeps, WriteStreakKeeps, BeginKeeps
        DEF StreakNext

(* The streak is the run of days that ends with the last visit, and the    *)
(* longest one is the length of the longest run, for any addresses, any    *)
(* number of days and of overlapping logins, but for users with a login    *)
(* under way at midnight.                                                  *)
THEOREM StreaksAreRuns == StreakSpec => []StreakCountsDays
  BY StreakStart, StreakKeeps, InvCounts, PTL DEF StreakSpec

-----------------------------------------------------------------------------
(* DailyJobs.  Time is the one clock of the jobs: every fact about a user is  *)
(* one about the time that has passed since they were last seen.              *)

(* When the absence of u is remarked on, and when people are reminded of e.*)
NudgeTime(u) == seen[u] + 2 * InactiveDays + 1
ReminderTime(e) == StartOf[e] - 3

(* Job j has still to deal with row, or has not started.                   *)
Ahead(j, row) == j \in due \/ row \in todo[j]

ScheduleOK ==
  /\ time \in Nat \ {0} /\ mishaps \in Nat
  /\ seen \in [Subjects -> 1..time] /\ \A u \in Subjects : seen[u] % 2 = 1
  /\ followUp \in [Subjects -> 0..time] /\ lastMail \in [Subjects -> 0..time]
  /\ joined \in [Fairs -> [Subjects -> 0..time]] /\ since \in [Fairs -> 0..time]
  /\ nudges \in [Subjects -> Nat] /\ reminders \in [Registrations -> Nat]
  /\ due \subseteq Jobs /\ todo \in [Jobs -> SUBSET (Subjects \cup Registrations)]
  /\ mailed \subseteq Subjects /\ unlucky \subseteq Subjects
  /\ ~JobTime => due = {}
  /\ \A u, v \in mailed : u = v
  /\ mailed # {} => "prospects" \notin due
  /\ \A j \in Jobs : todo[j] # {} => j \notin due

(* The last hour at which jobs began, or begin.                            *)
JobHour == IF JobTime THEN time ELSE time - 1

Nudged(u) ==
  /\ u \in todo["inactivity"] => seen[u] = time \/ JobHour = NudgeTime(u)
  /\ nudges[u] <= 1
  /\ JobHour < NudgeTime(u) \/ (JobHour = NudgeTime(u) /\ Ahead("inactivity", u)) => nudges[u] = 0
  /\ /\ u \notin unlucky
     /\ JobHour > NudgeTime(u) \/ (JobHour = NudgeTime(u) /\ ~Ahead("inactivity", u))
     => nudges[u] = 1

Reminded(e, u) ==
  LET r == <<e, u>> IN
  /\ r \in todo["reminders"] => JobHour = ReminderTime(e)
  /\ reminders[r] <= 1
  /\ JobHour < ReminderTime(e) \/ (JobHour = ReminderTime(e) /\ Ahead("reminders", r)) =>
       reminders[r] = 0
  /\ /\ u \notin unlucky
     /\ joined[e][u] \in 1..ReminderTime(e) /\ since[e] \in 1..ReminderTime(e)
     /\ JobHour > ReminderTime(e) \/ (JobHour = ReminderTime(e) /\ ~Ahead("reminders", r))
     => reminders[r] = 1

(* The row is as old as the mail, or was written half a day later, in the  *)
(* run that sent the mail.                                                 *)
Noted(u) ==
  \/ followUp[u] = lastMail[u]
  \/ lastMail[u] # 0 /\ lastMail[u] % 2 = 0 /\ followUp[u] = lastMail[u] + 1

Mailed(u) ==
  /\ u \in mailed => lastMail[u] # 0 /\ lastMail[u] >= JobHour /\ u \notin todo["prospects"]
  /\ u \notin unlucky =>
       /\ u \in todo["prospects"] => followUp[u] = 0 \/ followUp[u] + 2 * CooldownDays < JobHour
       /\ u \notin mailed => Noted(u)
       /\ seen[u] + 2 * ThresholdDays <= JobHour /\ ~Ahead("prospects", u) =>
            lastMail[u] # 0 /\ lastMail[u] + 2 * CooldownDays >= JobHour
       /\ seen[u] + 2 * ThresholdDays + 2 <= JobHour =>
            lastMail[u] # 0 /\ lastMail[u] + 2 * CooldownDays + 2 >= JobHour

JobsInv ==
  /\ ScheduleOK
  /\ \A u \in Subjects : Nudged(u) /\ Mailed(u) /\ \A e \in Fairs : Reminded(e, u)

-----------------------------------------------------------------------------
LEMMA JobConstants ==
  /\ InactiveDays \in Nat /\ ThresholdDays \in Nat /\ CooldownDays \in Nat
  /\ \A e \in Fairs : StartOf[e] \in Nat /\ StartOf[e] % 2 = 1 /\ StartOf[e] > 4
  /\ Jobs = {"inactivity", "prospects", "reminders"}
  /\ \A e \in Fairs, u \in Subjects : <<e, u>> \in Registrations
BY JobsAssumption DEF Jobs, Registrations

LEMMA ScheduleKeeps ==
  ASSUME ScheduleOK, [JobsNext]_jobVars
  PROVE  ScheduleOK'
<1>0. /\ time \in Nat \ {0} /\ mishaps \in Nat
      /\ seen \in [Subjects -> 1..time] /\ (\A u \in Subjects : seen[u] % 2 = 1)
      /\ followUp \in [Subjects -> 0..time] /\ lastMail \in [Subjects -> 0..time]
      /\ joined \in [Fairs -> [Subjects -> 0..time]] /\ since \in [Fairs -> 0..time]
      /\ nudges \in [Subjects -> Nat] /\ reminders \in [Registrations -> Nat]
      /\ due \subseteq Jobs /\ todo \in [Jobs -> SUBSET (Subjects \cup Registrations)]
      /\ mailed \subseteq Subjects /\ unlucky \subseteq Subjects
      /\ (~JobTime => due = {})
      /\ (\A u, v \in mailed : u = v) /\ (mailed # {} => "prospects" \notin due)
      /\ (\A j \in Jobs : todo[j] # {} => j \notin due)
  BY DEF ScheduleOK
<1>1. Jobs = {"inactivity", "prospects", "reminders"}
  BY DEF Jobs
<1>2. ASSUME NEW u \in Subjects, BeActive(u) PROVE ScheduleOK'
  <2>1. time % 2 = 1
    BY <1>0, <1>2 DEF BeActive, JobTime
  <2>2. seen' = [seen EXCEPT ![u] = time] /\ seen' \in [Subjects -> 1..time]
    BY <1>0, <1>2 DEF BeActive
  <2>3. \A v \in Subjects : seen'[v] % 2 = 1
    BY <1>0, <2>1, <2>2
  <2>4. nudges' \in [Subjects -> Nat]
    BY <1>0, <1>2 DEF BeActive
  <2> QED BY <1>0, <1>2, <2>2, <2>3, <2>4 DEF BeActive, ScheduleOK, JobTime
<1>3. ASSUME NEW u \in Subjects, NEW e \in Fairs, SetJoined(e, u) PROVE ScheduleOK'
  <2>1. PICK t \in 0..time : joined' = [joined EXCEPT ![e] = [joined[e] EXCEPT ![u] = t]]
    <3>1. 0 \in 0..time /\ time \in 0..time
      BY <1>0
    <3> QED BY <1>3, <3>1 DEF SetJoined
  <2>2. joined[e] \in [Subjects -> 0..time]
    BY <1>0
  <2>3. [joined[e] EXCEPT ![u] = t] \in [Subjects -> 0..time]
    BY <2>2
  <2>4. joined' \in [Fairs -> [Subjects -> 0..time]]
    BY <1>0, <2>1, <2>3
  <2> QED BY <1>0, <1>3, <2>4 DEF SetJoined, ScheduleOK, JobTime
<1>13. ASSUME NEW e \in Fairs, SetActive(e) PROVE ScheduleOK'
  <2>1. since' \in [Fairs -> 0..time]
    BY <1>0, <1>13 DEF SetActive
  <2> QED BY <1>0, <1>13, <2>1 DEF SetActive, ScheduleOK, JobTime
<1>4. ASSUME Pass PROVE ScheduleOK'
  <2>1. time' = time + 1 /\ 0..time \subseteq 0..time' /\ 1..time \subseteq 1..time'
    BY <1>0, <1>4 DEF Pass
  <2>2. /\ seen' \in [Subjects -> 1..time'] /\ followUp' \in [Subjects -> 0..time']
        /\ lastMail' \in [Subjects -> 0..time'] /\ joined' \in [Fairs -> [Subjects -> 0..time']]
        /\ since' \in [Fairs -> 0..time']
    BY <1>0, <1>4, <2>1 DEF Pass, columns
  <2>3. /\ due' \subseteq Jobs /\ UNCHANGED <<mailed, todo>>
        /\ due' = {} \/ (mailed = {} /\ \A j \in Jobs : todo[j] = {})
        /\ (~JobTime' => due' = {})
    <3>1. CASE JobTime
      <4>0. time \in Nat /\ time % 2 = 0 /\ time' = time + 1
        BY <1>0, <2>1, <3>1 DEF JobTime
      <4>1. time' % 2 # 0
        BY <4>0
      <4> QED BY <1>4, <4>1 DEF Pass, JobTime
    <3>2. CASE ~JobTime
      BY <1>4, <3>2 DEF Pass, JobTime, AllDone
    <3> QED BY <3>1, <3>2
  <2> QED BY <1>0, <1>4, <2>1, <2>2, <2>3 DEF Pass, ScheduleOK, columns
<1>5. ASSUME NEW j \in Jobs, StartJob(j) PROVE ScheduleOK'
  <2>1. List(j) \subseteq Subjects \cup Registrations
    <3>1. {u \in Subjects : InWindow(u)} \subseteq Subjects
          /\ {u \in Subjects : seen[u] <= Ago(ThresholdDays) /\ CooledDown(u)} \subseteq Subjects
          /\ {r \in Registrations : joined[r[1]][r[2]] # 0 /\ since[r[1]] # 0 /\ Tomorrow(r[1])} \subseteq Registrations
      OBVIOUS
    <3>2. \/ j = "inactivity" /\ List(j) = {u \in Subjects : InWindow(u)}
          \/ j = "prospects" /\ List(j) = {u \in Subjects : seen[u] <= Ago(ThresholdDays) /\ CooledDown(u)}
          \/ j = "reminders" /\ List(j) = {r \in Registrations : joined[r[1]][r[2]] # 0 /\ since[r[1]] # 0 /\ Tomorrow(r[1])}
      BY <1>1 DEF List
    <3> QED BY <3>1, <3>2
  <2>2. todo' \in [Jobs -> SUBSET (Subjects \cup Registrations)]
    BY <1>0, <1>5, <2>1 DEF StartJob
  <2>3. JobTime /\ due' = due \ {j} /\ (\A i \in Jobs : i # j => todo'[i] = todo[i])
    BY <1>0, <1>5 DEF StartJob
  <2> QED BY <1>0, <1>5, <2>2, <2>3 DEF StartJob, ScheduleOK, columns, JobTime
<1>6. ASSUME NEW j \in Jobs, NEW row, Checked(j, row), UNCHANGED <<time, columns, followUp, due, unlucky, mishaps>>,
             nudges' \in [Subjects -> Nat], reminders' \in [Registrations -> Nat],
             lastMail' \in [Subjects -> 0..time], mailed' \subseteq Subjects,
             \A u, v \in mailed' : u = v, mailed' # {} => "prospects" \notin due
      PROVE  ScheduleOK'
  <2>1. todo' \in [Jobs -> SUBSET (Subjects \cup Registrations)]
        /\ \A i \in Jobs : todo'[i] \subseteq todo[i]
    BY <1>0, <1>6 DEF Checked
  <2> QED BY <1>0, <1>6, <2>1 DEF ScheduleOK, columns, JobTime
<1>7. ASSUME NEW u \in Subjects, Nudge(u) PROVE ScheduleOK'
  <2>1. nudges' \in [Subjects -> Nat]
    BY <1>0, <1>7 DEF Nudge
  <2> QED BY <1>0, <1>1, <1>6, <1>7, <2>1 DEF Nudge
<1>8. ASSUME NEW r \in Registrations, Remind(r) PROVE ScheduleOK'
  <2>1. reminders' \in [Registrations -> Nat]
    BY <1>0, <1>8 DEF Remind
  <2> QED BY <1>0, <1>1, <1>6, <1>8, <2>1 DEF Remind
<1>9. ASSUME NEW u \in Subjects, SendReengagement(u) PROVE ScheduleOK'
  <2>1. lastMail' \in [Subjects -> 0..time]
    BY <1>0, <1>9 DEF SendReengagement
  <2>2. todo["prospects"] # {} /\ "prospects" \in Jobs
    BY <1>1, <1>9 DEF SendReengagement
  <2> QED BY <1>0, <1>6, <1>9, <2>1, <2>2 DEF SendReengagement
<1>10. ASSUME NEW u \in Subjects, CreateFollowUp(u) \/ FollowUpFails(u) PROVE ScheduleOK'
  <2>1. CASE CreateFollowUp(u)
    <3>1. followUp' \in [Subjects -> 0..time]
      BY <1>0, <2>1 DEF CreateFollowUp
    <3> QED BY <1>0, <2>1, <3>1 DEF CreateFollowUp, ScheduleOK, columns, JobTime
  <2>2. CASE FollowUpFails(u)
    BY <1>0, <2>2 DEF FollowUpFails, NextUser, Mishap, ScheduleOK, columns, JobTime
  <2> QED BY <1>10, <2>1, <2>2
<1>11. ASSUME \/ \E j \in Jobs : NotificationFails(j)
              \/ Restart
       PROVE  ScheduleOK'
  <2>1. /\ todo' \in [Jobs -> SUBSET (Subjects \cup Registrations)]
        /\ \A i \in Jobs : todo'[i] \in {todo[i], {}}
    BY <1>0, <1>11 DEF NotificationFails, Restart
  <2>2. /\ UNCHANGED <<time, columns, followUp, nudges, lastMail, reminders>>
        /\ due' \subseteq due /\ mailed' \subseteq mailed /\ unlucky' = Subjects /\ mishaps' \in Nat
    BY <1>0, <1>11 DEF NotificationFails, Restart, Mishap
  <2> QED BY <1>0, <2>1, <2>2 DEF ScheduleOK, columns, JobTime
<1>12. CASE UNCHANGED jobVars
  BY <1>0, <1>12 DEF ScheduleOK, jobVars, JobTime
<1> QED BY <1>2, <1>3, <1>4, <1>5, <1>7, <1>8, <1>9, <1>10, <1>11, <1>12, <1>13 DEF JobsNext

(* Even times are not next to each other.                                 *)
LEMMA EvensApart ==
  ASSUME NEW i \in Nat, NEW j \in Nat, i % 2 = 0, j % 2 = 0
  PROVE  i # j + 1
OBVIOUS

(* The hour of the jobs is an even one, now or half a day ago, and the next*)
(* one comes when the jobs of the last one are done.                       *)
LEMMA Hours ==
  ASSUME ScheduleOK
  PROVE  JobHour \in Nat /\ JobHour % 2 = 0 /\ JobHour = IF JobTime THEN time ELSE time - 1
<1>1. time \in Nat /\ time > 0
  BY DEF ScheduleOK
<1>2. CASE time % 2 = 0
  BY <1>1, <1>2 DEF JobHour, JobTime
<1>3. CASE time % 2 # 0
  <2>1. (time - 1) % 2 = 0 /\ time - 1 \in Nat
    BY <1>1, <1>3
  <2> QED BY <1>3, <2>1 DEF JobHour, JobTime
<1> QED BY <1>2, <1>3

LEMMA PassHours ==
  ASSUME ScheduleOK, Pass
  PROVE  /\ UNCHANGED <<seen, joined, since, followUp, todo, mailed, nudges, lastMail, reminders, unlucky>>
         /\ due = {} /\ time' = time + 1
         /\ \/ JobTime /\ JobHour' = JobHour /\ due' = {}
            \/ /\ ~JobTime /\ JobHour' = JobHour + 2 /\ due' = Jobs /\ mailed = {}
               /\ \A j \in Jobs : todo[j] = {}
<1>1. /\ UNCHANGED <<seen, joined, since, followUp, todo, mailed, nudges, lastMail, reminders, unlucky>>
      /\ due = {} /\ time' = time + 1 /\ time \in Nat
      /\ due' = IF time' % 2 = 0 THEN Jobs ELSE {}
  BY DEF Pass, ScheduleOK, columns
<1>2. CASE JobTime
  <2>1. time' % 2 # 0
    BY <1>1, <1>2 DEF JobTime
  <2>2. JobHour' = time /\ JobHour = time
    BY <1>1, <1>2, <2>1 DEF JobHour, JobTime
  <2> QED BY <1>1, <1>2, <2>1, <2>2
<1>3. CASE ~JobTime
  <2>1. time' % 2 = 0
    BY <1>1, <1>3 DEF JobTime
  <2>2. JobHour' = time + 1 /\ JobHour = time - 1
    BY <1>1, <1>3, <2>1 DEF JobHour, JobTime
  <2>3. mailed = {} /\ \A j \in Jobs : todo[j] = {}
    BY <1>3 DEF Pass, AllDone
  <2> QED BY <1>1, <1>3, <2>1, <2>2, <2>3
<1> QED BY <1>2, <1>3

(* The job that remarks on the absence of u.                               *)
LEMMA NudgesLess ==
  ASSUME NEW u \in Subjects, Nudged(u), UNCHANGED <<time, seen, nudges>>,
         todo'["inactivity"] \subseteq todo["inactivity"], due' \subseteq due,
         \/ unlucky' = Subjects
         \/ /\ unlucky \subseteq unlucky' /\ todo'["inactivity"] = todo["inactivity"]
            /\ "inactivity" \in due => "inactivity" \in due'
  PROVE  Nudged(u)'
BY DEF Nudged, NudgeTime, Ahead, JobHour, JobTime

LEMMA NudgesKeep ==
  ASSUME ScheduleOK, NEW u \in Subjects, Nudged(u), [JobsNext]_jobVars
  PROVE  Nudged(u)'
<1>0. /\ time \in Nat \ {0} /\ seen \in [Subjects -> 1..time] /\ seen[u] \in Nat /\ seen[u] % 2 = 1
      /\ nudges \in [Subjects -> Nat] /\ unlucky \subseteq Subjects
      /\ todo \in [Jobs -> SUBSET (Subjects \cup Registrations)]
      /\ (~JobTime => due = {})
      /\ (todo["inactivity"] # {} => "inactivity" \notin due)
      /\ InactiveDays \in Nat /\ Jobs = {"inactivity", "prospects", "reminders"}
      /\ JobHour \in Nat /\ JobHour % 2 = 0 /\ JobHour = IF JobTime THEN time ELSE time - 1
  BY JobConstants, Hours DEF ScheduleOK
<1>1. NudgeTime(u) \in Nat /\ NudgeTime(u) % 2 = 0
  BY <1>0 DEF NudgeTime
<1>2. ASSUME NEW v \in Subjects, BeActive(v) PROVE Nudged(u)'
  <2>0. UNCHANGED <<todo, due, time, unlucky>> /\ JobHour' = JobHour /\ ~JobTime
    BY <1>2 DEF BeActive, JobHour, JobTime
  <2>1. CASE v = u
    <3>1. seen'[u] = time /\ nudges'[u] = 0 /\ JobHour = time - 1
      BY <1>0, <1>2, <2>0, <2>1 DEF BeActive
    <3>2. NudgeTime(u)' = time + 2 * InactiveDays + 1
      BY <3>1 DEF NudgeTime
    <3>3. JobHour' < NudgeTime(u)'
      BY <1>0, <2>0, <3>1, <3>2
    <3> QED BY <1>0, <2>0, <3>1, <3>2, <3>3 DEF Nudged
  <2>2. CASE v # u
    <3>1. seen'[u] = seen[u] /\ nudges'[u] = nudges[u] /\ UNCHANGED <<todo, due, time, unlucky>>
      BY <1>0, <1>2, <2>2 DEF BeActive
    <3> QED BY <2>0, <3>1 DEF Nudged, NudgeTime, Ahead
  <2> QED BY <2>1, <2>2
<1>3. ASSUME Pass PROVE Nudged(u)'
  <2>1. /\ UNCHANGED <<seen, todo, nudges, unlucky>> /\ due = {} /\ NudgeTime(u)' = NudgeTime(u)
        /\ time' = time + 1
    BY <1>3, PassHours DEF NudgeTime
  <2>2. CASE JobTime /\ JobHour' = JobHour /\ due' = {}
    <3>1. seen[u] # time
      BY <1>0, <2>2 DEF JobTime
    <3> QED BY <2>1, <2>2, <3>1 DEF Nudged, Ahead
  <2>3. CASE JobHour' = JobHour + 2 /\ due' = Jobs /\ \A j \in Jobs : todo[j] = {}
    <3>1. JobHour # NudgeTime(u) + 1 /\ NudgeTime(u) # JobHour + 1
      BY <1>0, <1>1, EvensApart
    <3>2. todo["inactivity"] = {} /\ Ahead("inactivity", u)' /\ ~Ahead("inactivity", u)
      BY <1>0, <2>1, <2>3 DEF Ahead
    <3> QED BY <1>0, <1>1, <2>1, <2>3, <3>1, <3>2 DEF Nudged
  <2> QED BY <1>3, <2>2, <2>3, PassHours
<1>4. ASSUME StartJob("inactivity") PROVE Nudged(u)'
  <2>1. /\ due' = due \ {"inactivity"} /\ "inactivity" \in due /\ UNCHANGED <<time, seen, nudges, unlucky>>
        /\ todo'["inactivity"] = {v \in Subjects : InWindow(v)}
    BY <1>0, <1>4 DEF StartJob, List, columns
  <2>2. time % 2 = 0 /\ JobHour = time /\ JobHour' = JobHour /\ NudgeTime(u)' = NudgeTime(u)
    BY <1>0, <2>1 DEF JobTime, JobHour, NudgeTime
  <2>3. InWindow(u) <=> time = NudgeTime(u)
    BY <1>0, <1>1, <2>2 DEF InWindow, Ago, NudgeTime
  <2> QED BY <1>0, <1>1, <2>1, <2>2, <2>3 DEF Nudged, Ahead
<1>5. ASSUME NEW v \in Subjects, Nudge(v) PROVE Nudged(u)'
  <2>1. /\ v \in todo["inactivity"] /\ todo'["inactivity"] = todo["inactivity"] \ {v}
        /\ nudges' = IF seen[v] = time THEN nudges ELSE [nudges EXCEPT ![v] = @ + 1]
        /\ UNCHANGED <<time, seen, due, unlucky>>
        /\ "inactivity" \notin due /\ NudgeTime(u)' = NudgeTime(u) /\ JobHour' = JobHour
    BY <1>0, <1>5 DEF Nudge, Checked, columns, NudgeTime, JobHour, JobTime
  <2>2. CASE v = u /\ seen[u] # time
    <3>1. JobHour = NudgeTime(u) /\ nudges[u] = 0
      BY <2>1, <2>2 DEF Nudged, Ahead
    <3>2. nudges'[u] = 1
      BY <1>0, <2>1, <2>2, <3>1
    <3> QED BY <1>0, <1>1, <2>1, <2>2, <3>1, <3>2 DEF Nudged, Ahead
  <2>3. CASE v = u /\ seen[u] = time
    <3>1. JobHour < NudgeTime(u)
      BY <1>0, <2>3 DEF NudgeTime
    <3> QED BY <1>0, <1>1, <2>1, <2>3, <3>1 DEF Nudged, Ahead
  <2>4. CASE v # u
    <3>1. nudges'[u] = nudges[u] /\ (u \in todo'["inactivity"] <=> u \in todo["inactivity"])
      BY <1>0, <2>1, <2>4
    <3> QED BY <2>1, <3>1 DEF Nudged, Ahead
  <2> QED BY <2>2, <2>3, <2>4
<1>6. ASSUME \/ \E v \in Subjects :
                  \/ SendReengagement(v) \/ CreateFollowUp(v) \/ FollowUpFails(v)
                  \/ \E e \in Fairs : SetJoined(e, v)
             \/ \E e \in Fairs : SetActive(e)
             \/ \E r \in Registrations : Remind(r)
             \/ \E j \in Jobs \ {"inactivity"} : StartJob(j)
      PROVE  Nudged(u)'
  <2>1. UNCHANGED <<time, seen, nudges>> /\ unlucky \subseteq unlucky' /\ due' \subseteq due
        /\ ("inactivity" \in due => "inactivity" \in due')
    BY <1>6 DEF SendReengagement, CreateFollowUp, FollowUpFails, SetJoined, SetActive, Remind, StartJob, columns
  <2>2. todo'["inactivity"] = todo["inactivity"]
    BY <1>0, <1>6 DEF SendReengagement, CreateFollowUp, FollowUpFails, SetJoined, SetActive, Remind, StartJob,
                      Checked, NextUser
  <2> QED BY <2>1, <2>2, NudgesLess
<1>7. ASSUME NEW j \in Jobs, NotificationFails(j) PROVE Nudged(u)'
  <2>1. /\ UNCHANGED <<time, seen, nudges, due>> /\ unlucky' = Subjects
        /\ todo'["inactivity"] \subseteq todo["inactivity"]
    BY <1>0, <1>7 DEF NotificationFails, columns
  <2> QED BY <2>1, NudgesLess
<1>8. ASSUME Restart PROVE Nudged(u)'
  <2>1. /\ UNCHANGED <<time, seen, nudges>> /\ unlucky' = Subjects /\ due' \subseteq due
        /\ todo'["inactivity"] \subseteq todo["inactivity"]
    BY <1>0, <1>8 DEF Restart, columns
  <2> QED BY <2>1, NudgesLess
<1>9. CASE UNCHANGED jobVars
  <2>1. UNCHANGED <<time, seen, nudges, due, todo, unlucky>>
    BY <1>9 DEF jobVars
  <2> QED BY <2>1, NudgesLess
<1> QED BY <1>2, <1>3, <1>4, <1>5, <1>6, <1>7, <1>8, <1>9 DEF JobsNext

(* The reminders of e to u.                                                *)
LEMMA RemindersLess ==
  ASSUME NEW e \in Fairs, NEW u \in Subjects, Reminded(e, u), UNCHANGED <<time, joined, since, reminders>>,
         todo'["reminders"] \subseteq todo["reminders"], due' \subseteq due,
         \/ unlucky' = Subjects
         \/ /\ unlucky \subseteq unlucky' /\ todo'["reminders"] = todo["reminders"]
            /\ "reminders" \in due => "reminders" \in due'
  PROVE  Reminded(e, u)'
BY DEF Reminded, ReminderTime, Ahead, JobHour, JobTime

LEMMA RemindersKeep ==
  ASSUME ScheduleOK, NEW e \in Fairs, NEW u \in Subjects, Reminded(e, u), [JobsNext]_jobVars
  PROVE  Reminded(e, u)'
<1>0. /\ time \in Nat \ {0} /\ joined \in [Fairs -> [Subjects -> 0..time]] /\ joined[e][u] \in Nat
      /\ joined[e][u] <= time /\ since \in [Fairs -> 0..time] /\ since[e] \in Nat /\ since[e] <= time
      /\ reminders \in [Registrations -> Nat] /\ unlucky \subseteq Subjects
      /\ todo \in [Jobs -> SUBSET (Subjects \cup Registrations)]
      /\ (~JobTime => due = {})
      /\ (todo["reminders"] # {} => "reminders" \notin due)
      /\ Jobs = {"inactivity", "prospects", "reminders"} /\ <<e, u>> \in Registrations
  BY JobConstants DEF ScheduleOK
<1>1. PICK at \in Nat : at = ReminderTime(e) /\ at = ReminderTime(e)' /\ at % 2 = 0 /\ StartOf[e] = at + 3
  BY JobConstants DEF ReminderTime
<1>t. time \in Nat /\ JobHour \in Nat /\ JobHour % 2 = 0 /\ JobHour = IF JobTime THEN time ELSE time - 1
  BY <1>0, Hours
<1>2. ASSUME NEW f \in Fairs, SetActive(f) \/ \E v \in Subjects : SetJoined(f, v) PROVE Reminded(e, u)'
  <2>1. /\ ~JobTime /\ UNCHANGED <<todo, due, time, unlucky, reminders>> /\ JobHour' = JobHour
        /\ time = JobHour + 1 /\ time % 2 # 0
    BY <1>2, <1>t DEF SetActive, SetJoined, JobHour, JobTime
  <2>2. joined'[e][u] \in {joined[e][u], 0, time} /\ since'[e] \in {since[e], 0, time}
    <3>1. CASE SetActive(f)
      BY <1>0, <3>1 DEF SetActive
    <3>2. ASSUME NEW v \in Subjects, SetJoined(f, v)
          PROVE  joined'[e][u] \in {joined[e][u], 0, time} /\ since'[e] = since[e]
      BY <1>0, <3>2 DEF SetJoined
    <3> QED BY <1>2, <3>1, <3>2
  <2>3. time \in 1..at => JobHour < at
    BY <1>1, <1>t, <2>1
  <2> QED BY <1>1, <1>t, <2>1, <2>2, <2>3 DEF Reminded, Ahead
<1>3. ASSUME Pass PROVE Reminded(e, u)'
  <2>1. UNCHANGED <<joined, since, todo, reminders, unlucky>> /\ due = {}
    BY <1>3, PassHours
  <2>2. CASE JobHour' = JobHour /\ due' = {}
    BY <1>1, <2>1, <2>2 DEF Reminded, Ahead
  <2>3. CASE JobHour' = JobHour + 2 /\ due' = Jobs /\ \A j \in Jobs : todo[j] = {}
    <3>1. JobHour # at + 1 /\ at # JobHour + 1
      BY <1>t, <1>1, EvensApart
    <3>2. todo'["reminders"] = {} /\ Ahead("reminders", <<e, u>>)' /\ ~Ahead("reminders", <<e, u>>)
      BY <1>0, <2>1, <2>3 DEF Ahead
    <3>3. (JobHour' > at => JobHour >= at) /\ (JobHour' <= at => JobHour < at)
      BY <1>t, <1>1, <2>3, <3>1
    <3> QED BY <1>t, <1>1, <2>1, <2>3, <3>2, <3>3 DEF Reminded
  <2> QED BY <1>3, <2>2, <2>3, PassHours
<1>4. ASSUME StartJob("reminders") PROVE Reminded(e, u)'
  <2>1. /\ due' = due \ {"reminders"} /\ "reminders" \in due /\ UNCHANGED <<time, joined, since, reminders, unlucky>>
        /\ todo'["reminders"] = {r \in Registrations : joined[r[1]][r[2]] # 0 /\ since[r[1]] # 0 /\ Tomorrow(r[1])}
    BY <1>0, <1>4 DEF StartJob, List, columns
  <2>2. time % 2 = 0 /\ JobHour = time /\ JobHour' = JobHour
    BY <1>0, <1>t, <2>1 DEF JobTime, JobHour
  <2>3. Tomorrow(e) <=> time = at
    <3>1. Tomorrow(e) <=> at <= time + 1 /\ time <= at + 1
      BY <1>0, <1>1 DEF Tomorrow
    <3>2. time # at + 1 /\ at # time + 1
      BY <1>t, <1>1, <2>2, EvensApart
    <3> QED BY <1>t, <3>1, <3>2
  <2>4. <<e, u>> \in todo'["reminders"] <=> joined[e][u] # 0 /\ since[e] # 0 /\ time = at
    BY <1>0, <2>1, <2>3
  <2> QED BY <1>0, <1>1, <2>1, <2>2, <2>4 DEF Reminded, Ahead
<1>5. ASSUME NEW r \in Registrations, Remind(r) PROVE Reminded(e, u)'
  <2>1. /\ r \in todo["reminders"] /\ todo'["reminders"] = todo["reminders"] \ {r}
        /\ reminders' = [reminders EXCEPT ![r] = @ + 1] /\ UNCHANGED <<time, joined, since, due, unlucky>>
        /\ "reminders" \notin due /\ JobHour' = JobHour
    BY <1>0, <1>5 DEF Remind, Checked, columns, JobHour, JobTime
  <2>2. CASE r = <<e, u>>
    <3>1. JobHour = at /\ reminders[<<e, u>>] = 0
      BY <1>1, <2>1, <2>2 DEF Reminded, Ahead
    <3>2. reminders'[<<e, u>>] = 1 /\ at = JobHour' /\ <<e, u>> \notin todo'["reminders"]
      BY <1>0, <1>1, <2>1, <2>2, <3>1
    <3> QED BY <1>0, <1>1, <2>1, <3>1, <3>2 DEF Reminded, Ahead
  <2>3. CASE r # <<e, u>>
    <3>1. reminders'[<<e, u>>] = reminders[<<e, u>>]
          /\ (<<e, u>> \in todo'["reminders"] <=> <<e, u>> \in todo["reminders"])
      BY <1>0, <2>1, <2>3
    <3> QED BY <1>1, <2>1, <3>1 DEF Reminded, Ahead
  <2> QED BY <2>2, <2>3
<1>6. ASSUME \/ \E v \in Subjects :
                  \/ SendReengagement(v) \/ CreateFollowUp(v) \/ FollowUpFails(v)
                  \/ BeActive(v) \/ Nudge(v)
             \/ \E j \in Jobs \ {"reminders"} : StartJob(j)
      PROVE  Reminded(e, u)'
  <2>1. UNCHANGED <<time, joined, since, reminders>> /\ unlucky \subseteq unlucky' /\ due' \subseteq due
        /\ ("reminders" \in due => "reminders" \in due')
    BY <1>6 DEF SendReengagement, CreateFollowUp, FollowUpFails, BeActive, Nudge, StartJob, columns
  <2>2. todo'["reminders"] = todo["reminders"]
    BY <1>0, <1>6 DEF SendReengagement, CreateFollowUp, FollowUpFails, BeActive, Nudge, StartJob,
                      Checked, NextUser
  <2> QED BY <2>1, <2>2, RemindersLess
<1>7. ASSUME NEW j \in Jobs, NotificationFails(j) PROVE Reminded(e, u)'
  <2>1. /\ UNCHANGED <<time, joined, since, reminders, due>> /\ unlucky' = Subjects
        /\ todo'["reminders"] \subseteq todo["reminders"]
    BY <1>0, <1>7 DEF NotificationFails, columns
  <2> QED BY <2>1, RemindersLess
<1>8. ASSUME Restart PROVE Reminded(e, u)'
  <2>1. /\ UNCHANGED <<time, joined, since, reminders>> /\ unlucky' = Subjects /\ due' \subseteq due
        /\ todo'["reminders"] \subseteq todo["reminders"]
    BY <1>0, <1>8 DEF Restart, columns
  <2> QED BY <2>1, RemindersLess
<1>9. CASE UNCHANGED jobVars
  <2>1. UNCHANGED <<time, joined, since, reminders, due, todo, unlucky>>
    BY <1>9 DEF jobVars
  <2> QED BY <2>1, RemindersLess
<1> QED BY <1>2, <1>3, <1>4, <1>5, <1>6, <1>7, <1>8, <1>9 DEF JobsNext

(* The reengagement mails to u.                                            *)
LEMMA MailsSame ==
  ASSUME NEW u \in Subjects, Mailed(u), UNCHANGED <<time, seen, followUp, lastMail>>,
         u \in mailed <=> u \in mailed',
         u \in todo["prospects"] <=> u \in todo'["prospects"],
         "prospects" \in due <=> "prospects" \in due',
         u \in unlucky => u \in unlucky'
  PROVE  Mailed(u)'
BY DEF Mailed, Noted, JobHour, JobTime, Ahead

LEMMA MailsKeep ==
  ASSUME ScheduleOK, NEW u \in Subjects, Mailed(u), [JobsNext]_jobVars
  PROVE  Mailed(u)'
<1>0. /\ time \in Nat \ {0} /\ seen \in [Subjects -> 1..time] /\ seen[u] \in Nat
      /\ followUp \in [Subjects -> 0..time] /\ lastMail \in [Subjects -> 0..time]
      /\ followUp[u] \in Nat /\ lastMail[u] \in Nat
      /\ unlucky \subseteq Subjects /\ mailed \subseteq Subjects
      /\ todo \in [Jobs -> SUBSET (Subjects \cup Registrations)]
      /\ (~JobTime => due = {}) /\ lastMail[u] <= time
      /\ (mailed # {} => "prospects" \notin due) /\ (\A v, w \in mailed : v = w)
      /\ (todo["prospects"] # {} => "prospects" \notin due)
      /\ ThresholdDays \in Nat /\ CooldownDays \in Nat /\ Jobs = {"inactivity", "prospects", "reminders"}
  BY JobConstants DEF ScheduleOK
<1>t. time \in Nat /\ time # 0 /\ seen[u] \in Nat /\ followUp[u] \in Nat /\ lastMail[u] \in Nat
      /\ ThresholdDays \in Nat /\ CooldownDays \in Nat
      /\ JobHour \in Nat /\ JobHour % 2 = 0 /\ JobHour = IF JobTime THEN time ELSE time - 1
  BY <1>0, Hours
<1>1. ASSUME NEW v \in Subjects, BeActive(v) PROVE Mailed(u)'
  <2>1. UNCHANGED <<time, followUp, lastMail, mailed, todo, due, unlucky>> /\ JobHour' = JobHour
        /\ seen' = [seen EXCEPT ![v] = time]
    BY <1>1 DEF BeActive, JobHour, JobTime
  <2>2. seen'[u] = seen[u] \/ seen'[u] = time
    BY <1>0, <2>1
  <2>3. CASE seen'[u] = seen[u]
    BY <2>1, <2>3 DEF Mailed, Noted, Ahead
  <2>4. CASE seen'[u] = time
    <3>1. ~JobTime
      BY <1>1 DEF BeActive
    <3>2. ~(seen'[u] + 2 * ThresholdDays <= JobHour) /\ ~(seen'[u] + 2 * ThresholdDays + 2 <= JobHour)
      BY <1>t, <2>4, <3>1
    <3> QED BY <2>1, <3>2 DEF Mailed, Noted, Ahead
  <2> QED BY <2>2, <2>3, <2>4
<1>2. ASSUME Pass PROVE Mailed(u)'
  <2>1. UNCHANGED <<seen, followUp, lastMail, mailed, todo, unlucky>> /\ due = {}
    BY <1>2, PassHours
  <2>2. CASE JobHour' = JobHour /\ due' = {}
    BY <2>1, <2>2 DEF Mailed, Noted, Ahead
  <2>3. CASE JobHour' = JobHour + 2 /\ due' = Jobs /\ mailed = {} /\ \A j \in Jobs : todo[j] = {}
    <3>1. u \notin todo["prospects"] /\ u \notin mailed /\ Ahead("prospects", u)' /\ ~Ahead("prospects", u)
      BY <1>0, <2>1, <2>3 DEF Ahead
    <3>2. u \notin unlucky /\ seen[u] + 2 * ThresholdDays + 2 <= JobHour' =>
            lastMail[u] # 0 /\ lastMail[u] + 2 * CooldownDays + 2 >= JobHour'
      BY <1>t, <2>3, <3>1 DEF Mailed
    <3>3. u \notin unlucky => Noted(u)
      BY <3>1 DEF Mailed
    <3> QED BY <2>1, <3>1, <3>2, <3>3 DEF Mailed, Noted
  <2> QED BY <1>2, <2>2, <2>3, PassHours
<1>3. ASSUME StartJob("prospects") PROVE Mailed(u)'
  <2>1. /\ due' = due \ {"prospects"} /\ "prospects" \in due /\ mailed = {}
        /\ UNCHANGED <<time, seen, followUp, lastMail, mailed, unlucky>>
        /\ todo'["prospects"] = {v \in Subjects : seen[v] <= Ago(ThresholdDays) /\ CooledDown(v)}
    BY <1>0, <1>3 DEF StartJob, List, columns
  <2>2. JobTime /\ JobHour = time /\ JobHour' = time
    BY <1>0, <2>1 DEF JobHour, JobTime
  <2>3. ASSUME seen[u] + 2 * ThresholdDays <= time, u \notin todo'["prospects"], Noted(u)
        PROVE  lastMail[u] # 0 /\ lastMail[u] + 2 * CooldownDays >= time
    <3>1. seen[u] <= Ago(ThresholdDays)
      BY <1>t, <2>3 DEF Ago
    <3>2. ~CooledDown(u)
      BY <2>1, <2>3, <3>1
    <3>3. followUp[u] # 0 /\ followUp[u] + 2 * CooldownDays >= time
      BY <1>t, <3>2 DEF CooledDown, Ago
    <3>4. CASE followUp[u] = lastMail[u]
      BY <3>3, <3>4
    <3>5. CASE lastMail[u] # 0 /\ lastMail[u] % 2 = 0 /\ followUp[u] = lastMail[u] + 1
      <4>1. PICK m \in Nat : m = lastMail[u] + 2 * CooldownDays /\ m % 2 = 0
        BY <1>t, <3>5
      <4>2. time # m + 1
        BY <1>t, <2>2, <4>1, EvensApart
      <4> QED BY <1>t, <3>3, <3>5, <4>1, <4>2
    <3> QED BY <2>3, <3>4, <3>5 DEF Noted
  <2>4. u \in todo'["prospects"] => followUp[u] = 0 \/ followUp[u] + 2 * CooldownDays < time
    BY <1>t, <2>1 DEF CooledDown, Ago
  <2> QED BY <1>t, <2>1, <2>2, <2>3, <2>4 DEF Mailed, Noted, Ahead
<1>4. ASSUME NEW v \in Subjects, SendReengagement(v) PROVE Mailed(u)'
  <2>1. /\ mailed = {} /\ mailed' = {v} /\ UNCHANGED <<time, seen, followUp, due, unlucky>>
        /\ lastMail' = [lastMail EXCEPT ![v] = time] /\ v \in todo["prospects"]
        /\ todo'["prospects"] = todo["prospects"] \ {v} /\ JobHour' = JobHour
    BY <1>0, <1>4 DEF SendReengagement, Checked, columns, JobHour, JobTime
  <2>2. CASE v = u
    <3>1. lastMail'[u] = time /\ u \notin todo'["prospects"] /\ u \in mailed' /\ time >= JobHour
      BY <1>0, <1>t, <2>1, <2>2
    <3>2. time + 2 * CooldownDays >= JobHour /\ time + 2 * CooldownDays + 2 >= JobHour
      BY <1>t, <3>1
    <3> QED BY <1>t, <2>1, <3>1, <3>2 DEF Mailed
  <2>3. CASE v # u
    <3>1. lastMail'[u] = lastMail[u] /\ (u \in todo'["prospects"] <=> u \in todo["prospects"])
          /\ (u \in mailed <=> u \in mailed')
      BY <1>0, <2>1, <2>3
    <3> QED BY <2>1, <3>1 DEF Mailed, Noted, Ahead
  <2> QED BY <2>2, <2>3
<1>5. ASSUME NEW v \in Subjects, CreateFollowUp(v) PROVE Mailed(u)'
  <2>1. /\ v \in mailed /\ mailed' = {} /\ UNCHANGED <<time, seen, lastMail, todo, due, unlucky>>
        /\ followUp' = [followUp EXCEPT ![v] = time] /\ JobHour' = JobHour
    BY <1>5 DEF CreateFollowUp, columns, JobHour, JobTime
  <2>2. CASE v = u
    <3>1. followUp'[u] = time /\ u \notin todo'["prospects"] /\ lastMail[u] # 0
          /\ lastMail[u] >= JobHour /\ lastMail[u] <= time
      BY <1>0, <2>1, <2>2 DEF Mailed
    <3>2. lastMail[u] = time \/ (lastMail[u] = JobHour /\ time = JobHour + 1)
      BY <1>t, <3>1
    <3>3. Noted(u)'
      BY <1>t, <2>1, <3>1, <3>2 DEF Noted
    <3> QED BY <2>1, <3>1, <3>3 DEF Mailed, Ahead
  <2>3. CASE v # u
    <3>1. followUp'[u] = followUp[u] /\ u \notin mailed /\ u \notin mailed'
      BY <1>0, <2>1, <2>3
    <3> QED BY <2>1, <3>1 DEF Mailed, Noted, Ahead
  <2> QED BY <2>2, <2>3
<1>6. ASSUME NEW v \in Subjects, FollowUpFails(v) PROVE Mailed(u)'
  <2>1. /\ v \in mailed /\ mailed' = {} /\ UNCHANGED <<time, seen, followUp, lastMail, todo, due>>
        /\ unlucky' = unlucky \cup {v}
    BY <1>6 DEF FollowUpFails, NextUser, columns
  <2>2. CASE v = u
    BY <2>1, <2>2 DEF Mailed
  <2>3. CASE v # u
    <3>1. u \notin mailed /\ u \notin mailed'
      BY <1>0, <2>1, <2>3
    <3> QED BY <2>1, <3>1, MailsSame
  <2> QED BY <2>2, <2>3
<1>7. ASSUME \/ \E v \in Subjects : Nudge(v) \/ \E e \in Fairs : SetJoined(e, v)
             \/ \E e \in Fairs : SetActive(e)
             \/ \E r \in Registrations : Remind(r)
             \/ \E j \in Jobs \ {"prospects"} : StartJob(j)
             \/ \E j \in Jobs : NotificationFails(j)
             \/ UNCHANGED jobVars
      PROVE  Mailed(u)'
  <2>1. UNCHANGED <<time, seen, followUp, lastMail, mailed>> /\ (u \in unlucky => u \in unlucky')
        /\ ("prospects" \in due <=> "prospects" \in due')
    BY <1>7 DEF Nudge, SetJoined, SetActive, Remind, StartJob, NotificationFails, columns, jobVars
  <2>2. todo'["prospects"] = todo["prospects"]
    BY <1>0, <1>7 DEF Nudge, SetJoined, SetActive, Remind, StartJob, NotificationFails, Checked, jobVars
  <2> QED BY <2>1, <2>2, MailsSame
<1>8. CASE Restart
  <2>1. u \in unlucky' /\ u \notin mailed'
    BY <1>8 DEF Restart
  <2> QED BY <2>1 DEF Mailed
<1> QED BY <1>1, <1>2, <1>3, <1>4, <1>5, <1>6, <1>7, <1>8 DEF JobsNext

-----------------------------------------------------------------------------
LEMMA JobsInvInit == JobsInit => JobsInv
<1> SUFFICES ASSUME JobsInit PROVE JobsInv
  OBVIOUS
<1>1. ScheduleOK
  BY DEF JobsInit, ScheduleOK, JobTime
<1>2. ASSUME NEW u \in Subjects PROVE Nudged(u) /\ Mailed(u) /\ \A e \in Fairs : Reminded(e, u)
  <2>1. /\ time = 1 /\ seen[u] = 1 /\ followUp[u] = 0 /\ lastMail[u] = 0 /\ nudges[u] = 0
        /\ due = {} /\ todo["inactivity"] = {} /\ todo["prospects"] = {} /\ todo["reminders"] = {} /\ mailed = {}
    BY <1>2, JobConstants DEF JobsInit
  <2>2. Nudged(u)
    BY <2>1, JobConstants DEF Nudged, NudgeTime, Ahead, JobHour, JobTime
  <2>3. Mailed(u)
    BY <2>1, JobConstants DEF Mailed, Noted, JobHour, JobTime
  <2>4. ASSUME NEW e \in Fairs PROVE Reminded(e, u)
    <3>1. reminders[<<e, u>>] = 0 /\ joined[e][u] = 0 /\ StartOf[e] \in Nat /\ StartOf[e] > 4
      BY <1>2, <2>4, JobConstants DEF JobsInit
    <3> QED BY <2>1, <3>1 DEF Reminded, ReminderTime, Ahead, JobHour, JobTime
  <2> QED BY <2>2, <2>3, <2>4
<1> QED BY <1>1, <1>2 DEF JobsInv

LEMMA JobsInvStep == JobsInv /\ [JobsNext]_jobVars => JobsInv'
<1> SUFFICES ASSUME JobsInv, [JobsNext]_jobVars PROVE JobsInv'
  OBVIOUS
<1>1. ScheduleOK'
  BY ScheduleKeeps DEF JobsInv
<1>2. \A u \in Subjects : Nudged(u)' /\ Mailed(u)' /\ \A e \in Fairs : Reminded(e, u)'
  BY NudgesKeep, MailsKeep, RemindersKeep DEF JobsInv
<1> QED BY <1>1, <1>2 DEF JobsInv

LEMMA JobsInvariant == JobsSpec => []JobsInv
BY JobsInvInit, JobsInvStep, PTL DEF JobsSpec

(* cron.service.ts: whatever fails and however often the server restarts,  *)
(* an absence of three weeks is remarked on at most once; and exactly once *)
(* when no run of the job was missed: the window of the query is one day   *)
(* wide, the time between two runs.                                        *)
THEOREM AbsencesAreNoted == JobsSpec => []AbsenceNotedOnce
<1>1. JobsInv => AbsenceNotedOnce
  <2> SUFFICES ASSUME JobsInv, NEW u \in Subjects
               PROVE  /\ nudges[u] <= 1
                      /\ u \notin unlucky /\ time - seen[u] > 2 * (InactiveDays + 1) => nudges[u] = 1
    BY DEF AbsenceNotedOnce
  <2>1. /\ Nudged(u) /\ time \in Nat /\ seen[u] \in Nat /\ InactiveDays \in Nat
        /\ JobHour \in Nat /\ JobHour >= time - 1
    BY JobConstants, Hours DEF JobsInv, ScheduleOK
  <2> QED BY <2>1 DEF Nudged, NudgeTime
<1> QED BY JobsInvariant, <1>1, PTL

(* events.service.ts: nobody is reminded of an event twice, and whoever    *)
(* had registered by the last run before it, and met no mishap, has been.  *)
THEOREM RemindersAreSentOnce == JobsSpec => []RemindedOnce
<1>1. JobsInv => RemindedOnce
  <2> SUFFICES ASSUME JobsInv, NEW e \in Fairs, NEW u \in Subjects
               PROVE  /\ reminders[<<e, u>>] <= 1
                      /\ /\ u \notin unlucky /\ time > StartOf[e] - 2
                         /\ {joined[e][u], since[e]} \subseteq 1..(StartOf[e] - 3)
                         => reminders[<<e, u>>] = 1
    BY DEF RemindedOnce
  <2>1. /\ Reminded(e, u) /\ time \in Nat /\ StartOf[e] \in Nat
        /\ JobHour \in Nat /\ JobHour >= time - 1
    BY JobConstants, Hours DEF JobsInv, ScheduleOK
  <2> QED BY <2>1 DEF Reminded, ReminderTime
<1> QED BY JobsInvariant, <1>1, PTL

(* prospects.service.ts: who has been away for the threshold is mailed,    *)
(* and again when the cooldown is over, whatever befalls the others.       *)
THEOREM TheAbsentAreMailed == JobsSpec => []AbsentAreMailed
<1>1. JobsInv => AbsentAreMailed
  <2> SUFFICES ASSUME JobsInv, NEW u \in Subjects, u \notin unlucky,
                      time - seen[u] > 2 * (ThresholdDays + 1)
               PROVE  lastMail[u] # 0 /\ lastMail[u] + 2 * CooldownDays + 3 >= time
    BY DEF AbsentAreMailed
  <2>1. /\ Mailed(u) /\ time \in Nat /\ seen[u] \in Nat /\ lastMail[u] \in Nat
        /\ ThresholdDays \in Nat /\ CooldownDays \in Nat
        /\ JobHour \in Nat /\ JobHour >= time - 1
    BY JobConstants, Hours DEF JobsInv, ScheduleOK
  <2>2. seen[u] + 2 * ThresholdDays + 2 <= JobHour
    BY <2>1
  <2> QED BY <2>1, <2>2 DEF Mailed
<1> QED BY JobsInvariant, <1>1, PTL

(* prospects.service.ts: nobody is mailed again before the cooldown is     *)
(* over, unless the row that says when was not written.                    *)
THEOREM CooldownHolds == JobsSpec => CooldownKept
<1>1. ASSUME JobsInv, [JobsNext]_jobVars, NEW u \in Subjects, lastMail'[u] # lastMail[u], lastMail[u] # 0,
             u \notin unlucky
      PROVE  lastMail'[u] - lastMail[u] >= 2 * CooldownDays
  <2>0. ScheduleOK /\ Mailed(u) /\ time \in Nat /\ lastMail[u] \in Nat /\ CooldownDays \in Nat
        /\ lastMail \in [Subjects -> 0..time]
    BY <1>1, JobConstants DEF JobsInv, ScheduleOK
  <2>1. PICK v \in Subjects : SendReengagement(v)
    BY <1>1 DEF JobsNext, BeActive, SetJoined, SetActive, Pass, StartJob, Nudge, Remind, NotificationFails, CreateFollowUp,
                FollowUpFails, Restart, jobVars
  <2>2. v = u /\ lastMail'[u] = time /\ u \in todo["prospects"] /\ u \notin mailed
    BY <1>1, <2>0, <2>1 DEF SendReengagement
  <2>3. /\ followUp[u] = 0 \/ followUp[u] + 2 * CooldownDays < JobHour
        /\ Noted(u) /\ followUp[u] \in Nat /\ JobHour \in Nat /\ JobHour <= time
    BY <1>1, <2>0, <2>2, Hours DEF Mailed, ScheduleOK
  <2> QED BY <1>1, <2>0, <2>2, <2>3 DEF Noted
<1>2. JobsInv /\ [JobsNext]_jobVars
      => [\A u \in Subjects :
            lastMail'[u] # lastMail[u] /\ lastMail[u] # 0 /\ u \notin unlucky
            => lastMail'[u] - lastMail[u] >= 2 * CooldownDays]_jobVars
  BY <1>1
<1> QED BY JobsInvariant, <1>2, PTL DEF JobsSpec, CooldownKept
=============================================================================
