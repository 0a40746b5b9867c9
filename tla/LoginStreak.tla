----------------------------- MODULE LoginStreak -----------------------------
(***************************************************************************)
(* Registration, login and the login streak: auth/auth.service.ts,         *)
(* register, login and updateLoginStreak.  A login reads the user, checks  *)
(* the password, which takes a while, and then counts with the row that it *)
(* read before; several logins of one user may overlap.                    *)
(***************************************************************************)
EXTENDS Naturals

CONSTANTS
  Addresses,    \* e-mail addresses
  Lines,        \* handler slots
  Veterans,     \* addresses with an account from before streaks were counted
  NightOwls,    \* addresses with logins that may be under way at midnight
  LastDay       \* bound: days

ASSUME StreakAssumption ==
  LastDay \in Nat \ {0} /\ NightOwls \subseteq Addresses /\ Veterans \subseteq Addresses

VARIABLES
  date,      \* today
  account,   \* account[a]: the streak columns of the user with address a
  line,      \* line[k]: the request in slot k
  visits     \* history: visits[a]: days that were counted for a

streakVars == <<date, account, line, visits>>

Days == 1..LastDay

(* No visit is counted: the defaults of the schema, where 0 stands for a   *)
(* lastStreakDate that is null.  So are the columns of nobody.             *)
Uncounted == [current |-> 0, longest |-> 0, last |-> 0]
HasAccount(a) == a \in Veterans \/ account[a] # Uncounted
NoLine == [at |-> "none"]

StreakInit ==
  /\ date = 1 /\ account = [a \in Addresses |-> Uncounted]
  /\ line = [k \in Lines |-> NoLine] /\ visits = [a \in Addresses |-> {}]

Begin(k, a, at) == line' = [line EXCEPT ![k] = [at |-> at, who |-> a, row |-> account[a]]]
HangUpLine(k) == line' = [line EXCEPT ![k] = NoLine]

Midnight ==
  /\ date < LastDay
  /\ \A k \in Lines : line[k] # NoLine => line[k].who \in NightOwls
  /\ date' = date + 1
  /\ UNCHANGED <<account, line, visits>>

-----------------------------------------------------------------------------
(* register: nobody has the address, as it seems.                          *)
Register(k, a) ==
  /\ line[k] = NoLine /\ ~HasAccount(a)
  /\ Begin(k, a, "register")
  /\ UNCHANGED <<date, account, visits>>

(* $transaction: the user, their profile and a streak of one day.  The     *)
(* address is unique: the second of two registrations throws.              *)
CreateUser(k) ==
  LET a == line[k].who IN
  /\ line[k].at = "register"
  /\ IF ~HasAccount(a)
     THEN /\ account' = [account EXCEPT ![a] = [current |-> 1, longest |-> 1, last |-> date]]
          /\ visits' = [visits EXCEPT ![a] = @ \cup {date}]
     ELSE UNCHANGED <<account, visits>>
  /\ HangUpLine(k)
  /\ UNCHANGED date

-----------------------------------------------------------------------------
Login(k, a) ==
  /\ line[k] = NoLine /\ HasAccount(a)
  /\ Begin(k, a, "password")
  /\ UNCHANGED <<date, account, visits>>

(* The password is wrong, or the request dies.                             *)
RequestEnds(k) ==
  /\ line[k] # NoLine
  /\ HangUpLine(k)
  /\ UNCHANGED <<date, account, visits>>

(* dayDiff = 1, where a day was counted before.  The mutant forgives a day.*)
AlmostYesterday(row) == row.last # 0 /\ row.last + 2 >= date
Yesterday(row) == row.last # 0 /\ row.last + 1 = date

Larger(m, n) == IF m > n THEN m ELSE n

(* The streak that is to be written; whoever comes back has a new one, and *)
(* so has whoever logs in for the first time since streaks are counted.    *)
Counted(row) ==
  LET current == IF Yesterday(row) THEN row.current + 1 ELSE 1 IN
  [current |-> current, longest |-> Larger(row.longest, current), last |-> date]

(* updateLoginStreak: a day that is counted already changes nothing.       *)
CountDay(k) ==
  LET row == line[k].row IN
  /\ line[k].at = "password"
  /\ IF row.last = date THEN HangUpLine(k)
     ELSE line' = [line EXCEPT ![k] = [at |-> "write", who |-> line[k].who, row |-> Counted(row)]]
  /\ UNCHANGED <<date, account, visits>>

WriteStreak(k) ==
  LET a == line[k].who IN
  /\ line[k].at = "write"
  /\ account' = [account EXCEPT ![a] = line[k].row]
  /\ visits' = [visits EXCEPT ![a] = @ \cup {line[k].row.last}]
  /\ HangUpLine(k)
  /\ UNCHANGED date

StreakNext ==
  \/ Midnight
  \/ \E k \in Lines :
       \/ CreateUser(k) \/ RequestEnds(k) \/ CountDay(k) \/ WriteStreak(k)
       \/ \E a \in Addresses : Register(k, a) \/ Login(k, a)

StreakSpec == StreakInit /\ [][StreakNext]_streakVars

-----------------------------------------------------------------------------
(* m..n is a run of visits of a.                                           *)
Run(a, m, n) == m <= n /\ m..n \subseteq visits[a]

(* "Incrémente le streak si la dernière connexion comptabilisée date       *)
(* d'hier, le réinitialise à 1 en cas de trou": the streak is the number   *)
(* of days on end, up to the last visit, on which the user came, and the   *)
(* longest one is that of some run and not less than any, however many     *)
(* logins and registrations overlap, unless one of the user's own spans    *)
(* midnight.                                                               *)
StreakCountsDays ==
  \A a \in Addresses \ NightOwls : account[a] # Uncounted =>
    LET s == account[a] IN
    /\ Run(a, s.last + 1 - s.current, s.last) /\ s.last - s.current \notin visits[a]
    /\ \A d \in visits[a] : d <= s.last
    /\ \E m \in Days : Run(a, m, m + s.longest - 1)
    /\ \A m, n \in Days : Run(a, m, n) => n - m + 1 <= s.longest
=============================================================================
