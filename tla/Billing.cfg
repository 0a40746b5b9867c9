SPECIFICATION WorldsSpec
CONSTANTS
  Plans = {pro, biz}
  Pro = pro
  Free = free
  AdminPlans = {}
  Intervals = {2}
  Monthly = 2
  TrialDays = 1
  Lead = 1
  InOrder = FALSE
  Procs = {p1}
  MaxSubs = 1
  MaxRefs = 2
  MaxEvents = 3
  MaxClock = 3
  MaxFails = 1
  OrderedEvents = 6
  OrderedClock = 5
\* With its bounds used up and every webhook answered, the system may stop.
CHECK_DEADLOCK FALSE
INVARIANTS
  TypeOK
  PlansAgree
  CreditedOnce
  PlanIsPaidFor
  OrderedRowMirrorsStripe
