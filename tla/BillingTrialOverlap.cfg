SPECIFICATION Spec
CONSTANTS
  Plans = {pro, biz}
  Pro = pro
  Free = free
  AdminPlans = {}
  Intervals = {2}
  Monthly = 2
  TrialDays = 1
  Lead = 1
  InOrder = TRUE
  Procs = {p1, p2}
  MaxSubs = 1
  MaxRefs = 0
  MaxEvents = 3
  MaxClock = 3
  MaxFails = 0
\* With its bounds used up and every webhook answered, the system may stop.
CHECK_DEADLOCK FALSE
INVARIANT SubscribersKeepPlan
