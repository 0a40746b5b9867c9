SPECIFICATION LiveSpec
CONSTANTS
  pro = pro
  biz = biz
  free = free
  p1 = p1
  ann = ann
  ben = ben
  t1 = t1
  t2 = t2
  s1 = s1
  Plans = {pro, biz}
  Pro = pro
  Free = free
  AdminPlans = {biz}
  Intervals <- Month
  Monthly = 2
  TrialDays = 1
  Lead = 1
  InOrder = FALSE
  Procs = {p1}
  MaxSubs = 1
  MaxRefs = 0
  MaxEvents = 3
  MaxClock = 3
  MaxFails = 1
  Members = {ann, ben}
  Nobody = Nobody
  Contacts <- AnnCallsBen
  Subscribers = {ann}
  MaxCalls = 1
  Trickling = {1, 2}
  MaxTimers = 1
  MaxReloads = 1
  Tabs = {t1, t2}
  RefreshLife = 2
  MaxDays = 3
  MaxActs = 3
  MaxOutages = 1
  MaxLogouts = 2
  Services = {s1}
  Buyers = {ann, ben}
  Seller <- SoldByAnn
  MaxOrders = 2
  MaxSlips = 1
\* Each part may stop when its bounds are used up.
CHECK_DEADLOCK FALSE
INVARIANTS
  NoCandidateWaits
PROPERTIES
  DeletionReachesUser
  TrialEnds
  RefusedCallEnds
  NobodyLeftTalking
  RedirectsEnd
  RequestWithoutSessionLeaves
  CompletedStays
  PaymentReachesOrder
