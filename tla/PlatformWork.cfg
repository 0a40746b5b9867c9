SPECIFICATION WorkSpec
CONSTANTS
  ann = ann
  ben = ben
  cleo = cleo
  dan = dan
  k1 = k1
  k2 = k2
  offer = offer
  cv = cv
  fair = fair
  Unlimited = Unlimited
  Users = {ann, ben}
  Limit <- OneEach
  Procs = {k1, k2}
  Deletable = {ann, ben}
  MaxRequests = 3
  MaxFails = 1
  Offers = {offer}
  Accounts = {ann, ben}
  Author <- ByAnn
  Uploads = {cv}
  Owner <- ByBen
  Desks = {k1, k2}
  Dismissed = {ann, ben}
  MaxCopies = 2
  MaxFaults = 1
  Persons = {ann, ben, cleo}
  Clerks = {k1, k2}
  MaxStumbles = 1
  Founders = {cleo, dan}
  Freelancers = {ann, ben}
  ProjectLimit <- OneProjectEach
  PitchLimit <- TwoForAnn
  Calm = {cleo, ann}
  Slots = {k1, k2}
  MaxProjects = 3
  MaxPitches = 3
  Subjects = {ann, ben}
  InactiveDays = 2
  ThresholdDays = 1
  CooldownDays = 2
  Fairs = {fair}
  StartOf <- FifthHour
  MaxTime = 12
  MaxMishaps = 1
  Addresses = {ann, ben, cleo}
  Veterans = {cleo}
  Lines = {k1, k2}
  NightOwls = {ben}
  LastDay = 4
\* Each part may stop when its bounds are used up.
CHECK_DEADLOCK FALSE
SYMMETRY SlotSymmetry
INVARIANTS
  WorkTypeOK
  Symmetric
  ConnectedByConsent
  RowHasCv
  CvGoesWithApplication
  TotalIsRows
  AppliedOnce
  LimitsHold
  AbsenceNotedOnce
  AbsentAreMailed
  RemindedOnce
  StreakCountsDays
PROPERTIES
  GraphSpec
  CooldownKept
