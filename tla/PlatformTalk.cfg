SPECIFICATION TalkSpec
CONSTANTS
  ann = ann
  ben = ben
  cleo = cleo
  k1 = k1
  k2 = k2
  r1 = r1
  r2 = r2
  Members = {ann, ben, cleo}
  Nobody = Nobody
  Contacts <- AnnAndCleoCallBen
  Subscribers = {ann}
  MaxCalls = 2
  Trickling = {}
  MaxTimers = 1
  MaxReloads = 0
  Talkers = {k1, k2}
  Rooms = {r1, r2}
  Participants <- EverybodyIn
  Quota <- OneMessageEach
  Waiting = {k1, k2}
  MaxMessages = 2
  MaxLoads = 2
  MaxBreaks = 1
  Fans = {k1, k2}
  Writer = cleo
  Patient = {k1, k2}
  MaxClicks = 2
  MaxFetches = 2
  MaxErrors = 1
  Bells = {k1, k2}
  MaxNotes = 2
  MaxMarks = 1
  MaxLosses = 1
\* Each part may stop when its bounds are used up.
CHECK_DEADLOCK FALSE
SYMMETRY SlotSymmetry
INVARIANTS
  AnswererWasCalled
  ThreadIsConversation
  PagesShowLikes
  WitnessedShownOnce
