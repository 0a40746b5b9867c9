SPECIFICATION Spec
CONSTANTS
  ann = ann
  ben = ben
  cleo = cleo
  p1 = p1
  p2 = p2
  Unlimited = Unlimited
  Users = {ann, ben}
  Limit <- NoLimit
  Procs = {p1}
  Deletable = {}
  MaxRequests = 3
  MaxFails = 1
\* With its bounds used up and nobody left, the system may stop.
CHECK_DEADLOCK FALSE
INVARIANTS AcceptedIsConnected
