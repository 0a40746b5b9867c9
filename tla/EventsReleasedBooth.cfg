SPECIFICATION Spec
CONSTANTS
  alice = alice
  bob = bob
  carol = carol
  stand = stand
  vip = vip
  p1 = p1
  p2 = p2
  None = None
  Users = {alice, bob}
  Booths = {stand}
  Tickets = {vip}
  FreeTickets = {None}
  FreeBooths = {}
  Capacity = 1
  TicketCap <- Unlimited
  Providers = {"stripe"}
  StripeOn = TRUE
  Production = TRUE
  Procs = {p1}
  DoubleSubmit = FALSE
  MaxTries = 1
  MaxFails = 0
\* Once the event is removed and nothing is in flight, the system may stop.
CHECK_DEADLOCK FALSE
SYMMETRY Symmetry
INVARIANT ReleasedBoothIsFree
