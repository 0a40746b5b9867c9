SPECIFICATION FairWorlds
CONSTANTS
  alice = alice
  bob = bob
  carol = carol
  stand = stand
  vip = vip
  p1 = p1
  p2 = p2
  None = None
  Users = {alice}
  Booths = {stand}
  Tickets = {vip}
  FreeTickets = {None}
  FreeBooths = {}
  Capacity = 1
  TicketCap <- Unlimited
  Providers = {"stripe", "wise"}
  StripeOn = FALSE
  Production = TRUE
  Procs = {p1, p2}
  DoubleSubmit = FALSE
  MaxTries = 2
  MaxFails = 0
  CardFails = 1
\* Once the event is removed and nothing is in flight, the system may stop.
CHECK_DEADLOCK FALSE
INVARIANT PaidHasFunds
PROPERTY StripePaymentRecorded
