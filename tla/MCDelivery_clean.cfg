SPECIFICATION DeliverySpec
CONSTANTS
  alice = alice
  bob = bob
  a1 = a1
  a2 = a2
  b1 = b1
  dm = dm
  saved = saved
  Accounts = {alice, bob}
  Devices = {a1, a2, b1}
  Convs = {dm, saved}
  Owner <- MCOwner
  Members <- MCMembers
  MsgIds = {m1, m2}
  Texts = {x}
  Reqs = {r1, r2}
  None = None
  Failures = FALSE
  MaxAtts = 0
  MaxCalls = 2
  Listeners = {b1}
  Capacity = 1
  MaxConnects = 2
  MaxLoads = 0
CHECK_DEADLOCK FALSE
INVARIANTS
  GapFree
  EveryoneIsTold
PROPERTY
  MessageReachesClients
