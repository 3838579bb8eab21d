SPECIFICATION DeliverySpec
CONSTANTS
  alice = alice
  bob = bob
  a1 = a1
  a2 = a2
  b1 = b1
  dm = dm
  saved = saved
  Accounts = {alice, bob}
  Devices = {a1, b1}
  Convs = {dm}
  Owner <- MCOwner
  Members <- MCMembers
  MsgIds = {m1}
  Texts = {x, y}
  Reqs = {r1, r2}
  None = None
  Failures = TRUE
  MaxAtts = 0
  MaxCalls = 3
  Listeners = {b1}
  Capacity = 1
  MaxConnects = 1
  MaxLoads = 1
SYMMETRY Symmetry
CHECK_DEADLOCK FALSE
INVARIANTS
  TypeOK
  EventsAreBacked
  NothingIsMissing
  ViewIsCurrent
PROPERTY
  DeletedIsFinal
