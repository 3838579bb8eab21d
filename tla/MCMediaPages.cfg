SPECIFICATION MediaSpec
CONSTANTS
  alice = alice
  a1 = a1
  saved = saved
  Accounts = {alice}
  Devices = {a1}
  Convs = {saved}
  Owner <- MCOwner
  Members <- MCMembers
  MsgIds = {m1, m2}
  Texts = {"x"}
  Reqs = {r1, r2}
  None = None
  Failures = TRUE
  MaxAtts = 2
  MaxCalls = 3
  Pagers = {p1}
  Limits = {0, 2, 3}
  MAX_LIMIT = 2
CHECK_DEADLOCK FALSE
INVARIANTS
  ScanMissesNothing
  LeftoversAreExplained
PROPERTY
  ScanEnds
