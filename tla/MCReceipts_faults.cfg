SPECIFICATION ReceiptsSpec
CONSTANTS
  alice = alice
  bob = bob
  a1 = a1
  b1 = b1
  b2 = b2
  dm = dm
  saved = saved
  Accounts = {alice, bob}
  Devices = {a1, b1, b2}
  Convs = {dm}
  Owner <- MCOwner
  Members <- MCMembers
  MsgIds = {m1, m2}
  Texts = {"x"}
  Reqs = {r1, r2}
  None = None
  Failures = TRUE
  MaxAtts = 0
  MaxCalls = 2
  Readers = {h1}
  Kinds = {"receipt.read", "receipt.delivered", "typing.start"}
  MaxFrames = 1
  MaxReads = 0
SYMMETRY Symmetry
CHECK_DEADLOCK FALSE
INVARIANTS
  ReceiptsTypeOK
  SeqNeverCollides
  MarkersPointAtMessages
  StatusSurvivesReload
