SPECIFICATION ReceiptsSpec
CONSTANTS
  alice = alice
  bob = bob
  a1 = a1
  b1 = b1
  b2 = b2
  dm = dm
  saved = saved
  Accounts = {bob}
  Devices = {b1, b2}
  Convs = {saved}
  Owner <- MCOwner
  Members <- MCMembers
  MsgIds = {m1, m2}
  Texts = {"x"}
  Reqs = {r1}
  None = None
  Failures = FALSE
  MaxAtts = 0
  MaxCalls = 2
  Readers = {h1}
  Kinds = {"receipt.read"}
  MaxFrames = 2
  MaxReads = 2
SYMMETRY Symmetry
CHECK_DEADLOCK FALSE
PROPERTIES
  MarkersNeverGoBack
  HistoryNeverRegresses
