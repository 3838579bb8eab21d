SPECIFICATION Spec
CONSTANTS
  alice = alice
  bob = bob
  a1 = a1
  b1 = b1
  Fields = {bio, avatar}
  Values = {x}
  Reqs = {r1, r2}
  None = None
  Absent = Absent
  Blank = Blank
  Me = alice
  Partners = {bob}
  DevicesOf <- MCDevicesOf
  Failures = TRUE
  MaxUpdates = 3
  MaxSeen = 1
SYMMETRY Symmetry
CHECK_DEADLOCK FALSE
INVARIANTS
  NoFieldIsLost
  LastSeenIsKept
  CurrentIsAnnounced
  LastEventIsCurrent
