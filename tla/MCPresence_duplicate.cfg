SPECIFICATION PresenceSpec
CONSTANTS
  alice = alice
  bob = bob
  a1 = a1
  a2 = a2
  b1 = b1
  s1 = s1
  s2 = s2
  s3 = s3
  s4 = s4
  Accounts = {alice, bob}
  Devices = {a1, a2, b1}
  Sockets = {s1, s2, s3}
  Owner <- MCOwner
  Device <- MCDevice
  Unknown = Unknown
  Failures = FALSE
  MaxConnects = 3
CHECK_DEADLOCK FALSE
INVARIANT
  OnlineIsServed
