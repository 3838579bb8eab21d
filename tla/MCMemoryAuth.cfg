SPECIFICATION MemorySpec
CONSTANTS
  Usernames = {alice}
  DeviceIds = {d1, d2}
  SessionIds = {s1, s2}
  Reqs = {r1, r2}
  None = None
  ACCESS_TTL = 1
  MaxTokens = 3
  MaxNow = 1
  MaxExports = 2
  MaxRestarts = 2
SYMMETRY Symmetry
CHECK_DEADLOCK FALSE
INVARIANTS
  TypeOK
  AuthFindsAccount
  LogoutIsKept
  SpentIsKept
  TokenNamesOneSession
  SnapshotIsWhole
