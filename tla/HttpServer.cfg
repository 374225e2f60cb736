SPECIFICATION Spec
CONSTANTS
  r1 = r1
  r2 = r2
  u1 = u1
  u2 = u2
  s1 = s1
  s2 = s2
  None = None
  Slots <- MCSlots
  Users <- MCUsers
  Sessions <- MCSessions
SYMMETRY Symmetric
INVARIANTS
  TypeOK
  RemoteRequestsAreVerified
  ActsAsItsOwnBearer
  RegistryIsExact
PROPERTIES
  OnlyLiveSessionsGetMessages
