SPECIFICATION Spec
CONSTANTS
  Tasks = {t1, t2, t3}
  n1 = n1
  n2 = n2
  n3 = n3
  s1 = s1
  Scripts = {s1}
  Sockets <- MCSockets
  Server <- MCServer
  Nonces <- MCNonces
  Ips <- MCIps
  Requests <- ThreeRequests
  NoPacket = NoPacket
  NoBucket = NoBucket
  MaxTime = 2
  Window = 1
  ReplayMax = 3
  MaxRestarts = 1
  One = 1
  Burst = 2
  Rate = 1
  TicksPerSec = 1
  IdleEvictSec = 1
SYMMETRY TaskSymmetry
INVARIANTS
  TypeOK
  AtMostOnce
  OwnResponsesRefused
  RanWasAdmitted
  WindowBounded
CHECK_DEADLOCK FALSE
