SPECIFICATION SystemSpec
CONSTANTS
  Clients = {c1}
  Tasks = {t1, t2, t3}
  c1 = c1
  c2 = c2
  s1 = s1
  s2 = s2
  bad = bad
  Scripts = {s1, s2}
  Sockets <- MCSockets
  Server <- MCServer
  Nonces <- MCNonces
  Ips <- MCIps
  IpOf <- MCIpOf
  ScriptOf <- MCScriptOf
  ClockSkew <- Skewed
  MaxSkew = 1
  MaxRetries = 1
  ClientWindow = 1
  ClientReplayMax = 1
  Requests <- WithNoise
  NoPacket = NoPacket
  NoResponse = NoResponse
  NoBucket = NoBucket
  MaxTime = 1
  Window = 1
  ReplayMax = 4
  MaxRestarts = 1
  One = 1
  Burst = 3
  Rate = 1
  TicksPerSec = 1
  IdleEvictSec = 2
SYMMETRY TaskSymmetry
INVARIANTS
  ClientTypeOK
  
  OncePerAttempt

  
CHECK_DEADLOCK FALSE
