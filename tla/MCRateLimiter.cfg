SPECIFICATION Spec
CONSTANTS
  Ips = {a, b}
  One = 2
  Burst = 4
  Rate = 1
  TicksPerSec = 2
  IdleEvictSec = 1
  NoBucket = NoBucket
  MaxTicks = 7
INVARIANTS
  TypeOK
  RateBound
PROPERTY
  NeverEvicted
