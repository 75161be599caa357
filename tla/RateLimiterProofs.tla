------------------------- MODULE RateLimiterProofs -------------------------
(***************************************************************************)
(* The rate limiter is an eternal token bucket per address, for every      *)
(* burst, rate and eviction time that LimiterAssumption admits.            *)
(***************************************************************************)
EXTENDS RateLimiter, TLAPS

(* What is granted in the future is bounded too: the tokens still there    *)
(* count against the same budget.                                          *)
BudgetBound ==
  \A ip \in Ips :
    granted[ip] * One + Level(ip) <= Burst + Rate * (clock - since[ip])

(* Both instants of a bucket are the time of the last call for it. *)
StampsOK ==
  \A ip \in Ips : buckets[ip] # NoBucket =>
    /\ buckets[ip].last_seen <= clock
    /\ buckets[ip].last_refill = buckets[ip].last_seen

(* The inductive invariant. *)
IInv ==
  /\ TypeOK
  /\ StampsOK
  /\ \A ip \in Ips : since[ip] <= clock
  /\ BudgetBound

(* Multiplication as the solver needs it. *)
LEMMA Product ==
  ASSUME NEW r \in Nat, NEW x \in Nat, NEW y \in Nat
  PROVE  /\ r * x \in Nat
         /\ r * (x + 1) = r * x + r
         /\ x <= y => r * x <= r * y
<1>1. r * x \in Nat /\ r * (x + 1) = r * x + r
  OBVIOUS
<1>2. ASSUME x <= y PROVE r * x <= r * y
  <2>1. y - x \in Nat /\ y = x + (y - x)
    BY <1>2
  <2>2. r * y = r * x + r * (y - x) /\ r * (y - x) \in Nat
    BY <2>1
  <2> QED
    BY <1>1, <2>2
<1> QED
  BY <1>1, <1>2

(* A bucket idle for long enough to be evicted would be full. *)
LEMMA IdleIsFull ==
  ASSUME NEW b \in Bucket, NEW n \in Nat, b.last_refill = b.last_seen,
         b.last_seen <= n, Idle(b, n)
  PROVE  Capped(b.tokens + Rate * (n - b.last_refill)) = Burst
<1>1. /\ Rate \in Nat /\ Burst \in Nat /\ TicksPerSec \in Nat \ {0}
      /\ IdleEvictSec \in Nat /\ Burst <= Rate * (TicksPerSec * (IdleEvictSec + 1))
      /\ b.tokens \in Nat /\ b.last_seen \in Nat
  BY LimiterAssumption DEF Bucket
<1> DEFINE x == n - b.last_seen
<1> DEFINE q == x \div TicksPerSec
<1> DEFINE need == TicksPerSec * (IdleEvictSec + 1)
<1>2. x \in Nat
  BY <1>1
<1>3. q \in Nat /\ TicksPerSec * q <= x
  <2> HIDE DEF x
  <2> QED
    BY <1>1, <1>2
<1>4. q >= IdleEvictSec + 1
  BY <1>1, <1>3 DEF Idle
<1>5. need \in Nat /\ need <= TicksPerSec * q
  <2>1. IdleEvictSec + 1 \in Nat
    BY <1>1
  <2> HIDE DEF q
  <2> QED
    BY <1>1, <1>3, <1>4, <2>1, Product
<1>6. need <= x
  <2> HIDE DEF need, x, q
  <2>1. TicksPerSec * q \in Nat
    BY <1>1, <1>3
  <2> QED
    BY <1>2, <1>3, <1>5, <2>1
<1>7. Rate * need <= Rate * x /\ Rate * x \in Nat /\ Rate * need \in Nat
  <2> HIDE DEF need, x
  <2> QED
    BY <1>1, <1>2, <1>5, <1>6, Product
<1>8. b.tokens + Rate * x >= Burst
  <2> HIDE DEF x
  <2> QED
    BY <1>1, <1>7
<1> QED
  BY <1>1, <1>7, <1>8 DEF Capped

(* An address has between 0 and Burst tokens. *)
LEMMA LevelType ==
  ASSUME TypeOK, StampsOK, NEW ip \in Ips
  PROVE  Level(ip) \in 0..Burst
<1>1. Burst \in Nat /\ Rate \in Nat /\ clock \in Nat
  BY LimiterAssumption DEF TypeOK
<1>2. CASE buckets[ip] = NoBucket
  BY <1>1, <1>2 DEF Level
<1>3. CASE buckets[ip] # NoBucket
  <2>1. /\ buckets[ip].tokens \in 0..Burst
        /\ clock - buckets[ip].last_refill \in Nat
    BY <1>1, <1>3 DEF TypeOK, Bucket, StampsOK
  <2>2. Rate * (clock - buckets[ip].last_refill) \in Nat
    BY <1>1, <2>1, Product
  <2> QED
    BY <1>1, <1>3, <2>1, <2>2 DEF Level, Capped
<1> QED
  BY <1>2, <1>3

(* allow() decides on the level, whether or not the bucket was evicted     *)
(* just before.                                                            *)
LEMMA CurrentIsLevel ==
  ASSUME TypeOK, StampsOK, NEW ip \in Ips
  PROVE  LET c == Current(buckets, ip, clock)
         IN  /\ c.tokens = Level(ip)
             /\ c = [tokens |-> Level(ip), last_refill |-> clock, last_seen |-> clock]
<1> DEFINE b == buckets[ip]
<1>1. /\ clock \in Nat /\ b \in Bucket \cup {NoBucket} /\ NoBucket \notin Bucket
      /\ Burst \in Nat /\ Rate \in Nat
  BY LimiterAssumption DEF TypeOK
<1>2. CASE b = NoBucket
  BY <1>1, <1>2 DEF Current, Evict, Entry, Refill, Level
<1>3. CASE b # NoBucket /\ Idle(b, clock)
  <2>1. Level(ip) = Burst
    BY <1>1, <1>3, IdleIsFull DEF Level, StampsOK
  <2> QED
    BY <1>1, <1>3, <2>1 DEF Current, Evict, Entry, Refill
<1>4. CASE b # NoBucket /\ ~ Idle(b, clock)
  <2>1. Current(buckets, ip, clock) = Refill(b, clock)
    BY <1>1, <1>4 DEF Current, Evict, Entry
  <2>2. /\ b.last_refill \in Nat /\ b.last_refill <= clock /\ b.tokens \in 0..Burst
        /\ b.last_seen \in Nat
    BY <1>1, <1>4 DEF StampsOK, Bucket
  <2>3. CASE b.last_refill < clock
    BY <1>1, <1>4, <2>1, <2>2, <2>3 DEF Refill, Level
  <2>4. CASE b.last_refill = clock
    <3>1. Rate * (clock - b.last_refill) = 0
      BY <1>1, <2>4
    <3>2. Level(ip) = b.tokens
      BY <1>1, <1>4, <2>2, <3>1 DEF Level, Capped
    <3> QED
      BY <1>1, <2>1, <2>2, <2>4, <3>2 DEF Refill
  <2> QED
    BY <1>1, <2>2, <2>3, <2>4
<1> QED
  BY <1>2, <1>3, <1>4
-----------------------------------------------------------------------------
(* A call costs its caller One if it is granted and nothing if it is not,  *)
(* and nobody else anything, although it evicts idle buckets of others.    *)
LEMMA AllowLevels ==
  ASSUME TypeOK, StampsOK, NEW ip \in Ips, Allow(ip)
  PROVE  /\ verdict' = (Level(ip) >= One)
         /\ Level(ip)' = IF Level(ip) >= One THEN Level(ip) - One ELSE Level(ip)
         /\ \A other \in Ips \ {ip} : Level(other)' = Level(other)
         /\ buckets' \in [Ips -> Bucket \cup {NoBucket}]
         /\ StampsOK'
<1> DEFINE c == Current(buckets, ip, clock)
<1> DEFINE left == IF Level(ip) >= One THEN Level(ip) - One ELSE Level(ip)
<1> DEFINE b == [tokens |-> left, last_refill |-> clock, last_seen |-> clock]
<1>1. /\ clock' = clock /\ clock \in Nat /\ buckets \in [Ips -> Bucket \cup {NoBucket}]
      /\ verdict' = (c.tokens >= One)
      /\ buckets' = [Evict(buckets, clock) EXCEPT ![ip] =
                       IF c.tokens >= One THEN [c EXCEPT !.tokens = @ - One] ELSE c]
  BY DEF Allow, Allowed, AfterAllow, TypeOK
<1>2. Burst \in Nat /\ Rate \in Nat /\ One \in Nat \ {0} /\ NoBucket \notin Bucket
  BY LimiterAssumption
<1>3. Level(ip) \in 0..Burst
  BY LevelType
<1>4. /\ c.tokens = Level(ip)
      /\ c = [tokens |-> Level(ip), last_refill |-> clock, last_seen |-> clock]
  BY CurrentIsLevel
<1>5. buckets' = [Evict(buckets, clock) EXCEPT ![ip] = b]
  <2>1. (IF c.tokens >= One THEN [c EXCEPT !.tokens = @ - One] ELSE c) = b
    <3> HIDE DEF c
    <3> QED
      BY <1>4
  <2> QED
    BY <1>1, <2>1
<1>6. left \in 0..Burst /\ b \in Bucket
  BY <1>1, <1>2, <1>3 DEF Bucket
<1>7. Evict(buckets, clock) \in [Ips -> Bucket \cup {NoBucket}]
  BY <1>1 DEF Evict
<1>8. buckets' \in [Ips -> Bucket \cup {NoBucket}] /\ buckets'[ip] = b
  BY <1>5, <1>6, <1>7
<1>9. \A other \in Ips \ {ip} : buckets'[other] = Evict(buckets, clock)[other]
  BY <1>5, <1>7
<1>10. Level(ip)' = left
  <2>1. Rate * (clock - clock) = 0
    BY <1>1, <1>2
  <2> HIDE DEF left
  <2> QED
    BY <1>1, <1>2, <1>6, <1>8, <2>1 DEF Level, Capped
<1>11. ASSUME NEW other \in Ips \ {ip}
       PROVE  Level(other)' = Level(other)
  <2>1. CASE buckets[other] # NoBucket /\ Idle(buckets[other], clock)
    <3>1. buckets'[other] = NoBucket
      BY <1>9, <2>1 DEF Evict
    <3>2. Level(other) = Burst
      BY <1>1, <2>1, IdleIsFull DEF Level, StampsOK
    <3> QED
      BY <3>1, <3>2 DEF Level
  <2>2. CASE ~ (buckets[other] # NoBucket /\ Idle(buckets[other], clock))
    BY <1>1, <1>9, <2>2 DEF Evict, Level
  <2> QED
    BY <2>1, <2>2
<1>12. StampsOK'
  <2>1. ASSUME NEW a \in Ips, buckets'[a] # NoBucket
        PROVE  buckets'[a].last_seen <= clock /\ buckets'[a].last_refill = buckets'[a].last_seen
    <3>1. CASE a = ip
      BY <1>1, <1>8, <3>1
    <3>2. CASE a # ip
      BY <1>9, <2>1, <3>2 DEF Evict, StampsOK
    <3> QED
      BY <3>1, <3>2
  <2> QED
    BY <1>1, <2>1 DEF StampsOK
<1> QED
  BY <1>1, <1>4, <1>8, <1>10, <1>11, <1>12

(* With the clock, every level rises by Rate up to Burst. *)
LEMMA AdvanceLevels ==
  ASSUME TypeOK, StampsOK, Advance
  PROVE  /\ \A ip \in Ips : Level(ip)' = Capped(Level(ip) + Rate)
         /\ StampsOK'
<1>1. clock \in Nat /\ clock' = clock + 1 /\ buckets' = buckets
  BY DEF Advance, TypeOK
<1>2. Burst \in Nat /\ Rate \in Nat
  BY LimiterAssumption
<1>3. ASSUME NEW ip \in Ips
      PROVE  Level(ip)' = Capped(Level(ip) + Rate)
  <2>1. CASE buckets[ip] = NoBucket
    BY <1>1, <1>2, <2>1 DEF Level, Capped
  <2>2. CASE buckets[ip] # NoBucket
    <3> DEFINE x == clock - buckets[ip].last_refill
    <3>1. x \in Nat /\ buckets[ip].tokens \in 0..Burst
          /\ (clock + 1) - buckets[ip].last_refill = x + 1
      BY <1>1, <1>2, <2>2 DEF TypeOK, StampsOK, Bucket
    <3>2. Rate * (x + 1) = Rate * x + Rate /\ Rate * x \in Nat
      <4> HIDE DEF x
      <4> QED
        BY <1>2, <3>1, Product
    <3>3. Level(ip) = Capped(buckets[ip].tokens + Rate * x)
      BY <2>2 DEF Level
    <3>4. Level(ip)' = Capped(buckets[ip].tokens + (Rate * x + Rate))
      BY <1>1, <2>2, <3>1, <3>2 DEF Level
    <3> HIDE DEF x
    <3> QED
      BY <1>2, <3>1, <3>2, <3>3, <3>4 DEF Capped
  <2> QED
    BY <2>1, <2>2
<1>4. StampsOK'
  <2>1. ASSUME NEW ip \in Ips, buckets[ip] # NoBucket
        PROVE  buckets[ip].last_seen <= clock + 1
    BY <1>1, <2>1 DEF TypeOK, StampsOK, Bucket
  <2> QED
    BY <1>1, <2>1 DEF StampsOK
<1> QED
  BY <1>3, <1>4

(* The observer's budget starts full. *)
LEMMA InitOK == Init => IInv
<1> SUFFICES ASSUME Init PROVE IInv
  OBVIOUS
<1>1. Burst \in Nat /\ Rate \in Nat /\ One \in Nat
  BY LimiterAssumption
<1>2. TypeOK /\ StampsOK
  BY DEF Init, TypeOK, StampsOK
<1>3. /\ clock = 0
      /\ \A ip \in Ips : buckets[ip] = NoBucket /\ since[ip] = 0 /\ granted[ip] = 0
  BY DEF Init
<1>4. BudgetBound
  <2>1. 0 * One = 0 /\ Rate * (0 - 0) = 0
    BY <1>1
  <2> QED
    <3>1. ASSUME NEW ip \in Ips
          PROVE  /\ Level(ip) = Burst
                 /\ granted[ip] * One = 0
                 /\ Rate * (clock - since[ip]) = 0
      BY <1>3, <2>1, Zenon DEF Level
    <3>2. 0 + Burst <= Burst + 0
      BY <1>1
    <3> QED
      BY <3>1, <3>2, Zenon DEF BudgetBound
<1>5. \A ip \in Ips : since[ip] <= clock
  <2>1. 0 <= 0
    OBVIOUS
  <2> QED
    BY <1>3, <2>1, Zenon
<1> QED
  BY <1>2, <1>4, <1>5 DEF IInv

(* Every step keeps within the budget. *)
LEMMA StepOK == IInv /\ [Next]_vars => IInv'
<1> SUFFICES ASSUME IInv, [Next]_vars PROVE IInv'
  OBVIOUS
<1>1. /\ TypeOK /\ StampsOK /\ BudgetBound
      /\ Burst \in Nat /\ Rate \in Nat /\ One \in Nat \ {0} /\ clock \in Nat
      /\ \A ip \in Ips : since[ip] \in Nat /\ granted[ip] \in Nat /\ since[ip] <= clock
      /\ \A ip \in Ips : Level(ip) \in 0..Burst
  BY LimiterAssumption, LevelType DEF IInv, TypeOK
<1>2. CASE Advance
  <2>1. clock' = clock + 1 /\ UNCHANGED <<buckets, verdict, since, granted>>
    BY <1>2 DEF Advance, observer
  <2>2. StampsOK' /\ \A ip \in Ips : Level(ip)' = Capped(Level(ip) + Rate)
    BY <1>1, <1>2, AdvanceLevels
  <2>3. ASSUME NEW ip \in Ips
        PROVE  granted[ip] * One + Level(ip)' <= Burst + Rate * ((clock + 1) - since[ip])
    <3> DEFINE x == clock - since[ip]
    <3> DEFINE g == granted[ip] * One
    <3>1. x \in Nat /\ g \in Nat /\ (clock + 1) - since[ip] = x + 1
      BY <1>1
    <3>2. Rate * (x + 1) = Rate * x + Rate /\ Rate * x \in Nat
      <4> HIDE DEF x
      <4> QED
        BY <1>1, <3>1, Product
    <3>3. g + Level(ip) <= Burst + Rate * x
      BY <1>1 DEF BudgetBound
    <3>4. Level(ip)' <= Level(ip) + Rate /\ Level(ip)' \in Nat
      BY <1>1, <2>2 DEF Capped
    <3>5. g + Level(ip)' <= Burst + (Rate * x + Rate)
      <4> HIDE DEF g, x
      <4> QED
        BY <1>1, <3>1, <3>2, <3>3, <3>4
    <3> QED
      BY <3>1, <3>2, <3>5
  <2>4. BudgetBound'
    BY <2>1, <2>3 DEF BudgetBound
  <2>5. TypeOK' /\ \A ip \in Ips : since'[ip] <= clock'
    BY <1>1, <2>1 DEF TypeOK
  <2> QED
    BY <2>2, <2>4, <2>5 DEF IInv
<1>3. ASSUME NEW ip \in Ips, Allow(ip) PROVE IInv'
  <2>1. /\ clock' = clock /\ since' = since
        /\ granted' = [granted EXCEPT ![ip] = IF verdict' THEN @ + 1 ELSE @]
    BY <1>3 DEF Allow
  <2>2. /\ verdict' = (Level(ip) >= One)
        /\ Level(ip)' = IF Level(ip) >= One THEN Level(ip) - One ELSE Level(ip)
        /\ \A other \in Ips \ {ip} : Level(other)' = Level(other)
        /\ buckets' \in [Ips -> Bucket \cup {NoBucket}]
        /\ StampsOK'
    BY <1>1, <1>3, AllowLevels
  <2>3. /\ granted' \in [Ips -> Nat]
        /\ granted'[ip] = IF verdict' THEN granted[ip] + 1 ELSE granted[ip]
        /\ \A other \in Ips \ {ip} : granted'[other] = granted[other]
    BY <1>1, <2>1 DEF TypeOK
  <2>4. TypeOK'
    BY <1>1, <2>1, <2>2, <2>3 DEF TypeOK
  <2>5. granted'[ip] * One + Level(ip)' <= Burst + Rate * (clock - since[ip])
    <3>1. CASE verdict'
      <4>1. granted'[ip] * One = granted[ip] * One + One /\ granted[ip] * One \in Nat
        BY <1>1, <2>3, <3>1
      <4>2. Level(ip)' = Level(ip) - One
        BY <2>2, <3>1
      <4>3. granted'[ip] * One + Level(ip)' = granted[ip] * One + Level(ip)
        BY <1>1, <4>1, <4>2
      <4> QED
        BY <1>1, <4>3 DEF BudgetBound
    <3>2. CASE ~ verdict'
      BY <1>1, <2>2, <2>3, <3>2 DEF BudgetBound
    <3> QED
      BY <3>1, <3>2
  <2>6. BudgetBound'
    <3>1. ASSUME NEW a \in Ips
          PROVE  granted'[a] * One + Level(a)' <= Burst + Rate * (clock - since[a])
      <4>1. CASE a = ip
        BY <2>5, <4>1
      <4>2. CASE a # ip
        BY <1>1, <2>2, <2>3, <4>2 DEF BudgetBound
      <4> QED
        BY <4>1, <4>2
    <3> QED
      BY <2>1, <3>1 DEF BudgetBound
  <2> QED
    BY <1>1, <2>1, <2>2, <2>4, <2>6 DEF IInv
<1>4. ASSUME NEW ip \in Ips, Observe(ip) PROVE IInv'
  <2>1. /\ UNCHANGED <<clock, buckets, verdict>>
        /\ since' = [since EXCEPT ![ip] = clock]
        /\ granted' = [granted EXCEPT ![ip] = 0]
    BY <1>4 DEF Observe, limiter
  <2>2. TypeOK' /\ StampsOK' /\ \A a \in Ips : since'[a] <= clock'
    BY <1>1, <2>1 DEF TypeOK, StampsOK
  <2>3. \A a \in Ips : Level(a)' = Level(a)
    BY <2>1 DEF Level
  <2>4. ASSUME NEW a \in Ips
        PROVE  granted'[a] * One + Level(a)' <= Burst + Rate * (clock - since'[a])
    <3>1. CASE a = ip
      <4>1. granted'[a] = 0 /\ since'[a] = clock /\ 0 * One = 0 /\ Rate * (clock - clock) = 0
        BY <1>1, <2>1, <3>1 DEF TypeOK
      <4> QED
        BY <1>1, <2>3, <4>1
    <3>2. CASE a # ip
      BY <1>1, <2>1, <2>3, <3>2 DEF BudgetBound, TypeOK
    <3> QED
      BY <3>1, <3>2
  <2>5. BudgetBound'
    BY <2>1, <2>4 DEF BudgetBound
  <2> QED
    BY <2>2, <2>5 DEF IInv
<1>5. CASE UNCHANGED vars
  BY <1>1, <1>5 DEF vars, limiter, observer, IInv, TypeOK, StampsOK, BudgetBound, Level
<1> QED
  BY <1>2, <1>3, <1>4, <1>5 DEF Next

-----------------------------------------------------------------------------
(* The budget is kept throughout. *)
THEOREM Invariance == Spec => []IInv
BY InitOK, StepOK, PTL DEF Spec

(* The map holds buckets of at most the burst, and the books are kept in   *)
(* natural numbers.                                                        *)
THEOREM TypeCorrect == Spec => []TypeOK
<1>1. IInv => TypeOK
  BY DEF IInv
<1> QED
  BY <1>1, Invariance, PTL

(* Over any interval no address gets more than the burst plus what the     *)
(* rate earns in it, for every setting of the limiter that refills a       *)
(* bucket before it evicts it.                                             *)
THEOREM RateIsBounded == Spec => []RateBound
<1>1. IInv => RateBound
  <2> SUFFICES ASSUME IInv, NEW ip \in Ips
               PROVE  granted[ip] * One <= Burst + Rate * (clock - since[ip])
    BY DEF RateBound
  <2> DEFINE budget == Burst + Rate * (clock - since[ip])
  <2>1. granted[ip] * One + Level(ip) <= budget
    BY DEF IInv, BudgetBound
  <2>2. Level(ip) \in Nat
    BY LevelType, LimiterAssumption DEF IInv
  <2>3. /\ granted[ip] \in Nat /\ One \in Nat /\ clock - since[ip] \in Nat
        /\ Rate \in Nat /\ Burst \in Nat
    BY LimiterAssumption DEF IInv, TypeOK
  <2>4. granted[ip] * One \in Nat /\ budget \in Nat
    BY <2>3, Product
  <2> HIDE DEF budget
  <2>5. granted[ip] * One <= budget
    BY <2>1, <2>2, <2>4
  <2> QED
    BY <2>5 DEF budget
<1> QED
  BY <1>1, Invariance, PTL

(* Every behaviour of the limiter is one of buckets that are never         *)
(* evicted: retain() and or_insert_with() together change no verdict.      *)
THEOREM EvictionIsInvisible == Spec => NeverEvicted
<1> DEFINE level == [ip \in Ips |-> Level(ip)]
<1>1. Init => Eternal!Init
  BY DEF Init, Eternal!Init, Level
<1>2. IInv /\ [Next]_vars => [Eternal!Next]_Eternal!vars
  <2> SUFFICES ASSUME IInv, [Next]_vars
               PROVE  Eternal!Next \/ UNCHANGED <<level, verdict>>
    BY DEF Eternal!vars
  <2>1. /\ TypeOK /\ StampsOK
        /\ Burst \in Nat /\ Rate \in Nat /\ One \in Nat
        /\ \A ip \in Ips : Level(ip) \in 0..Burst
    BY LimiterAssumption, LevelType DEF IInv
  <2>2. CASE Advance
    <3>1. \A ip \in Ips : Level(ip)' = Capped(Level(ip) + Rate)
      BY <2>1, <2>2, AdvanceLevels
    <3>2. UNCHANGED verdict
      BY <2>2 DEF Advance
    <3>3. Eternal!Earn
      BY <3>1, <3>2 DEF Eternal!Earn, Capped
    <3> QED
      BY <3>3 DEF Eternal!Next
  <2>3. ASSUME NEW ip \in Ips, Allow(ip)
        PROVE  Eternal!Grant(ip) \/ Eternal!Refuse(ip)
    <3>1. /\ verdict' = (Level(ip) >= One)
          /\ Level(ip)' = IF Level(ip) >= One THEN Level(ip) - One ELSE Level(ip)
          /\ \A other \in Ips \ {ip} : Level(other)' = Level(other)
      BY <2>1, <2>3, AllowLevels
    <3>2. ASSUME Level(ip) >= One
          PROVE  Eternal!Grant(ip)
      BY <3>1, <3>2 DEF Eternal!Grant
    <3>3. ASSUME ~ (Level(ip) >= One)
          PROVE  Eternal!Refuse(ip)
      <4>1. Level(ip) < One
        BY <2>1, <3>3
      <4>2. verdict' = FALSE
        <5>1. verdict' \in BOOLEAN
          BY StepOK DEF IInv, TypeOK
        <5>2. ~ verdict'
          BY <3>1, <3>3, Zenon
        <5> QED
          BY <5>1, <5>2, Zenon
      <4>3. UNCHANGED level
        BY <3>1, <3>3
      <4> QED
        BY <4>1, <4>2, <4>3 DEF Eternal!Refuse
    <3> QED
      BY <3>2, <3>3
  <2>4. ASSUME NEW ip \in Ips, Observe(ip)
        PROVE  UNCHANGED <<level, verdict>>
    BY <2>4 DEF Observe, limiter, Level
  <2>5. CASE UNCHANGED vars
    BY <2>5 DEF vars, limiter, Level
  <2> QED
    BY <2>2, <2>3, <2>4, <2>5 DEF Next, Eternal!Next
<1> QED
  BY <1>1, <1>2, Invariance, PTL DEF Spec, NeverEvicted, Eternal!Spec
=============================================================================
