---------------------------- MODULE RateLimiter ----------------------------
(***************************************************************************)
(* tuctl-server's rate limiter as a component: calls of allow() for any    *)
(* address at any time.  An observer (`since`, `granted`) may start        *)
(* counting the requests let through from an address at any moment, so     *)
(* that what is said of the count is said of every interval of time.       *)
(***************************************************************************)
EXTENDS TokenBucket

CONSTANT MaxTicks     \* bound: the clock stops here

VARIABLES
  clock,              \* Instant::now(), in ticks
  buckets,            \* AsyncRateLimiter.map
  verdict,            \* what the latest call of allow() said
  since, granted      \* observer: passed requests per address, and since when

ASSUME MaxTicksAssumption == MaxTicks \in Nat

limiter == <<clock, buckets, verdict>>
observer == <<since, granted>>
vars == <<limiter, observer>>

TypeOK ==
  /\ clock \in Nat
  /\ buckets \in [Ips -> Bucket \cup {NoBucket}]
  /\ verdict \in BOOLEAN
  /\ since \in [Ips -> Nat]
  /\ granted \in [Ips -> Nat]

Init ==
  /\ clock = 0
  /\ buckets = [ip \in Ips |-> NoBucket]
  /\ verdict = FALSE
  /\ since = [ip \in Ips |-> 0]
  /\ granted = [ip \in Ips |-> 0]

Allow(ip) ==
  /\ verdict' = Allowed(buckets, ip, clock)
  /\ buckets' = AfterAllow(buckets, ip, clock)
  /\ granted' = [granted EXCEPT ![ip] = IF verdict' THEN @ + 1 ELSE @]
  /\ UNCHANGED <<clock, since>>

Advance ==
  /\ clock < MaxTicks
  /\ clock' = clock + 1
  /\ UNCHANGED <<buckets, verdict, observer>>

Observe(ip) ==
  /\ since' = [since EXCEPT ![ip] = clock]
  /\ granted' = [granted EXCEPT ![ip] = 0]
  /\ UNCHANGED limiter

Next ==
  \/ Advance
  \/ \E ip \in Ips : Allow(ip) \/ Observe(ip)

Spec == Init /\ [][Next]_vars

-----------------------------------------------------------------------------
(* The tokens an address would find if it asked now, evicted or not. *)
Level(ip) ==
  IF buckets[ip] = NoBucket
  THEN Burst
  ELSE Capped(buckets[ip].tokens + Rate * (clock - buckets[ip].last_refill))

(* Over any interval, an address never gets more requests past allow()     *)
(* than the burst plus what the rate earned in that interval, although     *)
(* idle buckets are dropped and later handed out full.                     *)
RateBound ==
  \A ip \in Ips : granted[ip] * One <= Burst + Rate * (clock - since[ip])

(* The limiter behaves like buckets that are never evicted: forgetting an  *)
(* idle address is invisible to every caller.                              *)
Eternal == INSTANCE EternalBuckets
             WITH level <- [ip \in Ips |-> Level(ip)], verdict <- verdict

NeverEvicted == Eternal!Spec
=============================================================================
