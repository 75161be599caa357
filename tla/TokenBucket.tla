---------------------------- MODULE TokenBucket ----------------------------
(***************************************************************************)
(* The per-address token buckets of tuctl-server (AsyncRateLimiter).       *)
(*                                                                         *)
(* The HashMap is a function on all addresses, NoBucket where it has no    *)
(* key.  Instants are numbers of clock ticks.  Tokens are counted in       *)
(* fractions of a token, One of which make a whole one, so that the rate   *)
(* is an integer per tick; the rounding of f64 is left out.                *)
(***************************************************************************)
EXTENDS Integers

CONSTANTS
  Ips,            \* the addresses requests come from
  One,            \* fractions in a token: what one request costs
  Burst,          \* burst_tokens, in fractions
  Rate,           \* refill_rate, in fractions per tick
  TicksPerSec,    \* resolution of Instant
  IdleEvictSec,   \* idle_evict_sec
  NoBucket        \* absent from the map

Bucket == [tokens : 0..Burst, last_refill : Nat, last_seen : Nat]

(* A bucket that is forgotten and made again is handed out full, so it     *)
(* must have been idle long enough to be full anyway.  main() starts the   *)
(* limiter with 10.0 tokens, 5.0 tokens per second and 60 seconds.         *)
ASSUME LimiterAssumption ==
  /\ One \in Nat \ {0} /\ Burst \in Nat /\ Rate \in Nat
  /\ TicksPerSec \in Nat \ {0} /\ IdleEvictSec \in Nat
  /\ NoBucket \notin Bucket
  /\ Burst <= Rate * (TicksPerSec * (IdleEvictSec + 1))

Capped(tokens) == IF tokens > Burst THEN Burst ELSE tokens

(* Mutant: eviction one second early. *)
IdleEarly(b, now) == (now - b.last_seen) \div TicksPerSec >= IdleEvictSec

(* now.duration_since(v.last_seen).as_secs() > idle_evict_sec: as_secs     *)
(* rounds down.                                                            *)
Idle(b, now) == (now - b.last_seen) \div TicksPerSec > IdleEvictSec

(* self.map.retain(...) over every address, not just the caller's. *)
Evict(buckets, now) ==
  [ip \in Ips |-> IF buckets[ip] # NoBucket /\ Idle(buckets[ip], now)
                  THEN NoBucket ELSE buckets[ip]]

(* self.map.entry(ip).or_insert_with(...) *)
Entry(b, now) ==
  IF b = NoBucket
  THEN [tokens |-> Burst, last_refill |-> now, last_seen |-> now]
  ELSE b

(* Mutant: last_refill is not moved, so the same time is paid for twice.   *)
RefillTwice(b, now) ==
  [tokens |-> Capped(b.tokens + Rate * (now - b.last_refill)),
   last_refill |-> b.last_refill, last_seen |-> now]

(* The refill for the time since the last one, and the new last_seen. *)
Refill(b, now) ==
  [tokens |-> IF now > b.last_refill
              THEN Capped(b.tokens + Rate * (now - b.last_refill))
              ELSE b.tokens,
   last_refill |-> IF now > b.last_refill THEN now ELSE b.last_refill,
   last_seen |-> now]

(* The caller's bucket when allow() decides. *)
Current(buckets, ip, now) == Refill(Entry(Evict(buckets, now)[ip], now), now)

(* The verdict of allow(). *)
Allowed(buckets, ip, now) == Current(buckets, ip, now).tokens >= One

(* Mutant: refused requests are charged as well. *)
ChargeAlways(buckets, ip, now) ==
  [Evict(buckets, now) EXCEPT ![ip] =
     [Current(buckets, ip, now) EXCEPT !.tokens = @ - One]]

(* The map allow() leaves behind. *)
AfterAllow(buckets, ip, now) ==
  LET b == Current(buckets, ip, now)
  IN  [Evict(buckets, now) EXCEPT ![ip] =
         IF b.tokens >= One THEN [b EXCEPT !.tokens = @ - One] ELSE b]
=============================================================================
