--------------------------- MODULE EternalBuckets ---------------------------
(***************************************************************************)
(* What the rate limiter promises: one bucket per address that always      *)
(* exists, gains Rate with every tick up to Burst, and pays One for every  *)
(* request it lets through.                                                *)
(***************************************************************************)
EXTENDS Integers

CONSTANTS Ips, One, Burst, Rate

VARIABLES level, verdict

vars == <<level, verdict>>

Init == level = [ip \in Ips |-> Burst] /\ verdict = FALSE

Earn ==
  /\ level' = [ip \in Ips |-> IF level[ip] + Rate > Burst
                              THEN Burst ELSE level[ip] + Rate]
  /\ UNCHANGED verdict

Grant(ip) ==
  /\ level[ip] >= One
  /\ level' = [level EXCEPT ![ip] = @ - One]
  /\ verdict' = TRUE

Refuse(ip) ==
  /\ level[ip] < One
  /\ verdict' = FALSE
  /\ UNCHANGED level

Next == Earn \/ \E ip \in Ips : Grant(ip) \/ Refuse(ip)

Spec == Init /\ [][Next]_vars
=============================================================================
