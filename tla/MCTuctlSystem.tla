--------------------------- MODULE MCTuctlSystem ---------------------------
(***************************************************************************)
(* Small instances of clients and server.                                  *)
(***************************************************************************)
EXTENDS TuctlSystem, TLC

CONSTANTS c1, c2, s1, s2, bad

Ip(c) == IF c = c1 THEN "ip1" ELSE "ip2"

MCIpOf == [c \in Clients |-> Ip(c)]
MCScriptOf == [c \in Clients |-> IF c = c1 THEN s1 ELSE s2]
(* The first client's clock is a second behind, the second's a second ahead. *)
Skewed == [c \in Clients |-> IF c = c1 THEN -1 ELSE 1]

MCSocket(c, k) == [ip |-> Ip(c), port |-> <<c, k>>]
MCSockets == {MCSocket(c, k) : c \in Clients, k \in 0..MaxRetries}
MCServer == [ip |-> "server", port |-> <<>>]
MCNonces == Tasks \cup {bad} \cup {<<c, k>> : c \in Clients, k \in 0..MaxRetries}
MCIps == {"ip1", "ip2", "server"}

MCRequests ==
  {[src |-> MCSocket(c, k), dst |-> MCServer, ts |-> ts, nonce |-> <<c, k>>,
    auth |-> TRUE, script |-> MCScriptOf[c]] :
      c \in Clients, k \in 0..MaxRetries, ts \in 0..(MaxTime + MaxSkew)}

(* A damaged datagram to the first client. *)
Damaged ==
  {[src |-> MCSocket(c1, 0), dst |-> MCSocket(c1, 0), ts |-> 0,
    nonce |-> bad, auth |-> FALSE, script |-> s1]}

WithNoise == MCRequests \cup Damaged

TaskSymmetry == Permutations(Tasks)
=============================================================================
