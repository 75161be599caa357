---------------------------- MODULE TuctlSystem ----------------------------
(***************************************************************************)
(* Clients and the server together, over a wire that delays, reorders,     *)
(* duplicates, loses, bounces and damages datagrams.                       *)
(***************************************************************************)
EXTENDS TuctlServer, TuctlClient

CONSTANT MaxSkew    \* bound: no client's clock is further ahead

systemVars == <<vars, clients>>

(* The requests clients make are among those the server is specified for;  *)
(* what else is there is damaged.                                          *)
ASSUME SystemAssumption ==
  /\ MaxSkew \in Nat
  /\ \A c \in Clients : ClockSkew[c] <= MaxSkew
  /\ \A c \in Clients, k \in 0..MaxRetries, ts \in 0..(MaxTime + MaxSkew) :
       [src |-> [ip |-> IpOf[c], port |-> <<c, k>>], dst |-> Server, ts |-> ts,
        nonce |-> <<c, k>>, auth |-> TRUE, script |-> ScriptOf[c]] \in Requests

SystemInit == Init /\ ClientInit

(* The network delivers garbage. *)
Noise(d) == ~ d.auth /\ ClientSends(d) /\ UNCHANGED clients

SystemNext ==
  \/ \E c \in Clients : ClientStep(c) /\ UNCHANGED server
  \/ ServerNext /\ UNCHANGED clients
  \/ \E d \in Requests : Noise(d)
  \/ Tick /\ UNCHANGED <<server, clients>>

SystemSpec == SystemInit /\ [][SystemNext]_systemVars

(* recv_from returns after the read timeout at the latest, and the rest of *)
(* run() does not block.  That a datagram is delivered is not assumed.     *)
FairSystemSpec ==
  SystemSpec /\ \A c \in Clients : WF_systemVars(Unaided(c) /\ UNCHANGED server)

-----------------------------------------------------------------------------
(* When run() succeeds, the server ran a script for the very attempt the   *)
(* client was waiting in, and what is printed is the output of the         *)
(* client's own script: not the request bounced back, not the answer to    *)
(* an earlier attempt or to somebody else.                                 *)
SuccessMeansExecuted ==
  \A c \in Clients : cpc[c] = "ok" =>
    /\ response[c].script = ScriptOf[c]
    /\ \E t \in ran : packet[t].nonce = <<c, retries[c]>>

(* The tasks that ran a script and owe the answer to an attempt of c. *)
RanFor(c) ==
  {t \in ran : \E k \in 0..MaxRetries : Peer(packet[t], Server) = SocketOf(c, k)}

(* As long as the server keeps its window (no restart, and no more packets *)
(* recorded than --replay-max), it runs a script at most once per attempt  *)
(* of a client, and none but the client's, whatever the wire does; and     *)
(* nothing is run that is owed to nobody.                                  *)
OncePerAttempt ==
  restarts = 0 /\ pushed <= ReplayMax =>
    /\ ran = UNION {RanFor(c) : c \in Clients}
    /\ \A c \in Clients :
         /\ Cardinality(RanFor(c)) <= retries[c] + 1
         /\ \A t \in RanFor(c) : packet[t].script = ScriptOf[c]

(* Every client comes to an end: max_retries bounds the attempts and the   *)
(* read timeout bounds each.                                               *)
ClientsEnd == \A c \in Clients : <>(cpc[c] \in {"ok", "err"})

(* Every task of the server comes to an end, through every error path and  *)
(* across a restart, whatever the clients do, if the server's scheduler is *)
(* fair; the clients need no such assumption.                              *)
TasksEnd == Fairness => Ends

(* To the server the clients are just an environment: what is proved of    *)
(* TuctlServer holds in the whole system.                                  *)
ServerIsServer == Spec
=============================================================================
