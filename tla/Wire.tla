-------------------------------- MODULE Wire --------------------------------
(***************************************************************************)
(* What tuctl-client and tuctl-server share: the wall clock and UDP.       *)
(*                                                                         *)
(* A datagram in `net` stays there for ever: it may be delivered late, out *)
(* of order, several times or never.  The wire may also bounce a datagram  *)
(* back to the socket that sent it: the packet format says nothing about   *)
(* its direction, and both programs guard against their own packets by     *)
(* entering the nonces they send into their own replay window.             *)
(*                                                                         *)
(* `auth` tells whether decryption succeeds: it is FALSE for a short,      *)
(* truncated or damaged packet and for another key.  `script` is the       *)
(* script a request carries, or the one whose output a response carries.   *)
(***************************************************************************)
EXTENDS Integers

CONSTANTS
  Sockets,      \* the UDP sockets of the clients: [ip, port] records
  Server,       \* the server's socket, another such record
  Nonces,       \* every nonce, the clients' and the server's
  Scripts,      \* the scripts the clients send
  MaxTime       \* bound: the clock stops here

VARIABLES
  now,          \* the wall clock, in seconds since the epoch
  net           \* every datagram sent so far

ASSUME ServerSocketAssumption == Server \notin Sockets
ASSUME MaxTimeAssumption == MaxTime \in Nat

Datagram == [src : Sockets \cup {Server}, dst : Sockets \cup {Server},
             ts : Nat, nonce : Nonces, auth : BOOLEAN, script : Scripts]

(* A datagram reaches the socket it is addressed to, or bounces. *)
Reaches(d, sock) == sock \in {d.dst, d.src}

(* The peer address recv_from reports: of a bounced datagram, its target.  *)
Peer(d, sock) == IF d.dst = sock THEN d.src ELSE d.dst

WireInit == now = 0 /\ net = {}

(* send_to hands the datagram to the network. *)
Transmit(d) == net' = net \cup {d}

(* SystemTime moves forward.  It is assumed never to be set back. *)
Tick == /\ now < MaxTime
        /\ now' = now + 1
        /\ UNCHANGED net
=============================================================================
