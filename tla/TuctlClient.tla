---------------------------- MODULE TuctlClient ----------------------------
(***************************************************************************)
(* tuctl-client: run() sends the script, waits for one datagram, and after *)
(* a timeout tries again from a new socket with a new nonce, max_retries   *)
(* times at most.  Several clients run at the same time.                   *)
(*                                                                         *)
(* The timeout of 5 seconds may fire at any moment of a wait: nothing is   *)
(* assumed of how long the network or the server take.  A new socket has   *)
(* a port that no earlier socket had, and a nonce is never drawn twice.    *)
(***************************************************************************)
EXTENDS Wire, ReplayWindow

CONSTANTS
  Clients,          \* the running clients
  IpOf, ScriptOf,   \* the address and the script of each
  ClockSkew,        \* how far the clock of each is ahead of the server's
  MaxRetries,       \* max-retries
  ClientWindow,     \* window
  ClientReplayMax,  \* DEFAULT_REPLAY_MAX
  NoResponse        \* nothing received

VARIABLES
  cpc,              \* where run() is
  retries,          \* retries
  rwin,             \* rwin.entries
  rpushed,          \* number of replay_add calls
  response          \* the datagram whose contents run() printed

clients == <<cpc, retries, rwin, rpushed, response>>

ASSUME ClientAssumption ==
  /\ MaxRetries \in Nat /\ ClientWindow \in Nat /\ ClientReplayMax \in Nat \ {0}
  /\ ScriptOf \in [Clients -> Scripts]
  /\ ClockSkew \in [Clients -> Int]
  /\ \A c \in Clients, k \in 0..MaxRetries :
       [ip |-> IpOf[c], port |-> <<c, k>>] \in Sockets /\ <<c, k>> \in Nonces
  /\ NoResponse \notin Datagram

ClientTypeOK ==
  /\ cpc \in [Clients -> {"send", "wait", "ok", "err"}]
  /\ retries \in [Clients -> 0..MaxRetries]
  /\ rpushed \in [Clients -> Nat]
  /\ \A c \in Clients : rwin[c] \subseteq [ts : Nat, nonce : Nonces, at : 1..rpushed[c]]
  /\ response \in [Clients -> Datagram \cup {NoResponse}]

ClientInit ==
  /\ cpc = [c \in Clients |-> "send"]
  /\ retries = [c \in Clients |-> 0]
  /\ rwin = [c \in Clients |-> {}]
  /\ rpushed = [c \in Clients |-> 0]
  /\ response = [c \in Clients |-> NoResponse]

(* Mutant: a clock before the epoch is not clamped. *)
ClientTimeUnclamped(c) == now + ClockSkew[c]

(* current_unix_time on the client's machine: 0 before the epoch. *)
ClientTime(c) == IF now + ClockSkew[c] < 0 THEN 0 ELSE now + ClockSkew[c]

(* create_dualstack_udp_socket binds a fresh port for every attempt. *)
SocketOf(c, k) == [ip |-> IpOf[c], port |-> <<c, k>>]
Socket(c) == SocketOf(c, retries[c])

(* What encrypt_and_send_packet puts on the wire. *)
RequestOf(c) ==
  [src |-> Socket(c), dst |-> Server, ts |-> ClientTime(c),
   nonce |-> <<c, retries[c]>>, auth |-> TRUE, script |-> ScriptOf[c]]

ClientGoto(c, from, to) == cpc[c] = from /\ cpc' = [cpc EXCEPT ![c] = to]

(* Mutant: the client does not record what it sends. *)
Forgetful(c, old, d) == UNCHANGED <<rwin, rpushed>>

(* rwin.replay_add *)
Remember(c, old, d) ==
  /\ rpushed' = [rpushed EXCEPT ![c] = @ + 1]
  /\ rwin' = [rwin EXCEPT ![c] =
                ReplayAdd(old, ClientReplayMax, d.ts, d.nonce, rpushed'[c])]

(* The script goes out and its nonce into the client's own window. *)
SendRequest(c) ==
  /\ ClientGoto(c, "send", "wait")
  /\ Transmit(RequestOf(c))
  /\ Remember(c, rwin[c], RequestOf(c))
  /\ UNCHANGED <<now, retries, response>>

(* No socket, no address, no key, or sendto fails. *)
CannotSend(c) ==
  /\ ClientGoto(c, "send", "err")
  /\ UNCHANGED <<now, net, retries, rwin, rpushed, response>>

(* Mutant: one retry too many. *)
RetryOnceMore(c) ==
  /\ retries[c] <= MaxRetries
  /\ ClientGoto(c, "wait", "send")
  /\ retries' = [retries EXCEPT ![c] = @ + 1]
  /\ UNCHANGED <<now, net, rwin, rpushed, response>>

(* recvfrom timeout, and there are retries left. *)
Retry(c) ==
  /\ retries[c] < MaxRetries
  /\ ClientGoto(c, "wait", "send")
  /\ retries' = [retries EXCEPT ![c] = @ + 1]
  /\ UNCHANGED <<now, net, rwin, rpushed, response>>

(* Mutant: the last attempt waits without a timeout. *)
WaitForEver(c) ==
  /\ retries[c] < MaxRetries
  /\ ClientGoto(c, "wait", "err")
  /\ UNCHANGED <<now, net, retries, rwin, rpushed, response>>

(* recvfrom timeout with none left, or the first error of the socket. *)
GiveUp(c) ==
  /\ ClientGoto(c, "wait", "err")
  /\ UNCHANGED <<now, net, retries, rwin, rpushed, response>>

(* decrypt_and_validate_packet: the window is asked before the cipher. *)
Fresh(c, d) == ReplayCheck(rwin[c], ClientWindow, ClientTime(c), d.ts, d.nonce)

Pruned(c, d) == AfterCheck(rwin[c], ClientWindow, ClientTime(c), d.ts)

(* The first datagram is a replay, too old or not authentic: run() ends,   *)
(* it does not wait for another.  A short one never gets to the window.    *)
Reject(c, d) ==
  /\ Reaches(d, Socket(c))
  /\ ~ (Fresh(c, d) /\ d.auth)
  /\ ClientGoto(c, "wait", "err")
  /\ \/ rwin' = [rwin EXCEPT ![c] = Pruned(c, d)]
     \/ ~ d.auth /\ UNCHANGED rwin
  /\ UNCHANGED <<now, net, retries, rpushed, response>>

(* Its contents are printed as the response. *)
Succeed(c, d) ==
  /\ Reaches(d, Socket(c))
  /\ Fresh(c, d) /\ d.auth
  /\ ClientGoto(c, "wait", "ok")
  /\ Remember(c, Pruned(c, d), d)
  /\ response' = [response EXCEPT ![c] = d]
  /\ UNCHANGED <<now, net, retries>>

(* What run() does without the network: nothing of it blocks, except the   *)
(* wait that the read timeout ends.                                        *)
Unaided(c) ==
  \/ SendRequest(c) \/ CannotSend(c)
  \/ Retry(c) \/ GiveUp(c)

ClientStep(c) ==
  \/ Unaided(c)
  \/ \E d \in net : Reject(c, d) \/ Succeed(c, d)
=============================================================================
