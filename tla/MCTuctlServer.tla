--------------------------- MODULE MCTuctlServer ---------------------------
(***************************************************************************)
(* Small instances of tuctl-server: requests from two sockets of one       *)
(* address, some of them sealed by a clock that is a second ahead.         *)
(***************************************************************************)
EXTENDS TuctlServer, TLC

CONSTANTS n1, n2, n3, s1

Sock(port) == [ip |-> "client", port |-> port]

MCSockets == {Sock(1), Sock(2)}
MCServer == [ip |-> "server", port |-> 0]
MCNonces == Tasks \cup {n1, n2, n3}
MCIps == {"client", "server"}

Request(port, ts, nonce, auth) ==
  [src |-> Sock(port), dst |-> MCServer, ts |-> ts, nonce |-> nonce,
   auth |-> auth, script |-> s1]

(* Two requests and a damaged one. *)
ThreeRequests ==
  {Request(1, 0, n1, TRUE), Request(2, 1, n2, TRUE), Request(2, 0, n3, FALSE)}

TaskSymmetry == Permutations(Tasks)
=============================================================================
