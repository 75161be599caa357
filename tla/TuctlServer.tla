---------------------------- MODULE TuctlServer ----------------------------
(***************************************************************************)
(* tuctl-server: the receive loop of main() and the tasks it spawns, one   *)
(* process_packet each.  A task holds the replay window's mutex while it   *)
(* decrypts, checks and records its packet (Admit), and once more to       *)
(* record the nonce of its response (Record); between the two it awaits a  *)
(* child process, and everything else may happen.                          *)
(*                                                                         *)
(* A restart loses everything the server keeps in memory.  A child that    *)
(* was started goes on: it is not killed with its parent.                  *)
(***************************************************************************)
EXTENDS Wire, ReplayWindow, TokenBucket

CONSTANTS
  Tasks,          \* the tasks main() spawns, each of which lives once; a
                  \* task also stands for the random nonce of its response
  Requests,       \* the datagrams others than the server put on the wire
  Window,         \* --window, in seconds
  ReplayMax,      \* --replay-max, in entries
  MaxRestarts,    \* bound on restarts
  NoPacket        \* the packet of a task not yet spawned

VARIABLES
  entries,        \* ReplayWindow.entries
  buckets,        \* AsyncRateLimiter.map
  pc,             \* where each task is
  packet,         \* the datagram a task was spawned with
  sealed,         \* the timestamp of a task's encrypted response
  pushed,         \* number of calls of replay_add so far
  restarts,       \* number of restarts so far
  log,            \* history: every call of replay_add
  ran             \* history: the tasks whose child ran the script

wire == <<now, net>>
window == <<entries, pushed, log>>
tasks == <<pc, packet, sealed, ran>>
server == <<window, buckets, tasks, restarts>>
vars == <<wire, server>>

ASSUME ServerAssumption ==
  /\ Window \in Nat /\ ReplayMax \in Nat /\ MaxRestarts \in Nat
  /\ Tasks \subseteq Nonces
  /\ Requests \subseteq Datagram /\ \A d \in Requests : d.src \in Sockets
  /\ \A s \in Sockets \cup {Server} : s.ip \in Ips
  /\ NoPacket \notin Datagram

Step == {"free", "queued", "admitted", "running", "ran", "sealed",
         "recorded", "end", "orphan"}

(* One call of replay_add: the entry, when it was pushed, in which life of *)
(* the server, by which task, for its request or for its response.         *)
LogRecord == [ts : Nat, nonce : Nonces, at : Nat, life : Nat,
              task : Tasks, kind : {"request", "response"}]

TypeOK ==
  /\ now \in Nat
  /\ net \subseteq Datagram
  /\ entries \subseteq [ts : Nat, nonce : Nonces, at : 1..pushed]
  /\ buckets \in [Ips -> Bucket \cup {NoBucket}]
  /\ pc \in [Tasks -> Step]
  /\ packet \in [Tasks -> Datagram \cup {NoPacket}]
  /\ sealed \in [Tasks -> Nat]
  /\ pushed \in Nat
  /\ restarts \in Nat
  /\ log \subseteq LogRecord
  /\ ran \subseteq Tasks

Init ==
  /\ WireInit
  /\ entries = {}
  /\ buckets = [ip \in Ips |-> NoBucket]
  /\ pc = [t \in Tasks |-> "free"]
  /\ packet = [t \in Tasks |-> NoPacket]
  /\ sealed = [t \in Tasks |-> 0]
  /\ pushed = 0
  /\ restarts = 0
  /\ log = {}
  /\ ran = {}

Goto(t, from, to) == pc[t] = from /\ pc' = [pc EXCEPT ![t] = to]

-----------------------------------------------------------------------------
(* The receive loop.  The limiter's clock is the wall clock. *)

From(d) == Peer(d, Server).ip

Ticks == now * TicksPerSec

(* recv_from returns d and allow() passes it: the packet gets a task. *)
Accept(d, t) ==
  /\ Reaches(d, Server)
  /\ Allowed(buckets, From(d), Ticks)
  /\ Goto(t, "free", "queued")
  /\ packet' = [packet EXCEPT ![t] = d]
  /\ buckets' = AfterAllow(buckets, From(d), Ticks)
  /\ UNCHANGED <<wire, window, sealed, ran, restarts>>

(* allow() refuses d: `continue`. *)
Refuse(d) ==
  /\ Reaches(d, Server)
  /\ ~ Allowed(buckets, From(d), Ticks)
  /\ buckets' = AfterAllow(buckets, From(d), Ticks)
  /\ UNCHANGED <<wire, window, tasks, restarts>>

-----------------------------------------------------------------------------
(* process_packet *)

(* replay_add, called by task t for its request or for its response. *)
Push(old, t, ts, nonce, kind) ==
  /\ pushed' = pushed + 1
  /\ entries' = ReplayAdd(old, ReplayMax, ts, nonce, pushed')
  /\ log' = log \cup {[ts |-> ts, nonce |-> nonce, at |-> pushed',
                       life |-> restarts, task |-> t, kind |-> kind]}

(* Mutant: a replay is noticed, but the task does not return. *)
DropUnauthentic(t) ==
  /\ Goto(t, "queued", "end")
  /\ ~ packet[t].auth
  /\ UNCHANGED <<wire, window, buckets, packet, sealed, ran, restarts>>

(* Dropped under the first lock: "decrypt/auth fail" or "short packet",    *)
(* which leave the window as it is, or "replay/window", which may prune.   *)
Drop(t) ==
  LET d == packet[t] IN
  /\ Goto(t, "queued", "end")
  /\ \/ ~ d.auth /\ UNCHANGED entries
     \/ /\ d.auth
        /\ ~ ReplayCheck(entries, Window, now, d.ts, d.nonce)
        /\ entries' = AfterCheck(entries, Window, now, d.ts)
  /\ UNCHANGED <<wire, pushed, log, buckets, packet, sealed, ran, restarts>>

(* Mutant: the nonce is recorded without having been checked. *)
AdmitUnchecked(t) ==
  LET d == packet[t] IN
  /\ Goto(t, "queued", "admitted")
  /\ d.auth
  /\ InWindow(Window, now, d.ts)
  /\ Push(AfterCheck(entries, Window, now, d.ts), t, d.ts, d.nonce, "request")
  /\ UNCHANGED <<wire, buckets, packet, sealed, ran, restarts>>

(* Mutant: the nonce is checked, but not recorded. *)
AdmitUnrecorded(t) ==
  LET d == packet[t] IN
  /\ Goto(t, "queued", "admitted")
  /\ d.auth
  /\ ReplayCheck(entries, Window, now, d.ts, d.nonce)
  /\ entries' = AfterCheck(entries, Window, now, d.ts)
  /\ UNCHANGED <<wire, pushed, log, buckets, packet, sealed, ran, restarts>>

(* Checked and recorded under the first lock. *)
Admit(t) ==
  LET d == packet[t] IN
  /\ Goto(t, "queued", "admitted")
  /\ d.auth
  /\ ReplayCheck(entries, Window, now, d.ts, d.nonce)
  /\ Push(AfterCheck(entries, Window, now, d.ts), t, d.ts, d.nonce, "request")
  /\ UNCHANGED <<wire, buckets, packet, sealed, ran, restarts>>

(* execute_command starts the child and writes the script to its stdin. *)
Spawn(t) ==
  /\ Goto(t, "admitted", "running")
  /\ UNCHANGED <<wire, window, buckets, packet, sealed, ran, restarts>>

(* It cannot be started, or is gone before it took its input: no response. *)
SpawnFails(t) ==
  /\ Goto(t, "admitted", "end")
  /\ UNCHANGED <<wire, window, buckets, packet, sealed, ran, restarts>>

(* The child runs the script and exits; its output is collected, cut to    *)
(* MAX_PT_SIZE and padded.  Nobody collects the output of an orphan.       *)
ChildRuns(t) ==
  /\ Goto(t, "running", "ran") \/ Goto(t, "orphan", "end")
  /\ ran' = ran \cup {t}
  /\ UNCHANGED <<wire, window, buckets, packet, sealed, restarts>>

(* "wait child failed": the task ends, its child goes on. *)
WaitFails(t) ==
  /\ Goto(t, "running", "orphan")
  /\ UNCHANGED <<wire, window, buckets, packet, sealed, ran, restarts>>

(* encrypt_packet reads the clock and draws a nonce. *)
Seal(t) ==
  /\ Goto(t, "ran", "sealed")
  /\ sealed' = [sealed EXCEPT ![t] = now]
  /\ UNCHANGED <<wire, window, buckets, packet, ran, restarts>>

(* "failed to encrypt response" *)
SealFails(t) ==
  /\ Goto(t, "ran", "end")
  /\ UNCHANGED <<wire, window, buckets, packet, sealed, ran, restarts>>

(* Mutant: the response goes out without being recorded. *)
RecordNothing(t) ==
  /\ Goto(t, "sealed", "recorded")
  /\ UNCHANGED <<wire, window, buckets, packet, sealed, ran, restarts>>

(* The second lock: replay_add of the response's own nonce. *)
Record(t) ==
  /\ Goto(t, "sealed", "recorded")
  /\ Push(entries, t, sealed[t], t, "response")
  /\ UNCHANGED <<wire, buckets, packet, sealed, ran, restarts>>

Response(t) ==
  [src |-> Server, dst |-> Peer(packet[t], Server), ts |-> sealed[t],
   nonce |-> t, auth |-> TRUE, script |-> packet[t].script]

(* socket.send_to(&enc, peer), and the end of the task. *)
Send(t) ==
  /\ Goto(t, "recorded", "end")
  /\ Transmit(Response(t))
  /\ UNCHANGED <<now, window, buckets, packet, sealed, ran, restarts>>

(* "failed to send response" *)
SendFails(t) ==
  /\ Goto(t, "recorded", "end")
  /\ UNCHANGED <<wire, window, buckets, packet, sealed, ran, restarts>>

-----------------------------------------------------------------------------
(* The process dies and is started again. *)
Restart ==
  /\ restarts < MaxRestarts
  /\ restarts' = restarts + 1
  /\ entries' = {}
  /\ buckets' = [ip \in Ips |-> NoBucket]
  /\ pc' = [t \in Tasks |-> CASE pc[t] = "free" -> "free"
                              [] pc[t] \in {"running", "orphan"} -> "orphan"
                              [] OTHER -> "end"]
  /\ UNCHANGED <<wire, pushed, log, packet, sealed, ran>>

(* Someone else's datagram: a client's request, or a damaged one. *)
ClientSends(d) == Transmit(d) /\ UNCHANGED <<now, server>>

Works(t) ==
  \/ Drop(t) \/ Admit(t)
  \/ Spawn(t) \/ SpawnFails(t)
  \/ ChildRuns(t) \/ WaitFails(t)
  \/ Seal(t) \/ SealFails(t)
  \/ Record(t)
  \/ Send(t) \/ SendFails(t)

ServerNext ==
  \/ \E d \in net : Refuse(d) \/ \E t \in Tasks : Accept(d, t)
  \/ \E t \in Tasks : Works(t)
  \/ Restart

Next ==
  \/ ServerNext
  \/ \E d \in Requests : ClientSends(d)
  \/ Tick /\ UNCHANGED server

Spec == Init /\ [][Next]_vars
-----------------------------------------------------------------------------
(* r1 was recorded before r2, with the same timestamp and nonce. *)
Repeats(r1, r2) ==
  r1.ts = r2.ts /\ r1.nonce = r2.nonce /\ r1.at < r2.at

(* The window had lost r1 by the time r2 was recorded: to a restart, or to *)
(* ReplayMax entries pushed in between.                                    *)
Lost(r1, r2) == r1.life # r2.life \/ r2.at - r1.at > ReplayMax

(* A packet the server has recorded, a client's request or a response of   *)
(* its own, is not executed as a request again, however often, late or     *)
(* reordered it is delivered, unless the server restarted in between or at *)
(* least ReplayMax other packets were recorded since: what process_packet  *)
(* checks and adds under one lock, and adds before it sends.               *)
AtMostOnce ==
  \A r1, r2 \in log :
    Repeats(r1, r2) /\ r2.kind = "request" => Lost(r1, r2)

(* A response of the server's own that comes back to it was recorded       *)
(* before, so it is admitted only after its record was lost.               *)
OwnResponsesRefused ==
  \A r2 \in log :
    r2.kind = "request" /\ packet[r2.task].src = Server
      => \E r1 \in log : Repeats(r1, r2) /\ r1.kind = "response" /\ Lost(r1, r2)

(* A script runs only for an authentic packet that was admitted, and whose *)
(* nonce was recorded before the child started, even if the server died in *)
(* between and the child is an orphan: no execution without a record.      *)
RanWasAdmitted ==
  \A t \in ran :
    /\ packet[t].auth
    /\ \E r \in log : /\ r.task = t /\ r.kind = "request"
                      /\ r.ts = packet[t].ts /\ r.nonce = packet[t].nonce

(* The deque never outgrows --replay-max. *)
WindowBounded == Cardinality(entries) <= ReplayMax

(* Each task that was spawned comes to its end, in whatever way, even if   *)
(* the clock stops or the server restarts.                                 *)
Ends == \A t \in Tasks : pc[t] = "queued" ~> pc[t] = "end"

(* The tokio runtime keeps polling a task that is ready; a child process   *)
(* is assumed to terminate, for execute_command waits without a limit.     *)
Fairness == \A t \in Tasks : WF_vars(Works(t))
=============================================================================
