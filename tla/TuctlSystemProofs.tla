------------------------- MODULE TuctlSystemProofs -------------------------
(***************************************************************************)
(* First the server by itself: its window keeps its promise for every      *)
(* number of tasks, every --window and every --replay-max, whatever        *)
(* requests arrive.  Then the server in the system of clients is that      *)
(* server, so that its replay protection holds in the system.  A client    *)
(* that succeeds was served, and an attempt is executed once, for any      *)
(* number of clients, attempts, tasks and restarts.                        *)
(***************************************************************************)
EXTENDS TuctlSystem, FiniteSetTheorems, WellFoundedInduction, FunctionTheorems, TLAPS

-----------------------------------------------------------------------------
(* The replay window, of the server and of a client, for every size. *)

(* Each entry has a stamp of its own, at most n. *)
Stamped(S, n) ==
  /\ \A e \in S : e.at \in 1..n
  /\ \A e, f \in S : e.at = f.at => e = f

(* No more entries are newer than stamp k than there are stamps after k.   *)
LEMMA NewerBound ==
  ASSUME NEW S, NEW n \in Nat, Stamped(S, n), NEW k \in Nat, k <= n
  PROVE  LET N == {f \in S : f.at > k}
         IN  IsFiniteSet(N) /\ Cardinality(N) \in Nat /\ Cardinality(N) <= n - k
<1> DEFINE N == {f \in S : f.at > k}
<1> DEFINE stamp == [f \in N |-> f.at]
<1>1. stamp \in Injection(N, (k + 1)..n)
  BY DEF Stamped, Injection, IsInjective
<1>2. IsFiniteSet((k + 1)..n) /\ Cardinality((k + 1)..n) <= n - k
  <2>1. k + 1 \in Int /\ n \in Int
    OBVIOUS
  <2>2. /\ IsFiniteSet((k + 1)..n)
        /\ Cardinality((k + 1)..n) = IF k + 1 > n THEN 0 ELSE n - (k + 1) + 1
    BY <2>1, FS_Interval
  <2> QED
    BY <2>2
<1>3. IsFiniteSet(N) /\ Cardinality(N) <= Cardinality((k + 1)..n)
  BY <1>1, <1>2, FS_Injection
<1>4. Cardinality(N) \in Nat /\ Cardinality((k + 1)..n) \in Nat
  BY <1>2, <1>3, FS_CardinalityType
<1> QED
  BY <1>2, <1>3, <1>4

(* replay_add keeps the stamps apart. *)
LEMMA AddStamped ==
  ASSUME NEW S, NEW n \in Nat, Stamped(S, n), NEW m, NEW ts, NEW nonce
  PROVE  Stamped(ReplayAdd(S, m, ts, nonce, n + 1), n + 1)
BY DEF Stamped, ReplayAdd, Newest

(* An entry survives replay_add as long as fewer than max_size pushes      *)
(* followed its own.                                                       *)
LEMMA AddKeeps ==
  ASSUME NEW S, NEW n \in Nat, Stamped(S, n), NEW m \in Nat, NEW ts, NEW nonce,
         NEW e \in S \cup {[ts |-> ts, nonce |-> nonce, at |-> n + 1]},
         (n + 1) - e.at < m
  PROVE  e \in ReplayAdd(S, m, ts, nonce, n + 1)
<1> DEFINE T == S \cup {[ts |-> ts, nonce |-> nonce, at |-> n + 1]}
<1> DEFINE N == {f \in T : f.at > e.at}
<1>1. Stamped(T, n + 1)
  BY DEF Stamped
<1>2. e.at \in Nat /\ e.at <= n + 1
  BY <1>1 DEF Stamped
<1>3. n + 1 \in Nat
  OBVIOUS
<1>4. Cardinality(N) \in Nat /\ Cardinality(N) <= (n + 1) - e.at
  <2> HIDE DEF T
  <2> QED
    BY <1>1, <1>2, <1>3, NewerBound
<1>5. Cardinality(N) < m
  <2> HIDE DEF N
  <2> QED
    BY <1>2, <1>4
<1> QED
  BY <1>5 DEF ReplayAdd, Newest

(* Every nonempty set of entries has an oldest one. *)
LEMMA OldestExists ==
  ASSUME NEW S, S # {}, \A e \in S : e.at \in Nat
  PROVE  \E e \in S : \A f \in S : e.at <= f.at
<1> DEFINE A == {e.at : e \in S}
<1> DEFINE R == OpToRel(<, Nat)
<1>1. A \subseteq Nat /\ A # {}
  OBVIOUS
<1>2. \A x, y \in Nat : y < x => <<y, x>> \in R
  BY Zenon DEF OpToRel
<1>3. IsWellFoundedOn(R, Nat)
  BY NatLessThanWellFounded, Zenon
<1> HIDE DEF R
<1>4. PICK x \in A : \A y \in A : ~ (<<y, x>> \in R)
  <2> HIDE DEF A
  <2> QED
    BY <1>1, <1>3, WFMin
<1>5. x \in Nat /\ \A y \in A : y \in Nat /\ ~ (y < x)
  <2> HIDE DEF A
  <2> QED
    BY <1>1, <1>2, <1>4
<1>6. PICK e \in S : e.at = x
  BY <1>4
<1>7. \A f \in S : e.at <= f.at
  BY <1>5, <1>6
<1> QED
  BY <1>7

(* replay_add leaves at most max_size entries. *)
LEMMA AddBounded ==
  ASSUME NEW S, NEW n \in Nat, Stamped(S, n), NEW m \in Nat, NEW ts, NEW nonce
  PROVE  LET A == ReplayAdd(S, m, ts, nonce, n + 1)
         IN  IsFiniteSet(A) /\ Cardinality(A) \in Nat /\ Cardinality(A) <= m
<1> DEFINE T == S \cup {[ts |-> ts, nonce |-> nonce, at |-> n + 1]}
<1> DEFINE A == Newest(T, m)
<1> SUFFICES IsFiniteSet(A) /\ Cardinality(A) \in Nat /\ Cardinality(A) <= m
  BY DEF ReplayAdd
<1>1. Stamped(T, n + 1)
  BY DEF Stamped
<1>2. CASE A = {}
  <2> HIDE DEF A
  <2> QED
    BY <1>2, FS_EmptySet
<1>3. CASE A # {}
  <2>1. A \subseteq T /\ \A e \in A : e.at \in Nat
    BY <1>1 DEF Newest, Stamped
  <2>2. PICK e \in A : \A f \in A : e.at <= f.at
    <3> HIDE DEF A
    <3> QED
      BY <1>3, <2>1, OldestExists
  <2> DEFINE N == {f \in T : f.at > e.at}
  <2>3. Cardinality(N) < m
    BY <2>2 DEF Newest
  <2>4. e.at \in Nat /\ e.at <= n + 1 /\ n + 1 \in Nat
    BY <1>1, <2>1, <2>2 DEF Stamped
  <2>5. IsFiniteSet(N) /\ Cardinality(N) \in Nat
    <3> HIDE DEF T
    <3> QED
      BY <1>1, <2>4, NewerBound
  <2>6. A \subseteq N \cup {e}
    <3>1. ASSUME NEW f \in A, f # e
          PROVE  f.at > e.at
      <4>1. e \in T /\ f \in T /\ e.at <= f.at
        BY <2>1, <2>2
      <4> HIDE DEF T, A
      <4> QED
        BY <1>1, <2>1, <2>2, <3>1, <4>1 DEF Stamped
    <3> QED
      BY <2>1, <3>1
  <2>7. /\ IsFiniteSet(N \cup {e})
        /\ Cardinality(N \cup {e}) \in Nat
        /\ Cardinality(N \cup {e}) <= m
    <3> HIDE DEF N, A
    <3>1. /\ IsFiniteSet(N \cup {e})
          /\ Cardinality(N \cup {e}) =
               IF e \in N THEN Cardinality(N) ELSE Cardinality(N) + 1
      BY <2>5, FS_AddElement
    <3> QED
      BY <2>3, <2>5, <3>1
  <2>8. IsFiniteSet(A) /\ Cardinality(A) <= Cardinality(N \cup {e})
    <3> HIDE DEF A, N
    <3> QED
      BY <2>6, <2>7, FS_Subset
  <2>9. Cardinality(A) \in Nat
    <3> HIDE DEF A
    <3> QED
      BY <2>8, FS_CardinalityType
  <2> QED
    <3> HIDE DEF A, N
    <3> QED
      BY <2>7, <2>8, <2>9
<1> QED
  BY <1>2, <1>3

-----------------------------------------------------------------------------
(* The server, with any requests. *)

(* The task's request was checked and recorded. *)
Admitted(t) ==
  /\ packet[t] # NoPacket /\ packet[t].auth
  /\ \E r \in log : /\ r.task = t /\ r.kind = "request"
                    /\ r.ts = packet[t].ts /\ r.nonce = packet[t].nonce

(* A response with this timestamp and nonce was recorded. *)
ResponseLogged(ts, nonce) ==
  \E r \in log : r.kind = "response" /\ r.ts = ts /\ r.nonce = nonce

(* Stamps are given once, and only to tasks that exist. *)
LogOK ==
  /\ Stamped(entries, pushed)
  /\ \A r \in log : /\ r.at \in 1..pushed
                    /\ r.life <= restarts
                    /\ pc[r.task] # "free"

(* Why a replay is noticed: what was recorded in this life of the server   *)
(* is still an entry, or too old to pass the check, or has been followed   *)
(* by ReplayMax pushes.                                                    *)
Remembers ==
  \A r \in log : r.life = restarts =>
    \/ \E e \in entries : e.ts = r.ts /\ e.nonce = r.nonce /\ e.at = r.at
    \/ r.ts + Window < now
    \/ pushed - r.at >= ReplayMax

(* Why the server knows its own responses: they are recorded before they   *)
(* are sent.                                                               *)
ResponsesKnown ==
  /\ \A t \in Tasks : pc[t] = "recorded" => ResponseLogged(sealed[t], t)
  /\ \A d \in net : d.src = Server => ResponseLogged(d.ts, d.nonce)
  /\ \A t \in Tasks : packet[t] # NoPacket /\ packet[t].src = Server
       => ResponseLogged(packet[t].ts, packet[t].nonce)

(* Where a task can be, and what it has been through. *)
TasksOK ==
  \A t \in Tasks :
    /\ pc[t] # "free" => packet[t] # NoPacket
    /\ pc[t] \notin {"free", "queued", "end"} => Admitted(t)
    /\ t \in ran => pc[t] # "free" /\ Admitted(t)

IInv ==
  /\ TypeOK
  /\ LogOK
  /\ Remembers
  /\ ResponsesKnown
  /\ TasksOK
  /\ AtMostOnce
  /\ OwnResponsesRefused
  /\ IsFiniteSet(entries) /\ WindowBounded
-----------------------------------------------------------------------------
(* allow() keeps the map a map of buckets with 0..Burst tokens. *)
LEMMA BucketsType ==
  ASSUME NEW b \in [Ips -> Bucket \cup {NoBucket}], NEW ip \in Ips, NEW n \in Nat
  PROVE  AfterAllow(b, ip, n) \in [Ips -> Bucket \cup {NoBucket}]
<1>1. Evict(b, n) \in [Ips -> Bucket \cup {NoBucket}]
  BY DEF Evict
<1>2. Entry(Evict(b, n)[ip], n) \in Bucket
  BY <1>1, LimiterAssumption DEF Entry, Bucket
<1>3. ASSUME NEW e \in Bucket PROVE Refill(e, n) \in Bucket
  <2>1. /\ e.tokens \in 0..Burst /\ e.last_refill \in Nat /\ Burst \in Nat /\ Rate \in Nat
    BY LimiterAssumption DEF Bucket
  <2>2. ASSUME n > e.last_refill
        PROVE  Rate * (n - e.last_refill) \in Nat
    BY <2>1, <2>2
  <2>3. ASSUME n > e.last_refill
        PROVE  Capped(e.tokens + Rate * (n - e.last_refill)) \in 0..Burst
    BY <2>1, <2>2, <2>3 DEF Capped
  <2> QED
    BY <2>1, <2>3 DEF Refill, Bucket
<1>4. Current(b, ip, n) \in Bucket
  BY <1>2, <1>3 DEF Current
<1>5. ASSUME NEW e \in Bucket, e.tokens >= One
      PROVE  [e EXCEPT !.tokens = @ - One] \in Bucket
  BY <1>5, LimiterAssumption DEF Bucket
<1> DEFINE c == Current(b, ip, n)
<1>6. (IF c.tokens >= One THEN [c EXCEPT !.tokens = @ - One] ELSE c) \in Bucket
  <2> HIDE DEF c
  <2> QED
    BY <1>4, <1>5 DEF c
<1> QED
  BY <1>1, <1>6 DEF AfterAllow

(* What replay_add does to the window, whoever calls it: `old` are the     *)
(* entries that a pruning before it has left.                              *)
LEMMA PushOK ==
  ASSUME TypeOK, LogOK, Remembers,
         NEW old \in SUBSET entries,
         \A e \in entries \ old : e.ts + Window < now,
         NEW t \in Tasks, NEW ts \in Nat, NEW nonce \in Nonces,
         NEW kind \in {"request", "response"},
         Push(old, t, ts, nonce, kind), UNCHANGED <<now, restarts>>
  PROVE  /\ pushed' = pushed + 1 /\ pushed' \in Nat
         /\ entries' \subseteq [ts : Nat, nonce : Nonces, at : 1..pushed']
         /\ log' \subseteq LogRecord
         /\ Stamped(entries', pushed')
         /\ Remembers'
         /\ IsFiniteSet(entries') /\ WindowBounded'
<1> DEFINE new == [ts |-> ts, nonce |-> nonce, at |-> pushed + 1]
<1>1. /\ pushed' = pushed + 1
      /\ pushed \in Nat /\ ReplayMax \in Nat /\ Window \in Nat
      /\ entries' = ReplayAdd(old, ReplayMax, ts, nonce, pushed + 1)
      /\ log' = log \cup {[ts |-> ts, nonce |-> nonce, at |-> pushed + 1,
                           life |-> restarts, task |-> t, kind |-> kind]}
  BY ServerAssumption DEF Push, TypeOK
<1>2. Stamped(old, pushed)
  BY DEF LogOK, Stamped
<1>3. Stamped(entries', pushed + 1)
  BY <1>1, <1>2, AddStamped
<1>4. entries' \subseteq [ts : Nat, nonce : Nonces, at : 1..(pushed + 1)]
  <2>1. entries' \subseteq old \cup {new}
    BY <1>1 DEF ReplayAdd, Newest
  <2> QED
    BY <1>1, <2>1 DEF TypeOK
<1>5. log' \subseteq LogRecord
  BY <1>1 DEF TypeOK, LogRecord
<1>6. IsFiniteSet(entries') /\ Cardinality(entries') <= ReplayMax
  BY <1>1, <1>2, AddBounded
<1>7. ASSUME NEW e \in old \cup {new}, (pushed + 1) - e.at < ReplayMax
      PROVE  e \in entries'
  BY <1>1, <1>2, <1>7, AddKeeps
<1>8. ASSUME NEW r \in log', r.life = restarts
      PROVE  \/ \E e \in entries' : e.ts = r.ts /\ e.nonce = r.nonce /\ e.at = r.at
             \/ r.ts + Window < now
             \/ (pushed + 1) - r.at >= ReplayMax
  <2>1. CASE r \in log
    <3>1. CASE \E e \in entries : e.ts = r.ts /\ e.nonce = r.nonce /\ e.at = r.at
      <4>1. PICK e \in entries : e.ts = r.ts /\ e.nonce = r.nonce /\ e.at = r.at
        BY <3>1
      <4>2. CASE e \in old
        <5>1. e.at \in Nat /\ r.at \in Nat
          BY <2>1 DEF LogOK, Stamped, TypeOK
        <5>2. CASE (pushed + 1) - e.at < ReplayMax
          BY <1>7, <4>1, <4>2, <5>2
        <5>3. CASE ~ ((pushed + 1) - e.at < ReplayMax)
          BY <1>1, <4>1, <5>1, <5>3
        <5> QED
          BY <5>2, <5>3
      <4>3. CASE e \notin old
        BY <4>1, <4>3
      <4> QED
        BY <4>2, <4>3
    <3>2. CASE pushed - r.at >= ReplayMax
      <4>1. r.at \in Nat
        BY <2>1 DEF LogOK
      <4> QED
        BY <1>1, <3>2, <4>1
    <3> QED
      BY <1>8, <2>1, <3>1, <3>2 DEF Remembers
  <2>2. CASE r \notin log
    <3>1. r.ts = ts /\ r.nonce = nonce /\ r.at = pushed + 1
      BY <1>1, <2>2
    <3>2. CASE ReplayMax > 0
      <4>1. new \in entries'
        BY <1>1, <1>7, <3>2
      <4> QED
        BY <3>1, <4>1
    <3>3. CASE ReplayMax = 0
      BY <1>1, <3>1, <3>3
    <3> QED
      BY <1>1, <3>2, <3>3
  <2> QED
    BY <2>1, <2>2
<1>9. Remembers'
  BY <1>1, <1>8 DEF Remembers
<1> QED
  BY <1>1, <1>3, <1>4, <1>5, <1>6, <1>9 DEF WindowBounded

(* The pruning in replay_check only drops entries that are too old. *)
LEMMA PruneOK ==
  ASSUME TypeOK, NEW ts \in Nat
  PROVE  LET old == AfterCheck(entries, Window, now, ts)
         IN  /\ old \in SUBSET entries
             /\ \A e \in entries \ old : e.ts + Window < now
BY ServerAssumption DEF AfterCheck, Retain, TypeOK

(* A packet that passes replay_check is not one the window remembers: if   *)
(* it was recorded before, the record was lost.                            *)
LEMMA CheckOK ==
  ASSUME TypeOK, LogOK, Remembers, NEW ts \in Nat, NEW nonce,
         ReplayCheck(entries, Window, now, ts, nonce),
         NEW r \in log, r.ts = ts, r.nonce = nonce
  PROVE  r.life # restarts \/ (pushed + 1) - r.at > ReplayMax
<1>1. /\ Window \in Nat /\ ReplayMax \in Nat /\ pushed \in Nat /\ now \in Nat
      /\ r.at \in Nat
  BY ServerAssumption DEF TypeOK, LogOK
<1>2. ts + Window >= now
  BY <1>1 DEF ReplayCheck, InWindow, Abs
<1>3. ~ \E e \in entries : e.ts = ts /\ e.nonce = nonce
  BY <1>2 DEF ReplayCheck, Seen, Retain
<1>4. r.life # restarts \/ r.ts + Window < now \/ pushed - r.at >= ReplayMax
  BY <1>3 DEF Remembers
<1>5. CASE pushed - r.at >= ReplayMax
  BY <1>1, <1>5
<1> QED
  BY <1>1, <1>2, <1>4, <1>5
-----------------------------------------------------------------------------
(* The server starts with nothing recorded, nothing sent and no task. *)
LEMMA InitOK == Init => IInv
<1> SUFFICES ASSUME Init PROVE IInv
  OBVIOUS
<1>1. TypeOK
  BY DEF Init, WireInit, TypeOK, Step
<1>2. LogOK /\ Remembers /\ AtMostOnce /\ OwnResponsesRefused
  BY DEF Init, LogOK, Stamped, Remembers, AtMostOnce, OwnResponsesRefused
<1>3. ResponsesKnown /\ TasksOK
  BY DEF Init, WireInit, ResponsesKnown, TasksOK
<1>4. IsFiniteSet(entries) /\ WindowBounded
  BY FS_EmptySet, ServerAssumption DEF Init, WindowBounded
<1> QED
  BY <1>1, <1>2, <1>3, <1>4 DEF IInv

(* A step of an admitted task that leaves the window alone, and sends      *)
(* nothing but a recorded response.                                        *)
LEMMA TaskMoves ==
  ASSUME IInv, NEW t \in Tasks, NEW to \in Step \ {"free", "queued", "recorded"},
         pc[t] \notin {"free", "queued", "end"},
         pc' = [pc EXCEPT ![t] = to],
         UNCHANGED <<now, window, buckets, packet, restarts>>,
         ran' \subseteq ran \cup {t},
         sealed' \in [Tasks -> Nat],
         \A u \in Tasks \ {t} : sealed'[u] = sealed[u],
         net' \subseteq Datagram,
         \A d \in net' \ net : ResponseLogged(d.ts, d.nonce)
  PROVE  IInv'
<1>1. /\ UNCHANGED <<entries, pushed, log, now, restarts, packet, buckets>>
      /\ pc' \in [Tasks -> Step]
      /\ \A u \in Tasks : pc'[u] = IF u = t THEN to ELSE pc[u]
  BY DEF IInv, TypeOK, window
<1>2. TypeOK'
  BY <1>1 DEF IInv, TypeOK
<1>3. LogOK'
  <2>1. \A r \in log : r.task \in Tasks
    BY DEF IInv, TypeOK, LogRecord
  <2> QED
    BY <1>1, <2>1 DEF IInv, LogOK
<1>4. Remembers' /\ AtMostOnce' /\ OwnResponsesRefused'
  BY <1>1 DEF IInv, Remembers, AtMostOnce, OwnResponsesRefused, Repeats, Lost
<1>5. ResponsesKnown'
  <2>1. \A ts, nonce : ResponseLogged(ts, nonce) => ResponseLogged(ts, nonce)'
    BY <1>1 DEF ResponseLogged
  <2> QED
    BY <1>1, <2>1 DEF IInv, ResponsesKnown
<1>6. TasksOK'
  <2>1. \A u \in Tasks : Admitted(u) => Admitted(u)'
    BY <1>1 DEF Admitted
  <2> QED
    BY <1>1, <2>1 DEF IInv, TasksOK
<1>7. (IsFiniteSet(entries) /\ WindowBounded)'
  BY <1>1 DEF IInv, WindowBounded
<1> QED
  BY <1>2, <1>3, <1>4, <1>5, <1>6, <1>7 DEF IInv

(* Steps that leave the tasks and the window alone: the clock, a client's  *)
(* request, and a packet the limiter refuses.                              *)
LEMMA OutsideStep ==
  ASSUME IInv, UNCHANGED <<window, tasks, restarts>>,
         now' \in Nat, now' >= now,
         buckets' \in [Ips -> Bucket \cup {NoBucket}],
         net' \subseteq Datagram,
         \A d \in net' \ net : d.src # Server
  PROVE  IInv'
<1>1. UNCHANGED <<entries, pushed, log, pc, packet, sealed, ran, restarts>>
  BY DEF window, tasks
<1>2. TypeOK'
  BY <1>1 DEF IInv, TypeOK
<1>3. LogOK' /\ AtMostOnce' /\ OwnResponsesRefused'
  BY <1>1 DEF IInv, LogOK, AtMostOnce, OwnResponsesRefused, Repeats, Lost
<1>4. Remembers'
  <2>1. \A r \in log : r.ts \in Nat
    BY DEF IInv, TypeOK, LogRecord
  <2>2. Window \in Nat /\ now \in Nat
    BY ServerAssumption DEF IInv, TypeOK
  <2>3. ASSUME NEW r \in log, r.ts + Window < now
        PROVE  r.ts + Window < now'
    BY <2>1, <2>2, <2>3
  <2> QED
    BY <1>1, <2>3 DEF IInv, Remembers
<1>5. ResponsesKnown'
  <2>1. \A ts, nonce : ResponseLogged(ts, nonce) => ResponseLogged(ts, nonce)'
    BY <1>1 DEF ResponseLogged
  <2> QED
    BY <1>1, <2>1 DEF IInv, ResponsesKnown
<1>6. TasksOK'
  BY <1>1 DEF IInv, TasksOK, Admitted
<1>7. (IsFiniteSet(entries) /\ WindowBounded)'
  BY <1>1 DEF IInv, WindowBounded
<1> QED
  BY <1>2, <1>3, <1>4, <1>5, <1>6, <1>7 DEF IInv

(* A packet becomes a task. *)
LEMMA AcceptOK ==
  ASSUME IInv, NEW d \in net, NEW t \in Tasks, Accept(d, t)
  PROVE  IInv'
<1>1. /\ UNCHANGED <<now, net, entries, pushed, log, sealed, ran, restarts>>
      /\ pc[t] = "free" /\ pc' = [pc EXCEPT ![t] = "queued"]
      /\ packet' = [packet EXCEPT ![t] = d]
      /\ buckets' = AfterAllow(buckets, From(d), Ticks)
  BY DEF Accept, Goto, wire, window
<1>2. d \in Datagram /\ d # NoPacket
  BY ServerAssumption DEF IInv, TypeOK
<1>3. buckets' \in [Ips -> Bucket \cup {NoBucket}]
  <2>1. From(d) \in Ips
    BY <1>2, ServerAssumption DEF From, Peer, Datagram
  <2>2. Ticks \in Nat
    BY LimiterAssumption DEF Ticks, IInv, TypeOK
  <2> QED
    BY <1>1, <2>1, <2>2, BucketsType DEF IInv, TypeOK
<1>4. /\ pc' \in [Tasks -> Step]
      /\ packet' \in [Tasks -> Datagram \cup {NoPacket}]
      /\ \A u \in Tasks : pc'[u] = IF u = t THEN "queued" ELSE pc[u]
      /\ \A u \in Tasks : packet'[u] = IF u = t THEN d ELSE packet[u]
  BY <1>1, <1>2 DEF IInv, TypeOK, Step
<1>5. TypeOK'
  BY <1>1, <1>3, <1>4 DEF IInv, TypeOK
<1>6. \A r \in log : r.task \in Tasks /\ r.task # t
  BY <1>1 DEF IInv, TypeOK, LogRecord, LogOK
<1>7. LogOK' /\ Remembers' /\ AtMostOnce'
  <2>1. LogOK'
    BY <1>1, <1>4, <1>6 DEF IInv, LogOK
  <2> QED
    BY <1>1, <2>1 DEF IInv, Remembers, AtMostOnce, Repeats, Lost
<1>8. OwnResponsesRefused'
  BY <1>1, <1>4, <1>6 DEF IInv, OwnResponsesRefused, Repeats, Lost
<1>9. ResponsesKnown'
  <2>1. \A ts, nonce : ResponseLogged(ts, nonce) => ResponseLogged(ts, nonce)'
    BY <1>1 DEF ResponseLogged
  <2> QED
    BY <1>1, <1>4, <2>1 DEF IInv, ResponsesKnown
<1>10. TasksOK'
  <2>1. \A u \in Tasks \ {t} : Admitted(u) => Admitted(u)'
    BY <1>1, <1>4 DEF Admitted
  <2> QED
    BY <1>1, <1>2, <1>4, <2>1 DEF IInv, TasksOK
<1>11. (IsFiniteSet(entries) /\ WindowBounded)'
  BY <1>1 DEF IInv, WindowBounded
<1> QED
  BY <1>5, <1>7, <1>8, <1>9, <1>10, <1>11 DEF IInv

(* A packet is dropped, and the window may have been pruned. *)
LEMMA DropOK ==
  ASSUME IInv, NEW t \in Tasks, Drop(t)
  PROVE  IInv'
<1>1. /\ UNCHANGED <<now, net, pushed, log, buckets, packet, sealed, ran, restarts>>
      /\ pc[t] = "queued" /\ pc' = [pc EXCEPT ![t] = "end"]
      /\ entries' = entries
         \/ entries' = AfterCheck(entries, Window, now, packet[t].ts)
  BY DEF Drop, Goto, wire
<1>2. packet[t].ts \in Nat
  BY <1>1 DEF IInv, TypeOK, TasksOK, Datagram
<1>3. /\ entries' \in SUBSET entries
      /\ \A e \in entries \ entries' : e.ts + Window < now
  BY <1>1, <1>2, PruneOK DEF IInv
<1>4. /\ pc' \in [Tasks -> Step]
      /\ \A u \in Tasks : pc'[u] = IF u = t THEN "end" ELSE pc[u]
  BY <1>1 DEF IInv, TypeOK, Step
<1>5. TypeOK'
  BY <1>1, <1>3, <1>4 DEF IInv, TypeOK
<1>6. LogOK'
  <2>1. \A r \in log : r.task \in Tasks
    BY DEF IInv, TypeOK, LogRecord
  <2> QED
    BY <1>1, <1>3, <1>4, <2>1 DEF IInv, LogOK, Stamped
<1>7. Remembers'
  <2> SUFFICES ASSUME NEW r \in log, r.life = restarts
               PROVE  \/ \E e \in entries' : e.ts = r.ts /\ e.nonce = r.nonce /\ e.at = r.at
                      \/ r.ts + Window < now
                      \/ pushed - r.at >= ReplayMax
    BY <1>1 DEF Remembers
  <2> QED
    BY <1>3 DEF IInv, Remembers
<1>8. AtMostOnce' /\ OwnResponsesRefused'
  BY <1>1 DEF IInv, AtMostOnce, OwnResponsesRefused, Repeats, Lost
<1>9. ResponsesKnown'
  <2>1. \A ts, nonce : ResponseLogged(ts, nonce) => ResponseLogged(ts, nonce)'
    BY <1>1 DEF ResponseLogged
  <2> QED
    BY <1>1, <1>4, <2>1 DEF IInv, ResponsesKnown
<1>10. TasksOK'
  <2>1. \A u \in Tasks : Admitted(u) => Admitted(u)'
    BY <1>1 DEF Admitted
  <2> QED
    BY <1>1, <1>4, <2>1 DEF IInv, TasksOK
<1>11. (IsFiniteSet(entries) /\ WindowBounded)'
  <2>1. /\ IsFiniteSet(entries') /\ Cardinality(entries') <= Cardinality(entries)
        /\ Cardinality(entries) \in Nat /\ Cardinality(entries') \in Nat
    BY <1>3, FS_Subset, FS_CardinalityType DEF IInv
  <2> QED
    BY <2>1, ServerAssumption DEF IInv, WindowBounded
<1> QED
  BY <1>5, <1>6, <1>7, <1>8, <1>9, <1>10, <1>11 DEF IInv

(* The new record is the latest of all. *)
LEMMA PushLog ==
  ASSUME IInv, NEW old, NEW t \in Tasks, NEW ts, NEW nonce, NEW kind,
         Push(old, t, ts, nonce, kind)
  PROVE  \E new : /\ log' = log \cup {new}
                  /\ new.ts = ts /\ new.nonce = nonce /\ new.kind = kind
                  /\ new.task = t /\ new.life = restarts
                  /\ new.at = pushed + 1 /\ pushed \in Nat
                  /\ \A r \in log : /\ r.at \in Nat /\ r.at < new.at
                                    /\ r.task \in Tasks
<1> DEFINE new == [ts |-> ts, nonce |-> nonce, at |-> pushed + 1,
                   life |-> restarts, task |-> t, kind |-> kind]
<1>1. log' = log \cup {new}
  BY DEF Push
<1>2. pushed \in Nat /\ \A r \in log : r.at \in Nat /\ r.at < pushed + 1 /\ r.task \in Tasks
  BY DEF IInv, TypeOK, LogOK, LogRecord
<1>3. /\ new.ts = ts /\ new.nonce = nonce /\ new.kind = kind
      /\ new.task = t /\ new.life = restarts /\ new.at = pushed + 1
  OBVIOUS
<1> HIDE DEF new
<1> WITNESS new
<1> QED
  BY <1>1, <1>2, <1>3

(* Records stay, so what they witness stays true. *)
LEMMA LogGrows ==
  ASSUME log \subseteq log', UNCHANGED packet
  PROVE  /\ \A ts, nonce : ResponseLogged(ts, nonce) => ResponseLogged(ts, nonce)'
         /\ \A u : Admitted(u) => Admitted(u)'
BY DEF ResponseLogged, Admitted

(* A request is checked and recorded under one lock. *)
LEMMA AdmitOK ==
  ASSUME IInv, NEW t \in Tasks, Admit(t)
  PROVE  IInv'
<1> DEFINE d == packet[t]
<1> DEFINE old == AfterCheck(entries, Window, now, d.ts)
<1>1. /\ UNCHANGED <<now, net, buckets, packet, sealed, ran, restarts>>
      /\ pc[t] = "queued" /\ pc' = [pc EXCEPT ![t] = "admitted"]
      /\ d.auth
      /\ ReplayCheck(entries, Window, now, d.ts, d.nonce)
      /\ Push(old, t, d.ts, d.nonce, "request")
  BY DEF Admit, Goto, wire
<1>2. d \in Datagram /\ d.ts \in Nat /\ d.nonce \in Nonces /\ d # NoPacket
  BY <1>1, ServerAssumption DEF IInv, TypeOK, TasksOK, Datagram
<1>3. old \in SUBSET entries /\ \A e \in entries \ old : e.ts + Window < now
  BY <1>2, PruneOK DEF IInv
<1>4. /\ pushed' = pushed + 1 /\ pushed' \in Nat
      /\ entries' \subseteq [ts : Nat, nonce : Nonces, at : 1..pushed']
      /\ log' \subseteq LogRecord
      /\ Stamped(entries', pushed')
      /\ Remembers'
      /\ IsFiniteSet(entries') /\ WindowBounded'
  <2> HIDE DEF d, old
  <2> QED
    BY <1>1, <1>2, <1>3, PushOK DEF IInv
<1>5. PICK new : /\ log' = log \cup {new}
                 /\ new.ts = d.ts /\ new.nonce = d.nonce /\ new.kind = "request"
                 /\ new.task = t /\ new.life = restarts
                 /\ new.at = pushed + 1 /\ pushed \in Nat
                 /\ \A r \in log : /\ r.at \in Nat /\ r.at < new.at
                                   /\ r.task \in Tasks
  <2> HIDE DEF d, old
  <2> QED
    BY <1>1, PushLog
<1>6. /\ pc' \in [Tasks -> Step]
      /\ \A u \in Tasks : pc'[u] = IF u = t THEN "admitted" ELSE pc[u]
  BY <1>1 DEF IInv, TypeOK, Step
<1>7. TypeOK'
  BY <1>1, <1>4, <1>6 DEF IInv, TypeOK
<1>8. LogOK'
  <2>1. ASSUME NEW r \in log'
        PROVE  r.at \in 1..pushed' /\ r.life <= restarts /\ pc'[r.task] # "free"
    <3>1. CASE r \in log
      BY <1>4, <1>5, <1>6, <3>1 DEF IInv, LogOK
    <3>2. CASE r = new
      BY <1>4, <1>5, <1>6, <3>2 DEF IInv, TypeOK
    <3> QED
      BY <1>5, <3>1, <3>2
  <2> QED
    BY <1>1, <1>4, <2>1 DEF LogOK
<1>9. \A r \in log : r.ts = d.ts /\ r.nonce = d.nonce => Lost(r, new)
  <2> SUFFICES ASSUME NEW r \in log, r.ts = d.ts, r.nonce = d.nonce
               PROVE  Lost(r, new)
    OBVIOUS
  <2>1. r.life # restarts \/ (pushed + 1) - r.at > ReplayMax
    BY <1>1, <1>2, CheckOK DEF IInv
  <2> QED
    BY <1>5, <2>1 DEF Lost
<1>10. AtMostOnce'
  <2> SUFFICES ASSUME NEW r1 \in log', NEW r2 \in log', Repeats(r1, r2), r2.kind = "request"
               PROVE  Lost(r1, r2)
    BY DEF AtMostOnce, Repeats, Lost
  <2>1. CASE r1 \in log /\ r2 \in log
    BY <2>1 DEF IInv, AtMostOnce
  <2>2. CASE r1 \in log /\ r2 = new
    BY <1>5, <1>9, <2>2 DEF Repeats
  <2>3. CASE r1 = new
    <3>1. r2.at \in Nat /\ r2.at <= new.at
      BY <1>5
    <3> QED
      BY <1>5, <2>3, <3>1 DEF Repeats
  <2> QED
    BY <1>5, <2>1, <2>2, <2>3
<1>11. OwnResponsesRefused'
  <2> SUFFICES ASSUME NEW r2 \in log', r2.kind = "request", packet[r2.task].src = Server
               PROVE  \E r1 \in log' : Repeats(r1, r2) /\ r1.kind = "response" /\ Lost(r1, r2)
    BY <1>1 DEF OwnResponsesRefused, Repeats, Lost
  <2>1. CASE r2 \in log
    BY <1>5, <2>1 DEF IInv, OwnResponsesRefused
  <2>2. CASE r2 = new
    <3>1. ResponseLogged(d.ts, d.nonce)
      BY <1>2, <1>5, <2>2 DEF IInv, ResponsesKnown
    <3>2. PICK r1 \in log : r1.kind = "response" /\ r1.ts = d.ts /\ r1.nonce = d.nonce
      BY <3>1 DEF ResponseLogged
    <3> QED
      BY <1>5, <1>9, <2>2, <3>2 DEF Repeats
  <2> QED
    BY <1>5, <2>1, <2>2
<1>12. /\ \A ts, nonce : ResponseLogged(ts, nonce) => ResponseLogged(ts, nonce)'
       /\ \A u : Admitted(u) => Admitted(u)'
  BY <1>1, <1>5, LogGrows
<1>13. ResponsesKnown'
  BY <1>1, <1>6, <1>12 DEF IInv, ResponsesKnown
<1>14. TasksOK'
  <2>1. Admitted(t)'
    BY <1>1, <1>2, <1>5 DEF Admitted
  <2> QED
    BY <1>1, <1>2, <1>6, <1>12, <2>1 DEF IInv, TasksOK
<1> QED
  BY <1>4, <1>7, <1>8, <1>10, <1>11, <1>13, <1>14 DEF IInv

(* A response is recorded under the second lock. *)
LEMMA RecordOK ==
  ASSUME IInv, NEW t \in Tasks, Record(t)
  PROVE  IInv'
<1>1. /\ UNCHANGED <<now, net, buckets, packet, sealed, ran, restarts>>
      /\ pc[t] = "sealed" /\ pc' = [pc EXCEPT ![t] = "recorded"]
      /\ Push(entries, t, sealed[t], t, "response")
  BY DEF Record, Goto, wire
<1>2. sealed[t] \in Nat /\ t \in Nonces
  BY ServerAssumption DEF IInv, TypeOK
<1>3. /\ pushed' = pushed + 1 /\ pushed' \in Nat
      /\ entries' \subseteq [ts : Nat, nonce : Nonces, at : 1..pushed']
      /\ log' \subseteq LogRecord
      /\ Stamped(entries', pushed')
      /\ Remembers'
      /\ IsFiniteSet(entries') /\ WindowBounded'
  BY <1>1, <1>2, PushOK DEF IInv
<1>4. PICK new : /\ log' = log \cup {new}
                 /\ new.ts = sealed[t] /\ new.nonce = t /\ new.kind = "response"
                 /\ new.task = t /\ new.life = restarts
                 /\ new.at = pushed + 1 /\ pushed \in Nat
                 /\ \A r \in log : /\ r.at \in Nat /\ r.at < new.at
                                   /\ r.task \in Tasks
  BY <1>1, PushLog
<1>5. /\ pc' \in [Tasks -> Step]
      /\ \A u \in Tasks : pc'[u] = IF u = t THEN "recorded" ELSE pc[u]
  BY <1>1 DEF IInv, TypeOK, Step
<1>6. TypeOK'
  BY <1>1, <1>3, <1>5 DEF IInv, TypeOK
<1>7. LogOK'
  <2>1. ASSUME NEW r \in log'
        PROVE  r.at \in 1..pushed' /\ r.life <= restarts /\ pc'[r.task] # "free"
    <3>1. CASE r \in log
      BY <1>3, <1>4, <1>5, <3>1 DEF IInv, LogOK
    <3>2. CASE r = new
      BY <1>3, <1>4, <1>5, <3>2 DEF IInv, TypeOK
    <3> QED
      BY <1>4, <3>1, <3>2
  <2> QED
    BY <1>1, <1>3, <2>1 DEF LogOK
<1>8. AtMostOnce'
  <2> SUFFICES ASSUME NEW r1 \in log', NEW r2 \in log', Repeats(r1, r2), r2.kind = "request"
               PROVE  Lost(r1, r2)
    BY DEF AtMostOnce, Repeats, Lost
  <2>1. r2 \in log
    BY <1>4
  <2>2. r1 \in log
    BY <1>4, <2>1 DEF Repeats
  <2> QED
    BY <2>1, <2>2 DEF IInv, AtMostOnce
<1>9. OwnResponsesRefused'
  BY <1>1, <1>4 DEF IInv, OwnResponsesRefused, Repeats, Lost
<1>10. /\ \A ts, nonce : ResponseLogged(ts, nonce) => ResponseLogged(ts, nonce)'
       /\ \A u : Admitted(u) => Admitted(u)'
  BY <1>1, <1>4, LogGrows
<1>11. ResponsesKnown'
  <2>1. ResponseLogged(sealed[t], t)'
    BY <1>1, <1>4 DEF ResponseLogged
  <2> QED
    BY <1>1, <1>5, <1>10, <2>1 DEF IInv, ResponsesKnown
<1>12. TasksOK'
  BY <1>1, <1>5, <1>10 DEF IInv, TasksOK
<1> QED
  BY <1>3, <1>6, <1>7, <1>8, <1>9, <1>11, <1>12 DEF IInv

(* The window is lost; the log is of an earlier life. *)
LEMMA RestartOK ==
  ASSUME IInv, Restart
  PROVE  IInv'
<1>1. /\ UNCHANGED <<now, net, pushed, log, packet, sealed, ran>>
      /\ entries' = {} /\ restarts' = restarts + 1
      /\ buckets' = [ip \in Ips |-> NoBucket]
      /\ pc' = [t \in Tasks |-> CASE pc[t] = "free" -> "free"
                                  [] pc[t] \in {"running", "orphan"} -> "orphan"
                                  [] OTHER -> "end"]
      /\ restarts \in Nat
  BY DEF Restart, wire, IInv, TypeOK
<1>2. ASSUME NEW u \in Tasks
      PROVE  /\ pc'[u] \in {"free", "orphan", "end"}
             /\ pc'[u] = "free" <=> pc[u] = "free"
             /\ pc'[u] = "orphan" => pc[u] \in {"running", "orphan"}
  BY <1>1
<1>3. TypeOK'
  <2>1. pc' \in [Tasks -> Step]
    BY <1>1 DEF Step
  <2> QED
    BY <1>1, <2>1 DEF IInv, TypeOK
<1>4. \A r \in log : r.task \in Tasks /\ r.life \in Nat /\ r.life <= restarts
  BY DEF IInv, TypeOK, LogRecord, LogOK
<1>5. LogOK'
  BY <1>1, <1>2, <1>4 DEF IInv, LogOK, Stamped
<1>6. Remembers'
  <2>1. \A r \in log : r.life # restarts + 1
    BY <1>1, <1>4
  <2> QED
    BY <1>1, <2>1 DEF Remembers
<1>7. AtMostOnce' /\ OwnResponsesRefused'
  BY <1>1 DEF IInv, AtMostOnce, OwnResponsesRefused, Repeats, Lost
<1>8. /\ \A ts, nonce : ResponseLogged(ts, nonce) => ResponseLogged(ts, nonce)'
      /\ \A u : Admitted(u) => Admitted(u)'
  BY <1>1, LogGrows
<1>9. ResponsesKnown'
  BY <1>1, <1>2, <1>8 DEF IInv, ResponsesKnown
<1>10. TasksOK'
  BY <1>1, <1>2, <1>8 DEF IInv, TasksOK
<1>11. (IsFiniteSet(entries) /\ WindowBounded)'
  BY <1>1, FS_EmptySet, ServerAssumption DEF WindowBounded
<1> QED
  BY <1>3, <1>5, <1>6, <1>7, <1>9, <1>10, <1>11 DEF IInv

(* The rest of process_packet. *)
LEMMA WorksOK ==
  ASSUME IInv, NEW t \in Tasks, Works(t)
  PROVE  IInv'
<1>1. net \subseteq Datagram /\ sealed \in [Tasks -> Nat] /\ now \in Nat
  BY DEF IInv, TypeOK
<1>2. CASE Drop(t)
  BY <1>2, DropOK
<1>3. CASE Admit(t)
  BY <1>3, AdmitOK
<1>4. CASE Spawn(t)
  BY <1>1, <1>4, TaskMoves DEF Spawn, Goto, Step, wire
<1>5. CASE SpawnFails(t)
  BY <1>1, <1>5, TaskMoves DEF SpawnFails, Goto, Step, wire
<1>6. CASE ChildRuns(t)
  BY <1>1, <1>6, TaskMoves DEF ChildRuns, Goto, Step, wire
<1>7. CASE Seal(t)
  BY <1>1, <1>7, TaskMoves DEF Seal, Goto, Step, wire
<1>8. CASE SealFails(t)
  BY <1>1, <1>8, TaskMoves DEF SealFails, Goto, Step, wire
<1>9. CASE Record(t)
  BY <1>9, RecordOK
<1>10. CASE Send(t)
  <2>1. pc[t] = "recorded"
    BY <1>10 DEF Send, Goto
  <2>2. ResponseLogged(sealed[t], t)
    BY <2>1 DEF IInv, ResponsesKnown
  <2>3. Response(t) \in Datagram
    <3>1. packet[t] \in Datagram
      BY <2>1 DEF IInv, TypeOK, TasksOK
    <3> QED
      BY <1>1, <3>1, ServerAssumption DEF Response, Datagram, Peer
  <2>4. net' \subseteq Datagram
    BY <1>1, <1>10, <2>3 DEF Send, Transmit
  <2>5. \A d \in net' \ net : ResponseLogged(d.ts, d.nonce)
    BY <1>10, <2>2 DEF Send, Transmit, Response
  <2> QED
    BY <1>1, <1>10, <2>4, <2>5, TaskMoves DEF Send, Goto, Step
<1>11. CASE SendFails(t)
  BY <1>1, <1>11, TaskMoves DEF SendFails, Goto, Step, wire
<1>12. CASE WaitFails(t)
  BY <1>1, <1>12, TaskMoves DEF WaitFails, Goto, Step, wire
<1> QED
  BY <1>2, <1>3, <1>4, <1>5, <1>6, <1>7, <1>8, <1>9, <1>10, <1>11, <1>12 DEF Works

(* Every step of the server, of a client or of the clock. *)
LEMMA StepOK == IInv /\ [Next]_vars => IInv'
<1> SUFFICES ASSUME IInv, [Next]_vars PROVE IInv'
  OBVIOUS
<1>1. now \in Nat /\ net \subseteq Datagram /\ buckets \in [Ips -> Bucket \cup {NoBucket}]
  BY DEF IInv, TypeOK
<1>2. ASSUME NEW d \in net, Refuse(d) PROVE IInv'
  <2>1. From(d) \in Ips /\ Ticks \in Nat
    BY <1>1, ServerAssumption, LimiterAssumption DEF From, Peer, Datagram, Ticks
  <2>2. AfterAllow(buckets, From(d), Ticks) \in [Ips -> Bucket \cup {NoBucket}]
    BY <1>1, <2>1, BucketsType
  <2> QED
    BY <1>1, <1>2, <2>2, OutsideStep DEF Refuse, wire
<1>3. ASSUME NEW d \in net, NEW t \in Tasks, Accept(d, t) PROVE IInv'
  BY <1>3, AcceptOK
<1>4. ASSUME NEW t \in Tasks, Works(t) PROVE IInv'
  BY <1>4, WorksOK
<1>5. CASE Restart
  BY <1>5, RestartOK
<1>6. ASSUME NEW d \in Requests, ClientSends(d) PROVE IInv'
  <2>1. d \in Datagram /\ d.src # Server
    BY ServerAssumption, ServerSocketAssumption
  <2>2. UNCHANGED <<now, window, tasks, restarts, buckets>> /\ net' = net \cup {d}
    BY <1>6 DEF ClientSends, Transmit, server
  <2> QED
    BY <1>1, <2>1, <2>2, OutsideStep
<1>7. CASE Tick /\ UNCHANGED server
  BY <1>1, <1>7, OutsideStep DEF Tick, server
<1>8. CASE UNCHANGED vars
  BY <1>1, <1>8, OutsideStep DEF vars, wire, server
<1> QED
  BY <1>2, <1>3, <1>4, <1>5, <1>6, <1>7, <1>8 DEF Next, ServerNext

-----------------------------------------------------------------------------
(* The inductive invariant holds throughout. *)
THEOREM Invariance == Spec => []IInv
BY InitOK, StepOK, PTL DEF Spec

(* Every variable keeps its type. *)
THEOREM TypeCorrect == Spec => []TypeOK
<1>1. IInv => TypeOK
  BY DEF IInv
<1> QED
  BY <1>1, Invariance, PTL

(* A recorded packet is not executed again unless its record was lost to a *)
(* restart or to ReplayMax later pushes, for every window and capacity.    *)
THEOREM ReplayProtection == Spec => []AtMostOnce
<1>1. IInv => AtMostOnce
  BY DEF IInv
<1> QED
  BY <1>1, Invariance, PTL

(* The server does not take its own responses for requests. *)
THEOREM ReflectionProtection == Spec => []OwnResponsesRefused
<1>1. IInv => OwnResponsesRefused
  BY DEF IInv
<1> QED
  BY <1>1, Invariance, PTL

(* No script runs without its packet having been recorded first. *)
THEOREM NoUnrecordedExecution == Spec => []RanWasAdmitted
<1>1. IInv => RanWasAdmitted
  BY DEF IInv, TypeOK, TasksOK, Admitted, RanWasAdmitted
<1> QED
  BY <1>1, Invariance, PTL

(* The replay window takes at most ReplayMax entries of memory. *)
THEOREM MemoryBound == Spec => []WindowBounded
<1>1. IInv => WindowBounded
  BY DEF IInv
<1> QED
  BY <1>1, Invariance, PTL

-----------------------------------------------------------------------------
(* The server among its clients. *)

(* The clients stay within what the server's environment may do. *)
ClientsInBounds ==
  /\ now \in 0..MaxTime
  /\ retries \in [Clients -> 0..MaxRetries]

(* What a client sends is one of the requests. *)
LEMMA RequestsAreRequests ==
  ASSUME ClientsInBounds, NEW c \in Clients
  PROVE  RequestOf(c) \in Requests
<1>1. retries[c] \in 0..MaxRetries
  BY DEF ClientsInBounds
<1>2. ClientTime(c) \in 0..(MaxTime + MaxSkew)
  <2>1. /\ now \in 0..MaxTime /\ MaxTime \in Nat /\ MaxSkew \in Nat
        /\ ClockSkew[c] \in Int /\ ClockSkew[c] <= MaxSkew
    BY MaxTimeAssumption, ClientAssumption, SystemAssumption DEF ClientsInBounds
  <2> QED
    BY <2>1 DEF ClientTime
<1> QED
  BY <1>1, <1>2, SystemAssumption, Zenon DEF RequestOf, Socket, SocketOf

(* Every step of a client is, to the server, a request or nothing. *)
LEMMA ClientStepIsOutside ==
  ASSUME ClientsInBounds, NEW c \in Clients, ClientStep(c), UNCHANGED server
  PROVE  (\E d \in Requests : ClientSends(d)) \/ UNCHANGED vars
<1>1. CASE SendRequest(c)
  <2>1. ClientSends(RequestOf(c))
    BY <1>1 DEF SendRequest, ClientSends
  <2> QED
    BY <2>1, RequestsAreRequests
<1>2. CASE CannotSend(c) \/ Retry(c) \/ GiveUp(c)
  BY <1>2 DEF CannotSend, Retry, GiveUp, vars, wire
<1>3. CASE \E d \in net : Reject(c, d) \/ Succeed(c, d)
  BY <1>3 DEF Reject, Succeed, vars, wire
<1> QED
  BY <1>1, <1>2, <1>3 DEF ClientStep, Unaided

(* The clock stays within its bound, and so do the retries. *)
LEMMA BoundsOK == ClientsInBounds /\ [SystemNext]_systemVars => ClientsInBounds'
<1> SUFFICES ASSUME ClientsInBounds, [SystemNext]_systemVars PROVE ClientsInBounds'
  OBVIOUS
<1>1. MaxTime \in Nat /\ MaxRetries \in Nat
  BY MaxTimeAssumption, ClientAssumption
<1>2. ASSUME NEW c \in Clients, ClientStep(c)
      PROVE  ClientsInBounds'
  <2>1. CASE Retry(c)
    BY <1>1, <2>1 DEF Retry, ClientsInBounds
  <2>2. CASE SendRequest(c) \/ CannotSend(c) \/ GiveUp(c)
    BY <2>2 DEF SendRequest, CannotSend, GiveUp, ClientsInBounds
  <2>3. CASE \E d \in net : Reject(c, d) \/ Succeed(c, d)
    BY <2>3 DEF Reject, Succeed, ClientsInBounds
  <2> QED
    BY <1>2, <2>1, <2>2, <2>3 DEF ClientStep, Unaided
<1>3. ASSUME ServerNext, UNCHANGED clients
      PROVE  ClientsInBounds'
  <2>1. UNCHANGED now
    BY <1>3 DEF ServerNext, Refuse, Accept, Works, Drop, Admit, Spawn, SpawnFails,
                ChildRuns, WaitFails, Seal, SealFails, Record, Send, SendFails, Restart, wire
  <2> QED
    BY <1>3, <2>1 DEF clients, ClientsInBounds
<1>4. ASSUME NEW d, Noise(d) PROVE ClientsInBounds'
  BY <1>4 DEF Noise, ClientSends, clients, ClientsInBounds
<1>5. CASE Tick /\ UNCHANGED <<server, clients>>
  BY <1>1, <1>5 DEF Tick, clients, ClientsInBounds
<1>6. CASE UNCHANGED systemVars
  BY <1>6 DEF systemVars, vars, wire, clients, ClientsInBounds
<1> QED
  BY <1>2, <1>3, <1>4, <1>5, <1>6 DEF SystemNext

(* The system implements the server's specification. *)
THEOREM SystemImplementsServer == SystemSpec => ServerIsServer
<1>1. SystemInit => Init /\ ClientsInBounds
  BY MaxTimeAssumption, ClientAssumption
  DEF SystemInit, Init, WireInit, ClientInit, ClientsInBounds
<1>2. ClientsInBounds /\ [SystemNext]_systemVars => [Next]_vars
  <2> SUFFICES ASSUME ClientsInBounds, [SystemNext]_systemVars PROVE [Next]_vars
    OBVIOUS
  <2>1. ASSUME NEW c \in Clients, ClientStep(c), UNCHANGED server PROVE [Next]_vars
    BY <2>1, ClientStepIsOutside DEF Next
  <2>2. CASE ServerNext
    BY <2>2 DEF Next
  <2>3. ASSUME NEW d \in Requests, Noise(d) PROVE [Next]_vars
    BY <2>3 DEF Noise, Next
  <2>4. CASE Tick /\ UNCHANGED <<server, clients>>
    BY <2>4 DEF Next
  <2>5. CASE UNCHANGED systemVars
    BY <2>5 DEF systemVars
  <2> QED
    BY <2>1, <2>2, <2>3, <2>4, <2>5 DEF SystemNext
<1> QED
  BY <1>1, <1>2, BoundsOK, PTL DEF SystemSpec, ServerIsServer, Spec

(* So no recorded packet is executed again in the system either. *)
THEOREM SystemReplayProtection == SystemSpec => []AtMostOnce
BY SystemImplementsServer, ReplayProtection, PTL DEF ServerIsServer
-----------------------------------------------------------------------------
(* The attempt k of client c may be on the wire. *)
Sent(c, k) == k < retries[c] \/ (k = retries[c] /\ cpc[c] # "send")

(* The server has run a script for it. *)
Executed(c, k) == \E t \in ran : packet[t].nonce = <<c, k>>

(* d is the request of attempt k of client c. *)
IsRequest(d, c, k) ==
  /\ d.src = SocketOf(c, k) /\ d.dst = Server
  /\ d.nonce = <<c, k>> /\ d.script = ScriptOf[c]

(* d is a response of the server's to that attempt. *)
IsResponse(d, c, k) ==
  /\ d.src = Server /\ d.dst = SocketOf(c, k)
  /\ d.script = ScriptOf[c]

(* What is authentic was sent by a client for one of its attempts, or by   *)
(* the server after it had run the script of one.                          *)
Genuine(d) ==
  \E c \in Clients, k \in 0..MaxRetries :
    \/ IsRequest(d, c, k) /\ Sent(c, k)
    \/ IsResponse(d, c, k) /\ Executed(c, k)

NetGenuine == \A d \in net : d.auth => Genuine(d)

(* An attempt seals one request. *)
SealedOnce ==
  \A d1, d2 \in net :
    d1.auth /\ d2.auth /\ d1.src = d2.src /\ d1.src # Server => d1.ts = d2.ts

(* Tasks work on what was on the wire, and answer after they ran it. *)
TasksGenuine ==
  \A t \in Tasks :
    /\ packet[t] # NoPacket => packet[t] \in net
    /\ pc[t] \in {"ran", "sealed", "recorded"} => t \in ran

(* A waiting client knows the request it waits for an answer to. *)
OwnRequestKnown ==
  \A c \in Clients : cpc[c] = "wait" =>
    \A d \in net : d.auth /\ d.src = Socket(c) => Seen(rwin[c], d.ts, d.nonce)

ClientWindows ==
  /\ rwin \in [Clients -> SUBSET [ts : Nat, nonce : Nonces, at : Nat]]
  /\ \A c \in Clients : Stamped(rwin[c], rpushed[c])

LogStamped == \A r1, r2 \in log : r1.at = r2.at => r1 = r2

SystemInv ==
  /\ now \in 0..MaxTime
  /\ ClientTypeOK
  /\ ClientWindows
  /\ NetGenuine
  /\ SealedOnce
  /\ TasksGenuine
  /\ OwnRequestKnown
  /\ LogStamped
  /\ SuccessMeansExecuted
-----------------------------------------------------------------------------
(* Every attempt has a socket of its own, which is not the server's. *)
LEMMA SocketsDiffer ==
  ASSUME NEW c \in Clients, NEW k \in 0..MaxRetries
  PROVE  /\ SocketOf(c, k) \in Sockets /\ SocketOf(c, k) # Server
         /\ \A b \in Clients, j \in 0..MaxRetries :
              SocketOf(b, j) = SocketOf(c, k) => b = c /\ j = k
<1>1. SocketOf(c, k) \in Sockets
  BY ClientAssumption DEF SocketOf
<1>2. SocketOf(c, k) # Server
  BY <1>1, ServerSocketAssumption
<1>3. ASSUME NEW b \in Clients, NEW j \in 0..MaxRetries, SocketOf(b, j) = SocketOf(c, k)
      PROVE  b = c /\ j = k
  <2>1. <<b, j>> = <<c, k>>
    BY <1>3 DEF SocketOf
  <2> QED
    BY <2>1
<1> QED
  BY <1>1, <1>2, <1>3

(* What was genuine stays so: attempts are not undone, nor executions. *)
LEMMA GenuineStays ==
  ASSUME \A c \in Clients, k \in 0..MaxRetries : Sent(c, k) => Sent(c, k)',
         \A c \in Clients, k \in 0..MaxRetries : Executed(c, k) => Executed(c, k)',
         NEW d, Genuine(d)
  PROVE  Genuine(d)'
<1>1. PICK c \in Clients, k \in 0..MaxRetries :
        \/ IsRequest(d, c, k) /\ Sent(c, k)
        \/ IsResponse(d, c, k) /\ Executed(c, k)
  BY DEF Genuine
<1>2. \/ IsRequest(d, c, k) /\ Sent(c, k)'
      \/ IsResponse(d, c, k) /\ Executed(c, k)'
  BY <1>1
<1> QED
  BY <1>2 DEF Genuine, IsRequest, IsResponse, SocketOf

(* What replay_add does to the window of a client. *)
LEMMA RememberOK ==
  ASSUME ClientTypeOK, ClientWindows, NEW c \in Clients, NEW old \in SUBSET rwin[c],
         NEW d, d.ts \in Nat, d.nonce \in Nonces, Remember(c, old, d)
  PROVE  /\ rpushed' \in [Clients -> Nat]
         /\ \A b \in Clients : rwin'[b] \subseteq [ts : Nat, nonce : Nonces, at : 1..rpushed'[b]]
         /\ ClientWindows'
         /\ \A b \in Clients \ {c} : rwin'[b] = rwin[b]
         /\ Seen(rwin'[c], d.ts, d.nonce)
<1> DEFINE n == rpushed[c]
           new == [ts |-> d.ts, nonce |-> d.nonce, at |-> n + 1]
           added == ReplayAdd(old, ClientReplayMax, d.ts, d.nonce, n + 1)
<1>1. n \in Nat /\ ClientReplayMax \in Nat \ {0}
  BY ClientAssumption DEF ClientTypeOK
<1>2. /\ rpushed' \in [Clients -> Nat]
      /\ rpushed'[c] = n + 1
      /\ \A b \in Clients \ {c} : rpushed'[b] = rpushed[b]
  BY <1>1 DEF Remember, ClientTypeOK
<1>3. Stamped(old, n)
  BY DEF ClientWindows, Stamped
<1>4. Stamped(added, n + 1)
  BY <1>1, <1>3, AddStamped
<1>5. added \subseteq old \cup {new}
  BY DEF ReplayAdd, Newest
<1>6. new \in added
  <2>1. (n + 1) - new.at < ClientReplayMax
    BY <1>1
  <2> QED
    BY <1>1, <1>3, <2>1, AddKeeps
<1>7. added \subseteq [ts : Nat, nonce : Nonces, at : 1..(n + 1)]
  <2>1. old \subseteq [ts : Nat, nonce : Nonces, at : 1..n]
    BY DEF ClientTypeOK
  <2> QED
    BY <1>1, <1>5, <2>1
<1> HIDE DEF added
<1>8. /\ rwin' \in [Clients -> SUBSET [ts : Nat, nonce : Nonces, at : Nat]]
      /\ rwin'[c] = added
      /\ \A b \in Clients \ {c} : rwin'[b] = rwin[b]
  <2>1. rwin' = [rwin EXCEPT ![c] = added]
    BY <1>2 DEF Remember, added
  <2>2. added \in SUBSET [ts : Nat, nonce : Nonces, at : Nat]
    BY <1>1, <1>7
  <2> QED
    BY <2>1, <2>2 DEF ClientWindows
<1>9. Seen(added, d.ts, d.nonce)
  BY <1>6 DEF Seen
<1>10. \A b \in Clients : Stamped(rwin'[b], rpushed'[b])
  BY <1>2, <1>4, <1>8 DEF ClientWindows
<1>11. \A b \in Clients : rwin'[b] \subseteq [ts : Nat, nonce : Nonces, at : 1..rpushed'[b]]
  BY <1>2, <1>7, <1>8 DEF ClientTypeOK
<1> QED
  BY <1>2, <1>8, <1>9, <1>10, <1>11 DEF ClientWindows

(* Clients and server start with nothing sent. *)
LEMMA SystemInitOK == SystemInit => SystemInv
<1> SUFFICES ASSUME SystemInit PROVE SystemInv
  OBVIOUS
<1>1. now \in 0..MaxTime /\ net = {} /\ log = {}
  BY MaxTimeAssumption DEF SystemInit, Init, WireInit
<1>2. ClientTypeOK /\ ClientWindows
  BY ClientAssumption DEF SystemInit, ClientInit, ClientTypeOK, ClientWindows, Stamped
<1>3. NetGenuine /\ SealedOnce /\ LogStamped
  BY <1>1 DEF NetGenuine, SealedOnce, LogStamped
<1>4. TasksGenuine
  BY DEF SystemInit, Init, TasksGenuine
<1>5. OwnRequestKnown /\ SuccessMeansExecuted
  BY DEF SystemInit, ClientInit, OwnRequestKnown, SuccessMeansExecuted
<1> QED
  BY <1>1, <1>2, <1>3, <1>4, <1>5 DEF SystemInv

(* A client moves on, and neither sends nor changes the server. *)
LEMMA SilentStep ==
  ASSUME SystemInv, NEW c \in Clients,
         UNCHANGED <<now, net, server>>,
         NEW from, cpc[c] = from, NEW to \in {"send", "ok", "err"}, 
         cpc' = [cpc EXCEPT ![c] = to],
         ClientTypeOK', ClientWindows',
         \A b \in Clients \ {c} : retries'[b] = retries[b] /\ rwin'[b] = rwin[b],
         \A k \in 0..MaxRetries : Sent(c, k) => Sent(c, k)',
         SuccessMeansExecuted'
  PROVE  SystemInv'
<1>1. UNCHANGED <<now, net, log, pc, packet, ran>>
  BY DEF server, window, tasks
<1>2. \A b \in Clients : cpc'[b] = IF b = c THEN to ELSE cpc[b]
  BY DEF SystemInv, ClientTypeOK
<1>3. \A b \in Clients, k \in 0..MaxRetries : Sent(b, k) => Sent(b, k)'
  BY <1>2 DEF Sent
<1>4. \A b \in Clients, k \in 0..MaxRetries : Executed(b, k) => Executed(b, k)'
  BY <1>1 DEF Executed
<1>5. NetGenuine'
  BY <1>1, <1>3, <1>4, GenuineStays DEF SystemInv, NetGenuine
<1>6. SealedOnce' /\ TasksGenuine' /\ LogStamped'
  BY <1>1 DEF SystemInv, SealedOnce, TasksGenuine, LogStamped
<1>7. OwnRequestKnown'
  BY <1>1, <1>2 DEF SystemInv, OwnRequestKnown, Socket, SocketOf
<1> QED
  BY <1>1, <1>5, <1>6, <1>7 DEF SystemInv

(* Nothing authentic comes from a socket that a client has not used yet. *)
LEMMA NothingSentYet ==
  ASSUME SystemInv, NEW c \in Clients, cpc[c] = "send",
         NEW d \in net, d.auth
  PROVE  d.src # Socket(c)
<1> SUFFICES ASSUME d.src = Socket(c) PROVE FALSE
  OBVIOUS
<1>1. retries[c] \in 0..MaxRetries
  BY DEF SystemInv, ClientTypeOK
<1>2. PICK b \in Clients, k \in 0..MaxRetries :
        \/ IsRequest(d, b, k) /\ Sent(b, k)
        \/ IsResponse(d, b, k)
  BY DEF SystemInv, NetGenuine, Genuine
<1>3. d.src # Server
  BY <1>1, SocketsDiffer DEF Socket
<1>4. d.src = SocketOf(b, k) /\ Sent(b, k)
  BY <1>2, <1>3 DEF IsRequest, IsResponse
<1>5. b = c /\ k = retries[c]
  <2>1. SocketOf(b, k) = SocketOf(c, retries[c])
    BY <1>4 DEF Socket
  <2> QED
    BY <1>1, <2>1, SocketsDiffer
<1> QED
  BY <1>1, <1>4, <1>5 DEF Sent

(* A request goes out, and into the client's own window. *)
LEMMA SendRequestOK ==
  ASSUME IInv, SystemInv, NEW c \in Clients, SendRequest(c), UNCHANGED server
  PROVE  SystemInv'
<1> DEFINE d == RequestOf(c)
<1>1. /\ UNCHANGED <<now, log, pc, packet, ran, retries, response>>
      /\ net' = net \cup {d}
      /\ cpc[c] = "send" /\ cpc' = [cpc EXCEPT ![c] = "wait"]
      /\ Remember(c, rwin[c], d)
  BY DEF SendRequest, ClientGoto, Transmit, server, window, tasks
<1>2. retries[c] \in 0..MaxRetries
  BY DEF SystemInv, ClientTypeOK
<1>3. /\ d.src = SocketOf(c, retries[c]) /\ d.dst = Server /\ d.auth
      /\ d.nonce = <<c, retries[c]>> /\ d.script = ScriptOf[c]
  BY DEF RequestOf, Socket
<1>4. d \in Datagram
  <2>1. ClientsInBounds
    BY DEF SystemInv, ClientTypeOK, ClientsInBounds
  <2> QED
    BY <2>1, RequestsAreRequests, ServerAssumption
<1>5. d.ts \in Nat /\ d.nonce \in Nonces
  BY <1>4 DEF Datagram
<1> HIDE DEF d
<1>6. /\ cpc' \in [Clients -> {"send", "wait", "ok", "err"}]
      /\ \A b \in Clients : cpc'[b] = IF b = c THEN "wait" ELSE cpc[b]
  BY <1>1 DEF SystemInv, ClientTypeOK
<1>7. /\ rpushed' \in [Clients -> Nat]
      /\ \A b \in Clients : rwin'[b] \subseteq [ts : Nat, nonce : Nonces, at : 1..rpushed'[b]]
      /\ ClientWindows'
      /\ \A b \in Clients \ {c} : rwin'[b] = rwin[b]
      /\ Seen(rwin'[c], d.ts, d.nonce)
  BY <1>1, <1>5, RememberOK DEF SystemInv
<1>8. ClientTypeOK'
  BY <1>1, <1>6, <1>7 DEF SystemInv, ClientTypeOK
<1>9. NetGenuine'
  <2>1. \A b \in Clients, k \in 0..MaxRetries : Sent(b, k) => Sent(b, k)'
    BY <1>1, <1>6 DEF Sent
  <2>2. \A b \in Clients, k \in 0..MaxRetries : Executed(b, k) => Executed(b, k)'
    BY <1>1 DEF Executed
  <2>3. \A e \in net : e.auth => Genuine(e)'
    BY <2>1, <2>2, GenuineStays DEF SystemInv, NetGenuine
  <2>4. ASSUME NEW e, e = d PROVE Genuine(e)'
    <3>1. IsRequest(e, c, retries[c])' /\ Sent(c, retries[c])'
      BY <1>1, <1>2, <1>3, <1>6, <2>4 DEF IsRequest, Sent, SocketOf
    <3> QED
      BY <1>1, <1>2, <3>1 DEF Genuine
  <2> QED
    BY <1>1, <2>3, <2>4 DEF NetGenuine
<1>10. \A e \in net : e.auth => e.src # d.src
  BY <1>1, <1>3, NothingSentYet DEF Socket
<1>11. SealedOnce'
  BY <1>1, <1>10 DEF SystemInv, SealedOnce
<1>12. OwnRequestKnown'
  <2> SUFFICES ASSUME NEW b \in Clients, cpc'[b] = "wait",
                      NEW e \in net', e.auth, e.src = SocketOf(b, retries[b])
               PROVE  Seen(rwin'[b], e.ts, e.nonce)
    BY <1>1 DEF OwnRequestKnown, Socket, SocketOf
  <2>1. CASE b = c
    BY <1>1, <1>3, <1>7, <1>10, <2>1
  <2>2. CASE b # c
    <3>1. retries[b] \in 0..MaxRetries
      BY DEF SystemInv, ClientTypeOK
    <3>2. e # d
      BY <1>2, <1>3, <2>2, <3>1, SocketsDiffer
    <3> QED
      BY <1>1, <1>6, <1>7, <2>2, <3>2 DEF SystemInv, OwnRequestKnown, Socket
  <2> QED
    BY <2>1, <2>2
<1>13. TasksGenuine' /\ LogStamped'
  BY <1>1 DEF SystemInv, TasksGenuine, LogStamped
<1>14. SuccessMeansExecuted'
  BY <1>1, <1>6 DEF SystemInv, SuccessMeansExecuted
<1> QED
  BY <1>1, <1>8, <1>7, <1>9, <1>11, <1>12, <1>13, <1>14 DEF SystemInv

(* A client that stops, or tries again. *)
LEMMA UnansweredOK ==
  ASSUME SystemInv, NEW c \in Clients,
         CannotSend(c) \/ GiveUp(c) \/ Retry(c), UNCHANGED server
  PROVE  SystemInv'
<1>1. UNCHANGED <<now, net, rwin, rpushed, response, packet, ran>>
  BY DEF CannotSend, GiveUp, Retry, server, tasks
<1>2. ClientTypeOK /\ ClientWindows /\ SuccessMeansExecuted
  BY DEF SystemInv
<1>3. ClientWindows'
  BY <1>1, <1>2 DEF ClientWindows
<1>4. CASE CannotSend(c) \/ GiveUp(c)
  <2>1. cpc' = [cpc EXCEPT ![c] = "err"] /\ UNCHANGED retries
    BY <1>4 DEF CannotSend, GiveUp, ClientGoto
  <2>2. ClientTypeOK'
    BY <1>1, <1>2, <2>1 DEF ClientTypeOK
  <2>3. \A k \in 0..MaxRetries : Sent(c, k) => Sent(c, k)'
    BY <1>2, <2>1 DEF ClientTypeOK, Sent
  <2>4. SuccessMeansExecuted'
    BY <1>1, <1>2, <2>1 DEF ClientTypeOK, SuccessMeansExecuted
  <2> QED
    BY <1>1, <1>3, <2>1, <2>2, <2>3, <2>4, SilentStep
<1>5. CASE Retry(c)
  <2>1. /\ cpc' = [cpc EXCEPT ![c] = "send"]
        /\ retries' = [retries EXCEPT ![c] = retries[c] + 1]
        /\ retries[c] < MaxRetries
    BY <1>5 DEF Retry, ClientGoto
  <2>2. MaxRetries \in Nat /\ retries[c] \in 0..MaxRetries
    BY <1>2, ClientAssumption DEF ClientTypeOK
  <2>3. ClientTypeOK'
    BY <1>1, <1>2, <2>1, <2>2 DEF ClientTypeOK
  <2>4. \A b \in Clients : retries'[b] = IF b = c THEN retries[c] + 1 ELSE retries[b]
    BY <1>2, <2>1 DEF ClientTypeOK
  <2>5. \A k \in 0..MaxRetries : Sent(c, k) => Sent(c, k)'
    BY <2>2, <2>4 DEF Sent
  <2>6. SuccessMeansExecuted'
    BY <1>1, <1>2, <2>1, <2>4 DEF ClientTypeOK, SuccessMeansExecuted
  <2> QED
    BY <1>1, <1>3, <2>1, <2>3, <2>4, <2>5, <2>6, SilentStep
<1> QED
  BY <1>4, <1>5

(* replay_check leaves a part of the window. *)
LEMMA PrunedOK ==
  ASSUME NEW c, NEW d
  PROVE  Pruned(c, d) \in SUBSET rwin[c]
BY DEF Pruned, AfterCheck, Retain

(* A datagram that ends run() with an error. *)
LEMMA RejectOK ==
  ASSUME SystemInv, NEW c \in Clients, NEW d \in net, Reject(c, d), UNCHANGED server
  PROVE  SystemInv'
<1>1. /\ UNCHANGED <<now, net, rpushed, retries, response, packet, ran>>
      /\ cpc' = [cpc EXCEPT ![c] = "err"]
  BY DEF Reject, ClientGoto, server, tasks
<1>2. ClientTypeOK /\ ClientWindows /\ SuccessMeansExecuted
  BY DEF SystemInv
<1>3. /\ rwin' \in [Clients -> SUBSET [ts : Nat, nonce : Nonces, at : Nat]]
      /\ rwin'[c] \subseteq rwin[c]
      /\ \A b \in Clients \ {c} : rwin'[b] = rwin[b]
  BY <1>2, PrunedOK DEF Reject, ClientWindows
<1>4. ClientTypeOK'
  BY <1>1, <1>2, <1>3 DEF ClientTypeOK
<1>5. ClientWindows'
  BY <1>1, <1>2, <1>3 DEF ClientWindows, Stamped
<1>6. \A k \in 0..MaxRetries : Sent(c, k) => Sent(c, k)'
  BY <1>1, <1>2 DEF ClientTypeOK, Sent
<1>7. SuccessMeansExecuted'
  BY <1>1, <1>2 DEF ClientTypeOK, SuccessMeansExecuted
<1> QED
  BY <1>1, <1>3, <1>4, <1>5, <1>6, <1>7, SilentStep

(* What a waiting client takes for the answer is one: its own request is   *)
(* in its window, and nothing else can come to its socket.                 *)
LEMMA AnswerIsGenuine ==
  ASSUME IInv, SystemInv, NEW c \in Clients, NEW d \in net, Succeed(c, d)
  PROVE  IsResponse(d, c, retries[c]) /\ Executed(c, retries[c])
<1>1. /\ Socket(c) \in {d.dst, d.src} /\ d.auth /\ cpc[c] = "wait"
      /\ ReplayCheck(rwin[c], ClientWindow, ClientTime(c), d.ts, d.nonce)
  BY DEF Succeed, Reaches, Fresh, ClientGoto
<1>2. retries[c] \in 0..MaxRetries
  BY DEF SystemInv, ClientTypeOK
<1>3. d.src # Socket(c)
  <2> SUFFICES ASSUME d.src = Socket(c) PROVE FALSE
    OBVIOUS
  <2>1. PICK e \in rwin[c] : e.ts = d.ts /\ e.nonce = d.nonce
    BY <1>1 DEF SystemInv, OwnRequestKnown, Seen
  <2>2. d.ts \in Nat /\ ClientWindow \in Nat /\ ClientTime(c) \in Int
    <3>1. d.ts \in Nat
      BY DEF IInv, TypeOK, Datagram
    <3>2. now \in Int /\ ClockSkew[c] \in Int /\ ClientWindow \in Nat
      BY ClientAssumption DEF SystemInv
    <3> QED
      BY <3>1, <3>2 DEF ClientTime
  <2>3. e.ts + ClientWindow >= ClientTime(c)
    BY <1>1, <2>1, <2>2 DEF ReplayCheck, InWindow, Abs
  <2> QED
    BY <1>1, <2>1, <2>3 DEF ReplayCheck, Seen, Retain
<1>4. d.dst = SocketOf(c, retries[c])
  BY <1>1, <1>3 DEF Socket
<1>5. PICK b \in Clients, k \in 0..MaxRetries :
        \/ IsRequest(d, b, k)
        \/ IsResponse(d, b, k) /\ Executed(b, k)
  BY <1>1 DEF SystemInv, NetGenuine, Genuine
<1>6. d.dst # Server
  BY <1>2, <1>4, SocketsDiffer
<1>7. IsResponse(d, b, k) /\ Executed(b, k)
  BY <1>5, <1>6 DEF IsRequest
<1>8. b = c /\ k = retries[c]
  <2>1. SocketOf(b, k) = SocketOf(c, retries[c])
    BY <1>4, <1>7 DEF IsResponse
  <2> QED
    BY <1>2, <2>1, SocketsDiffer
<1> QED
  BY <1>7, <1>8

(* A datagram that is printed as the response. *)
LEMMA SucceedOK ==
  ASSUME IInv, SystemInv, NEW c \in Clients, NEW d \in net, Succeed(c, d), UNCHANGED server
  PROVE  SystemInv'
<1>1. /\ UNCHANGED <<now, net, retries, packet, ran>>
      /\ cpc' = [cpc EXCEPT ![c] = "ok"]
      /\ response' = [response EXCEPT ![c] = d]
      /\ Remember(c, Pruned(c, d), d)
  BY DEF Succeed, ClientGoto, server, tasks
<1>2. ClientTypeOK /\ ClientWindows /\ SuccessMeansExecuted
  BY DEF SystemInv
<1>3. d \in Datagram /\ d.ts \in Nat /\ d.nonce \in Nonces
  BY DEF IInv, TypeOK, Datagram
<1>4. /\ rpushed' \in [Clients -> Nat]
      /\ \A b \in Clients : rwin'[b] \subseteq [ts : Nat, nonce : Nonces, at : 1..rpushed'[b]]
      /\ ClientWindows'
      /\ \A b \in Clients \ {c} : rwin'[b] = rwin[b]
  BY <1>1, <1>2, <1>3, PrunedOK, RememberOK
<1>5. ClientTypeOK'
  BY <1>1, <1>2, <1>3, <1>4 DEF ClientTypeOK
<1>6. \A k \in 0..MaxRetries : Sent(c, k) => Sent(c, k)'
  BY <1>1, <1>2 DEF ClientTypeOK, Sent
<1>7. SuccessMeansExecuted'
  <2>1. d.script = ScriptOf[c] /\ \E t \in ran : packet[t].nonce = <<c, retries[c]>>
    BY AnswerIsGenuine DEF IsResponse, Executed
  <2> QED
    BY <1>1, <1>2, <2>1 DEF ClientTypeOK, SuccessMeansExecuted
<1> QED
  BY <1>1, <1>4, <1>5, <1>6, <1>7, SilentStep
-----------------------------------------------------------------------------
(* What the server does to what the clients depend on: it takes packets    *)
(* from the wire, answers after it ran them, and numbers what it records.  *)
ServerEffect ==
  /\ UNCHANGED now
  /\ ran \subseteq ran'
  /\ \A t \in Tasks : packet'[t] = packet[t] \/ (pc[t] = "free" /\ packet'[t] \in net)
  /\ \A t \in Tasks : pc'[t] \in {"ran", "sealed", "recorded"} => t \in ran'
  /\ net' = net \/ \E t \in Tasks : pc[t] = "recorded" /\ net' = net \cup {Response(t)}
  /\ log' = log \/ \E r : r.at = pushed + 1 /\ log' = log \cup {r}

(* No step of the server does more. *)
LEMMA ServerEffects ==
  ASSUME IInv, TasksGenuine, ServerNext
  PROVE  ServerEffect
<1> DEFINE Answering == {"ran", "sealed", "recorded"}
<1>1. pc \in [Tasks -> Step] /\ packet \in [Tasks -> Datagram \cup {NoPacket}]
  BY DEF IInv, TypeOK
<1>2. \A t \in Tasks : pc[t] \in Answering => t \in ran
  BY DEF TasksGenuine
<1>3. ASSUME NEW t \in Tasks, NEW to, pc' = [pc EXCEPT ![t] = to],
             to \in Answering => pc[t] \in Answering \/ t \in ran', ran \subseteq ran'
      PROVE  \A u \in Tasks : pc'[u] \in Answering => u \in ran'
  BY <1>1, <1>2, <1>3
<1>4. ASSUME NEW d \in net, Refuse(d) PROVE ServerEffect
  <2>1. UNCHANGED <<now, net, log, pc, packet, ran>>
    BY <1>4 DEF Refuse, wire, window, tasks
  <2> QED
    BY <1>2, <2>1 DEF ServerEffect
<1>5. ASSUME NEW d \in net, NEW t \in Tasks, Accept(d, t) PROVE ServerEffect
  <2>1. /\ UNCHANGED <<now, net, log, ran>>
        /\ pc[t] = "free" /\ pc' = [pc EXCEPT ![t] = "queued"]
        /\ packet' = [packet EXCEPT ![t] = d]
    BY <1>5 DEF Accept, Goto, wire, window
  <2>2. \A u \in Tasks : pc'[u] \in Answering => u \in ran'
    BY <1>3, <2>1
  <2> QED
    BY <1>1, <2>1, <2>2 DEF ServerEffect
<1>6. ASSUME NEW t \in Tasks, Works(t) PROVE ServerEffect
  <2>1. ASSUME NEW to, pc' = [pc EXCEPT ![t] = to], UNCHANGED <<now, packet>>,
               ran \subseteq ran', to \in Answering => pc[t] \in Answering \/ t \in ran',
               net' = net \/ (pc[t] = "recorded" /\ net' = net \cup {Response(t)}),
               log' = log \/ \E r : r.at = pushed + 1 /\ log' = log \cup {r}
        PROVE  ServerEffect
    <3>1. \A u \in Tasks : pc'[u] \in Answering => u \in ran'
      BY <1>3, <2>1
    <3> QED
      BY <2>1, <3>1 DEF ServerEffect
  <2>2. CASE Drop(t) \/ SpawnFails(t) \/ SealFails(t) \/ SendFails(t)
    BY <2>1, <2>2, Zenon DEF Drop, SpawnFails, SealFails, SendFails, Goto, wire, window
  <2>3. CASE Spawn(t) \/ WaitFails(t)
    BY <2>1, <2>3 DEF Spawn, WaitFails, Goto, wire, window
  <2>4. CASE ChildRuns(t)
    <3>1. UNCHANGED <<now, net, log, packet>> /\ ran' = ran \cup {t}
      BY <2>4 DEF ChildRuns, wire, window
    <3>2. pc' = [pc EXCEPT ![t] = "ran"] \/ pc' = [pc EXCEPT ![t] = "end"]
      BY <2>4 DEF ChildRuns, Goto
    <3> QED
      BY <2>1, <3>1, <3>2
  <2>5. CASE Seal(t)
    BY <2>1, <2>5 DEF Seal, Goto, wire, window
  <2>6. CASE Admit(t) \/ Record(t)
    <3>1. \E r : r.at = pushed + 1 /\ log' = log \cup {r}
      BY <2>6, Zenon DEF Admit, Record, Push
    <3>2. UNCHANGED <<now, net, packet, ran>>
      BY <2>6 DEF Admit, Record, wire
    <3>3. \/ pc' = [pc EXCEPT ![t] = "admitted"]
          \/ pc[t] = "sealed" /\ pc' = [pc EXCEPT ![t] = "recorded"]
      BY <2>6 DEF Admit, Record, Goto
    <3> QED
      BY <2>1, <3>1, <3>2, <3>3
  <2>7. CASE Send(t)
    BY <2>1, <2>7 DEF Send, Goto, Transmit, window
  <2> QED
    BY <1>6, <2>2, <2>3, <2>4, <2>5, <2>6, <2>7 DEF Works
<1>7. CASE Restart
  <2>1. UNCHANGED <<now, net, log, packet, ran>>
    BY <1>7 DEF Restart, wire
  <2>2. \A t \in Tasks : pc'[t] \notin Answering
    BY <1>7 DEF Restart
  <2> QED
    BY <2>1, <2>2 DEF ServerEffect
<1> QED
  BY <1>4, <1>5, <1>6, <1>7 DEF ServerNext

(* The answer to a genuine packet is genuine, also to a response that came *)
(* back and was taken for a request.                                       *)
LEMMA ResponseIsGenuine ==
  ASSUME IInv, SystemInv, NEW t \in Tasks, pc[t] = "recorded"
  PROVE  \E c \in Clients, k \in 0..MaxRetries :
           IsResponse(Response(t), c, k) /\ Executed(c, k)
<1>1. t \in ran /\ packet[t] # NoPacket /\ packet[t].auth /\ packet[t] \in net
  BY DEF IInv, TasksOK, Admitted, SystemInv, TasksGenuine
<1>2. PICK c \in Clients, k \in 0..MaxRetries :
        \/ IsRequest(packet[t], c, k)
        \/ IsResponse(packet[t], c, k) /\ Executed(c, k)
  BY <1>1 DEF SystemInv, NetGenuine, Genuine
<1>3. CASE IsRequest(packet[t], c, k)
  <2>1. Executed(c, k)
    BY <1>1, <1>3 DEF IsRequest, Executed
  <2>2. IsResponse(Response(t), c, k)
    BY <1>3 DEF IsRequest, IsResponse, Response, Peer
  <2> QED
    BY <2>1, <2>2
<1>4. CASE IsResponse(packet[t], c, k) /\ Executed(c, k)
  <2>1. packet[t].dst # Server
    BY <1>4, SocketsDiffer DEF IsResponse
  <2>2. IsResponse(Response(t), c, k)
    BY <1>4, <2>1 DEF IsResponse, Response, Peer
  <2> QED
    BY <1>4, <2>2
<1> QED
  BY <1>2, <1>3, <1>4

(* A step of the server. *)
LEMMA ServerStepOK ==
  ASSUME IInv, SystemInv, ServerNext, UNCHANGED clients
  PROVE  SystemInv'
<1>1. UNCHANGED <<cpc, retries, rwin, rpushed, response>>
  BY DEF clients
<1>2. ServerEffect
  BY ServerEffects DEF SystemInv
<1>3. \A t \in ran : t \in Tasks /\ packet'[t] = packet[t]
  BY <1>2 DEF ServerEffect, IInv, TypeOK, TasksOK
<1>4. ClientTypeOK' /\ ClientWindows' /\ now' \in 0..MaxTime
  BY <1>1, <1>2 DEF ServerEffect, SystemInv, ClientTypeOK, ClientWindows
<1>5. \A c \in Clients, k \in 0..MaxRetries : Executed(c, k) => Executed(c, k)'
  BY <1>2, <1>3 DEF ServerEffect, Executed
<1>6. \A c \in Clients, k \in 0..MaxRetries : Sent(c, k) => Sent(c, k)'
  BY <1>1 DEF Sent
<1>7. \A d \in net : d.auth => Genuine(d)'
  BY <1>5, <1>6, GenuineStays DEF SystemInv, NetGenuine
<1>8. \A d \in net' \ net : Genuine(d)' /\ d.src = Server
  <2> SUFFICES ASSUME NEW t \in Tasks, pc[t] = "recorded", NEW d, d = Response(t)
               PROVE  Genuine(d)' /\ d.src = Server
    BY <1>2 DEF ServerEffect
  <2>1. PICK c \in Clients, k \in 0..MaxRetries : IsResponse(d, c, k) /\ Executed(c, k)
    BY ResponseIsGenuine
  <2>2. IsResponse(d, c, k)' /\ Executed(c, k)'
    BY <1>5, <2>1 DEF IsResponse, SocketOf
  <2> QED
    BY <2>1, <2>2 DEF Genuine, IsResponse
<1>9. NetGenuine'
  BY <1>7, <1>8 DEF NetGenuine
<1>10. SealedOnce'
  BY <1>8 DEF SystemInv, SealedOnce
<1>11. net \subseteq net'
  BY <1>2 DEF ServerEffect
<1>12. TasksGenuine'
  BY <1>2, <1>11 DEF ServerEffect, SystemInv, TasksGenuine
<1>13. OwnRequestKnown'
  <2> SUFFICES ASSUME NEW c \in Clients, cpc[c] = "wait",
                      NEW d \in net', d.auth, d.src = SocketOf(c, retries[c])
               PROVE  Seen(rwin[c], d.ts, d.nonce)
    BY <1>1 DEF OwnRequestKnown, Socket, SocketOf
  <2>1. d.src # Server
    BY SocketsDiffer DEF SystemInv, ClientTypeOK
  <2> QED
    BY <1>8, <2>1 DEF SystemInv, OwnRequestKnown, Socket
<1>14. LogStamped'
  <2>1. \A r \in log : r.at # pushed + 1
    BY DEF IInv, TypeOK, LogOK
  <2> QED
    BY <1>2, <2>1 DEF ServerEffect, SystemInv, LogStamped
<1>15. SuccessMeansExecuted'
  BY <1>1, <1>2, <1>3 DEF ServerEffect, SystemInv, SuccessMeansExecuted
<1> QED
  BY <1>4, <1>9, <1>10, <1>12, <1>13, <1>14, <1>15 DEF SystemInv

(* Time passes, or something damaged comes along. *)
LEMMA OutsideOK ==
  ASSUME SystemInv, UNCHANGED <<server, clients>>, now' \in 0..MaxTime,
         net \subseteq net', \A d \in net' \ net : ~ d.auth
  PROVE  SystemInv'
<1>1. UNCHANGED <<cpc, retries, rwin, rpushed, response, log, pc, packet, ran>>
  BY DEF clients, server, window, tasks
<1>2. ClientTypeOK' /\ ClientWindows' /\ SuccessMeansExecuted' /\ LogStamped'
  BY <1>1 DEF SystemInv, ClientTypeOK, ClientWindows, SuccessMeansExecuted, LogStamped
<1>3. \A c \in Clients, k \in 0..MaxRetries :
        (Executed(c, k) => Executed(c, k)') /\ (Sent(c, k) => Sent(c, k)')
  BY <1>1 DEF Executed, Sent
<1>4. NetGenuine'
  BY <1>3, GenuineStays DEF SystemInv, NetGenuine
<1>5. SealedOnce' /\ TasksGenuine'
  BY <1>1 DEF SystemInv, SealedOnce, TasksGenuine
<1>6. OwnRequestKnown'
  BY <1>1 DEF SystemInv, OwnRequestKnown, Socket, SocketOf
<1> QED
  BY <1>2, <1>4, <1>5, <1>6 DEF SystemInv

(* Every step of the system preserves the invariant. *)
LEMMA SystemStepOK == IInv /\ SystemInv /\ [SystemNext]_systemVars => SystemInv'
<1> SUFFICES ASSUME IInv, SystemInv, [SystemNext]_systemVars PROVE SystemInv'
  OBVIOUS
<1>1. ASSUME NEW c \in Clients, ClientStep(c), UNCHANGED server PROVE SystemInv'
  BY <1>1, SendRequestOK, UnansweredOK, RejectOK, SucceedOK DEF ClientStep, Unaided
<1>2. CASE ServerNext /\ UNCHANGED clients
  BY <1>2, ServerStepOK
<1>3. ASSUME NEW d \in Requests, Noise(d) PROVE SystemInv'
  BY <1>3, OutsideOK DEF Noise, ClientSends, Transmit, SystemInv
<1>4. CASE Tick /\ UNCHANGED <<server, clients>>
  <2>1. now' \in 0..MaxTime /\ UNCHANGED net
    BY <1>4, MaxTimeAssumption DEF Tick, SystemInv
  <2> QED
    BY <1>4, <2>1, OutsideOK
<1>5. CASE UNCHANGED systemVars
  BY <1>5, OutsideOK DEF systemVars, vars, wire, SystemInv
<1> QED
  BY <1>1, <1>2, <1>3, <1>4, <1>5 DEF SystemNext
-----------------------------------------------------------------------------
(* The server has its whole window: no restart, and nothing evicted. *)
Unforgotten == restarts = 0 /\ pushed <= ReplayMax

(* Then no record of it is lost. *)
LEMMA NothingLost ==
  ASSUME IInv, Unforgotten, NEW r1 \in log, NEW r2 \in log
  PROVE  ~ Lost(r1, r2)
<1>1. r1.life \in Nat /\ r2.life \in Nat /\ r1.life <= restarts /\ r2.life <= restarts
  BY DEF IInv, TypeOK, LogOK, LogRecord
<1>2. r1.at \in 1..pushed /\ r2.at \in 1..pushed /\ pushed \in Nat /\ ReplayMax \in Nat
  BY ServerAssumption DEF IInv, TypeOK, LogOK
<1> QED
  BY <1>1, <1>2 DEF Lost, Unforgotten

(* What it then runs is a client's request, not an answer of its own. *)
LEMMA RanIsRequest ==
  ASSUME IInv, SystemInv, Unforgotten, NEW t \in ran
  PROVE  /\ t \in Tasks /\ packet[t] \in net /\ packet[t].auth
         /\ \E c \in Clients, k \in 0..MaxRetries :
              IsRequest(packet[t], c, k) /\ Sent(c, k)
<1>1. t \in Tasks /\ Admitted(t)
  BY DEF IInv, TypeOK, TasksOK
<1>2. packet[t] \in net /\ packet[t].auth
  BY <1>1 DEF Admitted, SystemInv, TasksGenuine
<1>3. PICK r \in log : r.task = t /\ r.kind = "request"
  BY <1>1 DEF Admitted
<1>4. packet[t].src # Server
  BY <1>3, NothingLost DEF IInv, OwnResponsesRefused
<1>5. PICK c \in Clients, k \in 0..MaxRetries :
        \/ IsRequest(packet[t], c, k) /\ Sent(c, k)
        \/ IsResponse(packet[t], c, k)
  BY <1>2 DEF SystemInv, NetGenuine, Genuine
<1>6. ~ IsResponse(packet[t], c, k)
  BY <1>4 DEF IsResponse
<1> QED
  BY <1>1, <1>2, <1>5, <1>6

(* And it runs that request once: a second admission of it would repeat a  *)
(* record that is still in the window.                                     *)
LEMMA RanOnce ==
  ASSUME IInv, SystemInv, Unforgotten, NEW t1 \in ran, NEW t2 \in ran,
         NEW c \in Clients, NEW k \in 0..MaxRetries,
         IsRequest(packet[t1], c, k), IsRequest(packet[t2], c, k)
  PROVE  t1 = t2
<1>1. /\ t1 \in Tasks /\ packet[t1] \in net /\ packet[t1].auth
      /\ t2 \in Tasks /\ packet[t2] \in net /\ packet[t2].auth
  BY RanIsRequest
<1>2. packet[t1].ts = packet[t2].ts /\ packet[t1].nonce = packet[t2].nonce
  BY <1>1, SocketsDiffer DEF SystemInv, SealedOnce, IsRequest
<1>3. PICK r1 \in log : /\ r1.task = t1 /\ r1.kind = "request"
                        /\ r1.ts = packet[t1].ts /\ r1.nonce = packet[t1].nonce
  BY <1>1 DEF IInv, TasksOK, Admitted
<1>4. PICK r2 \in log : /\ r2.task = t2 /\ r2.kind = "request"
                        /\ r2.ts = packet[t2].ts /\ r2.nonce = packet[t2].nonce
  BY <1>1 DEF IInv, TasksOK, Admitted
<1>5. ~ Repeats(r1, r2) /\ ~ Repeats(r2, r1)
  BY <1>3, <1>4, NothingLost DEF IInv, AtMostOnce
<1>6. r1.at \in Nat /\ r2.at \in Nat
  BY DEF IInv, TypeOK, LogRecord
<1>7. r1.at = r2.at
  BY <1>2, <1>3, <1>4, <1>5, <1>6 DEF Repeats
<1> QED
  BY <1>3, <1>4, <1>7 DEF SystemInv, LogStamped

(* The executions owed to client c are those of its own requests. *)
LEMMA RanForRequest ==
  ASSUME IInv, SystemInv, Unforgotten, NEW c \in Clients, NEW t \in RanFor(c)
  PROVE  /\ t \in ran
         /\ \E k \in 0..MaxRetries : IsRequest(packet[t], c, k) /\ Sent(c, k)
<1>1. t \in ran
  BY DEF RanFor
<1>2. PICK j \in 0..MaxRetries : Peer(packet[t], Server) = SocketOf(c, j)
  BY DEF RanFor
<1>3. PICK b \in Clients, k \in 0..MaxRetries : IsRequest(packet[t], b, k) /\ Sent(b, k)
  BY <1>1, RanIsRequest
<1>4. SocketOf(b, k) = SocketOf(c, j)
  BY <1>2, <1>3 DEF IsRequest, Peer
<1>5. b = c
  BY <1>4, SocketsDiffer
<1> QED
  BY <1>1, <1>3, <1>5

(* At most one of them for each attempt made so far. *)
LEMMA RanForBounded ==
  ASSUME IInv, SystemInv, Unforgotten, NEW c \in Clients
  PROVE  Cardinality(RanFor(c)) <= retries[c] + 1
<1> DEFINE f == [t \in RanFor(c) |->
                   CHOOSE k \in 0..MaxRetries : IsRequest(packet[t], c, k) /\ Sent(c, k)]
<1>1. retries[c] \in Nat
  BY ClientAssumption DEF SystemInv, ClientTypeOK
<1>2. ASSUME NEW t \in RanFor(c)
      PROVE  f[t] \in 0..MaxRetries /\ IsRequest(packet[t], c, f[t]) /\ Sent(c, f[t])
  BY RanForRequest
<1> HIDE DEF f
<1>3. ASSUME NEW t \in RanFor(c) PROVE f[t] \in 0..retries[c]
  BY <1>1, <1>2, ClientAssumption DEF Sent
<1>4. f \in [RanFor(c) -> 0..retries[c]]
  BY <1>3 DEF f
<1>5. ASSUME NEW t1 \in RanFor(c), NEW t2 \in RanFor(c), f[t1] = f[t2]
      PROVE  t1 = t2
  <2>1. /\ t1 \in ran /\ t2 \in ran /\ f[t1] \in 0..MaxRetries
        /\ IsRequest(packet[t1], c, f[t1]) /\ IsRequest(packet[t2], c, f[t1])
    BY <1>2, <1>5, RanForRequest
  <2> QED
    BY <2>1, RanOnce
<1>6. f \in Injection(RanFor(c), 0..retries[c])
  BY <1>4, <1>5, Fun_IsInj
<1>7. IsFiniteSet(0..retries[c]) /\ Cardinality(0..retries[c]) = retries[c] + 1
  BY <1>1, FS_Interval
<1> QED
  BY <1>6, <1>7, FS_Injection

(* Both invariants together bound what a client's script is run for. *)
LEMMA OncePerAttemptOK == IInv /\ SystemInv => OncePerAttempt
<1> SUFFICES ASSUME IInv, SystemInv, Unforgotten
             PROVE  /\ ran = UNION {RanFor(c) : c \in Clients}
                    /\ \A c \in Clients :
                         /\ Cardinality(RanFor(c)) <= retries[c] + 1
                         /\ \A t \in RanFor(c) : packet[t].script = ScriptOf[c]
  BY DEF OncePerAttempt, Unforgotten
<1>1. ASSUME NEW t \in ran PROVE \E c \in Clients : t \in RanFor(c)
  <2>1. PICK c \in Clients, k \in 0..MaxRetries : IsRequest(packet[t], c, k)
    BY RanIsRequest
  <2> QED
    BY <2>1 DEF IsRequest, Peer, RanFor
<1>2. ran = UNION {RanFor(c) : c \in Clients}
  BY <1>1 DEF RanFor
<1>3. ASSUME NEW c \in Clients, NEW t \in RanFor(c) PROVE packet[t].script = ScriptOf[c]
  BY RanForRequest DEF IsRequest
<1> QED
  BY <1>2, <1>3, RanForBounded
-----------------------------------------------------------------------------
(* The system's invariant holds throughout, beside the server's. *)
THEOREM SystemInvariance == SystemSpec => [](IInv /\ SystemInv)
<1>1. SystemSpec => []IInv
  BY SystemImplementsServer, Invariance, PTL DEF ServerIsServer
<1> QED
  BY <1>1, SystemInitOK, SystemStepOK, PTL DEF SystemSpec

(* Every variable of the clients keeps its type: the retries stay within   *)
(* --max-retries and the window has what replay_add pushed.                *)
THEOREM ClientsTypeCorrect == SystemSpec => []ClientTypeOK
<1>1. SystemInv => ClientTypeOK
  BY DEF SystemInv
<1> QED
  BY <1>1, SystemInvariance, PTL

(* A client that prints a response has had its script executed, in the     *)
(* attempt it waited in, whatever the wire delivered: for any number of    *)
(* clients, attempts and restarts of the server.                           *)
THEOREM SuccessIsReal == SystemSpec => []SuccessMeansExecuted
<1>1. SystemInv => SuccessMeansExecuted
  BY DEF SystemInv
<1> QED
  BY <1>1, SystemInvariance, PTL

(* While the server keeps its window, every execution is that of a         *)
(* request some client made, at most one for each of its attempts.         *)
THEOREM AttemptsExecutedOnce == SystemSpec => []OncePerAttempt
BY SystemInvariance, OncePerAttemptOK, PTL
=============================================================================
