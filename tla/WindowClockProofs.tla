------------------------- MODULE WindowClockProofs -------------------------
(***************************************************************************)
(* What overflow and clocks that are set do to the replay window, for      *)
(* every width of integers, window, size and clock.                        *)
(***************************************************************************)
EXTENDS WindowClock, FiniteSetTheorems, TLAPS

(* The window itself. *)

(* Each entry has a stamp of its own, at most n. *)
Stamped(S, n) ==
  /\ \A e \in S : e.at \in 1..n
  /\ \A e, f \in S : e.at = f.at => e = f

(* No more entries are newer than stamp k than there are stamps after k.   *)
LEMMA NewerBound ==
  ASSUME NEW S, NEW n \in Nat, Stamped(S, n), NEW k \in Nat, k <= n
  PROVE  LET N == {f \in S : f.at > k}
         IN  IsFiniteSet(N) /\ Cardinality(N) \in Nat /\ Cardinality(N) <= n - k
<1> DEFINE N == {f \in S : f.at > k}
<1> DEFINE stamp == [f \in N |-> f.at]
<1>1. stamp \in Injection(N, (k + 1)..n)
  BY DEF Stamped, Injection, IsInjective
<1>2. IsFiniteSet((k + 1)..n) /\ Cardinality((k + 1)..n) <= n - k
  <2>1. k + 1 \in Int /\ n \in Int
    OBVIOUS
  <2>2. /\ IsFiniteSet((k + 1)..n)
        /\ Cardinality((k + 1)..n) = IF k + 1 > n THEN 0 ELSE n - (k + 1) + 1
    BY <2>1, FS_Interval
  <2> QED
    BY <2>2
<1>3. IsFiniteSet(N) /\ Cardinality(N) <= Cardinality((k + 1)..n)
  BY <1>1, <1>2, FS_Injection
<1>4. Cardinality(N) \in Nat /\ Cardinality((k + 1)..n) \in Nat
  BY <1>2, <1>3, FS_CardinalityType
<1> QED
  BY <1>2, <1>3, <1>4

(* replay_add keeps the stamps apart. *)
LEMMA AddStamped ==
  ASSUME NEW S, NEW n \in Nat, Stamped(S, n), NEW m, NEW ts, NEW nonce
  PROVE  Stamped(ReplayAdd(S, m, ts, nonce, n + 1), n + 1)
BY DEF Stamped, ReplayAdd, Newest

(* An entry survives replay_add as long as fewer than max_size pushes      *)
(* followed its own.                                                       *)
LEMMA AddKeeps ==
  ASSUME NEW S, NEW n \in Nat, Stamped(S, n), NEW m \in Nat, NEW ts, NEW nonce,
         NEW e \in S \cup {[ts |-> ts, nonce |-> nonce, at |-> n + 1]},
         (n + 1) - e.at < m
  PROVE  e \in ReplayAdd(S, m, ts, nonce, n + 1)
<1> DEFINE T == S \cup {[ts |-> ts, nonce |-> nonce, at |-> n + 1]}
<1> DEFINE N == {f \in T : f.at > e.at}
<1>1. Stamped(T, n + 1)
  BY DEF Stamped
<1>2. e.at \in Nat /\ e.at <= n + 1
  BY <1>1 DEF Stamped
<1>3. n + 1 \in Nat
  OBVIOUS
<1>4. Cardinality(N) \in Nat /\ Cardinality(N) <= (n + 1) - e.at
  <2> HIDE DEF T
  <2> QED
    BY <1>1, <1>2, <1>3, NewerBound
<1>5. Cardinality(N) < m
  <2> HIDE DEF N
  <2> QED
    BY <1>2, <1>4
<1> QED
  BY <1>5 DEF ReplayAdd, Newest
-----------------------------------------------------------------------------

Entry(r) == [ts |-> r.ts, nonce |-> r.nonce, at |-> r.at]

(* A packet of the log is pruned after it was admitted, if ever. *)
PrunedLater == \A r \in log : r.pruned = Never \/ (r.at <= r.pruned /\ r.pruned <= pushed)

(* Every packet of the log is still remembered, or crowded out, or pruned. *)
Remembers ==
  \A r \in log : Entry(r) \in entries \/ pushed - r.at >= ReplayMax \/ r.pruned # Never

IInv ==
  /\ TypeOK
  /\ Stamped(entries, pushed)
  /\ PrunedLater
  /\ Remembers
  /\ AdmittedInTime
  /\ ReplayNeedsSetBack

-----------------------------------------------------------------------------
(* The overflow of now - ts in replay_check changes its verdict on one     *)
(* timestamp only.                                                         *)
THEOREM OverflowChangesOneVerdict ==
  ASSUME now \in 0..MaxClock, NEW ts \in I64
  PROVE  Passes(ts) <=> InWindow(Window, now, ts) \/ now - ts = Half
BY WindowClockAssumption DEF Passes, WrappingAbs, Wrap, Abs, InWindow, I64

(* Timestamps that were admitted in time do not overflow in retain. *)
LEMMA KeptOK ==
  ASSUME NEW ts \in I64, NEW clock \in 0..MaxClock,
         InWindow(Window, clock, ts) \/ clock - ts = Half
  PROVE  Wrap(ts + Window) = ts + Window
BY WindowClockAssumption DEF Wrap, InWindow, Abs, I64

(* What Noted does to a packet of the log. *)
LEMMA NotedOK ==
  ASSUME TypeOK, NEW s \in Noted
  PROVE  \E r \in log :
           /\ s \in [ts : I64, nonce : Nonces, at : 1..pushed, clock : 0..MaxClock,
                     pruned : 0..Never]
           /\ s.ts = r.ts /\ s.nonce = r.nonce /\ s.at = r.at /\ s.clock = r.clock
           /\ s.pruned = IF r.pruned = Never /\ now > r.ts + Window THEN pushed ELSE r.pruned
<1>1. PICK r \in log :
        s = [r EXCEPT !.pruned = IF @ = Never /\ now > r.ts + Window THEN pushed ELSE @]
  BY DEF Noted
<1>2. r \in [ts : I64, nonce : Nonces, at : 1..pushed, clock : 0..MaxClock,
             pruned : 0..Never]
  BY DEF TypeOK
<1>3. pushed \in 0..Never
  BY WindowClockAssumption DEF TypeOK, Never
<1> QED
  BY <1>1, <1>2, <1>3

(* Pruning keeps the parts of the invariant that are about the log alone. *)
LEMMA NotedInv ==
  ASSUME IInv
  PROVE  /\ Noted \subseteq [ts : I64, nonce : Nonces, at : 1..pushed, clock : 0..MaxClock,
                             pruned : 0..Never]
         /\ \A r \in Noted : r.pruned = Never \/ (r.at <= r.pruned /\ r.pruned <= pushed)
         /\ \A r \in Noted : InWindow(Window, r.clock, r.ts) \/ r.clock - r.ts = Half
         /\ \A r1, r2 \in Noted :
              r1.ts = r2.ts /\ r1.nonce = r2.nonce /\ r1.at < r2.at =>
                r2.at - r1.at > ReplayMax \/ r1.pruned < r2.at
         /\ \A r \in Noted :
              Entry(r) \in Kept \/ pushed - r.at >= ReplayMax \/ r.pruned # Never
<1>1. TypeOK
  BY DEF IInv
<1>2. \A s \in Noted : s \in [ts : I64, nonce : Nonces, at : 1..pushed, clock : 0..MaxClock,
                              pruned : 0..Never]
  BY <1>1, NotedOK
<1>3. ASSUME NEW s \in Noted
      PROVE  s.pruned = Never \/ (s.at <= s.pruned /\ s.pruned <= pushed)
  BY <1>1, <1>3, NotedOK, WindowClockAssumption DEF IInv, PrunedLater, TypeOK
<1>4. ASSUME NEW s \in Noted
      PROVE  InWindow(Window, s.clock, s.ts) \/ s.clock - s.ts = Half
  BY <1>1, <1>4, NotedOK DEF IInv, AdmittedInTime
<1>5. ASSUME NEW s1 \in Noted, NEW s2 \in Noted,
             s1.ts = s2.ts, s1.nonce = s2.nonce, s1.at < s2.at
      PROVE  s2.at - s1.at > ReplayMax \/ s1.pruned < s2.at
  <2>1. PICK r1 \in log :
          /\ s1.ts = r1.ts /\ s1.nonce = r1.nonce /\ s1.at = r1.at
          /\ s1.pruned = IF r1.pruned = Never /\ now > r1.ts + Window THEN pushed ELSE r1.pruned
    BY <1>1, NotedOK
  <2>2. PICK r2 \in log : s2.ts = r2.ts /\ s2.nonce = r2.nonce /\ s2.at = r2.at
    BY <1>1, NotedOK
  <2>3. r2.at - r1.at > ReplayMax \/ r1.pruned < r2.at
    BY <1>5, <2>1, <2>2 DEF IInv, ReplayNeedsSetBack
  <2>4. r2.at \in 1..pushed /\ pushed <= MaxPushes /\ pushed \in Nat
    BY <1>1, WindowClockAssumption DEF TypeOK
  <2> QED
    BY <2>1, <2>2, <2>3, <2>4, WindowClockAssumption DEF Never
<1>6. ASSUME NEW s \in Noted
      PROVE  Entry(s) \in Kept \/ pushed - s.at >= ReplayMax \/ s.pruned # Never
  <2>1. PICK r \in log :
          /\ s.ts = r.ts /\ s.nonce = r.nonce /\ s.at = r.at
          /\ s.pruned = IF r.pruned = Never /\ now > r.ts + Window THEN pushed ELSE r.pruned
    BY <1>1, NotedOK
  <2>2. Entry(s) = Entry(r)
    BY <2>1 DEF Entry
  <2>3. CASE Entry(r) \in entries /\ r.pruned = Never
    <3>1. r.ts \in I64 /\ r.clock \in 0..MaxClock
      BY <1>1 DEF TypeOK
    <3>2. InWindow(Window, r.clock, r.ts) \/ r.clock - r.ts = Half
      BY DEF IInv, AdmittedInTime
    <3>3. Wrap(r.ts + Window) = r.ts + Window
      BY <3>1, <3>2, KeptOK
    <3>4. CASE r.ts + Window >= now
      BY <2>2, <2>3, <3>3, <3>4 DEF Kept, Entry
    <3>5. CASE ~ (r.ts + Window >= now)
      <4>1. now > r.ts + Window
        BY <1>1, <3>1, <3>5, WindowClockAssumption DEF I64, TypeOK
      <4>2. s.pruned = pushed
        BY <2>1, <2>3, <4>1
      <4> QED
        BY <1>1, <4>2, WindowClockAssumption DEF TypeOK, Never
    <3> QED
      BY <3>4, <3>5
  <2>4. CASE r.pruned # Never
    BY <2>1, <2>4
  <2>5. CASE pushed - r.at >= ReplayMax
    BY <2>1, <2>5
  <2> QED
    BY <2>3, <2>4, <2>5 DEF IInv, Remembers
<1> QED
  BY <1>2, <1>3, <1>4, <1>5, <1>6

-----------------------------------------------------------------------------
(* An empty window satisfies the invariant. *)
LEMMA InitOK == Init => IInv
<1> SUFFICES ASSUME Init PROVE IInv
  OBVIOUS
<1>1. pushed \in 0..MaxPushes
  BY WindowClockAssumption DEF Init
<1>2. TypeOK
  BY <1>1, Zenon DEF Init, TypeOK
<1>3. entries = {} /\ log = {}
  BY DEF Init
<1> QED
  BY <1>2, <1>3
     DEF IInv, Stamped, PrunedLater, Remembers, AdmittedInTime, ReplayNeedsSetBack

(* A step that only prunes. *)
LEMMA PruneOK ==
  ASSUME IInv, entries' = Kept, log' = Noted, UNCHANGED <<now, pushed, panicked>>
  PROVE  IInv'
<1>1. TypeOK'
  BY NotedInv DEF IInv, TypeOK, Kept
<1>2. Stamped(entries, pushed)'
  BY DEF IInv, Stamped, Kept
<1>3. PrunedLater'
  BY NotedInv DEF PrunedLater
<1>4. Remembers'
  BY NotedInv DEF Remembers, Entry
<1>5. AdmittedInTime'
  BY NotedInv DEF AdmittedInTime, InWindow
<1>6. ReplayNeedsSetBack'
  BY NotedInv DEF ReplayNeedsSetBack
<1> QED
  BY <1>1, <1>2, <1>3, <1>4, <1>5, <1>6 DEF IInv

(* A packet that was remembered would have been seen; one that is not was  *)
(* crowded out or pruned.                                                  *)
LEMMA AdmitOK ==
  ASSUME IInv, NEW ts \in I64, NEW nonce \in Nonces, Admit(ts, nonce)
  PROVE  IInv'
<1> DEFINE new == [ts |-> ts, nonce |-> nonce, at |-> pushed + 1, clock |-> now,
                   pruned |-> Never]
<1>1. /\ TypeOK /\ Stamped(entries, pushed) /\ pushed \in Nat /\ now \in 0..MaxClock
      /\ pushed < MaxPushes /\ pushed' = pushed + 1
      /\ log' = Noted \cup {new}
      /\ entries' = ReplayAdd(Kept, ReplayMax, ts, nonce, pushed + 1)
  BY WindowClockAssumption DEF IInv, TypeOK, Admit
<1>2. Stamped(Kept, pushed)
  BY <1>1 DEF Stamped, Kept
<1>3. Stamped(entries, pushed)'
  BY <1>1, <1>2, AddStamped
<1>4. TypeOK'
  <2>1. entries' \subseteq [ts : I64, nonce : Nonces, at : 1..(pushed + 1)]
    BY <1>1 DEF ReplayAdd, Newest, Kept, TypeOK
  <2>2. new \in [ts : I64, nonce : Nonces, at : 1..(pushed + 1), clock : 0..MaxClock,
                 pruned : 0..Never]
    BY <1>1, WindowClockAssumption DEF Never
  <2>3. Noted \subseteq [ts : I64, nonce : Nonces, at : 1..(pushed + 1), clock : 0..MaxClock,
                         pruned : 0..Never]
    BY <1>1, NotedInv
  <2>4. pushed' \in 0..MaxPushes
    BY <1>1, WindowClockAssumption
  <2>5. panicked' \in BOOLEAN /\ now' \in 0..MaxClock
    BY <1>1 DEF TypeOK, Admit
  <2>6. log' \subseteq [ts : I64, nonce : Nonces, at : 1..pushed', clock : 0..MaxClock,
                        pruned : 0..Never]
    BY <1>1, <2>2, <2>3
  <2>7. entries' \subseteq [ts : I64, nonce : Nonces, at : 1..pushed']
    BY <1>1, <2>1
  <2> QED
    BY <2>4, <2>5, <2>6, <2>7, Zenon DEF TypeOK, Never
<1>5. PrunedLater'
  BY <1>1, NotedInv, WindowClockAssumption DEF PrunedLater
<1>6. AdmittedInTime'
  <2>1. InWindow(Window, now, ts) \/ now - ts = Half
    BY <1>1, OverflowChangesOneVerdict DEF Admit
  <2> QED
    BY <1>1, <2>1, NotedInv DEF AdmittedInTime, InWindow
<1>7. Remembers'
  <2> SUFFICES ASSUME NEW r \in log', pushed' - r.at < ReplayMax, r.pruned = Never
               PROVE  Entry(r) \in entries'
    <3>1. \A r \in log' : r.at \in Int /\ pushed' \in Int
      BY <1>1, <1>4 DEF TypeOK
    <3>2. ASSUME NEW r \in log', ~ (pushed' - r.at < ReplayMax)
          PROVE  pushed' - r.at >= ReplayMax
      BY <3>1, <3>2, WindowClockAssumption
    <3> QED
      BY <3>2 DEF Remembers, Entry
  <2>1. CASE r = new
    <3>1. Entry(r) = [ts |-> ts, nonce |-> nonce, at |-> pushed + 1]
      BY <2>1 DEF Entry
    <3>2. (pushed + 1) - Entry(r).at < ReplayMax
      BY <1>1, <2>1, <3>1
    <3> QED
      BY <1>1, <1>2, <3>1, <3>2, AddKeeps, WindowClockAssumption
  <2>2. CASE r \in Noted
    <3>1. r.at \in 1..pushed
      BY <2>2, NotedInv
    <3>2. Entry(r) \in Kept
      BY <1>1, <2>2, <3>1, NotedInv, WindowClockAssumption
    <3>3. (pushed + 1) - Entry(r).at < ReplayMax
      BY <1>1 DEF Entry
    <3> QED
      BY <1>1, <1>2, <3>2, <3>3, AddKeeps, WindowClockAssumption
  <2> QED
    BY <1>1, <2>1, <2>2
<1>8. ReplayNeedsSetBack'
  <2> SUFFICES ASSUME NEW r1 \in log', NEW r2 \in log',
                      r1.ts = r2.ts, r1.nonce = r2.nonce, r1.at < r2.at
               PROVE  r2.at - r1.at > ReplayMax \/ r1.pruned < r2.at
    BY DEF ReplayNeedsSetBack
  <2>1. CASE r1 \in Noted /\ r2 \in Noted
    BY <2>1, NotedInv
  <2>2. CASE r1 \in Noted /\ r2 = new
    <3>1. Entry(r1) \notin Kept
      BY <2>2 DEF Admit, Seen, Entry
    <3>2. r1.at \in 1..pushed /\ r1.pruned \in 0..Never
      BY <2>2, NotedInv
    <3>3. pushed - r1.at >= ReplayMax \/ r1.pruned <= pushed
      BY <2>2, <3>1, NotedInv
    <3> QED
      BY <1>1, <2>2, <3>2, <3>3, WindowClockAssumption DEF Never
  <2>3. CASE r1 = new
    <3>1. r2.at <= pushed + 1
      BY <1>1, NotedInv
    <3> QED
      BY <1>1, <1>4, <2>3, <3>1 DEF TypeOK
  <2> QED
    BY <1>1, <2>1, <2>2, <2>3
<1> QED
  BY <1>3, <1>4, <1>5, <1>6, <1>7, <1>8 DEF IInv

(* Every step preserves the invariant, wherever the clock goes. *)
LEMMA StepOK == IInv /\ [Next]_vars => IInv'
<1> SUFFICES ASSUME IInv, [Next]_vars PROVE IInv'
  OBVIOUS
<1>1. ASSUME NEW ts \in I64, NEW nonce \in Nonces, Refuse(ts, nonce) PROVE IInv'
  <2>1. CASE UNCHANGED <<entries, log>>
    BY <1>1, <2>1
       DEF Refuse, IInv, TypeOK, Stamped, PrunedLater, Remembers, Entry, AdmittedInTime,
           InWindow, ReplayNeedsSetBack
  <2>2. CASE entries' = Kept /\ log' = Noted
    BY <1>1, <2>2, PruneOK DEF Refuse
  <2> QED
    BY <1>1, <2>1, <2>2 DEF Refuse
<1>2. ASSUME NEW ts \in I64, NEW nonce \in Nonces, Unauthentic(ts, nonce) PROVE IInv'
  BY <1>2, PruneOK DEF Unauthentic
<1>3. ASSUME NEW ts \in I64, NEW nonce \in Nonces, Admit(ts, nonce) PROVE IInv'
  BY <1>3, AdmitOK
<1>4. ASSUME NEW ts \in I64, Panic(ts) PROVE IInv'
  BY <1>4
     DEF Panic, IInv, TypeOK, Stamped, PrunedLater, Remembers, Entry, AdmittedInTime,
         InWindow, ReplayNeedsSetBack
<1>5. ASSUME NEW c \in 0..MaxClock, SetClock(c) PROVE IInv'
  BY <1>5
     DEF SetClock, IInv, TypeOK, Stamped, PrunedLater, Remembers, Entry, AdmittedInTime,
         InWindow, ReplayNeedsSetBack
<1>6. CASE UNCHANGED vars
  BY <1>6
     DEF vars, IInv, TypeOK, Stamped, PrunedLater, Remembers, Entry, AdmittedInTime,
         InWindow, ReplayNeedsSetBack
<1> QED
  BY <1>1, <1>2, <1>3, <1>4, <1>5, <1>6 DEF Next

-----------------------------------------------------------------------------
(* The inductive invariant holds in every reachable state. *)
THEOREM Invariance == Spec => []IInv
BY InitOK, StepOK, PTL DEF Spec

(* The types are right. *)
THEOREM TypeCorrect == Spec => []TypeOK
<1>1. IInv => TypeOK
  BY DEF IInv
<1> QED
  BY <1>1, Invariance, PTL

(* Overflow lets nothing pass that is out of time, but for one timestamp.  *)
THEOREM OverflowIsHarmless == Spec => []AdmittedInTime
<1>1. IInv => AdmittedInTime
  BY DEF IInv
<1> QED
  BY <1>1, Invariance, PTL

(* replay_check passes a packet twice only after it was crowded out, or    *)
(* pruned and the clock set back.                                          *)
THEOREM ReplayProtection == Spec => []ReplayNeedsSetBack
<1>1. IInv => ReplayNeedsSetBack
  BY DEF IInv
<1> QED
  BY <1>1, Invariance, PTL
=============================================================================
