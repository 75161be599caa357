---------------------------- MODULE WindowClock ----------------------------
(***************************************************************************)
(* The replay window of tuctl-client and tuctl-server under a wall clock   *)
(* that may be set, forward or back, between any two packets, and with     *)
(* the arithmetic of i64 on timestamps that no clock has produced: they    *)
(* are read from the packet, and the client judges them before it has      *)
(* authenticated the packet.  A build without overflow checks wraps, one   *)
(* with them panics.  Integers are those of -Half..Half - 1.               *)
(*                                                                         *)
(* The client's order of things is the more general one: the server judges *)
(* no packet that is not authentic.                                        *)
(***************************************************************************)
EXTENDS ReplayWindow

CONSTANTS
  Half,           \* 2^63
  Window,         \* the window, in seconds
  ReplayMax,      \* the size of the window, in entries
  MaxClock,       \* the latest time the clock can show
  Nonces,         \* the nonces
  MaxPushes       \* bound on the packets admitted

I64 == (-Half)..(Half - 1)

(* No clock comes near the end of i64. *)
ASSUME WindowClockAssumption ==
  /\ Half \in Nat /\ Window \in Nat /\ ReplayMax \in Nat /\ MaxClock \in Nat
  /\ MaxPushes \in Nat
  /\ MaxClock + 2 * Window < Half

VARIABLES
  now,            \* the wall clock
  entries,        \* ReplayWindow.entries
  pushed,         \* number of calls of replay_add so far
  panicked,       \* an overflow check has ended the process
  log             \* history: the packets admitted, when, and when each was
                  \* pruned, as the number of packets admitted until then

vars == <<now, entries, pushed, panicked, log>>

Never == MaxPushes + 1

TypeOK ==
  /\ now \in 0..MaxClock
  /\ entries \subseteq [ts : I64, nonce : Nonces, at : 1..pushed]
  /\ pushed \in 0..MaxPushes
  /\ panicked \in BOOLEAN
  /\ log \subseteq [ts : I64, nonce : Nonces, at : 1..pushed, clock : 0..MaxClock,
                   pruned : 0..Never]

Init ==
  /\ now \in 0..MaxClock
  /\ entries = {} /\ pushed = 0 /\ panicked = FALSE
  /\ log = {}

-----------------------------------------------------------------------------
(* The sum or difference of two integers, as wrapping arithmetic has it. *)
Wrap(x) == CASE x >= Half -> x - 2 * Half
             [] x < -Half -> x + 2 * Half
             [] OTHER -> x

(* i64::abs of the least integer is the least integer. *)
WrappingAbs(x) == IF x = -Half THEN x ELSE Abs(x)

(* Mutant: the difference is not made positive. *)
PassesSigned(ts) == Wrap(now - ts) <= Window

(* (now - ts).abs() > window does not hold *)
Passes(ts) == WrappingAbs(Wrap(now - ts)) <= Window

Overflows(ts) == now - ts \notin I64

(* Mutant: an entry is dropped as soon as its second is over. *)
KeptShort == {e \in entries : Wrap(e.ts) >= now}

(* entries.retain(|e| e.ts + window >= now) *)
Kept == {e \in entries : Wrap(e.ts + Window) >= now}

(* History: the packets whose window is over by the clock of this moment.  *)
Noted ==
  {[r EXCEPT !.pruned = IF @ = Never /\ now > r.ts + Window THEN pushed ELSE @] : r \in log}

(* replay_check refuses the packet: too old or too new, or remembered. *)
Refuse(ts, nonce) ==
  /\ ~ panicked
  /\ \/ ~ Passes(ts) /\ UNCHANGED <<entries, log>>
     \/ Passes(ts) /\ Seen(Kept, ts, nonce) /\ entries' = Kept /\ log' = Noted
  /\ UNCHANGED <<now, pushed, panicked>>

(* replay_check passes it, but it is not authentic. *)
Unauthentic(ts, nonce) ==
  /\ ~ panicked
  /\ Passes(ts) /\ ~ Seen(Kept, ts, nonce)
  /\ entries' = Kept /\ log' = Noted
  /\ UNCHANGED <<now, pushed, panicked>>

(* replay_check passes it, it is authentic, and replay_add remembers it. *)
Admit(ts, nonce) ==
  /\ ~ panicked
  /\ pushed < MaxPushes
  /\ Passes(ts) /\ ~ Seen(Kept, ts, nonce)
  /\ pushed' = pushed + 1
  /\ entries' = ReplayAdd(Kept, ReplayMax, ts, nonce, pushed')
  /\ log' = Noted \cup {[ts |-> ts, nonce |-> nonce, at |-> pushed', clock |-> now,
                          pruned |-> Never]}
  /\ UNCHANGED <<now, panicked>>

(* A debug build: "attempt to subtract with overflow". *)
Panic(ts) ==
  /\ ~ panicked
  /\ Overflows(ts)
  /\ panicked' = TRUE
  /\ UNCHANGED <<now, entries, pushed, log>>

(* Time passes, or someone sets the clock. *)
SetClock(c) == now' = c /\ UNCHANGED <<entries, pushed, panicked, log>>

Next ==
  \/ \E ts \in I64, nonce \in Nonces :
       Refuse(ts, nonce) \/ Unauthentic(ts, nonce) \/ Admit(ts, nonce)
  \/ \E ts \in I64 : Panic(ts)
  \/ \E c \in 0..MaxClock : SetClock(c)

Spec == Init /\ [][Next]_vars
-----------------------------------------------------------------------------
(* What replay_check lets pass was sealed within the window of the clock   *)
(* at that moment, in spite of the overflow of now - ts: but for one       *)
(* timestamp, exactly 2^63 seconds ago, whose distance has no absolute     *)
(* value in i64.                                                           *)
AdmittedInTime ==
  \A r \in log : InWindow(Window, r.clock, r.ts) \/ r.clock - r.ts = Half

(* A packet that is admitted twice had been forgotten: ReplayMax others    *)
(* came after it, or the clock had gone beyond its window, a packet had    *)
(* made replay_check prune, and then the clock was set back.  Timestamps   *)
(* of foreign packets, authentic or not, never make the window forget.     *)
ReplayNeedsSetBack ==
  \A r1, r2 \in log :
    r1.ts = r2.ts /\ r1.nonce = r2.nonce /\ r1.at < r2.at =>
      r2.at - r1.at > ReplayMax \/ r1.pruned < r2.at
=============================================================================
