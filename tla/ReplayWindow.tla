---------------------------- MODULE ReplayWindow ----------------------------
(***************************************************************************)
(* The replay window kept by tuctl-server and by tuctl-client              *)
(* (struct ReplayWindow in both main.rs files).                            *)
(*                                                                         *)
(* The VecDeque of entries is a set of records [ts, nonce, at]: `at` is    *)
(* the number of the replay_add call that pushed the entry, so that the    *)
(* front of the deque is the entry with the smallest `at`.                 *)
(*                                                                         *)
(* Timestamps are mathematical integers: every timestamp a clock produces  *)
(* is a non-negative i64 (current_unix_time clamps at 0), and for those    *)
(* neither `now - ts` nor `e.ts + window` leaves the range of i64.         *)
(***************************************************************************)
EXTENDS Integers, FiniteSets

Abs(x) == IF x < 0 THEN -x ELSE x

(* The test that opens replay_check. *)
InWindow(window, now, ts) == Abs(now - ts) <= window

(* entries.retain(|e| e.ts + window >= now) *)
Retain(entries, window, now) == {e \in entries : e.ts + window >= now}

(* The loop over the entries: is this very packet remembered? *)
Seen(entries, ts, nonce) == \E e \in entries : e.ts = ts /\ e.nonce = nonce

(* The verdict of replay_check. *)
ReplayCheck(entries, window, now, ts, nonce) ==
  /\ InWindow(window, now, ts)
  /\ ~ Seen(Retain(entries, window, now), ts, nonce)

(* The entries replay_check leaves behind: a packet outside the window     *)
(* returns before the pruning.                                             *)
AfterCheck(entries, window, now, ts) ==
  IF InWindow(window, now, ts) THEN Retain(entries, window, now) ELSE entries

(* Mutant: the loop stops one entry too early. *)
NewestAndOne(entries, max_size) ==
  {e \in entries : Cardinality({f \in entries : f.at > e.at}) <= max_size}

(* while entries.len() > max_size { entries.pop_front() } *)
Newest(entries, max_size) ==
  {e \in entries : Cardinality({f \in entries : f.at > e.at}) < max_size}

(* replay_add: push_back, then pop_front down to max_size. *)
ReplayAdd(entries, max_size, ts, nonce, at) ==
  Newest(entries \cup {[ts |-> ts, nonce |-> nonce, at |-> at]}, max_size)
=============================================================================
