---------------------------- MODULE AtomicCalls ----------------------------
(***************************************************************************)
(* What the commands of ktuctl take for granted of a netlink call: between *)
(* its beginning and its end an update happens in one step or not at all;  *)
(* success means that it happened, an errno that it did not.  KtuctlPeers  *)
(* is written on top of this.                                              *)
(***************************************************************************)
CONSTANTS
  Callers,                    \* ktuctl processes
  Items                       \* what may be in the kernel's map

VARIABLES
  store,                      \* the items in the map
  call,                       \* what each caller asks for
  stage                       \* how far it has come

NoCall == [op |-> "none"]
Updates == [op : {"add", "del"}, item : Items]
Reads == [op : {"get"}, item : Items] \cup [op : {"dump", "list"}]
Calls == Updates \cup Reads

AtomicInit ==
  /\ store = {}
  /\ call = [p \in Callers |-> NoCall]
  /\ stage = [p \in Callers |-> "idle"]

Begin(p, c) ==
  /\ stage[p] = "idle"
  /\ call' = [call EXCEPT ![p] = c]
  /\ stage' = [stage EXCEPT ![p] = "open"]
  /\ UNCHANGED store

(* An item is added once, and only an item that is there is deleted. *)
Effect(p) ==
  /\ stage[p] = "open"
  /\ stage' = [stage EXCEPT ![p] = "applied"]
  /\ \/ /\ call[p].op = "add" /\ call[p].item \notin store
        /\ store' = store \cup {call[p].item}
     \/ /\ call[p].op = "del" /\ call[p].item \in store
        /\ store' = store \ {call[p].item}
  /\ UNCHANGED call

Succeed(p) ==
  /\ \/ stage[p] = "applied"
     \/ stage[p] = "open" /\ call[p] \in Reads
  /\ stage' = [stage EXCEPT ![p] = "ok"]
  /\ UNCHANGED <<store, call>>

(* The kernel's refusal means that nothing happened. *)
Refuse(p) ==
  /\ stage[p] = "open"
  /\ stage' = [stage EXCEPT ![p] = "refused"]
  /\ UNCHANGED <<store, call>>

(* Any other failure may come too late to keep an update from happening.   *)
Fail(p) ==
  /\ stage[p] \in {"open", "applied"}
  /\ stage' = [stage EXCEPT ![p] = "failed"]
  /\ UNCHANGED <<store, call>>

Return(p) ==
  /\ stage[p] \in {"ok", "refused", "failed"}
  /\ call' = [call EXCEPT ![p] = NoCall]
  /\ stage' = [stage EXCEPT ![p] = "idle"]
  /\ UNCHANGED store

AtomicNext ==
  \E p \in Callers :
    \/ \E c \in Calls : Begin(p, c)
    \/ Effect(p) \/ Succeed(p) \/ Refuse(p) \/ Fail(p) \/ Return(p)

AtomicSpec == AtomicInit /\ [][AtomicNext]_<<store, call, stage>>
=============================================================================
