------------------------------ MODULE Netlink ------------------------------
(***************************************************************************)
(* ktuctl's netlink calls: send_struct and send_string (add, del),         *)
(* receive_struct (get), dump_structs (dump) and dump_strings (list).      *)
(* Every call opens a socket of its own, asks for the number of the family *)
(* with sequence number 1, sends its request with sequence number 2, and   *)
(* reads messages until one of them ends the call.                         *)
(*                                                                         *)
(* The kernel is external.  It handles a request while it is being sent;   *)
(* a dump goes on while the caller reads, and the map may change under it. *)
(***************************************************************************)
EXTENDS Integers, Sequences

CONSTANTS
  Callers,                    \* ktuctl processes
  Items,                      \* what may be in the kernel's map
  NoItem,                     \* a message without an item
  InboxBound,                 \* messages the kernel queues for a caller
  StrayBound                  \* messages of a call that are not for it

VARIABLES
  store,                      \* kernel: the items in the map
  layout,                     \* kernel: its structures are as long as ours
  asked,                      \* kernel: the request on each caller's socket
  walk,                       \* kernel: what a dump has not visited yet
  inbox,                      \* messages each caller has not read yet
  call,                       \* what each caller asks for
  pc,                         \* which reply it reads, or how it ended
  shown,                      \* the items it was given
  strays,                     \* messages that were not for the call
  effect,                     \* history: what became of the request
  always, ever,               \* history: items in the map during a read
  cut                         \* history: callers whose dump was given up

kernel == <<store, layout, asked, walk, always, ever, effect, cut>>
caller == <<call, pc, shown>>
vars == <<kernel, caller, inbox, strays>>

NoCall == [op |-> "none"]
Updates == [op : {"add", "del"}, item : Items]
Reads == [op : {"get"}, item : Items] \cup [op : {"dump", "list"}]
Calls == Updates \cup Reads

(* NLMSG_ERROR without and with an errno, NLMSG_DONE (whose errno nobody   *)
(* looks at) and the messages of the families.                             *)
Message == [seq : 0..2, type : {"ack", "error", "done", "data"}, item : Items \cup {NoItem}]

ASSUME NetlinkAssumption ==
  /\ NoItem \notin Items
  /\ InboxBound \in Nat \ {0} /\ StrayBound \in Nat

TypeOK ==
  /\ store \subseteq Items
  /\ layout \in {"same", "shorter"}
  /\ asked \in [Callers -> {"nothing", "family", "request", "dump"}]
  /\ walk \in [Callers -> SUBSET Items]
  /\ inbox \in [Callers -> Seq(Message)]
  /\ call \in [Callers -> Calls \cup {NoCall}]
  /\ pc \in [Callers -> {"idle", "family", "reply", "ok", "refused", "failed"}]
  /\ \A p \in Callers : call[p] = NoCall <=> pc[p] = "idle"
  /\ shown \in [Callers -> SUBSET Items]
  /\ strays \in [Callers -> 0..StrayBound]
  /\ effect \in [Callers -> {"none", "applied", "refused"}]
  /\ always \in [Callers -> SUBSET Items]
  /\ ever \in [Callers -> SUBSET Items]
  /\ cut \subseteq Callers

Init ==
  /\ store = {}
  /\ layout \in {"same", "shorter"}
  /\ asked = [p \in Callers |-> "nothing"]
  /\ walk = [p \in Callers |-> {}]
  /\ inbox = [p \in Callers |-> <<>>]
  /\ call = [p \in Callers |-> NoCall]
  /\ pc = [p \in Callers |-> "idle"]
  /\ shown = [p \in Callers |-> {}]
  /\ strays = [p \in Callers |-> 0]
  /\ effect = [p \in Callers |-> "none"]
  /\ always = [p \in Callers |-> {}]
  /\ ever = [p \in Callers |-> {}]
  /\ cut = {}

-----------------------------------------------------------------------------
(* The kernel.  The answers to a request carry its sequence number.        *)

Reading(p) == pc[p] \in {"family", "reply"}

Looking(p) == Reading(p) /\ call[p] \in Reads

Seqno(p) == IF asked[p] = "family" THEN 1 ELSE 2

Reply(p, type, item) ==
  inbox' = [inbox EXCEPT ![p] =
              Append(@, [seq |-> Seqno(p), type |-> type, item |-> item])]

Settled(p, what) ==
  /\ asked' = [asked EXCEPT ![p] = "nothing"]
  /\ effect' = [effect EXCEPT ![p] = what]

(* History: the map changed for everyone who is reading it. *)
Store(items) ==
  /\ store' = items
  /\ always' = [q \in Callers |-> IF Looking(q) THEN always[q] \cap items ELSE always[q]]
  /\ ever' = [q \in Callers |-> IF Looking(q) THEN ever[q] \cup items ELSE ever[q]]

NameFamily(p) ==
  /\ asked[p] = "family"
  /\ Reply(p, "data", NoItem)
  /\ Settled(p, "none")
  /\ UNCHANGED <<store, layout, walk, always, ever, cut, caller, strays>>

Apply(p) ==
  /\ asked[p] = "request"
  /\ \/ call[p].op = "add" /\ call[p].item \notin store /\ Store(store \cup {call[p].item})
     \/ call[p].op = "del" /\ call[p].item \in store /\ Store(store \ {call[p].item})
  /\ Reply(p, "ack", NoItem)
  /\ Settled(p, "applied")
  /\ UNCHANGED <<layout, walk, cut, caller, strays>>

(* The module is not loaded, the item is there already, or is not there,   *)
(* or there is no permission or no memory.                                 *)
Refuse(p) ==
  /\ asked[p] \in {"family", "request"}
  /\ Reply(p, "error", NoItem)
  /\ Settled(p, "refused")
  /\ UNCHANGED <<store, layout, walk, always, ever, cut, caller, strays>>

(* The configuration, for one: an item that is there or is not there. *)
AnswerGet(p) ==
  /\ asked[p] = "request"
  /\ call[p].op = "get"
  /\ Reply(p, "data", IF call[p].item \in store THEN call[p].item ELSE NoItem)
  /\ Settled(p, "none")
  /\ UNCHANGED <<store, layout, walk, always, ever, cut, caller, strays>>

(* NLMSG_DONE instead of an answer. *)
AnswerNothing(p) ==
  /\ asked[p] = "family" \/ (asked[p] = "request" /\ call[p].op = "get")
  /\ Reply(p, "done", NoItem)
  /\ Settled(p, "none")
  /\ UNCHANGED <<store, layout, walk, always, ever, cut, caller, strays>>

StartDump(p) ==
  /\ asked[p] = "request"
  /\ call[p].op \in {"dump", "list"}
  /\ asked' = [asked EXCEPT ![p] = "dump"]
  /\ walk' = [walk EXCEPT ![p] = Items]
  /\ UNCHANGED <<store, layout, always, ever, effect, cut, caller, inbox, strays>>

(* The order of a dump is not specified. *)
Visit(p, x) ==
  /\ asked[p] = "dump"
  /\ x \in walk[p]
  /\ walk' = [walk EXCEPT ![p] = @ \ {x}]
  /\ \/ x \in store /\ Len(inbox[p]) < InboxBound /\ Reply(p, "data", x)
     \/ x \notin store /\ UNCHANGED inbox
  /\ UNCHANGED <<store, layout, asked, always, ever, effect, cut, caller, strays>>

FinishDump(p) ==
  /\ asked[p] = "dump"
  /\ walk[p] = {}
  /\ Len(inbox[p]) < InboxBound
  /\ Reply(p, "done", NoItem)
  /\ Settled(p, "none")
  /\ UNCHANGED <<store, layout, walk, always, ever, cut, caller, strays>>

(* NLMSG_DONE with an errno. *)
AbandonDump(p) ==
  /\ asked[p] = "dump"
  /\ walk[p] # {}
  /\ Len(inbox[p]) < InboxBound
  /\ Reply(p, "done", NoItem)
  /\ Settled(p, "none")
  /\ walk' = [walk EXCEPT ![p] = {}]
  /\ cut' = cut \cup {p}
  /\ UNCHANGED <<store, layout, always, ever, caller, strays>>

(* A message that answers no request of this socket, or an acknowledgement *)
(* of the family lookup or of a read, which asked for none.                *)
Stray(p, seq, type) ==
  /\ Reading(p)
  /\ \/ seq = 0 /\ type \in {"ack", "done"}
     \/ seq = 1 /\ type = "ack" /\ pc[p] = "family"
     \/ seq = 2 /\ type = "ack" /\ pc[p] = "reply" /\ call[p] \in Reads
  /\ strays[p] < StrayBound
  /\ Len(inbox[p]) < InboxBound
  /\ strays' = [strays EXCEPT ![p] = @ + 1]
  /\ inbox' = [inbox EXCEPT ![p] = Append(@, [seq |-> seq, type |-> type, item |-> NoItem])]
  /\ UNCHANGED <<kernel, caller>>

-----------------------------------------------------------------------------
(* The caller. *)

Connect(p, c) ==
  /\ pc[p] = "idle"
  /\ call' = [call EXCEPT ![p] = c]
  /\ pc' = [pc EXCEPT ![p] = "family"]
  /\ asked' = [asked EXCEPT ![p] = "family"]
  /\ always' = [always EXCEPT ![p] = IF c \in Reads THEN store ELSE {}]
  /\ ever' = [ever EXCEPT ![p] = IF c \in Reads THEN store ELSE {}]
  /\ UNCHANGED <<store, layout, walk, effect, cut, shown, inbox, strays>>

Expected(p) == IF pc[p] = "family" THEN 1 ELSE 2

(* Mutant: whatever comes is taken for the answer. *)
OursAny(p) == TRUE

Ours(p) == Head(inbox[p]).seq = Expected(p)

(* The next message, if it has the right sequence number. *)
Receive(p, type) ==
  /\ Reading(p) /\ inbox[p] # <<>> /\ Ours(p)
  /\ Head(inbox[p]).type = type
  /\ UNCHANGED <<store, layout, always, ever, effect, cut>>

GoOn(p) ==
  /\ inbox' = [inbox EXCEPT ![p] = Tail(@)]
  /\ UNCHANGED <<asked, walk, strays, call, pc>>

(* The socket is closed, with everything that is still on its way. *)
End(p, how) ==
  /\ pc' = [pc EXCEPT ![p] = how]
  /\ asked' = [asked EXCEPT ![p] = "nothing"]
  /\ walk' = [walk EXCEPT ![p] = {}]
  /\ inbox' = [inbox EXCEPT ![p] = <<>>]
  /\ strays' = [strays EXCEPT ![p] = 0]
  /\ UNCHANGED call

Skip(p) ==
  /\ Reading(p) /\ inbox[p] # <<>> /\ ~ Ours(p)
  /\ GoOn(p)
  /\ UNCHANGED <<store, layout, always, ever, effect, cut, shown>>

(* The number of the family came: the request is sent. *)
FamilyFound(p) ==
  /\ pc[p] = "family"
  /\ Receive(p, "data")
  /\ pc' = [pc EXCEPT ![p] = "reply"]
  /\ asked' = [asked EXCEPT ![p] = "request"]
  /\ inbox' = [inbox EXCEPT ![p] = Tail(@)]
  /\ UNCHANGED <<walk, strays, call, shown>>

(* Mutant: an update goes on reading, as a dump does. *)
AckedGoesOn(p) ==
  /\ Receive(p, "ack")
  /\ GoOn(p)
  /\ UNCHANGED shown

(* An acknowledgement ends an update; the family lookup and a read pass    *)
(* over one.                                                               *)
Acked(p) ==
  LET awaited == pc[p] = "reply" /\ call[p] \in Updates IN
  /\ Receive(p, "ack")
  /\ \/ awaited /\ End(p, "ok")
     \/ ~ awaited /\ GoOn(p)
  /\ UNCHANGED shown

Refused(p) ==
  /\ Receive(p, "error")
  /\ End(p, "refused")
  /\ UNCHANGED shown

(* The end of a dump, whatever errno it carries; "generic netlink family   *)
(* not found" or "no response" otherwise.                                  *)
Done(p) ==
  /\ Receive(p, "done")
  /\ End(p, IF pc[p] = "reply" /\ call[p].op # "get" THEN "ok" ELSE "failed")
  /\ UNCHANGED shown

(* A structure that is too short ends a get ("received data too small for  *)
(* struct") and is passed over by a dump; strings have any length.         *)
TooShort(p) == layout = "shorter" /\ call[p].op # "list"

Contents(p) == IF TooShort(p) THEN {} ELSE {Head(inbox[p]).item} \ {NoItem}

(* Mutant: a dump is over after its first entry. *)
DataEndsDump(p) ==
  /\ pc[p] = "reply"
  /\ Receive(p, "data")
  /\ shown' = [shown EXCEPT ![p] = @ \cup Contents(p)]
  /\ End(p, IF TooShort(p) THEN "failed" ELSE "ok")

Data(p) ==
  /\ pc[p] = "reply"
  /\ Receive(p, "data")
  /\ shown' = [shown EXCEPT ![p] = @ \cup Contents(p)]
  /\ \/ call[p].op = "get" /\ End(p, IF TooShort(p) THEN "failed" ELSE "ok")
     \/ call[p].op # "get" /\ GoOn(p)

(* recv_from fails, ENOBUFS for one, or the message is not a whole one.    *)
RecvFails(p) ==
  /\ Reading(p)
  /\ asked[p] \in {"nothing", "dump"}
  /\ End(p, "failed")
  /\ UNCHANGED <<store, layout, always, ever, effect, cut, shown>>

(* Mutant: the call is not over. *)
ReturnTwice(p) ==
  /\ pc[p] \in {"ok", "refused", "failed"}
  /\ pc' = [pc EXCEPT ![p] = "idle"]
  /\ UNCHANGED <<kernel, call, shown, inbox, strays>>

(* The call returns to the command. *)
Return(p) ==
  /\ pc[p] \in {"ok", "refused", "failed"}
  /\ call' = [call EXCEPT ![p] = NoCall]
  /\ pc' = [pc EXCEPT ![p] = "idle"]
  /\ shown' = [shown EXCEPT ![p] = {}]
  /\ effect' = [effect EXCEPT ![p] = "none"]
  /\ always' = [always EXCEPT ![p] = {}]
  /\ ever' = [ever EXCEPT ![p] = {}]
  /\ cut' = cut \ {p}
  /\ UNCHANGED <<store, layout, asked, walk, inbox, strays>>

KernelStep(p) ==
  \/ NameFamily(p) \/ Apply(p) \/ Refuse(p) \/ AnswerGet(p) \/ AnswerNothing(p)
  \/ StartDump(p)
  \/ \E x \in Items : Visit(p, x)
  \/ FinishDump(p) \/ AbandonDump(p)

CallerStep(p) ==
  \/ Skip(p) \/ FamilyFound(p) \/ Acked(p) \/ Refused(p) \/ Done(p) \/ Data(p)
  \/ Return(p)

Next ==
  \E p \in Callers :
    \/ \E c \in Calls : Connect(p, c)
    \/ KernelStep(p) \/ CallerStep(p) \/ RecvFails(p)
    \/ \E seq \in 0..2, type \in {"ack", "done"} : Stray(p, seq, type)

Spec == Init /\ [][Next]_vars

(* The kernel answers, and a process that has something to read reads it.  *)
(* Nothing else bounds the wait: the socket has no receive timeout.        *)
Fairness == \A p \in Callers : WF_vars(KernelStep(p)) /\ WF_vars(CallerStep(p))

FairSpec == Spec /\ Fairness
-----------------------------------------------------------------------------
(* What a dump or a get returned was in the map at some moment of the      *)
(* call, and nothing is missing that was there all the time, although      *)
(* other processes change the map between the messages: unless the kernel  *)
(* gave up, which the call does not notice, or has shorter structures,     *)
(* which a dump does not notice either.                                    *)
ReadIsCurrent ==
  \A p \in Callers :
    LET wanted == IF call[p].op = "get" THEN {call[p].item} ELSE Items IN
    pc[p] = "ok" /\ call[p] \in Reads =>
      /\ shown[p] \subseteq ever[p]
      /\ p \in cut \/ TooShort(p) \/ always[p] \cap wanted \subseteq shown[p]

(* A call happens in one step or not at all, and its result says which:    *)
(* success of send_struct and send_string means that the kernel has done   *)
(* it, an errno that it has not.                                           *)
Atomic == INSTANCE AtomicCalls WITH
  stage <- [p \in Callers |-> IF Reading(p)
                              THEN IF effect[p] = "applied" THEN "applied" ELSE "open"
                              ELSE pc[p]]

CallsAreAtomic == Atomic!AtomicSpec

(* Every call returns, also when messages come that are not for it, when   *)
(* the kernel gives up a dump and when it refuses.                         *)
CallsReturn == \A p \in Callers : Reading(p) ~> pc[p] = "idle"
=============================================================================
