---------------------------- MODULE KtuctlPeers ----------------------------
(***************************************************************************)
(* ktuctl's commands on the maps of the kernel module.  Each command is a  *)
(* handful of netlink transactions, each atomic, with nothing around them: *)
(* tuctl-server starts a ktuctl for every request, so that several run at  *)
(* the same time, and any of them may fail or be killed half way.          *)
(*                                                                         *)
(* A peer of a client is (address, uid).  The ingress map says on which    *)
(* port, and with which xor key, packets of the peer come back; the egress *)
(* map which peer, and which key, packets to (address, port) belong to.    *)
(***************************************************************************)
EXTENDS Integers

CONSTANTS
  Procs,                      \* ktuctl processes, run one after the other
  Addrs, Ports, Uids, Keys,   \* small sets of what commands are given
  Ifaces,                     \* interface names
  Absent                      \* no entry in a map, no command in a process

VARIABLES
  is_server,                  \* kernel: TutuConfig.is_server
  ingress, egress,            \* kernel: the maps of the client mode
  user_info,                  \* kernel: the map of the server mode
  ifnames,                    \* kernel: the managed interfaces
  pc,                         \* which transaction each process does next
  cmd,                        \* the arguments of its command
  todo,                       \* what the dump each process reads will visit
  disturbed,                  \* history: peers that were added and deleted
                              \* at the same time, or deleted after a dump
                              \* that was not complete
  switched                    \* history: processes under which the mode
                              \* was changed since they looked

kernel == <<is_server, ingress, egress, user_info, ifnames>>
vars == <<kernel, pc, cmd, todo, disturbed, switched>>

IngressValue == [port : Ports, key : Keys]
EgressValue == [uid : Uids, key : Keys]
ClientAddCmd == [addr : Addrs, uid : Uids, port : Ports, key : Keys]
ClientDelCmd == [addr : Addrs, uid : Uids, port : Ports \cup {Absent}]
ServerAddCmd == [addr : Addrs, uid : Uids]

ASSUME PeersAssumption ==
  Absent \notin IngressValue \cup EgressValue \cup Ports \cup Addrs

(* The next transaction: UPDATE_INGRESS, UPDATE_EGRESS, GET_EGRESS,        *)
(* DELETE_EGRESS, DELETE_INGRESS or UPDATE_USER_INFO.                      *)
Transaction == {"idle", "add_ingress", "add_egress", "dump", "del_egress",
                "del_ingress", "add_user"}

TypeOK ==
  /\ is_server \in BOOLEAN
  /\ ingress \in [Addrs \X Uids -> IngressValue \cup {Absent}]
  /\ egress \in [Addrs \X Ports -> EgressValue \cup {Absent}]
  /\ user_info \in [Uids -> Addrs \cup {Absent}]
  /\ ifnames \subseteq Ifaces
  /\ pc \in [Procs -> Transaction]
  /\ cmd \in [Procs -> ClientAddCmd \cup ClientDelCmd \cup ServerAddCmd \cup {Absent}]
  /\ \A p \in Procs :
       /\ pc[p] \in {"add_ingress", "add_egress"} => cmd[p] \in ClientAddCmd
       /\ pc[p] \in {"dump", "del_egress", "del_ingress"} => cmd[p] \in ClientDelCmd
       /\ pc[p] = "del_egress" => cmd[p].port \in Ports
       /\ pc[p] = "add_user" => cmd[p] \in ServerAddCmd
  /\ todo \in [Procs -> SUBSET Ports]
  /\ disturbed \subseteq Addrs \X Uids
  /\ switched \subseteq Procs

Init ==
  /\ is_server = FALSE
  /\ ingress = [x \in Addrs \X Uids |-> Absent]
  /\ egress = [x \in Addrs \X Ports |-> Absent]
  /\ user_info = [u \in Uids |-> Absent]
  /\ ifnames = {}
  /\ pc = [p \in Procs |-> "idle"]
  /\ cmd = [p \in Procs |-> Absent]
  /\ todo = [p \in Procs |-> {}]
  /\ disturbed = {}
  /\ switched = {}

Adding(p) == pc[p] \in {"add_ingress", "add_egress"}
Deleting(p) == pc[p] \in {"dump", "del_egress", "del_ingress"}
Peer(p) == <<cmd[p].addr, cmd[p].uid>>

(* A process starts a command with its first transaction. *)
Begin(p, transaction, c) ==
  /\ pc[p] = "idle"
  /\ pc' = [pc EXCEPT ![p] = transaction]
  /\ cmd' = [cmd EXCEPT ![p] = c]
  /\ switched' = switched \ {p}

(* The command goes on to its next transaction, or ends. *)
Goto(p, transaction) ==
  /\ pc' = [pc EXCEPT ![p] = transaction]
  /\ cmd' = IF transaction = "idle" THEN [cmd EXCEPT ![p] = Absent] ELSE cmd

(* History: does a command on peer x meet one of these processes? *)
Meets(x, others) ==
  disturbed' = IF \E q \in others : Peer(q) = x THEN disturbed \cup {x} ELSE disturbed

-----------------------------------------------------------------------------
(* client-add: GET_CONFIG, UPDATE_INGRESS (NOEXIST), UPDATE_EGRESS (ANY).  *)

(* "must be in client mode" otherwise. *)
ClientAdd(p, c) ==
  /\ ~ is_server
  /\ Begin(p, "add_ingress", c)
  /\ Meets(<<c.addr, c.uid>>, {q \in Procs : Deleting(q)})
  /\ UNCHANGED <<kernel, todo>>

(* Mutant: the update of the ingress map may overwrite (TUTU_ANY). *)
UpdateIngressAny(p) ==
  LET c == cmd[p] IN
  /\ pc[p] = "add_ingress"
  /\ ingress' = [ingress EXCEPT ![Peer(p)] = [port |-> c.port, key |-> c.key]]
  /\ Goto(p, "add_egress")
  /\ UNCHANGED <<is_server, egress, user_info, ifnames, todo, disturbed, switched>>

(* Mutant: the egress map is updated first. *)
UpdateEgressFirst(p) ==
  LET c == cmd[p] IN
  /\ pc[p] = "add_ingress"
  /\ egress' = [egress EXCEPT ![<<c.addr, c.port>>] = [uid |-> c.uid, key |-> c.key]]
  /\ Goto(p, "add_egress")
  /\ UNCHANGED <<is_server, ingress, user_info, ifnames, todo, disturbed, switched>>

(* "ingress update failed" ends the command. *)
UpdateIngress(p) ==
  LET c == cmd[p] IN
  /\ pc[p] = "add_ingress"
  /\ \/ /\ ingress[Peer(p)] = Absent
        /\ ingress' = [ingress EXCEPT ![Peer(p)] = [port |-> c.port, key |-> c.key]]
        /\ Goto(p, "add_egress")
     \/ /\ ingress[Peer(p)] # Absent
        /\ Goto(p, "idle")
        /\ UNCHANGED ingress
  /\ UNCHANGED <<is_server, egress, user_info, ifnames, todo, disturbed, switched>>

UpdateEgress(p) ==
  LET c == cmd[p] IN
  /\ pc[p] = "add_egress"
  /\ egress' = [egress EXCEPT ![<<c.addr, c.port>>] = [uid |-> c.uid, key |-> c.key]]
  /\ Goto(p, "idle")
  /\ UNCHANGED <<is_server, ingress, user_info, ifnames, todo, disturbed, switched>>

-----------------------------------------------------------------------------
(* client-del: a dump of the egress map, DELETE_EGRESS of the last entry   *)
(* found in it, DELETE_INGRESS.  The dump comes in pieces and in any       *)
(* order: it is no snapshot, each entry is shown as it is when visited.    *)

Found(a, u) == {port \in Ports : egress[<<a, port>>] # Absent /\ egress[<<a, port>>].uid = u}

ClientDel(p, a, u) ==
  /\ Begin(p, "dump", [addr |-> a, uid |-> u, port |-> Absent])
  /\ todo' = [todo EXCEPT ![p] = Ports]
  /\ Meets(<<a, u>>, {q \in Procs : Adding(q)})
  /\ UNCHANGED kernel

(* The closure that keeps the last entry of the peer. *)
DumpEntry(p, port) ==
  /\ pc[p] = "dump"
  /\ port \in todo[p]
  /\ todo' = [todo EXCEPT ![p] = @ \ {port}]
  /\ cmd' = IF port \in Found(cmd[p].addr, cmd[p].uid)
            THEN [cmd EXCEPT ![p] = [@ EXCEPT !.port = port]]
            ELSE cmd
  /\ UNCHANGED <<kernel, pc, disturbed, switched>>

(* Mutant: the dump is trusted to have shown an entry. *)
DumpDoneUnfound(p) ==
  /\ pc[p] = "dump"
  /\ todo[p] = {}
  /\ Goto(p, "del_egress")
  /\ UNCHANGED <<kernel, todo, disturbed, switched>>

AfterDump(p) == IF cmd[p].port = Absent THEN "del_ingress" ELSE "del_egress"

(* NLMSG_DONE after all entries. *)
DumpDone(p) ==
  /\ pc[p] = "dump"
  /\ todo[p] = {}
  /\ Goto(p, AfterDump(p))
  /\ UNCHANGED <<kernel, todo, disturbed, switched>>

(* The kernel gives up in the middle of the dump: the error it puts into   *)
(* NLMSG_DONE is not looked at, and the dump taken for a complete one.     *)
DumpCutShort(p) ==
  /\ pc[p] = "dump"
  /\ todo[p] # {}
  /\ todo' = [todo EXCEPT ![p] = {}]
  /\ disturbed' = disturbed \cup {Peer(p)}
  /\ Goto(p, AfterDump(p))
  /\ UNCHANGED <<kernel, switched>>

(* An entry that is gone is an error, and ends the command. *)
DeleteEgress(p) ==
  LET key == <<cmd[p].addr, cmd[p].port>> IN
  /\ pc[p] = "del_egress"
  /\ egress' = [egress EXCEPT ![key] = Absent]
  /\ Goto(p, IF egress[key] = Absent THEN "idle" ELSE "del_ingress")
  /\ UNCHANGED <<is_server, ingress, user_info, ifnames, todo, disturbed, switched>>

(* Whether there was an entry makes no difference. *)
DeleteIngress(p) ==
  /\ pc[p] = "del_ingress"
  /\ ingress' = [ingress EXCEPT ![Peer(p)] = Absent]
  /\ Goto(p, "idle")
  /\ UNCHANGED <<is_server, egress, user_info, ifnames, todo, disturbed, switched>>

-----------------------------------------------------------------------------
(* server-add: GET_CONFIG, UPDATE_USER_INFO.  server-del: one transaction. *)

(* Mutant: the mode is not looked at. *)
ServerAddAnyMode(p, c) ==
  /\ Begin(p, "add_user", c)
  /\ UNCHANGED <<kernel, todo, disturbed>>

(* "must be in server mode" otherwise. *)
ServerAdd(p, c) ==
  /\ is_server
  /\ Begin(p, "add_user", c)
  /\ UNCHANGED <<kernel, todo, disturbed>>

UpdateUserInfo(p) ==
  /\ pc[p] = "add_user"
  /\ user_info' = [user_info EXCEPT ![cmd[p].uid] = cmd[p].addr]
  /\ Goto(p, "idle")
  /\ UNCHANGED <<is_server, ingress, egress, ifnames, todo, disturbed, switched>>

ServerDel(p, u) ==
  /\ pc[p] = "idle"
  /\ user_info' = [user_info EXCEPT ![u] = Absent]
  /\ UNCHANGED <<is_server, ingress, egress, ifnames, pc, cmd, todo, disturbed, switched>>

(* server and client: SET_CONFIG.  The maps are left as they are. *)
SetMode(p, server) ==
  /\ pc[p] = "idle"
  /\ is_server' = server
  /\ switched' = IF server = is_server THEN switched
                 ELSE switched \cup {q \in Procs : pc[q] # "idle"}
  /\ UNCHANGED <<ingress, egress, user_info, ifnames, pc, cmd, todo, disturbed>>

(* load iface, unload iface *)
Load(p, i) ==
  /\ pc[p] = "idle"
  /\ ifnames' = ifnames \cup {i}
  /\ UNCHANGED <<is_server, ingress, egress, user_info, pc, cmd, todo, disturbed, switched>>

Unload(p, i) ==
  /\ pc[p] = "idle"
  /\ ifnames' = ifnames \ {i}
  /\ UNCHANGED <<is_server, ingress, egress, user_info, pc, cmd, todo, disturbed, switched>>

(* A transaction fails for any other reason, or the process is killed.     *)
(* What was done stays done.                                               *)
Abort(p) ==
  /\ pc[p] # "idle"
  /\ Goto(p, "idle")
  /\ todo' = [todo EXCEPT ![p] = {}]
  /\ UNCHANGED <<kernel, disturbed, switched>>

Step(p) ==
  \/ \E c \in ClientAddCmd : ClientAdd(p, c)
  \/ UpdateIngress(p) \/ UpdateEgress(p)
  \/ \E a \in Addrs, u \in Uids : ClientDel(p, a, u)
  \/ \E port \in Ports : DumpEntry(p, port)
  \/ DumpDone(p) \/ DumpCutShort(p)
  \/ DeleteEgress(p) \/ DeleteIngress(p)
  \/ \E c \in ServerAddCmd : ServerAdd(p, c)
  \/ UpdateUserInfo(p)
  \/ \E u \in Uids : ServerDel(p, u)
  \/ \E server \in BOOLEAN : SetMode(p, server)
  \/ \E i \in Ifaces : Load(p, i) \/ Unload(p, i)
  \/ Abort(p)

Next == \E p \in Procs : Step(p)

Spec == Init /\ [][Next]_vars
-----------------------------------------------------------------------------
(* Every egress entry has its way back: packets that the client sends to a *)
(* peer are answered on the port and with the key the ingress entry names. *)
(* Aborted commands do not break this (client-add writes ingress first,    *)
(* client-del removes it last); a client-del that overlaps a client-add of *)
(* the same peer, or that believed an incomplete dump, can.                *)
EgressBacked ==
  \A a \in Addrs, port \in Ports :
    LET e == egress[<<a, port>>] IN
    e # Absent =>
      \/ ingress[<<a, e.uid>>] = [port |-> port, key |-> e.key]
      \/ <<a, e.uid>> \in disturbed

(* client-del deletes one egress entry and relies on there being no other: *)
(* when it has deleted the ingress entry, nothing is sent to the peer any  *)
(* more, although the dump was taken while other processes changed the     *)
(* map, unless the same peer was being added meanwhile or the kernel did   *)
(* not finish the dump.                                                    *)
DeleteIsComplete ==
  [][\A p \in Procs : DeleteIngress(p) =>
       Found(cmd[p].addr, cmd[p].uid) = {} \/ Peer(p) \in disturbed]_vars

(* A command that needs a mode acts in that mode, unless another process   *)
(* changed the mode after it looked.                                       *)
ModeHolds ==
  \A p \in Procs \ switched :
    /\ Adding(p) => ~ is_server
    /\ pc[p] = "add_user" => is_server
=============================================================================
