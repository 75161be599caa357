------------------------- MODULE KtuctlPeersProofs -------------------------
(***************************************************************************)
(* The peer maps stay consistent for any number of processes, addresses,   *)
(* ports, users and keys, whatever is aborted, except for peers that were  *)
(* added and deleted at the same time or deleted after half a dump.        *)
(***************************************************************************)
EXTENDS KtuctlPeers, TLAPS

(* Commands on the same peer that meet are known to. *)
MeetingsKnown ==
  \A p, q \in Procs : Adding(p) /\ Deleting(q) /\ Peer(p) = Peer(q) => Peer(p) \in disturbed

(* Half an addition: the way back is there already. *)
HalfAdded ==
  \A p \in Procs : pc[p] = "add_egress" =>
    \/ ingress[Peer(p)] = [port |-> cmd[p].port, key |-> cmd[p].key]
    \/ Peer(p) \in disturbed

(* Half a deletion: entries not found yet are still to be visited; then    *)
(* the entry found is the only one; later, there is none.                  *)
HalfDeleted ==
  \A p \in Procs :
    /\ pc[p] = "dump" =>
         \/ Found(cmd[p].addr, cmd[p].uid) \subseteq todo[p] \cup {cmd[p].port}
         \/ Peer(p) \in disturbed
    /\ pc[p] = "del_egress" =>
         Found(cmd[p].addr, cmd[p].uid) \subseteq {cmd[p].port} \/ Peer(p) \in disturbed
    /\ pc[p] = "del_ingress" =>
         Found(cmd[p].addr, cmd[p].uid) = {} \/ Peer(p) \in disturbed

IInv ==
  /\ TypeOK
  /\ EgressBacked
  /\ MeetingsKnown
  /\ HalfAdded
  /\ HalfDeleted
  /\ ModeHolds

-----------------------------------------------------------------------------
(* All maps are empty and nothing is going on. *)
LEMMA InitOK == Init => IInv
<1> SUFFICES ASSUME Init PROVE IInv
  OBVIOUS
<1>1. TypeOK
  BY DEF Init, TypeOK, Transaction
<1>2. EgressBacked
  BY DEF Init, EgressBacked
<1>3. MeetingsKnown /\ HalfAdded /\ HalfDeleted /\ ModeHolds
  BY DEF Init, MeetingsKnown, HalfAdded, HalfDeleted, ModeHolds, Adding, Deleting
<1> QED
  BY <1>1, <1>2, <1>3 DEF IInv

(* A peer has at most one egress entry: its ingress entry names one port.  *)
LEMMA OneEgress ==
  ASSUME IInv, NEW a \in Addrs, NEW u \in Uids, NEW port \in Found(a, u),
         <<a, u>> \notin disturbed
  PROVE  Found(a, u) \subseteq {port}
<1> SUFFICES ASSUME NEW other \in Found(a, u) PROVE other = port
  OBVIOUS
<1>1. /\ ingress[<<a, u>>] = [port |-> port, key |-> egress[<<a, port>>].key]
      /\ ingress[<<a, u>>] = [port |-> other, key |-> egress[<<a, other>>].key]
  BY DEF IInv, EgressBacked, Found
<1> QED
  BY <1>1

(* A process that ends, or is aborted, takes nothing with it. *)
LEMMA EndOK ==
  ASSUME IInv, NEW p \in Procs, Goto(p, "idle"), UNCHANGED <<kernel, disturbed, switched>>,
         todo' \in [Procs -> SUBSET Ports], \A q \in Procs \ {p} : todo'[q] = todo[q]
  PROVE  IInv'
<1>1. /\ UNCHANGED <<is_server, ingress, egress, user_info, ifnames, disturbed, switched>>
      /\ pc' \in [Procs -> Transaction] /\ pc'[p] = "idle"
      /\ \A q \in Procs \ {p} : pc'[q] = pc[q] /\ cmd'[q] = cmd[q]
      /\ cmd' \in [Procs -> ClientAddCmd \cup ClientDelCmd \cup ServerAddCmd \cup {Absent}]
  BY DEF Goto, kernel, IInv, TypeOK, Transaction
<1>2. TypeOK'
  BY <1>1 DEF IInv, TypeOK
<1>3. EgressBacked'
  BY <1>1 DEF IInv, EgressBacked
<1>4. MeetingsKnown'
  BY <1>1 DEF IInv, MeetingsKnown, Adding, Deleting, Peer
<1>5. HalfAdded'
  BY <1>1 DEF IInv, HalfAdded, Peer
<1>6. HalfDeleted'
  BY <1>1 DEF IInv, HalfDeleted, Peer, Found
<1>7. ModeHolds'
  BY <1>1 DEF IInv, ModeHolds, Adding
<1> QED
  BY <1>2, <1>3, <1>4, <1>5, <1>6, <1>7 DEF IInv

(* client-add begins. *)
LEMMA ClientAddOK ==
  ASSUME IInv, NEW p \in Procs, NEW c \in ClientAddCmd, ClientAdd(p, c)
  PROVE  IInv'
<1>1. /\ UNCHANGED <<is_server, ingress, egress, user_info, ifnames, todo>>
      /\ ~ is_server /\ pc[p] = "idle"
      /\ pc' \in [Procs -> Transaction] /\ pc'[p] = "add_ingress" /\ cmd'[p] = c
      /\ \A q \in Procs \ {p} : pc'[q] = pc[q] /\ cmd'[q] = cmd[q]
      /\ cmd' \in [Procs -> ClientAddCmd \cup ClientDelCmd \cup ServerAddCmd \cup {Absent}]
      /\ switched' = switched \ {p}
  BY DEF ClientAdd, Begin, kernel, IInv, TypeOK, Transaction
<1>2. <<c.addr, c.uid>> \in Addrs \X Uids
  BY DEF ClientAddCmd
<1>3. /\ disturbed \subseteq disturbed' /\ disturbed' \subseteq Addrs \X Uids
      /\ (\E q \in Procs : Deleting(q) /\ Peer(q) = <<c.addr, c.uid>>)
           => <<c.addr, c.uid>> \in disturbed'
  BY <1>2 DEF ClientAdd, Meets, IInv, TypeOK
<1>4. TypeOK'
  BY <1>1, <1>3 DEF IInv, TypeOK
<1>5. EgressBacked'
  BY <1>1, <1>3 DEF IInv, EgressBacked
<1>6. MeetingsKnown'
  BY <1>1, <1>3 DEF IInv, MeetingsKnown, Adding, Deleting, Peer
<1>7. HalfAdded'
  BY <1>1, <1>3 DEF IInv, HalfAdded, Peer
<1>8. HalfDeleted'
  BY <1>1, <1>3 DEF IInv, HalfDeleted, Peer, Found
<1>9. ModeHolds'
  BY <1>1 DEF IInv, ModeHolds, Adding
<1> QED
  BY <1>4, <1>5, <1>6, <1>7, <1>8, <1>9 DEF IInv

(* client-del begins: everything is still to be visited. *)
LEMMA ClientDelOK ==
  ASSUME IInv, NEW p \in Procs, NEW a \in Addrs, NEW u \in Uids, ClientDel(p, a, u)
  PROVE  IInv'
<1> DEFINE c == [addr |-> a, uid |-> u, port |-> Absent]
<1>1. /\ UNCHANGED <<is_server, ingress, egress, user_info, ifnames>>
      /\ pc[p] = "idle" /\ c \in ClientDelCmd
      /\ pc' \in [Procs -> Transaction] /\ pc'[p] = "dump" /\ cmd'[p] = c
      /\ todo' \in [Procs -> SUBSET Ports] /\ todo'[p] = Ports
      /\ \A q \in Procs \ {p} : pc'[q] = pc[q] /\ cmd'[q] = cmd[q] /\ todo'[q] = todo[q]
      /\ cmd' \in [Procs -> ClientAddCmd \cup ClientDelCmd \cup ServerAddCmd \cup {Absent}]
      /\ switched' = switched \ {p}
  BY DEF ClientDel, ClientDelCmd, Begin, kernel, IInv, TypeOK, Transaction
<1>2. /\ disturbed \subseteq disturbed' /\ disturbed' \subseteq Addrs \X Uids
      /\ (\E q \in Procs : Adding(q) /\ Peer(q) = <<a, u>>) => <<a, u>> \in disturbed'
  BY DEF ClientDel, Meets, IInv, TypeOK
<1>3. TypeOK'
  BY <1>1, <1>2 DEF IInv, TypeOK
<1>4. EgressBacked'
  BY <1>1, <1>2 DEF IInv, EgressBacked
<1>5. MeetingsKnown'
  BY <1>1, <1>2 DEF IInv, MeetingsKnown, Adding, Deleting, Peer
<1>6. HalfAdded'
  BY <1>1, <1>2 DEF IInv, HalfAdded, Peer
<1>7. HalfDeleted'
  BY <1>1, <1>2 DEF IInv, HalfDeleted, Peer, Found
<1>8. ModeHolds'
  BY <1>1 DEF IInv, ModeHolds, Adding
<1> QED
  BY <1>3, <1>4, <1>5, <1>6, <1>7, <1>8 DEF IInv

(* The dump shows an entry: if it is one of the peer, it is the only one.  *)
LEMMA DumpEntryOK ==
  ASSUME IInv, NEW p \in Procs, NEW port \in Ports, DumpEntry(p, port)
  PROVE  IInv'
<1> DEFINE a == cmd[p].addr
           u == cmd[p].uid
           c == [cmd[p] EXCEPT !.port = port]
<1>1. /\ UNCHANGED <<is_server, ingress, egress, user_info, ifnames, pc, disturbed, switched>>
      /\ pc[p] = "dump" /\ cmd[p] \in ClientDelCmd
      /\ todo' \in [Procs -> SUBSET Ports] /\ todo'[p] = todo[p] \ {port}
      /\ \A q \in Procs \ {p} : todo'[q] = todo[q]
  BY DEF DumpEntry, kernel, IInv, TypeOK
<1>2. /\ c \in ClientDelCmd /\ c.addr = a /\ c.uid = u /\ c.port = port
      /\ a \in Addrs /\ u \in Uids
  BY <1>1 DEF ClientDelCmd
<1>3. /\ cmd' \in [Procs -> ClientAddCmd \cup ClientDelCmd \cup ServerAddCmd \cup {Absent}]
      /\ \A q \in Procs \ {p} : cmd'[q] = cmd[q]
      /\ cmd'[p] = IF port \in Found(a, u) THEN c ELSE cmd[p]
  BY <1>2 DEF DumpEntry, IInv, TypeOK
<1>4. cmd'[p] \in ClientDelCmd /\ cmd'[p].addr = a /\ cmd'[p].uid = u
  BY <1>1, <1>2, <1>3
<1>5. TypeOK'
  BY <1>1, <1>3, <1>4 DEF IInv, TypeOK
<1>6. EgressBacked'
  BY <1>1 DEF IInv, EgressBacked
<1>7. MeetingsKnown'
  <2>1. \A q \in Procs : Peer(q)' = Peer(q)
    BY <1>3, <1>4 DEF Peer
  <2>2. \A q \in Procs : Adding(q)' = Adding(q) /\ Deleting(q)' = Deleting(q)
    BY <1>1 DEF Adding, Deleting
  <2> QED
    BY <1>1, <2>1, <2>2 DEF IInv, MeetingsKnown
<1>8. HalfAdded'
  BY <1>1, <1>3 DEF IInv, HalfAdded, Peer
<1>9. HalfDeleted'
  <2>1. \A b, v : Found(b, v)' = Found(b, v)
    BY <1>1 DEF Found
  <2>2. \/ Found(a, u) \subseteq todo'[p] \cup {cmd'[p].port}
        \/ <<a, u>> \in disturbed
    <3>1. CASE port \in Found(a, u)
      BY <1>2, <1>3, <3>1, OneEgress
    <3>2. CASE port \notin Found(a, u)
      BY <1>1, <1>3, <3>2 DEF IInv, HalfDeleted, Peer
    <3> QED
      BY <3>1, <3>2
  <2>3. ASSUME NEW q \in Procs
        PROVE  /\ pc'[q] = "dump" =>
                    \/ Found(cmd[q].addr, cmd[q].uid)' \subseteq todo'[q] \cup {cmd'[q].port}
                    \/ Peer(q)' \in disturbed'
               /\ pc'[q] = "del_egress" =>
                    Found(cmd[q].addr, cmd[q].uid)' \subseteq {cmd'[q].port}
                      \/ Peer(q)' \in disturbed'
               /\ pc'[q] = "del_ingress" =>
                    Found(cmd[q].addr, cmd[q].uid)' = {} \/ Peer(q)' \in disturbed'
    <3>1. CASE q = p
      BY <1>1, <1>4, <2>1, <2>2, <3>1 DEF Peer, Found
    <3>2. CASE q # p
      BY <1>1, <1>3, <3>2 DEF IInv, HalfDeleted, Peer, Found
    <3> QED
      BY <3>1, <3>2
  <2> QED
    BY <2>3 DEF HalfDeleted
<1>10. ModeHolds'
  BY <1>1 DEF IInv, ModeHolds, Adding
<1> QED
  BY <1>5, <1>6, <1>7, <1>8, <1>9, <1>10 DEF IInv

(* The dump ends: with nothing left to visit, or as a disturbed peer.      *)
LEMMA DumpEndOK ==
  ASSUME IInv, NEW p \in Procs, DumpDone(p) \/ DumpCutShort(p)
  PROVE  IInv'
<1>1. /\ UNCHANGED <<is_server, ingress, egress, user_info, ifnames, cmd, switched>>
      /\ pc[p] = "dump" /\ cmd[p] \in ClientDelCmd
      /\ pc' \in [Procs -> Transaction] /\ pc'[p] = AfterDump(p)
      /\ \A q \in Procs \ {p} : pc'[q] = pc[q] /\ todo'[q] = todo[q]
      /\ todo' \in [Procs -> SUBSET Ports]
  BY DEF DumpDone, DumpCutShort, AfterDump, Goto, kernel, IInv, TypeOK, Transaction
<1>2. /\ Peer(p) \in Addrs \X Uids
      /\ cmd[p].port \in Ports \/ cmd[p].port = Absent
      /\ AfterDump(p) \in {"del_egress", "del_ingress"}
      /\ AfterDump(p) = "del_egress" <=> cmd[p].port # Absent
  BY <1>1 DEF ClientDelCmd, Peer, AfterDump
<1>3. /\ disturbed \subseteq disturbed' /\ disturbed' \subseteq Addrs \X Uids
      /\ todo[p] = {} \/ Peer(p) \in disturbed'
  BY <1>2 DEF DumpDone, DumpCutShort, IInv, TypeOK
<1>4. TypeOK'
  BY <1>1, <1>2, <1>3 DEF IInv, TypeOK
<1>5. EgressBacked'
  BY <1>1, <1>3 DEF IInv, EgressBacked
<1>6. MeetingsKnown'
  BY <1>1, <1>2, <1>3 DEF IInv, MeetingsKnown, Adding, Deleting, Peer
<1>7. HalfAdded'
  BY <1>1, <1>2, <1>3 DEF IInv, HalfAdded, Peer
<1>8. HalfDeleted'
  <2>1. Absent \notin Found(cmd[p].addr, cmd[p].uid)
    BY PeersAssumption DEF Found
  <2>2. /\ AfterDump(p) = "del_egress" =>
             Found(cmd[p].addr, cmd[p].uid) \subseteq {cmd[p].port} \/ Peer(p) \in disturbed'
        /\ AfterDump(p) = "del_ingress" =>
             Found(cmd[p].addr, cmd[p].uid) = {} \/ Peer(p) \in disturbed'
    BY <1>1, <1>2, <1>3, <2>1 DEF IInv, HalfDeleted
  <2>3. ASSUME NEW q \in Procs
        PROVE  /\ pc'[q] = "dump" =>
                    \/ Found(cmd[q].addr, cmd[q].uid) \subseteq todo'[q] \cup {cmd[q].port}
                    \/ Peer(q) \in disturbed'
               /\ pc'[q] = "del_egress" =>
                    Found(cmd[q].addr, cmd[q].uid) \subseteq {cmd[q].port}
                      \/ Peer(q) \in disturbed'
               /\ pc'[q] = "del_ingress" =>
                    Found(cmd[q].addr, cmd[q].uid) = {} \/ Peer(q) \in disturbed'
    <3>1. CASE q = p
      BY <1>1, <1>2, <2>2, <3>1
    <3>2. CASE q # p
      BY <1>1, <1>3, <3>2 DEF IInv, HalfDeleted
    <3> QED
      BY <3>1, <3>2
  <2> QED
    BY <1>1, <2>3 DEF HalfDeleted, Peer, Found
<1>9. ModeHolds'
  BY <1>1, <1>2 DEF IInv, ModeHolds, Adding
<1> QED
  BY <1>4, <1>5, <1>6, <1>7, <1>8, <1>9 DEF IInv

(* UPDATE_INGRESS does not overwrite, so that every entry of the peer that *)
(* the other processes rely on stays.                                      *)
LEMMA UpdateIngressOK ==
  ASSUME IInv, NEW p \in Procs, UpdateIngress(p)
  PROVE  IInv'
<1>1. CASE ingress[Peer(p)] # Absent
  BY <1>1, EndOK DEF UpdateIngress, kernel, IInv, TypeOK
<1>2. CASE ingress[Peer(p)] = Absent
  <2> DEFINE c == cmd[p]
             value == [port |-> c.port, key |-> c.key]
  <2>1. /\ UNCHANGED <<is_server, egress, user_info, ifnames, todo, disturbed, switched, cmd>>
        /\ pc[p] = "add_ingress" /\ c \in ClientAddCmd
        /\ ingress' = [ingress EXCEPT ![Peer(p)] = value]
        /\ pc' = [pc EXCEPT ![p] = "add_egress"]
    BY <1>2 DEF UpdateIngress, Goto, IInv, TypeOK
  <2>2. /\ value \in IngressValue /\ value # Absent
        /\ Peer(p) \in Addrs \X Uids
        /\ pc' \in [Procs -> Transaction] /\ pc'[p] = "add_egress"
        /\ \A q \in Procs \ {p} : pc'[q] = pc[q]
    BY <2>1, PeersAssumption DEF ClientAddCmd, IngressValue, Peer, IInv, TypeOK, Transaction
  <2>3. TypeOK'
    BY <2>1, <2>2 DEF IInv, TypeOK
  <2>4. EgressBacked'
    <3> SUFFICES ASSUME NEW a \in Addrs, NEW port \in Ports, egress[<<a, port>>] # Absent
                 PROVE  LET e == egress[<<a, port>>] IN
                        \/ ingress'[<<a, e.uid>>] = [port |-> port, key |-> e.key]
                        \/ <<a, e.uid>> \in disturbed
      BY <2>1 DEF EgressBacked
    <3> DEFINE e == egress[<<a, port>>]
    <3>1. e \in EgressValue
      BY DEF IInv, TypeOK
    <3>2. /\ <<a, e.uid>> \in Addrs \X Uids
          /\ [port |-> port, key |-> e.key] \in IngressValue
      BY <3>1 DEF EgressValue, IngressValue
    <3>3. \/ ingress[<<a, e.uid>>] = [port |-> port, key |-> e.key]
          \/ <<a, e.uid>> \in disturbed
      BY DEF IInv, EgressBacked
    <3>4. CASE <<a, e.uid>> = Peer(p)
      BY <1>2, <3>2, <3>3, <3>4, PeersAssumption
    <3>5. CASE <<a, e.uid>> # Peer(p)
      BY <2>1, <3>2, <3>3, <3>5 DEF IInv, TypeOK
    <3> QED
      BY <3>4, <3>5
  <2>5. MeetingsKnown'
    BY <2>1, <2>2 DEF IInv, MeetingsKnown, Adding, Deleting, Peer
  <2>6. HalfAdded'
    <3> SUFFICES ASSUME NEW q \in Procs, pc'[q] = "add_egress"
                 PROVE  \/ ingress'[Peer(q)] = [port |-> cmd[q].port, key |-> cmd[q].key]
                        \/ Peer(q) \in disturbed
      BY <2>1 DEF HalfAdded, Peer
    <3>1. CASE q = p
      BY <2>1, <2>2, <3>1 DEF IInv, TypeOK
    <3>2. CASE q # p
      <4>1. pc[q] = "add_egress" /\ cmd[q] \in ClientAddCmd
        BY <2>2, <3>2 DEF IInv, TypeOK
      <4>2. /\ [port |-> cmd[q].port, key |-> cmd[q].key] # Absent
            /\ Peer(q) \in Addrs \X Uids
        BY <4>1, PeersAssumption DEF ClientAddCmd, IngressValue, Peer
      <4>3. \/ ingress[Peer(q)] = [port |-> cmd[q].port, key |-> cmd[q].key]
            \/ Peer(q) \in disturbed
        BY <4>1 DEF IInv, HalfAdded
      <4>4. CASE Peer(q) = Peer(p)
        BY <1>2, <4>2, <4>3, <4>4
      <4>5. CASE Peer(q) # Peer(p)
        BY <2>1, <4>2, <4>3, <4>5 DEF IInv, TypeOK
      <4> QED
        BY <4>4, <4>5
    <3> QED
      BY <3>1, <3>2
  <2>7. HalfDeleted'
    BY <2>1, <2>2 DEF IInv, HalfDeleted, Peer, Found
  <2>8. ModeHolds'
    BY <2>1, <2>2 DEF IInv, ModeHolds, Adding
  <2> QED
    BY <2>3, <2>4, <2>5, <2>6, <2>7, <2>8 DEF IInv
<1> QED
  BY <1>1, <1>2

(* UPDATE_EGRESS: the way back is there, by HalfAdded, and processes that  *)
(* delete the peer are known to overlap, by MeetingsKnown.                 *)
LEMMA UpdateEgressOK ==
  ASSUME IInv, NEW p \in Procs, UpdateEgress(p)
  PROVE  IInv'
<1> DEFINE c == cmd[p]
           value == [uid |-> c.uid, key |-> c.key]
<1>1. /\ UNCHANGED <<is_server, ingress, user_info, ifnames, todo, disturbed, switched>>
      /\ pc[p] = "add_egress" /\ c \in ClientAddCmd
      /\ egress' = [egress EXCEPT ![<<c.addr, c.port>>] = value]
      /\ pc' \in [Procs -> Transaction] /\ pc'[p] = "idle"
      /\ \A q \in Procs \ {p} : pc'[q] = pc[q] /\ cmd'[q] = cmd[q]
      /\ cmd' \in [Procs -> ClientAddCmd \cup ClientDelCmd \cup ServerAddCmd \cup {Absent}]
  BY DEF UpdateEgress, Goto, IInv, TypeOK, Transaction
<1>2. /\ value \in EgressValue /\ value # Absent
      /\ c.addr \in Addrs /\ c.port \in Ports /\ c.uid \in Uids
  BY <1>1, PeersAssumption DEF ClientAddCmd, EgressValue
<1>3. \A a \in Addrs, port \in Ports :
        egress'[<<a, port>>] =
          IF a = c.addr /\ port = c.port THEN value ELSE egress[<<a, port>>]
  BY <1>1 DEF IInv, TypeOK
<1>4. TypeOK'
  BY <1>1, <1>2 DEF IInv, TypeOK
<1>5. EgressBacked'
  <2>1. \/ ingress[<<c.addr, c.uid>>] = [port |-> c.port, key |-> c.key]
        \/ <<c.addr, c.uid>> \in disturbed
    BY <1>1 DEF IInv, HalfAdded, Peer
  <2>2. ASSUME NEW a \in Addrs, NEW port \in Ports, egress'[<<a, port>>] # Absent
        PROVE  \/ ingress[<<a, egress'[<<a, port>>].uid>>]
                    = [port |-> port, key |-> egress'[<<a, port>>].key]
               \/ <<a, egress'[<<a, port>>].uid>> \in disturbed
    <3>1. CASE a = c.addr /\ port = c.port
      BY <1>3, <2>1, <3>1
    <3>2. CASE ~ (a = c.addr /\ port = c.port)
      BY <1>3, <2>2, <3>2 DEF IInv, EgressBacked
    <3> QED
      BY <3>1, <3>2
  <2> QED
    BY <1>1, <2>2 DEF EgressBacked
<1>6. MeetingsKnown'
  BY <1>1 DEF IInv, MeetingsKnown, Adding, Deleting, Peer
<1>7. HalfAdded'
  BY <1>1 DEF IInv, HalfAdded, Peer
<1>8. HalfDeleted'
  <2>1. ASSUME NEW q \in Procs, Deleting(q)', Peer(q)' \notin disturbed'
        PROVE  /\ q # p
               /\ cmd'[q].addr \in Addrs /\ cmd'[q].uid \in Uids
               /\ <<cmd'[q].addr, cmd'[q].uid>> # Peer(p)
    <3>1. q # p
      BY <1>1, <2>1 DEF Deleting
    <3>2. Deleting(q) /\ Peer(q) \notin disturbed /\ cmd'[q] = cmd[q]
      BY <1>1, <2>1, <3>1 DEF Deleting, Peer
    <3>3. Peer(q) # Peer(p)
      BY <1>1, <3>2 DEF IInv, MeetingsKnown, Adding
    <3>4. cmd[q] \in ClientDelCmd
      BY <3>2 DEF Deleting, IInv, TypeOK
    <3> QED
      BY <3>1, <3>2, <3>3, <3>4 DEF ClientDelCmd, Peer
  <2>2. ASSUME NEW q \in Procs, Deleting(q)', Peer(q)' \notin disturbed'
        PROVE  LET a == cmd'[q].addr  u == cmd'[q].uid IN
               /\ pc'[q] = "dump" => Found(a, u) \subseteq todo'[q] \cup {cmd'[q].port}
               /\ pc'[q] = "del_egress" => Found(a, u) \subseteq {cmd'[q].port}
               /\ pc'[q] = "del_ingress" => Found(a, u) = {}
    BY <1>1, <2>1, <2>2 DEF IInv, HalfDeleted, Peer
  <2>3. ASSUME NEW q \in Procs, Deleting(q)', Peer(q)' \notin disturbed'
        PROVE  /\ pc'[q] = "dump" =>
                    Found(cmd[q].addr, cmd[q].uid)' \subseteq todo'[q] \cup {cmd'[q].port}
               /\ pc'[q] = "del_egress" =>
                    Found(cmd[q].addr, cmd[q].uid)' \subseteq {cmd'[q].port}
               /\ pc'[q] = "del_ingress" => Found(cmd[q].addr, cmd[q].uid)' = {}
    <3>1. \A port \in Found(cmd[q].addr, cmd[q].uid)' :
            port \in Found(cmd'[q].addr, cmd'[q].uid)
      BY <1>3, <2>1, <2>3 DEF Found, Peer
    <3> QED
      BY <2>2, <2>3, <3>1
  <2> QED
    BY <2>3 DEF HalfDeleted, Deleting
<1>9. ModeHolds'
  BY <1>1 DEF IInv, ModeHolds, Adding
<1> QED
  BY <1>4, <1>5, <1>6, <1>7, <1>8, <1>9 DEF IInv

(* DELETE_EGRESS removes the only entry there was. *)
LEMMA DeleteEgressOK ==
  ASSUME IInv, NEW p \in Procs, DeleteEgress(p)
  PROVE  IInv'
<1> DEFINE a == cmd[p].addr
           port == cmd[p].port
<1>1. /\ pc[p] = "del_egress" /\ cmd[p] \in ClientDelCmd
      /\ a \in Addrs /\ port \in Ports
  BY DEF DeleteEgress, IInv, TypeOK, ClientDelCmd
<1>2. CASE egress[<<a, port>>] = Absent
  <2>1. egress' = egress
    BY <1>1, <1>2 DEF DeleteEgress, IInv, TypeOK
  <2> QED
    BY <1>2, <2>1, EndOK DEF DeleteEgress, kernel, IInv, TypeOK
<1>3. CASE egress[<<a, port>>] # Absent
  <2>1. /\ UNCHANGED <<is_server, ingress, user_info, ifnames, todo, disturbed, switched, cmd>>
        /\ egress' = [egress EXCEPT ![<<a, port>>] = Absent]
        /\ pc' = [pc EXCEPT ![p] = "del_ingress"]
    BY <1>3 DEF DeleteEgress, Goto
  <2>2. /\ pc' \in [Procs -> Transaction] /\ pc'[p] = "del_ingress"
        /\ \A q \in Procs \ {p} : pc'[q] = pc[q]
    BY <2>1 DEF IInv, TypeOK, Transaction
  <2>3. \A b \in Addrs, x \in Ports :
          egress'[<<b, x>>] = IF b = a /\ x = port THEN Absent ELSE egress[<<b, x>>]
    BY <1>1, <2>1 DEF IInv, TypeOK
  <2>4. TypeOK'
    BY <1>1, <2>1, <2>2 DEF IInv, TypeOK
  <2>5. EgressBacked'
    BY <2>1, <2>3 DEF IInv, EgressBacked
  <2>6. MeetingsKnown'
    BY <1>1, <2>1, <2>2 DEF IInv, MeetingsKnown, Adding, Deleting, Peer
  <2>7. HalfAdded'
    BY <2>1, <2>2 DEF IInv, HalfAdded, Peer
  <2>8. HalfDeleted'
    <3>1. ASSUME NEW q \in Procs, Deleting(q)'
          PROVE  /\ Deleting(q) /\ cmd'[q] = cmd[q] /\ cmd[q].addr \in Addrs
                 /\ pc[q] = "del_egress" \/ (q # p /\ pc[q] \in {"dump", "del_ingress"})
      BY <1>1, <2>1, <2>2, <3>1 DEF Deleting, IInv, TypeOK, ClientDelCmd
    <3>2. ASSUME NEW q \in Procs, Deleting(q)'
          PROVE  /\ Found(cmd[q].addr, cmd[q].uid)' \subseteq Found(cmd[q].addr, cmd[q].uid)
                 /\ q = p => port \notin Found(cmd[q].addr, cmd[q].uid)'
      BY <1>1, <2>1, <2>3, <3>1, <3>2 DEF Found
    <3>3. Found(a, cmd[p].uid)' = {} \/ Peer(p)' \in disturbed'
      <4>1. Found(a, cmd[p].uid) \subseteq {port} \/ Peer(p) \in disturbed
        BY <1>1 DEF IInv, HalfDeleted
      <4>2. Deleting(p)' /\ Peer(p)' = Peer(p)
        BY <2>1, <2>2 DEF Deleting, Peer
      <4>3. /\ Found(a, cmd[p].uid)' \subseteq Found(a, cmd[p].uid)
            /\ port \notin Found(a, cmd[p].uid)'
        BY <3>2, <4>2
      <4> QED
        BY <2>1, <4>1, <4>2, <4>3
    <3>4. ASSUME NEW q \in Procs \ {p}, pc[q] \in {"dump", "del_egress", "del_ingress"}
          PROVE  /\ Found(cmd[q].addr, cmd[q].uid)' \subseteq Found(cmd[q].addr, cmd[q].uid)
                 /\ Peer(q)' = Peer(q)
      <4>1. Deleting(q)'
        BY <2>2, <3>4 DEF Deleting
      <4> QED
        BY <2>1, <3>2, <4>1 DEF Peer
    <3>5. ASSUME NEW q \in Procs \ {p}
          PROVE  /\ pc'[q] = "dump" =>
                      \/ Found(cmd[q].addr, cmd[q].uid)' \subseteq todo[q] \cup {cmd[q].port}
                      \/ Peer(q)' \in disturbed
                 /\ pc'[q] = "del_egress" =>
                      \/ Found(cmd[q].addr, cmd[q].uid)' \subseteq {cmd[q].port}
                      \/ Peer(q)' \in disturbed
                 /\ pc'[q] = "del_ingress" =>
                      \/ Found(cmd[q].addr, cmd[q].uid)' = {}
                      \/ Peer(q)' \in disturbed
      BY <2>2, <3>4 DEF IInv, HalfDeleted
    <3> QED
      BY <2>1, <2>2, <3>3, <3>5 DEF HalfDeleted
  <2>9. ModeHolds'
    BY <1>1, <2>1, <2>2 DEF IInv, ModeHolds, Adding
  <2> QED
    BY <2>4, <2>5, <2>6, <2>7, <2>8, <2>9 DEF IInv
<1> QED
  BY <1>2, <1>3

(* DELETE_INGRESS: no egress entry needs the way back any more. *)
LEMMA DeleteIngressOK ==
  ASSUME IInv, NEW p \in Procs, DeleteIngress(p)
  PROVE  IInv'
<1>1. /\ UNCHANGED <<is_server, egress, user_info, ifnames, todo, disturbed, switched>>
      /\ pc[p] = "del_ingress" /\ cmd[p] \in ClientDelCmd
      /\ ingress' = [ingress EXCEPT ![Peer(p)] = Absent]
      /\ pc' \in [Procs -> Transaction] /\ pc'[p] = "idle"
      /\ \A q \in Procs \ {p} : pc'[q] = pc[q] /\ cmd'[q] = cmd[q]
      /\ cmd' \in [Procs -> ClientAddCmd \cup ClientDelCmd \cup ServerAddCmd \cup {Absent}]
  BY DEF DeleteIngress, Goto, IInv, TypeOK, Transaction
<1>2. Peer(p) \in Addrs \X Uids
  BY <1>1 DEF ClientDelCmd, Peer
<1>3. \A x \in Addrs \X Uids : x # Peer(p) => ingress'[x] = ingress[x]
  BY <1>1 DEF IInv, TypeOK
<1>4. TypeOK'
  BY <1>1 DEF IInv, TypeOK
<1>5. EgressBacked'
  <2> SUFFICES ASSUME NEW a \in Addrs, NEW port \in Ports, egress[<<a, port>>] # Absent,
                      <<a, egress[<<a, port>>].uid>> \notin disturbed
               PROVE  ingress'[<<a, egress[<<a, port>>].uid>>] =
                        [port |-> port, key |-> egress[<<a, port>>].key]
    BY <1>1 DEF EgressBacked
  <2> DEFINE e == egress[<<a, port>>]
  <2>1. <<a, e.uid>> \in Addrs \X Uids
    BY DEF IInv, TypeOK, EgressValue
  <2>2. port \in Found(a, e.uid)
    BY DEF Found
  <2>3. <<a, e.uid>> # Peer(p)
    BY <1>1, <2>2 DEF IInv, HalfDeleted, Peer
  <2> QED
    BY <1>3, <2>1, <2>3 DEF IInv, EgressBacked
<1>6. MeetingsKnown'
  BY <1>1 DEF IInv, MeetingsKnown, Adding, Deleting, Peer
<1>7. HalfAdded'
  <2> SUFFICES ASSUME NEW q \in Procs \ {p}, pc[q] = "add_egress", Peer(q) \notin disturbed
               PROVE  ingress'[Peer(q)] = [port |-> cmd[q].port, key |-> cmd[q].key]
    BY <1>1 DEF HalfAdded, Peer
  <2>1. Peer(q) \in Addrs \X Uids
    BY DEF IInv, TypeOK, ClientAddCmd, Peer
  <2>2. Peer(q) # Peer(p)
    BY <1>1 DEF IInv, MeetingsKnown, Adding, Deleting
  <2> QED
    BY <1>3, <2>1, <2>2 DEF IInv, HalfAdded
<1>8. HalfDeleted'
  BY <1>1 DEF IInv, HalfDeleted, Peer, Found
<1>9. ModeHolds'
  BY <1>1 DEF IInv, ModeHolds, Adding
<1> QED
  BY <1>4, <1>5, <1>6, <1>7, <1>8, <1>9 DEF IInv

(* Commands that leave the maps of the client mode, the peers' commands    *)
(* and the mode alone.                                                     *)
LEMMA ElsewhereOK ==
  ASSUME IInv, TypeOK', ModeHolds', UNCHANGED <<ingress, egress, disturbed>>,
         \A q \in Procs : Adding(q)' \/ Deleting(q)' =>
           pc'[q] = pc[q] /\ cmd'[q] = cmd[q] /\ todo'[q] = todo[q]
  PROVE  IInv'
<1>1. EgressBacked'
  BY DEF IInv, EgressBacked
<1>2. MeetingsKnown'
  BY DEF IInv, MeetingsKnown, Adding, Deleting, Peer
<1>3. HalfAdded'
  BY DEF IInv, HalfAdded, Adding, Peer
<1>4. HalfDeleted'
  BY DEF IInv, HalfDeleted, Deleting, Peer, Found
<1> QED
  BY <1>1, <1>2, <1>3, <1>4 DEF IInv

(* server-add begins. *)
LEMMA ServerAddOK ==
  ASSUME IInv, NEW p \in Procs, NEW c \in ServerAddCmd, ServerAdd(p, c)
  PROVE  IInv'
<1>1. /\ UNCHANGED <<is_server, ingress, egress, user_info, ifnames, todo, disturbed>>
      /\ is_server
      /\ pc' \in [Procs -> Transaction] /\ pc'[p] = "add_user" /\ cmd'[p] = c
      /\ \A q \in Procs \ {p} : pc'[q] = pc[q] /\ cmd'[q] = cmd[q]
      /\ cmd' \in [Procs -> ClientAddCmd \cup ClientDelCmd \cup ServerAddCmd \cup {Absent}]
      /\ switched' = switched \ {p}
  BY DEF ServerAdd, Begin, kernel, IInv, TypeOK, Transaction
<1>2. TypeOK'
  BY <1>1 DEF IInv, TypeOK
<1>3. ModeHolds'
  BY <1>1 DEF IInv, ModeHolds, Adding
<1> QED
  BY <1>1, <1>2, <1>3, ElsewhereOK DEF Adding, Deleting

(* UPDATE_USER_INFO *)
LEMMA UpdateUserInfoOK ==
  ASSUME IInv, NEW p \in Procs, UpdateUserInfo(p)
  PROVE  IInv'
<1>1. /\ UNCHANGED <<is_server, ingress, egress, ifnames, todo, disturbed, switched>>
      /\ cmd[p] \in ServerAddCmd
      /\ user_info' = [user_info EXCEPT ![cmd[p].uid] = cmd[p].addr]
      /\ pc' \in [Procs -> Transaction] /\ pc'[p] = "idle"
      /\ \A q \in Procs \ {p} : pc'[q] = pc[q] /\ cmd'[q] = cmd[q]
      /\ cmd' \in [Procs -> ClientAddCmd \cup ClientDelCmd \cup ServerAddCmd \cup {Absent}]
  BY DEF UpdateUserInfo, Goto, IInv, TypeOK, Transaction
<1>2. TypeOK'
  BY <1>1 DEF IInv, TypeOK, ServerAddCmd
<1>3. ModeHolds'
  BY <1>1 DEF IInv, ModeHolds, Adding
<1> QED
  BY <1>1, <1>2, <1>3, ElsewhereOK DEF Adding, Deleting

(* Commands of one transaction: server-del, load and unload. *)
LEMMA OneTransactionOK ==
  ASSUME IInv, UNCHANGED <<is_server, ingress, egress, pc, cmd, todo, disturbed, switched>>,
         user_info' \in [Uids -> Addrs \cup {Absent}], ifnames' \subseteq Ifaces
  PROVE  IInv'
<1>1. TypeOK'
  BY DEF IInv, TypeOK
<1>2. ModeHolds'
  BY DEF IInv, ModeHolds, Adding
<1> QED
  BY <1>1, <1>2, ElsewhereOK

(* server and client: processes that looked at the mode are remembered. *)
LEMMA SetModeOK ==
  ASSUME IInv, NEW p \in Procs, NEW server \in BOOLEAN, SetMode(p, server)
  PROVE  IInv'
<1>1. UNCHANGED <<ingress, egress, user_info, ifnames, pc, cmd, todo, disturbed>>
  BY DEF SetMode
<1>2. is_server' \in BOOLEAN /\ switched' \subseteq Procs
  BY DEF SetMode, IInv, TypeOK
<1>3. TypeOK'
  BY <1>1, <1>2 DEF IInv, TypeOK
<1>4. CASE server = is_server
  <2>1. UNCHANGED <<is_server, switched>>
    BY <1>4 DEF SetMode
  <2>2. ModeHolds'
    BY <1>1, <2>1 DEF IInv, ModeHolds, Adding
  <2> QED
    BY <1>1, <1>3, <2>2, ElsewhereOK
<1>5. CASE server # is_server
  <2>1. \A q \in Procs \ switched' : pc'[q] = "idle"
    BY <1>1, <1>5 DEF SetMode
  <2>2. ModeHolds'
    BY <2>1 DEF ModeHolds, Adding
  <2> QED
    BY <1>1, <1>3, <2>2, ElsewhereOK
<1> QED
  BY <1>4, <1>5

(* Every step of every process preserves the invariant. *)
LEMMA StepOK == IInv /\ [Next]_vars => IInv'
<1> SUFFICES ASSUME IInv, [Next]_vars PROVE IInv'
  OBVIOUS
<1>1. CASE UNCHANGED vars
  <2>1. UNCHANGED <<is_server, ingress, egress, user_info, ifnames, pc, cmd, todo, disturbed, switched>>
    BY <1>1 DEF vars, kernel
  <2> QED
    BY <2>1, OneTransactionOK DEF IInv, TypeOK
<1>2. CASE Next
  <2> PICK p \in Procs : Step(p)
    BY <1>2 DEF Next
  <2>1. CASE \E c \in ClientAddCmd : ClientAdd(p, c)
    BY <2>1, ClientAddOK
  <2>2. CASE UpdateIngress(p)
    BY <2>2, UpdateIngressOK
  <2>3. CASE UpdateEgress(p)
    BY <2>3, UpdateEgressOK
  <2>4. CASE \E a \in Addrs, u \in Uids : ClientDel(p, a, u)
    BY <2>4, ClientDelOK
  <2>41. CASE \E port \in Ports : DumpEntry(p, port)
    BY <2>41, DumpEntryOK
  <2>42. CASE DumpDone(p) \/ DumpCutShort(p)
    BY <2>42, DumpEndOK
  <2>5. CASE DeleteEgress(p)
    BY <2>5, DeleteEgressOK
  <2>6. CASE DeleteIngress(p)
    BY <2>6, DeleteIngressOK
  <2>7. CASE \E c \in ServerAddCmd : ServerAdd(p, c)
    BY <2>7, ServerAddOK
  <2>8. CASE UpdateUserInfo(p)
    BY <2>8, UpdateUserInfoOK
  <2>9. CASE \E u \in Uids : ServerDel(p, u)
    BY <2>9, OneTransactionOK DEF ServerDel, IInv, TypeOK
  <2>10. CASE \E server \in BOOLEAN : SetMode(p, server)
    BY <2>10, SetModeOK
  <2>11. CASE \E i \in Ifaces : Load(p, i) \/ Unload(p, i)
    BY <2>11, OneTransactionOK DEF Load, Unload, IInv, TypeOK
  <2>12. CASE Abort(p)
    BY <2>12, EndOK DEF Abort, IInv, TypeOK
  <2> QED
    BY <2>1, <2>2, <2>3, <2>4, <2>41, <2>42, <2>5, <2>6, <2>7, <2>8, <2>9,
       <2>10, <2>11, <2>12 DEF Step
<1> QED
  BY <1>1, <1>2

-----------------------------------------------------------------------------
(* The inductive invariant holds in every reachable state. *)
THEOREM Invariance == Spec => []IInv
BY InitOK, StepOK, PTL DEF Spec

(* Every variable stays in its type. *)
THEOREM TypeCorrect == Spec => []TypeOK
<1>1. IInv => TypeOK
  BY DEF IInv
<1> QED
  BY <1>1, Invariance, PTL

(* Egress entries have their way back, whatever was aborted on the way,    *)
(* unless the peer was added and deleted at the same time, or deleted      *)
(* after a dump that the kernel did not finish.                            *)
THEOREM PeersConsistent == Spec => []EgressBacked
<1>1. IInv => EgressBacked
  BY DEF IInv
<1> QED
  BY <1>1, Invariance, PTL

(* client-add and server-add act in the mode they saw, unless the mode was *)
(* changed under them.                                                     *)
THEOREM ModeIsChecked == Spec => []ModeHolds
<1>1. IInv => ModeHolds
  BY DEF IInv
<1> QED
  BY <1>1, Invariance, PTL

(* client-del deletes all of a peer, though it deletes one egress entry.   *)
THEOREM DeletionComplete == Spec => DeleteIsComplete
<1>1. IInv /\ [Next]_vars =>
        [\A p \in Procs : DeleteIngress(p) =>
           Found(cmd[p].addr, cmd[p].uid) = {} \/ Peer(p) \in disturbed]_vars
  BY DEF IInv, HalfDeleted, DeleteIngress
<1> QED
  BY <1>1, Invariance, PTL DEF Spec, DeleteIsComplete
=============================================================================
