---------------------------- MODULE ConfigScript ----------------------------
(***************************************************************************)
(* A configuration of the kernel module is written out as a script         *)
(* ("ktuctl dump") and restored from it ("ktuctl script"): what comes back *)
(* depends on the conversions in between.  One ktuctl at a time; what      *)
(* several do to each other is in KtuctlPeers and Netlink.                 *)
(*                                                                         *)
(* Words are strings.  A comment is the sequence of its words, of which ;  *)
(* counts as one; a script is a sequence of lines, each a sequence of      *)
(* words.  A few addresses, users and ports stand for all of their kind.   *)
(***************************************************************************)
EXTENDS Integers, Sequences, SequencesExt, FiniteSetsExt

CONSTANTS
  Word,                       \* STRING
  Addrs,                      \* some of the addresses of IpToString
  Uids, Ports, IcmpIds, Ages, \* numerals
  Keys,                       \* xor keys, the empty one included
  Comments,                   \* what an administrator may write
  Hashed, Unclosed,           \* words that begin with #, or open a quote
  UidFiles,                   \* contents of the file of host names
  MaxPeers                    \* peers an administrator adds

Special == Hashed \cup Unclosed \cup {";"}

(* The words that ktuctl itself writes. *)
Literals ==
  {"server", "max-age", "client", "server-add", "client-add", "uid", "user", "addr",
   "icmp-id", "port", "xor", "comment", "10.0.0.1", "fd00::1", "0.0.0.1"}

(* What an argument is stored as. *)
Fields == {"addr", "port", "icmp_id", "uid", "comment", "key", "age", "expects"}

(* Numerals are not empty, and no word of a comment is. *)
ASSUME ConfigAssumption ==
  /\ Literals \cup Fields \cup {"", "0", "60", "error"} \subseteq Word
  /\ Addrs \subseteq {"::ffff:10.0.0.1", "fd00::1", "::1", "::ffff:0.0.0.1"}
  /\ Uids \subseteq Word \ {""} /\ Ports \subseteq Word
  /\ IcmpIds \subseteq Word /\ Ages \subseteq Word /\ Keys \subseteq Word
  /\ Comments \subseteq Seq(Word \ {""})
  /\ UidFiles \subseteq Seq(Word \X Word)
  /\ Special \cap (Literals \cup Uids \cup Ports \cup IcmpIds \cup Ages \cup Keys) = {}

VARIABLES
  maps,                       \* kernel: the mode and the maps
  file,                       \* the file of host names
  names, numeric,             \* UidMap and -n of the running ktuctl
  script,                     \* the lines dumped, or still to be run
  todo,                       \* the entries the dump has yet to print
  saved,                      \* history: the maps when the dump was taken
  edited,                     \* history: the file was changed since
  fresh,                      \* history: the module was loaded anew since
  pc                          \* what is going on

vars == <<maps, file, names, numeric, script, todo, saved, edited, fresh, pc>>

Unnamed == ""
Empty == [server |-> FALSE, age |-> "0", ingress |-> {}, egress |-> {}, users |-> {}]

-----------------------------------------------------------------------------
(* helper.rs and uid_map.rs *)

(* Of two lines for the same uid the later one counts; a line without a    *)
(* uid is passed over.                                                     *)
Load(lines) ==
  [u \in Uids |->
     LET own == {i \in DOMAIN lines : lines[i][1] = u} IN
     IF own = {} THEN Unnamed ELSE lines[Max(own)][2]]

(* "user alice", or "uid 1" under -n and for a uid without a name. *)
ResolveHostname(u) ==
  IF numeric \/ names[u] = Unnamed THEN <<"uid", u>> ELSE <<"user", names[u]>>

(* Names come first, and of several uids with one name any may be found.   *)
(* The empty set is an error.                                              *)
ResolveUid(word) ==
  LET named == {u \in Uids : names[u] # Unnamed /\ names[u] = word} IN
  IF named # {} THEN named ELSE {word} \cap Uids

(* Ipv6Addr::to_ipv4 finds an IPv4 address in all of ::/96 too. *)
IpToString ==
  [a \in {"::ffff:10.0.0.1", "fd00::1", "::1", "::ffff:0.0.0.1"} |->
     CASE a = "::ffff:10.0.0.1" -> "10.0.0.1"
       [] a \in {"::1", "::ffff:0.0.0.1"} -> "0.0.0.1"
       [] OTHER -> a]

(* An IPv4 address is stored as a mapped one. *)
ResolveIp ==
  [word \in {"10.0.0.1", "fd00::1", "0.0.0.1"} |->
     CASE word = "10.0.0.1" -> "::ffff:10.0.0.1"
       [] word = "0.0.0.1" -> "::ffff:0.0.0.1"
       [] OTHER -> word]

FormatXorKey(key) == IF key = "" THEN <<>> ELSE <<"xor", key>>

FormatComment(comment) == IF comment = <<>> THEN <<>> ELSE <<"comment">> \o comment

-----------------------------------------------------------------------------
(* cmd_dump *)

ModeLine(m) == IF m.server THEN <<"server", "max-age", m.age>> ELSE <<"client">>

(* Mutant: the key is not printed. *)
PeerLineWithoutKey(server, e) ==
  IF server
  THEN <<"server-add">> \o (ResolveHostname(e.uid) \o <<"addr", IpToString[e.addr]>>
         \o <<"icmp-id", e.icmp_id>> \o <<"port", e.port>> \o FormatComment(e.comment))
  ELSE <<"client-add">> \o (ResolveHostname(e.uid) \o <<"addr", IpToString[e.addr]>>
         \o <<"port", e.port>> \o FormatComment(e.comment))

PeerLine(server, e) ==
  IF server
  THEN <<"server-add">> \o (ResolveHostname(e.uid) \o <<"addr", IpToString[e.addr]>>
         \o <<"icmp-id", e.icmp_id>> \o <<"port", e.port>>
         \o FormatXorKey(e.key) \o FormatComment(e.comment))
  ELSE <<"client-add">> \o (ResolveHostname(e.uid) \o <<"addr", IpToString[e.addr]>>
         \o <<"port", e.port>> \o FormatXorKey(e.key) \o FormatComment(e.comment))

-----------------------------------------------------------------------------
(* The commands of a script, as far as a dump prints them. *)

Failed == [ok |-> FALSE, maps |-> maps]
Became(m) == [ok |-> TRUE, maps |-> m]

(* Mutant: the ingress entry is overwritten too (TUTU_ANY). *)
ClientAddAny(e) ==
  IF maps.server THEN Failed
  ELSE Became([maps EXCEPT
         !.ingress = {i \in @ : i.addr # e.addr \/ i.uid # e.uid}
                       \cup {[addr |-> e.addr, uid |-> e.uid, port |-> e.port, key |-> e.key]},
         !.egress = {o \in @ : o.addr # e.addr \/ o.port # e.port} \cup {e}])

(* UPDATE_INGRESS fails if the peer is there; UPDATE_EGRESS overwrites. *)
ClientAdd(e) ==
  IF maps.server \/ \E i \in maps.ingress : i.addr = e.addr /\ i.uid = e.uid THEN Failed
  ELSE Became([maps EXCEPT
         !.ingress = @ \cup {[addr |-> e.addr, uid |-> e.uid, port |-> e.port, key |-> e.key]},
         !.egress = {o \in @ : o.addr # e.addr \/ o.port # e.port} \cup {e}])

ServerAdd(e) ==
  IF maps.server THEN Became([maps EXCEPT !.users = {o \in @ : o.uid # e.uid} \cup {e}])
  ELSE Failed

(* The loop over the arguments: a keyword takes the next word, whatever it *)
(* is; other words are passed over; a later argument replaces an earlier.  *)
(* A port, id, age or uid that does not parse ends the command at once,    *)
(* even if a better one follows.                                           *)
Keyword(cmd, word) ==
  CASE cmd = "server" -> IF word = "max-age" THEN "age" ELSE ""
    [] word \in {"address", "addr"} -> "addr"
    [] word \in {"uid", "user"} -> "uid"
    [] word = "xor" -> "key"
    [] word = "icmp-id" /\ cmd = "server-add" -> "icmp_id"
    [] word \in {"port", "comment"} -> word
    [] OTHER -> ""

Parses(field, word) ==
  CASE field = "port" -> word \in Ports \cup {"0"}
    [] field = "icmp_id" -> word \in IcmpIds \cup {"0"}
    [] field = "uid" -> ResolveUid(word) # {}
    [] field = "age" -> word \in Ages
    [] OTHER -> field # "error"

NoArgs ==
  [f \in Fields |-> CASE f \in {"port", "icmp_id"} -> "0" [] f = "age" -> "60" [] OTHER -> ""]

Take(cmd, a, word) ==
  CASE a.expects = "" -> [a EXCEPT !.expects = Keyword(cmd, word)]
    [] a.expects # "" /\ Parses(a.expects, word) -> [a EXCEPT ![a.expects] = word, !.expects = ""]
    [] OTHER -> [a EXCEPT !.expects = "error"]

Args(cmd, words) ==
  LET args[ws \in Seq(Word)] ==
        IF ws = <<>> THEN NoArgs ELSE Take(cmd, args[Front(ws)], Last(ws))
  IN  args[words]

Valid(a) ==
  /\ a.expects = ""
  /\ a.addr \in DOMAIN ResolveIp
  /\ a.port \in Ports
  /\ a.uid # ""
  /\ a.key \in Keys

ClientPeer(a, u) ==
  [addr |-> ResolveIp[a.addr], uid |-> u, port |-> a.port, key |-> a.key,
   comment |-> IF a.comment = "" THEN <<>> ELSE <<a.comment>>]

WithId(id, e) ==
  [addr |-> e.addr, uid |-> e.uid, port |-> e.port, key |-> e.key, comment |-> e.comment,
   icmp_id |-> id]

(* What can come of a command; unknown ones are only reported.  A max-age  *)
(* without a number is passed over.                                        *)
Outcomes(cmd, words) ==
  LET a == Args(cmd, words) IN
  CASE cmd = "client" -> {Became([maps EXCEPT !.server = FALSE, !.age = "0"])}
    [] cmd = "server" /\ a.expects # "error" ->
         {Became([maps EXCEPT !.server = TRUE, !.age = a.age])}
    [] cmd = "server" /\ a.expects = "error" -> {Failed}
    [] cmd \in {"client-add", "server-add"} /\ ~ Valid(a) -> {Failed}
    [] cmd = "client-add" /\ Valid(a) ->
         {ClientAdd(ClientPeer(a, u)) : u \in ResolveUid(a.uid)}
    [] cmd = "server-add" /\ Valid(a) ->
         {ServerAdd(WithId(a.icmp_id, ClientPeer(a, u))) : u \in ResolveUid(a.uid)}
    [] OTHER -> {Became(maps)}

-----------------------------------------------------------------------------
(* cmd_script *)

(* split(';') and shlex::split: a word that begins with # hides the rest,  *)
(* a quote that is not closed is a "parse error".                          *)
Upto(words, ends) ==
  LET stops == {i \in DOMAIN words : words[i] \in ends} IN
  IF stops = {} THEN words ELSE SubSeq(words, 1, Min(stops) - 1)

SubCommand(line) == Upto(line, {";"})
Rest(line) == SubSeq(line, Len(SubCommand(line)) + 2, Len(line))
Shlex(sub) == Upto(sub, Hashed)

(* The next command of the script.  An error ends it. *)
RunCommand ==
  /\ pc = "restoring"
  /\ script # <<>>
  /\ LET sub == SubCommand(Head(script))
         words == Shlex(sub)
         left == Rest(Head(script))
     IN  \E o \in IF \E i \in DOMAIN words : words[i] \in Unclosed THEN {Failed}
                  ELSE IF words = <<>> THEN {Became(maps)}
                  ELSE Outcomes(Head(words), Tail(words)) :
           /\ maps' = o.maps
           /\ pc' = IF o.ok THEN pc ELSE "failed"
           /\ script' = IF ~ o.ok THEN <<>>
                        ELSE IF left = <<>> THEN Tail(script) ELSE <<left>> \o Tail(script)
  /\ UNCHANGED <<file, names, numeric, todo, saved, edited, fresh>>

EndScript ==
  /\ pc = "restoring"
  /\ script = <<>>
  /\ pc' = "done"
  /\ UNCHANGED <<maps, file, names, numeric, script, todo, saved, edited, fresh>>

-----------------------------------------------------------------------------
(* Before the dump: an administrator configures the module, with arguments *)
(* that a shell has quoted properly.                                       *)

Room == Cardinality(maps.ingress) + Cardinality(maps.users) < MaxPeers

Configure(o) ==
  /\ pc = "setup"
  /\ o.ok
  /\ maps' = o.maps
  /\ UNCHANGED <<file, names, numeric, script, todo, saved, edited, fresh, pc>>

SetUp ==
  \/ \E age \in Ages :
       Configure(Became([maps EXCEPT !.server = TRUE, !.age = age]))
  \/ Configure(Became([maps EXCEPT !.server = FALSE, !.age = "0"]))
  \/ /\ Room
     /\ \E e \in [addr : Addrs, uid : Uids, port : Ports, key : Keys, comment : Comments] :
          \/ Configure(ClientAdd(e))
          \/ \E id \in IcmpIds : Configure(ServerAdd(WithId(id, e)))

(* A client-add that is killed before UPDATE_EGRESS. *)
Abort(e) ==
  /\ Room
  /\ ClientAdd(e).ok
  /\ Configure(Became([maps EXCEPT !.ingress = ClientAdd(e).maps.ingress]))

BeginDump(n) ==
  /\ pc = "setup"
  /\ names' = Load(file)
  /\ numeric' = n
  /\ script' = <<ModeLine(maps)>>
  /\ todo' = IF maps.server THEN maps.users ELSE maps.egress
  /\ saved' = maps
  /\ pc' = "dumping"
  /\ UNCHANGED <<maps, file, edited, fresh>>

(* The order of a dump is not specified. *)
DumpEntry(e) ==
  /\ pc = "dumping"
  /\ script' = Append(script, PeerLine(maps.server, e))
  /\ todo' = todo \ {e}
  /\ UNCHANGED <<maps, file, names, numeric, saved, edited, fresh, pc>>

EndDump ==
  /\ pc = "dumping"
  /\ todo = {}
  /\ pc' = "saved"
  /\ UNCHANGED <<maps, file, names, numeric, script, todo, saved, edited, fresh>>

EditFile(f) ==
  /\ pc = "saved"
  /\ f # file
  /\ file' = f
  /\ edited' = TRUE
  /\ UNCHANGED <<maps, names, numeric, script, todo, saved, fresh, pc>>

LoadModule ==
  /\ pc = "saved"
  /\ maps' = Empty
  /\ fresh' = TRUE
  /\ UNCHANGED <<file, names, numeric, script, todo, saved, edited, pc>>

BeginScript ==
  /\ pc = "saved"
  /\ names' = Load(file)
  /\ pc' = "restoring"
  /\ UNCHANGED <<maps, file, numeric, script, todo, saved, edited, fresh>>

Init ==
  /\ maps = Empty
  /\ file \in UidFiles
  /\ names = [u \in Uids |-> Unnamed]
  /\ numeric = FALSE
  /\ script = <<>>
  /\ todo = {}
  /\ saved = Empty
  /\ edited = FALSE
  /\ fresh = FALSE
  /\ pc = "setup"

Next ==
  \/ SetUp
  \/ \E e \in [addr : Addrs, uid : Uids, port : Ports, key : Keys, comment : {<<>>}] : Abort(e)
  \/ \E n \in BOOLEAN : BeginDump(n)
  \/ \E e \in todo : DumpEntry(e)
  \/ EndDump
  \/ \E f \in UidFiles : EditFile(f)
  \/ LoadModule
  \/ BeginScript
  \/ RunCommand
  \/ EndScript

Spec == Init /\ [][Next]_vars
-----------------------------------------------------------------------------
Entries(m) == m.egress \cup m.users

(* What survives the way through a script: addresses that are not in the   *)
(* range that looks like IPv4, ...                                         *)
PlainAddresses == \A e \in Entries(saved) : ResolveIp[IpToString[e.addr]] = e.addr

(* ... host names that are ordinary words, belong to one uid, are no       *)
(* numbers, and did not change, ...                                        *)
PlainNames ==
  /\ ~ edited
  /\ \A u \in Uids :
       names[u] # Unnamed =>
         names[u] \notin Uids \cup Special /\ \A v \in Uids \ {u} : names[v] # names[u]

(* ... comments of one ordinary word, ... *)
PlainComments ==
  \A e \in Entries(saved) :
    e.comment = <<>>
      \/ (Len(e.comment) = 1 /\ Head(e.comment) \notin Special)

(* ... and nothing that only the maps of the other mode, or the ingress    *)
(* map alone, know of.                                                     *)
PlainMaps ==
  IF saved.server THEN saved.ingress = {} /\ saved.egress = {}
  ELSE /\ saved.users = {}
       /\ saved.ingress =
            {[addr |-> e.addr, uid |-> e.uid, port |-> e.port, key |-> e.key] : e \in saved.egress}

(* A dump of such a configuration, run as a script on a module just        *)
(* loaded, or in server mode on the one it was taken from, succeeds and    *)
(* restores every map.                                                     *)
RestoreFaithful ==
  PlainAddresses /\ PlainNames /\ PlainComments /\ PlainMaps /\ (fresh \/ saved.server) =>
    /\ pc # "failed"
    /\ pc = "done" => maps = saved

(* No word of a comment names another peer. *)
QuietComments ==
  \A e \in Entries(saved) :
    \A i \in DOMAIN e.comment : e.comment[i] \notin {"address", "addr", "uid", "user"}

(* In client mode a dump that is run on the very configuration it was      *)
(* taken from changes nothing, whatever else its comments hold: it stops   *)
(* at the first peer, which is there.                                      *)
RestoreHarmless ==
  /\ PlainAddresses /\ PlainNames /\ QuietComments
  /\ ~ fresh /\ ~ saved.server /\ pc \in {"done", "failed"}
  => maps = saved

(* README.md, "export and import of configuration scripts": comments come  *)
(* back as they were written, whatever their words.                        *)
CommentsRestored ==
  PlainAddresses /\ PlainNames /\ PlainMaps /\ fresh /\ pc \in {"done", "failed"} =>
    maps = saved
=============================================================================
