------------------------- MODULE ConfigScriptProofs -------------------------
(***************************************************************************)
(* A dump of a plain configuration restores it, and a dump that is run on  *)
(* the client it was taken from changes nothing, for any addresses, uids,  *)
(* ports, keys, ages and comments and for any number of peers.             *)
(***************************************************************************)
EXTENDS ConfigScript, SequenceTheorems, WellFoundedInduction, TLAPS

ArgsType == [Fields -> Word]

(* One more word of a command, after those that f has read. *)
Turn(cmd, f, ws) == IF ws = <<>> THEN NoArgs ELSE Take(cmd, f[Front(ws)], Last(ws))

(* f reads the commands of fewer than n words. *)
Short(n) == {ws \in Seq(Word) : Len(ws) < n}
Reads(cmd, f, n) == \A ws \in Short(n) : f[ws] = Turn(cmd, f, ws)

(* The words us set what ws did, and argument f to v. *)
Sets(cmd, ws, f, v, us) ==
  /\ us \in Seq(Word)
  /\ \A g \in Fields : Args(cmd, us)[g] = IF g = f THEN v ELSE Args(cmd, ws)[g]

(* Words that a script takes as they are. *)
Ordinary == Word \ Special

(* The line of a peer: its command, its arguments, and its comment. *)
Command(server) == IF server THEN "server-add" ELSE "client-add"
Header(server, e) ==
  IF server
  THEN ResolveHostname(e.uid) \o <<"addr", IpToString[e.addr]>>
         \o <<"icmp-id", e.icmp_id>> \o <<"port", e.port>> \o FormatXorKey(e.key)
  ELSE ResolveHostname(e.uid) \o <<"addr", IpToString[e.addr]>>
         \o <<"port", e.port>> \o FormatXorKey(e.key)

(* What is stored of a peer. *)
PeerOK(server, e) ==
  /\ e.addr \in Addrs /\ e.uid \in Uids /\ e.port \in Ports /\ e.key \in Keys
  /\ e.comment \in Comments
  /\ server => e.icmp_id \in IcmpIds
-----------------------------------------------------------------------------
(* Among natural numbers there is a least. *)
LEMMA LeastNatural ==
  ASSUME NEW T \in SUBSET Nat, T # {}
  PROVE  \E n \in T : \A m \in T : n <= m
<1>1. PICK n \in T : \A m \in T : ~ (<<m, n>> \in OpToRel(<, Nat))
  BY WFMin, NatLessThanWellFounded
<1>2. \A m \in T : ~ (m < n)
  BY <1>1 DEF OpToRel
<1> QED
  BY <1>2

(* Among some of the first there is a greatest. *)
LEMMA GreatestOfSome ==
  ASSUME NEW n \in Nat, NEW S \in SUBSET (1..n), S # {}
  PROVE  \E x \in S : \A y \in S : x >= y
<1> DEFINE T == {n - i : i \in S}
<1>1. T \in SUBSET Nat /\ T # {}
  <2>1. \A i \in S : n - i \in Nat
    OBVIOUS
  <2>2. PICK i \in S : TRUE
    OBVIOUS
  <2>3. n - i \in T
    BY <2>2
  <2> QED
    BY <2>1, <2>3
<1>2. PICK k \in T : \A m \in T : k <= m
  BY <1>1, LeastNatural
<1>3. PICK x \in S : k = n - x
  BY <1>2
<1>4. \A y \in S : n - x <= n - y
  BY <1>2, <1>3
<1> QED
  BY <1>4

(* A keyword and its value. *)
LEMMA PairIsSeq ==
  ASSUME NEW S, NEW x \in S, NEW y \in S
  PROVE  /\ <<x, y>> \in Seq(S)
         /\ Len(<<x, y>>) = 2
         /\ <<x, y>>[1] = x
         /\ <<x, y>>[2] = y
OBVIOUS

(* Two words more are one more, twice. *)
LEMMA PairIsAppended ==
  ASSUME NEW S, NEW x \in S, NEW y \in S, NEW s \in Seq(S)
  PROVE  s \o <<x, y>> = Append(Append(s, x), y)
OBVIOUS

(* Sequences of one and two, and a sequence after a first. *)
LEMMA Singleton ==
  ASSUME NEW S, NEW s \in Seq(S), Len(s) = 1
  PROVE  s[1] \in S /\ Head(s) = s[1] /\ s = <<s[1]>>
<1>1. s[1] \in S
  OBVIOUS
<1>2. Head(s) = s[1]
  OBVIOUS
<1> DEFINE r == <<s[1]>>
<1>3. r \in Seq(S) /\ Len(r) = 1 /\ r[1] = s[1]
  BY <1>1
<1> HIDE DEF r
<1>4. \A i \in 1..Len(s) : s[i] = r[i]
  BY <1>3
<1>5. s = r
  BY <1>3, <1>4, SeqEqual
<1> QED
  BY <1>1, <1>2, <1>5 DEF r

LEMMA OneAndOne ==
  ASSUME NEW S, NEW x \in S, NEW y \in S
  PROVE  <<x>> \o <<y>> = <<x, y>>
<1>1. <<x, y>> = Append(<<x>>, y)
  OBVIOUS
<1>2. <<x>> \o <<y>> = Append(<<x>>, y)
  OBVIOUS
<1> QED
  BY <1>1, <1>2

LEMMA FirstAndRest ==
  ASSUME NEW S, NEW x \in S, NEW s \in Seq(S)
  PROVE  /\ <<x>> \o s \in Seq(S)
         /\ <<x>> \o s # <<>>
         /\ Head(<<x>> \o s) = x
         /\ Tail(<<x>> \o s) = s
OBVIOUS

(* The last of an extended sequence, and what was before it. *)
LEMMA FrontLastAppend ==
  ASSUME NEW S, NEW s \in Seq(S), NEW x \in S
  PROVE  /\ Append(s, x) \in Seq(S)
         /\ Append(s, x) # <<>>
         /\ Front(Append(s, x)) = s
         /\ Last(Append(s, x)) = x
<1>1. Append(s, x) \in Seq(S) /\ Append(s, x) # <<>>
  BY AppendProperties
<1>2. Front(Append(s, x)) = s
  BY AppendProperties, SubSeqProperties DEF Front
<1>3. Last(Append(s, x)) = x
  BY AppendProperties DEF Last
<1> QED
  BY <1>1, <1>2, <1>3

(* A sequence without its last is shorter by one. *)
LEMMA FrontIsShorter ==
  ASSUME NEW S, NEW s \in Seq(S), s # <<>>
  PROVE  Front(s) \in Seq(S) /\ Len(Front(s)) = Len(s) - 1 /\ Len(s) \in Nat \ {0} /\ Last(s) \in S
<1>1. Len(s) \in Nat \ {0}
  BY EmptySeq, LenProperties
<1>2. Front(s) \in Seq(S) /\ Len(Front(s)) = Len(s) - 1
  <2> DEFINE n == Len(s) - 1
  <2>1. n \in Nat /\ n + 1 = Len(s) /\ n <= Len(s)
    BY <1>1
  <2> HIDE DEF n
  <2>2. SubSeq(s, 1, n) \in Seq(S) /\ Len(SubSeq(s, 1, n)) = n
    <3>1. CASE n = 0
      BY <2>1, <3>1, SubSeqEmpty
    <3>2. CASE n > 0
      BY <2>1, <3>2
    <3> QED
      BY <2>1, <3>1, <3>2
  <2> QED
    BY <2>2 DEF Front, n
<1>3. Last(s) \in S
  BY <1>1, ElementOfSeq DEF Last
<1> QED
  BY <1>1, <1>2, <1>3
-----------------------------------------------------------------------------
(* Two readers agree on what both can read. *)
LEMMA ReadsAgree ==
  ASSUME NEW cmd, NEW f, NEW g, NEW n \in Nat, NEW m \in Nat,
         Reads(cmd, f, n), Reads(cmd, g, m)
  PROVE  \A ws \in Short(n) \cap Short(m) : f[ws] = g[ws]
<1> DEFINE B == {ws \in Short(n) \cap Short(m) : f[ws] # g[ws]}
           T == {Len(ws) : ws \in B}
<1> SUFFICES ASSUME B # {} PROVE FALSE
  OBVIOUS
<1>1. T \in SUBSET Nat /\ T # {}
  <2>1. \A ws \in B : Len(ws) \in Nat
    BY DEF Short
  <2> QED
    BY <2>1
<1>2. PICK k \in T : \A j \in T : k <= j
  BY <1>1, LeastNatural
<1>3. PICK ws \in B : Len(ws) = k
  BY <1>2
<1>4. f[ws] = Turn(cmd, f, ws) /\ g[ws] = Turn(cmd, g, ws) /\ f[ws] # g[ws]
  BY <1>3 DEF Reads
<1>5. ws # <<>>
  BY <1>4 DEF Turn
<1>6. ws \in Seq(Word) /\ Len(ws) < n /\ Len(ws) < m
  BY <1>3 DEF Short
<1>7. Front(ws) \in Seq(Word) /\ Len(Front(ws)) = Len(ws) - 1 /\ Len(ws) \in Nat \ {0}
  BY <1>5, <1>6, FrontIsShorter
<1>8. Front(ws) \in Short(n) \cap Short(m)
  BY <1>6, <1>7 DEF Short
<1>9. Front(ws) \notin B
  BY <1>2, <1>3, <1>6, <1>7
<1>10. f[Front(ws)] = g[Front(ws)]
  BY <1>8, <1>9
<1> QED
  BY <1>4, <1>5, <1>10 DEF Turn

(* There is a reader for every length. *)
LEMMA ReaderExists ==
  ASSUME NEW cmd, NEW n \in Nat
  PROVE  \E f : Reads(cmd, f, n)
<1> DEFINE T == {k \in Nat : ~ \E f : Reads(cmd, f, k)}
<1> SUFFICES ASSUME T # {} PROVE FALSE
  OBVIOUS
<1>1. PICK k \in T : \A j \in T : k <= j
  BY LeastNatural
<1>2. k # 0
  <2>1. Reads(cmd, <<>>, 0)
    BY DEF Reads, Short
  <2> QED
    BY <2>1
<1>3. k - 1 \in Nat /\ k - 1 \notin T
  BY <1>1, <1>2
<1>4. PICK f : Reads(cmd, f, k - 1)
  BY <1>3
<1> DEFINE g == [ws \in Short(k) |-> Turn(cmd, f, ws)]
<1>5. ASSUME NEW ws \in Short(k) PROVE g[ws] = Turn(cmd, g, ws)
  <2>1. CASE ws = <<>>
    BY <2>1 DEF Turn
  <2>2. CASE ws # <<>>
    <3>1. ws \in Seq(Word) /\ Len(ws) < k /\ Len(ws) \in Nat
      BY DEF Short
    <3>2. Front(ws) \in Seq(Word) /\ Len(Front(ws)) = Len(ws) - 1 /\ Len(ws) \in Nat \ {0}
      BY <2>2, <3>1, FrontIsShorter
    <3>3. Front(ws) \in Short(k - 1) /\ Front(ws) \in Short(k)
      BY <1>3, <3>1, <3>2 DEF Short
    <3>4. g[Front(ws)] = f[Front(ws)]
      BY <1>4, <3>3 DEF Reads
    <3> QED
      BY <2>2, <3>4 DEF Turn
  <2> QED
    BY <2>1, <2>2
<1>6. Reads(cmd, g, k)
  BY <1>5 DEF Reads
<1> QED
  BY <1>6

(* So Args is what the loop over the arguments says, for every command. *)
LEMMA ArgsUnfold ==
  ASSUME NEW cmd
  PROVE  /\ Args(cmd, <<>>) = NoArgs
         /\ \A ws \in Seq(Word), w \in Word :
              Args(cmd, Append(ws, w)) = Take(cmd, Args(cmd, ws), w)
<1> DEFINE some(n) == CHOOSE f : Reads(cmd, f, n)
           whole == [ws \in Seq(Word) |-> some(Len(ws) + 1)[ws]]
           eqn(f) == f = [ws \in Seq(Word) |-> Turn(cmd, f, ws)]
           args == CHOOSE f : eqn(f)
<1>1. \A n \in Nat : Reads(cmd, some(n), n)
  BY ReaderExists
<1> HIDE DEF some
<1>2. ASSUME NEW ws \in Seq(Word) PROVE whole[ws] = Turn(cmd, whole, ws)
  <2>1. Len(ws) \in Nat /\ ws \in Short(Len(ws) + 1)
    BY DEF Short
  <2>2. whole[ws] = Turn(cmd, some(Len(ws) + 1), ws)
    BY <1>1, <2>1 DEF Reads
  <2>3. CASE ws = <<>>
    BY <2>2, <2>3 DEF Turn
  <2>4. CASE ws # <<>>
    <3> DEFINE fr == Front(ws)
    <3>1. fr \in Seq(Word) /\ Len(fr) < Len(ws) /\ Len(fr) \in Nat
      BY <2>4, FrontIsShorter
    <3>2. fr \in Short(Len(ws) + 1) \cap Short(Len(fr) + 1)
      BY <2>1, <3>1 DEF Short
    <3>3. some(Len(ws) + 1)[fr] = some(Len(fr) + 1)[fr]
      <4>1. Reads(cmd, some(Len(ws) + 1), Len(ws) + 1) /\ Reads(cmd, some(Len(fr) + 1), Len(fr) + 1)
        BY <1>1, <2>1, <3>1
      <4> QED
        BY <2>1, <3>1, <3>2, <4>1, ReadsAgree
    <3>4. whole[fr] = some(Len(ws) + 1)[fr]
      BY <3>1, <3>3
    <3> QED
      BY <2>2, <2>4, <3>4 DEF Turn
  <2> QED
    BY <2>3, <2>4
<1>3. eqn(whole)
  BY <1>2
<1> HIDE DEF whole
<1>4. eqn(args)
  BY <1>3
<1>5. \A ws \in Seq(Word) : Args(cmd, ws) = args[ws]
  BY DEF Args, Turn
<1> HIDE DEF args
<1>6. <<>> \in Seq(Word)
  OBVIOUS
<1>7. Args(cmd, <<>>) = NoArgs
  BY <1>4, <1>5, <1>6 DEF Turn
<1>8. ASSUME NEW ws \in Seq(Word), NEW w \in Word
      PROVE  Args(cmd, Append(ws, w)) = Take(cmd, Args(cmd, ws), w)
  <2> DEFINE more == Append(ws, w)
  <2>1. more \in Seq(Word) /\ more # <<>> /\ Front(more) = ws /\ Last(more) = w
    BY FrontLastAppend
  <2> HIDE DEF more
  <2>2. args[more] = Take(cmd, args[ws], w)
    BY <1>4, <2>1 DEF Turn
  <2>3. Args(cmd, more) = Take(cmd, Args(cmd, ws), w)
    BY <1>5, <2>1, <2>2
  <2> QED
    BY <2>3 DEF more
<1> QED
  BY <1>7, <1>8

(* The words that the program itself knows. *)
LEMMA KnownWords == Literals \cup Fields \cup {"", "0", "60", "error"} \subseteq Word
BY ConfigAssumption

LEMMA KeywordField ==
  ASSUME NEW cmd, NEW w
  PROVE  Keyword(cmd, w) \in (Fields \ {"expects"}) \cup {""}
BY DEF Keyword, Fields

(* Every value of the loop is a function of the arguments. *)
LEMMA TakeType ==
  ASSUME NEW cmd, NEW a \in ArgsType, NEW w \in Word
  PROVE  Take(cmd, a, w) \in ArgsType
<1>1. Keyword(cmd, w) \in Word /\ "" \in Word /\ "error" \in Word
  BY KeywordField, KnownWords
<1>2. "expects" \in Fields
  BY DEF Fields
<1>3. [a EXCEPT !.expects = Keyword(cmd, w)] \in ArgsType
  BY <1>1, <1>2 DEF ArgsType
<1>4. [a EXCEPT ![a.expects] = w, !.expects = ""] \in ArgsType
  BY <1>1, <1>2 DEF ArgsType
<1>5. [a EXCEPT !.expects = "error"] \in ArgsType
  BY <1>1, <1>2 DEF ArgsType
<1> QED
  BY <1>3, <1>4, <1>5 DEF Take

LEMMA ArgsHaveType ==
  ASSUME NEW cmd, NEW ws \in Seq(Word)
  PROVE  Args(cmd, ws) \in ArgsType
<1> DEFINE B == {us \in Seq(Word) : Args(cmd, us) \notin ArgsType}
           T == {Len(us) : us \in B}
<1> SUFFICES ASSUME B # {} PROVE FALSE
  OBVIOUS
<1>1. T \in SUBSET Nat /\ T # {}
  <2>1. \A us \in B : Len(us) \in Nat
    OBVIOUS
  <2> QED
    BY <2>1
<1>2. PICK k \in T : \A j \in T : k <= j
  BY <1>1, LeastNatural
<1>3. PICK us \in B : Len(us) = k
  BY <1>2
<1>4. us # <<>>
  <2>1. NoArgs \in ArgsType
    BY KnownWords DEF NoArgs, ArgsType
  <2> QED
    BY <1>3, <2>1, ArgsUnfold
<1>5. /\ Front(us) \in Seq(Word) /\ Len(Front(us)) = Len(us) - 1 /\ Len(us) \in Nat \ {0}
      /\ Last(us) \in Word
  BY <1>3, <1>4, FrontIsShorter
<1>6. us = Append(Front(us), Last(us))
  BY <1>3, <1>4, <1>5 DEF Front, Last
<1>7. Front(us) \notin B
  BY <1>2, <1>3, <1>5
<1>8. Args(cmd, Front(us)) \in ArgsType
  BY <1>5, <1>7
<1>9. Args(cmd, us) = Take(cmd, Args(cmd, Front(us)), Last(us))
  BY <1>5, <1>6, ArgsUnfold
<1> QED
  BY <1>3, <1>5, <1>8, <1>9, TakeType

(* A keyword and a value that parses set one argument and nothing else. *)
LEMMA PairSets ==
  ASSUME NEW cmd, NEW ws \in Seq(Word), NEW k \in Word, NEW v \in Word,
         NEW field \in Fields \ {"expects"}, Keyword(cmd, k) = field, Parses(field, v),
         Args(cmd, ws).expects = ""
  PROVE  Sets(cmd, ws, field, v, ws \o <<k, v>>)
<1> DEFINE a == Args(cmd, ws)
           b == [a EXCEPT !.expects = Keyword(cmd, k)]
           c == [b EXCEPT ![b.expects] = v, !.expects = ""]
<1>1. a \in ArgsType
  BY ArgsHaveType
<1>2. ws \o <<k, v>> = Append(Append(ws, k), v) /\ Append(ws, k) \in Seq(Word)
      /\ ws \o <<k, v>> \in Seq(Word)
  <2>1. ws \o <<k, v>> = Append(Append(ws, k), v)
    BY PairIsAppended
  <2>2. Append(ws, k) \in Seq(Word)
    BY FrontLastAppend
  <2>3. Append(Append(ws, k), v) \in Seq(Word)
    BY <2>2, FrontLastAppend
  <2> QED
    BY <2>1, <2>2, <2>3
<1>3. Args(cmd, ws \o <<k, v>>) = Take(cmd, Take(cmd, a, k), v)
  BY <1>2, ArgsUnfold
<1> HIDE DEF a
<1>4. Take(cmd, a, k) = b
  BY DEF Take, a
<1>5. "expects" \in Fields /\ b \in [Fields -> Word] /\ b.expects = Keyword(cmd, k) /\ b.expects # ""
  <2>1. "expects" \in Fields /\ Keyword(cmd, k) \in Word /\ Keyword(cmd, k) # ""
    BY KnownWords DEF Fields
  <2> QED
    BY <1>1, <2>1 DEF ArgsType
<1> HIDE DEF b
<1>6. Take(cmd, b, v) = c
  BY <1>5 DEF Take
<1>7. \A f \in Fields : c[f] = IF f = "expects" THEN "" ELSE IF f = Keyword(cmd, k) THEN v ELSE b[f]
  BY <1>5
<1>8. \A f \in Fields : f # "expects" => b[f] = a[f]
  BY <1>1, <1>5 DEF b, ArgsType
<1>9. \A f \in Fields : c[f] = IF f = Keyword(cmd, k) THEN v ELSE a[f]
  <2>1. a["expects"] = "" /\ Keyword(cmd, k) # "expects"
    BY DEF a
  <2> HIDE DEF c
  <2> QED
    BY <1>7, <1>8, <2>1
<1> HIDE DEF c
<1>10. Args(cmd, ws \o <<k, v>>) = c
  BY <1>3, <1>4, <1>6
<1> QED
  BY <1>2, <1>9, <1>10 DEF a, Sets
-----------------------------------------------------------------------------
(* The arguments of a peer in a dump, read again. *)

LEMMA OrdinaryPairSets ==
  ASSUME NEW cmd, NEW ws \in Seq(Ordinary), NEW k \in Ordinary, NEW v \in Ordinary,
         NEW f \in Fields \ {"expects"}, Keyword(cmd, k) = f, Parses(f, v),
         Args(cmd, ws).expects = ""
  PROVE  ws \o <<k, v>> \in Seq(Ordinary) /\ Sets(cmd, ws, f, v, ws \o <<k, v>>)
<1>1. ws \in Seq(Word)
  BY SeqMonotonic DEF Ordinary
<1>2. k \in Word /\ v \in Word
  BY DEF Ordinary
<1>3. Append(ws, k) \in Seq(Ordinary)
  BY FrontLastAppend
<1>4. Append(Append(ws, k), v) \in Seq(Ordinary)
  BY <1>3, FrontLastAppend
<1>5. ws \o <<k, v>> \in Seq(Ordinary)
  BY <1>4, PairIsAppended
<1> QED
  BY <1>1, <1>2, <1>5, PairSets, Zenon

LEMMA LiteralsOrdinary ==
  /\ Literals \cup Uids \cup Ports \cup IcmpIds \cup Ages \cup Keys \subseteq Ordinary
  /\ {"server", "max-age", "client", "server-add", "client-add", "uid", "user", "addr",
       "icmp-id", "port", "xor", "comment", "10.0.0.1", "fd00::1", "0.0.0.1"} \subseteq Ordinary
BY ConfigAssumption DEF Ordinary, Literals

LEMMA KeywordsOfPeers ==
  /\ \A cmd \in {"client-add", "server-add"} :
       /\ Keyword(cmd, "uid") = "uid" /\ Keyword(cmd, "user") = "uid"
       /\ Keyword(cmd, "addr") = "addr" /\ Keyword(cmd, "port") = "port"
       /\ Keyword(cmd, "xor") = "key" /\ Keyword(cmd, "comment") = "comment"
  /\ Keyword("server-add", "icmp-id") = "icmp_id"
BY DEF Keyword

(* An address that is written is read as some address. *)
LEMMA AddressText ==
  ASSUME NEW a \in Addrs
  PROVE  IpToString[a] \in DOMAIN ResolveIp /\ IpToString[a] \in Ordinary
<1>1. IpToString[a] \in {"10.0.0.1", "fd00::1", "0.0.0.1"}
  BY ConfigAssumption DEF IpToString
<1>2. DOMAIN ResolveIp = {"10.0.0.1", "fd00::1", "0.0.0.1"}
  BY DEF ResolveIp
<1> QED
  BY <1>1, <1>2, LiteralsOrdinary

(* A host name, or a uid, leads back to the uid it was written for. *)
LEMMA HostRoundTrip ==
  ASSUME NEW u \in Uids, names \in [Uids -> Word], PlainNames
  PROVE  \E k \in {"uid", "user"}, w \in Ordinary :
           ResolveHostname(u) = <<k, w>> /\ ResolveUid(w) = {u} /\ w # ""
<1>1. \A v \in Uids : names[v] # Unnamed =>
        /\ names[v] \notin Uids /\ names[v] \notin Special
        /\ \A x \in Uids \ {v} : names[x] # names[v]
  BY DEF PlainNames
<1>2. u \in Ordinary /\ u # ""
  BY LiteralsOrdinary, ConfigAssumption
<1>3. CASE numeric \/ names[u] = Unnamed
  <2>1. ResolveHostname(u) = <<"uid", u>>
    BY <1>3 DEF ResolveHostname
  <2>2. {v \in Uids : names[v] # Unnamed /\ names[v] = u} = {}
    BY <1>1
  <2>3. ResolveUid(u) = {u}
    BY <2>2 DEF ResolveUid
  <2> QED
    BY <1>2, <2>1, <2>3
<1>4. CASE ~ (numeric \/ names[u] = Unnamed)
  <2>1. ResolveHostname(u) = <<"user", names[u]>>
    BY <1>4 DEF ResolveHostname
  <2>2. names[u] \in Ordinary /\ names[u] # ""
    BY <1>1, <1>4 DEF Ordinary, Unnamed
  <2>3. {v \in Uids : names[v] # Unnamed /\ names[v] = names[u]} = {u}
    BY <1>1, <1>4
  <2>4. ResolveUid(names[u]) = {u}
    BY <2>3 DEF ResolveUid
  <2> QED
    BY <2>1, <2>2, <2>4
<1> QED
  BY <1>3, <1>4

(* The arguments are read as what they were written for. *)
LEMMA HeaderReads ==
  ASSUME NEW server \in BOOLEAN, NEW e, PeerOK(server, e),
         names \in [Uids -> Word], PlainNames
  PROVE  LET a == Args(Command(server), Header(server, e)) IN
         /\ Header(server, e) \in Seq(Ordinary)
         /\ a \in ArgsType
         /\ a.expects = "" /\ a.comment = ""
         /\ a.addr = IpToString[e.addr]
         /\ a.port = e.port
         /\ a.key = e.key
         /\ a.uid # "" /\ ResolveUid(a.uid) = {e.uid}
         /\ server => a.icmp_id = e.icmp_id
<1> DEFINE cmd == Command(server)
           x == IpToString[e.addr]
<1>1. cmd \in {"client-add", "server-add"} /\ (server => cmd = "server-add")
  BY DEF Command
<1>2. /\ e.addr \in Addrs /\ e.uid \in Uids /\ e.port \in Ports /\ e.key \in Keys
      /\ server => e.icmp_id \in IcmpIds
  BY DEF PeerOK
<1> HIDE DEF cmd
<1>3. PICK k \in {"uid", "user"}, w \in Ordinary :
        ResolveHostname(e.uid) = <<k, w>> /\ ResolveUid(w) = {e.uid} /\ w # ""
  BY <1>2, HostRoundTrip
<1> DEFINE w1 == <<k, w>>
           w2 == w1 \o <<"addr", x>>
           w3 == IF server THEN w2 \o <<"icmp-id", e.icmp_id>> ELSE w2
           w4 == w3 \o <<"port", e.port>>
           w5 == w4 \o FormatXorKey(e.key)
<1>4. Header(server, e) = w5
  BY <1>3 DEF Header
<1>5. w1 \in Seq(Ordinary) /\ Sets(cmd, <<>>, "uid", w, w1)
  <2>1. <<>> \in Seq(Ordinary) /\ k \in Ordinary /\ Keyword(cmd, k) = "uid"
        /\ "uid" \in Fields \ {"expects"}
    BY <1>1, LiteralsOrdinary, KeywordsOfPeers DEF Fields
  <2>2. Parses("uid", w)
    BY <1>3 DEF Parses
  <2>3. Args(cmd, <<>>).expects = ""
    BY ArgsUnfold DEF NoArgs, Fields
  <2>4. <<>> \o w1 = w1
    BY <2>1
  <2>5. <<>> \o w1 \in Seq(Ordinary) /\ Sets(cmd, <<>>, "uid", w, <<>> \o w1)
    BY <2>1, <2>2, <2>3, OrdinaryPairSets, Zenon
  <2> QED
    BY <2>4, <2>5
<1> HIDE DEF w1
<1>6. w2 \in Seq(Ordinary) /\ Sets(cmd, w1, "addr", x, w2)
  <2>1. "addr" \in Ordinary /\ Keyword(cmd, "addr") = "addr" /\ "addr" \in Fields \ {"expects"}
    BY <1>1, LiteralsOrdinary, KeywordsOfPeers DEF Fields
  <2>2. Parses("addr", x) /\ x \in Ordinary
    BY <1>2, AddressText DEF Parses
  <2>3. Args(cmd, w1).expects = ""
    BY <1>5, ArgsUnfold DEF Sets, NoArgs, Fields
  <2> QED
    BY <1>5, <2>1, <2>2, <2>3, OrdinaryPairSets, Zenon
<1>7. Args(cmd, w2).expects = "" /\ Args(cmd, w2).key = "" /\ Args(cmd, w2).comment = ""
      /\ Args(cmd, w2).addr = x /\ Args(cmd, w2).uid = w
  <2>1. Args(cmd, <<>>) = NoArgs
    BY ArgsUnfold
  <2>2. Args(cmd, <<>>).expects = "" /\ Args(cmd, <<>>).key = "" /\ Args(cmd, <<>>).comment = ""
    BY <2>1 DEF NoArgs, Fields
  <2>3. Args(cmd, w1).expects = "" /\ Args(cmd, w1).key = "" /\ Args(cmd, w1).comment = ""
        /\ Args(cmd, w1).uid = w
    BY <1>5, <2>2 DEF Sets, Fields
  <2> HIDE DEF w2
  <2> QED
    BY <1>6, <2>3 DEF Sets, Fields
<1> HIDE DEF w2
<1>8. /\ w3 \in Seq(Ordinary)
      /\ Args(cmd, w3).expects = "" /\ Args(cmd, w3).key = "" /\ Args(cmd, w3).comment = ""
      /\ Args(cmd, w3).addr = x /\ Args(cmd, w3).uid = w
      /\ server => Args(cmd, w3).icmp_id = e.icmp_id
  <2>1. CASE ~ server
    BY <1>6, <1>7, <2>1
  <2>2. CASE server
    <3>1. "icmp-id" \in Ordinary /\ Keyword(cmd, "icmp-id") = "icmp_id"
          /\ "icmp_id" \in Fields \ {"expects"}
      BY <1>1, <2>2, LiteralsOrdinary, KeywordsOfPeers DEF Fields
    <3>2. Parses("icmp_id", e.icmp_id) /\ e.icmp_id \in Ordinary
      BY <1>2, <2>2, LiteralsOrdinary DEF Parses
    <3>3. w2 \o <<"icmp-id", e.icmp_id>> \in Seq(Ordinary)
          /\ Sets(cmd, w2, "icmp_id", e.icmp_id, w2 \o <<"icmp-id", e.icmp_id>>)
      BY <1>6, <1>7, <3>1, <3>2, OrdinaryPairSets, Zenon
    <3>4. w3 = w2 \o <<"icmp-id", e.icmp_id>>
      BY <2>2
    <3> HIDE DEF w3
    <3>5. w3 \in Seq(Ordinary) /\ Sets(cmd, w2, "icmp_id", e.icmp_id, w3)
      BY <3>3, <3>4
    <3> QED
      BY <1>7, <3>5 DEF Sets, Fields
  <2> QED
    BY <2>1, <2>2
<1> HIDE DEF w3
<1>9. /\ w4 \in Seq(Ordinary)
      /\ Args(cmd, w4).expects = "" /\ Args(cmd, w4).key = "" /\ Args(cmd, w4).comment = ""
      /\ Args(cmd, w4).addr = x /\ Args(cmd, w4).uid = w /\ Args(cmd, w4).port = e.port
      /\ server => Args(cmd, w4).icmp_id = e.icmp_id
  <2>1. "port" \in Ordinary /\ Keyword(cmd, "port") = "port" /\ "port" \in Fields \ {"expects"}
    BY <1>1, LiteralsOrdinary, KeywordsOfPeers DEF Fields
  <2>2. Parses("port", e.port) /\ e.port \in Ordinary
    BY <1>2, LiteralsOrdinary DEF Parses
  <2>3. w4 \in Seq(Ordinary) /\ Sets(cmd, w3, "port", e.port, w4)
    BY <1>8, <2>1, <2>2, OrdinaryPairSets, Zenon
  <2> HIDE DEF w4
  <2> QED
    BY <1>8, <2>3 DEF Sets, Fields
<1> HIDE DEF w4
<1>10. /\ w5 \in Seq(Ordinary)
       /\ Args(cmd, w5).expects = "" /\ Args(cmd, w5).key = e.key /\ Args(cmd, w5).comment = ""
       /\ Args(cmd, w5).addr = x /\ Args(cmd, w5).uid = w /\ Args(cmd, w5).port = e.port
       /\ server => Args(cmd, w5).icmp_id = e.icmp_id
  <2>1. CASE e.key = ""
    <3>1. w5 = w4
      <4>1. FormatXorKey(e.key) = <<>>
        BY <2>1 DEF FormatXorKey
      <4> QED
        BY <1>9, <4>1, ConcatEmptySeq
    <3> QED
      BY <1>9, <2>1, <3>1
  <2>2. CASE e.key # ""
    <3>1. "xor" \in Ordinary /\ Keyword(cmd, "xor") = "key" /\ "key" \in Fields \ {"expects"}
      BY <1>1, LiteralsOrdinary, KeywordsOfPeers DEF Fields
    <3>2. Parses("key", e.key) /\ e.key \in Ordinary
      BY <1>2, LiteralsOrdinary DEF Parses
    <3>3. w4 \o <<"xor", e.key>> \in Seq(Ordinary)
          /\ Sets(cmd, w4, "key", e.key, w4 \o <<"xor", e.key>>)
      BY <1>9, <3>1, <3>2, OrdinaryPairSets, Zenon
    <3>4. w5 = w4 \o <<"xor", e.key>>
      BY <2>2 DEF FormatXorKey
    <3> HIDE DEF w5
    <3>5. w5 \in Seq(Ordinary) /\ Sets(cmd, w4, "key", e.key, w5)
      BY <3>3, <3>4
    <3> QED
      BY <1>9, <3>5 DEF Sets, Fields
  <2> QED
    BY <2>1, <2>2
<1> HIDE DEF w5, x
<1>11. Args(cmd, w5) \in ArgsType
  <2>1. w5 \in Seq(Word)
    BY <1>10, SeqMonotonic DEF Ordinary
  <2> QED
    BY <2>1, ArgsHaveType
<1> QED
  BY <1>3, <1>4, <1>10, <1>11 DEF cmd, x
-----------------------------------------------------------------------------
(* Lines of a script. *)

(* Ordinary words are not cut off. *)
LEMMA OrdinaryLine ==
  ASSUME NEW ws \in Seq(Ordinary)
  PROVE  /\ SubCommand(ws) = ws
         /\ Rest(ws) = <<>>
         /\ Shlex(ws) = ws
         /\ \A i \in DOMAIN ws : ws[i] \notin Unclosed
<1>1. \A i \in DOMAIN ws : ws[i] \notin Special
  <2>1. \A i \in DOMAIN ws : ws[i] \in Ordinary
    BY ElementOfSeq
  <2> QED
    BY <2>1 DEF Ordinary
<1>2. \A i \in DOMAIN ws : ws[i] \notin {";"} /\ ws[i] \notin Hashed /\ ws[i] \notin Unclosed
  BY <1>1 DEF Special
<1>3. {i \in DOMAIN ws : ws[i] \in {";"}} = {} /\ {i \in DOMAIN ws : ws[i] \in Hashed} = {}
  BY <1>2
<1>4. SubCommand(ws) = ws /\ Shlex(ws) = ws
  BY <1>3 DEF SubCommand, Shlex, Upto
<1>5. Rest(ws) = <<>>
  <2>1. Rest(ws) = SubSeq(ws, Len(ws) + 2, Len(ws))
    BY <1>4 DEF Rest
  <2>2. Len(ws) \in Nat
    OBVIOUS
  <2> QED
    BY <2>1, <2>2
<1> QED
  BY <1>2, <1>4, <1>5

(* A comment is left out, or is the word after the keyword. *)
LEMMA PlainComment ==
  ASSUME NEW comment \in Comments,
         comment = <<>> \/ (Len(comment) = 1 /\ Head(comment) \notin Special)
  PROVE  \/ comment = <<>> /\ FormatComment(comment) = <<>>
         \/ \E w \in Ordinary \ {""} :
              comment = <<w>> /\ FormatComment(comment) = <<"comment", w>>
<1>1. CASE comment = <<>>
  BY <1>1 DEF FormatComment
<1>2. CASE comment # <<>>
  <2>1. comment \in Seq(Word \ {""}) /\ Len(comment) = 1 /\ Head(comment) \notin Special
    BY <1>2, ConfigAssumption
  <2> DEFINE w == comment[1]
  <2>2. w \in Word \ {""} /\ Head(comment) = w /\ comment = <<w>>
    BY <2>1, Singleton
  <2> HIDE DEF w
  <2>3. FormatComment(comment) = <<"comment">> \o <<w>>
    BY <1>2, <2>2 DEF FormatComment
  <2>4. <<"comment">> \o <<w>> = <<"comment", w>>
    <3>1. "comment" \in Word /\ w \in Word
      BY <2>2, KnownWords DEF Fields
    <3> QED
      BY <3>1, OneAndOne
  <2> QED
    BY <2>1, <2>2, <2>3, <2>4 DEF Ordinary
<1> QED
  BY <1>1, <1>2

(* The line of a peer is read as that peer. *)
LEMMA PlainLine ==
  ASSUME NEW server \in BOOLEAN, NEW e, PeerOK(server, e),
         names \in [Uids -> Word], PlainNames,
         e.comment = <<>> \/ (Len(e.comment) = 1 /\ Head(e.comment) \notin Special),
         ResolveIp[IpToString[e.addr]] = e.addr
  PROVE  LET line == PeerLine(server, e)
             a == Args(Command(server), Tail(line)) IN
         /\ line \in Seq(Ordinary) /\ line # <<>> /\ Head(line) = Command(server)
         /\ Valid(a) /\ ResolveUid(a.uid) = {e.uid}
         /\ ClientPeer(a, e.uid) =
              [addr |-> e.addr, uid |-> e.uid, port |-> e.port, key |-> e.key,
               comment |-> e.comment]
         /\ server => a.icmp_id = e.icmp_id
<1> DEFINE cmd == Command(server)
           h == Header(server, e)
           t == h \o FormatComment(e.comment)
           a == Args(cmd, h)
           b == Args(cmd, t)
<1>1. PeerLine(server, e) = <<cmd>> \o t
  BY DEF PeerLine, Command, Header
<1>2. cmd \in {"client-add", "server-add"} /\ cmd \in Ordinary
  BY LiteralsOrdinary DEF Command
<1>3. /\ h \in Seq(Ordinary) /\ a \in ArgsType
      /\ a.expects = "" /\ a.comment = "" /\ a.addr = IpToString[e.addr] /\ a.port = e.port
      /\ a.key = e.key /\ a.uid # "" /\ ResolveUid(a.uid) = {e.uid}
      /\ server => a.icmp_id = e.icmp_id
  BY HeaderReads
<1>4. e.addr \in Addrs /\ e.port \in Ports /\ e.key \in Keys /\ e.comment \in Comments
  BY DEF PeerOK
<1> HIDE DEF cmd, h
<1>5. /\ t \in Seq(Ordinary)
      /\ b.expects = "" /\ b.addr = a.addr /\ b.port = a.port /\ b.key = a.key
      /\ b.uid = a.uid /\ b.icmp_id = a.icmp_id
      /\ e.comment = IF b.comment = "" THEN <<>> ELSE <<b.comment>>
  <2>1. CASE e.comment = <<>> /\ FormatComment(e.comment) = <<>>
    <3>1. t = h
      BY <1>3, <2>1, ConcatEmptySeq
    <3> QED
      BY <1>3, <2>1, <3>1
  <2>2. CASE \E w \in Ordinary \ {""} :
               e.comment = <<w>> /\ FormatComment(e.comment) = <<"comment", w>>
    <3>1. PICK w \in Ordinary \ {""} :
            e.comment = <<w>> /\ FormatComment(e.comment) = <<"comment", w>>
      BY <2>2
    <3>2. "comment" \in Ordinary /\ Keyword(cmd, "comment") = "comment"
          /\ "comment" \in Fields \ {"expects"}
      BY <1>2, LiteralsOrdinary, KeywordsOfPeers DEF Fields
    <3>3. Parses("comment", w) /\ w \in Ordinary
      BY DEF Parses
    <3>4. h \o <<"comment", w>> \in Seq(Ordinary)
          /\ Sets(cmd, h, "comment", w, h \o <<"comment", w>>)
      BY <1>3, <3>2, <3>3, OrdinaryPairSets, Zenon
    <3>5. t = h \o <<"comment", w>>
      BY <3>1
    <3> HIDE DEF t
    <3>6. t \in Seq(Ordinary) /\ Sets(cmd, h, "comment", w, t)
      BY <3>4, <3>5
    <3>7. b.expects = "" /\ b.addr = a.addr /\ b.port = a.port /\ b.key = a.key
          /\ b.uid = a.uid /\ b.icmp_id = a.icmp_id /\ b.comment = w
      BY <1>3, <3>6 DEF Sets, Fields
    <3> QED
      BY <3>1, <3>6, <3>7
  <2> QED
    BY <1>4, <2>1, <2>2, PlainComment
<1> HIDE DEF t, a, b
<1>6. /\ PeerLine(server, e) \in Seq(Ordinary) /\ PeerLine(server, e) # <<>>
      /\ Head(PeerLine(server, e)) = cmd /\ Tail(PeerLine(server, e)) = t
  <2>1. cmd \in Ordinary /\ t \in Seq(Ordinary)
    BY <1>2, <1>5
  <2>2. /\ <<cmd>> \o t \in Seq(Ordinary) /\ <<cmd>> \o t # <<>>
        /\ Head(<<cmd>> \o t) = cmd /\ Tail(<<cmd>> \o t) = t
    BY <2>1, FirstAndRest
  <2> QED
    BY <1>1, <2>2
<1>7. Valid(b)
  BY <1>3, <1>4, <1>5, AddressText DEF Valid
<1>8. ClientPeer(b, e.uid) =
        [addr |-> e.addr, uid |-> e.uid, port |-> e.port, key |-> e.key, comment |-> e.comment]
  BY <1>3, <1>5 DEF ClientPeer
<1> QED
  BY <1>3, <1>5, <1>6, <1>7, <1>8 DEF b, cmd
-----------------------------------------------------------------------------
(* The maps and the file of host names. *)

Peers == [addr : Addrs, uid : Uids, port : Ports, key : Keys, comment : Comments]
Users ==
  [addr : Addrs, uid : Uids, port : Ports, key : Keys, comment : Comments, icmp_id : IcmpIds]
IngressOf(e) == [addr |-> e.addr, uid |-> e.uid, port |-> e.port, key |-> e.key]

MapsType ==
  [server : BOOLEAN, age : Ages \cup {"0"},
   ingress : SUBSET [addr : Addrs, uid : Uids, port : Ports, key : Keys],
   egress : SUBSET Peers, users : SUBSET Users]

(* The keys of the kernel's maps, and a peer in both maps of a client. *)
Keyed(m) ==
  /\ m \in MapsType
  /\ IF m.server THEN m.age \in Ages ELSE m.age = "0"
  /\ \A i, j \in m.ingress : i.addr = j.addr /\ i.uid = j.uid => i = j
  /\ \A i, j \in m.egress : i.addr = j.addr /\ i.port = j.port => i = j
  /\ \A i, j \in m.users : i.uid = j.uid => i = j
  /\ \A e \in m.egress : \E i \in m.ingress : i.addr = e.addr /\ i.uid = e.uid

LEMMA SameMaps ==
  ASSUME NEW m \in MapsType, NEW n \in MapsType,
         m.server = n.server, m.age = n.age, m.ingress = n.ingress, m.egress = n.egress,
         m.users = n.users
  PROVE  m = n
BY DEF MapsType

(* The last line for a uid is one of the file. *)
LEMMA LoadHasType ==
  ASSUME NEW f \in UidFiles
  PROVE  Load(f) \in [Uids -> Word]
<1> SUFFICES ASSUME NEW u \in Uids
             PROVE  LET own == {i \in DOMAIN f : f[i][1] = u} IN
                    (IF own = {} THEN Unnamed ELSE f[Max(own)][2]) \in Word
  BY DEF Load
<1> DEFINE own == {i \in DOMAIN f : f[i][1] = u}
<1>1. Unnamed \in Word
  BY KnownWords DEF Unnamed
<1>2. f \in Seq(Word \X Word)
  BY ConfigAssumption
<1>3. ASSUME own # {} PROVE f[Max(own)][2] \in Word
  <2>1. own \subseteq 1..Len(f) /\ Len(f) \in Nat /\ DOMAIN f = 1..Len(f)
    BY <1>2, LenProperties
  <2> HIDE DEF own
  <2>2. \E x \in own : \A y \in own : x >= y
    BY <1>3, <2>1, GreatestOfSome
  <2>3. Max(own) \in own
    BY <2>2 DEF Max
  <2>4. f[Max(own)] \in Word \X Word
    BY <1>2, <2>1, <2>3, ElementOfSeq
  <2> QED
    BY <2>4
<1> QED
  BY <1>1, <1>3

(* The maps of a module that is configured are keyed. *)
LEMMA EmptyKeyed == Keyed(Empty)
BY DEF Keyed, MapsType, Empty

LEMMA ModeKeyed ==
  ASSUME NEW m, Keyed(m)
  PROVE  /\ \A age \in Ages : Keyed([m EXCEPT !.server = TRUE, !.age = age])
         /\ Keyed([m EXCEPT !.server = FALSE, !.age = "0"])
BY DEF Keyed, MapsType

(* The first half of a client-add, and both. *)
LEMMA IngressKeyed ==
  ASSUME NEW e, e.addr \in Addrs, e.uid \in Uids, e.port \in Ports, e.key \in Keys,
         Keyed(maps), ClientAdd(e).ok
  PROVE  LET ing == maps.ingress \cup {IngressOf(e)} IN
         /\ ~ maps.server
         /\ ClientAdd(e).maps =
              [maps EXCEPT !.ingress = ing,
                 !.egress = {o \in @ : o.addr # e.addr \/ o.port # e.port} \cup {e}]
         /\ ClientAdd(e).maps.ingress = ing
         /\ IngressOf(e).addr = e.addr /\ IngressOf(e).uid = e.uid
         /\ Keyed([maps EXCEPT !.ingress = ing])
<1> DEFINE ing == maps.ingress \cup {IngressOf(e)}
           egr == {o \in maps.egress : o.addr # e.addr \/ o.port # e.port} \cup {e}
<1>1. ~ maps.server /\ \A i \in maps.ingress : ~ (i.addr = e.addr /\ i.uid = e.uid)
  BY DEF ClientAdd, Failed
<1>2. ClientAdd(e).maps = [maps EXCEPT !.ingress = ing, !.egress = egr]
  BY <1>1 DEF ClientAdd, Became, IngressOf
<1>3. /\ maps \in MapsType
      /\ \A i, j \in maps.ingress : i.addr = j.addr /\ i.uid = j.uid => i = j
      /\ \A o \in maps.egress : \E i \in maps.ingress : i.addr = o.addr /\ i.uid = o.uid
  BY DEF Keyed
<1>4. IngressOf(e) \in [addr : Addrs, uid : Uids, port : Ports, key : Keys]
      /\ IngressOf(e).addr = e.addr /\ IngressOf(e).uid = e.uid
  BY DEF IngressOf
<1>5. ing \subseteq [addr : Addrs, uid : Uids, port : Ports, key : Keys]
  BY <1>3, <1>4 DEF MapsType
<1>6. \A i, j \in ing : i.addr = j.addr /\ i.uid = j.uid => i = j
  BY <1>1, <1>3, <1>4
<1>7. \A o \in maps.egress : \E i \in ing : i.addr = o.addr /\ i.uid = o.uid
  BY <1>3
<1>8. [maps EXCEPT !.ingress = ing, !.egress = egr] =
        [maps EXCEPT !.ingress = ing,
           !.egress = {o \in @ : o.addr # e.addr \/ o.port # e.port} \cup {e}]
  BY <1>3 DEF MapsType
<1> HIDE DEF ing, egr
<1>9. Keyed([maps EXCEPT !.ingress = ing])
  BY <1>3, <1>5, <1>6, <1>7 DEF Keyed, MapsType
<1>10. [maps EXCEPT !.ingress = ing, !.egress = egr].ingress = ing
  BY <1>3 DEF MapsType
<1> QED
  BY <1>1, <1>2, <1>4, <1>8, <1>9, <1>10 DEF ing

LEMMA ClientAddKeyed ==
  ASSUME NEW e \in Peers, Keyed(maps), ClientAdd(e).ok
  PROVE  Keyed(ClientAdd(e).maps)
<1> DEFINE ing == maps.ingress \cup {IngressOf(e)}
           m == [maps EXCEPT !.ingress = ing]
           egr == {o \in maps.egress : o.addr # e.addr \/ o.port # e.port} \cup {e}
<1>1. e.addr \in Addrs /\ e.uid \in Uids /\ e.port \in Ports /\ e.key \in Keys
  BY DEF Peers
<1>2. /\ ClientAdd(e).maps =
           [maps EXCEPT !.ingress = ing,
              !.egress = {o \in @ : o.addr # e.addr \/ o.port # e.port} \cup {e}]
      /\ IngressOf(e).addr = e.addr /\ IngressOf(e).uid = e.uid
      /\ Keyed(m)
  BY <1>1, IngressKeyed
<1>3. /\ maps \in MapsType
      /\ \A o \in maps.egress : \E i \in maps.ingress : i.addr = o.addr /\ i.uid = o.uid
      /\ \A i, j \in maps.egress : i.addr = j.addr /\ i.port = j.port => i = j
  BY DEF Keyed
<1>4. egr \subseteq Peers /\ \A i, j \in egr : i.addr = j.addr /\ i.port = j.port => i = j
  BY <1>3 DEF MapsType
<1>5. \A o \in egr : \E i \in ing : i.addr = o.addr /\ i.uid = o.uid
  BY <1>2, <1>3
<1> HIDE DEF ing
<1>6. ClientAdd(e).maps = [m EXCEPT !.egress = egr] /\ m.ingress = ing
  BY <1>2, <1>3 DEF MapsType
<1> HIDE DEF m, egr
<1>7. Keyed([m EXCEPT !.egress = egr])
  BY <1>2, <1>4, <1>5, <1>6 DEF Keyed, MapsType
<1> QED
  BY <1>6, <1>7

LEMMA ServerAddKeyed ==
  ASSUME NEW e \in Users, Keyed(maps), ServerAdd(e).ok
  PROVE  Keyed(ServerAdd(e).maps)
<1> DEFINE us == {o \in maps.users : o.uid # e.uid} \cup {e}
<1>1. maps.server
  BY DEF ServerAdd, Failed
<1>2. ServerAdd(e).maps = [maps EXCEPT !.users = us]
  BY <1>1 DEF ServerAdd, Became
<1>3. us \subseteq Users /\ \A i, j \in us : i.uid = j.uid => i = j
  BY DEF Keyed, MapsType
<1> HIDE DEF us
<1> QED
  BY <1>2, <1>3 DEF Keyed, MapsType
-----------------------------------------------------------------------------
(* The inductive invariant. *)

(* What a dump prints, and the lines it can have. *)
Dumped == IF saved.server THEN saved.users ELSE saved.egress
Lines == {ModeLine(saved)} \cup {PeerLine(saved.server, e) : e \in Dumped}

(* The lines ls are those of the peers es, each of which is there once. *)
Listed(ls, es) ==
  /\ ls \in Seq(Lines) /\ es \in Seq(Dumped) /\ Len(ls) = Len(es)
  /\ \A i \in 1..Len(es) : ls[i] = PeerLine(saved.server, es[i])
  /\ \A i, j \in 1..Len(es) : es[i] = es[j] => i = j
In(e, es) == \E i \in 1..Len(es) : es[i] = e

TypeInv ==
  /\ names \in [Uids -> Word] /\ file \in UidFiles
  /\ pc \in {"setup", "dumping", "saved", "restoring", "done", "failed"}
  /\ Keyed(saved)

SetUpInv == pc = "setup" => Keyed(maps) /\ ~ fresh /\ ~ edited

(* The dump has the mode and every peer that it has no longer to print. *)
DumpInv ==
  pc \in {"dumping", "saved"} =>
    /\ ~ edited => names = Load(file)
    /\ pc = "dumping" => ~ fresh /\ ~ edited
    /\ pc = "saved" => todo = {}
    /\ maps = IF fresh THEN Empty ELSE saved
    /\ todo \subseteq Dumped
    /\ \E ls, es : /\ script = <<ModeLine(saved)>> \o ls
                   /\ Listed(ls, es)
                   /\ \A e \in Dumped : e \in todo <=> ~ In(e, es)

(* A script that is run has its mode or its peers before it.  A server has *)
(* every user or will have it; a client has a peer or will have it, and    *)
(* not both, so that no peer is in the way of its own line.                *)
Restored(m, E, U) ==
  /\ m \in MapsType
  /\ m.server = saved.server /\ m.age = saved.age
  /\ m.ingress = {IngressOf(e) : e \in E} /\ m.egress = E /\ m.users = U
BeforeMode ==
  \E ls, es : /\ script = <<ModeLine(saved)>> \o ls
              /\ Listed(ls, es)
              /\ \A e \in Dumped : In(e, es)
              /\ maps = IF fresh THEN Empty ELSE saved
BeforePeers ==
  \E es : /\ Listed(script, es)
          /\ \E E \in SUBSET saved.egress, U \in SUBSET saved.users :
              /\ Restored(maps, E, U)
              /\ IF saved.server THEN \A e \in Dumped : e \in U \/ In(e, es)
                                 ELSE \A e \in Dumped : e \in E <=> ~ In(e, es)

Plain == PlainAddresses /\ PlainNames /\ PlainComments /\ PlainMaps /\ (fresh \/ saved.server)
FaithfulInv ==
  Plain => /\ pc = "restoring" => BeforeMode \/ BeforePeers
           /\ pc # "failed"
           /\ pc = "done" => maps = saved

(* On the client it was taken from a dump changes nothing at all. *)
Quiet == PlainAddresses /\ PlainNames /\ QuietComments /\ ~ fresh /\ ~ saved.server
HarmlessInv ==
  Quiet =>
    /\ pc \in {"restoring", "done", "failed"} => maps = saved
    /\ pc = "restoring" =>
         \E ls, es : Listed(ls, es) /\ (script = <<ModeLine(saved)>> \o ls \/ script = ls)

IInv == TypeInv /\ SetUpInv /\ DumpInv /\ FaithfulInv /\ HarmlessInv
-----------------------------------------------------------------------------
(* An empty module, with any file of host names, satisfies the inductive  *)
(* invariant.                                                              *)
THEOREM InitIInv == Init => IInv
<1> SUFFICES ASSUME Init PROVE IInv
  OBVIOUS
<1>1. TypeInv
  <2>1. [u \in Uids |-> Unnamed] \in [Uids -> Word]
    BY KnownWords DEF Unnamed
  <2> QED
    BY <2>1, EmptyKeyed DEF Init, TypeInv
<1>2. SetUpInv
  BY EmptyKeyed DEF Init, SetUpInv
<1> QED
  BY <1>1, <1>2 DEF Init, IInv, DumpInv, FaithfulInv, HarmlessInv

(* Only these variables matter to what a dump is. *)
LEMMA SameDump ==
  ASSUME saved' = saved, names' = names, numeric' = numeric
  PROVE  /\ ModeLine(saved)' = ModeLine(saved)
         /\ \A e : PeerLine(saved.server, e)' = PeerLine(saved.server, e)
         /\ Dumped' = Dumped /\ Lines' = Lines
         /\ \A ls, es : Listed(ls, es)' <=> Listed(ls, es)
<1>1. \A e : PeerLine(saved.server, e)' = PeerLine(saved.server, e)
  BY DEF PeerLine, ResolveHostname
<1>2. ModeLine(saved)' = ModeLine(saved) /\ Dumped' = Dumped
  BY DEF ModeLine, Dumped
<1>3. Lines' = Lines
  BY <1>1, <1>2 DEF Lines
<1> QED
  BY <1>1, <1>2, <1>3 DEF Listed

(* While the script is run, what it is run for does not change. *)
LEMMA SamePlain ==
  ASSUME saved' = saved, names' = names, numeric' = numeric, edited' = edited, fresh' = fresh
  PROVE  Plain' = Plain /\ Quiet' = Quiet
BY DEF Plain, Quiet, PlainAddresses, PlainNames, PlainComments, PlainMaps, QuietComments, Entries

(* The next line of a script of ordinary words. *)
LEMMA OrdinaryStep ==
  ASSUME RunCommand, Head(script) \in Seq(Ordinary), Head(script) # <<>>,
         NEW o, Outcomes(Head(Head(script)), Tail(Head(script))) = {o}
  PROVE  /\ maps' = o.maps
         /\ pc' = IF o.ok THEN pc ELSE "failed"
         /\ script' = IF o.ok THEN Tail(script) ELSE <<>>
<1> DEFINE line == Head(script)
<1>1. /\ SubCommand(line) = line /\ Rest(line) = <<>> /\ Shlex(line) = line
      /\ ~ \E i \in DOMAIN line : line[i] \in Unclosed
  BY OrdinaryLine
<1> HIDE DEF line
<1> QED
  BY <1>1 DEF RunCommand, line

(* One more peer, one less, and none. *)
LEMMA ListedAppend ==
  ASSUME NEW ls, NEW es, Listed(ls, es), NEW e \in Dumped, ~ In(e, es)
  PROVE  /\ Listed(Append(ls, PeerLine(saved.server, e)), Append(es, e))
         /\ \A x : In(x, Append(es, e)) <=> In(x, es) \/ x = e
<1> DEFINE line == PeerLine(saved.server, e)
           ms == Append(ls, line)
           fs == Append(es, e)
           n == Len(es)
<1>1. ls \in Seq(Lines) /\ es \in Seq(Dumped) /\ Len(ls) = n /\ n \in Nat /\ line \in Lines
  BY DEF Listed, Lines
<1> HIDE DEF line
<1>2. ms \in Seq(Lines) /\ Len(ms) = n + 1 /\ ms[n + 1] = line /\ \A i \in 1..n : ms[i] = ls[i]
  BY <1>1, AppendProperties
<1>3. fs \in Seq(Dumped) /\ Len(fs) = n + 1 /\ fs[n + 1] = e /\ \A i \in 1..n : fs[i] = es[i]
  BY <1>1, AppendProperties
<1> HIDE DEF ms, fs
<1>4. \A i \in 1..(n + 1) : i \in 1..n \/ i = n + 1
  BY <1>1
<1>5. \A i \in 1..Len(fs) : ms[i] = PeerLine(saved.server, fs[i])
  BY <1>1, <1>2, <1>3, <1>4 DEF Listed, line
<1>6. \A i \in 1..n : es[i] # e
  BY DEF In
<1>7. \A i, j \in 1..Len(fs) : fs[i] = fs[j] => i = j
  BY <1>1, <1>3, <1>4, <1>6 DEF Listed
<1>8. \A x : In(x, fs) <=> In(x, es) \/ x = e
  BY <1>1, <1>3, <1>4 DEF In
<1>9. Listed(ms, fs)
  BY <1>2, <1>3, <1>5, <1>7 DEF Listed
<1> QED
  BY <1>8, <1>9 DEF ms, fs, line

LEMMA ListedTail ==
  ASSUME NEW ls, NEW es, Listed(ls, es), ls # <<>>
  PROVE  /\ Head(es) \in Dumped
         /\ Head(ls) = PeerLine(saved.server, Head(es))
         /\ Listed(Tail(ls), Tail(es))
         /\ ~ In(Head(es), Tail(es))
         /\ \A x : In(x, es) <=> In(x, Tail(es)) \/ x = Head(es)
<1> DEFINE n == Len(es)
           ms == Tail(ls)
           fs == Tail(es)
<1>1. ls \in Seq(Lines) /\ es \in Seq(Dumped) /\ Len(ls) = n /\ n \in Nat
  BY DEF Listed
<1>2. n # 0 /\ es # <<>>
  BY <1>1, EmptySeq
<1>3. ms \in Seq(Lines) /\ Len(ms) = n - 1 /\ Head(ls) = ls[1]
      /\ \A i \in 1..(n - 1) : ms[i] = ls[i + 1]
  BY <1>1, <1>2, HeadTailProperties
<1>4. fs \in Seq(Dumped) /\ Len(fs) = n - 1 /\ Head(es) = es[1] /\ Head(es) \in Dumped
      /\ \A i \in 1..(n - 1) : fs[i] = es[i + 1]
  BY <1>1, <1>2, HeadTailProperties
<1> HIDE DEF ms, fs
<1>5. \A i \in 1..(n - 1) : i + 1 \in 1..n /\ i + 1 # 1
  BY <1>1
<1>6. \A i \in 1..n : i = 1 \/ (i - 1 \in 1..(n - 1) /\ (i - 1) + 1 = i)
  BY <1>1
<1>7. 1 \in 1..n
  BY <1>1, <1>2
<1>8. \A i \in 1..Len(fs) : ms[i] = PeerLine(saved.server, fs[i])
  BY <1>1, <1>3, <1>4, <1>5 DEF Listed
<1>9. \A i, j \in 1..Len(fs) : fs[i] = fs[j] => i = j
  <2> SUFFICES ASSUME NEW i \in 1..Len(fs), NEW j \in 1..Len(fs), fs[i] = fs[j] PROVE i = j
    OBVIOUS
  <2>1. i + 1 \in 1..n /\ j + 1 \in 1..n /\ es[i + 1] = es[j + 1]
    BY <1>4, <1>5
  <2>2. i + 1 = j + 1
    BY <2>1 DEF Listed
  <2> QED
    BY <1>1, <1>4, <2>2
<1>10. ~ In(Head(es), fs)
  BY <1>4, <1>5, <1>7 DEF In, Listed
<1>11. \A x : In(x, es) <=> In(x, fs) \/ x = Head(es)
  <2> SUFFICES ASSUME NEW x PROVE In(x, es) <=> In(x, fs) \/ x = Head(es)
    OBVIOUS
  <2>1. In(x, fs) => In(x, es)
    BY <1>4, <1>5 DEF In
  <2>2. x = Head(es) => In(x, es)
    BY <1>4, <1>7 DEF In
  <2>3. ASSUME NEW i \in 1..n, es[i] = x, i # 1 PROVE In(x, fs)
    <3>1. i - 1 \in 1..(n - 1) /\ (i - 1) + 1 = i
      BY <1>6, <2>3
    <3>2. fs[i - 1] = x
      BY <1>4, <2>3, <3>1
    <3> QED
      BY <1>4, <3>1, <3>2 DEF In
  <2>4. In(x, es) => In(x, fs) \/ x = Head(es)
    BY <1>4, <2>3 DEF In
  <2> QED
    BY <2>1, <2>2, <2>4
<1>12. Listed(ms, fs)
  BY <1>3, <1>4, <1>8, <1>9 DEF Listed
<1>13. Head(ls) = PeerLine(saved.server, Head(es))
  BY <1>3, <1>4, <1>7 DEF Listed
<1> QED
  BY <1>4, <1>10, <1>11, <1>12, <1>13 DEF ms, fs

LEMMA ListedEnd ==
  ASSUME NEW es, Listed(<<>>, es)
  PROVE  \A x : ~ In(x, es)
<1>1. Len(es) = 0
  BY DEF Listed
<1> QED
  BY <1>1 DEF In

(* The mode before the peers. *)
LEMMA ModeFirst ==
  ASSUME NEW ls, NEW es, Listed(ls, es)
  PROVE  LET s == <<ModeLine(saved)>> \o ls IN
         /\ s # <<>> /\ Head(s) = ModeLine(saved) /\ Tail(s) = ls
         /\ \A x \in Lines : Append(s, x) = <<ModeLine(saved)>> \o Append(ls, x)
<1> DEFINE m == ModeLine(saved)
<1>1. ls \in Seq(Lines) /\ m \in Lines
  BY DEF Listed, Lines
<1> HIDE DEF m
<1>2. <<m>> \o ls # <<>> /\ Head(<<m>> \o ls) = m /\ Tail(<<m>> \o ls) = ls
  BY <1>1, FirstAndRest
<1>3. \A x \in Lines : Append(<<m>> \o ls, x) = <<m>> \o Append(ls, x)
  BY <1>1
<1> QED
  BY <1>2, <1>3 DEF m
-----------------------------------------------------------------------------
(* Every step keeps it: the configuration, ... *)

LEMMA SetUpStep ==
  ASSUME IInv, SetUp \/ \E e \in [addr : Addrs, uid : Uids, port : Ports, key : Keys,
                                 comment : {<<>>}] : Abort(e)
  PROVE  IInv'
<1>1. ASSUME NEW o, Configure(o), Keyed(maps) => Keyed(o.maps) PROVE IInv'
  <2>1. /\ pc = "setup" /\ pc' = pc /\ maps' = o.maps
        /\ UNCHANGED <<file, names, saved, edited, fresh>>
    BY <1>1 DEF Configure
  <2>2. Keyed(maps')
    BY <1>1, <2>1 DEF IInv, SetUpInv
  <2>3. TypeInv'
    BY <2>1 DEF IInv, TypeInv
  <2>4. SetUpInv'
    BY <2>1, <2>2 DEF IInv, SetUpInv
  <2> QED
    BY <2>1, <2>3, <2>4 DEF IInv, DumpInv, FaithfulInv, HarmlessInv
<1>2. \A m : Became(m).maps = m
  BY DEF Became
<1>3. ASSUME NEW age \in Ages, Configure(Became([maps EXCEPT !.server = TRUE, !.age = age]))
      PROVE  IInv'
  <2> DEFINE m == [maps EXCEPT !.server = TRUE, !.age = age]
  <2>1. Keyed(maps) => Keyed(m)
    BY ModeKeyed
  <2>2. Configure(Became(m))
    BY <1>3
  <2> HIDE DEF m
  <2> QED
    BY <1>1, <1>2, <2>1, <2>2
<1>4. ASSUME Configure(Became([maps EXCEPT !.server = FALSE, !.age = "0"])) PROVE IInv'
  <2> DEFINE m == [maps EXCEPT !.server = FALSE, !.age = "0"]
  <2>1. Keyed(maps) => Keyed(m)
    BY ModeKeyed
  <2>2. Configure(Became(m))
    BY <1>4
  <2> HIDE DEF m
  <2> QED
    BY <1>1, <1>2, <2>1, <2>2
<1>5. ASSUME NEW e \in Peers, Configure(ClientAdd(e)) PROVE IInv'
  <2>1. ClientAdd(e).ok
    BY <1>5 DEF Configure
  <2> QED
    BY <1>1, <1>5, <2>1, ClientAddKeyed
<1>6. ASSUME NEW e \in Peers, NEW id \in IcmpIds, Configure(ServerAdd(WithId(id, e))) PROVE IInv'
  <2>1. ServerAdd(WithId(id, e)).ok
    BY <1>6 DEF Configure
  <2>2. WithId(id, e) \in Users
    BY DEF WithId, Users, Peers
  <2> QED
    BY <1>1, <1>6, <2>1, <2>2, ServerAddKeyed
<1>7. ASSUME NEW e \in [addr : Addrs, uid : Uids, port : Ports, key : Keys, comment : {<<>>}],
             Abort(e)
      PROVE  IInv'
  <2>1. /\ e.addr \in Addrs /\ e.uid \in Uids /\ e.port \in Ports /\ e.key \in Keys
        /\ ClientAdd(e).ok
        /\ Configure(Became([maps EXCEPT !.ingress = ClientAdd(e).maps.ingress]))
    BY <1>7 DEF Abort
  <2>2. Keyed(maps) => Keyed([maps EXCEPT !.ingress = ClientAdd(e).maps.ingress])
    BY <2>1, IngressKeyed
  <2> QED
    BY <1>1, <1>2, <2>1, <2>2
<1> QED
  BY <1>3, <1>4, <1>5, <1>6, <1>7 DEF SetUp, Peers

(* ... the dump, ... *)
LEMMA BeginDumpStep ==
  ASSUME IInv, NEW n \in BOOLEAN, BeginDump(n)
  PROVE  IInv'
<1>1. /\ pc = "setup" /\ pc' = "dumping" /\ names' = Load(file) /\ saved' = maps /\ maps' = maps
      /\ script' = <<ModeLine(maps)>> /\ todo' = IF maps.server THEN maps.users ELSE maps.egress
      /\ UNCHANGED <<file, edited, fresh>>
  BY DEF BeginDump
<1>2. file \in UidFiles /\ Keyed(maps) /\ ~ fresh /\ ~ edited
  BY <1>1 DEF IInv, TypeInv, SetUpInv
<1>3. TypeInv'
  BY <1>1, <1>2, LoadHasType DEF TypeInv
<1>4. ModeLine(saved)' = ModeLine(maps) /\ todo' = Dumped'
  BY <1>1 DEF ModeLine, Dumped
<1>5. script' = <<ModeLine(saved)'>> \o <<>>
  BY <1>1, <1>4
<1>6. Listed(<<>>, <<>>)' /\ \A x : ~ In(x, <<>>)
  <2>1. \A S : <<>> \in Seq(S)
    OBVIOUS
  <2>2. Len(<<>>) = 0
    OBVIOUS
  <2> QED
    BY <2>1, <2>2 DEF Listed, In
<1>7. DumpInv'
  BY <1>1, <1>2, <1>4, <1>5, <1>6 DEF DumpInv
<1> QED
  BY <1>1, <1>3, <1>7 DEF IInv, SetUpInv, FaithfulInv, HarmlessInv

LEMMA DumpEntryStep ==
  ASSUME IInv, NEW e \in todo, DumpEntry(e)
  PROVE  IInv'
<1>1. /\ pc = "dumping" /\ pc' = pc /\ script' = Append(script, PeerLine(maps.server, e))
      /\ todo' = todo \ {e}
      /\ UNCHANGED <<maps, file, names, numeric, saved, edited, fresh>>
  BY DEF DumpEntry
<1>2. /\ names = Load(file) /\ ~ fresh /\ ~ edited /\ maps = saved /\ todo \subseteq Dumped
      /\ \E ls, es : /\ script = <<ModeLine(saved)>> \o ls
                     /\ Listed(ls, es)
                     /\ \A x \in Dumped : x \in todo <=> ~ In(x, es)
  BY <1>1 DEF IInv, DumpInv
<1>3. PICK ls, es : /\ script = <<ModeLine(saved)>> \o ls
                    /\ Listed(ls, es)
                    /\ \A x \in Dumped : x \in todo <=> ~ In(x, es)
  BY <1>2
<1> DEFINE line == PeerLine(saved.server, e)
<1>4. e \in Dumped /\ ~ In(e, es) /\ line \in Lines
  BY <1>2, <1>3 DEF Lines
<1>5. PICK ms, fs : ms = Append(ls, line) /\ fs = Append(es, e)
  OBVIOUS
<1>6. Listed(ms, fs) /\ \A x : In(x, fs) <=> In(x, es) \/ x = e
  BY <1>3, <1>4, <1>5, ListedAppend
<1>7. script' = <<ModeLine(saved)>> \o ms
  BY <1>1, <1>2, <1>3, <1>4, <1>5, ModeFirst
<1>8. ModeLine(saved)' = ModeLine(saved) /\ Dumped' = Dumped /\ Listed(ms, fs)'
  BY <1>1, <1>6, SameDump
<1>9. DumpInv'
  <2>1. script' = <<ModeLine(saved)'>> \o ms
    BY <1>7, <1>8
  <2>2. \A x \in Dumped' : x \in todo' <=> ~ In(x, fs)
    BY <1>1, <1>3, <1>6, <1>8
  <2> QED
    BY <1>1, <1>2, <1>8, <2>1, <2>2 DEF DumpInv
<1>10. TypeInv'
  BY <1>1 DEF IInv, TypeInv
<1> QED
  BY <1>1, <1>9, <1>10 DEF IInv, SetUpInv, FaithfulInv, HarmlessInv

LEMMA EndDumpStep ==
  ASSUME IInv, EndDump
  PROVE  IInv'
<1>1. /\ pc = "dumping" /\ todo = {} /\ pc' = "saved"
      /\ UNCHANGED <<maps, file, names, numeric, script, todo, saved, edited, fresh>>
  BY DEF EndDump
<1>2. /\ ModeLine(saved)' = ModeLine(saved) /\ Dumped' = Dumped
      /\ \A ls, es : Listed(ls, es)' <=> Listed(ls, es)
  BY <1>1, SameDump
<1>3. DumpInv'
  BY <1>1, <1>2 DEF IInv, DumpInv
<1>4. TypeInv'
  BY <1>1 DEF IInv, TypeInv
<1> QED
  BY <1>1, <1>3, <1>4 DEF IInv, SetUpInv, FaithfulInv, HarmlessInv

(* ... what happens to the file and to the module meanwhile, ... *)
LEMMA MeanwhileStep ==
  ASSUME IInv, LoadModule \/ \E f \in UidFiles : EditFile(f)
  PROVE  IInv'
<1>1. /\ pc = "saved" /\ pc' = pc /\ file' \in UidFiles
      /\ UNCHANGED <<names, numeric, script, todo, saved>>
      /\ \/ maps' = maps /\ fresh' = fresh /\ edited'
         \/ maps' = Empty /\ fresh' /\ edited' = edited /\ file' = file
  BY DEF IInv, TypeInv, LoadModule, EditFile
<1>2. /\ ModeLine(saved)' = ModeLine(saved) /\ Dumped' = Dumped
      /\ \A ls, es : Listed(ls, es)' <=> Listed(ls, es)
  BY <1>1, SameDump
<1>3. DumpInv'
  BY <1>1, <1>2 DEF IInv, DumpInv
<1>4. TypeInv'
  BY <1>1 DEF IInv, TypeInv
<1> QED
  BY <1>1, <1>3, <1>4 DEF IInv, SetUpInv, FaithfulInv, HarmlessInv

(* ... the beginning of the script, ... *)
LEMMA BeginScriptStep ==
  ASSUME IInv, BeginScript
  PROVE  IInv'
<1>1. /\ pc = "saved" /\ pc' = "restoring" /\ names' = Load(file)
      /\ UNCHANGED <<maps, file, numeric, script, todo, saved, edited, fresh>>
  BY DEF BeginScript
<1>2. /\ ~ edited => names' = names
      /\ maps = IF fresh THEN Empty ELSE saved
      /\ todo = {}
  BY <1>1 DEF IInv, DumpInv
<1>3. PICK ls, es : /\ script = <<ModeLine(saved)>> \o ls
                    /\ Listed(ls, es)
                    /\ \A e \in Dumped : e \in todo <=> ~ In(e, es)
  BY <1>1 DEF IInv, DumpInv
<1>4. TypeInv'
  BY <1>1, LoadHasType DEF IInv, TypeInv
<1>5. ASSUME ~ edited PROVE BeforeMode'
  <2>1. ModeLine(saved)' = ModeLine(saved) /\ Dumped' = Dumped /\ Listed(ls, es)'
    BY <1>1, <1>2, <1>3, <1>5, SameDump
  <2>2. script' = <<ModeLine(saved)'>> \o ls
    BY <1>1, <1>3, <2>1
  <2>3. \A e \in Dumped' : In(e, es)
    BY <1>2, <1>3, <2>1
  <2>4. maps' = IF fresh' THEN Empty ELSE saved'
    BY <1>1, <1>2
  <2> QED
    BY <2>1, <2>2, <2>3, <2>4 DEF BeforeMode
<1>6. FaithfulInv'
  BY <1>1, <1>5 DEF FaithfulInv, Plain, PlainNames
<1>7. HarmlessInv'
  BY <1>1, <1>2, <1>5 DEF HarmlessInv, Quiet, PlainNames, BeforeMode
<1> QED
  BY <1>1, <1>4, <1>6, <1>7 DEF IInv, SetUpInv, DumpInv

(* ... its end, ... *)
LEMMA EndScriptStep ==
  ASSUME IInv, EndScript
  PROVE  IInv'
<1>1. /\ pc = "restoring" /\ script = <<>> /\ pc' = "done"
      /\ UNCHANGED <<maps, file, names, numeric, script, todo, saved, edited, fresh>>
  BY DEF EndScript
<1>2. Plain' = Plain /\ Quiet' = Quiet
  BY <1>1, SamePlain
<1>3. TypeInv'
  BY <1>1 DEF IInv, TypeInv
<1>4. ASSUME Plain PROVE maps = saved
  <2>1. ~ BeforeMode
    BY <1>1, ModeFirst DEF BeforeMode
  <2>2. BeforePeers
    BY <1>1, <1>4, <2>1 DEF IInv, FaithfulInv
  <2>3. PICK es, E, U : /\ Listed(<<>>, es) /\ E \in SUBSET saved.egress /\ U \in SUBSET saved.users
                        /\ Restored(maps, E, U)
                        /\ IF saved.server THEN \A e \in Dumped : e \in U \/ In(e, es)
                                           ELSE \A e \in Dumped : e \in E <=> ~ In(e, es)
    BY <1>1, <2>2 DEF BeforePeers
  <2>4. \A e : ~ In(e, es)
    BY <2>3, ListedEnd
  <2>5. saved \in MapsType
    BY DEF IInv, TypeInv, Keyed
  <2>6. CASE saved.server
    <3>1. U = saved.users /\ E = {} /\ saved.ingress = {} /\ saved.egress = {}
      BY <1>4, <2>3, <2>4, <2>6 DEF Plain, PlainMaps, Dumped
    <3>2. {IngressOf(e) : e \in E} = {}
      BY <3>1
    <3> QED
      BY <2>3, <2>5, <3>1, <3>2, SameMaps DEF Restored
  <2>7. CASE ~ saved.server
    <3>1. E = saved.egress /\ U = {} /\ saved.users = {}
      BY <1>4, <2>3, <2>4, <2>7 DEF Plain, PlainMaps, Dumped
    <3>2. {IngressOf(e) : e \in E} = saved.ingress
      BY <1>4, <2>7, <3>1 DEF Plain, PlainMaps, IngressOf
    <3> QED
      BY <2>3, <2>5, <3>1, <3>2, SameMaps DEF Restored
  <2> QED
    BY <2>6, <2>7
<1>5. FaithfulInv'
  BY <1>1, <1>2, <1>4 DEF FaithfulInv
<1>6. HarmlessInv'
  BY <1>1, <1>2 DEF IInv, HarmlessInv
<1> QED
  BY <1>1, <1>3, <1>5, <1>6 DEF IInv, SetUpInv, DumpInv
-----------------------------------------------------------------------------
(* ... and the commands of the script, in a plain configuration first. *)

LEMMA Triple ==
  ASSUME NEW S, NEW x \in S, NEW y \in S, NEW z \in S
  PROVE  /\ <<x, y, z>> \in Seq(S) /\ <<x, y, z>> # <<>>
         /\ Head(<<x, y, z>>) = x /\ Tail(<<x, y, z>>) = <<y, z>>
OBVIOUS

(* The first line sets the mode that was dumped. *)
LEMMA ModeOutcome ==
  ASSUME Keyed(saved), maps \in MapsType
  PROVE  LET line == ModeLine(saved) IN
         /\ line \in Seq(Ordinary) /\ line # <<>>
         /\ Outcomes(Head(line), Tail(line)) =
              {Became([maps EXCEPT !.server = saved.server, !.age = saved.age])}
<1>1. saved.server \in BOOLEAN
  BY DEF Keyed, MapsType
<1>2. CASE saved.server
  <2> DEFINE age == saved.age
             ws == <<"max-age", age>>
             a == Args("server", ws)
  <2>1. age \in Ages /\ age \in Ordinary /\ "server" \in Ordinary /\ "max-age" \in Ordinary
    BY <1>2, LiteralsOrdinary DEF Keyed
  <2>2. ModeLine(saved) = <<"server", "max-age", age>>
    BY <1>2 DEF ModeLine
  <2>3. /\ ModeLine(saved) \in Seq(Ordinary) /\ ModeLine(saved) # <<>>
        /\ Head(ModeLine(saved)) = "server" /\ Tail(ModeLine(saved)) = ws
    BY <2>1, <2>2, Triple
  <2> HIDE DEF age
  <2>4. a.expects = "" /\ a.age = age
    <3>1. <<>> \in Seq(Ordinary) /\ "age" \in Fields \ {"expects"}
      BY DEF Fields
    <3>2. Keyword("server", "max-age") = "age" /\ Parses("age", age)
      BY <2>1 DEF Keyword, Parses
    <3>3. Args("server", <<>>).expects = ""
      BY ArgsUnfold DEF NoArgs, Fields
    <3>4. Sets("server", <<>>, "age", age, <<>> \o ws)
      BY <2>1, <3>1, <3>2, <3>3, OrdinaryPairSets, Zenon
    <3>5. <<>> \o ws = ws
      BY <2>1, PairIsSeq, ConcatEmptySeq
    <3> HIDE DEF ws
    <3> QED
      BY <3>3, <3>4, <3>5 DEF Sets, Fields
  <2> HIDE DEF a
  <2>5. Outcomes("server", ws) = {Became([maps EXCEPT !.server = TRUE, !.age = age])}
    BY <2>4 DEF Outcomes, a
  <2> QED
    BY <1>2, <2>3, <2>5 DEF age
<1>3. CASE ~ saved.server
  <2>1. ModeLine(saved) = <<"client">> /\ saved.age = "0" /\ saved.server = FALSE
    BY <1>1, <1>3 DEF ModeLine, Keyed
  <2>2. "client" \in Ordinary
    BY LiteralsOrdinary
  <2>3. \A x \in Ordinary : <<x>> \in Seq(Ordinary) /\ <<x>> # <<>> /\ Head(<<x>>) = x
    OBVIOUS
  <2>4. \A t : Outcomes("client", t) = {Became([maps EXCEPT !.server = FALSE, !.age = "0"])}
    BY DEF Outcomes
  <2> QED
    BY <2>1, <2>2, <2>3, <2>4
<1> QED
  BY <1>2, <1>3

(* The line of a peer adds that peer. *)
LEMMA PeerOutcome ==
  ASSUME Keyed(saved), names \in [Uids -> Word], Plain, NEW e \in Dumped
  PROVE  LET line == PeerLine(saved.server, e) IN
         /\ line \in Seq(Ordinary) /\ line # <<>>
         /\ Outcomes(Head(line), Tail(line)) =
              {IF saved.server THEN ServerAdd(e) ELSE ClientAdd(e)}
<1> DEFINE line == PeerLine(saved.server, e)
           cmd == Command(saved.server)
           a == Args(cmd, Tail(line))
<1>1. saved.server \in BOOLEAN /\ e \in Entries(saved)
  BY DEF Keyed, MapsType, Dumped, Entries
<1>2. IF saved.server THEN e \in Users ELSE e \in Peers
  BY DEF Keyed, MapsType, Dumped
<1>3. PeerOK(saved.server, e)
  BY <1>2 DEF PeerOK, Users, Peers
<1>4. /\ e.comment = <<>> \/ (Len(e.comment) = 1 /\ Head(e.comment) \notin Special)
      /\ ResolveIp[IpToString[e.addr]] = e.addr
      /\ PlainNames
  BY <1>1 DEF Plain, PlainComments, PlainAddresses
<1>5. /\ line \in Seq(Ordinary) /\ line # <<>> /\ Head(line) = cmd
      /\ Valid(a) /\ ResolveUid(a.uid) = {e.uid}
      /\ ClientPeer(a, e.uid) =
           [addr |-> e.addr, uid |-> e.uid, port |-> e.port, key |-> e.key, comment |-> e.comment]
      /\ saved.server => a.icmp_id = e.icmp_id
  BY <1>1, <1>3, <1>4, PlainLine
<1>6. CASE saved.server
  <2>1. cmd = "server-add"
    BY <1>6 DEF Command
  <2>2. WithId(a.icmp_id, ClientPeer(a, e.uid)) = e
    <3> HIDE DEF a
    <3> QED
      BY <1>2, <1>5, <1>6 DEF WithId, Users
  <2>3. Outcomes(cmd, Tail(line)) =
          {ServerAdd(WithId(a.icmp_id, ClientPeer(a, u))) : u \in ResolveUid(a.uid)}
    BY <1>5, <2>1 DEF Outcomes
  <2> HIDE DEF a, line, cmd
  <2>4. Outcomes(cmd, Tail(line)) = {ServerAdd(e)}
    BY <1>5, <2>2, <2>3
  <2> QED
    BY <1>5, <1>6, <2>4 DEF line, cmd
<1>7. CASE ~ saved.server
  <2>1. cmd = "client-add"
    BY <1>7 DEF Command
  <2>2. ClientPeer(a, e.uid) = e
    <3> HIDE DEF a
    <3> QED
      BY <1>2, <1>5, <1>7 DEF Peers
  <2>3. Outcomes(cmd, Tail(line)) = {ClientAdd(ClientPeer(a, u)) : u \in ResolveUid(a.uid)}
    BY <1>5, <2>1 DEF Outcomes
  <2> HIDE DEF a, line, cmd
  <2>4. Outcomes(cmd, Tail(line)) = {ClientAdd(e)}
    BY <1>5, <2>2, <2>3
  <2> QED
    BY <1>5, <1>7, <2>4 DEF line, cmd
<1> QED
  BY <1>6, <1>7

(* A user or peer that is added is one more that is restored. *)
LEMMA ServerAddRestores ==
  ASSUME Keyed(saved), saved.server, NEW e \in saved.users,
         NEW E \in SUBSET saved.egress, NEW U \in SUBSET saved.users, Restored(maps, E, U)
  PROVE  LET V == {o \in U : o.uid # e.uid} \cup {e} IN
         /\ ServerAdd(e).ok /\ Restored(ServerAdd(e).maps, E, V)
         /\ V \in SUBSET saved.users
         /\ \A x \in U : x \in V
<1> DEFINE V == {o \in maps.users : o.uid # e.uid} \cup {e}
<1>1. ServerAdd(e) = Became([maps EXCEPT !.users = V])
  BY DEF ServerAdd, Restored
<1>2. maps.users = U /\ maps \in MapsType
  BY DEF Restored
<1>3. V \in SUBSET saved.users /\ V \in SUBSET Users /\ \A x \in U : x \in V
  BY <1>2 DEF Keyed, MapsType
<1> HIDE DEF V
<1>4. Restored([maps EXCEPT !.users = V], E, V)
  BY <1>3 DEF Restored, MapsType
<1>5. V = {o \in U : o.uid # e.uid} \cup {e}
  BY <1>2 DEF V
<1> QED
  BY <1>1, <1>3, <1>4, <1>5 DEF Became

LEMMA ClientAddRestores ==
  ASSUME Keyed(saved), ~ saved.server, PlainMaps, NEW e \in saved.egress,
         NEW E \in SUBSET saved.egress, NEW U \in SUBSET saved.users, Restored(maps, E, U),
         e \notin E
  PROVE  ClientAdd(e).ok /\ Restored(ClientAdd(e).maps, E \cup {e}, U)
<1>1. ASSUME NEW x \in E PROVE ~ (x.addr = e.addr /\ x.uid = e.uid)
  <2> SUFFICES ASSUME x.addr = e.addr, x.uid = e.uid PROVE FALSE
    OBVIOUS
  <2>1. saved.ingress = {IngressOf(o) : o \in saved.egress}
    BY DEF PlainMaps, IngressOf
  <2>2. IngressOf(x) \in saved.ingress /\ IngressOf(e) \in saved.ingress
    BY <2>1
  <2>3. IngressOf(x).addr = IngressOf(e).addr /\ IngressOf(x).uid = IngressOf(e).uid
    BY DEF IngressOf
  <2>4. IngressOf(x) = IngressOf(e)
    BY <2>2, <2>3 DEF Keyed
  <2>5. x.port = e.port
    <3>1. IngressOf(x).port = x.port /\ IngressOf(e).port = e.port
      BY DEF IngressOf
    <3> QED
      BY <2>4, <3>1
  <2>6. x = e
    BY <2>5 DEF Keyed
  <2> QED
    BY <2>6
<1>2. {o \in E : o.addr # e.addr \/ o.port # e.port} = E
  BY DEF Keyed
<1>3. maps.server = FALSE /\ maps.ingress = {IngressOf(x) : x \in E} /\ maps.egress = E
  <2>1. saved.server = FALSE
    BY DEF Keyed, MapsType
  <2> QED
    BY <2>1 DEF Restored
<1>4. ~ \E i \in maps.ingress : i.addr = e.addr /\ i.uid = e.uid
  <2>1. \A x : IngressOf(x).addr = x.addr /\ IngressOf(x).uid = x.uid
    BY DEF IngressOf
  <2> QED
    BY <1>1, <1>3, <2>1
<1> DEFINE ing == maps.ingress \cup {IngressOf(e)}
           egr == {o \in maps.egress : o.addr # e.addr \/ o.port # e.port} \cup {e}
<1>5. ClientAdd(e) = Became([maps EXCEPT !.ingress = ing, !.egress = egr])
  BY <1>3, <1>4 DEF ClientAdd, IngressOf
<1>6. ing = {IngressOf(x) : x \in E \cup {e}} /\ egr = E \cup {e}
  BY <1>2, <1>3
<1>7. ing \subseteq [addr : Addrs, uid : Uids, port : Ports, key : Keys] /\ egr \subseteq Peers
  <2>1. e \in Peers /\ E \subseteq Peers
    BY DEF Keyed, MapsType
  <2>2. \A x \in Peers : IngressOf(x) \in [addr : Addrs, uid : Uids, port : Ports, key : Keys]
    BY DEF Peers, IngressOf
  <2> QED
    BY <1>6, <2>1, <2>2
<1> HIDE DEF ing, egr
<1>8. Restored([maps EXCEPT !.ingress = ing, !.egress = egr], E \cup {e}, U)
  BY <1>6, <1>7 DEF Restored, MapsType
<1> QED
  BY <1>5, <1>8 DEF Became

LEMMA FaithfulRun ==
  ASSUME IInv, RunCommand, Plain
  PROVE  pc' = "restoring" /\ BeforePeers'
<1>1. /\ pc = "restoring" /\ script # <<>>
      /\ UNCHANGED <<file, names, numeric, todo, saved, edited, fresh>>
  BY DEF RunCommand
<1>2. Keyed(saved) /\ names \in [Uids -> Word] /\ saved.server \in BOOLEAN
  BY DEF IInv, TypeInv, Keyed, MapsType
<1>3. /\ Dumped' = Dumped
      /\ \A ls, es : Listed(ls, es)' <=> Listed(ls, es)
  BY <1>1, SameDump
<1>4. CASE BeforeMode
  <2>1. PICK ls, es : /\ script = <<ModeLine(saved)>> \o ls
                      /\ Listed(ls, es)
                      /\ \A e \in Dumped : In(e, es)
                      /\ maps = IF fresh THEN Empty ELSE saved
    BY <1>4 DEF BeforeMode
  <2>2. maps \in MapsType
    BY <1>2, <2>1, EmptyKeyed DEF Keyed
  <2>3. Head(script) = ModeLine(saved) /\ Tail(script) = ls
    BY <2>1, ModeFirst
  <2> DEFINE m == [maps EXCEPT !.server = saved.server, !.age = saved.age]
  <2>4. /\ ModeLine(saved) \in Seq(Ordinary) /\ ModeLine(saved) # <<>>
        /\ Outcomes(Head(ModeLine(saved)), Tail(ModeLine(saved))) = {Became(m)}
    BY <1>2, <2>2, ModeOutcome
  <2> HIDE DEF m
  <2>5. maps' = m /\ pc' = pc /\ script' = ls
    <3>1. Became(m).ok /\ Became(m).maps = m
      BY DEF Became
    <3> QED
      BY <2>3, <2>4, <3>1, OrdinaryStep
  <2>9. /\ m \in MapsType /\ m.server = saved.server /\ m.age = saved.age
        /\ m.ingress = maps.ingress /\ m.egress = maps.egress /\ m.users = maps.users
    BY <1>2, <2>2 DEF m, MapsType, Keyed
  <2>6. \E E \in SUBSET saved.egress, U \in SUBSET saved.users :
          /\ Restored(m, E, U)
          /\ IF saved.server THEN \A e \in Dumped : e \in U \/ In(e, es)
                             ELSE \A e \in Dumped : e \in E <=> ~ In(e, es)
    <3>1. CASE fresh
      <4>1. maps.ingress = {} /\ maps.egress = {} /\ maps.users = {}
        BY <2>1, <3>1 DEF Empty
      <4>2. Restored(m, {}, {})
        BY <2>9, <4>1 DEF Restored
      <4> QED
        BY <2>1, <4>2
    <3>2. CASE ~ fresh
      <4>1. saved.server /\ saved.ingress = {} /\ saved.egress = {} /\ maps = saved
        BY <2>1, <3>2 DEF Plain, PlainMaps
      <4>2. Restored(m, {}, saved.users)
        BY <2>9, <4>1 DEF Restored
      <4> QED
        BY <2>1, <4>1, <4>2
    <3> QED
      BY <3>1, <3>2
  <2>7. Listed(ls, es)'
    BY <1>3, <2>1
  <2>8. \A E, U : Restored(m, E, U) => Restored(maps, E, U)'
    BY <1>1, <2>5 DEF Restored
  <2> QED
    BY <1>1, <1>3, <2>5, <2>6, <2>7, <2>8 DEF BeforePeers
<1>5. CASE BeforePeers
  <2>1. PICK es, E, U :
          /\ Listed(script, es) /\ E \in SUBSET saved.egress /\ U \in SUBSET saved.users
          /\ Restored(maps, E, U)
          /\ IF saved.server THEN \A e \in Dumped : e \in U \/ In(e, es)
                             ELSE \A e \in Dumped : e \in E <=> ~ In(e, es)
    BY <1>5 DEF BeforePeers
  <2>2. PICK e, ls, fs : e = Head(es) /\ ls = Tail(script) /\ fs = Tail(es)
    OBVIOUS
  <2>3. /\ e \in Dumped /\ Head(script) = PeerLine(saved.server, e)
        /\ Listed(ls, fs) /\ ~ In(e, fs)
        /\ \A x : In(x, es) <=> In(x, fs) \/ x = e
    BY <1>1, <2>1, <2>2, ListedTail
  <2> DEFINE o == IF saved.server THEN ServerAdd(e) ELSE ClientAdd(e)
  <2>4. /\ Head(script) \in Seq(Ordinary) /\ Head(script) # <<>>
        /\ Outcomes(Head(Head(script)), Tail(Head(script))) = {o}
    BY <1>2, <2>3, PeerOutcome
  <2> HIDE DEF o
  <2>5. \E F \in SUBSET saved.egress, V \in SUBSET saved.users :
          /\ o.ok /\ Restored(o.maps, F, V)
          /\ IF saved.server THEN \A x \in Dumped : x \in V \/ In(x, fs)
                             ELSE \A x \in Dumped : x \in F <=> ~ In(x, fs)
    <3>1. CASE saved.server
      <4> DEFINE V == {x \in U : x.uid # e.uid} \cup {e}
      <4>1. e \in saved.users /\ Dumped = saved.users
        BY <2>3, <3>1 DEF Dumped
      <4>2. /\ o.ok /\ Restored(o.maps, E, V) /\ V \in SUBSET saved.users
            /\ \A x \in U : x \in V
        BY <1>2, <2>1, <3>1, <4>1, ServerAddRestores DEF o
      <4>3. e \in V
        OBVIOUS
      <4> HIDE DEF V
      <4>4. \A x \in Dumped : x \in V \/ In(x, fs)
        BY <2>1, <2>3, <3>1, <4>2, <4>3
      <4> QED
        BY <2>1, <3>1, <4>2, <4>4
    <3>2. CASE ~ saved.server
      <4>1. e \in saved.egress /\ Dumped = saved.egress
        BY <2>3, <3>2 DEF Dumped
      <4>2. e \notin E
        BY <2>1, <2>3, <3>2
      <4>3. o.ok /\ Restored(o.maps, E \cup {e}, U)
        BY <1>2, <2>1, <3>2, <4>1, <4>2, ClientAddRestores DEF o, Plain
      <4>4. \A x \in Dumped : x \in E \cup {e} <=> ~ In(x, fs)
        BY <2>1, <2>3, <3>2
      <4>5. E \cup {e} \in SUBSET saved.egress
        BY <2>1, <4>1
      <4> QED
        BY <2>1, <3>2, <4>3, <4>4, <4>5
    <3> QED
      BY <1>2, <3>1, <3>2
  <2>6. maps' = o.maps /\ pc' = pc /\ script' = ls
    BY <2>2, <2>4, <2>5, OrdinaryStep
  <2>7. Listed(ls, fs)'
    BY <1>3, <2>3
  <2>8. \A F, V : Restored(o.maps, F, V) => Restored(maps, F, V)'
    BY <1>1, <2>6 DEF Restored
  <2> QED
    BY <1>1, <1>3, <2>5, <2>6, <2>7, <2>8 DEF BeforePeers
<1> QED
  BY <1>1, <1>4, <1>5 DEF IInv, FaithfulInv
-----------------------------------------------------------------------------
(* The same on the client that was dumped, whatever its comments do to the *)
(* lines: a line still names its peer, which is there.                     *)

(* The words that name a peer. *)
Naming == {"address", "addr", "uid", "user"}

LEMMA PrefixOne ==
  ASSUME NEW S, NEW s \in Seq(S), NEW n \in 1..Len(s)
  PROVE  /\ SubSeq(s, 1, n - 1) \in Seq(S)
         /\ s[n] \in S
         /\ SubSeq(s, 1, n) = Append(SubSeq(s, 1, n - 1), s[n])
<1>1. Len(s) \in Nat /\ s[n] \in S /\ n \in Nat /\ n - 1 \in Nat
  BY ElementOfSeq
<1> DEFINE p == SubSeq(s, 1, n - 1)
           q == SubSeq(s, 1, n)
           r == Append(p, s[n])
<1>2. p \in Seq(S) /\ Len(p) = n - 1 /\ \A i \in 1..(n - 1) : p[i] = s[i]
  BY <1>1, SubSeqProperties
<1>3. q \in Seq(S) /\ Len(q) = n /\ \A i \in 1..n : q[i] = s[i]
  BY <1>1, SubSeqProperties
<1> HIDE DEF p, q
<1>4. r \in Seq(S) /\ Len(r) = n /\ r[n] = s[n] /\ \A i \in 1..(n - 1) : r[i] = s[i]
  BY <1>1, <1>2, AppendProperties
<1> HIDE DEF r
<1>5. \A i \in 1..Len(q) : q[i] = r[i]
  BY <1>1, <1>3, <1>4
<1>6. q = r
  BY <1>3, <1>4, <1>5, SeqEqual
<1> QED
  BY <1>1, <1>2, <1>6 DEF p, q, r

LEMMA PrefixOfPrefix ==
  ASSUME NEW S, NEW s \in Seq(S), NEW n \in 0..Len(s), NEW m \in 0..n
  PROVE  /\ SubSeq(s, 1, n) \in Seq(S) /\ Len(SubSeq(s, 1, n)) = n
         /\ \A i \in 1..n : SubSeq(s, 1, n)[i] = s[i]
         /\ SubSeq(SubSeq(s, 1, n), 1, m) = SubSeq(s, 1, m)
<1>1. Len(s) \in Nat
  OBVIOUS
<1> DEFINE p == SubSeq(s, 1, n)
           q == SubSeq(p, 1, m)
           r == SubSeq(s, 1, m)
<1>2. p \in Seq(S) /\ Len(p) = n /\ \A i \in 1..n : p[i] = s[i]
  BY <1>1, SubSeqProperties
<1>3. r \in Seq(S) /\ Len(r) = m /\ \A i \in 1..m : r[i] = s[i]
  BY <1>1, SubSeqProperties
<1> HIDE DEF p, r
<1>4. q \in Seq(S) /\ Len(q) = m /\ \A i \in 1..m : q[i] = p[i]
  BY <1>1, <1>2, SubSeqProperties
<1> HIDE DEF q
<1>5. \A i \in 1..Len(q) : q[i] = r[i]
  BY <1>1, <1>2, <1>3, <1>4
<1>6. q = r
  BY <1>3, <1>4, <1>5, SeqEqual
<1> QED
  BY <1>2, <1>6 DEF p, q, r

LEMMA PrefixOfBoth ==
  ASSUME NEW S, NEW s \in Seq(S), NEW t \in Seq(S)
  PROVE  /\ s \o t \in Seq(S) /\ Len(s \o t) = Len(s) + Len(t)
         /\ \A i \in 1..Len(s) : (s \o t)[i] = s[i]
         /\ \A i \in (Len(s) + 1)..(Len(s) + Len(t)) : (s \o t)[i] = t[i - Len(s)]
         /\ SubSeq(s \o t, 1, Len(s)) = s
<1> DEFINE u == s \o t
           q == SubSeq(u, 1, Len(s))
<1>1. /\ u \in Seq(S) /\ Len(u) = Len(s) + Len(t) /\ Len(s) \in Nat /\ Len(t) \in Nat
      /\ \A i \in 1..Len(s) : u[i] = s[i]
      /\ \A i \in (Len(s) + 1)..(Len(s) + Len(t)) : u[i] = t[i - Len(s)]
  BY ConcatProperties
<1> HIDE DEF u
<1>2. q \in Seq(S) /\ Len(q) = Len(s) /\ \A i \in 1..Len(s) : q[i] = u[i]
  BY <1>1, SubSeqProperties
<1> HIDE DEF q
<1>3. q = s
  BY <1>1, <1>2, SeqEqual
<1> QED
  BY <1>1, <1>3 DEF u, q

LEMMA PrefixAfterFirst ==
  ASSUME NEW S, NEW x \in S, NEW t \in Seq(S), NEW n \in 1..(Len(t) + 1)
  PROVE  LET p == SubSeq(<<x>> \o t, 1, n) IN
         p # <<>> /\ Head(p) = x /\ Tail(p) = SubSeq(t, 1, n - 1)
<1> DEFINE u == <<x>> \o t
           p == SubSeq(u, 1, n)
           r == SubSeq(t, 1, n - 1)
<1>1. /\ u \in Seq(S) /\ Len(u) = Len(t) + 1 /\ Len(t) \in Nat
      /\ u[1] = x /\ \A i \in 1..Len(t) : u[i + 1] = t[i]
  OBVIOUS
<1> HIDE DEF u
<1>2. p \in Seq(S) /\ Len(p) = n /\ \A i \in 1..n : p[i] = u[i]
  BY <1>1, SubSeqProperties
<1>3. r \in Seq(S) /\ Len(r) = n - 1 /\ \A i \in 1..(n - 1) : r[i] = t[i]
  BY <1>1, SubSeqProperties
<1> HIDE DEF p, r
<1>4. p # <<>> /\ Head(p) = p[1]
  BY <1>1, <1>2
<1>5. Tail(p) \in Seq(S) /\ Len(Tail(p)) = n - 1 /\ \A i \in 1..(n - 1) : Tail(p)[i] = p[i + 1]
  BY <1>1, <1>2, <1>4, HeadTailProperties
<1>6. ASSUME NEW i \in 1..(n - 1) PROVE Tail(p)[i] = r[i]
  <2>1. i \in 1..Len(t) /\ i + 1 \in 1..n
    BY <1>1
  <2>2. Tail(p)[i] = p[i + 1] /\ p[i + 1] = u[i + 1]
    BY <1>2, <1>5, <2>1
  <2> QED
    BY <1>1, <1>3, <2>1, <2>2
<1>7. Tail(p) = r
  BY <1>3, <1>5, <1>6, SeqEqual
<1> QED
  BY <1>1, <1>2, <1>4, <1>7 DEF u, p, r

(* A line is cut off at some place, and not within its ordinary words. *)
LEMMA UptoCuts ==
  ASSUME NEW ws \in Seq(Word), NEW ends, NEW k \in 0..Len(ws),
         \A i \in 1..k : ws[i] \notin ends
  PROVE  \E n \in k..Len(ws) : Upto(ws, ends) = SubSeq(ws, 1, n)
<1> DEFINE stops == {i \in DOMAIN ws : ws[i] \in ends}
<1>1. Len(ws) \in Nat /\ DOMAIN ws = 1..Len(ws)
  BY LenProperties
<1>2. CASE stops = {}
  <2>1. Upto(ws, ends) = ws
    BY <1>2 DEF Upto
  <2>2. SubSeq(ws, 1, Len(ws)) = ws
    BY SubSeqFull
  <2>3. Len(ws) \in k..Len(ws)
    BY <1>1
  <2> QED
    BY <2>1, <2>2, <2>3
<1>3. CASE stops # {}
  <2>1. \E m \in stops : \A j \in stops : m <= j
    <3>1. stops \in SUBSET Nat
      BY <1>1
    <3> HIDE DEF stops
    <3> QED
      BY <1>3, <3>1, LeastNatural
  <2>2. Min(stops) \in stops
    BY <2>1 DEF Min
  <2>3. Upto(ws, ends) = SubSeq(ws, 1, Min(stops) - 1)
    BY <1>3 DEF Upto
  <2>4. Min(stops) \in 1..Len(ws) /\ ~ (Min(stops) <= k)
    BY <1>1, <2>2
  <2> HIDE DEF stops
  <2>5. Min(stops) - 1 \in k..Len(ws)
    BY <1>1, <2>4
  <2> QED
    BY <2>3, <2>5
<1> QED
  BY <1>2, <1>3

(* Such an argument is set already, and not by the next word. *)
Named(a, b) == b.addr = a.addr /\ b.uid = a.uid /\ b.expects \notin {"addr", "uid"}

LEMMA TakeKeeps ==
  ASSUME NEW a \in ArgsType, NEW b \in ArgsType, Named(a, b), NEW w \in Word, w \notin Naming
  PROVE  Named(a, Take("client-add", b, w))
<1>1. {"expects", "addr", "uid"} \subseteq Fields /\ b \in [Fields -> Word]
  BY DEF Fields, ArgsType
<1>2. Keyword("client-add", w) \notin {"addr", "uid"}
  BY DEF Keyword, Naming
<1>3. CASE b.expects = ""
  <2>1. Take("client-add", b, w) = [b EXCEPT !.expects = Keyword("client-add", w)]
    BY <1>3 DEF Take
  <2> QED
    BY <1>1, <1>2, <2>1 DEF Named
<1>4. CASE b.expects # "" /\ Parses(b.expects, w)
  <2>1. Take("client-add", b, w) = [b EXCEPT ![b.expects] = w, !.expects = ""]
    BY <1>4 DEF Take
  <2> QED
    BY <1>1, <2>1 DEF Named
<1>5. CASE b.expects # "" /\ ~ Parses(b.expects, w)
  <2>1. Take("client-add", b, w) = [b EXCEPT !.expects = "error"]
    BY <1>5 DEF Take
  <2> QED
    BY <1>1, <2>1 DEF Named
<1> QED
  BY <1>3, <1>4, <1>5

LEMMA PastTheFirst ==
  ASSUME NEW k \in Nat, NEW d \in Nat, NEW n \in k..(k + d), n # k
  PROVE  /\ n - 1 \in k..(k + d)
         /\ n \in 1..(k + d)
         /\ n \in (k + 1)..(k + d)
         /\ n - k \in 1..d
OBVIOUS

(* A set of sequences that grows with each of c has every prefix from h on. *)
LEMMA PrefixInduction ==
  ASSUME NEW S, NEW h \in Seq(S), NEW c \in Seq(S), NEW G, h \in G,
         \A s \in Seq(S), i \in 1..Len(c) : s \in G => Append(s, c[i]) \in G,
         NEW m \in Len(h)..Len(h \o c)
  PROVE  SubSeq(h \o c, 1, m) \in G
<1> DEFINE t == h \o c
           T == {n \in Len(h)..Len(t) : SubSeq(t, 1, n) \notin G}
<1>1. /\ t \in Seq(S) /\ Len(t) = Len(h) + Len(c) /\ Len(h) \in Nat /\ Len(c) \in Nat
      /\ \A i \in (Len(h) + 1)..(Len(h) + Len(c)) : t[i] = c[i - Len(h)]
      /\ SubSeq(t, 1, Len(h)) = h
  BY PrefixOfBoth, LenProperties
<1> HIDE DEF t
<1> SUFFICES ASSUME T # {} PROVE FALSE
  BY DEF t
<1>2. T \in SUBSET Nat
  BY <1>1
<1>3. PICK n \in T : \A j \in T : n <= j
  <2> HIDE DEF T
  <2> QED
    BY <1>2, LeastNatural
<1>4. n \in Len(h)..Len(t) /\ SubSeq(t, 1, n) \notin G
  BY <1>3
<1>5. n # Len(h)
  BY <1>1, <1>4
<1>6. n - 1 \in Len(h)..Len(t) /\ n \in 1..Len(t) /\ n \in (Len(h) + 1)..(Len(h) + Len(c))
      /\ n - Len(h) \in 1..Len(c)
  BY <1>1, <1>4, <1>5, PastTheFirst
<1>7. n - 1 \notin T
  BY <1>3, <1>6
<1>8. SubSeq(t, 1, n - 1) \in G
  BY <1>6, <1>7
<1>9. /\ SubSeq(t, 1, n - 1) \in Seq(S)
      /\ SubSeq(t, 1, n) = Append(SubSeq(t, 1, n - 1), t[n])
  BY <1>1, <1>6, PrefixOne
<1>10. t[n] = c[n - Len(h)]
  BY <1>1, <1>6
<1> QED
  BY <1>4, <1>6, <1>8, <1>9, <1>10

(* So words that name no peer leave the peer that was named. *)
LEMMA QuietWords ==
  ASSUME NEW h \in Seq(Word), NEW c \in Seq(Word), Args("client-add", h).expects = "",
         \A i \in 1..Len(c) : c[i] \notin Naming,
         NEW m \in Len(h)..Len(h \o c)
  PROVE  Named(Args("client-add", h), Args("client-add", SubSeq(h \o c, 1, m)))
<1> DEFINE a == Args("client-add", h)
           G == {s \in Seq(Word) : Named(a, Args("client-add", s))}
<1>1. a \in ArgsType
  BY ArgsHaveType
<1>2. h \in G
  BY DEF Named
<1>3. ASSUME NEW s \in Seq(Word), NEW i \in 1..Len(c), s \in G
      PROVE  Append(s, c[i]) \in G
  <2>1. c[i] \in Word
    BY ElementOfSeq
  <2>2. Args("client-add", s) \in ArgsType /\ Named(a, Args("client-add", s))
    BY <1>3, ArgsHaveType
  <2>3. Append(s, c[i]) \in Seq(Word)
        /\ Args("client-add", Append(s, c[i])) = Take("client-add", Args("client-add", s), c[i])
    BY <2>1, FrontLastAppend, ArgsUnfold
  <2> HIDE DEF a
  <2>4. Named(a, Take("client-add", Args("client-add", s), c[i]))
    BY <1>1, <2>1, <2>2, TakeKeeps
  <2> QED
    BY <2>3, <2>4
<1> HIDE DEF G
<1>4. SubSeq(h \o c, 1, m) \in G
  BY <1>2, <1>3, PrefixInduction
<1> QED
  BY <1>4 DEF G

LEMMA FirstAndOthers ==
  ASSUME NEW S, NEW x \in S, NEW s \in Seq(S), NEW N,
         x \notin N, \A i \in 1..Len(s) : s[i] \notin N
  PROVE  <<x>> \o s \in Seq(S) /\ \A i \in 1..Len(<<x>> \o s) : (<<x>> \o s)[i] \notin N
OBVIOUS

LEMMA QuietComment ==
  ASSUME NEW comment \in Comments, \A i \in DOMAIN comment : comment[i] \notin Naming
  PROVE  /\ FormatComment(comment) \in Seq(Word)
         /\ \A i \in 1..Len(FormatComment(comment)) : FormatComment(comment)[i] \notin Naming
<1>1. CASE comment = <<>>
  <2>1. FormatComment(comment) = <<>>
    BY <1>1 DEF FormatComment
  <2>2. <<>> \in Seq(Word) /\ 1..Len(<<>>) = {}
    OBVIOUS
  <2> QED
    BY <2>1, <2>2
<1>2. CASE comment # <<>>
  <2> DEFINE c == <<"comment">> \o comment
  <2>1. comment \in Seq(Word) /\ DOMAIN comment = 1..Len(comment)
    <3>1. comment \in Seq(Word \ {""}) /\ Word \ {""} \subseteq Word
      BY ConfigAssumption
    <3> QED
      BY <3>1, SeqMonotonic, LenProperties
  <2>2. "comment" \in Word /\ "comment" \notin Naming
    BY KnownWords DEF Fields, Naming
  <2>3. c \in Seq(Word) /\ \A i \in 1..Len(c) : c[i] \notin Naming
    BY <2>1, <2>2, FirstAndOthers
  <2>4. FormatComment(comment) = c
    BY <1>2 DEF FormatComment
  <2> QED
    BY <2>3, <2>4
<1> QED
  BY <1>1, <1>2

LEMMA FirstOnes ==
  ASSUME NEW S, NEW R \in SUBSET S, NEW x \in R, NEW h \in Seq(R), NEW c \in Seq(S)
  PROVE  LET line == <<x>> \o (h \o c) IN
         /\ h \o c \in Seq(S) /\ line \in Seq(S) /\ Len(line) = Len(h \o c) + 1
         /\ Len(h) + 1 \in 0..Len(line)
         /\ \A i \in 1..(Len(h) + 1) : line[i] \in R
<1> DEFINE t == h \o c
           line == <<x>> \o t
<1>1. h \in Seq(S) /\ Len(h) \in Nat /\ Len(c) \in Nat
  BY SeqMonotonic, LenProperties
<1>2. t \in Seq(S) /\ Len(t) = Len(h) + Len(c) /\ \A i \in 1..Len(h) : t[i] = h[i]
  BY <1>1, PrefixOfBoth
<1> HIDE DEF t
<1>3. line \in Seq(S) /\ Len(line) = Len(t) + 1 /\ line[1] = x
      /\ \A i \in 2..(Len(t) + 1) : line[i] = t[i - 1]
  <2>1. x \in S
    OBVIOUS
  <2> QED
    BY <1>2, <2>1
<1> HIDE DEF line
<1>4. \A i \in 1..Len(h) : h[i] \in R
  BY ElementOfSeq
<1>5. ASSUME NEW i \in 1..(Len(h) + 1) PROVE line[i] \in R
  <2>1. CASE i = 1
    BY <1>3, <2>1
  <2>2. CASE i # 1
    <3>1. i \in 2..(Len(t) + 1) /\ i - 1 \in 1..Len(h)
      BY <1>1, <1>2, <2>2
    <3> QED
      BY <1>2, <1>3, <1>4, <3>1
  <2> QED
    BY <2>1, <2>2
<1>6. Len(h) + 1 \in 0..Len(line)
  BY <1>1, <1>2, <1>3
<1> QED
  BY <1>2, <1>3, <1>5, <1>6 DEF line, t

(* A line is run with its ordinary words and some of the others. *)
LEMMA CutLine ==
  ASSUME NEW x \in Ordinary, NEW h \in Seq(Ordinary), NEW c \in Seq(Word)
  PROVE  LET words == Shlex(SubCommand(<<x>> \o (h \o c))) IN
         \E m \in Len(h)..Len(h \o c) :
           words # <<>> /\ Head(words) = x /\ Tail(words) = SubSeq(h \o c, 1, m)
<1> DEFINE t == h \o c
           line == <<x>> \o t
           k == Len(h) + 1
<1>1. x \in Word /\ Ordinary \in SUBSET Word /\ Len(h) \in Nat
  BY LenProperties DEF Ordinary
<1>2. /\ t \in Seq(Word) /\ line \in Seq(Word) /\ Len(line) = Len(t) + 1 /\ k \in 0..Len(line)
      /\ \A i \in 1..k : line[i] \in Ordinary
  BY <1>1, FirstOnes
<1>3. \A w \in Ordinary : w \notin {";"} /\ w \notin Hashed
  BY DEF Ordinary, Special
<1>4. Len(t) \in Nat
  BY <1>2, LenProperties
<1> HIDE DEF t, line
<1>5. PICK n \in k..Len(line) : SubCommand(line) = SubSeq(line, 1, n)
  <2>1. \A i \in 1..k : line[i] \notin {";"}
    BY <1>2, <1>3
  <2> HIDE DEF k
  <2>2. \E n \in k..Len(line) : Upto(line, {";"}) = SubSeq(line, 1, n)
    BY <1>2, <2>1, UptoCuts
  <2> QED
    BY <2>2 DEF SubCommand
<1> DEFINE s == SubSeq(line, 1, n)
<1>6. n \in 0..Len(line) /\ k \in 0..n
  BY <1>1, <1>2, <1>4, <1>5
<1>7. s \in Seq(Word) /\ Len(s) = n /\ \A i \in 1..n : s[i] = line[i]
  BY <1>2, <1>6, PrefixOfPrefix
<1> HIDE DEF s
<1>8. PICK l \in k..n : Shlex(s) = SubSeq(s, 1, l)
  <2>1. \A i \in 1..k : i \in 1..n
    BY <1>6
  <2>2. \A i \in 1..k : s[i] \notin Hashed
    BY <1>2, <1>3, <1>7, <2>1
  <2>3. k \in 0..Len(s)
    BY <1>6, <1>7
  <2> HIDE DEF k
  <2>4. \E l \in k..Len(s) : Upto(s, Hashed) = SubSeq(s, 1, l)
    BY <1>7, <2>2, <2>3, UptoCuts
  <2> QED
    BY <1>7, <2>4 DEF Shlex
<1>9. l \in 0..n /\ l \in 1..(Len(t) + 1) /\ l - 1 \in Len(h)..Len(t)
  BY <1>1, <1>2, <1>4, <1>5, <1>8
<1>10. Shlex(SubCommand(line)) = SubSeq(line, 1, l)
  BY <1>2, <1>5, <1>6, <1>8, <1>9, PrefixOfPrefix DEF s
<1>11. /\ SubSeq(line, 1, l) # <<>> /\ Head(SubSeq(line, 1, l)) = x
       /\ Tail(SubSeq(line, 1, l)) = SubSeq(t, 1, l - 1)
  BY <1>1, <1>2, <1>9, PrefixAfterFirst DEF line
<1> QED
  BY <1>9, <1>10, <1>11 DEF line, t

(* On the client that was dumped the line of a peer fails. *)
LEMMA PeerIsThere ==
  ASSUME Keyed(saved), names \in [Uids -> Word], Quiet, maps = saved, NEW e \in Dumped
  PROVE  LET words == Shlex(SubCommand(PeerLine(saved.server, e))) IN
         words # <<>> /\ \A o \in Outcomes(Head(words), Tail(words)) : o = Failed
<1> DEFINE line == PeerLine(saved.server, e)
           words == Shlex(SubCommand(line))
           h == Header(FALSE, e)
           c == FormatComment(e.comment)
           a == Args("client-add", h)
           b == Args("client-add", Tail(words))
<1>1. saved.server = FALSE /\ e \in saved.egress /\ e \in Entries(saved) /\ e \in Peers
  BY DEF Quiet, Keyed, MapsType, Dumped, Entries
<1>2. PeerOK(FALSE, e)
  BY <1>1 DEF PeerOK, Peers
<1>3. PlainNames /\ ResolveIp[IpToString[e.addr]] = e.addr
      /\ \A i \in DOMAIN e.comment : e.comment[i] \notin Naming
  BY <1>1 DEF Quiet, PlainAddresses, QuietComments, Naming
<1>4. /\ h \in Seq(Ordinary) /\ a.expects = "" /\ a.addr = IpToString[e.addr]
      /\ ResolveUid(a.uid) = {e.uid}
  <2>1. Command(FALSE) = "client-add"
    BY DEF Command
  <2> QED
    BY <1>2, <1>3, <2>1, HeaderReads
<1>5. line = <<"client-add">> \o (h \o c)
  BY <1>1 DEF PeerLine, Header
<1>6. c \in Seq(Word) /\ \A i \in 1..Len(c) : c[i] \notin Naming
  <2>1. e.comment \in Comments
    BY <1>2 DEF PeerOK
  <2> QED
    BY <1>3, <2>1, QuietComment
<1>7. "client-add" \in Ordinary /\ h \in Seq(Word)
  BY <1>4, LiteralsOrdinary, SeqMonotonic DEF Ordinary
<1> HIDE DEF h, c, line
<1>8. PICK m \in Len(h)..Len(h \o c) :
        words # <<>> /\ Head(words) = "client-add" /\ Tail(words) = SubSeq(h \o c, 1, m)
  BY <1>4, <1>5, <1>6, <1>7, CutLine, Zenon
<1> HIDE DEF words
<1>9. Named(a, b)
  BY <1>4, <1>6, <1>7, <1>8, QuietWords
<1> HIDE DEF a, b
<1>10. b.addr = IpToString[e.addr] /\ ResolveUid(b.uid) = {e.uid}
  BY <1>4, <1>9 DEF Named
<1>11. ClientAdd(ClientPeer(b, e.uid)) = Failed
  <2> DEFINE p == ClientPeer(b, e.uid)
  <2>1. p.addr = e.addr /\ p.uid = e.uid
    BY <1>3, <1>10 DEF ClientPeer
  <2> HIDE DEF p
  <2>2. \E i \in maps.ingress : i.addr = p.addr /\ i.uid = p.uid
    BY <1>1, <2>1 DEF Keyed
  <2>3. ClientAdd(p) = Failed
    BY <2>2 DEF ClientAdd
  <2> QED
    BY <2>3 DEF p
<1>12. CASE Valid(b)
  <2>1. Outcomes("client-add", Tail(words)) = {ClientAdd(ClientPeer(b, u)) : u \in ResolveUid(b.uid)}
    BY <1>12 DEF Outcomes, b
  <2> QED
    BY <1>8, <1>10, <1>11, <2>1 DEF words, line
<1>13. CASE ~ Valid(b)
  <2>1. Outcomes("client-add", Tail(words)) = {Failed}
    BY <1>13 DEF Outcomes, b
  <2> QED
    BY <1>8, <2>1 DEF words, line
<1> QED
  BY <1>12, <1>13

LEMMA HarmlessRun ==
  ASSUME IInv, RunCommand, Quiet
  PROVE  /\ maps' = saved' /\ pc' \in {"restoring", "failed"}
         /\ pc' = "restoring" =>
              \E ls, es : Listed(ls, es)' /\ (script' = <<ModeLine(saved)'>> \o ls \/ script' = ls)
<1>1. /\ pc = "restoring" /\ script # <<>>
      /\ UNCHANGED <<file, names, numeric, todo, saved, edited, fresh>>
  BY DEF RunCommand
<1>2. Keyed(saved) /\ names \in [Uids -> Word] /\ saved.server = FALSE /\ saved \in MapsType
  BY DEF IInv, TypeInv, Keyed, MapsType, Quiet
<1>3. maps = saved
  BY <1>1 DEF IInv, HarmlessInv
<1>4. \A ls, es : Listed(ls, es)' <=> Listed(ls, es)
  BY <1>1, SameDump
<1>5. PICK ls, es : Listed(ls, es) /\ (script = <<ModeLine(saved)>> \o ls \/ script = ls)
  BY <1>1 DEF IInv, HarmlessInv
<1>6. CASE script = <<ModeLine(saved)>> \o ls
  <2> DEFINE m == [maps EXCEPT !.server = saved.server, !.age = saved.age]
  <2>1. Head(script) = ModeLine(saved) /\ Tail(script) = ls
    BY <1>5, <1>6, ModeFirst
  <2>2. /\ ModeLine(saved) \in Seq(Ordinary) /\ ModeLine(saved) # <<>>
        /\ Outcomes(Head(ModeLine(saved)), Tail(ModeLine(saved))) = {Became(m)}
    BY <1>2, <1>3, ModeOutcome
  <2>3. m = saved
    BY <1>2, <1>3, SameMaps DEF MapsType
  <2> HIDE DEF m
  <2>4. Became(m).ok /\ Became(m).maps = m
    BY DEF Became
  <2>5. maps' = m /\ pc' = pc /\ script' = ls
    BY <2>1, <2>2, <2>4, OrdinaryStep
  <2> QED
    BY <1>1, <1>4, <1>5, <2>3, <2>5
<1>7. CASE script = ls
  <2> DEFINE e == Head(es)
             words == Shlex(SubCommand(Head(script)))
  <2>1. e \in Dumped /\ Head(script) = PeerLine(saved.server, e)
    BY <1>1, <1>5, <1>7, ListedTail
  <2>2. words # <<>> /\ \A o \in Outcomes(Head(words), Tail(words)) : o = Failed
    BY <1>2, <1>3, <2>1, PeerIsThere
  <2> HIDE DEF words
  <2>3. PICK o : o = Failed /\ maps' = o.maps /\ pc' = IF o.ok THEN pc ELSE "failed"
    BY <2>2 DEF RunCommand, words
  <2>4. Failed.ok = FALSE /\ Failed.maps = maps
    BY DEF Failed
  <2> QED
    BY <1>1, <1>3, <2>3, <2>4
<1> QED
  BY <1>5, <1>6, <1>7

LEMMA RunCommandStep ==
  ASSUME IInv, RunCommand
  PROVE  IInv'
<1>1. UNCHANGED <<file, names, numeric, todo, saved, edited, fresh>> /\ pc = "restoring"
      /\ pc' \in {"restoring", "failed"}
  <2>1. UNCHANGED <<file, names, numeric, todo, saved, edited, fresh>> /\ pc = "restoring"
    BY DEF RunCommand
  <2>2. \E ok : pc' = IF ok THEN pc ELSE "failed"
    BY DEF RunCommand
  <2> QED
    BY <2>1, <2>2
<1>2. TypeInv'
  BY <1>1 DEF IInv, TypeInv
<1>3. Plain' = Plain /\ Quiet' = Quiet
  BY <1>1, SamePlain
<1>4. FaithfulInv'
  BY <1>1, <1>3, FaithfulRun DEF FaithfulInv
<1>5. HarmlessInv'
  BY <1>1, <1>3, HarmlessRun DEF HarmlessInv
<1> QED
  BY <1>1, <1>2, <1>4, <1>5 DEF IInv, SetUpInv, DumpInv
-----------------------------------------------------------------------------
(* Every step of the specification keeps the inductive invariant: a        *)
(* command of an administrator, the dump, what happens to the file and the *)
(* module, and the script.                                                 *)
THEOREM NextIInv == IInv /\ [Next]_vars => IInv'
<1> SUFFICES ASSUME IInv, [Next]_vars PROVE IInv'
  OBVIOUS
<1>1. CASE SetUp \/ \E e \in [addr : Addrs, uid : Uids, port : Ports, key : Keys,
                              comment : {<<>>}] : Abort(e)
  BY <1>1, SetUpStep
<1>2. CASE \E n \in BOOLEAN : BeginDump(n)
  BY <1>2, BeginDumpStep
<1>3. CASE \E e \in todo : DumpEntry(e)
  BY <1>3, DumpEntryStep
<1>4. CASE EndDump
  BY <1>4, EndDumpStep
<1>5. CASE LoadModule \/ \E f \in UidFiles : EditFile(f)
  BY <1>5, MeanwhileStep
<1>6. CASE BeginScript
  BY <1>6, BeginScriptStep
<1>7. CASE RunCommand
  BY <1>7, RunCommandStep
<1>8. CASE EndScript
  BY <1>8, EndScriptStep
<1>9. CASE UNCHANGED vars
  <2>1. UNCHANGED <<maps, file, names, numeric, script, todo, saved, edited, fresh, pc>>
    BY <1>9 DEF vars
  <2>2. Plain' = Plain /\ Quiet' = Quiet
    BY <2>1, SamePlain
  <2>3. /\ ModeLine(saved)' = ModeLine(saved) /\ Dumped' = Dumped
        /\ \A ls, es : Listed(ls, es)' <=> Listed(ls, es)
    BY <2>1, SameDump
  <2>4. TypeInv' /\ SetUpInv'
    BY <2>1 DEF IInv, TypeInv, SetUpInv
  <2>5. DumpInv'
    BY <2>1, <2>3 DEF IInv, DumpInv
  <2>6. (BeforeMode \/ BeforePeers) => (BeforeMode \/ BeforePeers)'
    BY <2>1, <2>3 DEF BeforeMode, BeforePeers, Restored
  <2>7. FaithfulInv'
    BY <2>1, <2>2, <2>6 DEF IInv, FaithfulInv
  <2>8. HarmlessInv'
    BY <2>1, <2>2, <2>3 DEF IInv, HarmlessInv
  <2> QED
    BY <2>4, <2>5, <2>7, <2>8 DEF IInv
<1> QED
  BY <1>1, <1>2, <1>3, <1>4, <1>5, <1>6, <1>7, <1>8, <1>9 DEF Next

(* A dump of a configuration with plain addresses, host names, comments    *)
(* and maps, run as a script on a module just loaded or on the server it   *)
(* was taken from, never fails and restores every map, in whatever order   *)
(* the dump printed the peers.                                             *)
THEOREM DumpRestores == Spec => []RestoreFaithful
<1>1. IInv => RestoreFaithful
  BY DEF IInv, FaithfulInv, Plain, RestoreFaithful
<1> QED
  BY <1>1, InitIInv, NextIInv, PTL DEF Spec

(* A dump that is run on the client it was taken from leaves every map as  *)
(* it was, whatever a comment does to its line short of naming a peer.     *)
THEOREM RerunIsHarmless == Spec => []RestoreHarmless
<1>1. IInv => RestoreHarmless
  BY DEF IInv, HarmlessInv, Quiet, RestoreHarmless
<1> QED
  BY <1>1, InitIInv, NextIInv, PTL DEF Spec
=============================================================================
