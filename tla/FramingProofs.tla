--------------------------- MODULE FramingProofs ---------------------------
(***************************************************************************)
(* parse_attrs reads back what push_nlattr wrote, for every size of a      *)
(* byte, any payloads and any number of attributes.                        *)
(***************************************************************************)
EXTENDS Framing, SequenceTheorems, WellFoundedInduction, TLAPS

(* One turn of the loop in parse_attrs, which f goes on with. *)
Turn(f, data) == IF More(data) THEN <<First(data)>> \o f[After(data)] ELSE << >>

(* f is parse_attrs for the buffers shorter than n. *)
Short(n) == {data \in Seq(Byte) : Len(data) < n}
ParsesTo(f, n) == \A data \in Short(n) : f[data] = Turn(f, data)

(* An attribute, and what push_nlattr writes for it. *)
Attr == [type : Byte, payload : Seq(Byte)]
Encoded(type, payload) == PushNlattr(<< >>, type, payload)
-----------------------------------------------------------------------------
(* Among natural numbers there is a least. *)
LEMMA LeastNatural ==
  ASSUME NEW T \in SUBSET Nat, T # {}
  PROVE  \E n \in T : \A m \in T : n <= m
<1>1. PICK n \in T : \A m \in T : ~ (<<m, n>> \in OpToRel(<, Nat))
  BY WFMin, NatLessThanWellFounded
<1>2. \A m \in T : ~ (m < n)
  BY <1>1 DEF OpToRel
<1> QED
  BY <1>2

(* The alignment of a length. *)
LEMMA AlignBounds ==
  ASSUME NEW n \in Nat
  PROVE  Align(n) \in Nat /\ n <= Align(n) /\ Align(n) < n + 4 /\ (Align(n) = 0 <=> n = 0)
BY DEF Align

(* Every turn of the loop leaves less. *)
LEMMA AfterIsShorter ==
  ASSUME NEW data \in Seq(Byte), More(data)
  PROVE  After(data) \in Seq(Byte) /\ Len(After(data)) < Len(data)
<1>1. /\ Len(data) \in Nat /\ NlaLen(data) <= Len(data) /\ NlaLen(data) >= Header
      /\ Len(data) >= 4
  BY DEF More, Whole, Header
<1>2. NlaLen(data) \in Nat
  <2>1. data[1] \in Byte /\ data[2] \in Byte
    BY <1>1, ElementOfSeq
  <2>2. data[1] \in Nat /\ data[2] \in Nat /\ Base \in Nat
    BY <2>1, FramingAssumption DEF Byte
  <2> QED
    BY <2>2 DEF NlaLen
<1>3. Align(NlaLen(data)) \in Nat /\ Align(NlaLen(data)) >= 4
  <2>1. \A n \in Nat : n >= 4 => Align(n) \in Nat /\ Align(n) >= 4
    BY DEF Align
  <2>2. NlaLen(data) >= 4
    BY <1>1 DEF Header
  <2> QED
    BY <1>2, <2>1, <2>2
<1> DEFINE k == Align(NlaLen(data))
<1> HIDE DEF k
<1>4. k \in Nat /\ k >= 4 /\ After(data) = SubSeq(data, k + 1, Len(data))
  BY <1>3 DEF k, After
<1>5. CASE k <= Len(data)
  <2>1. SubSeq(data, k + 1, Len(data)) \in Seq(Byte)
    BY <1>1, <1>4, <1>5, SubSeqProperties
  <2>2. Len(SubSeq(data, k + 1, Len(data))) = Len(data) - k
    BY <1>1, <1>4, <1>5, SubSeqProperties
  <2> QED
    BY <1>1, <1>4, <2>1, <2>2
<1>6. CASE k > Len(data)
  <2>1. SubSeq(data, k + 1, Len(data)) = << >>
    BY <1>1, <1>4, <1>6
  <2> QED
    BY <1>1, <1>4, <2>1
<1> QED
  BY <1>1, <1>4, <1>5, <1>6

(* Two such functions agree. *)
LEMMA ParsesAgree ==
  ASSUME NEW f, NEW g, NEW n \in Nat, NEW m \in Nat, ParsesTo(f, n), ParsesTo(g, m)
  PROVE  \A data \in Short(n) \cap Short(m) : f[data] = g[data]
<1> DEFINE B == {data \in Short(n) \cap Short(m) : f[data] # g[data]}
           T == {Len(data) : data \in B}
<1> SUFFICES ASSUME B # {} PROVE FALSE
  OBVIOUS
<1>1. T \in SUBSET Nat /\ T # {}
  <2>1. \A data \in B : Len(data) \in Nat
    BY DEF Short
  <2> QED
    BY <2>1
<1>2. PICK k \in T : \A j \in T : k <= j
  BY <1>1, LeastNatural
<1>3. PICK data \in B : Len(data) = k
  BY <1>2
<1>4. f[data] = Turn(f, data) /\ g[data] = Turn(g, data) /\ f[data] # g[data]
  BY <1>3 DEF ParsesTo
<1>5. More(data)
  BY <1>4 DEF Turn
<1>6. data \in Seq(Byte) /\ Len(data) < n /\ Len(data) < m
  BY <1>3 DEF Short
<1>7. After(data) \in Seq(Byte) /\ Len(After(data)) < Len(data)
  BY <1>5, <1>6, AfterIsShorter
<1>8. After(data) \in Short(n) \cap Short(m)
  BY <1>6, <1>7 DEF Short
<1>9. After(data) \notin B
  BY <1>2, <1>3, <1>6, <1>7
<1>10. f[After(data)] = g[After(data)]
  BY <1>8, <1>9
<1> QED
  BY <1>4, <1>5, <1>10 DEF Turn

(* There is one for every length. *)
LEMMA ParsesExist ==
  ASSUME NEW n \in Nat
  PROVE  \E f : ParsesTo(f, n)
<1> DEFINE T == {k \in Nat : ~ \E f : ParsesTo(f, k)}
<1> SUFFICES ASSUME T # {} PROVE FALSE
  OBVIOUS
<1>1. PICK k \in T : \A j \in T : k <= j
  BY LeastNatural
<1>2. k # 0
  <2>1. ParsesTo(<< >>, 0)
    BY DEF ParsesTo, Short
  <2> QED
    BY <2>1
<1>3. k - 1 \in Nat /\ k - 1 \notin T
  BY <1>1, <1>2
<1>4. PICK f : ParsesTo(f, k - 1)
  BY <1>3
<1> DEFINE g == [data \in Short(k) |-> Turn(f, data)]
<1>5. ASSUME NEW data \in Short(k) PROVE g[data] = Turn(g, data)
  <2>1. CASE ~ More(data)
    BY <2>1 DEF Turn
  <2>2. CASE More(data)
    <3>1. data \in Seq(Byte) /\ Len(data) < k /\ Len(data) \in Nat
      BY DEF Short
    <3>2. After(data) \in Seq(Byte) /\ Len(After(data)) < Len(data) /\ Len(After(data)) \in Nat
      BY <2>2, <3>1, AfterIsShorter
    <3>3. After(data) \in Short(k - 1) /\ After(data) \in Short(k)
      BY <1>3, <3>1, <3>2 DEF Short
    <3>4. g[After(data)] = f[After(data)]
      BY <1>4, <3>3 DEF ParsesTo
    <3>5. g[data] = <<First(data)>> \o f[After(data)]
      BY <2>2 DEF Turn
    <3> QED
      BY <2>2, <3>4, <3>5 DEF Turn
  <2> QED
    BY <2>1, <2>2
<1>6. ParsesTo(g, k)
  BY <1>5 DEF ParsesTo
<1> QED
  BY <1>6

(* So parse_attrs is what its loop says, for every buffer. *)
LEMMA ParseAttrsUnfolds ==
  ASSUME NEW data \in Seq(Byte)
  PROVE  ParseAttrs[data] = Turn(ParseAttrs, data)
<1> DEFINE some(n) == CHOOSE f : ParsesTo(f, n)
           whole == [d \in Seq(Byte) |-> some(Len(d) + 1)[d]]
<1>1. \A n \in Nat : ParsesTo(some(n), n)
  BY ParsesExist
<1> HIDE DEF some
<1>2. ASSUME NEW d \in Seq(Byte) PROVE whole[d] = Turn(whole, d)
  <2>1. Len(d) \in Nat /\ d \in Short(Len(d) + 1)
    BY DEF Short
  <2>2. whole[d] = Turn(some(Len(d) + 1), d)
    BY <1>1, <2>1 DEF ParsesTo
  <2>3. CASE ~ More(d)
    BY <2>2, <2>3 DEF Turn
  <2>4. CASE More(d)
    <3>1. After(d) \in Seq(Byte) /\ Len(After(d)) < Len(d) /\ Len(After(d)) \in Nat
      BY <2>4, AfterIsShorter
    <3>2. After(d) \in Short(Len(d) + 1) \cap Short(Len(After(d)) + 1)
      BY <2>1, <3>1 DEF Short
    <3>3. some(Len(d) + 1)[After(d)] = some(Len(After(d)) + 1)[After(d)]
      <4>1. ParsesTo(some(Len(d) + 1), Len(d) + 1)
              /\ ParsesTo(some(Len(After(d)) + 1), Len(After(d)) + 1)
        BY <1>1, <2>1, <3>1
      <4> QED
        BY <2>1, <3>1, <3>2, <4>1, ParsesAgree
    <3>4. whole[After(d)] = some(Len(d) + 1)[After(d)]
      BY <3>1, <3>3
    <3> QED
      BY <2>2, <2>4, <3>4 DEF Turn
  <2> QED
    BY <2>3, <2>4
<1> DEFINE eqn(f) == f = [d \in Seq(Byte) |-> Turn(f, d)]
<1>3. eqn(whole)
  BY <1>2
<1> HIDE DEF whole
<1>4. ParseAttrs = CHOOSE f : eqn(f)
  BY DEF ParseAttrs, Turn
<1>5. eqn(ParseAttrs)
  BY <1>3, <1>4
<1> QED
  BY <1>5

(* One turn finds an attribute. *)
LEMMA FirstType ==
  ASSUME NEW data \in Seq(Byte), More(data)
  PROVE  First(data) \in Attr
<1>1. Len(data) \in Nat /\ Len(data) >= 4 /\ NlaLen(data) <= Len(data)
  BY DEF More, Whole, Header
<1>2. \A i \in 1..Len(data) : data[i] \in Byte
  BY ElementOfSeq
<1>3. data[1] \in Nat /\ data[2] \in Nat /\ Base \in Nat /\ data[3] \in Byte
  BY <1>1, <1>2, FramingAssumption DEF Byte
<1>4. NlaLen(data) \in Nat
  BY <1>3 DEF NlaLen
<1>5. SubSeq(data, 5, NlaLen(data)) \in Seq(Byte)
  BY <1>1, <1>2, <1>4, SubSeqProperties
<1> QED
  BY <1>3, <1>5 DEF First, Attr, Header

(* What parse_attrs gets is attributes. *)
LEMMA ParsedType ==
  ASSUME NEW data \in Seq(Byte)
  PROVE  ParseAttrs[data] \in Seq(Attr)
<1> DEFINE B == {d \in Seq(Byte) : ParseAttrs[d] \notin Seq(Attr)}
           T == {Len(d) : d \in B}
<1> SUFFICES ASSUME B # {} PROVE FALSE
  OBVIOUS
<1>1. T \in SUBSET Nat /\ T # {}
  OBVIOUS
<1>2. PICK k \in T : \A j \in T : k <= j
  BY <1>1, LeastNatural
<1>3. PICK d \in B : Len(d) = k
  BY <1>2
<1>4. ParseAttrs[d] = Turn(ParseAttrs, d) /\ ParseAttrs[d] \notin Seq(Attr)
  BY <1>3, ParseAttrsUnfolds
<1>5. More(d)
  BY <1>4, EmptySeq DEF Turn
<1>6. After(d) \in Seq(Byte) /\ Len(After(d)) < Len(d)
  BY <1>3, <1>5, AfterIsShorter
<1>7. ParseAttrs[After(d)] \in Seq(Attr)
  <2>1. Len(After(d)) \in Nat /\ Len(d) \in Nat
    BY <1>3, <1>6
  <2>2. ASSUME After(d) \in B PROVE FALSE
    <3>1. Len(After(d)) \in T
      BY <2>2
    <3> HIDE DEF T, B
    <3>2. k <= Len(After(d))
      BY <1>2, <3>1
    <3> QED
      BY <1>3, <1>6, <2>1, <3>2
  <2> QED
    BY <1>6, <2>2
<1>8. First(d) \in Attr
  BY <1>3, <1>5, FirstType
<1>9. <<First(d)>> \o ParseAttrs[After(d)] \in Seq(Attr)
  BY <1>7, <1>8, ConcatProperties
<1> QED
  BY <1>4, <1>5, <1>9 DEF Turn
-----------------------------------------------------------------------------
(* The two bytes of a length below Base^2. *)
LEMMA TwoBytes ==
  ASSUME NEW n \in Nat, n < Base * Base
  PROVE  /\ n % Base \in Byte /\ n \div Base \in Byte
         /\ (n % Base) + Base * (n \div Base) = n
<1>1. Base \in Nat /\ Base > 1
  BY FramingAssumption
<1>2. n % Base \in 0..(Base - 1) /\ n \div Base \in Nat
  BY <1>1
<1>3. (n % Base) + Base * (n \div Base) = n
  BY <1>1
<1>4. n \div Base < Base
  <2> DEFINE q == n \div Base
  <2> HIDE DEF q
  <2>1. q \in Nat /\ Base * q <= n
    BY <1>1, <1>2, <1>3 DEF q
  <2>2. q >= Base => Base * q >= Base * Base
    BY <1>1, <2>1
  <2> QED
    BY <1>1, <2>1, <2>2 DEF q
<1> QED
  BY <1>1, <1>2, <1>3, <1>4 DEF Byte

(* The header and the padding that push_nlattr writes. *)
LEMMA EncodedParts ==
  ASSUME NEW type \in Byte, NEW payload \in Seq(Byte)
  PROVE  LET len == Header + Len(payload)
             nla_len == len % (Base * Base)
             head == <<nla_len % Base, nla_len \div Base, type, 0>>
             tail == Zeros(Align(len) - len) IN
         /\ head \in Seq(Byte) /\ Len(head) = 4
         /\ tail \in Seq(Byte) /\ Len(tail) = Align(len) - len
         /\ len \in Nat /\ Align(len) \in Nat /\ Align(len) - len \in Nat
<1> DEFINE len == Header + Len(payload)
           nla_len == len % (Base * Base)
           head == <<nla_len % Base, nla_len \div Base, type, 0>>
           tail == Zeros(Align(len) - len)
<1>1. Base \in Nat /\ Base > 1 /\ Len(payload) \in Nat /\ len \in Nat
  BY FramingAssumption DEF Header
<1>2. Base * Base \in Nat /\ Base * Base > 0
  BY <1>1
<1>3. nla_len \in Nat /\ nla_len < Base * Base
  BY <1>1, <1>2
<1> HIDE DEF nla_len, len
<1>4. nla_len % Base \in Byte /\ nla_len \div Base \in Byte /\ 0 \in Byte
  <2>1. 0 \in Byte
    BY <1>1 DEF Byte
  <2> QED
    BY <1>3, <2>1, TwoBytes
<1>5. head \in Seq(Byte) /\ Len(head) = 4
  BY <1>4
<1>6. Align(len) \in Nat /\ Align(len) - len \in Nat
  <2>1. Align(len) \in Nat /\ len <= Align(len)
    BY <1>1, AlignBounds
  <2> QED
    BY <1>1, <2>1
<1>7. tail \in Seq(Byte) /\ Len(tail) = Align(len) - len
  <2>1. \A i \in 1..(Align(len) - len) : 0 \in Byte
    BY <1>4
  <2> QED
    BY <1>6, <2>1 DEF Zeros
<1> QED
  BY <1>1, <1>5, <1>6, <1>7 DEF len, nla_len

(* What push_nlattr writes: bytes, as many as the alignment says. *)
LEMMA EncodedBytes ==
  ASSUME NEW type \in Byte, NEW payload \in Seq(Byte)
  PROVE  /\ Encoded(type, payload) \in Seq(Byte)
         /\ Len(Encoded(type, payload)) = Align(Header + Len(payload))
         /\ LET nla_len == (Header + Len(payload)) % (Base * Base) IN
            /\ Encoded(type, payload)[1] = nla_len % Base
            /\ Encoded(type, payload)[2] = nla_len \div Base
            /\ Encoded(type, payload)[3] = type
         /\ \A i \in 1..Len(payload) : Encoded(type, payload)[Header + i] = payload[i]
<1> DEFINE len == Header + Len(payload)
           nla_len == len % (Base * Base)
           head == <<nla_len % Base, nla_len \div Base, type, 0>>
           tail == Zeros(Align(len) - len)
<1>1. Len(payload) \in Nat /\ len \in Nat
  BY EncodedParts
<1>5. head \in Seq(Byte) /\ Len(head) = 4
  BY EncodedParts
<1>6. Align(len) \in Nat /\ Align(len) - len \in Nat
  BY EncodedParts
<1>7. tail \in Seq(Byte) /\ Len(tail) = Align(len) - len
  BY EncodedParts
<1> HIDE DEF head, tail, nla_len, len
<1>8. /\ head \o payload \in Seq(Byte) /\ Len(head \o payload) = 4 + Len(payload)
      /\ \A i \in 1..(4 + Len(payload)) :
           (head \o payload)[i] = IF i <= 4 THEN head[i] ELSE payload[i - 4]
  <2>1. /\ head \o payload \in Seq(Byte) /\ Len(head \o payload) = Len(head) + Len(payload)
        /\ \A i \in 1..(Len(head) + Len(payload)) :
             (head \o payload)[i] = IF i <= Len(head) THEN head[i] ELSE payload[i - Len(head)]
    BY <1>5, ConcatProperties
  <2> QED
    BY <1>5, <2>1
<1>9. /\ (head \o payload) \o tail \in Seq(Byte)
      /\ Len((head \o payload) \o tail) = 4 + Len(payload) + Len(tail)
      /\ \A i \in 1..(4 + Len(payload)) : ((head \o payload) \o tail)[i] = (head \o payload)[i]
  <2> DEFINE b == head \o payload
  <2> HIDE DEF b
  <2>1. b \in Seq(Byte) /\ Len(b) = 4 + Len(payload)
    BY <1>8 DEF b
  <2>2. /\ b \o tail \in Seq(Byte) /\ Len(b \o tail) = Len(b) + Len(tail)
        /\ \A i \in 1..(Len(b) + Len(tail)) :
             (b \o tail)[i] = IF i <= Len(b) THEN b[i] ELSE tail[i - Len(b)]
    <3>1. tail \in Seq(Byte) /\ b \in Seq(Byte)
      BY <1>7, <2>1
    <3> QED
      BY <3>1, ConcatProperties
  <2>3. Len(tail) \in Nat /\ Len(b) \in Nat
    BY <1>7, <2>1
  <2>4. \A i \in 1..Len(b) : (b \o tail)[i] = b[i]
    BY <2>2, <2>3
  <2> QED
    BY <2>1, <2>2, <2>4 DEF b
<1>10. Encoded(type, payload) = (head \o payload) \o tail
  <2>1. << >> \o head = head
    BY <1>5, ConcatEmptySeq
  <2>2. Encoded(type, payload) = ((<< >> \o head) \o payload) \o tail
    BY DEF Encoded, PushNlattr, head, tail, nla_len, len
  <2> QED
    BY <2>1, <2>2
<1>11. len = 4 + Len(payload)
  BY DEF len, Header
<1>12. Len(Encoded(type, payload)) = Align(len)
  BY <1>1, <1>6, <1>7, <1>9, <1>10, <1>11
<1>13. \A i \in 1..4 : Encoded(type, payload)[i] = head[i]
  BY <1>1, <1>8, <1>9, <1>10
<1>14. head[1] = nla_len % Base /\ head[2] = nla_len \div Base /\ head[3] = type
  BY DEF head
<1>15. \A i \in 1..Len(payload) : Encoded(type, payload)[4 + i] = payload[i]
  BY <1>1, <1>8, <1>9, <1>10
<1> QED
  BY <1>9, <1>10, <1>12, <1>13, <1>14, <1>15 DEF len, nla_len, Header

(* push_nlattr appends it. *)
LEMMA PushAppends ==
  ASSUME NEW b \in Seq(Byte), NEW type \in Byte, NEW payload \in Seq(Byte)
  PROVE  PushNlattr(b, type, payload) = b \o Encoded(type, payload)
<1> DEFINE len == Header + Len(payload)
           nla_len == len % (Base * Base)
           head == <<nla_len % Base, nla_len \div Base, type, 0>>
           tail == Zeros(Align(len) - len)
<1>1. head \in Seq(Byte) /\ tail \in Seq(Byte)
  BY EncodedParts
<1>2. /\ PushNlattr(b, type, payload) = ((b \o head) \o payload) \o tail
      /\ Encoded(type, payload) = ((<< >> \o head) \o payload) \o tail
  BY DEF Encoded, PushNlattr
<1> HIDE DEF head, tail
<1>3. << >> \o head = head
  BY <1>1, ConcatEmptySeq
<1>4. head \o payload \in Seq(Byte)
  BY <1>1, ConcatProperties
<1>5. (b \o head) \o payload = b \o (head \o payload)
  BY <1>1, ConcatAssociative
<1>6. (b \o (head \o payload)) \o tail = b \o ((head \o payload) \o tail)
  <2> DEFINE hp == head \o payload
  <2> HIDE DEF hp
  <2>1. hp \in Seq(Byte) /\ tail \in Seq(Byte)
    BY <1>1, <1>4 DEF hp
  <2>2. (b \o hp) \o tail = b \o (hp \o tail)
    BY <2>1, ConcatAssociative
  <2> QED
    BY <2>2 DEF hp
<1> QED
  BY <1>2, <1>3, <1>5, <1>6
-----------------------------------------------------------------------------
(* The length that the first two bytes of an attribute give is its own. *)
LEMMA EncodedLength ==
  ASSUME NEW type \in Byte, NEW payload \in Seq(Byte),
         Fits([type |-> type, payload |-> payload]),
         NEW data \in Seq(Byte), Len(data) >= 4,
         \A i \in 1..3 : data[i] = Encoded(type, payload)[i]
  PROVE  NlaLen(data) = Header + Len(payload) /\ data[3] = type
<1> DEFINE len == Header + Len(payload)
<1>1. len \in Nat /\ len < Base * Base /\ Base \in Nat /\ Base > 1
  BY FramingAssumption DEF Fits, Header
<1> HIDE DEF len
<1>2. len % (Base * Base) = len
  <2> DEFINE w == Base * Base
  <2>1. w \in Nat /\ len < w
    BY <1>1
  <2> HIDE DEF w
  <2>2. len % w = len
    BY <1>1, <2>1
  <2> QED
    BY <2>2 DEF w
<1>3. /\ Encoded(type, payload)[1] = len % Base
      /\ Encoded(type, payload)[2] = len \div Base
      /\ Encoded(type, payload)[3] = type
  <2>1. LET nla_len == len % (Base * Base) IN
        /\ Encoded(type, payload)[1] = nla_len % Base
        /\ Encoded(type, payload)[2] = nla_len \div Base
        /\ Encoded(type, payload)[3] = type
    BY EncodedBytes DEF len
  <2> QED
    BY <1>2, <2>1
<1>4. data[1] = len % Base /\ data[2] = len \div Base /\ data[3] = type
  BY <1>3
<1>5. (len % Base) + Base * (len \div Base) = len
  BY <1>1, TwoBytes
<1>6. NlaLen(data) = len
  BY <1>4, <1>5 DEF NlaLen
<1> QED
  BY <1>4, <1>6 DEF len

(* A buffer that starts with an attribute, its padding apart: parse_attrs  *)
(* finds it and goes on behind its padding.                                *)
LEMMA ParseWhole ==
  ASSUME NEW type \in Byte, NEW payload \in Seq(Byte),
         Fits([type |-> type, payload |-> payload]),
         NEW data \in Seq(Byte), Header + Len(payload) <= Len(data),
         \A i \in 1..(Header + Len(payload)) : data[i] = Encoded(type, payload)[i]
  PROVE  LET rest == SubSeq(data, Align(Header + Len(payload)) + 1, Len(data)) IN
         /\ rest \in Seq(Byte)
         /\ ParseAttrs[data] = <<[type |-> type, payload |-> payload]>> \o ParseAttrs[rest]
<1>1. Len(payload) \in Nat /\ Len(data) \in Nat /\ Header = 4
  BY DEF Header
<1>2. NlaLen(data) = Header + Len(payload) /\ data[3] = type
  <2>1. Len(data) >= 4 /\ \A i \in 1..3 : data[i] = Encoded(type, payload)[i]
    BY <1>1
  <2> QED
    BY <2>1, EncodedLength, Zenon
<1>3. More(data)
  BY <1>1, <1>2 DEF More, Whole
<1>4. SubSeq(data, 5, 4 + Len(payload)) = payload
  <2>1. \A i \in 5..(4 + Len(payload)) : data[i] \in Byte
    BY <1>1, ElementOfSeq
  <2> DEFINE sub == SubSeq(data, 5, 4 + Len(payload))
  <2>2. /\ sub \in Seq(Byte)
        /\ Len(sub) = IF 5 <= 4 + Len(payload) THEN 4 + Len(payload) - 5 + 1 ELSE 0
        /\ \A i \in 1..(4 + Len(payload) - 5 + 1) : sub[i] = data[5 + i - 1]
    BY <1>1, <2>1, SubSeqProperties
  <2>3. Len(sub) = Len(payload)
    BY <1>1, <2>2
  <2>4. ASSUME NEW i \in 1..Len(payload) PROVE sub[i] = payload[i]
    <3>1. sub[i] = data[4 + i]
      BY <1>1, <2>2
    <3>2. data[4 + i] = Encoded(type, payload)[4 + i]
      BY <1>1
    <3>3. Encoded(type, payload)[4 + i] = payload[i]
      BY <1>1, EncodedBytes
    <3> QED
      BY <3>1, <3>2, <3>3
  <2> HIDE DEF sub
  <2>5. sub = payload
    BY <2>2, <2>3, <2>4, SeqEqual
  <2> QED
    BY <2>5 DEF sub
<1>5. First(data) = [type |-> type, payload |-> payload]
  <2>1. SubSeq(data, Header + 1, NlaLen(data)) = payload
    <3>1. Header + 1 = 5 /\ NlaLen(data) = 4 + Len(payload)
      BY <1>1, <1>2
    <3> QED
      BY <1>4, <3>1
  <2> QED
    BY <1>2, <2>1 DEF First
<1>6. After(data) = SubSeq(data, Align(Header + Len(payload)) + 1, Len(data))
  BY <1>2 DEF After
<1>7. After(data) \in Seq(Byte)
  BY <1>3, AfterIsShorter
<1>8. ParseAttrs[data] = <<First(data)>> \o ParseAttrs[After(data)]
  BY <1>3, ParseAttrsUnfolds DEF Turn
<1> QED
  BY <1>5, <1>6, <1>7, <1>8

(* A buffer that ends inside an attribute: parse_attrs finds nothing. *)
LEMMA ParseCut ==
  ASSUME NEW type \in Byte, NEW payload \in Seq(Byte),
         Fits([type |-> type, payload |-> payload]),
         NEW data \in Seq(Byte), Len(data) < Header + Len(payload),
         \A i \in 1..Len(data) : data[i] = Encoded(type, payload)[i]
  PROVE  ParseAttrs[data] = << >>
<1>1. Len(payload) \in Nat /\ Len(data) \in Nat /\ Header = 4
  BY DEF Header
<1>2. CASE Len(data) < 4
  <2>1. ~ More(data)
    BY <1>1, <1>2 DEF More
  <2> QED
    BY <2>1, ParseAttrsUnfolds DEF Turn
<1>3. CASE Len(data) >= 4
  <2>1. NlaLen(data) = Header + Len(payload)
    <3>1. \A i \in 1..3 : data[i] = Encoded(type, payload)[i]
      BY <1>1, <1>3
    <3> QED
      BY <1>3, <3>1, EncodedLength, Zenon
  <2>2. ~ More(data)
    BY <1>1, <2>1 DEF More, Whole
  <2> QED
    BY <2>2, ParseAttrsUnfolds DEF Turn
<1> QED
  BY <1>1, <1>2, <1>3

(* From an attribute and what follows it, parse_attrs gets the attribute   *)
(* and what it gets from the rest.                                         *)
LEMMA ParseEncoded ==
  ASSUME NEW type \in Byte, NEW payload \in Seq(Byte),
         Fits([type |-> type, payload |-> payload]), NEW d \in Seq(Byte)
  PROVE  ParseAttrs[Encoded(type, payload) \o d]
           = <<[type |-> type, payload |-> payload]>> \o ParseAttrs[d]
<1> DEFINE e == Encoded(type, payload)
           data == e \o d
           n == Align(Header + Len(payload))
<1>1. Header + Len(payload) \in Nat
  BY DEF Header
<1>2. n \in Nat /\ Header + Len(payload) <= n
  BY <1>1, AlignBounds
<1>3. e \in Seq(Byte) /\ Len(e) = n
  BY EncodedBytes
<1> HIDE DEF n, e
<1>4. /\ data \in Seq(Byte) /\ Len(data) = n + Len(d) /\ Len(d) \in Nat
      /\ \A i \in 1..n : data[i] = e[i]
  <2>1. e \in Seq(Byte)
    BY <1>3
  <2>2. /\ e \o d \in Seq(Byte) /\ Len(e \o d) = Len(e) + Len(d)
        /\ \A i \in 1..(Len(e) + Len(d)) :
             (e \o d)[i] = IF i <= Len(e) THEN e[i] ELSE d[i - Len(e)]
    BY <2>1, ConcatProperties
  <2> QED
    BY <1>2, <1>3, <2>2
<1>5. SubSeq(data, n + 1, Len(data)) = d
  BY <1>2, <1>3, <1>4
<1> HIDE DEF data
<1>6. Header + Len(payload) <= Len(data)
        /\ \A i \in 1..(Header + Len(payload)) : data[i] = e[i]
  BY <1>1, <1>2, <1>4
<1>7. ParseAttrs[data] = <<[type |-> type, payload |-> payload]>> \o ParseAttrs[d]
  BY <1>4, <1>5, <1>6, ParseWhole DEF n, e
<1> QED
  BY <1>7 DEF data, e

(* From an attribute that is cut anywhere, parse_attrs gets the attribute  *)
(* when only its padding is cut, and nothing otherwise.                    *)
LEMMA ParseEncodedCut ==
  ASSUME NEW type \in Byte, NEW payload \in Seq(Byte),
         Fits([type |-> type, payload |-> payload]),
         NEW m \in 0..Len(Encoded(type, payload))
  PROVE  LET data == SubSeq(Encoded(type, payload), 1, m) IN
         /\ data \in Seq(Byte)
         /\ ParseAttrs[data] = IF Header + Len(payload) <= m
                               THEN <<[type |-> type, payload |-> payload]>> ELSE << >>
<1> DEFINE e == Encoded(type, payload)
           data == SubSeq(e, 1, m)
           n == Align(Header + Len(payload))
<1>1. Header + Len(payload) \in Nat
  BY DEF Header
<1>2. n \in Nat /\ Header + Len(payload) <= n
  BY <1>1, AlignBounds
<1>3. e \in Seq(Byte) /\ Len(e) = n /\ m \in 0..n
  BY EncodedBytes
<1> HIDE DEF n, e
<1>4. data \in Seq(Byte) /\ Len(data) = m /\ \A i \in 1..m : data[i] = e[i]
  <2>1. m \in Int /\ \A i \in 1..m : e[i] \in Byte
    BY <1>2, <1>3, ElementOfSeq
  <2>2. /\ data \in Seq(Byte) /\ Len(data) = (IF 1 <= m THEN m - 1 + 1 ELSE 0)
        /\ \A i \in 1..(m - 1 + 1) : data[i] = e[1 + i - 1]
    BY <2>1, SubSeqProperties
  <2> QED
    BY <1>2, <1>3, <2>2
<1> HIDE DEF data
<1>5. CASE Header + Len(payload) <= m
  <2>1. ParseAttrs[data] = <<[type |-> type, payload |-> payload]>>
                             \o ParseAttrs[SubSeq(data, n + 1, Len(data))]
    <3>1. Header + Len(payload) <= Len(data)
            /\ \A i \in 1..(Header + Len(payload)) : data[i] = e[i]
      BY <1>1, <1>3, <1>4, <1>5
    <3> QED
      BY <1>4, <3>1, ParseWhole DEF n, e
  <2>2. SubSeq(data, n + 1, Len(data)) = << >>
    BY <1>2, <1>3, <1>4, SubSeqEmpty
  <2>3. << >> \in Seq(Byte) /\ ParseAttrs[<< >>] = << >>
    <3>1. << >> \in Seq(Byte) /\ ~ More(<< >>)
      BY EmptySeq DEF More, Header
    <3> QED
      BY <3>1, ParseAttrsUnfolds DEF Turn
  <2>4. ParseAttrs[data] = <<[type |-> type, payload |-> payload]>>
    <3> DEFINE a == [type |-> type, payload |-> payload]
    <3>1. <<a>> \in Seq(Attr)
      BY DEF Attr
    <3> HIDE DEF a
    <3>2. <<a>> \o << >> = <<a>>
      BY <3>1, ConcatEmptySeq
    <3> QED
      BY <2>1, <2>2, <2>3, <3>2 DEF a
  <2> QED
    BY <1>4, <1>5, <2>4 DEF data, e
<1>6. CASE m < Header + Len(payload)
  <2>1. ParseAttrs[data] = << >>
    BY <1>4, <1>6, ParseCut DEF e
  <2>2. ~ (Header + Len(payload) <= m)
    BY <1>1, <1>2, <1>3, <1>6
  <2> QED
    BY <1>4, <2>1, <2>2 DEF data, e
<1> QED
  BY <1>1, <1>2, <1>3, <1>5, <1>6
-----------------------------------------------------------------------------
(* The attributes are sound up to the n-th and not further. *)
SoundUpTo(n) ==
  /\ n \in 0..Len(attrs)
  /\ \A i \in 1..n : Fits(attrs[i])
  /\ n < Len(attrs) => ~ Fits(attrs[n + 1])

(* Whatever follows the buffer, parse_attrs first gets the n attributes,   *)
(* and when these are all, then what it gets from what follows.            *)
ReadsBack(n) ==
  \A d \in Seq(Byte) : \E e \in Seq(Attr) :
    /\ ParseAttrs[buf \o d] = SubSeq(attrs, 1, n) \o e
    /\ n = Len(attrs) => e = ParseAttrs[d]

(* From the first m bytes parse_attrs gets the attributes that end there. *)
CutAt(m) ==
  \E k \in 0..Len(attrs) :
    /\ ParseAttrs[SubSeq(buf, 1, m)] = SubSeq(attrs, 1, k)
    /\ \A j \in 1..Len(attrs) : (j <= k) <=> (ends[j] <= m)

FramingTypes ==
  /\ attrs \in Seq(Attr) /\ buf \in Seq(Byte)
  /\ ends \in Seq(Nat) /\ Len(ends) = Len(attrs)

FramingInv ==
  /\ FramingTypes
  /\ \E n \in Nat : SoundUpTo(n) /\ ReadsBack(n)
  /\ \A j \in 1..Len(attrs) : ends[j] <= Len(buf)
  /\ (\A i \in 1..Len(attrs) : Fits(attrs[i])) => \A m \in 0..Len(buf) : CutAt(m)

(* The initial state satisfies the invariant. *)
LEMMA FramingInitOK == Init => FramingInv
<1> SUFFICES ASSUME Init PROVE FramingInv
  OBVIOUS
<1>1. attrs = << >> /\ buf = << >> /\ ends = << >>
  BY DEF Init
<1>2. FramingTypes /\ Len(attrs) = 0 /\ Len(buf) = 0
  BY <1>1, EmptySeq DEF FramingTypes
<1>3. SoundUpTo(0)
  BY <1>2 DEF SoundUpTo
<1>4. SubSeq(attrs, 1, 0) = << >> /\ SubSeq(buf, 1, 0) = << >>
  BY SubSeqEmpty
<1>5. ReadsBack(0)
  <2>1. ASSUME NEW d \in Seq(Byte)
        PROVE  ParseAttrs[buf \o d] = SubSeq(attrs, 1, 0) \o ParseAttrs[d]
                 /\ ParseAttrs[d] \in Seq(Attr)
    <3>1. ParseAttrs[d] \in Seq(Attr)
      BY ParsedType
    <3>2. << >> \o d = d
      BY ConcatEmptySeq
    <3> DEFINE p == ParseAttrs[d]
    <3> HIDE DEF p
    <3>3. << >> \o p = p
      BY <3>1, ConcatEmptySeq DEF p
    <3> QED
      BY <1>1, <1>4, <3>1, <3>2, <3>3 DEF p
  <2> QED
    BY <2>1 DEF ReadsBack
<1>6. CutAt(0)
  <2>1. << >> \in Seq(Byte) /\ ~ More(<< >>)
    BY EmptySeq DEF More, Header
  <2>2. ParseAttrs[<< >>] = << >>
    BY <2>1, ParseAttrsUnfolds DEF Turn
  <2>3. /\ 0 \in 0..Len(attrs) /\ ParseAttrs[SubSeq(buf, 1, 0)] = SubSeq(attrs, 1, 0)
        /\ \A j \in 1..Len(attrs) : (j <= 0) <=> (ends[j] <= 0)
    <3>1. 0 \in 0..Len(attrs) /\ 1..Len(attrs) = {}
      BY <1>2
    <3> QED
      BY <1>4, <2>2, <3>1
  <2> QED
    BY <2>3 DEF CutAt
<1> QED
  BY <1>2, <1>3, <1>5, <1>6 DEF FramingInv

(* push_nlattr writes bytes behind the buffer. *)
LEMMA PushTypes ==
  ASSUME FramingTypes, NEW type \in Types, NEW payload \in Payloads, Push(type, payload)
  PROVE  LET a == [type |-> type, payload |-> payload] IN
         /\ type \in Byte /\ payload \in Seq(Byte) /\ a \in Attr
         /\ Encoded(type, payload) \in Seq(Byte)
         /\ Header + Len(payload) <= Len(Encoded(type, payload))
         /\ buf' = buf \o Encoded(type, payload)
         /\ Len(buf') = Len(buf) + Len(Encoded(type, payload))
         /\ attrs' = attrs \o <<a>> /\ Len(attrs') = Len(attrs) + 1
         /\ \A i \in 1..Len(attrs) : attrs'[i] = attrs[i]
         /\ attrs'[Len(attrs) + 1] = a
         /\ \A i \in 1..Len(attrs) : ends'[i] = ends[i]
         /\ ends'[Len(attrs) + 1] = Len(buf) + Header + Len(payload)
         /\ FramingTypes'
<1> DEFINE a == [type |-> type, payload |-> payload]
           e == Encoded(type, payload)
           end == Len(buf) + Header + Len(payload)
<1>1. type \in Byte /\ payload \in Seq(Byte)
  BY FramingAssumption
<1>2. a \in Attr
  BY <1>1 DEF Attr
<1>3. e \in Seq(Byte) /\ Len(e) = Align(Header + Len(payload))
  BY <1>1, EncodedBytes
<1>4. Len(payload) \in Nat /\ Len(buf) \in Nat /\ Header + Len(payload) \in Nat /\ end \in Nat
  BY <1>1 DEF FramingTypes, Header
<1>5. Header + Len(payload) <= Len(e)
  BY <1>3, <1>4, AlignBounds
<1>6. /\ attrs' = Append(attrs, a) /\ ends' = Append(ends, end)
      /\ buf' = buf \o e
  BY <1>1, PushAppends DEF Push, FramingTypes
<1> HIDE DEF a, e, end
<1>7. /\ attrs' \in Seq(Attr) /\ Len(attrs') = Len(attrs) + 1
      /\ \A i \in 1..Len(attrs) : attrs'[i] = attrs[i]
      /\ attrs'[Len(attrs) + 1] = a
  BY <1>2, <1>6, AppendProperties DEF FramingTypes
<1>8. attrs' = attrs \o <<a>>
  BY <1>2, <1>6, AppendIsConcat DEF FramingTypes
<1>9. /\ ends' \in Seq(Nat) /\ Len(ends') = Len(ends) + 1
      /\ \A i \in 1..Len(ends) : ends'[i] = ends[i]
      /\ ends'[Len(ends) + 1] = end
  BY <1>4, <1>6, AppendProperties DEF FramingTypes
<1>10. buf' \in Seq(Byte) /\ Len(buf') = Len(buf) + Len(e)
  BY <1>3, <1>6, ConcatProperties DEF FramingTypes
<1>11. FramingTypes' /\ Len(ends) = Len(attrs)
  BY <1>7, <1>9, <1>10 DEF FramingTypes
<1> QED
  BY <1>1, <1>2, <1>3, <1>5, <1>6, <1>7, <1>8, <1>9, <1>10, <1>11 DEF a, e, end

(* The n attributes are still read back, and the new one when it is sound  *)
(* and all before it are.                                                  *)
LEMMA PushReadsBack ==
  ASSUME FramingInv, NEW type \in Types, NEW payload \in Payloads, Push(type, payload)
  PROVE  \E n \in Nat : SoundUpTo(n)' /\ ReadsBack(n)'
<1> DEFINE a == [type |-> type, payload |-> payload]
           enc == Encoded(type, payload)
<1>1. FramingTypes
  BY DEF FramingInv
<1> PICK L \in Nat : L = Len(attrs)
  BY <1>1 DEF FramingTypes
<1>2. /\ type \in Byte /\ payload \in Seq(Byte) /\ a \in Attr /\ enc \in Seq(Byte)
      /\ buf' = buf \o enc
      /\ attrs' = attrs \o <<a>> /\ Len(attrs') = L + 1
      /\ \A i \in 1..L : attrs'[i] = attrs[i]
      /\ attrs'[L + 1] = a
      /\ FramingTypes'
  BY <1>1, PushTypes
<1>3. PICK n \in Nat : SoundUpTo(n) /\ ReadsBack(n)
  BY DEF FramingInv
<1>4. n \in 0..L
  BY <1>3 DEF SoundUpTo
<1>5. ASSUME NEW d \in Seq(Byte)
      PROVE  /\ enc \o d \in Seq(Byte)
             /\ \E e \in Seq(Attr) :
                  /\ ParseAttrs[buf' \o d] = SubSeq(attrs, 1, n) \o e
                  /\ n = L => e = ParseAttrs[enc \o d]
  <2> HIDE DEF enc
  <2>1. enc \o d \in Seq(Byte)
    BY <1>2, ConcatProperties
  <2>2. (buf \o enc) \o d = buf \o (enc \o d)
    <3>1. buf \in Seq(Byte) /\ enc \in Seq(Byte)
      BY <1>1, <1>2 DEF FramingTypes
    <3> QED
      BY <3>1, ConcatAssociative
  <2>3. \E e \in Seq(Attr) : /\ ParseAttrs[buf \o (enc \o d)] = SubSeq(attrs, 1, n) \o e
                             /\ n = L => e = ParseAttrs[enc \o d]
    BY <1>3, <2>1 DEF ReadsBack
  <2> QED
    BY <1>2, <2>1, <2>2, <2>3
<1>6. CASE n = L /\ Fits(a)
  <2>1. SoundUpTo(L + 1)'
    BY <1>2, <1>3, <1>4, <1>6 DEF SoundUpTo
  <2>2. ASSUME NEW d \in Seq(Byte)
        PROVE  /\ ParseAttrs[d] \in Seq(Attr)
               /\ ParseAttrs[buf' \o d] = SubSeq(attrs', 1, L + 1) \o ParseAttrs[d]
    <3>1. PICK e \in Seq(Attr) : /\ ParseAttrs[buf' \o d] = SubSeq(attrs, 1, n) \o e
                                 /\ n = L => e = ParseAttrs[enc \o d]
      BY <1>5
    <3>2. ParseAttrs[enc \o d] = <<a>> \o ParseAttrs[d]
      BY <1>2, <1>6, ParseEncoded
    <3>3. ParseAttrs[d] \in Seq(Attr)
      BY ParsedType
    <3>4. SubSeq(attrs, 1, n) = attrs /\ SubSeq(attrs', 1, L + 1) = attrs'
      BY <1>1, <1>2, <1>6, SubSeqFull DEF FramingTypes
    <3> DEFINE p == ParseAttrs[d]
    <3> HIDE DEF p, a
    <3>5. attrs \o (<<a>> \o p) = (attrs \o <<a>>) \o p
      <4>1. attrs \in Seq(Attr) /\ <<a>> \in Seq(Attr) /\ p \in Seq(Attr)
        BY <1>1, <1>2, <3>3 DEF FramingTypes, p
      <4> DEFINE one == <<a>>
      <4> HIDE DEF one
      <4>2. attrs \o (one \o p) = (attrs \o one) \o p
        BY <4>1, ConcatAssociative DEF one
      <4> QED
        BY <4>2 DEF one
    <3> QED
      BY <1>2, <1>6, <3>1, <3>2, <3>3, <3>4, <3>5 DEF p
  <2>3. ReadsBack(L + 1)'
    <3>1. L + 1 = Len(attrs')
      BY <1>2
    <3> QED
      BY <2>2, <3>1 DEF ReadsBack
  <2> QED
    BY <1>4, <2>1, <2>3
<1>7. CASE ~ (n = L /\ Fits(a))
  <2>1. SoundUpTo(n)'
    BY <1>2, <1>3, <1>4, <1>7 DEF SoundUpTo
  <2>2. SubSeq(attrs', 1, n) = SubSeq(attrs, 1, n)
    BY <1>1, <1>2, <1>4 DEF FramingTypes
  <2>3. ReadsBack(n)'
    <3>1. n # Len(attrs')
      BY <1>2, <1>4
    <3>2. \A d \in Seq(Byte) : \E e \in Seq(Attr) :
            ParseAttrs[buf' \o d] = SubSeq(attrs', 1, n) \o e
      BY <1>5, <2>2
    <3> QED
      BY <3>1, <3>2 DEF ReadsBack
  <2> QED
    BY <2>1, <2>3
<1> QED
  BY <1>6, <1>7

(* Two buffers, cut in the second. *)
LEMMA ConcatCut ==
  ASSUME NEW s \in Seq(Byte), NEW t \in Seq(Byte), NEW r \in 0..Len(t)
  PROVE  SubSeq(s \o t, 1, Len(s) + r) = s \o SubSeq(t, 1, r)
<1> DEFINE st == s \o t
           sub == SubSeq(st, 1, Len(s) + r)
           cut == SubSeq(t, 1, r)
<1>1. Len(s) \in Nat /\ Len(t) \in Nat /\ r \in Nat /\ r <= Len(t)
  OBVIOUS
<1>2. /\ st \in Seq(Byte) /\ Len(st) = Len(s) + Len(t)
      /\ \A i \in 1..(Len(s) + Len(t)) : st[i] = IF i <= Len(s) THEN s[i] ELSE t[i - Len(s)]
  BY ConcatProperties
<1>3. cut \in Seq(Byte) /\ Len(cut) = r /\ \A i \in 1..r : cut[i] = t[i]
  BY <1>1
<1> HIDE DEF st, cut
<1>4. /\ sub \in Seq(Byte) /\ Len(sub) = Len(s) + r
      /\ \A i \in 1..(Len(s) + r) : sub[i] = st[i]
  BY <1>1, <1>2
<1>5. /\ s \o cut \in Seq(Byte) /\ Len(s \o cut) = Len(s) + Len(cut)
      /\ \A i \in 1..(Len(s) + Len(cut)) :
           (s \o cut)[i] = IF i <= Len(s) THEN s[i] ELSE cut[i - Len(s)]
  <2>1. cut \in Seq(Byte)
    BY <1>3
  <2> QED
    BY <2>1, ConcatProperties
<1> HIDE DEF sub
<1>6. ASSUME NEW i \in 1..(Len(s) + r) PROVE sub[i] = (s \o cut)[i]
  <2>1. CASE i <= Len(s)
    BY <1>1, <1>2, <1>3, <1>4, <1>5, <2>1
  <2>2. CASE i > Len(s)
    <3>1. i - Len(s) \in 1..r /\ i \in 1..(Len(s) + Len(t))
      BY <1>1, <2>2
    <3>2. sub[i] = t[i - Len(s)]
      BY <1>1, <1>2, <1>4, <2>2, <3>1
    <3>3. (s \o cut)[i] = cut[i - Len(s)]
      BY <1>1, <1>3, <1>5, <2>2
    <3> QED
      BY <1>3, <3>1, <3>2, <3>3
  <2>3. i <= Len(s) \/ i > Len(s)
    BY <1>1
  <2> QED
    BY <2>1, <2>2, <2>3
<1> DEFINE sc == s \o cut
<1>7. sc \in Seq(Byte) /\ Len(sc) = Len(sub) /\ \A i \in 1..Len(sub) : sub[i] = sc[i]
  BY <1>3, <1>4, <1>5, <1>6
<1> HIDE DEF sc
<1>8. sub = sc
  BY <1>4, <1>7, SeqEqual
<1> QED
  BY <1>8 DEF sub, sc, st, cut

(* However the longer buffer is cut, parse_attrs gets what ends there. *)
LEMMA PushCut ==
  ASSUME FramingInv, NEW type \in Types, NEW payload \in Payloads, Push(type, payload),
         \A i \in 1..Len(attrs') : Fits(attrs'[i]),
         NEW m \in 0..Len(buf')
  PROVE  CutAt(m)'
<1> DEFINE a == [type |-> type, payload |-> payload]
           enc == Encoded(type, payload)
           size == Header + Len(payload)
<1>1. FramingTypes
  BY DEF FramingInv
<1> PICK L \in Nat : L = Len(attrs)
  BY <1>1 DEF FramingTypes
<1> PICK B \in Nat : B = Len(buf)
  BY <1>1 DEF FramingTypes
<1>2. /\ type \in Byte /\ payload \in Seq(Byte) /\ a \in Attr /\ enc \in Seq(Byte)
      /\ size \in Nat /\ size <= Len(enc) /\ size >= 4
      /\ buf' = buf \o enc /\ Len(buf') = B + Len(enc)
      /\ attrs' = attrs \o <<a>> /\ Len(attrs') = L + 1
      /\ \A i \in 1..L : attrs'[i] = attrs[i]
      /\ attrs'[L + 1] = a
      /\ \A i \in 1..L : ends'[i] = ends[i]
      /\ ends'[L + 1] = B + size
      /\ FramingTypes'
  <2>1. payload \in Seq(Byte)
    BY <1>1, PushTypes
  <2>2. size \in Nat /\ size >= 4 /\ B + Header + Len(payload) = B + size
    BY <2>1 DEF Header
  <2> HIDE DEF enc
  <2>3. /\ type \in Byte /\ payload \in Seq(Byte) /\ a \in Attr /\ enc \in Seq(Byte)
        /\ size <= Len(enc)
        /\ buf' = buf \o enc /\ Len(buf') = B + Len(enc)
        /\ attrs' = attrs \o <<a>> /\ Len(attrs') = L + 1
        /\ \A i \in 1..L : attrs'[i] = attrs[i]
        /\ attrs'[L + 1] = a
        /\ \A i \in 1..L : ends'[i] = ends[i]
        /\ ends'[L + 1] = B + Header + Len(payload)
        /\ FramingTypes'
    BY <1>1, PushTypes DEF enc
  <2> HIDE DEF size, a
  <2> QED
    BY <2>2, <2>3
<1>3. \A j \in 1..L : ends[j] \in Nat /\ ends[j] <= B
  BY <1>1, ElementOfSeq DEF FramingInv, FramingTypes
<1> HIDE DEF a, enc, size
<1>4. Fits(a) /\ \A i \in 1..L : Fits(attrs[i])
  <2>1. \A i \in 1..(L + 1) : Fits(attrs'[i])
    BY <1>2
  <2>2. L + 1 \in 1..(L + 1) /\ \A i \in 1..L : i \in 1..(L + 1)
    OBVIOUS
  <2> QED
    BY <1>2, <2>1, <2>2, Zenon
<1>5. m \in Nat /\ m <= B + Len(enc) /\ Len(enc) \in Nat
  BY <1>2
<1>6. CASE m <= B
  <2>1. SubSeq(buf', 1, m) = SubSeq(buf, 1, m)
    BY <1>1, <1>2, <1>5, <1>6 DEF FramingTypes
  <2>2. CutAt(m)
    BY <1>4, <1>5, <1>6 DEF FramingInv
  <2>3. PICK k \in 0..L : /\ ParseAttrs[SubSeq(buf, 1, m)] = SubSeq(attrs, 1, k)
                          /\ \A j \in 1..L : (j <= k) <=> (ends[j] <= m)
    BY <2>2 DEF CutAt
  <2>4. SubSeq(attrs', 1, k) = SubSeq(attrs, 1, k)
    BY <1>1, <1>2 DEF FramingTypes
  <2>5. ASSUME NEW j \in 1..(L + 1) PROVE (j <= k) <=> (ends'[j] <= m)
    <3>1. CASE j = L + 1
      BY <1>2, <1>5, <1>6, <3>1
    <3>2. CASE j \in 1..L
      BY <1>2, <2>3, <3>2
    <3> QED
      BY <3>1, <3>2
  <2>6. k \in 0..Len(attrs') /\ ParseAttrs[SubSeq(buf', 1, m)] = SubSeq(attrs', 1, k)
    <3>1. k \in 0..Len(attrs')
      BY <1>2
    <3> QED
      BY <2>1, <2>3, <2>4, <3>1
  <2> QED
    BY <1>2, <2>5, <2>6 DEF CutAt
<1>7. CASE m > B
  <2> DEFINE r == m - B
             cut == SubSeq(enc, 1, r)
  <2>1. r \in 0..Len(enc) /\ r \in Nat /\ m = B + r
    BY <1>5, <1>7
  <2> HIDE DEF r
  <2>2. /\ cut \in Seq(Byte)
        /\ ParseAttrs[cut] = IF size <= r THEN <<a>> ELSE << >>
    BY <1>2, <1>4, <2>1, ParseEncodedCut DEF a, enc, size
  <2>3. SubSeq(buf', 1, m) = buf \o cut
    BY <1>1, <1>2, <2>1, ConcatCut DEF FramingTypes
  <2> HIDE DEF cut
  <2>4. ParseAttrs[buf \o cut] = attrs \o ParseAttrs[cut]
    <3>1. PICK n \in Nat : SoundUpTo(n) /\ ReadsBack(n)
      BY DEF FramingInv
    <3>2. n = L
      <4>1. n \in 0..L /\ (n < L => ~ Fits(attrs[n + 1]))
        BY <3>1 DEF SoundUpTo
      <4> QED
        BY <1>4, <4>1
    <3>3. SubSeq(attrs, 1, n) = attrs
      BY <1>1, <3>2, SubSeqFull DEF FramingTypes
    <3> QED
      BY <2>2, <3>1, <3>2, <3>3 DEF ReadsBack
  <2>5. CASE size <= r
    <3>1. ParseAttrs[SubSeq(buf', 1, m)] = attrs'
      BY <1>2, <2>2, <2>3, <2>4, <2>5
    <3>2. SubSeq(attrs', 1, L + 1) = attrs'
      BY <1>2, SubSeqFull DEF FramingTypes
    <3>3. ASSUME NEW j \in 1..(L + 1) PROVE ends'[j] <= m
      <4>1. CASE j = L + 1
        BY <1>2, <2>1, <2>5, <4>1
      <4>2. CASE j \in 1..L
        <5>1. ends'[j] = ends[j] /\ ends[j] \in Nat /\ ends[j] <= B
          BY <1>2, <1>3, <4>2
        <5> QED
          BY <1>5, <1>7, <4>2, <5>1
      <4> QED
        BY <4>1, <4>2
    <3>4. /\ L + 1 \in 0..Len(attrs')
          /\ \A j \in 1..Len(attrs') : (j <= L + 1) <=> (ends'[j] <= m)
      BY <1>2, <3>3
    <3> QED
      BY <3>1, <3>2, <3>4 DEF CutAt
  <2>6. CASE r < size
    <3>1. ParseAttrs[SubSeq(buf', 1, m)] = attrs
      <4>1. ParseAttrs[cut] = << >>
        BY <1>2, <2>1, <2>2, <2>6
      <4>2. attrs \o << >> = attrs
        BY <1>1, ConcatEmptySeq DEF FramingTypes
      <4> QED
        BY <2>3, <2>4, <4>1, <4>2
    <3>2. SubSeq(attrs', 1, L) = attrs
      BY <1>1, <1>2 DEF FramingTypes
    <3>3. ASSUME NEW j \in 1..(L + 1) PROVE (j <= L) <=> (ends'[j] <= m)
      <4>1. CASE j = L + 1
        BY <1>2, <2>1, <2>6, <4>1
      <4>2. CASE j \in 1..L
        <5>1. ends'[j] = ends[j] /\ ends[j] \in Nat /\ ends[j] <= B
          BY <1>2, <1>3, <4>2
        <5> QED
          BY <1>5, <1>7, <4>2, <5>1
      <4> QED
        BY <4>1, <4>2
    <3>4. /\ L \in 0..Len(attrs')
          /\ \A j \in 1..Len(attrs') : (j <= L) <=> (ends'[j] <= m)
      BY <1>2, <3>3
    <3> QED
      BY <3>1, <3>2, <3>4 DEF CutAt
  <2> QED
    BY <1>2, <2>1, <2>5, <2>6
<1> QED
  BY <1>5, <1>6, <1>7

(* Every step preserves the invariant. *)
LEMMA FramingStepOK == FramingInv /\ [Next]_vars => FramingInv'
<1> SUFFICES ASSUME FramingInv, [Next]_vars PROVE FramingInv'
  OBVIOUS
<1>1. ASSUME NEW type \in Types, NEW payload \in Payloads, Push(type, payload)
      PROVE  FramingInv'
  <2>1. FramingTypes
    BY DEF FramingInv
  <2>2. FramingTypes' /\ \E n \in Nat : SoundUpTo(n)' /\ ReadsBack(n)'
    BY <1>1, <2>1, PushTypes, PushReadsBack
  <2>3. (\A i \in 1..Len(attrs') : Fits(attrs'[i])) => \A m \in 0..Len(buf') : CutAt(m)'
    BY <1>1, PushCut
  <2>4. ASSUME NEW j \in 1..Len(attrs') PROVE ends'[j] <= Len(buf')
    <3> DEFINE size == Header + Len(payload)
               enc == Len(Encoded(type, payload))
    <3>1. /\ Len(buf') = Len(buf) + enc /\ size <= enc /\ Len(attrs') = Len(attrs) + 1
          /\ payload \in Seq(Byte) /\ Encoded(type, payload) \in Seq(Byte)
          /\ \A i \in 1..Len(attrs) : ends'[i] = ends[i]
          /\ ends'[Len(attrs) + 1] = Len(buf) + Header + Len(payload)
      BY <1>1, <2>1, PushTypes
    <3>2. Len(buf) \in Nat /\ enc \in Nat /\ Len(payload) \in Nat /\ Len(attrs) \in Nat
      BY <2>1, <3>1 DEF FramingTypes
    <3>3. \A i \in 1..Len(attrs) : ends[i] \in Nat /\ ends[i] <= Len(buf)
      BY <2>1, ElementOfSeq DEF FramingInv, FramingTypes
    <3> HIDE DEF enc
    <3>4. CASE j = Len(attrs) + 1
      BY <3>1, <3>2, <3>4 DEF Header
    <3>5. CASE j \in 1..Len(attrs)
      BY <3>1, <3>2, <3>3, <3>5
    <3> QED
      BY <3>1, <3>2, <3>4, <3>5
  <2> QED
    BY <2>2, <2>3, <2>4 DEF FramingInv
<1>2. CASE UNCHANGED vars
  BY <1>2 DEF vars, FramingInv, FramingTypes, SoundUpTo, ReadsBack, CutAt
<1> QED
  BY <1>1, <1>2 DEF Next

(* The attributes before the first one whose length wraps, counted. *)
LEMMA SoundPrefixIs ==
  ASSUME NEW n \in Nat, SoundUpTo(n), FramingTypes
  PROVE  SoundPrefix = SubSeq(attrs, 1, n)
<1>1. n \in 0..Len(attrs) /\ Len(attrs) \in Nat
  BY DEF SoundUpTo, FramingTypes
<1>2. n \in Sound
  BY <1>1 DEF Sound, SoundUpTo
<1>3. ASSUME NEW k \in Sound PROVE k <= n
  <2>1. k \in 0..Len(attrs) /\ \A i \in 1..k : Fits(attrs[i])
    BY DEF Sound
  <2> QED
    BY <1>1, <2>1 DEF SoundUpTo
<1>4. \A k \in Sound : (\A j \in Sound : j <= k) => k = n
  <2>1. \A k \in Sound : k \in Nat
    BY <1>1 DEF Sound
  <2> QED
    BY <1>2, <1>3, <2>1
<1>5. (CHOOSE k \in Sound : \A j \in Sound : j <= k) = n
  BY <1>2, <1>3, <1>4
<1> QED
  BY <1>5 DEF SoundPrefix

(* The invariant holds in every reachable state. *)
LEMMA FramingInvariance == Spec => []FramingInv
<1> QED
  BY FramingInitOK, FramingStepOK, PTL DEF Spec

(* parse_attrs gets back what push_nlattr wrote, up to the first attribute *)
(* whose length wraps, for every base, any payloads and any number of      *)
(* attributes.                                                             *)
THEOREM AttributesReadBack == Spec => []RoundTrip
<1>1. ASSUME FramingInv PROVE RoundTrip
  <2>1. FramingTypes
    BY <1>1 DEF FramingInv
  <2>2. PICK n \in Nat : SoundUpTo(n) /\ ReadsBack(n)
    BY <1>1 DEF FramingInv
  <2>3. SoundPrefix = SubSeq(attrs, 1, n)
    BY <2>1, <2>2, SoundPrefixIs
  <2>4. n \in 0..Len(attrs) /\ Len(attrs) \in Nat /\ attrs \in Seq(Attr)
    BY <2>1, <2>2 DEF SoundUpTo, FramingTypes
  <2>5. << >> \in Seq(Byte) /\ buf \o << >> = buf /\ ParseAttrs[<< >>] = << >>
    <3>1. << >> \in Seq(Byte) /\ ~ More(<< >>)
      BY EmptySeq DEF More, Header
    <3>2. ParseAttrs[<< >>] = << >>
      BY <3>1, ParseAttrsUnfolds DEF Turn
    <3> QED
      BY <2>1, <3>1, <3>2, ConcatEmptySeq DEF FramingTypes
  <2>6. PICK e \in Seq(Attr) : /\ ParseAttrs[buf] = SubSeq(attrs, 1, n) \o e
                               /\ n = Len(attrs) => e = << >>
    BY <2>2, <2>5 DEF ReadsBack
  <2>7. SubSeq(attrs, 1, n) \in Seq(Attr) /\ Len(SubSeq(attrs, 1, n)) = n
    BY <2>4
  <2> DEFINE p == SubSeq(attrs, 1, n)
  <2> HIDE DEF p
  <2>8. IsPrefix(p, p \o e)
    BY <2>6, <2>7 DEF p, IsPrefix
  <2>9. ASSUME p = attrs PROVE p \o e = attrs
    <3>1. n = Len(attrs)
      BY <2>7, <2>9 DEF p
    <3> QED
      BY <2>4, <2>6, <2>9, <3>1, ConcatEmptySeq
  <2> QED
    BY <2>3, <2>6, <2>8, <2>9 DEF RoundTrip, p
<1> QED
  BY <1>1, FramingInvariance, PTL

(* From a message cut anywhere parse_attrs gets exactly the attributes     *)
(* that are there completely, for every base, any payloads and any number  *)
(* of attributes.                                                          *)
THEOREM CutsAreClean == Spec => []CutCleanly
<1>1. ASSUME FramingInv PROVE CutCleanly
  <2> SUFFICES ASSUME SoundPrefix = attrs, NEW m \in 0..Len(buf)
               PROVE  LET got == ParseAttrs[SubSeq(buf, 1, m)] IN
                      /\ IsPrefix(got, attrs)
                      /\ \A k \in 1..Len(attrs) : (k <= Len(got)) <=> (ends[k] <= m)
    BY DEF CutCleanly
  <2>1. FramingTypes
    BY <1>1 DEF FramingInv
  <2>2. PICK n \in Nat : SoundUpTo(n)
    BY <1>1 DEF FramingInv
  <2>3. n \in 0..Len(attrs) /\ Len(attrs) \in Nat /\ attrs \in Seq(Attr)
    BY <2>1, <2>2 DEF SoundUpTo, FramingTypes
  <2>4. SubSeq(attrs, 1, n) = attrs
    BY <2>1, <2>2, SoundPrefixIs
  <2>5. n = Len(attrs)
    BY <2>3, <2>4
  <2>6. CutAt(m)
    BY <1>1, <2>2, <2>5 DEF FramingInv, SoundUpTo
  <2>7. PICK k \in 0..Len(attrs) :
          /\ ParseAttrs[SubSeq(buf, 1, m)] = SubSeq(attrs, 1, k)
          /\ \A j \in 1..Len(attrs) : (j <= k) <=> (ends[j] <= m)
    BY <2>6 DEF CutAt
  <2> DEFINE got == SubSeq(attrs, 1, k)
  <2>8. got \in Seq(Attr) /\ Len(got) = k
    BY <2>3
  <2>9. SubSeq(got, 1, k) = got
    BY <2>8, SubSeqFull
  <2>10. IsPrefix(got, attrs)
    BY <2>3, <2>8, <2>9 DEF IsPrefix
  <2> QED
    BY <2>7, <2>8, <2>10
<1> QED
  BY <1>1, FramingInvariance, PTL
=============================================================================
