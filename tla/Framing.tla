------------------------------ MODULE Framing ------------------------------
(***************************************************************************)
(* Netlink attributes as bytes: push_nlattr writes them one after another, *)
(* each with a header of two bytes of length and two of type, padded to    *)
(* the next multiple of four; parse_attrs reads them back.  The kernel     *)
(* writes the same format into its replies, and recv may cut a reply.      *)
(*                                                                         *)
(* A byte is a number below Base (256 in the code), so that nla_len, a u16 *)
(* there, is a number below Base^2 and wraps for a payload that is too     *)
(* long: the interface names of load and unload have no limit.             *)
(***************************************************************************)
EXTENDS Integers, SequencesExt

CONSTANTS
  Base,           \* number of values of a byte
  Types,          \* attribute types, bytes of which the other one is 0
  Payloads,       \* the payloads
  MaxAttrs        \* bound on the attributes of a message

VARIABLES
  attrs,          \* the attributes pushed so far, as [type, payload]
  buf,            \* the bytes they became
  ends            \* history: where in buf each ends, without its padding

vars == <<attrs, buf, ends>>

Byte == 0..(Base - 1)

ASSUME FramingAssumption ==
  /\ Base \in Nat /\ Base > 1 /\ Types \subseteq Byte
  /\ \A p \in Payloads : p \in Seq(Byte)
  /\ MaxAttrs \in Nat

Header == 4                   \* size_of::<NlattrRaw>()

(* nla_align *)
Align(len) == ((len + 3) \div 4) * 4

Zeros(n) == [i \in 1..n |-> 0]

(* Mutant: the next attribute starts where this one ends. *)
PushNlattrUnaligned(b, type, payload) ==
  LET nla_len == (Header + Len(payload)) % (Base * Base) IN
  b \o <<nla_len % Base, nla_len \div Base, type, 0>> \o payload

(* push_nlattr, on a little-endian machine *)
PushNlattr(b, type, payload) ==
  LET len == Header + Len(payload)
      nla_len == len % (Base * Base) IN
  b \o <<nla_len % Base, nla_len \div Base, type, 0>> \o payload \o Zeros(Align(len) - len)

(* Mutant: an attribute needs its padding, too. *)
WholePadded(data, nla_len) == nla_len >= Header /\ Align(nla_len) <= Len(data)

(* The length in the header is possible and the attribute is all there. *)
Whole(data, nla_len) == nla_len >= Header /\ nla_len <= Len(data)

(* parse_attrs: what the header says, whether the loop goes on, the        *)
(* attribute it finds and what it leaves for the next turn.                *)
NlaLen(data) == data[1] + Base * data[2]
More(data) == Len(data) >= Header /\ Whole(data, NlaLen(data))
First(data) == [type |-> data[3], payload |-> SubSeq(data, Header + 1, NlaLen(data))]
After(data) == SubSeq(data, Align(NlaLen(data)) + 1, Len(data))

ParseAttrs[data \in Seq(Byte)] ==
  IF More(data) THEN <<First(data)>> \o ParseAttrs[After(data)] ELSE << >>

-----------------------------------------------------------------------------
Init == attrs = << >> /\ buf = << >> /\ ends = << >>

(* One turn of the loop in build_packet_genl_msg. *)
Push(type, payload) ==
  /\ Len(attrs) < MaxAttrs
  /\ attrs' = Append(attrs, [type |-> type, payload |-> payload])
  /\ buf' = PushNlattr(buf, type, payload)
  /\ ends' = Append(ends, Len(buf) + Header + Len(payload))

Next == \E type \in Types, payload \in Payloads : Push(type, payload)

Spec == Init /\ [][Next]_vars
-----------------------------------------------------------------------------
Fits(a) == Header + Len(a.payload) < Base * Base

(* The attributes before the first one whose length wraps. *)
Sound == {n \in 0..Len(attrs) : \A i \in 1..n : Fits(attrs[i])}
SoundPrefix == SubSeq(attrs, 1, CHOOSE n \in Sound : \A k \in Sound : k <= n)

(* parse_attrs gets back what push_nlattr wrote, whatever bytes are in the *)
(* payloads; an attribute whose length wraps spoils itself and what comes  *)
(* after it, never what comes before.                                      *)
RoundTrip ==
  /\ IsPrefix(SoundPrefix, ParseAttrs[buf])
  /\ SoundPrefix = attrs => ParseAttrs[buf] = attrs

(* From a message that is cut anywhere, between attributes, in a header,   *)
(* in a payload or in the padding, parse_attrs gets exactly the attributes *)
(* that are there completely, and never a part of one.                     *)
CutCleanly ==
  SoundPrefix = attrs =>
    \A n \in 0..Len(buf) :
      LET got == ParseAttrs[SubSeq(buf, 1, n)] IN
      /\ IsPrefix(got, attrs)
      /\ \A k \in 1..Len(attrs) : k <= Len(got) <=> ends[k] <= n
=============================================================================
