----------------------------- MODULE MCFraming -----------------------------
(***************************************************************************)
(* Attributes of bytes below 4, whose length wraps at 16: payloads of      *)
(* lengths around the alignment and around the wrap, some of which read as *)
(* headers themselves.                                                     *)
(***************************************************************************)
EXTENDS Framing

Lengths == {0, 1, 3, 4, 7, 11, 12, 13, 16, 17}

MCPayloads == {[i \in 1..n |-> b] : n \in Lengths, b \in {0, 1, 3}}
                \cup {[i \in 1..n |-> (i - 1) % 2] : n \in Lengths}
=============================================================================
