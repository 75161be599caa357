------------------------------ MODULE Padding ------------------------------
(***************************************************************************)
(* One exchange of client and server, as far as sizes go.  Both sides hide *)
(* the length of what they send behind a random number of # characters,    *)
(* and remove all # characters from the end of what they receive.  Buffers *)
(* hold a packet of MAX_PT_SIZE plaintext bytes, and a longer datagram is  *)
(* cut there, which makes it fail authentication.                          *)
(*                                                                         *)
(* A text is cut after its last other character: body bytes, then hashes.  *)
(* All texts of a direction are prefixes of one, but for the hashes.       *)
(***************************************************************************)
EXTENDS Integers

CONSTANTS
  MaxPt,                      \* MAX_PT_SIZE
  MaxPad,                     \* the largest random padding, 255
  MaxText                     \* bound on scripts and outputs

ASSUME PaddingAssumption == MaxPt \in Nat /\ MaxPt > 2 /\ MaxPad \in Nat /\ MaxText \in Nat

VARIABLES
  script,                     \* what the client wants to be run
  ran,                        \* what the server ran
  output,                     \* what the command printed
  shown,                      \* what the client showed
  wire,                       \* the plaintext under way
  pc                          \* who is next

vars == <<script, ran, output, shown, wire, pc>>

Text == [body : Nat, hashes : Nat]
Size(t) == t.body + t.hashes
Texts == {t \in [body : 0..MaxText, hashes : 0..MaxText] : Size(t) <= MaxText}
Nothing == [body |-> 0, hashes |-> 0]

TypeOK ==
  /\ script \in Text /\ ran \in Text /\ output \in Text /\ shown \in Text /\ wire \in Text
  /\ pc \in {"build", "request", "run", "respond", "answer", "done", "lost", "unread"}

Init ==
  /\ script \in Texts
  /\ ran = Nothing /\ output = Nothing /\ shown = Nothing /\ wire = Nothing
  /\ pc = "build"

-----------------------------------------------------------------------------
(* Mutant: one character only. *)
StripOne(t) == [t EXCEPT !.hashes = IF @ > 0 THEN @ - 1 ELSE 0]

(* remove_padding, of both programs *)
Strip(t) == [t EXCEPT !.hashes = 0]

Padded(t, n) == [t EXCEPT !.hashes = @ + n]

(* Mutant: the subtraction does not saturate. *)
RequestPadSigned(t, random) ==
  IF Size(t) + random <= MaxPt - 1 THEN random ELSE MaxPt - 1 - Size(t)

(* build_padded_cmd, with saturating subtraction *)
RequestPad(t, random) ==
  IF Size(t) + random <= MaxPt - 1 THEN random
  ELSE IF Size(t) <= MaxPt - 1 THEN MaxPt - 1 - Size(t) ELSE 0

(* Mutant: the padding is not limited. *)
ResponsePadFull(t, random) == IF Size(t) < MaxPt - 2 THEN random ELSE 0

(* process_packet; with two bytes left or fewer there is no padding at all *)
ResponsePad(t, random) ==
  IF Size(t) >= MaxPt - 2 THEN 0
  ELSE IF Size(t) + random >= MaxPt THEN MaxPt - Size(t) - 1 ELSE random

(* Mutant: one byte too early. *)
TruncatedEarly(t) ==
  IF Size(t) < MaxPt THEN {t}
  ELSE {u \in [body : 0..MaxPt, hashes : 0..MaxPt] : Size(u) = MaxPt - 1 /\ u.body <= t.body}

(* execute_command keeps MAX_PT_SIZE bytes.  The cut may be anywhere, so   *)
(* that hashes of the body come to the end.                                *)
Truncated(t) ==
  IF Size(t) <= MaxPt THEN {t}
  ELSE {u \in [body : 0..MaxPt, hashes : 0..MaxPt] : Size(u) = MaxPt /\ u.body <= t.body}

(* The receive buffers of both programs have MAX_CT_SIZE bytes. *)
Fits(t) == Size(t) <= MaxPt

-----------------------------------------------------------------------------
Build(random) ==
  /\ pc = "build"
  /\ wire' = Padded(script, RequestPad(script, random))
  /\ pc' = "request"
  /\ UNCHANGED <<script, ran, output, shown>>

(* The server drops what it cannot authenticate, and the client asks again *)
(* with other padding, or gives up.                                        *)
Request ==
  /\ pc = "request"
  /\ \/ Fits(wire) /\ ran' = Strip(wire) /\ pc' = "run"
     \/ ~ Fits(wire) /\ pc' \in {"build", "unread"} /\ UNCHANGED ran
  /\ UNCHANGED <<script, output, shown, wire>>

Run(out) ==
  /\ pc = "run"
  /\ output' = out
  /\ wire' \in Truncated(out)
  /\ pc' = "respond"
  /\ UNCHANGED <<script, ran, shown>>

Respond(random) ==
  /\ pc = "respond"
  /\ wire' = Padded(wire, ResponsePad(wire, random))
  /\ pc' = "answer"
  /\ UNCHANGED <<script, ran, output, shown>>

Answer ==
  /\ pc = "answer"
  /\ shown' = Strip(wire)
  /\ pc' = IF Fits(wire) THEN "done" ELSE "lost"
  /\ UNCHANGED <<script, ran, output, wire>>

Next ==
  \/ \E random \in 0..MaxPad : Build(random) \/ Respond(random)
  \/ \E out \in Texts : Run(out)
  \/ Request \/ Answer

Spec == Init /\ [][Next]_vars
-----------------------------------------------------------------------------
(* What runs is the script that was given to the client, to the last byte  *)
(* but for hashes at its end; a script that does not fit is never run, not *)
(* even in part, whatever padding the retries choose.                      *)
RunsTheScript ==
  pc \in {"run", "respond", "answer", "done", "lost"} =>
    Size(script) <= MaxPt /\ ran = Strip(script)

(* Every response can be received: the server's padding never makes it     *)
(* larger than the client's buffer.                                        *)
AnswersFit == pc # "lost"

(* The client shows the output, to the last byte but for hashes at the     *)
(* end, if it fits, and otherwise as much of its beginning as fits.        *)
ShowsTheOutput ==
  pc = "done" =>
    IF Size(output) <= MaxPt THEN shown = Strip(output)
    ELSE shown.hashes = 0 /\ shown.body <= output.body /\ shown.body <= MaxPt
=============================================================================
