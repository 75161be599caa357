--------------------------- MODULE PaddingProofs ---------------------------
(***************************************************************************)
(* Padding and truncation lose nothing but hashes, for every size of       *)
(* buffers, padding and texts.                                             *)
(***************************************************************************)
EXTENDS Padding, TLAPS

(* What is under way: the script with its padding, which is too large only *)
(* if the script is; a prefix of the output, which fits.                   *)
InFlight ==
  /\ pc = "request" => wire.body = script.body /\ (Fits(wire) => Size(script) <= MaxPt)
  /\ pc \in {"respond", "answer"} =>
       /\ Fits(wire)
       /\ wire.body <= output.body
       /\ Size(output) <= MaxPt => wire.body = output.body

IInv ==
  /\ TypeOK
  /\ InFlight
  /\ RunsTheScript
  /\ AnswersFit
  /\ ShowsTheOutput

(* Texts of bounded size are texts. *)
LEMMA TextsAreTexts == \A t \in Texts : t \in Text
BY PaddingAssumption DEF Texts, Text

(* Stripping leaves the body alone. *)
LEMMA StripOK ==
  \A t \in Text : Strip(t) \in Text /\ Strip(t).body = t.body /\ Strip(t).hashes = 0
BY DEF Strip, Text

(* Texts with the same body are the same when stripped. *)
LEMMA SameBody ==
  ASSUME NEW t \in Text, NEW u \in Text, t.body = u.body
  PROVE  Strip(t) = Strip(u)
BY DEF Strip, Text

(* Padding leaves the body alone. *)
LEMMA PaddedOK ==
  ASSUME NEW t \in Text, NEW n \in Nat
  PROVE  /\ Padded(t, n) \in Text /\ Padded(t, n).body = t.body
         /\ Size(Padded(t, n)) = Size(t) + n
BY DEF Padded, Text, Size

(* The client's padding never makes a script that fits too large. *)
LEMMA RequestPadOK ==
  ASSUME NEW t \in Text, NEW random \in 0..MaxPad
  PROVE  RequestPad(t, random) \in Nat
BY PaddingAssumption DEF RequestPad, Text, Size

(* The server's padding never makes a response that fits too large. *)
LEMMA ResponsePadOK ==
  ASSUME NEW t \in Text, NEW random \in 0..MaxPad, Fits(t)
  PROVE  ResponsePad(t, random) \in Nat /\ Size(t) + ResponsePad(t, random) <= MaxPt
BY PaddingAssumption DEF ResponsePad, Text, Size, Fits

(* The cut output fits and is a prefix. *)
LEMMA TruncatedOK ==
  ASSUME NEW t \in Text, NEW u \in Truncated(t)
  PROVE  /\ u \in Text /\ Fits(u) /\ u.body <= t.body
         /\ Size(t) <= MaxPt => u.body = t.body
BY PaddingAssumption DEF Truncated, Text, Size, Fits

(* With nothing on the wire the invariant holds. *)
LEMMA InitOK == Init => IInv
BY TextsAreTexts
   DEF Init, IInv, TypeOK, InFlight, RunsTheScript, AnswersFit, ShowsTheOutput, Nothing, Text

(* Every step preserves the invariant. *)
LEMMA StepOK == IInv /\ [Next]_vars => IInv'
<1> SUFFICES ASSUME IInv, [Next]_vars PROVE IInv'
  OBVIOUS
<1> USE DEF IInv
<1>1. ASSUME NEW random \in 0..MaxPad, Build(random) PROVE IInv'
  <2> DEFINE n == RequestPad(script, random)
  <2>1. script \in Text /\ n \in Nat /\ wire' = Padded(script, n)
    BY <1>1, RequestPadOK DEF Build, TypeOK
  <2> HIDE DEF n
  <2>2. wire' \in Text /\ wire'.body = script.body /\ Size(wire') = Size(script) + n
    BY <2>1, PaddedOK
  <2>3. Size(script) \in Nat
    BY <2>1 DEF Size, Text
  <2>4. Fits(wire') => Size(script) <= MaxPt
    BY <2>1, <2>2, <2>3, PaddingAssumption DEF Fits
  <2> QED
    BY <1>1, <2>2, <2>4
       DEF Build, TypeOK, InFlight, RunsTheScript, AnswersFit, ShowsTheOutput, Fits, Size
<1>2. CASE Request
  <2>1. CASE Fits(wire) /\ ran' = Strip(wire) /\ pc' = "run"
    <3>1. ran' = Strip(script) /\ ran' \in Text
      BY <1>2, <2>1, SameBody, StripOK DEF Request, TypeOK, InFlight
    <3> QED
      BY <1>2, <2>1, <3>1
         DEF Request, TypeOK, InFlight, RunsTheScript, AnswersFit, ShowsTheOutput
  <2>2. CASE ~ Fits(wire) /\ pc' \in {"build", "unread"} /\ UNCHANGED ran
    BY <1>2, <2>2 DEF Request, TypeOK, InFlight, RunsTheScript, AnswersFit, ShowsTheOutput
  <2> QED
    BY <1>2, <2>1, <2>2 DEF Request
<1>3. ASSUME NEW out \in Texts, Run(out) PROVE IInv'
  <2>1. out \in Text /\ wire' \in Truncated(out)
    BY <1>3, TextsAreTexts DEF Run
  <2>2. /\ wire' \in Text /\ Fits(wire') /\ wire'.body <= out.body
        /\ Size(out) <= MaxPt => wire'.body = out.body
    BY <2>1, TruncatedOK
  <2> QED
    BY <1>3, <2>1, <2>2
       DEF Run, TypeOK, InFlight, RunsTheScript, AnswersFit, ShowsTheOutput, Fits, Size
<1>4. ASSUME NEW random \in 0..MaxPad, Respond(random) PROVE IInv'
  <2>1. wire \in Text /\ Fits(wire)
    BY <1>4 DEF Respond, TypeOK, InFlight
  <2>2. wire' \in Text /\ wire'.body = wire.body /\ Fits(wire')
    BY <1>4, <2>1, ResponsePadOK, PaddedOK DEF Respond, Fits
  <2> QED
    BY <1>4, <2>2
       DEF Respond, TypeOK, InFlight, RunsTheScript, AnswersFit, ShowsTheOutput, Fits, Size
<1>5. CASE Answer
  <2>1. /\ pc = "answer" /\ wire \in Text /\ output \in Text /\ Fits(wire)
        /\ wire.body <= output.body
        /\ Size(output) <= MaxPt => wire.body = output.body
    BY <1>5 DEF Answer, TypeOK, InFlight
  <2>2. /\ shown' \in Text /\ shown'.body = wire.body /\ shown'.hashes = 0
        /\ Size(output) <= MaxPt => shown' = Strip(output)
    BY <1>5, <2>1, StripOK, SameBody DEF Answer
  <2>3. wire.body <= MaxPt
    BY <2>1, PaddingAssumption DEF Fits, Size, Text
  <2> QED
    BY <1>5, <2>1, <2>2, <2>3
       DEF Answer, TypeOK, InFlight, RunsTheScript, AnswersFit, ShowsTheOutput
<1>6. CASE UNCHANGED vars
  BY <1>6 DEF vars, TypeOK, InFlight, RunsTheScript, AnswersFit, ShowsTheOutput
<1> QED
  BY <1>1, <1>2, <1>3, <1>4, <1>5, <1>6 DEF Next

-----------------------------------------------------------------------------
(* The inductive invariant holds in every reachable state. *)
THEOREM Invariance == Spec => []IInv
BY InitOK, StepOK, PTL DEF Spec

(* The types are right, so that no size is ever negative. *)
THEOREM TypeCorrect == Spec => []TypeOK
<1>1. IInv => TypeOK
  BY DEF IInv
<1> QED
  BY <1>1, Invariance, PTL

(* The server runs the whole script or nothing. *)
THEOREM ScriptArrives == Spec => []RunsTheScript
<1>1. IInv => RunsTheScript
  BY DEF IInv
<1> QED
  BY <1>1, Invariance, PTL

(* No response is too large for the client. *)
THEOREM ResponsesFit == Spec => []AnswersFit
<1>1. IInv => AnswersFit
  BY DEF IInv
<1> QED
  BY <1>1, Invariance, PTL

(* The client shows the output, or as much of it as fits. *)
THEOREM OutputArrives == Spec => []ShowsTheOutput
<1>1. IInv => ShowsTheOutput
  BY DEF IInv
<1> QED
  BY <1>1, Invariance, PTL
=============================================================================
