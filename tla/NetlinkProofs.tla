--------------------------- MODULE NetlinkProofs ---------------------------
(***************************************************************************)
(* A netlink call of ktuctl is atomic, and what it reads is current, for   *)
(* any number of processes, items and messages on their sockets.           *)
(***************************************************************************)
EXTENDS Netlink, SequenceTheorems, TLAPS

(* The messages on the socket of p. *)
Queue(p) == {inbox[p][i] : i \in 1..Len(inbox[p])}

(* A message with the sequence number of the request. *)
Answers(m, type) == m.seq = 2 /\ m.type = type

(* A closed socket has nothing on it, and a new one no past. *)
Closed(p) ==
  /\ ~ Reading(p) => asked[p] = "nothing" /\ walk[p] = {} /\ inbox[p] = <<>> /\ strays[p] = 0
  /\ pc[p] = "idle" => effect[p] = "none" /\ shown[p] = {}

(* What the kernel works on is what the caller waits for, and has had no   *)
(* effect so far.                                                          *)
InStep(p) ==
  /\ asked[p] = "family" => pc[p] = "family"
  /\ asked[p] \in {"request", "dump"} => pc[p] = "reply"
  /\ asked[p] = "dump" => call[p].op \in {"dump", "list"}
  /\ asked[p] # "nothing" => effect[p] = "none"
  /\ walk[p] # {} => asked[p] = "dump"
  /\ pc[p] = "family" => effect[p] # "applied"
  /\ effect[p] = "applied" => call[p] \in Updates

(* What a message on the socket tells of the call. *)
Telling(p) ==
  \A m \in Queue(p) :
    /\ m.seq = 2 => pc[p] = "reply"
    /\ m.seq = Expected(p) /\ m.type = "error" => effect[p] = "refused"
    /\ m.seq = 1 /\ m.type = "data" /\ pc[p] = "family"
         => asked[p] = "nothing" /\ effect[p] = "none"
    /\ Answers(m, "ack") /\ call[p] \in Updates => effect[p] = "applied"
    /\ Answers(m, "data") => call[p] \in Reads
    /\ Answers(m, "done") => call[p] \in Reads /\ asked[p] = "nothing"

(* The end of a dump comes last. *)
DoneIsLast(p) ==
  \A i, j \in 1..Len(inbox[p]) :
    i < j /\ Answers(inbox[p][i], "done") => ~ Answers(inbox[p][j], "data")

(* The history of the map brackets its contents while p reads it, and all  *)
(* that p was or will be given has been in the map.                        *)
Bracketed(p) ==
  /\ Looking(p) => always[p] \subseteq store /\ store \subseteq ever[p]
  /\ call[p] \in Reads => shown[p] \subseteq ever[p]
  /\ \A m \in Queue(p) : Answers(m, "data") => m.item \in ever[p] \cup {NoItem}

(* The answer to a get has the item, if it was there all the time. *)
GetAnswer(p) ==
  call[p].op = "get" =>
    \A m \in Queue(p) :
      Answers(m, "data") /\ call[p].item \in always[p] => m.item = call[p].item

(* A dump is under way or its end is on the socket. *)
Dumping(p) ==
  /\ call[p].op \in {"dump", "list"}
  /\ asked[p] = "dump" \/ \E m \in Queue(p) : Answers(m, "done")

(* What p has not been given is on its socket or still to be visited. *)
Underway(p) ==
  \A x \in always[p] :
    Dumping(p) /\ p \notin cut /\ ~ TooShort(p) =>
      \/ x \in shown[p] \/ x \in walk[p]
      \/ \E m \in Queue(p) : Answers(m, "data") /\ m.item = x

(* What a call that succeeded has read. *)
Current(p) ==
  LET wanted == IF call[p].op = "get" THEN {call[p].item} ELSE Items IN
  pc[p] = "ok" /\ call[p] \in Reads =>
    p \in cut \/ TooShort(p) \/ always[p] \cap wanted \subseteq shown[p]

CallerInv(p) ==
  /\ Closed(p) /\ InStep(p) /\ Telling(p) /\ DoneIsLast(p)
  /\ Bracketed(p) /\ GetAnswer(p) /\ Underway(p) /\ Current(p)

IInv == TypeOK /\ \A p \in Callers : CallerInv(p)
-----------------------------------------------------------------------------
(* The operation tells what kind of call it is. *)
LEMMA CallKinds ==
  ASSUME NEW c \in Calls \cup {NoCall}
  PROVE  /\ c \in Updates <=> c.op \in {"add", "del"}
         /\ c \in Reads <=> c.op \in {"get", "dump", "list"}
         /\ c = NoCall <=> c.op = "none"
         /\ c.op \in {"add", "del", "get"} => c.item \in Items
<1>1. CASE c \in Updates
  <2>1. c.op \in {"add", "del"} /\ c.item \in Items
    BY <1>1 DEF Updates
  <2>2. c \notin Reads /\ c # NoCall
    BY <2>1 DEF Reads, NoCall
  <2> QED
    BY <1>1, <2>1, <2>2
<1>2. CASE c \in [op : {"get"}, item : Items]
  <2>1. c.op = "get" /\ c.item \in Items /\ c \in Reads
    BY <1>2 DEF Reads
  <2>2. c \notin Updates /\ c # NoCall
    BY <2>1 DEF Updates, NoCall
  <2> QED
    BY <2>1, <2>2
<1>3. CASE c \in [op : {"dump", "list"}]
  <2>1. c.op \in {"dump", "list"} /\ c \in Reads
    BY <1>3 DEF Reads
  <2>2. c \notin Updates /\ c # NoCall
    BY <2>1 DEF Updates, NoCall
  <2> QED
    BY <2>1, <2>2
<1>4. CASE c = NoCall
  <2>1. c.op = "none"
    BY <1>4 DEF NoCall
  <2>2. c \notin Updates /\ c \notin Reads
    BY <2>1 DEF Updates, Reads
  <2> QED
    BY <1>4, <2>1, <2>2
<1> QED
  BY <1>1, <1>2, <1>3, <1>4 DEF Calls, Reads

(* A message is put at the end of the queue. *)
LEMMA QueueAppend ==
  ASSUME TypeOK, NEW p \in Callers, NEW m \in Message,
         inbox' = [inbox EXCEPT ![p] = Append(@, m)]
  PROVE  /\ inbox' \in [Callers -> Seq(Message)]
         /\ Queue(p)' = Queue(p) \cup {m}
         /\ /\ DoneIsLast(p)
            /\ Answers(m, "data") => \A n \in Queue(p) : ~ Answers(n, "done")
            => DoneIsLast(p)'
<1> DEFINE s == inbox[p]
<1>1. s \in Seq(Message) /\ inbox'[p] = Append(s, m)
  BY DEF TypeOK
<1>2. /\ inbox'[p] \in Seq(Message) /\ Len(inbox'[p]) = Len(s) + 1 /\ Len(s) \in Nat
      /\ \A i \in 1..Len(s) : inbox'[p][i] = s[i]
      /\ inbox'[p][Len(s) + 1] = m
  BY <1>1, AppendProperties
<1>3. inbox' \in [Callers -> Seq(Message)]
  BY <1>2 DEF TypeOK
<1> HIDE DEF s
<1>4. Queue(p) = {s[i] : i \in 1..Len(s)}
  BY DEF Queue, s
<1>5. Queue(p)' = Queue(p) \cup {m}
  <2>1. 1..Len(inbox'[p]) = 1..Len(s) \cup {Len(s) + 1}
    BY <1>2
  <2> QED
    BY <1>2, <1>4, <2>1 DEF Queue
<1>6. ASSUME DoneIsLast(p), Answers(m, "data") => \A n \in Queue(p) : ~ Answers(n, "done")
      PROVE  DoneIsLast(p)'
  <2> SUFFICES ASSUME NEW i \in 1..(Len(s) + 1), NEW j \in 1..(Len(s) + 1), i < j,
                      Answers(inbox'[p][i], "done"), Answers(inbox'[p][j], "data")
               PROVE  FALSE
    BY <1>2 DEF DoneIsLast, Answers
  <2>1. i \in 1..Len(s) /\ inbox'[p][i] = s[i] /\ s[i] \in Queue(p)
    BY <1>2, <1>4
  <2>2. CASE j = Len(s) + 1
    BY <1>2, <1>6, <2>1, <2>2
  <2>3. CASE j \in 1..Len(s)
    BY <1>2, <1>6, <2>1, <2>3 DEF DoneIsLast, s
  <2> QED
    BY <1>2, <2>2, <2>3
<1> QED
  BY <1>3, <1>5, <1>6

(* The first message of a queue is read. *)
LEMMA QueueTail ==
  ASSUME TypeOK, NEW p \in Callers, inbox[p] # <<>>,
         inbox' = [inbox EXCEPT ![p] = Tail(@)]
  PROVE  /\ inbox' \in [Callers -> Seq(Message)]
         /\ Queue(p)' \subseteq Queue(p)
         /\ Queue(p) \subseteq Queue(p)' \cup {Head(inbox[p])}
         /\ DoneIsLast(p) => DoneIsLast(p)'
<1> DEFINE s == inbox[p]
<1>1. s \in Seq(Message) /\ inbox'[p] = Tail(s) /\ s # <<>>
  BY DEF TypeOK
<1>2. /\ inbox'[p] \in Seq(Message) /\ Len(inbox'[p]) = Len(s) - 1 /\ Len(s) \in Nat \ {0}
      /\ \A i \in 1..(Len(s) - 1) : inbox'[p][i] = s[i + 1]
      /\ Head(s) = s[1]
  <2>1. Len(s) \in Nat /\ Len(s) # 0
    BY <1>1, EmptySeq
  <2>2. Head(s) = s[1]
    BY <1>1
  <2>3. /\ Tail(s) \in Seq(Message) /\ Len(Tail(s)) = Len(s) - 1
        /\ \A i \in 1..Len(Tail(s)) : Tail(s)[i] = s[i + 1]
    BY <1>1, HeadTailProperties
  <2> QED
    BY <1>1, <2>1, <2>2, <2>3
<1>3. inbox' \in [Callers -> Seq(Message)]
  BY <1>2 DEF TypeOK
<1> HIDE DEF s
<1>4. Queue(p) = {s[i] : i \in 1..Len(s)}
  BY DEF Queue, s
<1>5. Queue(p)' = {inbox'[p][i] : i \in 1..(Len(s) - 1)}
  BY <1>2 DEF Queue
<1>6. Queue(p)' \subseteq Queue(p)
  <2>1. \A i \in 1..(Len(s) - 1) : i + 1 \in 1..Len(s)
    BY <1>2
  <2> QED
    BY <1>2, <1>4, <1>5, <2>1
<1>7. ASSUME NEW i \in 1..Len(s) PROVE s[i] \in Queue(p)' \cup {Head(s)}
  <2>1. CASE i = 1
    BY <1>2, <2>1
  <2>2. CASE i # 1
    <3>1. i - 1 \in 1..(Len(s) - 1) /\ (i - 1) + 1 = i
      BY <1>2, <2>2
    <3>2. inbox'[p][i - 1] = s[i]
      BY <1>2, <3>1
    <3> QED
      BY <1>5, <3>1, <3>2
  <2> QED
    BY <2>1, <2>2
<1>8. Queue(p) \subseteq Queue(p)' \cup {Head(s)}
  BY <1>4, <1>7
<1>9. DoneIsLast(p) => DoneIsLast(p)'
  <2> SUFFICES ASSUME DoneIsLast(p),
                      NEW i \in 1..(Len(s) - 1), NEW j \in 1..(Len(s) - 1), i < j,
                      Answers(s[i + 1], "done")
               PROVE  ~ Answers(s[j + 1], "data")
    BY <1>2 DEF DoneIsLast, Answers
  <2> QED
    BY <1>2 DEF DoneIsLast, s
<1> QED
  BY <1>3, <1>6, <1>8, <1>9 DEF s

(* It is one of the queue, and if it is the end of a dump, no item follows. *)
LEMMA QueueHead ==
  ASSUME TypeOK, NEW p \in Callers, inbox[p] # <<>>
  PROVE  /\ Head(inbox[p]) \in Queue(p) /\ Head(inbox[p]) \in Message
         /\ DoneIsLast(p) /\ Answers(Head(inbox[p]), "done")
              => \A m \in Queue(p) : ~ Answers(m, "data")
<1>1. /\ inbox[p] \in Seq(Message) /\ Len(inbox[p]) \in Nat \ {0}
      /\ Head(inbox[p]) = inbox[p][1] /\ Head(inbox[p]) \in Message
  <2>1. inbox[p] \in Seq(Message) /\ Len(inbox[p]) \in Nat /\ Len(inbox[p]) # 0
    BY EmptySeq DEF TypeOK
  <2> QED
    BY <2>1, HeadTailProperties
<1>2. Head(inbox[p]) \in Queue(p)
  BY <1>1 DEF Queue
<1>3. ASSUME DoneIsLast(p), Answers(inbox[p][1], "done"), NEW i \in 1..Len(inbox[p])
      PROVE  ~ Answers(inbox[p][i], "data")
  <2>1. CASE i = 1
    BY <1>3, <2>1 DEF Answers
  <2>2. CASE 1 < i
    BY <1>1, <1>3, <2>2 DEF DoneIsLast
  <2> QED
    BY <1>1, <2>1, <2>2
<1> QED
  BY <1>1, <1>2, <1>3 DEF Queue

(* An empty queue. *)
LEMMA QueueEmpty ==
  ASSUME NEW p \in Callers, inbox'[p] = <<>>
  PROVE  Queue(p)' = {} /\ DoneIsLast(p)'
BY DEF Queue, DoneIsLast

(* The kernel's reply. *)
LEMMA ReplyQueue ==
  ASSUME TypeOK, NEW p \in Callers, NEW type \in {"ack", "error", "done", "data"},
         NEW item \in Items \cup {NoItem}, Reply(p, type, item)
  PROVE  \E m \in Message :
           /\ m.seq = Seqno(p) /\ m.type = type /\ m.item = item
           /\ inbox' = [inbox EXCEPT ![p] = Append(@, m)]
<1> DEFINE m == [seq |-> Seqno(p), type |-> type, item |-> item]
<1>1. Seqno(p) \in 0..2
  BY DEF Seqno
<1>2. m \in Message
  BY <1>1 DEF Message
<1> QED
  BY <1>2 DEF Reply

(* Replies are messages. *)
LEMMA ReplyType ==
  ASSUME TypeOK, NEW p \in Callers, NEW type \in {"ack", "error", "done", "data"},
         NEW item \in Items \cup {NoItem}, Reply(p, type, item)
  PROVE  inbox' \in [Callers -> Seq(Message)]
BY ReplyQueue, QueueAppend

-----------------------------------------------------------------------------
(* Types are preserved: by the kernel, *)
LEMMA KernelType ==
  ASSUME TypeOK, NEW p \in Callers, KernelStep(p)
  PROVE  TypeOK'
<1>1. CASE NameFamily(p)
  <2>1. inbox' \in [Callers -> Seq(Message)]
    BY <1>1, ReplyType DEF NameFamily
  <2> QED
    BY <1>1, <2>1 DEF TypeOK, NameFamily, Settled, caller
<1>2. CASE Apply(p)
  <2>1. inbox' \in [Callers -> Seq(Message)]
    BY <1>2, ReplyType DEF Apply
  <2>2. call[p].op \in {"add", "del"} /\ call[p] \in Calls \cup {NoCall}
    BY <1>2 DEF Apply, TypeOK
  <2>3. call[p].item \in Items
    BY <2>2, CallKinds
  <2>4. PICK items \in SUBSET Items : Store(items)
    BY <1>2, <2>3 DEF Apply, TypeOK
  <2>5. /\ store' \subseteq Items
        /\ always' \in [Callers -> SUBSET Items] /\ ever' \in [Callers -> SUBSET Items]
    BY <2>4 DEF Store, TypeOK
  <2> QED
    BY <1>2, <2>1, <2>5 DEF TypeOK, Apply, Settled, caller
<1>3. CASE Refuse(p)
  <2>1. inbox' \in [Callers -> Seq(Message)]
    BY <1>3, ReplyType DEF Refuse
  <2> QED
    BY <1>3, <2>1 DEF TypeOK, Refuse, Settled, caller
<1>4. CASE AnswerGet(p)
  <2>1. (IF call[p].item \in store THEN call[p].item ELSE NoItem) \in Items \cup {NoItem}
    BY DEF TypeOK
  <2>2. inbox' \in [Callers -> Seq(Message)]
    BY <1>4, <2>1, ReplyType DEF AnswerGet
  <2> QED
    BY <1>4, <2>2 DEF TypeOK, AnswerGet, Settled, caller
<1>5. CASE AnswerNothing(p)
  <2>1. inbox' \in [Callers -> Seq(Message)]
    BY <1>5, ReplyType DEF AnswerNothing
  <2> QED
    BY <1>5, <2>1 DEF TypeOK, AnswerNothing, Settled, caller
<1>6. CASE StartDump(p)
  BY <1>6 DEF TypeOK, StartDump, caller
<1>7. ASSUME NEW x \in Items, Visit(p, x) PROVE TypeOK'
  <2>1. inbox' \in [Callers -> Seq(Message)]
    BY <1>7, ReplyType DEF Visit, TypeOK
  <2>2. walk' \in [Callers -> SUBSET Items]
    BY <1>7 DEF Visit, TypeOK
  <2> QED
    BY <1>7, <2>1, <2>2 DEF TypeOK, Visit, caller
<1>8. CASE FinishDump(p)
  <2>1. inbox' \in [Callers -> Seq(Message)]
    BY <1>8, ReplyType DEF FinishDump
  <2> QED
    BY <1>8, <2>1 DEF TypeOK, FinishDump, Settled, caller
<1>9. CASE AbandonDump(p)
  <2>1. inbox' \in [Callers -> Seq(Message)]
    BY <1>9, ReplyType DEF AbandonDump
  <2> QED
    BY <1>9, <2>1 DEF TypeOK, AbandonDump, Settled, caller
<1> QED
  BY <1>1, <1>2, <1>3, <1>4, <1>5, <1>6, <1>7, <1>8, <1>9 DEF KernelStep

(* when the caller reads on or closes its socket, *)
LEMMA EndType ==
  ASSUME TypeOK, NEW p \in Callers, NEW how \in {"ok", "refused", "failed"},
         Reading(p), End(p, how), shown' \in [Callers -> SUBSET Items],
         UNCHANGED <<store, layout, always, ever, effect, cut>>
  PROVE  TypeOK'
<1>1. <<>> \in Seq(Message) /\ 0 \in 0..StrayBound
  BY NetlinkAssumption
<1>2. inbox' \in [Callers -> Seq(Message)] /\ strays' \in [Callers -> 0..StrayBound]
  BY <1>1 DEF End, TypeOK
<1>3. call[p] # NoCall
  BY DEF Reading, TypeOK
<1>4. \A q \in Callers : call'[q] = NoCall <=> pc'[q] = "idle"
  BY <1>3 DEF End, TypeOK
<1> QED
  BY <1>2, <1>4 DEF End, TypeOK

(* A caller that reads on keeps the types. *)
LEMMA GoOnType ==
  ASSUME TypeOK, NEW p \in Callers, inbox[p] # <<>>, GoOn(p),
         shown' \in [Callers -> SUBSET Items],
         UNCHANGED <<store, layout, always, ever, effect, cut>>
  PROVE  TypeOK'
<1>1. inbox' \in [Callers -> Seq(Message)]
  BY QueueTail DEF GoOn
<1> QED
  BY <1>1 DEF GoOn, TypeOK

(* in every step of the caller, *)
LEMMA CallerType ==
  ASSUME TypeOK, NEW p \in Callers, CallerStep(p)
  PROVE  TypeOK'
<1>1. CASE Skip(p)
  BY <1>1, GoOnType DEF Skip, TypeOK
<1>2. CASE FamilyFound(p)
  <2>1. inbox' \in [Callers -> Seq(Message)]
    BY <1>2, QueueTail DEF FamilyFound, Receive
  <2>2. \A q \in Callers : call'[q] = NoCall <=> pc'[q] = "idle"
    BY <1>2 DEF FamilyFound, TypeOK
  <2> QED
    BY <1>2, <2>1, <2>2 DEF FamilyFound, Receive, TypeOK
<1>3. CASE Acked(p)
  <2>1. /\ Reading(p) /\ inbox[p] # <<>> /\ UNCHANGED <<store, layout, always, ever, effect, cut>>
        /\ shown' \in [Callers -> SUBSET Items]
        /\ End(p, "ok") \/ GoOn(p)
    BY <1>3 DEF Acked, Receive, TypeOK
  <2> QED
    BY <2>1, EndType, GoOnType
<1>4. CASE Refused(p)
  BY <1>4, EndType DEF Refused, Receive, TypeOK
<1>5. CASE Done(p)
  <2>1. /\ Reading(p) /\ UNCHANGED <<store, layout, always, ever, effect, cut>>
        /\ shown' \in [Callers -> SUBSET Items]
        /\ End(p, "ok") \/ End(p, "failed")
    BY <1>5 DEF Done, Receive, TypeOK
  <2> QED
    BY <2>1, EndType
<1>6. CASE Data(p)
  <2>1. /\ Reading(p) /\ inbox[p] # <<>> /\ UNCHANGED <<store, layout, always, ever, effect, cut>>
        /\ End(p, "ok") \/ End(p, "failed") \/ GoOn(p)
    BY <1>6 DEF Data, Receive
  <2>2. Head(inbox[p]).item \in Items \cup {NoItem}
    BY <2>1, QueueHead DEF Message
  <2>3. Contents(p) \subseteq Items
    BY <2>2 DEF Contents
  <2>4. shown' \in [Callers -> SUBSET Items]
    BY <1>6, <2>3 DEF Data, TypeOK
  <2> QED
    BY <2>1, <2>4, EndType, GoOnType
<1>7. CASE Return(p)
  BY <1>7 DEF Return, TypeOK
<1> QED
  BY <1>1, <1>2, <1>3, <1>4, <1>5, <1>6, <1>7 DEF CallerStep

(* and in every other. *)
LEMMA TypeStep == TypeOK /\ [Next]_vars => TypeOK'
<1> SUFFICES ASSUME TypeOK, [Next]_vars PROVE TypeOK'
  OBVIOUS
<1>1. ASSUME NEW p \in Callers, NEW c \in Calls, Connect(p, c) PROVE TypeOK'
  <2>1. c # NoCall
    BY CallKinds DEF Calls, Updates, Reads, NoCall
  <2>2. \A q \in Callers : call'[q] = NoCall <=> pc'[q] = "idle"
    BY <1>1, <2>1 DEF Connect, TypeOK
  <2> QED
    BY <1>1, <2>2 DEF Connect, TypeOK
<1>2. ASSUME NEW p \in Callers, RecvFails(p) PROVE TypeOK'
  BY <1>2, EndType DEF RecvFails, TypeOK
<1>3. ASSUME NEW p \in Callers, NEW seq \in 0..2, NEW type \in {"ack", "done"},
             Stray(p, seq, type)
      PROVE  TypeOK'
  <2> DEFINE m == [seq |-> seq, type |-> type, item |-> NoItem]
  <2>1. m \in Message
    BY DEF Message
  <2>2. inbox' \in [Callers -> Seq(Message)]
    BY <1>3, <2>1, QueueAppend DEF Stray
  <2>3. strays' \in [Callers -> 0..StrayBound]
    BY <1>3, NetlinkAssumption DEF Stray, TypeOK
  <2> QED
    BY <1>3, <2>2, <2>3 DEF Stray, TypeOK, kernel, caller
<1>4. CASE UNCHANGED vars
  BY <1>4 DEF vars, kernel, caller, TypeOK
<1> QED
  BY <1>1, <1>2, <1>3, <1>4, KernelType, CallerType DEF Next
-----------------------------------------------------------------------------
(* The step leaves alone what belongs to q. *)
Untouched(q) ==
  /\ asked'[q] = asked[q] /\ walk'[q] = walk[q] /\ inbox'[q] = inbox[q]
  /\ call'[q] = call[q] /\ pc'[q] = pc[q] /\ shown'[q] = shown[q]
  /\ strays'[q] = strays[q] /\ effect'[q] = effect[q]
  /\ q \in cut' <=> q \in cut
  /\ layout' = layout

(* The history of q is kept. *)
Witnessed(q) ==
  /\ always'[q] \subseteq always[q] /\ ever[q] \subseteq ever'[q]
  /\ Looking(q) /\ always[q] \subseteq store /\ store \subseteq ever[q]
       => always'[q] \subseteq store' /\ store' \subseteq ever'[q]

(* The other callers see at most a change of the map. *)
LEMMA OthersOK ==
  ASSUME NEW q \in Callers, CallerInv(q), Untouched(q), Witnessed(q)
  PROVE  CallerInv(q)'
<1>1. /\ Reading(q)' = Reading(q) /\ Looking(q)' = Looking(q) /\ Queue(q)' = Queue(q)
      /\ Expected(q)' = Expected(q) /\ TooShort(q)' = TooShort(q)
  BY DEF Untouched, Reading, Looking, Queue, Expected, TooShort
<1>2. Dumping(q)' = Dumping(q)
  BY <1>1 DEF Untouched, Dumping, Answers
<1>3. Closed(q)' /\ InStep(q)'
  BY <1>1 DEF CallerInv, Closed, InStep, Untouched
<1>4. Telling(q)' /\ DoneIsLast(q)'
  BY <1>1 DEF CallerInv, Telling, DoneIsLast, Answers, Untouched
<1>5. Bracketed(q)'
  BY <1>1 DEF CallerInv, Bracketed, Answers, Untouched, Witnessed
<1>6. GetAnswer(q)'
  BY <1>1 DEF CallerInv, GetAnswer, Answers, Untouched, Witnessed
<1>7. Underway(q)'
  BY <1>1, <1>2 DEF CallerInv, Underway, Answers, Untouched, Witnessed
<1>8. Current(q)'
  BY <1>1 DEF CallerInv, Current, Untouched, Witnessed
<1> QED
  BY <1>3, <1>4, <1>5, <1>6, <1>7, <1>8 DEF CallerInv

(* A change of the map is noted by all who are reading it. *)
LEMMA StoreWitnessed ==
  ASSUME TypeOK, NEW items, Store(items), NEW q \in Callers
  PROVE  Witnessed(q)
<1>1. /\ always'[q] = IF Looking(q) THEN always[q] \cap items ELSE always[q]
      /\ ever'[q] = IF Looking(q) THEN ever[q] \cup items ELSE ever[q]
      /\ store' = items
  BY DEF Store
<1> QED
  BY <1>1 DEF Witnessed

(* A call that ends leaves nothing behind. *)
LEMMA EndOK ==
  ASSUME TypeOK, NEW p \in Callers, CallerInv(p), Reading(p),
         NEW how \in {"ok", "refused", "failed"}, End(p, how),
         UNCHANGED <<store, layout, always, ever, effect, cut>>,
         call[p] \in Reads => shown'[p] \subseteq ever[p],
         Current(p)'
  PROVE  CallerInv(p)'
<1>1. /\ pc'[p] = how /\ asked'[p] = "nothing" /\ walk'[p] = {}
      /\ inbox'[p] = <<>> /\ strays'[p] = 0 /\ call'[p] = call[p]
  BY DEF End, TypeOK
<1>2. Queue(p)' = {} /\ DoneIsLast(p)'
  BY <1>1, QueueEmpty
<1>3. ~ Reading(p)' /\ ~ Looking(p)' /\ pc'[p] # "idle" /\ pc'[p] # "family"
  BY <1>1 DEF Reading, Looking
<1>4. Closed(p)' /\ InStep(p)'
  BY <1>1, <1>3 DEF Closed, InStep, CallerInv
<1>5. Telling(p)' /\ Bracketed(p)' /\ GetAnswer(p)'
  BY <1>1, <1>2, <1>3 DEF Telling, Bracketed, GetAnswer
<1>6. Underway(p)'
  BY <1>1, <1>2 DEF Underway, Dumping
<1> QED
  BY <1>2, <1>4, <1>5, <1>6 DEF CallerInv

(* A message that is read and not an item changes nothing else. *)
LEMMA GoOnOK ==
  ASSUME TypeOK, NEW p \in Callers, CallerInv(p), Reading(p), inbox[p] # <<>>, GoOn(p),
         UNCHANGED <<store, layout, always, ever, effect, cut, shown>>,
         ~ Answers(Head(inbox[p]), "data")
  PROVE  CallerInv(p)'
<1>1. UNCHANGED <<asked, walk, strays, call, pc>>
  BY DEF GoOn
<1>2. /\ Queue(p)' \subseteq Queue(p) /\ Queue(p) \subseteq Queue(p)' \cup {Head(inbox[p])}
      /\ DoneIsLast(p)'
  BY QueueTail DEF GoOn, CallerInv
<1>3. Reading(p)' /\ Looking(p)' = Looking(p) /\ Expected(p)' = Expected(p)
  BY <1>1 DEF Reading, Looking, Expected
<1>4. Closed(p)' /\ InStep(p)'
  BY <1>1, <1>3 DEF Closed, InStep, CallerInv, Reading
<1>5. Telling(p)'
  BY <1>1, <1>2, <1>3 DEF Telling, CallerInv, Answers
<1>6. Bracketed(p)' /\ GetAnswer(p)'
  BY <1>1, <1>2, <1>3 DEF Bracketed, GetAnswer, CallerInv, Answers
<1>7. Dumping(p)' => Dumping(p)
  BY <1>1, <1>2 DEF Dumping, Answers
<1>8. TooShort(p)' = TooShort(p)
  BY <1>1 DEF TooShort
<1>9. Underway(p)'
  BY <1>1, <1>2, <1>7, <1>8 DEF Underway, CallerInv, Answers
<1>10. Current(p)'
  BY <1>1, <1>8 DEF Current, CallerInv
<1> QED
  BY <1>2, <1>4, <1>5, <1>6, <1>9, <1>10 DEF CallerInv

(* The first message of the queue is the one awaited. *)
LEMMA ReceiveOK ==
  ASSUME TypeOK, NEW p \in Callers, CallerInv(p),
         NEW type \in {"ack", "error", "done", "data"}, Receive(p, type)
  PROVE  /\ Reading(p) /\ inbox[p] # <<>> /\ call[p] \in Calls
         /\ UNCHANGED <<store, layout, always, ever, effect, cut>>
         /\ Head(inbox[p]) \in Queue(p)
         /\ Head(inbox[p]).type = type /\ Head(inbox[p]).seq = Expected(p)
         /\ pc[p] = "reply" => Answers(Head(inbox[p]), type)
<1>1. Reading(p) /\ inbox[p] # <<>> /\ Ours(p) /\ Head(inbox[p]).type = type
  BY DEF Receive
<1>2. Head(inbox[p]) \in Queue(p)
  BY <1>1, QueueHead
<1>3. call[p] \in Calls
  BY <1>1 DEF Reading, TypeOK
<1> QED
  BY <1>1, <1>2, <1>3 DEF Ours, Receive, Answers, Expected

(* A message for something else is passed over. *)
LEMMA SkipOK ==
  ASSUME TypeOK, NEW p \in Callers, CallerInv(p), Skip(p)
  PROVE  CallerInv(p)'
<1>1. Reading(p) /\ inbox[p] # <<>> /\ Head(inbox[p]).seq # Expected(p) /\ GoOn(p)
  BY DEF Skip, Ours
<1>2. Head(inbox[p]) \in Queue(p)
  BY <1>1, QueueHead
<1>3. ~ Answers(Head(inbox[p]), "data")
  BY <1>1, <1>2 DEF CallerInv, Telling, Answers, Expected
<1> QED
  BY <1>1, <1>3, GoOnOK DEF Skip

(* The request goes out, and the map has not been touched on behalf of p. *)
LEMMA FamilyFoundOK ==
  ASSUME TypeOK, NEW p \in Callers, CallerInv(p), FamilyFound(p)
  PROVE  CallerInv(p)'
<1>1. /\ Reading(p) /\ inbox[p] # <<>> /\ Head(inbox[p]) \in Queue(p)
      /\ Head(inbox[p]).type = "data" /\ Head(inbox[p]).seq = Expected(p)
      /\ UNCHANGED <<store, layout, always, ever, effect, cut>>
  BY ReceiveOK DEF FamilyFound
<1>2. /\ pc[p] = "family" /\ pc'[p] = "reply" /\ asked'[p] = "request"
      /\ UNCHANGED <<walk, strays, call, shown>>
  BY DEF FamilyFound, TypeOK
<1>3. asked[p] = "nothing" /\ effect[p] = "none"
  BY <1>1, <1>2 DEF CallerInv, Telling, Expected
<1>4. Queue(p)' \subseteq Queue(p) /\ DoneIsLast(p)'
  BY <1>1, QueueTail DEF FamilyFound, CallerInv
<1>5. \A m \in Queue(p)' : m.seq # 2
  BY <1>2, <1>4 DEF CallerInv, Telling
<1>6. Closed(p)' /\ InStep(p)'
  BY <1>1, <1>2, <1>3 DEF Closed, InStep, CallerInv, Reading
<1>7. Telling(p)' /\ GetAnswer(p)'
  BY <1>2, <1>5 DEF Telling, GetAnswer, Answers, Expected
<1>8. Bracketed(p)'
  BY <1>1, <1>2, <1>5 DEF Bracketed, CallerInv, Looking, Reading, Answers
<1>9. Underway(p)' /\ Current(p)'
  BY <1>2, <1>5 DEF Underway, Dumping, Current, Answers
<1> QED
  BY <1>4, <1>6, <1>7, <1>8, <1>9 DEF CallerInv

(* An acknowledgement. *)
LEMMA AckedOK ==
  ASSUME TypeOK, NEW p \in Callers, CallerInv(p), Acked(p)
  PROVE  CallerInv(p)'
<1>1. /\ Reading(p) /\ inbox[p] # <<>> /\ Head(inbox[p]).type = "ack" /\ call[p] \in Calls
      /\ UNCHANGED <<store, layout, always, ever, effect, cut, shown>>
  BY ReceiveOK DEF Acked
<1>2. CASE call[p] \in Updates /\ End(p, "ok")
  <2>1. call[p] \notin Reads /\ call' = call
    BY <1>2, CallKinds DEF End, Calls
  <2>2. Current(p)'
    BY <2>1 DEF Current
  <2> QED
    BY <1>1, <1>2, <2>1, <2>2, EndOK
<1>3. CASE GoOn(p)
  BY <1>1, <1>3, GoOnOK DEF Answers
<1> QED
  BY <1>2, <1>3 DEF Acked

(* A refusal. *)
LEMMA RefusedOK ==
  ASSUME TypeOK, NEW p \in Callers, CallerInv(p), Refused(p)
  PROVE  CallerInv(p)'
<1>1. Reading(p) /\ End(p, "refused") /\ UNCHANGED <<store, layout, always, ever, effect, cut, shown>>
  BY ReceiveOK DEF Refused
<1>2. Current(p)'
  BY <1>1 DEF End, Current, TypeOK
<1> QED
  BY <1>1, <1>2, EndOK DEF CallerInv, Bracketed

(* The socket fails. *)
LEMMA RecvFailsOK ==
  ASSUME TypeOK, NEW p \in Callers, CallerInv(p), RecvFails(p)
  PROVE  CallerInv(p)'
<1>1. Reading(p) /\ End(p, "failed") /\ UNCHANGED <<store, layout, always, ever, effect, cut, shown>>
  BY DEF RecvFails
<1>2. Current(p)'
  BY <1>1 DEF End, Current, TypeOK
<1> QED
  BY <1>1, <1>2, EndOK DEF CallerInv, Bracketed

(* The end of a dump: nothing is on the socket or to be visited, so all    *)
(* that was in the map throughout has been given.                          *)
LEMMA DoneOK ==
  ASSUME TypeOK, NEW p \in Callers, CallerInv(p), Done(p)
  PROVE  CallerInv(p)'
<1> DEFINE how == IF pc[p] = "reply" /\ call[p].op # "get" THEN "ok" ELSE "failed"
<1>1. /\ Reading(p) /\ inbox[p] # <<>> /\ call[p] \in Calls
      /\ Head(inbox[p]) \in Queue(p)
      /\ pc[p] = "reply" => Answers(Head(inbox[p]), "done")
      /\ End(p, how) /\ UNCHANGED <<store, layout, always, ever, effect, cut, shown>>
  BY ReceiveOK DEF Done
<1>2. call' = call /\ pc'[p] = how
  BY <1>1 DEF End, TypeOK
<1>3. Current(p)'
  <2> SUFFICES ASSUME pc'[p] = "ok", call[p] \in Reads, p \notin cut, ~ TooShort(p)
               PROVE  always[p] \subseteq shown[p]
    BY <1>1, <1>2 DEF Current, TooShort
  <2>1. pc[p] = "reply" /\ call[p].op \in {"dump", "list"}
    BY <1>1, <1>2, CallKinds
  <2>2. Dumping(p)
    BY <1>1, <2>1 DEF Dumping
  <2>3. asked[p] = "nothing" /\ walk[p] = {}
    BY <1>1, <2>1 DEF CallerInv, Telling, InStep
  <2>4. \A m \in Queue(p) : ~ Answers(m, "data")
    BY <1>1, <2>1, QueueHead DEF CallerInv
  <2> QED
    BY <2>2, <2>3, <2>4 DEF CallerInv, Underway
<1>4. how \in {"ok", "refused", "failed"}
  OBVIOUS
<1> HIDE DEF how
<1> QED
  BY <1>1, <1>3, <1>4, EndOK DEF CallerInv, Bracketed

(* An item, or the answer to a get. *)
LEMMA DataOK ==
  ASSUME TypeOK, NEW p \in Callers, CallerInv(p), Data(p)
  PROVE  CallerInv(p)'
<1> DEFINE d == Head(inbox[p])
<1>1. /\ Reading(p) /\ inbox[p] # <<>> /\ call[p] \in Calls
      /\ d \in Queue(p) /\ Answers(d, "data") /\ pc[p] = "reply"
      /\ UNCHANGED <<store, layout, always, ever, effect, cut>>
  BY ReceiveOK DEF Data
<1>2. call[p] \in Reads
  BY <1>1 DEF CallerInv, Telling
<1>3. d.item \in ever[p] \cup {NoItem} /\ shown[p] \subseteq ever[p]
  BY <1>1, <1>2 DEF CallerInv, Bracketed
<1> HIDE DEF d
<1>4. shown'[p] = shown[p] \cup (IF TooShort(p) THEN {} ELSE {d.item} \ {NoItem})
  BY DEF Data, Contents, TypeOK, d
<1>5. shown'[p] \subseteq ever[p]
  BY <1>3, <1>4
<1>6. CASE call[p].op = "get" /\ End(p, IF TooShort(p) THEN "failed" ELSE "ok")
  <2>1. call' = call /\ pc'[p] = IF TooShort(p) THEN "failed" ELSE "ok"
    BY <1>6 DEF End, TypeOK
  <2>2. Current(p)'
    <3> SUFFICES ASSUME ~ TooShort(p), call[p].item \in always[p]
                 PROVE  call[p].item \in shown'[p]
      BY <1>1, <1>6, <2>1 DEF Current, TooShort
    <3>1. d.item = call[p].item
      BY <1>1, <1>6 DEF CallerInv, GetAnswer
    <3>2. call[p].item # NoItem
      BY <1>1, <1>6, CallKinds, NetlinkAssumption
    <3> QED
      BY <1>4, <3>1, <3>2
  <2>3. End(p, "failed") \/ End(p, "ok")
    BY <1>6
  <2> QED
    BY <1>1, <1>5, <2>2, <2>3, EndOK
<1>7. CASE call[p].op # "get" /\ GoOn(p)
  <2>1. UNCHANGED <<asked, walk, strays, call, pc>>
    BY <1>7 DEF GoOn
  <2>2. /\ Queue(p)' \subseteq Queue(p) /\ Queue(p) \subseteq Queue(p)' \cup {d}
        /\ DoneIsLast(p)'
    BY <1>1, <1>7, QueueTail DEF GoOn, CallerInv, d
  <2>3. /\ Reading(p)' /\ Looking(p)' = Looking(p) /\ Expected(p)' = Expected(p)
        /\ TooShort(p)' = TooShort(p)
    BY <1>1, <2>1 DEF Reading, Looking, Expected, TooShort
  <2>4. Closed(p)' /\ InStep(p)'
    BY <1>1, <2>1, <2>3 DEF Closed, InStep, CallerInv
  <2>5. Telling(p)' /\ GetAnswer(p)'
    BY <1>1, <1>7, <2>1, <2>2, <2>3 DEF Telling, GetAnswer, CallerInv, Answers
  <2>6. Bracketed(p)'
    BY <1>1, <1>5, <2>1, <2>2, <2>3 DEF Bracketed, CallerInv, Answers
  <2>7. Underway(p)'
    <3> SUFFICES ASSUME NEW x \in always[p], Dumping(p)', p \notin cut, ~ TooShort(p)
                 PROVE  \/ x \in shown'[p] \/ x \in walk[p]
                        \/ \E m \in Queue(p)' : Answers(m, "data") /\ m.item = x
      BY <1>1, <2>1, <2>3 DEF Underway, Answers
    <3>1. Dumping(p)
      BY <2>1, <2>2 DEF Dumping, Answers
    <3>2. \/ x \in shown[p] \/ x \in walk[p]
          \/ \E m \in Queue(p) : Answers(m, "data") /\ m.item = x
      BY <3>1 DEF CallerInv, Underway
    <3>3. x # NoItem
      BY NetlinkAssumption DEF TypeOK
    <3> QED
      BY <1>4, <2>2, <3>2, <3>3
  <2>8. Current(p)'
    BY <1>1, <2>1 DEF Current
  <2> QED
    BY <2>2, <2>4, <2>5, <2>6, <2>7, <2>8 DEF CallerInv
<1> QED
  BY <1>6, <1>7 DEF Data

(* The call returns. *)
LEMMA ReturnOK ==
  ASSUME TypeOK, NEW p \in Callers, CallerInv(p), Return(p)
  PROVE  CallerInv(p)'
<1>1. /\ pc'[p] = "idle" /\ call'[p] = NoCall /\ shown'[p] = {} /\ effect'[p] = "none"
      /\ always'[p] = {} /\ UNCHANGED <<asked, walk, inbox, strays>>
  BY DEF Return, TypeOK
<1>2. asked[p] = "nothing" /\ walk[p] = {} /\ inbox[p] = <<>> /\ strays[p] = 0
  BY DEF Return, CallerInv, Closed, Reading
<1>3. Queue(p)' = {} /\ DoneIsLast(p)'
  BY <1>1, <1>2, QueueEmpty
<1>4. Closed(p)' /\ InStep(p)'
  BY <1>1, <1>2 DEF Closed, InStep
<1>5. Telling(p)' /\ Bracketed(p)' /\ GetAnswer(p)' /\ Underway(p)' /\ Current(p)'
  BY <1>1, <1>3 DEF Telling, Bracketed, GetAnswer, Underway, Current, Looking, Reading
<1> QED
  BY <1>3, <1>4, <1>5 DEF CallerInv

(* A call begins. *)
LEMMA ConnectOK ==
  ASSUME TypeOK, NEW p \in Callers, NEW c \in Calls, CallerInv(p), Connect(p, c)
  PROVE  CallerInv(p)'
<1>1. /\ pc[p] = "idle" /\ pc'[p] = "family" /\ call'[p] = c /\ asked'[p] = "family"
      /\ always'[p] = (IF c \in Reads THEN store ELSE {})
      /\ ever'[p] = (IF c \in Reads THEN store ELSE {})
      /\ UNCHANGED <<store, layout, walk, effect, cut, shown, inbox, strays>>
  BY DEF Connect, TypeOK
<1>2. /\ walk[p] = {} /\ inbox[p] = <<>> /\ strays[p] = 0
      /\ effect[p] = "none" /\ shown[p] = {}
  BY <1>1 DEF CallerInv, Closed, Reading
<1>3. Queue(p)' = {} /\ DoneIsLast(p)'
  BY <1>1, <1>2, QueueEmpty
<1>4. Closed(p)' /\ InStep(p)'
  BY <1>1, <1>2 DEF Closed, InStep, Reading
<1>5. Telling(p)' /\ GetAnswer(p)' /\ Current(p)'
  BY <1>1, <1>3 DEF Telling, GetAnswer, Current
<1>6. Bracketed(p)'
  BY <1>1, <1>2, <1>3 DEF Bracketed, Looking, Reading
<1>7. Underway(p)'
  BY <1>1, <1>3 DEF Underway, Dumping
<1> QED
  BY <1>3, <1>4, <1>5, <1>6, <1>7 DEF CallerInv

(* A message comes that is not for the call. *)
LEMMA StrayOK ==
  ASSUME TypeOK, NEW p \in Callers, NEW seq \in 0..2, NEW type \in {"ack", "done"},
         CallerInv(p), Stray(p, seq, type)
  PROVE  CallerInv(p)'
<1> DEFINE m == [seq |-> seq, type |-> type, item |-> NoItem]
<1>1. m \in Message /\ m.seq = seq /\ m.type = type
  BY DEF Message
<1>2. inbox' = [inbox EXCEPT ![p] = Append(@, m)]
  BY DEF Stray
<1> HIDE DEF m
<1>3. Reading(p) /\ UNCHANGED <<kernel, caller>>
  BY DEF Stray
<1>4. UNCHANGED <<store, layout, asked, walk, always, ever, effect, cut, call, pc, shown>>
  BY <1>3 DEF kernel, caller
<1>5. /\ Reading(p)' /\ Looking(p)' = Looking(p) /\ Expected(p)' = Expected(p)
      /\ TooShort(p)' = TooShort(p)
  BY <1>3, <1>4 DEF Reading, Looking, Expected, TooShort
<1>6. ~ Answers(m, "data") /\ ~ Answers(m, "done")
  BY <1>1 DEF Stray, Answers
<1>7. Queue(p)' = Queue(p) \cup {m} /\ DoneIsLast(p)'
  BY <1>1, <1>2, <1>6, QueueAppend DEF CallerInv
<1>8. Closed(p)' /\ InStep(p)'
  BY <1>4, <1>5 DEF Closed, InStep, CallerInv, Reading
<1>9. call[p] \in Reads => call[p] \notin Updates
  BY CallKinds DEF TypeOK
<1>10. Telling(p)'
  <2> SUFFICES ASSUME NEW n \in Queue(p)'
               PROVE  /\ n.seq = 2 => pc[p] = "reply"
                      /\ n.seq = Expected(p) /\ n.type = "error" => effect[p] = "refused"
                      /\ n.seq = 1 /\ n.type = "data" /\ pc[p] = "family"
                           => asked[p] = "nothing" /\ effect[p] = "none"
                      /\ Answers(n, "ack") /\ call[p] \in Updates => effect[p] = "applied"
                      /\ Answers(n, "data") => call[p] \in Reads
                      /\ Answers(n, "done") => call[p] \in Reads /\ asked[p] = "nothing"
    BY <1>4, <1>5 DEF Telling, Answers
  <2>1. CASE n \in Queue(p)
    BY <2>1 DEF CallerInv, Telling
  <2>2. CASE n = m
    BY <1>1, <1>6, <1>9, <2>2 DEF Stray, Answers
  <2> QED
    BY <1>7, <2>1, <2>2
<1>11. Bracketed(p)' /\ GetAnswer(p)'
  BY <1>4, <1>5, <1>6, <1>7 DEF Bracketed, GetAnswer, CallerInv, Answers
<1>12. Dumping(p)' => Dumping(p)
  BY <1>4, <1>6, <1>7 DEF Dumping, Answers
<1>13. Underway(p)'
  BY <1>4, <1>5, <1>7, <1>12 DEF Underway, CallerInv, Answers
<1>14. Current(p)'
  BY <1>4, <1>5 DEF Current, CallerInv
<1> QED
  BY <1>7, <1>8, <1>10, <1>11, <1>13, <1>14 DEF CallerInv
-----------------------------------------------------------------------------
(* The kernel settles a request: nothing on the socket spoke of it yet. *)
LEMMA SettledOK ==
  ASSUME TypeOK, NEW p \in Callers, CallerInv(p), asked[p] # "nothing",
         NEW type \in {"ack", "error", "done", "data"}, NEW item \in Items \cup {NoItem},
         NEW what \in {"none", "applied", "refused"},
         Reply(p, type, item), Settled(p, what), UNCHANGED <<layout, caller, strays>>,
         walk'[p] = {}, what = "applied" => call[p] \in Updates /\ pc[p] = "reply",
         type = "error" => what = "refused",
         type = "ack" => what = "applied",
         type = "data" /\ pc[p] = "family" => what = "none",
         type \in {"data", "done"} /\ pc[p] = "reply" => call[p] \in Reads
  PROVE  /\ Closed(p)' /\ InStep(p)' /\ Telling(p)' /\ DoneIsLast(p)' /\ Current(p)'
         /\ \E m \in Message : /\ m.type = type /\ m.item = item
                               /\ m.seq = 2 <=> pc[p] = "reply"
                               /\ Queue(p)' = Queue(p) \cup {m}
         /\ UNCHANGED <<call, pc, shown>> /\ asked'[p] = "nothing"
         /\ \A n \in Queue(p) : ~ Answers(n, "done")
<1>1. /\ UNCHANGED <<call, pc, shown, strays>>
      /\ asked'[p] = "nothing" /\ effect'[p] = what
  BY DEF Settled, caller, TypeOK
<1>2. /\ Reading(p) /\ effect[p] = "none" /\ pc[p] \in {"family", "reply"}
      /\ Seqno(p) = Expected(p)
  BY DEF CallerInv, Closed, InStep, Reading, Seqno, Expected, TypeOK
<1>3. PICK m \in Message :
        /\ m.seq = Seqno(p) /\ m.type = type /\ m.item = item
        /\ inbox' = [inbox EXCEPT ![p] = Append(@, m)]
  BY ReplyQueue
<1>4. \A n \in Queue(p) : ~ Answers(n, "done")
  BY DEF CallerInv, Telling
<1>5. Queue(p)' = Queue(p) \cup {m} /\ DoneIsLast(p)'
  BY <1>3, <1>4, QueueAppend DEF CallerInv
<1>6. m.seq = 2 <=> pc[p] = "reply"
  BY <1>2, <1>3 DEF Expected
<1>7. Closed(p)' /\ InStep(p)' /\ Current(p)'
  BY <1>1, <1>2 DEF Closed, InStep, Current, Reading
<1>8. Expected(p)' = Expected(p)
  BY <1>1 DEF Expected
<1>9. Telling(p)'
  <2> SUFFICES ASSUME NEW n \in Queue(p)'
               PROVE  /\ n.seq = 2 => pc[p] = "reply"
                      /\ n.seq = Expected(p) /\ n.type = "error" => what = "refused"
                      /\ n.seq = 1 /\ n.type = "data" /\ pc[p] = "family" => what = "none"
                      /\ Answers(n, "ack") /\ call[p] \in Updates => what = "applied"
                      /\ Answers(n, "data") => call[p] \in Reads
                      /\ Answers(n, "done") => call[p] \in Reads
    BY <1>1, <1>8 DEF Telling, Answers
  <2>1. CASE n \in Queue(p)
    BY <1>2, <2>1 DEF CallerInv, Telling
  <2>2. CASE n = m
    BY <1>3, <1>6, <2>2 DEF Answers
  <2> QED
    BY <1>5, <2>1, <2>2
<1> QED
  BY <1>1, <1>3, <1>4, <1>5, <1>6, <1>7, <1>9

(* A reply that brings no item leaves what was read as it is. *)
LEMMA NoItemOK ==
  ASSUME NEW p \in Callers, CallerInv(p), Witnessed(p), UNCHANGED <<call, pc, shown>>,
         NEW m, Queue(p)' = Queue(p) \cup {m}, ~ Answers(m, "data")
  PROVE  Bracketed(p)' /\ GetAnswer(p)'
<1>1. Looking(p)' = Looking(p)
  BY DEF Looking, Reading
<1>2. Bracketed(p)'
  BY <1>1 DEF Bracketed, CallerInv, Witnessed, Answers
<1>3. GetAnswer(p)'
  BY DEF GetAnswer, CallerInv, Witnessed, Answers
<1> QED
  BY <1>2, <1>3

(* The replies that do not read the map: the family's number, a refusal,   *)
(* nothing.                                                                *)
LEMMA OtherReplies ==
  ASSUME TypeOK, NEW p \in Callers, CallerInv(p),
         NameFamily(p) \/ Refuse(p) \/ AnswerNothing(p)
  PROVE  CallerInv(p)'
<1>1. /\ asked[p] \in {"family", "request"}
      /\ UNCHANGED <<store, layout, walk, always, ever, cut, caller, strays>>
  BY DEF NameFamily, Refuse, AnswerNothing
<1>2. walk'[p] = {} /\ Witnessed(p) /\ call[p] \in Calls \cup {NoCall}
  BY <1>1 DEF CallerInv, InStep, Witnessed, TypeOK
<1>3. PICK t \in {"error", "done", "data"}, what \in {"none", "refused"} :
        /\ Reply(p, t, NoItem) /\ Settled(p, what)
        /\ t = "error" => what = "refused"
        /\ t = "data" => asked[p] = "family" /\ what = "none"
        /\ t = "done" => asked[p] = "family" \/ call[p].op = "get"
  BY DEF NameFamily, Refuse, AnswerNothing
<1>4. t \in {"data", "done"} /\ pc[p] = "reply" => t = "done" /\ call[p].op = "get"
  BY <1>1, <1>3 DEF CallerInv, InStep
<1>5. t \in {"data", "done"} /\ pc[p] = "reply" => call[p] \in Reads
  BY <1>2, <1>4, CallKinds
<1>6. /\ Closed(p)' /\ InStep(p)' /\ Telling(p)' /\ DoneIsLast(p)' /\ Current(p)'
      /\ \E m \in Message : /\ m.type = t /\ m.item = NoItem
                            /\ m.seq = 2 <=> pc[p] = "reply"
                            /\ Queue(p)' = Queue(p) \cup {m}
      /\ UNCHANGED <<call, pc, shown>> /\ asked'[p] = "nothing"
      /\ \A n \in Queue(p) : ~ Answers(n, "done")
  BY <1>1, <1>2, <1>3, <1>5, SettledOK
<1>7. PICK m \in Message : /\ m.type = t
                           /\ m.seq = 2 <=> pc[p] = "reply"
                           /\ Queue(p)' = Queue(p) \cup {m}
  BY <1>6
<1>8. ~ Answers(m, "data") /\ (Answers(m, "done") => call[p].op = "get")
  BY <1>4, <1>7 DEF Answers
<1>9. Bracketed(p)' /\ GetAnswer(p)'
  BY <1>2, <1>6, <1>7, <1>8, NoItemOK
<1>10. ~ Dumping(p)'
  BY <1>6, <1>7, <1>8 DEF Dumping, Answers
<1> QED
  BY <1>6, <1>9, <1>10 DEF CallerInv, Underway

(* The answer to a get is what is in the map at that moment. *)
LEMMA AnswerGetOK ==
  ASSUME TypeOK, NEW p \in Callers, CallerInv(p), AnswerGet(p)
  PROVE  CallerInv(p)'
<1> DEFINE item == IF call[p].item \in store THEN call[p].item ELSE NoItem
<1>1. /\ asked[p] = "request" /\ call[p].op = "get" /\ Reply(p, "data", item)
      /\ Settled(p, "none")
      /\ UNCHANGED <<store, layout, walk, always, ever, cut, caller, strays>>
  BY DEF AnswerGet
<1>2. walk'[p] = {} /\ pc[p] = "reply" /\ call[p] \in Reads /\ Looking(p)
  BY <1>1, CallKinds DEF CallerInv, InStep, TypeOK, Looking, Reading
<1>3. always[p] \subseteq store /\ store \subseteq ever[p]
  BY <1>2 DEF CallerInv, Bracketed
<1>4. item \in Items \cup {NoItem}
  BY DEF TypeOK
<1>5. /\ item \in ever[p] \cup {NoItem}
      /\ call[p].item \in always[p] => item = call[p].item
  BY <1>3
<1> HIDE DEF item
<1>6. /\ Closed(p)' /\ InStep(p)' /\ Telling(p)' /\ DoneIsLast(p)' /\ Current(p)'
      /\ \E m \in Message : /\ m.type = "data" /\ m.item = item
                            /\ m.seq = 2 <=> pc[p] = "reply"
                            /\ Queue(p)' = Queue(p) \cup {m}
      /\ UNCHANGED <<call, pc, shown>> /\ asked'[p] = "nothing"
      /\ \A n \in Queue(p) : ~ Answers(n, "done")
  BY <1>1, <1>2, <1>4, SettledOK
<1>7. PICK m \in Message : m.item = item /\ Queue(p)' = Queue(p) \cup {m}
  BY <1>6
<1>8. Looking(p)' = Looking(p)
  BY <1>6 DEF Looking, Reading
<1>9. Bracketed(p)'
  BY <1>1, <1>5, <1>6, <1>7, <1>8 DEF CallerInv, Bracketed, Answers
<1>10. GetAnswer(p)'
  BY <1>1, <1>5, <1>6, <1>7 DEF CallerInv, GetAnswer, Answers
<1>11. Underway(p)'
  BY <1>1, <1>6 DEF Underway, Dumping
<1> QED
  BY <1>6, <1>9, <1>10, <1>11 DEF CallerInv

(* An update is made. *)
LEMMA ApplyOK ==
  ASSUME TypeOK, NEW p \in Callers, CallerInv(p), Apply(p)
  PROVE  CallerInv(p)'
<1>1. /\ asked[p] = "request" /\ call[p].op \in {"add", "del"}
      /\ Reply(p, "ack", NoItem) /\ Settled(p, "applied")
      /\ UNCHANGED <<layout, walk, cut, caller, strays>>
  BY DEF Apply
<1>2. walk'[p] = {} /\ pc[p] = "reply" /\ call[p] \in Updates
  BY <1>1, CallKinds DEF CallerInv, InStep, TypeOK
<1>3. \E items : Store(items)
  BY DEF Apply
<1>4. Witnessed(p)
  BY <1>3, StoreWitnessed
<1>5. /\ Closed(p)' /\ InStep(p)' /\ Telling(p)' /\ DoneIsLast(p)' /\ Current(p)'
      /\ \E m \in Message : /\ m.type = "ack" /\ m.item = NoItem
                            /\ m.seq = 2 <=> pc[p] = "reply"
                            /\ Queue(p)' = Queue(p) \cup {m}
      /\ UNCHANGED <<call, pc, shown>> /\ asked'[p] = "nothing"
      /\ \A n \in Queue(p) : ~ Answers(n, "done")
  BY <1>1, <1>2, SettledOK
<1>6. PICK m \in Message : m.type = "ack" /\ Queue(p)' = Queue(p) \cup {m}
  BY <1>5
<1>7. Bracketed(p)' /\ GetAnswer(p)'
  BY <1>4, <1>5, <1>6, NoItemOK DEF Answers
<1>8. Underway(p)'
  BY <1>1, <1>5 DEF Underway, Dumping
<1> QED
  BY <1>5, <1>7, <1>8 DEF CallerInv

(* The kernel ends a dump, having visited everything or having given up. *)
LEMMA DumpEndsOK ==
  ASSUME TypeOK, NEW p \in Callers, CallerInv(p), FinishDump(p) \/ AbandonDump(p)
  PROVE  CallerInv(p)'
<1>1. /\ asked[p] = "dump" /\ walk'[p] = {} /\ Reply(p, "done", NoItem) /\ Settled(p, "none")
      /\ UNCHANGED <<store, layout, always, ever, caller, strays>>
      /\ (walk[p] = {} /\ cut' = cut) \/ p \in cut'
  BY DEF FinishDump, AbandonDump, TypeOK
<1>2. pc[p] = "reply" /\ call[p].op \in {"dump", "list"} /\ call[p] \in Reads
  BY <1>1, CallKinds DEF CallerInv, InStep, TypeOK
<1>3. /\ Closed(p)' /\ InStep(p)' /\ Telling(p)' /\ DoneIsLast(p)' /\ Current(p)'
      /\ \E m \in Message : /\ m.type = "done" /\ m.item = NoItem
                            /\ m.seq = 2 <=> pc[p] = "reply"
                            /\ Queue(p)' = Queue(p) \cup {m}
      /\ UNCHANGED <<call, pc, shown>> /\ asked'[p] = "nothing"
      /\ \A n \in Queue(p) : ~ Answers(n, "done")
  BY <1>1, <1>2, SettledOK
<1>4. PICK m \in Message : m.type = "done" /\ Queue(p)' = Queue(p) \cup {m}
  BY <1>3
<1>5. Witnessed(p) /\ TooShort(p)' = TooShort(p)
  BY <1>1, <1>3 DEF Witnessed, TooShort
<1>6. Bracketed(p)' /\ GetAnswer(p)'
  BY <1>3, <1>4, <1>5, NoItemOK DEF Answers
<1>7. Underway(p)'
  <2>1. Dumping(p)
    BY <1>1, <1>2 DEF Dumping
  <2>2. CASE p \in cut'
    BY <2>2 DEF Underway
  <2>3. CASE walk[p] = {} /\ cut' = cut
    BY <1>1, <1>3, <1>4, <1>5, <2>1, <2>3 DEF CallerInv, Underway, Answers
  <2> QED
    BY <1>1, <2>2, <2>3
<1> QED
  BY <1>3, <1>6, <1>7 DEF CallerInv

(* A dump begins with everything to visit. *)
LEMMA StartDumpOK ==
  ASSUME TypeOK, NEW p \in Callers, CallerInv(p), StartDump(p)
  PROVE  CallerInv(p)'
<1>1. /\ asked[p] = "request" /\ call[p].op \in {"dump", "list"}
      /\ asked'[p] = "dump" /\ walk'[p] = Items
      /\ UNCHANGED <<store, layout, always, ever, effect, cut, call, pc, shown, inbox, strays>>
  BY DEF StartDump, caller, TypeOK
<1>2. pc[p] = "reply" /\ \A m \in Queue(p) : ~ Answers(m, "done")
  BY <1>1 DEF CallerInv, InStep, Telling
<1>3. /\ Queue(p)' = Queue(p) /\ Reading(p)' /\ Looking(p)' = Looking(p)
      /\ Expected(p)' = Expected(p)
  BY <1>1, <1>2 DEF Queue, Reading, Looking, Expected
<1>4. Closed(p)' /\ InStep(p)' /\ Current(p)'
  BY <1>1, <1>2, <1>3 DEF CallerInv, Closed, InStep, Current, Reading
<1>5. Telling(p)'
  BY <1>1, <1>2, <1>3 DEF CallerInv, Telling, Answers
<1>6. DoneIsLast(p)'
  BY <1>1 DEF CallerInv, DoneIsLast, Answers
<1>7. Bracketed(p)' /\ GetAnswer(p)'
  BY <1>1, <1>3 DEF CallerInv, Bracketed, GetAnswer, Answers
<1>8. Underway(p)'
  BY <1>1 DEF Underway, TypeOK
<1> QED
  BY <1>4, <1>5, <1>6, <1>7, <1>8 DEF CallerInv

(* A dump visits an item: if it is not in the map now, it was not there    *)
(* all the time.                                                           *)
LEMMA VisitOK ==
  ASSUME TypeOK, NEW p \in Callers, NEW x \in Items, CallerInv(p), Visit(p, x)
  PROVE  CallerInv(p)'
<1>1. /\ asked[p] = "dump" /\ walk'[p] = walk[p] \ {x}
      /\ UNCHANGED <<store, layout, asked, always, ever, effect, cut, call, pc, shown, strays>>
  BY DEF Visit, caller, TypeOK
<1>2. /\ pc[p] = "reply" /\ call[p].op \in {"dump", "list"} /\ effect[p] = "none"
      /\ call[p] \in Reads /\ Looking(p)
  BY <1>1, CallKinds DEF CallerInv, InStep, TypeOK, Looking, Reading
<1>3. always[p] \subseteq store /\ store \subseteq ever[p]
  BY <1>2 DEF CallerInv, Bracketed
<1>4. /\ Reading(p)' /\ Looking(p)' /\ Expected(p)' = Expected(p) /\ Expected(p) = 2
      /\ TooShort(p)' = TooShort(p)
  BY <1>1, <1>2 DEF Reading, Looking, Expected, TooShort
<1>5. Closed(p)' /\ InStep(p)' /\ Current(p)'
  BY <1>1, <1>2, <1>4 DEF CallerInv, Closed, InStep, Current, Reading
<1>6. Dumping(p)
  BY <1>1, <1>2 DEF Dumping
<1>7. CASE x \in store /\ Reply(p, "data", x)
  <2>1. PICK m \in Message :
          /\ m.seq = 2 /\ m.type = "data" /\ m.item = x
          /\ inbox' = [inbox EXCEPT ![p] = Append(@, m)]
    BY <1>1, <1>7, ReplyQueue DEF Seqno
  <2>2. \A n \in Queue(p) : ~ Answers(n, "done")
    BY <1>1 DEF CallerInv, Telling
  <2>3. Queue(p)' = Queue(p) \cup {m} /\ DoneIsLast(p)'
    BY <2>1, <2>2, QueueAppend DEF CallerInv
  <2>4. Telling(p)'
    BY <1>1, <1>2, <1>4, <2>1, <2>3 DEF CallerInv, Telling, Answers
  <2>5. Bracketed(p)' /\ GetAnswer(p)'
    BY <1>1, <1>2, <1>3, <1>7, <2>1, <2>3 DEF CallerInv, Bracketed, GetAnswer, Answers
  <2>6. Underway(p)'
    BY <1>1, <1>4, <1>6, <2>1, <2>3 DEF CallerInv, Underway, Answers
  <2> QED
    BY <1>5, <2>3, <2>4, <2>5, <2>6 DEF CallerInv
<1>8. CASE x \notin store /\ UNCHANGED inbox
  <2>1. Queue(p)' = Queue(p)
    BY <1>8 DEF Queue
  <2>2. Telling(p)' /\ DoneIsLast(p)'
    BY <1>1, <1>4, <1>8, <2>1 DEF CallerInv, Telling, DoneIsLast, Answers
  <2>3. Bracketed(p)' /\ GetAnswer(p)'
    BY <1>1, <1>2, <1>3, <2>1 DEF CallerInv, Bracketed, GetAnswer, Answers
  <2>4. Underway(p)'
    BY <1>1, <1>3, <1>4, <1>6, <1>8, <2>1 DEF CallerInv, Underway, Answers
  <2> QED
    BY <1>5, <2>2, <2>3, <2>4 DEF CallerInv
<1> QED
  BY <1>7, <1>8 DEF Visit
-----------------------------------------------------------------------------
(* A step for the call of p. *)
StepOf(p) ==
  \/ \E c \in Calls : Connect(p, c)
  \/ KernelStep(p) \/ CallerStep(p) \/ RecvFails(p)
  \/ \E seq \in 0..2, type \in {"ack", "done"} : Stray(p, seq, type)

(* The steps of a call preserve what is known of it. *)
LEMMA OwnStepOK ==
  ASSUME TypeOK, NEW p \in Callers, CallerInv(p), StepOf(p)
  PROVE  CallerInv(p)'
<1>1. CASE KernelStep(p)
  BY <1>1, OtherReplies, AnswerGetOK, ApplyOK, DumpEndsOK, StartDumpOK, VisitOK DEF KernelStep
<1>2. CASE CallerStep(p)
  BY <1>2, SkipOK, FamilyFoundOK, AckedOK, RefusedOK, DoneOK, DataOK, ReturnOK DEF CallerStep
<1> QED
  BY <1>1, <1>2, ConnectOK, RecvFailsOK, StrayOK DEF StepOf

(* It leaves the other calls alone. *)
LEMMA StepApart ==
  ASSUME TypeOK, NEW p \in Callers, StepOf(p), NEW q \in Callers, q # p
  PROVE  Untouched(q) /\ Witnessed(q)
<1>1. CASE KernelStep(p)
  <2>1. CASE NameFamily(p) \/ Refuse(p) \/ AnswerGet(p) \/ AnswerNothing(p) \/ FinishDump(p)
    BY <2>1 DEF NameFamily, Refuse, AnswerGet, AnswerNothing, FinishDump,
                Reply, Settled, caller, TypeOK, Untouched, Witnessed
  <2>2. CASE Apply(p)
    <3>1. Witnessed(q)
      BY <2>2, StoreWitnessed DEF Apply
    <3> QED
      BY <2>2, <3>1 DEF Apply, Reply, Settled, caller, TypeOK, Untouched
  <2>3. CASE StartDump(p)
    BY <2>3 DEF StartDump, caller, TypeOK, Untouched, Witnessed
  <2>4. CASE \E x \in Items : Visit(p, x)
    BY <2>4 DEF Visit, Reply, caller, TypeOK, Untouched, Witnessed
  <2>5. CASE AbandonDump(p)
    BY <2>5 DEF AbandonDump, Reply, Settled, caller, TypeOK, Untouched, Witnessed
  <2> QED
    BY <1>1, <2>1, <2>2, <2>3, <2>4, <2>5 DEF KernelStep
<1>2. CASE CallerStep(p) \/ RecvFails(p)
  <2>1. CASE Return(p)
    BY <2>1 DEF Return, TypeOK, Untouched, Witnessed
  <2>2. CASE FamilyFound(p)
    BY <2>2 DEF FamilyFound, Receive, TypeOK, Untouched, Witnessed
  <2>3. CASE Skip(p) \/ Acked(p) \/ Refused(p) \/ Done(p) \/ Data(p) \/ RecvFails(p)
    <3>1. UNCHANGED <<store, layout, always, ever, effect, cut>> /\ shown'[q] = shown[q]
      BY <2>3 DEF Skip, Acked, Refused, Done, Data, RecvFails, Receive, TypeOK
    <3>2. GoOn(p) \/ End(p, "ok") \/ End(p, "refused") \/ End(p, "failed")
      BY <2>3 DEF Skip, Acked, Refused, Done, Data, RecvFails
    <3>3. /\ asked'[q] = asked[q] /\ walk'[q] = walk[q] /\ inbox'[q] = inbox[q]
          /\ strays'[q] = strays[q] /\ call'[q] = call[q] /\ pc'[q] = pc[q]
      BY <3>2 DEF GoOn, End, TypeOK
    <3> QED
      BY <3>1, <3>3 DEF Untouched, Witnessed
  <2> QED
    BY <1>2, <2>1, <2>2, <2>3 DEF CallerStep
<1>3. CASE \E c \in Calls : Connect(p, c)
  BY <1>3 DEF Connect, TypeOK, Untouched, Witnessed
<1>4. CASE \E seq \in 0..2, type \in {"ack", "done"} : Stray(p, seq, type)
  BY <1>4 DEF Stray, kernel, caller, TypeOK, Untouched, Witnessed
<1> QED
  BY <1>1, <1>2, <1>3, <1>4 DEF StepOf

(* Before any call the invariant holds. *)
LEMMA InitOK == Init => IInv
<1> SUFFICES ASSUME Init PROVE IInv
  OBVIOUS
<1>1. <<>> \in Seq(Message) /\ 0 \in 0..StrayBound
  BY NetlinkAssumption
<1>2. TypeOK
  BY <1>1 DEF Init, TypeOK
<1>3. ASSUME NEW p \in Callers PROVE CallerInv(p)
  <2>1. /\ pc[p] = "idle" /\ call[p] = NoCall /\ asked[p] = "nothing" /\ walk[p] = {}
        /\ inbox[p] = <<>> /\ shown[p] = {} /\ strays[p] = 0 /\ effect[p] = "none"
        /\ always[p] = {}
    BY DEF Init
  <2>2. Queue(p) = {} /\ DoneIsLast(p)
    BY <2>1 DEF Queue, DoneIsLast
  <2> QED
    BY <2>1, <2>2 DEF CallerInv, Closed, InStep, Telling, Bracketed, GetAnswer, Underway,
                      Current, Looking, Reading
<1> QED
  BY <1>2, <1>3 DEF IInv

(* Every step preserves it: of the call, and of the others. *)
LEMMA StepOK == IInv /\ [Next]_vars => IInv'
<1> SUFFICES ASSUME IInv, [Next]_vars PROVE IInv'
  OBVIOUS
<1>1. TypeOK /\ TypeOK'
  BY TypeStep DEF IInv
<1>2. ASSUME NEW p \in Callers, StepOf(p), NEW q \in Callers PROVE CallerInv(q)'
  BY <1>1, <1>2, OwnStepOK, StepApart, OthersOK DEF IInv
<1>3. ASSUME UNCHANGED vars, NEW q \in Callers PROVE CallerInv(q)'
  BY <1>3, OthersOK DEF vars, kernel, caller, Untouched, Witnessed, IInv
<1> QED
  BY <1>1, <1>2, <1>3 DEF Next, StepOf, IInv

(* The inductive invariant holds throughout. *)
THEOREM Invariance == Spec => []IInv
BY InitOK, StepOK, PTL DEF Spec

(* Every variable keeps its type: a process has a call exactly when it is  *)
(* in one.                                                                 *)
THEOREM TypeCorrect == Spec => []TypeOK
<1>1. IInv => TypeOK
  BY DEF IInv
<1> QED
  BY <1>1, Invariance, PTL

(* What a get, dump or list returns was in the map during the call, and    *)
(* nothing is missing that was there throughout, for any number of         *)
(* processes that change the map meanwhile.                                *)
THEOREM ReadsAreCurrent == Spec => []ReadIsCurrent
<1>1. IInv => ReadIsCurrent
  <2> SUFFICES ASSUME IInv, NEW p \in Callers, pc[p] = "ok", call[p] \in Reads
               PROVE  /\ shown[p] \subseteq ever[p]
                      /\ \/ p \in cut \/ TooShort(p)
                         \/ always[p] \cap (IF call[p].op = "get" THEN {call[p].item} ELSE Items)
                              \subseteq shown[p]
    BY DEF ReadIsCurrent
  <2> QED
    BY DEF IInv, CallerInv, Bracketed, Current
<1> QED
  BY <1>1, Invariance, PTL
-----------------------------------------------------------------------------
(* How far the call of p has come, to the one who made it. *)
Stage(p) ==
  IF Reading(p) THEN IF effect[p] = "applied" THEN "applied" ELSE "open" ELSE pc[p]

Stages == [p \in Callers |-> Stage(p)]

(* A step for p moves the stage of p alone. *)
LEMMA StagesApart ==
  ASSUME TypeOK, NEW p \in Callers, StepOf(p)
  PROVE  Stages' = [Stages EXCEPT ![p] = Stage(p)']
<1>1. ASSUME NEW q \in Callers, q # p PROVE Stage(q)' = Stage(q)
  <2>1. pc'[q] = pc[q] /\ effect'[q] = effect[q]
    BY <1>1, StepApart DEF Untouched
  <2> QED
    BY <2>1 DEF Stage, Reading
<1> QED
  BY <1>1 DEF Stages

(* What the caller of p sees of a step: nothing, *)
Hidden(p) == UNCHANGED <<store, call>> /\ Stage(p)' = Stage(p)

(* or the end of the call. *)
Ends(p, how) ==
  UNCHANGED <<store, call>> /\ Stage(p) \in {"open", "applied"} /\ Stage(p)' = how

(* Whatever the kernel does but to apply an update stays hidden. *)
LEMMA KernelHidden ==
  ASSUME IInv, NEW p \in Callers, KernelStep(p), ~ Apply(p)
  PROVE  Hidden(p)
<1>1. TypeOK /\ InStep(p) /\ Closed(p)
  BY DEF IInv, CallerInv
<1>2. UNCHANGED <<store, call, pc>> /\ asked[p] # "nothing" /\ effect'[p] # "applied"
  <2>1. CASE NameFamily(p) \/ Refuse(p) \/ AnswerGet(p) \/ AnswerNothing(p)
               \/ FinishDump(p) \/ AbandonDump(p)
    BY <1>1, <2>1 DEF NameFamily, Refuse, AnswerGet, AnswerNothing, FinishDump, AbandonDump,
                      Settled, caller, TypeOK
  <2>2. CASE StartDump(p) \/ \E x \in Items : Visit(p, x)
    BY <1>1, <2>2 DEF StartDump, Visit, caller, InStep
  <2> QED
    BY <2>1, <2>2 DEF KernelStep
<1>3. effect[p] # "applied"
  BY <1>1, <1>2 DEF InStep
<1> QED
  BY <1>2, <1>3 DEF Hidden, Stage, Reading

(* A call ends as its result says. *)
LEMMA EndShown ==
  ASSUME TypeOK, NEW p \in Callers, Reading(p), NEW how \in {"ok", "refused", "failed"},
         End(p, how), UNCHANGED store
  PROVE  Ends(p, how)
<1>1. pc'[p] = how /\ UNCHANGED call
  BY DEF End, TypeOK
<1> QED
  BY <1>1 DEF Ends, Stage, Reading

(* Reading on is hidden from who sees whole calls only. *)
LEMMA GoOnHidden ==
  ASSUME NEW p \in Callers, GoOn(p), UNCHANGED <<store, effect>>
  PROVE  Hidden(p)
BY DEF GoOn, Hidden, Stage, Reading

(* Success, refusal and failure mean what they say. *)
LEMMA CallerShown ==
  ASSUME IInv, NEW p \in Callers, CallerStep(p) \/ RecvFails(p), ~ Return(p)
  PROVE  \/ Hidden(p)
         \/ Ends(p, "ok") /\ (Stage(p) = "applied" \/ (Stage(p) = "open" /\ call[p] \in Reads))
         \/ Ends(p, "refused") /\ Stage(p) = "open"
         \/ Ends(p, "failed")
<1>1. TypeOK /\ CallerInv(p)
  BY DEF IInv
<1>2. CASE Skip(p)
  BY <1>2, GoOnHidden DEF Skip
<1>3. CASE FamilyFound(p)
  <2>1. pc[p] = "family" /\ pc'[p] = "reply" /\ UNCHANGED <<store, call, effect>>
    BY <1>1, <1>3 DEF FamilyFound, Receive, TypeOK
  <2> QED
    BY <2>1 DEF Hidden, Stage, Reading
<1>4. CASE Acked(p)
  <2>1. /\ Reading(p) /\ UNCHANGED <<store, effect>> /\ Head(inbox[p]) \in Queue(p)
        /\ pc[p] = "reply" => Answers(Head(inbox[p]), "ack")
    BY <1>1, <1>4, ReceiveOK DEF Acked
  <2>2. CASE pc[p] = "reply" /\ call[p] \in Updates /\ End(p, "ok")
    <3>1. Stage(p) = "applied"
      BY <1>1, <2>1, <2>2 DEF CallerInv, Telling, Stage
    <3> QED
      BY <1>1, <2>1, <2>2, <3>1, EndShown
  <2>3. CASE GoOn(p)
    BY <2>1, <2>3, GoOnHidden
  <2> QED
    BY <1>4, <2>2, <2>3 DEF Acked
<1>5. CASE Refused(p)
  <2>1. /\ Reading(p) /\ UNCHANGED <<store, effect>> /\ Head(inbox[p]) \in Queue(p)
        /\ Head(inbox[p]).type = "error" /\ Head(inbox[p]).seq = Expected(p)
        /\ End(p, "refused")
    BY <1>1, <1>5, ReceiveOK DEF Refused
  <2>2. Stage(p) = "open"
    BY <1>1, <2>1 DEF CallerInv, Telling, Stage
  <2> QED
    BY <1>1, <2>1, <2>2, EndShown
<1>6. ASSUME call[p] \in Reads PROVE Reading(p) => Stage(p) = "open"
  <2>1. call[p] \notin Updates
    BY <1>1, <1>6, CallKinds DEF TypeOK
  <2> QED
    BY <1>1, <2>1 DEF CallerInv, InStep, Stage
<1>7. CASE Done(p)
  <2>1. /\ Reading(p) /\ UNCHANGED <<store, effect>> /\ Head(inbox[p]) \in Queue(p)
        /\ pc[p] = "reply" => Answers(Head(inbox[p]), "done")
        /\ (pc[p] = "reply" /\ End(p, "ok")) \/ End(p, "failed")
    BY <1>1, <1>7, ReceiveOK DEF Done
  <2>2. pc[p] = "reply" => call[p] \in Reads
    BY <1>1, <2>1 DEF CallerInv, Telling
  <2> QED
    BY <1>1, <1>6, <2>1, <2>2, EndShown
<1>8. CASE Data(p)
  <2>1. /\ Reading(p) /\ UNCHANGED <<store, effect>> /\ Head(inbox[p]) \in Queue(p)
        /\ Answers(Head(inbox[p]), "data")
        /\ End(p, "ok") \/ End(p, "failed") \/ GoOn(p)
    BY <1>1, <1>8, ReceiveOK DEF Data
  <2>2. call[p] \in Reads
    BY <1>1, <2>1 DEF CallerInv, Telling
  <2> QED
    BY <1>1, <1>6, <2>1, <2>2, EndShown, GoOnHidden
<1>9. CASE RecvFails(p)
  BY <1>1, <1>9, EndShown DEF RecvFails
<1> QED
  BY <1>2, <1>3, <1>4, <1>5, <1>7, <1>8, <1>9 DEF CallerStep

(* Each step for p is one step of an atomic call, or hidden. *)
LEMMA AtomicStep ==
  ASSUME IInv, NEW p \in Callers, StepOf(p)
  PROVE  [Atomic!AtomicNext]_<<store, call, Stages>>
<1>1. TypeOK /\ CallerInv(p)
  BY DEF IInv
<1>2. Stages' = [Stages EXCEPT ![p] = Stage(p)'] /\ Stages[p] = Stage(p)
  BY <1>1, StagesApart DEF Stages
<1>3. CASE Hidden(p)
  <2>1. Stages' = Stages
    BY <1>2, <1>3 DEF Hidden, Stages
  <2> QED
    BY <1>3, <2>1 DEF Hidden
<1>4. ASSUME NEW c \in Calls, Connect(p, c) PROVE Atomic!Begin(p, c)
  <2>1. /\ pc[p] = "idle" /\ pc'[p] = "family" /\ UNCHANGED <<store, effect>>
        /\ call' = [call EXCEPT ![p] = c]
    BY <1>1, <1>4 DEF Connect, TypeOK
  <2>2. effect[p] = "none"
    BY <1>1, <2>1 DEF CallerInv, Closed
  <2>3. Stage(p) = "idle" /\ Stage(p)' = "open"
    BY <2>1, <2>2 DEF Stage, Reading
  <2> QED
    BY <1>2, <2>1, <2>3 DEF Atomic!Begin, Stages, Stage
<1>5. CASE Apply(p)
  <2>1. /\ asked[p] = "request" /\ UNCHANGED <<call, pc>> /\ effect'[p] = "applied"
    BY <1>1, <1>5 DEF Apply, Settled, caller, TypeOK
  <2>2. Stage(p) = "open" /\ Stage(p)' = "applied"
    BY <1>1, <2>1 DEF CallerInv, InStep, Stage, Reading
  <2>3. \/ call[p].op = "add" /\ call[p].item \notin store /\ store' = store \cup {call[p].item}
        \/ call[p].op = "del" /\ call[p].item \in store /\ store' = store \ {call[p].item}
    BY <1>5 DEF Apply, Store
  <2>4. Atomic!Effect(p)
    BY <1>2, <2>1, <2>2, <2>3 DEF Atomic!Effect, Stages, Stage
  <2> QED
    BY <2>4 DEF Atomic!AtomicNext
<1>6. CASE Ends(p, "ok") /\ (Stage(p) = "applied" \/ (Stage(p) = "open" /\ call[p] \in Reads))
  <2>1. Atomic!Succeed(p)
    BY <1>2, <1>6 DEF Atomic!Succeed, Atomic!Reads, Reads, Ends, Stages, Stage
  <2> QED
    BY <2>1 DEF Atomic!AtomicNext
<1>7. CASE Ends(p, "refused") /\ Stage(p) = "open"
  <2>1. Atomic!Refuse(p)
    BY <1>2, <1>7 DEF Atomic!Refuse, Ends, Stages, Stage
  <2> QED
    BY <2>1 DEF Atomic!AtomicNext
<1>8. CASE Ends(p, "failed")
  <2>1. Atomic!Fail(p)
    BY <1>2, <1>8 DEF Atomic!Fail, Ends, Stages, Stage
  <2> QED
    BY <2>1 DEF Atomic!AtomicNext
<1>9. CASE Return(p)
  <2>1. /\ pc[p] \in {"ok", "refused", "failed"} /\ pc'[p] = "idle" /\ UNCHANGED store
        /\ call' = [call EXCEPT ![p] = NoCall]
    BY <1>1, <1>9 DEF Return, TypeOK
  <2>2. Stage(p) \in {"ok", "refused", "failed"} /\ Stage(p)' = "idle"
    BY <2>1 DEF Stage, Reading
  <2>3. Atomic!Return(p)
    BY <1>2, <2>1, <2>2 DEF Atomic!Return, Atomic!NoCall, NoCall, Stages, Stage
  <2> QED
    BY <2>3 DEF Atomic!AtomicNext
<1>10. CASE \E c \in Calls : Connect(p, c)
  BY <1>4, <1>10 DEF Atomic!AtomicNext, Atomic!Calls, Atomic!Updates, Atomic!Reads,
                     Calls, Updates, Reads
<1>11. CASE \E seq \in 0..2, type \in {"ack", "done"} : Stray(p, seq, type)
  <2>1. Hidden(p)
    BY <1>11 DEF Stray, kernel, caller, Hidden, Stage, Reading
  <2> QED
    BY <1>3, <2>1
<1>12. CASE KernelStep(p)
  BY <1>3, <1>5, <1>12, KernelHidden
<1>13. CASE CallerStep(p) \/ RecvFails(p)
  BY <1>3, <1>6, <1>7, <1>8, <1>9, <1>13, CallerShown
<1> QED
  BY <1>10, <1>11, <1>12, <1>13 DEF StepOf

(* The messages of a netlink call add up to one atomic step: success of an *)
(* update means that the kernel has made it, a refusal that it has not,    *)
(* whatever else is on the socket and whatever other processes do.         *)
THEOREM CallsImplementAtomic == Spec => CallsAreAtomic
<1>1. Init => Atomic!AtomicInit
  BY DEF Init, Atomic!AtomicInit, Atomic!NoCall, NoCall, Reading
<1>2. IInv /\ [Next]_vars => [Atomic!AtomicNext]_<<store, call, Stages>>
  <2> SUFFICES ASSUME IInv, [Next]_vars
               PROVE  [Atomic!AtomicNext]_<<store, call, Stages>>
    OBVIOUS
  <2>1. CASE \E p \in Callers : StepOf(p)
    BY <2>1, AtomicStep
  <2>2. CASE UNCHANGED vars
    BY <2>2 DEF vars, kernel, caller, Stages, Stage, Reading
  <2> QED
    BY <2>1, <2>2 DEF Next, StepOf
<1> QED
  BY <1>1, <1>2, Invariance, PTL DEF Spec, CallsAreAtomic, Atomic!AtomicSpec, Stages, Stage
=============================================================================
