------------------------- MODULE ConcurrencyProofs -------------------------
(***************************************************************************)
(* What the threads of the server rely on: the listening loop with the     *)
(* mutex of the output, and the latch and the mutex that tasks wait for.   *)
(*                                                                         *)
(* The loop.  Safety of ServerLoop for every number of workers and frames, *)
(* every set of messages and headings and every size of payload and        *)
(* buffer: types and the lock (TypeOK), whole frames in the output         *)
(* (OutputFramed), one answer to a request (AnsweredOnce), and a loop that *)
(* stays in step with the client (PulledInStep).  None of the last three   *)
(* is inductive.  OutputFramed needs to know how far the thread that holds *)
(* the lock has come, AnsweredOnce where an answer may be before it is     *)
(* written and that the payloads in the input are in order and behind      *)
(* those that were pulled, and PulledInStep where in the input each frame  *)
(* begins.                                                                 *)
(*                                                                         *)
(* The primitives.  AsyncMutex is a fair mutex, and AsyncLatch resumes     *)
(* everybody whose predecessors in the queue outlive the walk over it, for *)
(* any number of tasks and of threads that count down.  The queues are     *)
(* linked through the tasks in them.  Linked says that the links lead      *)
(* through a sequence of tasks, none of them twice; push and pop add to it *)
(* and take from it at its ends.  The invariant gives both primitives such *)
(* a sequence of the tasks that wait for them, and the thread that walks   *)
(* along the waiters of the latch the rest of it, but for those that a     *)
(* freed waiter has cut off.                                               *)
(***************************************************************************)
EXTENDS ServerLoop, AsyncPrimitives, SequenceTheorems, FiniteSetTheorems, WellFoundedInduction, TLAPS

-----------------------------------------------------------------------------
Unit == Line \cup {Blank} \cup [name : {"payload"}, frame : Nat, part : Nat]

Writing == {"header", "payload", "flush"}
Active == [at : {"lock"} \cup Writing, what : Outgoing]

LoopTypes ==
    /\ sent \in Seq(Frame) /\ Len(sent) <= MaxFrames
    /\ input \in Seq(Unit)
    /\ closed \in BOOLEAN /\ stop \in BOOLEAN
    /\ pc \in {"loop", "headers", "payload", "push", "ended"}
    /\ length \in Nat
    /\ pc = "payload" => length > 0
    /\ pulled \in Seq(Seq(Unit))

PushTypes ==
    /\ tasks \subseteq Outgoing
    /\ push \in [Threads -> {Idle} \cup Active]
    /\ pc # "push" => push[Main] = Idle
    /\ mutex \in Threads \cup {Nobody}
    /\ \A t \in Threads : push[t].at \in Writing <=> mutex = t
    /\ output \in Seq([part : {"header", "payload"}, what : Outgoing])
    /\ failed \in BOOLEAN /\ alive \in BOOLEAN

Types == LoopTypes /\ PushTypes

\* A thread between the two parts of a frame has just written the header of
\* it; when none is, the output ends with a payload.
OutputInv ==
    ~failed =>
        /\ \A i \in 1 .. Len(output) :
              /\ output[i].part = (IF i % 2 = 1 THEN "header" ELSE "payload")
              /\ i % 2 = 0 => output[i].what = output[i - 1].what
        /\ \A t \in Threads : push[t].at = "payload" =>
              Len(output) % 2 = 1 /\ output[Len(output)].what = push[t].what
        /\ (\A t \in Threads : push[t].at # "payload") => Len(output) % 2 = 0

-----------------------------------------------------------------------------
IsPayload(u) == u.name = "payload"

Before(u, v) == u.frame < v.frame \/ (u.frame = v.frame /\ u.part < v.part)

\* Every payload is in the input once, in the order in which it was sent,
\* and behind those that were pulled whole.
InputInv ==
    /\ \A a \in 1 .. Len(input) : IsPayload(input[a]) =>
          input[a].frame \in 1 .. Len(sent) /\ input[a].part \in 1 .. PayloadSize
    /\ \A a, b \in 1 .. Len(input) :
          a < b /\ IsPayload(input[a]) /\ IsPayload(input[b]) => Before(input[a], input[b])
    /\ \A k \in 1 .. Len(pulled), i \in Ids : pulled[k] = Payload(i) =>
          /\ i <= Len(sent)
          /\ \A a \in 1 .. Len(input) : IsPayload(input[a]) => input[a].frame > i

IsPulled(i) == \E k \in 1 .. Len(pulled) : pulled[k] = Payload(i)

\* What is to be written came from a payload that was pulled whole.
AnswersArePulled ==
    /\ \A w \in tasks : IsPulled(w.of)
    /\ \A t \in Threads : push[t] # Idle => IsPulled(push[t].what.of)
    /\ \A i \in 1 .. Len(output) : IsPulled(output[i].what.of)

Headers == {i \in 1 .. Len(output) : output[i].part = "header"}
HeaderAhead(t) == push[t].at \in {"lock", "header"}

\* An answer is in one place: in the queue, with one thread, or written.
AnswersInOnePlace ==
    /\ \A t \in Threads : push[t] # Idle => push[t].what \notin tasks
    /\ \A s, t \in Threads :
          push[s] # Idle /\ push[t] # Idle /\ push[s].what = push[t].what => s = t
    /\ \A i \in Headers :
          /\ output[i].what \notin tasks
          /\ \A t \in Threads : HeaderAhead(t) => push[t].what # output[i].what
          /\ \A j \in Headers : output[i].what = output[j].what => i = j

AnswerInv == AnswersArePulled /\ AnswersInOnePlace

-----------------------------------------------------------------------------
Size(i) == Len(sent[i].heading) + 1 + PayloadSize
Next1 == Len(pulled) + 1

\* start[i] is where the i-th frame begins in the input, or would begin if
\* what has been read of it were still there.
LaidOut(start) ==
    /\ start \in [Next1 .. Len(sent) + 1 -> Int]
    /\ start[Len(sent) + 1] = Len(input) + 1
    /\ \A i \in Next1 .. Len(sent) :
          /\ start[i + 1] = start[i] + Size(i)
          /\ start[i + 1] <= Len(input) + 1
          /\ \A k \in 1 .. Size(i) : start[i] + k - 1 >= 1 =>
                input[start[i] + k - 1] = FrameUnits(sent[i], i)[k]

LastLength == [name |-> "length", value |-> PayloadSize]

\* The k-th line declares the payload's size and no later one another size.
Settles(heading, k) ==
    /\ heading[k] = LastLength
    /\ \A j \in 1 .. Len(heading) : heading[j].name = "length" =>
          heading[j].value >= 0 /\ (j > k => heading[j] = LastLength)

\* How far the loop is in the frame it reads.
Position(start) ==
    LET lines == 1 - start[Next1] IN
    CASE pc \in {"loop", "push"} -> start[Next1] = 1
      [] pc = "headers" ->
            /\ lines >= 0
            /\ Next1 <= Len(sent) =>
                  /\ lines <= Len(sent[Next1].heading)
                  /\ \A k \in 1 .. lines :
                        Settles(sent[Next1].heading, k) => length = PayloadSize
      [] pc = "payload" ->
            /\ Next1 <= Len(sent)
            /\ lines = Len(sent[Next1].heading) + 1
            /\ length = PayloadSize
      [] OTHER -> TRUE

AllDeclared == \A i \in 1 .. Len(sent) : WellDeclared(sent[i])

InStep ==
    AllDeclared =>
        /\ pulled = [i \in 1 .. Len(pulled) |-> Payload(i)]
        /\ Len(pulled) <= Len(sent)
        /\ pc # "ended" => \E start : LaidOut(start) /\ Position(start)

IInv == Types /\ OutputInv /\ InputInv /\ AnswerInv /\ InStep

-----------------------------------------------------------------------------
(* Lines, frames and fragments.                                             *)

LEMMA PayloadUnits ==
  ASSUME NEW i \in Nat
  PROVE  /\ Payload(i) \in Seq(Unit)
         /\ Len(Payload(i)) = PayloadSize
         /\ \A k \in 1 .. PayloadSize :
               /\ Payload(i)[k] \in Unit
               /\ Payload(i)[k] = [name |-> "payload", frame |-> i, part |-> k]
  <1>1. \A k \in 1 .. PayloadSize :
           Payload(i)[k] = [name |-> "payload", frame |-> i, part |-> k]
    BY DEF Payload
  <1>2. \A k \in 1 .. PayloadSize : Payload(i)[k] \in Unit
    <2>1. \A k \in Nat : [name |-> "payload", frame |-> i, part |-> k] \in Unit
      BY DEF Unit
    <2>2. 1 .. PayloadSize \subseteq Nat
      BY FrameAssumption
    <2>3. QED
      BY <1>1, <2>1, <2>2
  <1>3. Payload(i) \in [1 .. PayloadSize -> Unit]
    BY <1>2 DEF Payload
  <1>4. QED
    BY <1>1, <1>2, <1>3, FrameAssumption

\* A frame is its heading, a blank line and its payload.
LEMMA FrameParts ==
  ASSUME NEW frame \in Frame, NEW i \in Nat
  PROVE  LET lines == Len(frame.heading) IN
         /\ lines \in Nat
         /\ FrameUnits(frame, i) \in Seq(Unit)
         /\ Len(FrameUnits(frame, i)) = lines + 1 + PayloadSize
         /\ \A k \in 1 .. lines :
               FrameUnits(frame, i)[k] = frame.heading[k] /\ frame.heading[k] \in Line
         /\ FrameUnits(frame, i)[lines + 1] = Blank
         /\ \A k \in 1 .. PayloadSize :
               FrameUnits(frame, i)[lines + 1 + k] = [name |-> "payload", frame |-> i, part |-> k]
  <1> DEFINE h == frame.heading
             p == Payload(i)
             b == <<Blank>>
  <1>1. h \in Seq(Line) /\ h \in Seq(Unit) /\ Len(h) \in Nat
    <2>1. h \in Seq(Line)
      BY FrameAssumption DEF Frame
    <2>2. QED
      BY <2>1, SeqMonotonic DEF Unit
  <1>2. b \in Seq(Unit) /\ Len(b) = 1 /\ b[1] = Blank
    BY DEF Unit
  <1>3. p \in Seq(Unit) /\ Len(p) = PayloadSize
    BY PayloadUnits
  <1>4. /\ h \o b \in Seq(Unit)
        /\ Len(h \o b) = Len(h) + 1
        /\ \A k \in 1 .. Len(h) + 1 : (h \o b)[k] = IF k <= Len(h) THEN h[k] ELSE Blank
    BY <1>1, <1>2, ConcatProperties
  <1>5. /\ h \o b \o p \in Seq(Unit)
        /\ Len(h \o b \o p) = Len(h) + 1 + PayloadSize
        /\ \A k \in 1 .. Len(h) + 1 + PayloadSize : (h \o b \o p)[k] =
              IF k <= Len(h) + 1 THEN (h \o b)[k] ELSE p[k - (Len(h) + 1)]
    <2> HIDE DEF h, b, p
    <2>1. /\ (h \o b) \o p \in Seq(Unit)
          /\ Len((h \o b) \o p) = Len(h \o b) + Len(p)
          /\ \A k \in 1 .. Len(h \o b) + Len(p) : ((h \o b) \o p)[k] =
                IF k <= Len(h \o b) THEN (h \o b)[k] ELSE p[k - Len(h \o b)]
      BY <1>3, <1>4, ConcatProperties
    <2>2. QED
      BY <1>1, <1>3, <1>4, <2>1
  <1>6. FrameUnits(frame, i) = h \o b \o p
    BY DEF FrameUnits
  <1>7. \A k \in 1 .. Len(h) : FrameUnits(frame, i)[k] = h[k] /\ h[k] \in Line
    BY <1>1, <1>4, <1>5, <1>6, FrameAssumption
  <1>8. FrameUnits(frame, i)[Len(h) + 1] = Blank
    BY <1>1, <1>4, <1>5, <1>6, FrameAssumption
  <1>9. \A k \in 1 .. PayloadSize :
           FrameUnits(frame, i)[Len(h) + 1 + k] = [name |-> "payload", frame |-> i, part |-> k]
    BY <1>1, <1>5, <1>6, PayloadUnits, FrameAssumption
  <1>10. QED
    BY <1>1, <1>5, <1>6, <1>7, <1>8, <1>9

\* Only the units of a payload have the name of one.
LEMMA LineNames ==
  /\ \A u \in Line : ~IsPayload(u) /\ u.name # "blank"
  /\ ~IsPayload(Blank)
  /\ \A u \in Unit : IsPayload(u) => u.frame \in Nat /\ u.part \in Nat
  /\ \A u \in Unit : u.name = "length" => u.value \in Int
  BY DEF Line, Unit, Blank, IsPayload

\* The first line end is one, and no earlier unit is.
LEMMA FirstLineEndExists ==
  ASSUME input \in Seq(Unit), LineEnds # {}
  PROVE  FirstLineEnd \in LineEnds /\ \A j \in LineEnds : FirstLineEnd <= j
  <1>1. LineEnds \subseteq Nat
    BY DEF LineEnds
  <1>2. \E k \in LineEnds : \A j \in LineEnds : k <= j
    <2>1. PICK k \in LineEnds : \A j \in LineEnds : ~(<<j, k>> \in OpToRel(<, Nat))
      BY <1>1, WFMin, NatLessThanWellFounded
    <2>2. \A j, m \in Nat : j < m => <<j, m>> \in OpToRel(<, Nat)
      BY DEF OpToRel
    <2>3. k \in Nat /\ \A j \in LineEnds : j \in Nat /\ ~(j < k)
      BY <1>1, <2>1, <2>2
    <2>4. QED
      BY <2>3
  <1>3. QED
    BY <1>2 DEF FirstLineEnd

-----------------------------------------------------------------------------
(* What the steps of the loop do to the input.                              *)

LEMMA Suffix ==
  ASSUME NEW s \in Seq(Unit), NEW k \in 0 .. Len(s)
  PROVE  LET rest == SubSeq(s, k + 1, Len(s)) IN
         /\ rest \in Seq(Unit)
         /\ Len(rest) = Len(s) - k
         /\ \A a \in 1 .. Len(rest) : rest[a] = s[a + k]
  <1>1. Len(s) \in Nat /\ \A i \in k + 1 .. Len(s) : s[i] \in Unit
    BY ElementOfSeq
  <1>2. QED
    BY <1>1, SubSeqProperties

\* The next frame is put behind the input.
LEMMA SentFrame ==
  ASSUME LoopTypes, NEW frame \in Frame, Len(sent) < MaxFrames,
         sent' = Append(sent, frame), input' = input \o FrameUnits(frame, Len(sent) + 1)
  PROVE  LET i == Len(sent) + 1 IN
         /\ i \in Ids
         /\ sent' \in Seq(Frame) /\ Len(sent') = i /\ sent'[i] = frame
         /\ \A j \in 1 .. Len(sent) : sent'[j] = sent[j]
         /\ input' \in Seq(Unit)
         /\ Len(input') = Len(input) + Len(frame.heading) + 1 + PayloadSize
         /\ \A a \in 1 .. Len(input) : input'[a] = input[a]
         /\ \A k \in 1 .. Len(frame.heading) + 1 + PayloadSize :
               input'[Len(input) + k] = FrameUnits(frame, i)[k]
  <1> DEFINE i == Len(sent) + 1
             units == FrameUnits(frame, i)
  <1>1. sent \in Seq(Frame) /\ input \in Seq(Unit) /\ i \in Ids /\ i \in Nat
    BY FrameAssumption DEF LoopTypes, Ids
  <1>2. /\ units \in Seq(Unit) /\ Len(frame.heading) \in Nat
        /\ Len(units) = Len(frame.heading) + 1 + PayloadSize
    BY <1>1, FrameParts
  <1>3. /\ sent' \in Seq(Frame) /\ Len(sent') = i /\ sent'[i] = frame
        /\ \A j \in 1 .. Len(sent) : sent'[j] = sent[j]
    BY <1>1, AppendProperties
  <1> HIDE DEF units
  <1>4. /\ input' \in Seq(Unit)
        /\ Len(input') = Len(input) + Len(units)
        /\ \A a \in 1 .. Len(input) + Len(units) :
              input'[a] = IF a <= Len(input) THEN input[a] ELSE units[a - Len(input)]
    BY <1>1, <1>2, ConcatProperties DEF units
  <1>5. \A a \in 1 .. Len(input) : input'[a] = input[a]
    BY <1>1, <1>2, <1>4, FrameAssumption
  <1>6. ASSUME NEW k \in 1 .. Len(units)
        PROVE  input'[Len(input) + k] = units[k]
    <2> DEFINE a == Len(input) + k
    <2>1. Len(input) \in Nat /\ Len(units) \in Nat
      BY <1>1, <1>2, FrameAssumption
    <2>2. a \in 1 .. Len(input) + Len(units) /\ ~(a <= Len(input)) /\ a - Len(input) = k
      BY <2>1
    <2> HIDE DEF a
    <2>3. input'[a] = IF a <= Len(input) THEN input[a] ELSE units[a - Len(input)]
      BY <1>4, <2>2
    <2>4. QED
      BY <2>2, <2>3 DEF a
  <1>7. /\ Len(input') = Len(input) + Len(frame.heading) + 1 + PayloadSize
        /\ \A k \in 1 .. Len(frame.heading) + 1 + PayloadSize : input'[Len(input) + k] = units[k]
    <2>1. /\ Len(input) \in Nat
          /\ Len(input) + Len(units) = Len(input) + Len(frame.heading) + 1 + PayloadSize
      BY <1>1, <1>2, FrameAssumption
    <2>2. QED
      BY <1>2, <1>4, <1>6, <2>1
  <1>8. QED
    BY <1>1, <1>3, <1>4, <1>5, <1>7 DEF units

\* A line is read with everything before its end.
LEMMA ReadLine ==
  ASSUME LoopTypes, ReadHeader
  PROVE  /\ FirstLineEnd \in 1 .. Len(input)
         /\ ~IsPayload(input[1]) => FirstLineEnd = 1
         /\ input' \in Seq(Unit)
         /\ Len(input') = Len(input) - FirstLineEnd
         /\ \A a \in 1 .. Len(input') : input'[a] = input[a + FirstLineEnd]
         /\ pc' \in {"headers", "payload", "ended"}
         /\ length' \in Nat /\ (pc' = "payload" => length' > 0)
  <1>1. FirstLineEnd \in LineEnds /\ \A j \in LineEnds : FirstLineEnd <= j
    BY FirstLineEndExists DEF LoopTypes, ReadHeader
  <1>2. Len(input) \in Nat /\ FirstLineEnd \in 1 .. Len(input)
    BY <1>1 DEF LineEnds, LoopTypes
  <1>3. ~IsPayload(input[1]) => FirstLineEnd = 1
    BY <1>1, <1>2 DEF LineEnds, IsPayload
  <1>4. /\ input' \in Seq(Unit)
        /\ Len(input') = Len(input) - FirstLineEnd
        /\ \A a \in 1 .. Len(input') : input'[a] = input[a + FirstLineEnd]
    BY <1>2, Suffix DEF ReadHeader, LoopTypes
  <1>5. LineRead \in Unit \/ LineRead = [name |-> "unknown"]
    BY <1>2, ElementOfSeq DEF LineRead, LoopTypes
  <1>6. LineRead.name = "length" => LineRead.value \in Int
    BY <1>5, LineNames
  <1>7. /\ HeaderEffect(LineRead).pc \in {"headers", "payload", "ended"}
        /\ HeaderEffect(LineRead).length \in Nat
        /\ HeaderEffect(LineRead).pc = "payload" => HeaderEffect(LineRead).length > 0
    BY <1>6 DEF HeaderEffect, LoopTypes
  <1>8. QED
    BY <1>2, <1>3, <1>4, <1>7 DEF ReadHeader

\* The payload that is pulled leaves the input; it is answered, by one task
\* or by the loop's thread, only if it is a whole one.
LEMMA Pull ==
  ASSUME Types, PullPayload
  PROVE  /\ Fragment \in Seq(Unit) /\ Len(Fragment) = length
         /\ length \in 1 .. Len(input)
         /\ \A a \in 1 .. length : Fragment[a] = input[a]
         /\ input' \in Seq(Unit)
         /\ Len(input') = Len(input) - length
         /\ \A a \in 1 .. Len(input') : input'[a] = input[a + length]
         /\ pulled' = Append(pulled, Fragment)
         /\ push[Main] = Idle /\ stop' \in BOOLEAN
         /\ \/ pc' = "loop" /\ UNCHANGED <<push, tasks>>
            \/ \E i \in 1 .. Len(sent), w \in Outgoing :
                  /\ Fragment = Payload(i) /\ w.of = i
                  /\ \/ /\ pc' = "push" /\ tasks' = tasks
                        /\ push' = [push EXCEPT ![Main] = [at |-> "lock", what |-> w]]
                     \/ pc' = "loop" /\ push' = push /\ tasks' = tasks \cup {w}
  <1> DEFINE m == Message(Fragment)
             n == IF Fragment[1].name = "payload" THEN Fragment[1].frame ELSE 0
  <1>1. Len(input) \in Nat /\ length \in 1 .. Len(input) /\ input \in Seq(Unit)
    BY DEF Types, LoopTypes, PullPayload, ReadCompletes
  <1>2. /\ Fragment \in Seq(Unit) /\ Len(Fragment) = length
        /\ \A a \in 1 .. length : Fragment[a] = input[a]
    <2>1. \A a \in 1 .. length : input[a] \in Unit
      BY <1>1, ElementOfSeq
    <2>2. QED
      BY <1>1, <2>1, SubSeqProperties DEF Fragment
  <1>3. /\ input' \in Seq(Unit)
        /\ Len(input') = Len(input) - length
        /\ \A a \in 1 .. Len(input') : input'[a] = input[a + length]
    <2>1. input' = SubSeq(input, length + 1, Len(input))
      BY <1>2 DEF PullPayload
    <2>2. length \in 0 .. Len(input)
      BY <1>1
    <2>3. QED
      BY <1>1, <2>1, <2>2, Suffix
  <1>4. pc = "payload" /\ push[Main] = Idle
    BY DEF Types, PushTypes, PullPayload
  <1>5. Handle(m, n)
    BY DEF PullPayload
  <1> HIDE DEF m, n
  <1>6. stop' \in BOOLEAN
    BY <1>5 DEF Handle, Types, LoopTypes
  <1>7. CASE ~Dispatches(m)
    BY <1>1, <1>2, <1>3, <1>4, <1>5, <1>6, <1>7 DEF Handle, PullPayload
  <1>8. CASE Dispatches(m)
    <2>1. PICK i \in 1 .. Len(sent) : Fragment = Payload(i)
      BY <1>8 DEF m, Message, Dispatches
    <2>2. i \in Nat /\ i \in Ids /\ Len(sent) \in Nat
      BY <2>1, FrameAssumption DEF Types, LoopTypes, Ids
    <2>3. n = i
      <3>1. Payload(i)[1] = [name |-> "payload", frame |-> i, part |-> 1]
        BY <2>2, PayloadUnits, FrameAssumption
      <3>2. QED
        BY <2>1, <3>1 DEF n
    <2>4. /\ Response(i) \in Outgoing /\ Response(i).of = i
          /\ Notification(i) \in Outgoing /\ Notification(i).of = i
      BY <2>2 DEF Response, Notification, Outgoing
    <2>5. CASE m.method \in SyncRequests
      <3>1. /\ pc' = "push" /\ tasks' = tasks
            /\ push' = [push EXCEPT ![Main] = [at |-> "lock", what |-> Response(i)]]
        BY <1>5, <1>8, <2>3, <2>5 DEF Handle, StartPush, SyncRequests, Queries
      <3>2. QED
        BY <1>1, <1>2, <1>3, <1>4, <1>6, <2>1, <2>4, <3>1 DEF PullPayload
    <2>6. CASE m.method \notin SyncRequests
      <3>1. /\ pc' = "loop" /\ push' = push
            /\ tasks' = tasks \/ \E w \in {Response(i), Notification(i)} : tasks' = tasks \cup {w}
        BY <1>5, <1>8, <2>3, <2>6 DEF Handle, Enqueue
      <3>2. QED
        BY <1>1, <1>2, <1>3, <1>4, <1>6, <2>1, <2>4, <3>1 DEF PullPayload
    <2>7. QED
      BY <2>5, <2>6
  <1>9. QED
    BY <1>7, <1>8

-----------------------------------------------------------------------------
(* Types and the lock.                                                      *)

LEMMA LoopTypesFrame ==
  ASSUME LoopTypes, UNCHANGED <<sent, input, length, pulled>>, closed' \in BOOLEAN, stop' \in BOOLEAN,
         pc' \in {"loop", "headers", "push", "ended"} \/ UNCHANGED pc
  PROVE  LoopTypes'
  BY DEF LoopTypes

LEMMA PushTypesFrame ==
  ASSUME PushTypes, UNCHANGED <<tasks, push, mutex, output, failed>>, alive' \in BOOLEAN,
         pc' # "push" => pc # "push" \/ push[Main] = Idle
  PROVE  PushTypes'
  BY DEF PushTypes

\* A push goes on as its kind of part says.
LEMMA PushChanges ==
  ASSUME PushTypes, NEW t \in Threads, NEW v \in {Idle} \cup Active,
         push' = [push EXCEPT ![t] = v]
  PROVE  /\ push' \in [Threads -> {Idle} \cup Active]
         /\ push'[t] = v
         /\ \A s \in Threads : s # t => push'[s] = push[s]
  BY DEF PushTypes

\* What PushMessage does, step by step.
LEMMA PushStep ==
  ASSUME Types, NEW t \in Threads, Pushing(t)
  PROVE  /\ push[t] \in Active
         /\ \/ /\ push[t].at = "lock" /\ mutex = Nobody
               /\ push' = [push EXCEPT ![t] = [at |-> "header", what |-> push[t].what]]
               /\ mutex' = t /\ UNCHANGED <<output, failed, stop>>
            \/ /\ push[t].at = "header" /\ mutex = t
               /\ push' = [push EXCEPT ![t] = [at |-> "payload", what |-> push[t].what]]
               /\ output' = Append(output, [part |-> "header", what |-> push[t].what])
               /\ UNCHANGED <<mutex, failed, stop>>
            \/ /\ push[t].at = "payload" /\ mutex = t
               /\ push' = [push EXCEPT ![t] = [at |-> "flush", what |-> push[t].what]]
               /\ output' = Append(output, [part |-> "payload", what |-> push[t].what])
               /\ UNCHANGED <<mutex, failed, stop>>
            \/ /\ push[t].at = "flush" /\ mutex = t
               /\ push' = [push EXCEPT ![t] = Idle]
               /\ mutex' = Nobody /\ UNCHANGED <<output, failed, stop>>
            \/ /\ mutex = t
               /\ push' = [push EXCEPT ![t] = Idle]
               /\ mutex' = Nobody /\ failed' = TRUE /\ stop' = TRUE /\ UNCHANGED output
         /\ UNCHANGED <<inputVars, loopVars, tasks, alive>>
  <1>1. push \in [Threads -> {Idle} \cup Active] /\ (push[t].at \in Writing <=> mutex = t)
    BY DEF Types, PushTypes
  <1>2. push[t] \in Active
    BY <1>1 DEF Pushing, LockOutput, WriteHeader, WritePayload, WritePart, Flush, PushFails, Idle
  <1>3. ASSUME NEW where \in {"header", "payload", "flush"}
        PROVE  [push EXCEPT ![t].at = where] = [push EXCEPT ![t] = [at |-> where, what |-> push[t].what]]
    <2>1. [push[t] EXCEPT !.at = where] = [at |-> where, what |-> push[t].what]
      BY <1>2 DEF Active
    <2>2. [push EXCEPT ![t].at = where] = [push EXCEPT ![t] = [push[t] EXCEPT !.at = where]]
      OBVIOUS
    <2>3. QED
      BY <2>1, <2>2
  <1>4. CASE LockOutput(t)
    BY <1>1, <1>2, <1>3, <1>4 DEF LockOutput, MutexFree
  <1>5. CASE WriteHeader(t)
    BY <1>1, <1>2, <1>3, <1>5 DEF WriteHeader, WritePart, Writing
  <1>6. CASE WritePayload(t)
    BY <1>1, <1>2, <1>3, <1>6 DEF WritePayload, WritePart, Writing
  <1>7. CASE Flush(t)
    BY <1>1, <1>2, <1>7 DEF Flush, Writing
  <1>8. CASE PushFails(t)
    BY <1>1, <1>2, <1>8 DEF PushFails, MutexAfterFailure, Writing, loopVars
  <1>9. QED
    BY <1>4, <1>5, <1>6, <1>7, <1>8 DEF Pushing

\* What every step of it has in common.
LEMMA PushKinds ==
  ASSUME Types, NEW t \in Threads, Pushing(t)
  PROVE  /\ \E v \in {Idle} \cup Active :
               push' = [push EXCEPT ![t] = v] /\ (v.at \in Writing <=> mutex' = t)
         /\ \/ mutex' = mutex
            \/ mutex = Nobody /\ mutex' = t
            \/ mutex = t /\ mutex' = Nobody
         /\ failed' \in BOOLEAN
         /\ output' = output \/ \E part \in {"header", "payload"} :
               output' = Append(output, [part |-> part, what |-> push[t].what])
  <1>1. /\ push[t] \in Active /\ failed \in BOOLEAN /\ t # Nobody
        /\ push[t].at \in Writing <=> mutex = t
    BY PushStep, MainIsNoWorker DEF Types, PushTypes, Threads
  <1>2. \A where \in {"header", "payload", "flush"} :
           /\ [at |-> where, what |-> push[t].what] \in Active
           /\ [at |-> where, what |-> push[t].what].at \in Writing
    BY <1>1 DEF Active, Writing
  <1>3. Idle.at \notin Writing
    BY DEF Idle, Writing
  <1>4. CASE /\ push[t].at = "lock" /\ mutex = Nobody
             /\ push' = [push EXCEPT ![t] = [at |-> "header", what |-> push[t].what]]
             /\ mutex' = t /\ UNCHANGED <<output, failed, stop>>
    BY <1>1, <1>2, <1>4
  <1>5. CASE \E part \in {"header", "payload"}, where \in {"payload", "flush"} :
             /\ push' = [push EXCEPT ![t] = [at |-> where, what |-> push[t].what]]
             /\ output' = Append(output, [part |-> part, what |-> push[t].what])
             /\ mutex = t /\ UNCHANGED <<mutex, failed, stop>>
    BY <1>1, <1>2, <1>5
  <1>6. CASE /\ push' = [push EXCEPT ![t] = Idle]
             /\ mutex = t /\ mutex' = Nobody
             /\ failed' \in {failed, TRUE} /\ UNCHANGED output
    BY <1>1, <1>3, <1>6
  <1>7. QED
    BY <1>4, <1>5, <1>6, PushStep

LEMMA TypesStep ==
  ASSUME Types, [Next]_vars
  PROVE  Types'
  <1> USE DEF Types
  <1>1. CASE ClientSends
    <2>1. PICK h \in Headings, m \in Messages :
             /\ sent' = Append(sent, [heading |-> h, message |-> m])
             /\ input' = input \o FrameUnits([heading |-> h, message |-> m], Len(sent) + 1)
      BY <1>1 DEF ClientSends
    <2>2. [heading |-> h, message |-> m] \in Frame
      BY DEF Frame
    <2>3. Len(sent) < MaxFrames /\ UNCHANGED <<closed, loopVars, stop, tasks, pushVars, alive>>
      BY <1>1 DEF ClientSends
    <2>4. sent' \in Seq(Frame) /\ Len(sent') = Len(sent) + 1 /\ input' \in Seq(Unit)
      BY <2>1, <2>2, <2>3, SentFrame
    <2>5. LoopTypes'
      BY <2>3, <2>4, FrameAssumption DEF LoopTypes, loopVars
    <2>6. PushTypes'
      BY <2>3, PushTypesFrame DEF PushTypes, pushVars, loopVars
    <2>7. QED
      BY <2>5, <2>6
  <1>2. CASE ClientCloses
    BY <1>2, LoopTypesFrame, PushTypesFrame DEF ClientCloses, loopVars, pushVars, LoopTypes, PushTypes
  <1>3. CASE CheckStop
    <2>1. LoopTypes'
      BY <1>3 DEF CheckStop, LoopTypes, inputVars
    <2>2. PushTypes'
      BY <1>3, PushTypesFrame DEF CheckStop, pushVars, PushTypes
    <2>3. QED
      BY <2>1, <2>2
  <1>4. CASE ReadHeader
    <2>1. LoopTypes'
      BY <1>4, ReadLine DEF ReadHeader, LoopTypes
    <2>2. PushTypes'
      BY <1>4, PushTypesFrame DEF ReadHeader, pushVars, PushTypes
    <2>3. QED
      BY <2>1, <2>2
  <1>5. CASE HeaderAtEof
    <2>1. LoopTypes'
      BY <1>5 DEF HeaderAtEof, LoopTypes
    <2>2. PushTypes'
      BY <1>5, PushTypesFrame DEF HeaderAtEof, pushVars, PushTypes
    <2>3. QED
      BY <2>1, <2>2
  <1>6. CASE PullPayload
    <2>1. /\ UNCHANGED <<sent, closed, length, mutex, output, failed, alive>>
          /\ pc = "payload"
      BY <1>6 DEF PullPayload
    <2>2. LoopTypes'
      <3>1. /\ Fragment \in Seq(Unit) /\ pulled' = Append(pulled, Fragment)
            /\ input' \in Seq(Unit) /\ stop' \in BOOLEAN
        BY <1>6, Pull
      <3>2. pc' \in {"loop", "push"}
        BY <1>6, Pull
      <3>3. QED
        BY <2>1, <3>1, <3>2, AppendProperties DEF LoopTypes
    <2>3. PushTypes'
      <3>1. CASE pc' = "loop" /\ UNCHANGED <<push, tasks>>
        BY <2>1, <3>1, PushTypesFrame DEF PushTypes
      <3>2. CASE \E w \in Outgoing : /\ pc' = "push" /\ tasks' = tasks
                                     /\ push' = [push EXCEPT ![Main] = [at |-> "lock", what |-> w]]
        <4>1. PICK w \in Outgoing : push' = [push EXCEPT ![Main] = [at |-> "lock", what |-> w]]
          BY <3>2
        <4>2. [at |-> "lock", what |-> w] \in Active /\ Main \in Threads
          BY DEF Active, Threads
        <4>3. /\ push' \in [Threads -> {Idle} \cup Active]
              /\ push'[Main] = [at |-> "lock", what |-> w]
              /\ \A s \in Threads : s # Main => push'[s] = push[s]
          BY <4>1, <4>2, PushChanges
        <4>4. push[Main] = Idle /\ mutex # Main
          <5>1. push[Main] = Idle
            BY <1>6, Pull
          <5>2. QED
            BY <4>2, <5>1 DEF PushTypes, Idle, Writing
        <4>5. \A s \in Threads : push'[s].at \in Writing <=> mutex' = s
          BY <2>1, <4>3, <4>4 DEF PushTypes, Writing
        <4>6. QED
          BY <2>1, <3>2, <4>3, <4>5 DEF PushTypes
      <3>3. CASE \E w \in Outgoing : pc' = "loop" /\ push' = push /\ tasks' = tasks \cup {w}
        BY <2>1, <3>3 DEF PushTypes
      <3>4. QED
        BY <1>6, <3>1, <3>2, <3>3, Pull
    <2>4. QED
      BY <2>2, <2>3
  <1>7. CASE PayloadFails
    BY <1>7, LoopTypesFrame, PushTypesFrame DEF PayloadFails, inputVars, pushVars, LoopTypes, PushTypes
  <1>8. CASE HandlerReturns
    BY <1>8, LoopTypesFrame, PushTypesFrame DEF HandlerReturns, inputVars, pushVars, LoopTypes,
       PushTypes
  <1>9. CASE Destroy
    BY <1>9, LoopTypesFrame, PushTypesFrame DEF Destroy, inputVars, loopVars, pushVars, LoopTypes,
       PushTypes
  <1>10. ASSUME NEW t \in Workers, TakeTask(t)
         PROVE  Types'
    <2>1. PICK w \in tasks : /\ push' = [push EXCEPT ![t] = [at |-> "lock", what |-> w]]
                             /\ tasks' = tasks \ {w}
      BY <1>10 DEF TakeTask, StartPush, Dequeue
    <2>2. /\ push[t] = Idle /\ t \in Threads /\ t # Main
          /\ UNCHANGED <<inputVars, loopVars, stop, mutex, output, failed, alive>>
      BY <1>10, MainIsNoWorker DEF TakeTask, Threads
    <2>3. [at |-> "lock", what |-> w] \in Active
      BY <2>1 DEF Active, PushTypes
    <2>4. /\ push' \in [Threads -> {Idle} \cup Active]
          /\ push'[t] = [at |-> "lock", what |-> w]
          /\ \A s \in Threads : s # t => push'[s] = push[s]
      BY <2>1, <2>2, <2>3, PushChanges
    <2>5. \A s \in Threads : push'[s].at \in Writing <=> mutex' = s
      BY <2>2, <2>4 DEF PushTypes, Writing, Idle
    <2>6. PushTypes'
      BY <2>1, <2>2, <2>4, <2>5 DEF PushTypes, loopVars, Threads
    <2>7. QED
      BY <2>2, <2>6, LoopTypesFrame DEF inputVars, loopVars, LoopTypes
  <1>11. ASSUME NEW t \in Threads, Pushing(t)
         PROVE  Types'
    <2>1. /\ push[t] \in Active
          /\ UNCHANGED <<inputVars, loopVars, tasks, alive>> /\ stop' \in BOOLEAN
      BY <1>11, PushStep DEF LoopTypes
    <2>2. pc # "push" => t # Main
      BY <2>1 DEF PushTypes, Active, Idle
    <2>3. PICK v \in {Idle} \cup Active :
             /\ push' = [push EXCEPT ![t] = v]
             /\ v.at \in Writing <=> mutex' = t
      BY <1>11, PushKinds
    <2>4. v.at \in Writing <=> mutex' = t
      BY <2>3
    <2>5. /\ push' \in [Threads -> {Idle} \cup Active]
          /\ push'[t] = v
          /\ \A s \in Threads : s # t => push'[s] = push[s]
      BY <2>3, PushChanges
    <2>6. /\ mutex' \in Threads \cup {Nobody}
          /\ \A s \in Threads : s # t => (mutex' = s <=> mutex = s)
          /\ failed' \in BOOLEAN
      <3>1. /\ \/ mutex' = mutex
               \/ mutex = Nobody /\ mutex' = t
               \/ mutex = t /\ mutex' = Nobody
            /\ failed' \in BOOLEAN
        BY <1>11, PushKinds
      <3>2. Nobody \notin Threads
        BY MainIsNoWorker DEF Threads
      <3>3. QED
        BY <3>1, <3>2 DEF PushTypes
    <2>7. \A s \in Threads : push'[s].at \in Writing <=> mutex' = s
      BY <2>4, <2>5, <2>6 DEF PushTypes
    <2>8. output' \in Seq([part : {"header", "payload"}, what : Outgoing])
      <3>1. output' = output \/ \E part \in {"header", "payload"} :
                output' = Append(output, [part |-> part, what |-> push[t].what])
        BY <1>11, PushKinds
      <3>2. \A part \in {"header", "payload"} : [part |-> part, what |-> push[t].what] \in
               [part : {"header", "payload"}, what : Outgoing]
        BY <2>1 DEF Active
      <3>3. CASE output' = output
        BY <3>3 DEF PushTypes
      <3>4. ASSUME NEW part \in {"header", "payload"},
                   output' = Append(output, [part |-> part, what |-> push[t].what])
            PROVE  output' \in Seq([part : {"header", "payload"}, what : Outgoing])
        <4> DEFINE e == [part |-> part, what |-> push[t].what]
                   E == [part : {"header", "payload"}, what : Outgoing]
        <4>1. e \in E /\ output \in Seq(E) /\ output' = Append(output, e)
          BY <3>2, <3>4 DEF PushTypes
        <4> HIDE DEF e, E
        <4>2. output' \in Seq(E)
          BY <4>1, AppendProperties
        <4>3. QED
          BY <4>2 DEF E
      <3>5. QED
        BY <3>1, <3>3, <3>4
    <2>9. PushTypes'
      <3>1. pc' # "push" => push'[Main] = Idle
        BY <2>1, <2>2, <2>5 DEF PushTypes, loopVars, Threads
      <3>2. tasks' \subseteq Outgoing /\ alive' \in BOOLEAN
        BY <2>1 DEF PushTypes
      <3>3. QED
        BY <2>5, <2>6, <2>7, <2>8, <3>1, <3>2 DEF PushTypes
    <2>10. QED
      BY <2>1, <2>9, LoopTypesFrame DEF inputVars, loopVars, LoopTypes
  <1>12. CASE UNCHANGED vars
    BY <1>12, LoopTypesFrame, PushTypesFrame DEF vars, inputVars, loopVars, pushVars, LoopTypes,
       PushTypes
  <1>13. QED
    BY <1>1, <1>2, <1>3, <1>4, <1>5, <1>6, <1>7, <1>8, <1>9, <1>10, <1>11, <1>12 DEF Next, Listen

\* A step that is none of PushMessage leaves the output alone, and all that
\* is to be written but for a task that is taken or a payload that is pulled.
LEMMA StepKinds ==
  ASSUME Types, [Next]_vars
  PROVE  \/ \E t \in Threads : Pushing(t)
         \/ /\ UNCHANGED <<output, failed, mutex>>
            /\ \/ UNCHANGED <<push, tasks, pulled>>
               \/ PullPayload
               \/ \E t \in Workers : TakeTask(t)
  BY DEF Next, Listen, ClientSends, ClientCloses, CheckStop, ReadHeader, HeaderAtEof, PullPayload,
     PayloadFails, HandlerReturns, Destroy, TakeTask, vars, inputVars, loopVars, pushVars

\* A task that is taken goes from the queue to an idle thread.
LEMMA TaskTaken ==
  ASSUME Types, NEW t \in Workers, TakeTask(t)
  PROVE  \E w \in tasks :
            /\ t \in Threads /\ push[t] = Idle
            /\ tasks' = tasks \ {w}
            /\ push' \in [Threads -> {Idle} \cup Active]
            /\ push'[t] = [at |-> "lock", what |-> w]
            /\ \A s \in Threads : s # t => push'[s] = push[s]
            /\ UNCHANGED <<output, pulled>>
  <1>1. PICK w \in tasks : /\ push' = [push EXCEPT ![t] = [at |-> "lock", what |-> w]]
                           /\ tasks' = tasks \ {w}
    BY DEF TakeTask, StartPush, Dequeue
  <1>2. push[t] = Idle /\ t \in Threads /\ UNCHANGED <<output, pulled>>
    BY DEF TakeTask, Threads, loopVars
  <1>3. [at |-> "lock", what |-> w] \in Active
    BY DEF Active, Types, PushTypes
  <1>4. QED
    BY <1>1, <1>2, <1>3, PushChanges DEF Types

-----------------------------------------------------------------------------
(* Whole frames in the output.                                              *)

LEMMA OutputFrame ==
  ASSUME OutputInv, UNCHANGED <<output, failed>>,
         \A t \in Threads : push'[t] = push[t] \/ (push[t].at # "payload" /\ push'[t].at # "payload")
  PROVE  OutputInv'
  BY DEF OutputInv

LEMMA OutputStep ==
  ASSUME Types, OutputInv, [Next]_vars
  PROVE  OutputInv'
  <1>1. CASE UNCHANGED <<output, failed, push>>
    BY <1>1, OutputFrame
  <1>2. CASE PullPayload
    <2>1. UNCHANGED <<output, failed>> /\ push[Main] = Idle /\ Main \in Threads
      BY <1>2, Pull DEF PullPayload, Threads
    <2>2. push' = push \/ \E w \in Outgoing : push' = [push EXCEPT ![Main] = [at |-> "lock", what |-> w]]
      BY <1>2, Pull
    <2>3. \A t \in Threads : push'[t] = push[t] \/ (push[t].at # "payload" /\ push'[t].at # "payload")
      BY <2>1, <2>2 DEF Types, PushTypes, Idle
    <2>4. QED
      BY <2>1, <2>3, OutputFrame
  <1>3. ASSUME NEW t \in Workers, TakeTask(t)
        PROVE  OutputInv'
    <2>1. UNCHANGED <<output, failed>>
      BY <1>3 DEF TakeTask
    <2>2. \A s \in Threads : push'[s] = push[s] \/ (push[s].at # "payload" /\ push'[s].at # "payload")
      <3>1. PICK w \in tasks :
               /\ push[t] = Idle /\ push'[t] = [at |-> "lock", what |-> w]
               /\ \A s \in Threads : s # t => push'[s] = push[s]
        BY <1>3, TaskTaken
      <3>2. QED
        BY <3>1 DEF Idle
    <2>3. QED
      BY <2>1, <2>2, OutputFrame
  <1>4. ASSUME NEW t \in Threads, Pushing(t)
        PROVE  OutputInv'
    <2> DEFINE E == [part : {"header", "payload"}, what : Outgoing]
               what == push[t].what
    <2>1. /\ push \in [Threads -> {Idle} \cup Active] /\ push[t] \in Active
          /\ output \in Seq(E) /\ Len(output) \in Nat
          /\ \A s \in Threads : push[s].at \in Writing <=> mutex = s
      <3>1. push[t] \in Active
        BY <1>4, PushStep
      <3>2. QED
        BY <3>1 DEF Types, PushTypes
    <2>2. [part |-> "header", what |-> what] \in E /\ [part |-> "payload", what |-> what] \in E
      BY <2>1 DEF Active
    <2>3. t # Nobody /\ \A s \in Threads : s # Nobody
      BY MainIsNoWorker DEF Threads
    <2> HIDE DEF E, what
    <2>4. CASE /\ push[t].at # "payload" /\ UNCHANGED <<output, failed>>
               /\ \E v : push' = [push EXCEPT ![t] = v] /\ v.at # "payload"
      <3>1. \A s \in Threads : push'[s] = push[s] \/ (push[s].at # "payload" /\ push'[s].at # "payload")
        BY <2>1, <2>4
      <3>2. QED
        BY <2>4, <3>1, OutputFrame
    <2>5. CASE /\ push[t].at = "header" /\ mutex = t
               /\ push' = [push EXCEPT ![t] = [at |-> "payload", what |-> what]]
               /\ output' = Append(output, [part |-> "header", what |-> what])
               /\ UNCHANGED failed
      <3>1. \A s \in Threads : push[s].at # "payload"
        BY <2>1, <2>3, <2>5 DEF Writing
      <3>2. /\ \A s \in Threads : s # t => push'[s].at # "payload"
            /\ push'[t].at = "payload" /\ push'[t].what = what
        BY <2>1, <2>5, <3>1
      <3>3. /\ Len(output') = Len(output) + 1
            /\ \A i \in 1 .. Len(output) : output'[i] = output[i]
            /\ output'[Len(output) + 1] = [part |-> "header", what |-> what]
        BY <2>1, <2>2, <2>5, AppendProperties
      <3>4. ~failed => Len(output) % 2 = 0 /\ (Len(output) + 1) % 2 = 1
        <4>1. ~failed => Len(output) % 2 = 0
          BY <3>1 DEF OutputInv
        <4>2. QED
          BY <2>1, <4>1
      <3>5. ~failed => \A i \in 1 .. Len(output) :
               /\ output'[i].part = (IF i % 2 = 1 THEN "header" ELSE "payload")
               /\ i % 2 = 0 => output'[i].what = output'[i - 1].what
        <4>1. \A i \in 1 .. Len(output) : i % 2 = 0 => i - 1 \in 1 .. Len(output)
          BY <2>1
        <4>2. QED
          BY <3>3, <4>1 DEF OutputInv
      <3>6. ~failed => \A i \in 1 .. Len(output') :
               /\ output'[i].part = (IF i % 2 = 1 THEN "header" ELSE "payload")
               /\ i % 2 = 0 => output'[i].what = output'[i - 1].what
        <4>1. SUFFICES ASSUME ~failed, NEW i \in 1 .. Len(output')
                       PROVE  /\ output'[i].part = (IF i % 2 = 1 THEN "header" ELSE "payload")
                              /\ i % 2 = 0 => output'[i].what = output'[i - 1].what
          OBVIOUS
        <4>2. i \in 1 .. Len(output) \/ i = Len(output) + 1
          BY <2>1, <3>3
        <4>3. CASE i \in 1 .. Len(output)
          BY <3>5, <4>1, <4>3
        <4>4. CASE i = Len(output) + 1
          <5>1. i % 2 = 1
            BY <3>4, <4>1, <4>4
          <5>2. output'[i].part = "header"
            BY <3>3, <4>4
          <5>3. QED
            BY <5>1, <5>2
        <4>5. QED
          BY <4>2, <4>3, <4>4
      <3>7. ~failed => Len(output') % 2 = 1 /\ output'[Len(output')].what = what
        BY <3>3, <3>4
      <3>8. QED
        BY <2>1, <2>5, <3>2, <3>3, <3>6, <3>7 DEF OutputInv
    <2>6. CASE /\ push[t].at = "payload" /\ mutex = t
               /\ push' = [push EXCEPT ![t] = [at |-> "flush", what |-> what]]
               /\ output' = Append(output, [part |-> "payload", what |-> what])
               /\ UNCHANGED failed
      <3>1. \A s \in Threads : push'[s].at # "payload"
        BY <2>1, <2>3, <2>6 DEF Writing
      <3>2. /\ Len(output') = Len(output) + 1
            /\ \A i \in 1 .. Len(output) : output'[i] = output[i]
            /\ output'[Len(output) + 1] = [part |-> "payload", what |-> what]
        BY <2>1, <2>2, <2>6, AppendProperties
      <3>3. ~failed => Len(output) % 2 = 1 /\ output[Len(output)].what = what
        BY <2>6 DEF OutputInv, what
      <3>4. ~failed => (Len(output) + 1) % 2 = 0 /\ Len(output) \in 1 .. Len(output)
        BY <2>1, <3>3
      <3>5. ~failed => \A i \in 1 .. Len(output) :
               /\ output'[i].part = (IF i % 2 = 1 THEN "header" ELSE "payload")
               /\ i % 2 = 0 => output'[i].what = output'[i - 1].what
        <4>1. \A i \in 1 .. Len(output) : i % 2 = 0 => i - 1 \in 1 .. Len(output)
          BY <2>1
        <4>2. QED
          BY <3>2, <4>1 DEF OutputInv
      <3>6. ~failed => \A i \in 1 .. Len(output') :
               /\ output'[i].part = (IF i % 2 = 1 THEN "header" ELSE "payload")
               /\ i % 2 = 0 => output'[i].what = output'[i - 1].what
        <4>1. SUFFICES ASSUME ~failed, NEW i \in 1 .. Len(output')
                       PROVE  /\ output'[i].part = (IF i % 2 = 1 THEN "header" ELSE "payload")
                              /\ i % 2 = 0 => output'[i].what = output'[i - 1].what
          OBVIOUS
        <4>2. i \in 1 .. Len(output) \/ i = Len(output) + 1
          BY <2>1, <3>2
        <4>3. CASE i \in 1 .. Len(output)
          BY <3>5, <4>1, <4>3
        <4>4. CASE i = Len(output) + 1
          <5>1. output'[i - 1] = output[Len(output)]
            BY <2>1, <3>2, <3>4, <4>1, <4>4
          <5>2. (Len(output) + 1) % 2 # 1
            BY <3>4, <4>1
          <5>3. QED
            BY <3>2, <3>3, <4>1, <4>4, <5>1, <5>2
        <4>5. QED
          BY <4>2, <4>3, <4>4
      <3>7. QED
        BY <2>1, <2>6, <3>1, <3>2, <3>4, <3>6 DEF OutputInv
    <2>7. CASE failed'
      BY <2>7 DEF OutputInv
    <2>8. Idle.at # "payload" /\ [at |-> "header", what |-> what].at # "payload"
      BY DEF Idle
    <2>9. QED
      <3> HIDE DEF Idle
      <3>1. CASE /\ push[t].at = "lock" /\ UNCHANGED <<output, failed>>
                 /\ push' = [push EXCEPT ![t] = [at |-> "header", what |-> what]]
        BY <2>4, <2>8, <3>1
      <3>2. CASE push[t].at = "flush" /\ push' = [push EXCEPT ![t] = Idle] /\ UNCHANGED <<output, failed>>
        BY <2>4, <2>8, <3>2
      <3>3. QED
        BY <1>4, <2>5, <2>6, <2>7, <3>1, <3>2, PushStep DEF what
  <1>5. QED
    BY <1>1, <1>2, <1>3, <1>4, StepKinds

-----------------------------------------------------------------------------
(* Payloads in order.                                                       *)

\* Names, order and payloads do not depend on the state.
LEMMA PrimedInput ==
  /\ \A u : IsPayload(u)' <=> IsPayload(u)
  /\ \A u, v : Before(u, v)' <=> Before(u, v)
  /\ \A i : Payload(i)' = Payload(i)
  BY DEF IsPayload, Before, Payload

LEMMA InputSuffix ==
  ASSUME LoopTypes, InputInv, sent' = sent, pulled' = pulled,
         NEW n \in Nat, Len(input') = Len(input) - n, Len(input') \in Nat,
         \A a \in 1 .. Len(input') : input'[a] = input[a + n]
  PROVE  InputInv'
  <1>1. \A a \in 1 .. Len(input') : a + n \in 1 .. Len(input)
    BY DEF LoopTypes
  <1>2. \A a \in 1 .. Len(input') : IsPayload(input'[a]) =>
           input'[a].frame \in 1 .. Len(sent) /\ input'[a].part \in 1 .. PayloadSize
    BY <1>1 DEF InputInv
  <1>3. \A a, b \in 1 .. Len(input') :
           a < b /\ IsPayload(input'[a]) /\ IsPayload(input'[b]) => Before(input'[a], input'[b])
    <2>1. \A a, b \in 1 .. Len(input') : a < b => a + n < b + n
      OBVIOUS
    <2>2. QED
      BY <1>1, <2>1 DEF InputInv
  <1>4. \A k \in 1 .. Len(pulled), i \in Ids : pulled[k] = Payload(i) =>
           /\ i <= Len(sent)
           /\ \A a \in 1 .. Len(input') : IsPayload(input'[a]) => input'[a].frame > i
    BY <1>1 DEF InputInv
  <1>5. QED
    BY <1>2, <1>3, <1>4, PrimedInput DEF InputInv

LEMMA InputStep ==
  ASSUME Types, InputInv, [Next]_vars
  PROVE  InputInv'
  <1>1. CASE ClientSends
    <2>1. PICK frame \in Frame :
             /\ sent' = Append(sent, frame)
             /\ input' = input \o FrameUnits(frame, Len(sent) + 1)
      BY <1>1 DEF ClientSends, Frame
    <2>2. Len(sent) < MaxFrames /\ pulled' = pulled
      BY <1>1 DEF ClientSends, loopVars
    <2> DEFINE i == Len(sent) + 1
               lines == Len(frame.heading)
    <2>3. /\ i \in Ids /\ Len(sent') = i /\ Len(sent) \in Nat
          /\ Len(input') = Len(input) + lines + 1 + PayloadSize
          /\ \A a \in 1 .. Len(input) : input'[a] = input[a]
          /\ \A k \in 1 .. lines + 1 + PayloadSize : input'[Len(input) + k] = FrameUnits(frame, i)[k]
      <3>1. LoopTypes /\ Len(sent) \in Nat
        BY DEF Types, LoopTypes
      <3>2. QED
        BY <2>1, <2>2, <3>1, SentFrame
    <2>4. /\ lines \in Nat /\ Len(input) \in Nat /\ i \in Nat
          /\ \A k \in 1 .. lines + 1 : ~IsPayload(FrameUnits(frame, i)[k])
          /\ \A k \in 1 .. PayloadSize : FrameUnits(frame, i)[lines + 1 + k] =
                [name |-> "payload", frame |-> i, part |-> k]
      <3>1. i \in Nat /\ Len(input) \in Nat
        BY DEF Types, LoopTypes
      <3>2. /\ lines \in Nat
            /\ \A k \in 1 .. lines :
                  FrameUnits(frame, i)[k] = frame.heading[k] /\ frame.heading[k] \in Line
            /\ FrameUnits(frame, i)[lines + 1] = Blank
            /\ \A k \in 1 .. PayloadSize : FrameUnits(frame, i)[lines + 1 + k] =
                  [name |-> "payload", frame |-> i, part |-> k]
        BY <3>1, FrameParts
      <3>3. \A k \in 1 .. lines + 1 : k \in 1 .. lines \/ k = lines + 1
        BY <3>2
      <3>4. QED
        BY <3>1, <3>2, <3>3, LineNames
    <2>5. ASSUME NEW a \in 1 .. Len(input'), IsPayload(input'[a])
          PROVE  \/ a \in 1 .. Len(input) /\ input'[a] = input[a]
                 \/ \E k \in 1 .. PayloadSize :
                       /\ a = Len(input) + lines + 1 + k
                       /\ input'[a] = [name |-> "payload", frame |-> i, part |-> k]
      <3>1. CASE a <= Len(input)
        BY <2>3, <2>4, <3>1
      <3>2. CASE a > Len(input)
        <4> DEFINE k == a - Len(input)
        <4>1. k \in 1 .. lines + 1 + PayloadSize /\ input'[a] = FrameUnits(frame, i)[k]
          <5>1. k \in 1 .. lines + 1 + PayloadSize /\ a = Len(input) + k
            BY <2>3, <2>4, <3>2, FrameAssumption
          <5>2. QED
            BY <2>3, <5>1
        <4> HIDE DEF k, i, lines
        <4>2. ~(k \in 1 .. lines + 1)
          BY <2>4, <2>5, <4>1
        <4> DEFINE j == k - (lines + 1)
        <4>3. j \in 1 .. PayloadSize /\ k = lines + 1 + j
          BY <2>4, <4>1, <4>2, FrameAssumption
        <4> HIDE DEF j
        <4>4. FrameUnits(frame, i)[k] = [name |-> "payload", frame |-> i, part |-> j]
          BY <2>4, <4>3
        <4>5. a = Len(input) + lines + 1 + j
          BY <2>3, <2>4, FrameAssumption DEF j, k
        <4>6. QED
          BY <4>1, <4>3, <4>4, <4>5
      <3>3. QED
        BY <2>3, <2>4, <3>1, <3>2, FrameAssumption
    <2> HIDE DEF i, lines
    <2>6. \A a \in 1 .. Len(input') : IsPayload(input'[a]) =>
             input'[a].frame \in 1 .. Len(sent') /\ input'[a].part \in 1 .. PayloadSize
      <3>1. 1 .. Len(sent) \subseteq 1 .. Len(sent') /\ i \in 1 .. Len(sent')
        BY <2>3 DEF i
      <3>2. ASSUME NEW a \in 1 .. Len(input'), IsPayload(input'[a])
            PROVE  input'[a].frame \in 1 .. Len(sent') /\ input'[a].part \in 1 .. PayloadSize
        <4>1. CASE a \in 1 .. Len(input) /\ input'[a] = input[a]
          BY <3>1, <3>2, <4>1 DEF InputInv
        <4>2. CASE \E k \in 1 .. PayloadSize : input'[a] = [name |-> "payload", frame |-> i, part |-> k]
          BY <3>1, <4>2
        <4>3. QED
          BY <2>5, <3>2, <4>1, <4>2
      <3>3. QED
        BY <3>2
    <2>7. \A a, b \in 1 .. Len(input') :
             a < b /\ IsPayload(input'[a]) /\ IsPayload(input'[b]) => Before(input'[a], input'[b])
      <3>1. ASSUME NEW a \in 1 .. Len(input'), NEW b \in 1 .. Len(input'),
                   a < b, IsPayload(input'[a]), IsPayload(input'[b])
            PROVE  Before(input'[a], input'[b])
        <4>1. CASE b \in 1 .. Len(input) /\ input'[b] = input[b]
          <5>1. a \in 1 .. Len(input) /\ b \in 1 .. Len(input) /\ a < b
            BY <2>3, <3>1, <4>1
          <5>2. input'[a] = input[a] /\ input'[b] = input[b]
            BY <2>3, <4>1, <5>1
          <5>3. IsPayload(input[a]) /\ IsPayload(input[b])
            BY <3>1, <5>2
          <5>4. Before(input[a], input[b])
            BY <5>1, <5>3 DEF InputInv
          <5>5. QED
            BY <5>2, <5>4
        <4>2. ASSUME NEW k \in 1 .. PayloadSize,
                     b = Len(input) + lines + 1 + k,
                     input'[b] = [name |-> "payload", frame |-> i, part |-> k]
              PROVE  Before(input'[a], input'[b])
          <5>1. CASE a \in 1 .. Len(input) /\ input'[a] = input[a]
            <6>1. IsPayload(input[a]) /\ input[a].frame < i
              BY <2>3, <3>1, <5>1 DEF InputInv, i
            <6>2. QED
              BY <4>2, <5>1, <6>1 DEF Before
          <5>2. CASE \E j \in 1 .. PayloadSize :
                       /\ a = Len(input) + lines + 1 + j
                       /\ input'[a] = [name |-> "payload", frame |-> i, part |-> j]
            BY <2>4, <3>1, <4>2, <5>2, FrameAssumption DEF Before
          <5>3. QED
            BY <2>5, <3>1, <5>1, <5>2
        <4>3. QED
          BY <2>5, <3>1, <4>1, <4>2
      <3>2. QED
        BY <3>1
    <2>8. ASSUME NEW k \in 1 .. Len(pulled), NEW j \in Ids, pulled[k] = Payload(j),
                 NEW a \in 1 .. Len(input'), IsPayload(input'[a])
          PROVE  input'[a].frame > j
      <3>1. CASE a \in 1 .. Len(input) /\ input'[a] = input[a]
        BY <2>8, <3>1 DEF InputInv
      <3>2. CASE input'[a].frame = i
        BY <2>3, <2>8, <3>2 DEF InputInv, i, Ids
      <3>3. QED
        <4>1. CASE \E n \in 1 .. PayloadSize : input'[a] = [name |-> "payload", frame |-> i, part |-> n]
          BY <3>2, <4>1
        <4>2. QED
          BY <2>5, <2>8, <3>1, <4>1
    <2>9. \A k \in 1 .. Len(pulled), j \in Ids : pulled[k] = Payload(j) =>
             /\ j <= Len(sent')
             /\ \A a \in 1 .. Len(input') : IsPayload(input'[a]) => input'[a].frame > j
      BY <2>3, <2>8 DEF InputInv, i, Ids
    <2>10. QED
      BY <2>2, <2>6, <2>7, <2>9 DEF InputInv, IsPayload, Before, Payload
  <1>2. CASE ReadHeader
    <2>1. /\ FirstLineEnd \in Nat
          /\ Len(input') = Len(input) - FirstLineEnd /\ Len(input') \in Nat
          /\ \A a \in 1 .. Len(input') : input'[a] = input[a + FirstLineEnd]
      BY <1>2, ReadLine DEF Types
    <2>2. sent' = sent /\ pulled' = pulled
      BY <1>2 DEF ReadHeader
    <2>3. QED
      BY <2>1, <2>2, InputSuffix DEF Types
  <1>3. CASE HeaderAtEof
    BY <1>3 DEF HeaderAtEof, InputInv, Payload
  <1>4. CASE PullPayload
    <2>1. /\ Fragment \in Seq(Unit) /\ Len(Fragment) = length
          /\ length \in 1 .. Len(input) /\ Len(input) \in Nat
          /\ \A a \in 1 .. length : Fragment[a] = input[a]
          /\ Len(input') = Len(input) - length
          /\ \A a \in 1 .. Len(input') : input'[a] = input[a + length]
          /\ pulled' = Append(pulled, Fragment) /\ sent' = sent
      BY <1>4, Pull DEF PullPayload, Types, LoopTypes
    <2>2. /\ Len(pulled') = Len(pulled) + 1 /\ Len(pulled) \in Nat
          /\ \A k \in 1 .. Len(pulled) : pulled'[k] = pulled[k]
          /\ pulled'[Len(pulled) + 1] = Fragment
      BY <2>1, AppendProperties DEF Types, LoopTypes
    <2>3. \A a \in 1 .. Len(input') : a + length \in 1 .. Len(input)
      BY <2>1
    <2>4. ASSUME NEW j \in Ids, Fragment = Payload(j)
          PROVE  /\ j <= Len(sent)
                 /\ \A a \in 1 .. Len(input') : IsPayload(input'[a]) => input'[a].frame > j
      <3>1. j \in Nat
        BY FrameAssumption DEF Ids
      <3>2. length = PayloadSize
        BY <2>1, <2>4, <3>1, PayloadUnits
      <3>3. input[length] = [name |-> "payload", frame |-> j, part |-> length]
        BY <2>1, <2>4, <3>1, <3>2, PayloadUnits, FrameAssumption
      <3>4. j <= Len(sent)
        BY <2>1, <3>3 DEF InputInv, IsPayload, Types, LoopTypes
      <3>5. ASSUME NEW a \in 1 .. Len(input'), IsPayload(input'[a])
            PROVE  input'[a].frame > j
        <4>1. a + length \in 1 .. Len(input) /\ length \in 1 .. Len(input) /\ length < a + length
          BY <2>1, <2>3
        <4>2. Before(input[length], input[a + length]) /\ IsPayload(input[a + length])
          <5>1. IsPayload(input[length]) /\ IsPayload(input[a + length])
            BY <2>1, <3>3, <3>5 DEF IsPayload
          <5>2. QED
            BY <4>1, <5>1 DEF InputInv
        <4>3. input[a + length].part <= PayloadSize /\ input[a + length].part \in Nat
              /\ input[a + length].frame \in Nat
          <5>1. input[a + length].part \in 1 .. PayloadSize /\ input[a + length].frame \in 1 .. Len(sent)
            BY <4>1, <4>2 DEF InputInv
          <5>2. Len(sent) \in Nat /\ PayloadSize \in Nat
            BY FrameAssumption DEF Types, LoopTypes
          <5>3. QED
            BY <5>1, <5>2
        <4>4. input[length].frame = j /\ input[length].part = PayloadSize
          BY <3>2, <3>3
        <4>5. input[a + length].frame > j
          BY <3>1, <4>2, <4>3, <4>4, FrameAssumption DEF Before
        <4>6. QED
          BY <2>1, <4>5
      <3>6. QED
        BY <3>4, <3>5
    <2>5. ASSUME NEW k \in 1 .. Len(pulled'), NEW j \in Ids, pulled'[k] = Payload(j)
          PROVE  /\ j <= Len(sent')
                 /\ \A a \in 1 .. Len(input') : IsPayload(input'[a]) => input'[a].frame > j
      <3>1. CASE k = Len(pulled) + 1
        BY <2>1, <2>2, <2>4, <2>5, <3>1
      <3>2. CASE k \in 1 .. Len(pulled)
        BY <2>1, <2>2, <2>3, <2>5, <3>2 DEF InputInv
      <3>3. QED
        BY <2>2, <3>1, <3>2
    <2>6. \A a \in 1 .. Len(input') : IsPayload(input'[a]) =>
             input'[a].frame \in 1 .. Len(sent') /\ input'[a].part \in 1 .. PayloadSize
      BY <2>1, <2>3 DEF InputInv
    <2>7. \A a, b \in 1 .. Len(input') :
             a < b /\ IsPayload(input'[a]) /\ IsPayload(input'[b]) => Before(input'[a], input'[b])
      <3>1. \A a, b \in 1 .. Len(input') : a < b => a + length < b + length
        BY <2>1
      <3>2. QED
        BY <2>1, <2>3, <3>1 DEF InputInv
    <2>8. QED
      BY <2>5, <2>6, <2>7, PrimedInput DEF InputInv
  <1>5. CASE UNCHANGED <<sent, input, pulled>>
    BY <1>5 DEF InputInv, IsPayload, Before, Payload
  <1>6. UNCHANGED <<sent, input, pulled>> \/ ClientSends \/ ReadHeader \/ HeaderAtEof \/ PullPayload
    BY DEF Next, Listen, ClientCloses, CheckStop, PayloadFails, HandlerReturns, Destroy, TakeTask,
       Pushing, LockOutput, WriteHeader, WritePayload, WritePart, Flush, PushFails, vars, inputVars,
       loopVars
  <1>7. QED
    BY <1>1, <1>2, <1>3, <1>4, <1>5, <1>6

-----------------------------------------------------------------------------
(* One answer to a request.                                                 *)

\* A payload that is pulled was not pulled before.
LEMMA PulledIsNew ==
  ASSUME Types, InputInv, PullPayload, NEW i \in 1 .. Len(sent), Fragment = Payload(i)
  PROVE  ~IsPulled(i)
  <1>1. i \in Ids /\ i \in Nat
    BY FrameAssumption DEF Types, LoopTypes, Ids
  <1>2. 1 \in 1 .. length /\ 1 \in 1 .. Len(input) /\ input[1] = Fragment[1]
    <2>1. length \in 1 .. Len(input) /\ \A a \in 1 .. length : Fragment[a] = input[a]
      BY Pull
    <2>2. Len(input) \in Nat
      BY DEF Types, LoopTypes
    <2>3. QED
      BY <2>1, <2>2
  <1>3. Fragment[1] = [name |-> "payload", frame |-> i, part |-> 1]
    BY <1>1, PayloadUnits, FrameAssumption
  <1>4. SUFFICES ASSUME NEW k \in 1 .. Len(pulled), pulled[k] = Payload(i)
                 PROVE  FALSE
    BY DEF IsPulled
  <1>5. IsPayload(input[1]) => input[1].frame > i
    BY <1>1, <1>2, <1>4 DEF InputInv
  <1>6. QED
    BY <1>1, <1>2, <1>3, <1>5 DEF IsPayload

\* What was pulled stays pulled.
LEMMA PulledGrows ==
  ASSUME Types, [Next]_vars
  PROVE  \A i : IsPulled(i) => IsPulled(i)'
  <1>1. CASE UNCHANGED pulled
    BY <1>1 DEF IsPulled, Payload
  <1>2. CASE PullPayload
    <2>1. pulled \in Seq(Seq(Unit)) /\ Fragment \in Seq(Unit) /\ pulled' = Append(pulled, Fragment)
      BY <1>2, Pull DEF Types, LoopTypes
    <2>2. 1 .. Len(pulled) \subseteq 1 .. Len(pulled') /\ \A k \in 1 .. Len(pulled) : pulled'[k] = pulled[k]
      BY <2>1, AppendProperties
    <2>3. QED
      BY <2>2, PrimedInput DEF IsPulled
  <1>3. UNCHANGED pulled \/ PullPayload
    BY DEF Next, Listen, ClientSends, ClientCloses, CheckStop, ReadHeader, HeaderAtEof, PayloadFails,
       HandlerReturns, Destroy, TakeTask, Pushing, LockOutput, WriteHeader, WritePayload, WritePart,
       Flush, PushFails, vars, loopVars
  <1>4. QED
    BY <1>1, <1>2, <1>3

LEMMA AnswerStep ==
  ASSUME Types, InputInv, AnswerInv, [Next]_vars
  PROVE  AnswerInv'
  <1> USE DEF AnswerInv
  <1>1. \A i : IsPulled(i) => IsPulled(i)'
    BY PulledGrows
  <1>2. CASE UNCHANGED <<push, tasks, output>>
    BY <1>1, <1>2 DEF AnswersArePulled, AnswersInOnePlace, Headers, HeaderAhead
  <1>3. ASSUME PullPayload, UNCHANGED output
        PROVE  AnswerInv'
    <2>1. SUFFICES ASSUME NEW i \in 1 .. Len(sent), NEW w \in Outgoing,
                          Fragment = Payload(i), w.of = i,
                          \/ /\ tasks' = tasks
                             /\ push' = [push EXCEPT ![Main] = [at |-> "lock", what |-> w]]
                          \/ push' = push /\ tasks' = tasks \cup {w}
                   PROVE  AnswerInv'
      BY <1>2, <1>3, Pull
    <2>2. ~IsPulled(w.of)
      BY <1>3, <2>1, PulledIsNew
    <2>3. IsPulled(w.of)'
      <3>1. /\ pulled \in Seq(Seq(Unit)) /\ Fragment \in Seq(Unit) /\ Len(pulled) \in Nat
            /\ pulled' = Append(pulled, Fragment)
        BY <1>3, Pull DEF Types, LoopTypes
      <3>2. Len(pulled) + 1 \in 1 .. Len(pulled') /\ pulled'[Len(pulled) + 1] = Payload(i)
        BY <2>1, <3>1, AppendProperties
      <3>3. QED
        BY <2>1, <3>2, PrimedInput DEF IsPulled
    <2>4. /\ w \notin tasks
          /\ \A t \in Threads : push[t] # Idle => push[t].what # w
          /\ \A j \in 1 .. Len(output) : output[j].what # w
      BY <2>2 DEF AnswersArePulled
    <2>5. CASE push' = push /\ tasks' = tasks \cup {w}
      BY <1>1, <1>3, <2>3, <2>4, <2>5 DEF AnswersArePulled, AnswersInOnePlace, Headers, HeaderAhead, Idle
    <2>6. CASE tasks' = tasks /\ push' = [push EXCEPT ![Main] = [at |-> "lock", what |-> w]]
      <3>1. /\ push'[Main] = [at |-> "lock", what |-> w] /\ push'[Main] # Idle
            /\ \A s \in Threads : s # Main => push'[s] = push[s]
        BY <2>6 DEF Types, PushTypes, Threads, Idle
      <3>2. AnswersArePulled'
        BY <1>1, <1>3, <2>3, <2>6, <3>1 DEF AnswersArePulled
      <3>3. AnswersInOnePlace'
        BY <1>3, <2>4, <2>6, <3>1 DEF AnswersInOnePlace, Headers, HeaderAhead, Idle
      <3>4. QED
        BY <3>2, <3>3
    <2>7. QED
      BY <2>1, <2>5, <2>6
  <1>4. ASSUME NEW t \in Workers, TakeTask(t)
        PROVE  AnswerInv'
    <2>1. PICK w \in tasks :
            /\ t \in Threads /\ push[t] = Idle
            /\ tasks' = tasks \ {w}
            /\ push'[t] = [at |-> "lock", what |-> w]
            /\ \A s \in Threads : s # t => push'[s] = push[s]
            /\ UNCHANGED <<output, pulled>>
      BY <1>4, TaskTaken
    <2>2. AnswersArePulled'
      BY <1>1, <2>1 DEF AnswersArePulled
    <2>3. \A s \in Threads : push[s] # Idle => push[s].what # w
      BY <2>1 DEF AnswersInOnePlace
    <2>4. \A i \in Headers : output[i].what # w
      BY <2>1 DEF AnswersInOnePlace
    <2>5. AnswersInOnePlace'
      BY <2>1, <2>3, <2>4 DEF AnswersInOnePlace, Headers, HeaderAhead, Idle
    <2>6. QED
      BY <2>2, <2>5
  <1>5. ASSUME NEW t \in Threads, Pushing(t)
        PROVE  AnswerInv'
    <2> DEFINE E == [part : {"header", "payload"}, what : Outgoing]
               what == push[t].what
    <2>1. /\ push[t] \in Active /\ push[t] # Idle
          /\ UNCHANGED <<tasks, pulled>>
      <3>1. push[t] \in Active /\ UNCHANGED <<loopVars, tasks>>
        BY <1>5, PushStep
      <3>2. QED
        BY <3>1 DEF Active, Idle, loopVars
    <2>2. push \in [Threads -> {Idle} \cup Active] /\ output \in Seq(E) /\ Len(output) \in Nat
      BY DEF Types, PushTypes
    <2>3. [part |-> "header", what |-> what] \in E /\ [part |-> "payload", what |-> what] \in E
      BY <2>1 DEF Active
    <2> HIDE DEF E
    <2>4. CASE /\ output' = output
               /\ \/ push' = [push EXCEPT ![t] = Idle]
                  \/ push[t].at = "lock" /\ push' = [push EXCEPT ![t] = [at |-> "header", what |-> what]]
      <3>1. \A s \in Threads :
               push'[s] # Idle => /\ push[s] # Idle /\ push'[s].what = push[s].what
                                  /\ HeaderAhead(s)' => HeaderAhead(s)
        BY <2>1, <2>2, <2>4 DEF HeaderAhead
      <3>2. \A s \in Threads : HeaderAhead(s)' => push'[s] # Idle
        BY DEF HeaderAhead, Idle
      <3>3. QED
        BY <1>1, <2>1, <2>4, <3>1, <3>2 DEF AnswersArePulled, AnswersInOnePlace, Headers
    <2>5. CASE /\ push[t].at = "header"
               /\ push' = [push EXCEPT ![t] = [at |-> "payload", what |-> what]]
               /\ output' = Append(output, [part |-> "header", what |-> what])
      <3>1. /\ push'[t] = [at |-> "payload", what |-> what]
            /\ \A s \in Threads : s # t => push'[s] = push[s]
        BY <2>2, <2>5
      <3>2. /\ Len(output') = Len(output) + 1
            /\ \A i \in 1 .. Len(output) : output'[i] = output[i]
            /\ output'[Len(output) + 1] = [part |-> "header", what |-> what]
        BY <2>2, <2>3, <2>5, AppendProperties
      <3>3. Headers' = Headers \cup {Len(output) + 1}
        BY <2>2, <3>2 DEF Headers
      <3>4. /\ what \notin tasks /\ IsPulled(what.of)
            /\ \A s \in Threads : s # t /\ push[s] # Idle => push[s].what # what
            /\ \A i \in Headers : output[i].what # what
        BY <2>1, <2>5 DEF AnswersArePulled, AnswersInOnePlace, HeaderAhead
      <3>5. AnswersArePulled'
        <4>1. \A i \in 1 .. Len(output') : i \in 1 .. Len(output) \/ i = Len(output) + 1
          BY <2>2, <3>2
        <4>2. QED
          BY <1>1, <2>1, <3>1, <3>2, <3>4, <4>1 DEF AnswersArePulled
      <3>6. AnswersInOnePlace'
        <4>1. /\ \A s \in Threads : push'[s] # Idle => push'[s].what \notin tasks'
              /\ \A r, s \in Threads :
                    push'[r] # Idle /\ push'[s] # Idle /\ push'[r].what = push'[s].what => r = s
          BY <2>1, <3>1, <3>4 DEF AnswersInOnePlace
        <4>2. \A i \in Headers : i \in 1 .. Len(output) /\ output'[i] = output[i]
          BY <3>2 DEF Headers
        <4>3. \A s \in Threads : HeaderAhead(s)' => s # t /\ HeaderAhead(s) /\ push[s] # Idle
          BY <3>1 DEF HeaderAhead, Idle
        <4>4. ASSUME NEW i \in Headers'
              PROVE  /\ output'[i].what \notin tasks'
                     /\ \A s \in Threads : HeaderAhead(s)' => push'[s].what # output'[i].what
                     /\ \A j \in Headers' : output'[i].what = output'[j].what => i = j
          <5>1. CASE i \in Headers
            BY <2>1, <3>1, <3>2, <3>3, <3>4, <4>2, <4>3, <5>1 DEF AnswersInOnePlace
          <5>2. CASE i = Len(output) + 1
            BY <2>1, <3>1, <3>2, <3>3, <3>4, <4>2, <4>3, <5>2 DEF AnswersInOnePlace
          <5>3. QED
            BY <3>3, <5>1, <5>2
        <4>5. QED
          BY <4>1, <4>4 DEF AnswersInOnePlace
      <3>7. QED
        BY <3>5, <3>6
    <2>6. CASE /\ push[t].at = "payload"
               /\ push' = [push EXCEPT ![t] = [at |-> "flush", what |-> what]]
               /\ output' = Append(output, [part |-> "payload", what |-> what])
      <3>1. /\ push'[t] = [at |-> "flush", what |-> what]
            /\ \A s \in Threads : s # t => push'[s] = push[s]
        BY <2>2, <2>6
      <3>2. /\ Len(output') = Len(output) + 1
            /\ \A i \in 1 .. Len(output) : output'[i] = output[i]
            /\ output'[Len(output) + 1] = [part |-> "payload", what |-> what]
        BY <2>2, <2>3, <2>6, AppendProperties
      <3>3. Headers' = Headers /\ \A i \in Headers : output'[i] = output[i]
        BY <2>2, <3>2 DEF Headers
      <3>4. IsPulled(what.of)
        BY <2>1 DEF AnswersArePulled
      <3>5. AnswersArePulled'
        <4>1. \A i \in 1 .. Len(output') : i \in 1 .. Len(output) \/ i = Len(output) + 1
          BY <2>2, <3>2
        <4>2. QED
          BY <1>1, <2>1, <3>1, <3>2, <3>4, <4>1 DEF AnswersArePulled
      <3>6. \A s \in Threads :
               push'[s] # Idle => /\ push[s] # Idle /\ push'[s].what = push[s].what
                                  /\ HeaderAhead(s)' => HeaderAhead(s)
        BY <2>1, <3>1 DEF HeaderAhead
      <3>7. \A s \in Threads : HeaderAhead(s)' => push'[s] # Idle
        BY DEF HeaderAhead, Idle
      <3>8. AnswersInOnePlace'
        BY <2>1, <3>3, <3>6, <3>7 DEF AnswersInOnePlace
      <3>9. QED
        BY <3>5, <3>8
    <2>7. QED
      <3>1. CASE UNCHANGED output /\ push' = [push EXCEPT ![t] = Idle]
        BY <2>4, <3>1
      <3>2. QED
        BY <1>5, <2>4, <2>5, <2>6, <3>1, PushStep
  <1>6. QED
    <2>1. PullPayload => UNCHANGED output
      BY DEF PullPayload
    <2>2. QED
      BY <1>2, <1>3, <1>4, <1>5, <2>1, StepKinds

-----------------------------------------------------------------------------
(* In step with the client.                                                 *)

LEMMA SettledIfDeclared ==
  ASSUME NEW frame \in Frame
  PROVE  WellDeclared(frame) <=> \E k \in 1 .. Len(frame.heading) : Settles(frame.heading, k)
  BY DEF WellDeclared, Settles, LastLength

\* The lines and the size of a frame that was sent.
LEMMA SentTypes ==
  ASSUME LoopTypes, NEW i \in 1 .. Len(sent)
  PROVE  /\ i \in Nat /\ sent[i] \in Frame
         /\ sent[i].heading \in Seq(Line) /\ Len(sent[i].heading) \in Nat
         /\ Size(i) \in Nat /\ Size(i) = Len(sent[i].heading) + 1 + PayloadSize
  <1>1. i \in Nat /\ sent[i] \in Frame
    BY ElementOfSeq DEF LoopTypes
  <1>2. sent[i].heading \in Seq(Line)
    BY <1>1, FrameAssumption DEF Frame
  <1>3. QED
    BY <1>1, <1>2, FrameAssumption DEF Size

LEMMA ShiftedIndex ==
  ASSUME NEW first \in Int, NEW size \in Nat, NEW k \in 1 .. size, NEW n \in Nat, NEW units \in Nat,
         first + size <= units + 1, first - n + k - 1 >= 1
  PROVE  /\ first - n + k - 1 \in 1 .. units - n
         /\ first - n + k - 1 + n = first + k - 1 /\ first + k - 1 >= 1
  OBVIOUS

LEMMA ShiftedEnd ==
  ASSUME NEW first \in Int, NEW size \in Nat, NEW n \in Nat, NEW units \in Nat,
         first + size <= units + 1
  PROVE  /\ first + size - n = first - n + size
         /\ first + size - n <= units - n + 1
  OBVIOUS

UnitsRead(n) ==
    /\ sent' = sent /\ Len(input') = Len(input) - n
    /\ \A a \in 1 .. Len(input') : input'[a] = input[a + n]

Closer(start, first, n) == [i \in first .. Len(sent) + 1 |-> start[i] - n]

\* When n units are read from the front, every frame moves n units closer.
LEMMA LayoutShifts ==
  ASSUME LoopTypes, NEW start, LaidOut(start), NEW n \in Nat, UnitsRead(n),
         Next1' \in Next1 .. Len(sent) + 1, Next1 \in Nat,
         NEW shifted, shifted = Closer(start, Next1', n)
  PROVE  LaidOut(shifted)'
  <1>1. /\ Len(sent) \in Nat /\ Len(input) \in Nat /\ Next1' \in Nat
        /\ start \in [Next1 .. Len(sent) + 1 -> Int]
        /\ start[Len(sent) + 1] = Len(input) + 1
        /\ sent' = sent /\ Len(input') = Len(input) - n
    BY DEF LoopTypes, LaidOut, UnitsRead
  <1>2. \A i \in Next1' .. Len(sent) + 1 : i \in Next1 .. Len(sent) + 1 /\ shifted[i] = start[i] - n
    BY <1>1 DEF Closer
  <1>3. shifted \in [Next1' .. Len(sent) + 1 -> Int] /\ shifted[Len(sent) + 1] = Len(input') + 1
    <2>1. Len(sent) + 1 \in Next1' .. Len(sent) + 1
      BY <1>1
    <2>2. shifted[Len(sent) + 1] = Len(input') + 1
      <3>1. shifted[Len(sent) + 1] = start[Len(sent) + 1] - n
        BY <1>2, <2>1
      <3>2. Len(input) \in Nat
        BY <1>1
      <3>3. Len(input) + 1 - n = Len(input) - n + 1
        BY <3>2
      <3>4. start[Len(sent) + 1] = Len(input) + 1
        BY <1>1
      <3>5. QED
        BY <1>1, <3>1, <3>3, <3>4
    <2>3. \A i \in Next1' .. Len(sent) + 1 : start[i] \in Int
      BY <1>1, <1>2
    <2>4. QED
      BY <1>1, <2>2, <2>3 DEF Closer
  <1>4. ASSUME NEW i \in Next1' .. Len(sent)
        PROVE  /\ shifted[i + 1] = shifted[i] + Size(i)
               /\ shifted[i + 1] <= Len(input') + 1
               /\ \A k \in 1 .. Size(i) : shifted[i] + k - 1 >= 1 =>
                     input'[shifted[i] + k - 1] = FrameUnits(sent[i], i)[k]
    <2>1. /\ i \in Next1' .. Len(sent) + 1 /\ i + 1 \in Next1' .. Len(sent) + 1
          /\ i \in Next1 .. Len(sent) /\ i \in 1 .. Len(sent)
      <3>1. Next1 >= 1
        BY DEF Next1, LoopTypes
      <3>2. QED
        BY <1>1, <3>1
    <2>2. Size(i) \in Nat /\ start[i] \in Int
      BY <1>1, <1>2, <2>1, SentTypes
    <2>3. start[i + 1] = start[i] + Size(i) /\ start[i + 1] <= Len(input) + 1
      BY <2>1 DEF LaidOut
    <2>4. shifted[i] = start[i] - n /\ shifted[i + 1] = start[i + 1] - n
      BY <1>2, <2>1
    <2>5. shifted[i + 1] = shifted[i] + Size(i) /\ shifted[i + 1] <= Len(input') + 1
      <3>1. start[i] + Size(i) <= Len(input) + 1 /\ Len(input) \in Nat
        BY <1>1, <2>3
      <3>2. i \in Int /\ n \in Int /\ start[i] + Size(i) \in Int /\ start[i + 1] \in Int
        BY <1>1, <2>2, <2>3
      <3>3. /\ start[i] + Size(i) - n = start[i] - n + Size(i)
            /\ start[i] + Size(i) - n <= Len(input) - n + 1
        BY <2>2, <3>1, ShiftedEnd
      <3>4. shifted[i + 1] = start[i] + Size(i) - n
        BY <2>2, <2>3, <2>4, <3>2
      <3>5. shifted[i + 1] = shifted[i] + Size(i)
        BY <2>4, <3>3, <3>4, Zenon
      <3>6. Len(input') = Len(input) - n
        BY <1>1
      <3>7. shifted[i + 1] <= Len(input') + 1
        BY <3>3, <3>4, <3>6, Zenon
      <3>8. QED
        BY <3>5, <3>7
    <2>6. ASSUME NEW k \in 1 .. Size(i), shifted[i] + k - 1 >= 1
          PROVE  input'[shifted[i] + k - 1] = FrameUnits(sent[i], i)[k]
      <3> DEFINE a == shifted[i] + k - 1
                 b == start[i] + k - 1
      <3>1. a \in 1 .. Len(input') /\ a + n = b /\ b >= 1
        <4>1. start[i] + Size(i) <= Len(input) + 1 /\ start[i] - n + k - 1 >= 1 /\ Len(input) \in Nat
          BY <1>1, <2>3, <2>4, <2>6
        <4>2. /\ start[i] - n + k - 1 \in 1 .. Len(input) - n
              /\ start[i] - n + k - 1 + n = start[i] + k - 1 /\ start[i] + k - 1 >= 1
          BY <2>2, <4>1, ShiftedIndex
        <4>3. Len(input') = Len(input) - n
          BY <1>1
        <4>4. QED
          BY <2>4, <4>2, <4>3
      <3>2. b >= 1 => input[b] = FrameUnits(sent[i], i)[k]
        BY <2>1 DEF LaidOut
      <3> HIDE DEF a, b
      <3>3. input'[a] = input[a + n]
        BY <3>1 DEF UnitsRead
      <3>4. input'[a] = FrameUnits(sent[i], i)[k]
        BY <3>1, <3>2, <3>3
      <3>5. QED
        BY <3>4 DEF a
    <2>7. QED
      BY <2>5, <2>6
  <1>5. \A i \in Next1' .. Len(sent) : Size(i)' = Size(i)
    BY <1>1 DEF Size
  <1>6. \A i : FrameUnits(sent[i], i)' = FrameUnits(sent[i], i)
    BY <1>1 DEF FrameUnits, Blank, Payload
  <1>7. ASSUME NEW i \in (Next1 .. Len(sent))'
        PROVE  (/\ shifted[i + 1] = shifted[i] + Size(i)
                /\ shifted[i + 1] <= Len(input) + 1
                /\ \A k \in 1 .. Size(i) : shifted[i] + k - 1 >= 1 =>
                      input[shifted[i] + k - 1] = FrameUnits(sent[i], i)[k])'
    <2>1. i \in Next1' .. Len(sent) /\ Size(i)' = Size(i)
          /\ FrameUnits(sent[i], i)' = FrameUnits(sent[i], i)
      BY <1>1, <1>5, <1>6, <1>7
    <2>2. /\ shifted[i + 1] = shifted[i] + Size(i)
          /\ shifted[i + 1] <= Len(input') + 1
          /\ \A k \in 1 .. Size(i) : shifted[i] + k - 1 >= 1 =>
                input'[shifted[i] + k - 1] = FrameUnits(sent[i], i)[k]
      BY <1>4, <2>1
    <2> HIDE DEF Size, FrameUnits
    <2>3. QED
      BY <2>1, <2>2
  <1>8. QED
    BY <1>1, <1>3, <1>7 DEF LaidOut

\* The frame that is read and the one line of it that is next.
LEMMA NextUnit ==
  ASSUME LoopTypes, NEW start, LaidOut(start), Len(pulled) <= Len(sent),
         Len(input) > 0, start[Next1] <= 1
  PROVE  /\ Next1 \in 1 .. Len(sent)
         /\ \A k \in 1 .. Size(Next1) : start[Next1] + k - 1 >= 1 =>
               input[start[Next1] + k - 1] = FrameUnits(sent[Next1], Next1)[k]
  <1>1. Len(sent) \in Nat /\ Len(input) \in Nat /\ Len(pulled) \in Nat
    BY DEF LoopTypes
  <1>2. Next1 # Len(sent) + 1
    BY <1>1 DEF LaidOut
  <1>3. Next1 \in 1 .. Len(sent) /\ Next1 \in Next1 .. Len(sent)
    BY <1>1, <1>2 DEF Next1
  <1>4. QED
    BY <1>3 DEF LaidOut

\* A header line or the blank line is read.
LEMMA InStepReadHeader ==
  ASSUME Types, InStep, AllDeclared, ReadHeader
  PROVE  pc' # "ended" /\ \E start : LaidOut(start)' /\ Position(start)'
  <1>1. pc = "headers" /\ sent' = sent /\ pulled' = pulled /\ LoopTypes
    BY DEF ReadHeader, Types
  <1>2. PICK start : LaidOut(start) /\ Position(start)
    BY <1>1 DEF InStep
  <1>3. /\ FirstLineEnd \in 1 .. Len(input)
        /\ ~IsPayload(input[1]) => FirstLineEnd = 1
        /\ Len(input') = Len(input) - FirstLineEnd
        /\ \A a \in 1 .. Len(input') : input'[a] = input[a + FirstLineEnd]
    BY <1>1, ReadLine
  <1>4. /\ Len(sent) \in Nat /\ Len(input) \in Nat /\ Len(pulled) \in Nat /\ Len(pulled) <= Len(sent)
        /\ length \in Nat
    BY DEF Types, LoopTypes, InStep
  <1> DEFINE n == Next1
             lines == 1 - start[n]
             h == sent[n].heading
  <1>5. n \in n .. Len(sent) + 1 /\ start[n] \in Int
    BY <1>2, <1>4 DEF Next1, LaidOut
  <1>6. lines \in Nat
    BY <1>1, <1>2, <1>5 DEF Position
  <1>7. /\ n \in 1 .. Len(sent)
        /\ \A k \in 1 .. Size(n) : start[n] + k - 1 >= 1 =>
              input[start[n] + k - 1] = FrameUnits(sent[n], n)[k]
    <2>1. start[n] <= 1 /\ Len(input) > 0
      BY <1>3, <1>4, <1>5, <1>6
    <2>2. QED
      BY <1>1, <1>2, <1>4, <2>1, NextUnit
  <1>8. /\ lines <= Len(h)
        /\ \A k \in 1 .. lines : Settles(h, k) => length = PayloadSize
    <2>1. Next1 <= Len(sent) /\ pc = "headers"
      BY <1>1, <1>4, <1>7
    <2>2. QED
      BY <1>2, <2>1 DEF Position
  <1>9. /\ n \in Nat /\ sent[n] \in Frame /\ h \in Seq(Line) /\ Len(h) \in Nat
        /\ Size(n) = Len(h) + 1 + PayloadSize
    BY <1>1, <1>7, SentTypes
  <1>10. input[1] = FrameUnits(sent[n], n)[lines + 1]
    <2>1. start[n] = 1 - lines
      BY <1>5
    <2> HIDE DEF lines, n, h
    <2>2. lines + 1 \in 1 .. Size(n) /\ start[n] + (lines + 1) - 1 = 1
      BY <1>6, <1>8, <1>9, <2>1, FrameAssumption
    <2>3. QED
      BY <1>7, <2>2
  <1>11. PICK settled \in 1 .. Len(h) : Settles(h, settled)
    BY <1>7, <1>9, SettledIfDeclared DEF AllDeclared
  <1>12. PICK shifted : shifted = [i \in n .. Len(sent) + 1 |-> start[i] - 1]
    OBVIOUS
  <1>13. ASSUME FirstLineEnd = 1
         PROVE  LaidOut(shifted)' /\ Next1' = n /\ 1 - shifted[n] = lines + 1
    <2>1. Next1' = Next1
      BY <1>1 DEF Next1
    <2>2. Next1' \in Next1 .. Len(sent) + 1 /\ Next1 \in Nat
      BY <1>4, <1>5, <1>9, <2>1
    <2>3. LaidOut(shifted)'
      BY <1>1, <1>2, <1>3, <1>12, <1>13, <2>1, <2>2, LayoutShifts DEF Closer, UnitsRead
    <2>4. QED
      BY <1>5, <1>12, <2>1, <2>3
  <1>14. CASE lines < Len(h)
    <2> DEFINE k == lines + 1
    <2>1. k \in 1 .. Len(h) /\ input[1] = h[k] /\ h[k] \in Line
      <3>1. \A j \in 1 .. Len(h) : FrameUnits(sent[n], n)[j] = h[j] /\ h[j] \in Line
        BY <1>9, FrameParts
      <3>2. k \in 1 .. Len(h)
        BY <1>6, <1>9, <1>14
      <3>3. QED
        BY <1>10, <3>1, <3>2
    <2>2. FirstLineEnd = 1 /\ LineRead = h[k]
      BY <1>3, <2>1, LineNames DEF LineRead
    <2>3. h[k].name # "blank" /\ (h[k].name = "length" => h[k].value \in Int /\ h[k].value >= 0)
      BY <1>11, <2>1, LineNames DEF Settles, Unit
    <2>4. /\ pc' = "headers"
          /\ length' = IF h[k].name = "length" THEN h[k].value ELSE length
      <3> DEFINE line == h[k]
      <3>1. LineRead = line /\ line.name # "blank"
            /\ (line.name = "length" => line.value \in Int /\ line.value >= 0)
        BY <2>2, <2>3
      <3> HIDE DEF line
      <3>2. CASE line.name = "length"
        <4>1. HeaderEffect(line) = [pc |-> "headers", length |-> line.value]
          BY <3>1, <3>2 DEF HeaderEffect
        <4>2. QED
          BY <3>1, <3>2, <4>1 DEF ReadHeader, line
      <3>3. CASE line.name # "length"
        <4>1. HeaderEffect(line) = [pc |-> "headers", length |-> length]
          BY <3>1, <3>3 DEF HeaderEffect
        <4>2. QED
          BY <3>1, <3>3, <4>1 DEF ReadHeader, line
      <3>4. QED
        BY <3>2, <3>3
    <2>5. ASSUME NEW j \in 1 .. k, Settles(h, j)
          PROVE  length' = PayloadSize
      <3>1. CASE j = k
        BY <2>4, <2>5, <3>1 DEF Settles, LastLength
      <3>2. CASE j < k
        <4>1. length = PayloadSize
          BY <1>6, <1>8, <2>5, <3>2
        <4>2. h[k].name = "length" => h[k] = LastLength
          BY <2>1, <2>5, <3>2 DEF Settles
        <4>3. QED
          BY <2>4, <4>1, <4>2 DEF LastLength
      <3>3. QED
        BY <1>6, <2>1, <3>1, <3>2
    <2>6. Position(shifted)'
      <3>1. /\ Next1' = n /\ 1 - shifted[n] = k /\ k >= 0 /\ k <= Len(h)
        BY <1>13, <2>1, <2>2
      <3>2. \A j \in 1 .. k : Settles(h, j) => length' = PayloadSize
        BY <2>5
      <3>3. \A j : Settles(h, j)' <=> Settles(h, j)
        BY <1>1, <3>1 DEF Settles, LastLength
      <3> HIDE DEF k, n
      <3>4. QED
        BY <1>1, <2>4, <3>1, <3>2, <3>3 DEF Position
    <2>7. QED
      BY <1>13, <2>2, <2>4, <2>6
  <1>15. CASE lines = Len(h)
    <2>1. input[1] = Blank
      BY <1>9, <1>10, <1>15, FrameParts
    <2>2. FirstLineEnd = 1 /\ LineRead = Blank
      BY <1>3, <2>1, LineNames DEF LineRead
    <2>3. length = PayloadSize /\ length # 0
      BY <1>8, <1>11, <1>15, FrameAssumption
    <2>4. pc' = "payload" /\ length' = PayloadSize
      BY <2>2, <2>3 DEF ReadHeader, HeaderEffect, Blank
    <2>5. Next1' = n /\ 1 - shifted[n] = Len(h) + 1 /\ n <= Len(sent)
      BY <1>7, <1>13, <1>15, <2>2
    <2>6. Position(shifted)'
      <3> HIDE DEF n
      <3>1. QED
        BY <1>1, <2>4, <2>5 DEF Position
    <2>7. QED
      BY <1>13, <2>2, <2>4, <2>6
  <1>16. QED
    BY <1>6, <1>8, <1>9, <1>14, <1>15

\* A payload of the declared size is pulled: it is the next one.
LEMMA InStepPullPayload ==
  ASSUME Types, InStep, AllDeclared, PullPayload
  PROVE  /\ pulled' = [i \in 1 .. Len(pulled') |-> Payload(i)]
         /\ Len(pulled') <= Len(sent)
         /\ \E start : LaidOut(start)' /\ Position(start)'
  <1>1. pc = "payload" /\ sent' = sent /\ LoopTypes
    BY DEF PullPayload, Types
  <1>2. PICK start : LaidOut(start) /\ Position(start)
    BY <1>1 DEF InStep
  <1>3. /\ Fragment \in Seq(Unit) /\ Len(Fragment) = length
        /\ length \in 1 .. Len(input)
        /\ \A a \in 1 .. length : Fragment[a] = input[a]
        /\ Len(input') = Len(input) - length
        /\ \A a \in 1 .. Len(input') : input'[a] = input[a + length]
        /\ pulled' = Append(pulled, Fragment)
        /\ pc' \in {"loop", "push"}
    BY Pull
  <1>4. /\ Len(sent) \in Nat /\ Len(input) \in Nat /\ Len(pulled) \in Nat
        /\ Len(pulled) <= Len(sent) /\ length \in Nat /\ pulled \in Seq(Seq(Unit))
        /\ pulled = [i \in 1 .. Len(pulled) |-> Payload(i)]
    BY DEF Types, LoopTypes, InStep
  <1> DEFINE n == Next1
             h == sent[n].heading
  <1>5. n <= Len(sent) /\ 1 - start[n] = Len(h) + 1 /\ length = PayloadSize
    BY <1>1, <1>2 DEF Position
  <1>6. n \in 1 .. Len(sent) /\ n = Len(pulled) + 1 /\ n \in n .. Len(sent) + 1 /\ n \in n .. Len(sent)
    BY <1>4, <1>5 DEF Next1
  <1>7. /\ n \in Nat /\ sent[n] \in Frame /\ Len(h) \in Nat
        /\ Size(n) = Len(h) + 1 + PayloadSize
    BY <1>1, <1>6, SentTypes
  <1>8. /\ start[n] \in Int /\ n + 1 \in n .. Len(sent) + 1
        /\ start[n + 1] = start[n] + Size(n)
        /\ \A k \in 1 .. Size(n) : start[n] + k - 1 >= 1 =>
              input[start[n] + k - 1] = FrameUnits(sent[n], n)[k]
    <2>1. n + 1 \in n .. Len(sent) + 1
      BY <1>4, <1>6, <1>7
    <2> HIDE DEF n
    <2>2. start[n] \in Int
      BY <1>2, <1>6 DEF LaidOut, n
    <2>3. QED
      BY <1>2, <1>6, <2>1, <2>2 DEF LaidOut, n
  <1>9. start[n] = 0 - Len(h)
    BY <1>5, <1>7, <1>8
  <1>10. ASSUME NEW a \in 1 .. PayloadSize
         PROVE  Fragment[a] = Payload(n)[a]
    <2>1. Payload(n)[a] = FrameUnits(sent[n], n)[Len(h) + 1 + a]
      <3>1. Payload(n)[a] = [name |-> "payload", frame |-> n, part |-> a]
        BY <1>7, PayloadUnits
      <3>2. FrameUnits(sent[n], n)[Len(h) + 1 + a] = [name |-> "payload", frame |-> n, part |-> a]
        BY <1>7, FrameParts
      <3>3. QED
        BY <3>1, <3>2
    <2> DEFINE k == Len(h) + 1 + a
    <2>2. k \in 1 .. Size(n) /\ start[n] + k - 1 = a /\ a >= 1
      BY <1>7, <1>9, FrameAssumption
    <2> HIDE DEF k
    <2>3. input[a] = FrameUnits(sent[n], n)[k]
      BY <1>8, <2>2
    <2>4. QED
      BY <1>3, <1>5, <2>1, <2>3 DEF k
  <1>11. Fragment = Payload(n)
    <2>1. Payload(n) \in Seq(Unit) /\ Len(Payload(n)) = PayloadSize
      BY <1>7, PayloadUnits
    <2> HIDE DEF n
    <2>2. QED
      BY <1>3, <1>5, <1>10, <2>1, SeqEqual
  <1>12. /\ Len(pulled') = n
         /\ \A k \in 1 .. Len(pulled) : pulled'[k] = pulled[k]
         /\ pulled'[n] = Payload(n) /\ pulled' \in Seq(Seq(Unit))
    BY <1>3, <1>4, <1>6, <1>11, AppendProperties
  <1>13. pulled' = [i \in 1 .. Len(pulled') |-> Payload(i)]
    <2>1. \A k \in 1 .. n : pulled'[k] = Payload(k)
      <3>1. \A k \in 1 .. Len(pulled) : pulled[k] = Payload(k)
        BY <1>4
      <3>2. \A k \in 1 .. n : k \in 1 .. Len(pulled) \/ k = n
        BY <1>4, <1>6
      <3>3. QED
        BY <1>12, <3>1, <3>2
    <2>2. DOMAIN pulled' = 1 .. n /\ pulled' = [k \in DOMAIN pulled' |-> pulled'[k]]
      BY <1>12, LenProperties
    <2> HIDE DEF n
    <2>3. QED
      BY <1>12, <2>1, <2>2
  <1>14. PICK shifted : shifted = [i \in n + 1 .. Len(sent) + 1 |-> start[i] - length]
    OBVIOUS
  <1>15. Next1' = n + 1 /\ Next1' \in Next1 .. Len(sent) + 1 /\ Next1 \in Nat
    BY <1>6, <1>7, <1>12 DEF Next1
  <1>16. LaidOut(shifted)'
    BY <1>1, <1>2, <1>3, <1>4, <1>14, <1>15, LayoutShifts DEF Closer, UnitsRead
  <1>17. shifted[n + 1] = 1
    <2>1. n + 1 \in n + 1 .. Len(sent) + 1
      BY <1>6, <1>7
    <2>2. shifted[n + 1] = start[n + 1] - length
      BY <1>14, <2>1
    <2>3. QED
      BY <1>5, <1>7, <1>8, <1>9, <2>2, FrameAssumption
  <1>18. Position(shifted)'
    BY <1>3, <1>15, <1>17 DEF Position
  <1>19. QED
    BY <1>6, <1>12, <1>13, <1>16, <1>18

\* The client sends one more frame.
LEMMA InStepClientSends ==
  ASSUME Types, InStep, AllDeclared, pc # "ended", ClientSends
  PROVE  \E start : LaidOut(start)' /\ Position(start)'
  <1>1. PICK frame \in Frame :
           /\ sent' = Append(sent, frame)
           /\ input' = input \o FrameUnits(frame, Len(sent) + 1)
    BY DEF ClientSends, Frame
  <1>2. Len(sent) < MaxFrames /\ UNCHANGED <<pulled, pc, length>> /\ LoopTypes
    BY DEF ClientSends, loopVars, Types
  <1>3. PICK start : LaidOut(start) /\ Position(start)
    BY DEF InStep
  <1> DEFINE m == Len(sent)
             size == Len(frame.heading) + 1 + PayloadSize
  <1>4. /\ m \in Nat /\ Len(input) \in Nat /\ Len(pulled) \in Nat /\ Len(pulled) <= m
        /\ Len(frame.heading) \in Nat
    BY <1>1, <1>2, FrameAssumption DEF LoopTypes, InStep, Frame
  <1>5. /\ Len(sent') = m + 1 /\ sent'[m + 1] = frame
        /\ \A j \in 1 .. m : sent'[j] = sent[j]
        /\ Len(input') = Len(input) + size
        /\ \A a \in 1 .. Len(input) : input'[a] = input[a]
        /\ \A k \in 1 .. size : input'[Len(input) + k] = FrameUnits(frame, m + 1)[k]
    <2>1. Len(input') = Len(input) + Len(frame.heading) + 1 + PayloadSize
      BY <1>1, <1>2, SentFrame
    <2>2. Len(input') = Len(input) + size
      BY <1>4, <2>1, FrameAssumption
    <2>3. QED
      BY <1>1, <1>2, <2>2, SentFrame
  <1> HIDE DEF m, size
  <1>6. /\ Next1' = Next1 /\ Next1 \in Nat \ {0} /\ Next1 <= m + 1
        /\ size \in Nat
    BY <1>2, <1>4, FrameAssumption DEF Next1, size
  <1>7. /\ start \in [Next1 .. m + 1 -> Int] /\ start[m + 1] = Len(input) + 1
        /\ \A i \in Next1 .. m :
              /\ start[i + 1] = start[i] + Size(i) /\ start[i + 1] <= Len(input) + 1
              /\ \A k \in 1 .. Size(i) : start[i] + k - 1 >= 1 =>
                    input[start[i] + k - 1] = FrameUnits(sent[i], i)[k]
    BY <1>3 DEF LaidOut, m
  <1>8. PICK longer : longer =
           [i \in Next1 .. m + 2 |-> IF i = m + 2 THEN Len(input') + 1 ELSE start[i]]
    OBVIOUS
  <1>9. /\ \A i \in Next1 .. m + 1 : longer[i] = start[i]
        /\ longer[m + 2] = Len(input') + 1
        /\ longer \in [Next1 .. m + 2 -> Int]
    <2>1. \A i \in Next1 .. m + 1 : i \in Next1 .. m + 2 /\ i # m + 2
      BY <1>4, <1>6
    <2>2. m + 2 \in Next1 .. m + 2
      BY <1>4, <1>6
    <2>3. \A i \in Next1 .. m + 2 : i \in Next1 .. m + 1 \/ i = m + 2
      BY <1>4, <1>6
    <2>4. Len(input') + 1 \in Int
      BY <1>4, <1>5, <1>6
    <2>5. \A i \in Next1 .. m + 1 : start[i] \in Int
      BY <1>7
    <2>6. QED
      BY <1>8, <2>1, <2>2, <2>3, <2>4, <2>5
  <1>10. \A i \in 1 .. m : Size(i)' = Size(i) /\ FrameUnits(sent[i], i)' = FrameUnits(sent[i], i)
    <2>1. ASSUME NEW i \in 1 .. m
          PROVE  Size(i)' = Size(i) /\ FrameUnits(sent[i], i)' = FrameUnits(sent[i], i)
      <3>1. sent'[i] = sent[i]
        BY <1>5, <2>1
      <3>2. QED
        BY <3>1 DEF Size, FrameUnits, Blank, Payload
    <2>2. QED
      BY <2>1
  <1>11. ASSUME NEW i \in Next1 .. m + 1
         PROVE  (/\ longer[i + 1] = longer[i] + Size(i)
                 /\ longer[i + 1] <= Len(input) + 1
                 /\ \A k \in 1 .. Size(i) : longer[i] + k - 1 >= 1 =>
                       input[longer[i] + k - 1] = FrameUnits(sent[i], i)[k])'
    <2>1. CASE i = m + 1
      <3>1. i + 1 = m + 2
        BY <1>4, <2>1
      <3>2. longer[i] = Len(input) + 1 /\ longer[i + 1] = Len(input) + size + 1
        BY <1>5, <1>7, <1>9, <2>1, <3>1
      <3>3. Size(i)' = size
        BY <1>5, <2>1 DEF Size, size
      <3>4. FrameUnits(sent[i], i)' = FrameUnits(frame, m + 1)
        BY <1>5, <2>1 DEF FrameUnits, Blank, Payload
      <3>5. ASSUME NEW k \in 1 .. size
            PROVE  input'[longer[i] + k - 1] = FrameUnits(frame, m + 1)[k]
        <4>1. longer[i] + k - 1 = Len(input) + k
          BY <1>4, <1>6, <3>2
        <4>2. QED
          BY <1>5, <4>1
      <3>6. longer[i + 1] = longer[i] + size /\ longer[i + 1] <= Len(input') + 1
        BY <1>4, <1>5, <1>6, <3>2
      <3> HIDE DEF Size, FrameUnits
      <3>7. QED
        BY <3>3, <3>4, <3>5, <3>6
    <2>2. CASE i \in Next1 .. m
      <3>1. /\ i \in 1 .. m /\ i \in Next1 .. m + 1 /\ i + 1 \in Next1 .. m + 1
        BY <1>4, <1>6, <2>2
      <3>2. longer[i] = start[i] /\ longer[i + 1] = start[i + 1] /\ start[i] \in Int
        BY <1>7, <1>9, <3>1
      <3>3. /\ start[i + 1] = start[i] + Size(i) /\ start[i + 1] <= Len(input) + 1
        BY <1>7, <2>2
      <3>4. Size(i) \in Nat
        BY <1>2, <3>1, SentTypes DEF m
      <3>5. Size(i)' = Size(i) /\ FrameUnits(sent[i], i)' = FrameUnits(sent[i], i)
        BY <1>10, <3>1
      <3>6. longer[i + 1] = longer[i] + Size(i) /\ longer[i + 1] <= Len(input') + 1
        BY <1>4, <1>5, <1>6, <3>2, <3>3, <3>4
      <3>7. ASSUME NEW k \in 1 .. Size(i), longer[i] + k - 1 >= 1
            PROVE  input'[longer[i] + k - 1] = FrameUnits(sent[i], i)[k]
        <4> DEFINE b == start[i] + k - 1
        <4>1. b >= 1 => input[b] = FrameUnits(sent[i], i)[k]
          BY <1>7, <2>2
        <4>2. b \in 1 .. Len(input)
          BY <1>4, <3>2, <3>3, <3>4, <3>7
        <4> HIDE DEF b
        <4>3. input'[b] = FrameUnits(sent[i], i)[k]
          BY <1>5, <4>1, <4>2
        <4>4. QED
          BY <3>2, <4>3 DEF b
      <3> HIDE DEF Size, FrameUnits
      <3>8. QED
        BY <3>5, <3>6, <3>7
    <2>3. QED
      BY <1>4, <1>6, <2>1, <2>2
  <1>12. LaidOut(longer)'
    <2>1. Len(sent') + 1 = m + 2 /\ Next1' .. Len(sent') = Next1 .. m + 1
      BY <1>4, <1>5, <1>6
    <2> HIDE DEF Size, FrameUnits, Next1
    <2>2. QED
      BY <1>6, <1>9, <1>11, <2>1 DEF LaidOut
  <1>13. Position(longer)'
    <2>1. longer[Next1] = start[Next1] /\ start[Next1] \in Int
      <3>1. Next1 \in Next1 .. m + 1
        BY <1>4, <1>6
      <3>2. QED
        BY <1>7, <1>9, <3>1
    <2>2. CASE Next1 <= m
      <3>1. sent'[Next1] = sent[Next1] /\ Next1 <= Len(sent) /\ Next1 <= Len(sent')
        <4>1. Next1 \in 1 .. m
          BY <1>4, <1>6, <2>2
        <4>2. QED
          BY <1>4, <1>5, <2>2, <4>1 DEF m
      <3> HIDE DEF Next1
      <3>2. QED
        BY <1>2, <1>3, <1>6, <2>1, <3>1 DEF Position
    <2>3. CASE Next1 = m + 1
      <3>1. start[Next1] = Len(input) + 1 /\ ~(Next1 <= Len(sent)) /\ Next1 = Len(sent')
        BY <1>4, <1>5, <1>7, <2>3 DEF m
      <3>2. sent'[Next1] = frame
        BY <1>5, <2>3
      <3> HIDE DEF Next1
      <3>3. CASE pc = "headers"
        <4>1. 1 - longer[Next1] = 0
          BY <1>3, <1>4, <2>1, <3>1, <3>3 DEF Position
        <4>2. 1 .. 0 = {}
          OBVIOUS
        <4>3. QED
          BY <1>2, <1>4, <1>6, <3>1, <3>2, <3>3, <4>1, <4>2 DEF Position
      <3>4. CASE pc # "headers"
        BY <1>2, <1>3, <1>6, <2>1, <3>1, <3>4 DEF Position
      <3>5. QED
        BY <3>3, <3>4
    <2>4. QED
      BY <1>4, <1>6, <2>2, <2>3
  <1>14. QED
    BY <1>12, <1>13

\* The frames that declared their size before a step do so after it.
LEMMA DeclaredBefore ==
  ASSUME Types, [Next]_vars, AllDeclared'
  PROVE  AllDeclared
  <1>0. AllDeclared'
    OBVIOUS
  <1>1. CASE ClientSends
    <2>1. PICK frame \in Frame : sent' = Append(sent, frame)
      BY <1>1 DEF ClientSends, Frame
    <2>2. Len(sent') = Len(sent) + 1 /\ \A j \in 1 .. Len(sent) : sent'[j] = sent[j]
      BY <2>1, AppendProperties DEF Types, LoopTypes
    <2>3. \A j \in 1 .. Len(sent) : j \in 1 .. Len(sent')
      BY <2>2 DEF Types, LoopTypes
    <2>4. \A j \in 1 .. Len(sent) : WellDeclared(sent[j])
      <3>1. \A j \in 1 .. Len(sent') : WellDeclared(sent'[j])
        BY <1>0 DEF AllDeclared
      <3>2. QED
        BY <2>2, <2>3, <3>1
    <2>5. QED
      BY <2>4 DEF AllDeclared
  <1>2. CASE UNCHANGED sent
    BY <1>2 DEF AllDeclared, WellDeclared
  <1>3. ClientSends \/ UNCHANGED sent
    BY DEF Next, Listen, ClientCloses, CheckStop, ReadHeader, HeaderAtEof, PullPayload, PayloadFails,
       HandlerReturns, Destroy, TakeTask, Pushing, LockOutput, WriteHeader, WritePayload, WritePart,
       Flush, PushFails, vars, inputVars
  <1>4. QED
    BY <1>1, <1>2, <1>3

LEMMA LaidOutFrame ==
  ASSUME NEW start, LaidOut(start), UNCHANGED <<sent, input, pulled>>
  PROVE  LaidOut(start)' /\ Next1' = Next1
  BY DEF LaidOut, Next1, Size, FrameUnits, Blank, Payload

LEMMA InStepStep ==
  ASSUME Types, InStep, [Next]_vars
  PROVE  InStep'
  <1> DEFINE InStepAfter ==
                /\ pulled' = [i \in 1 .. Len(pulled') |-> Payload(i)]
                /\ Len(pulled') <= Len(sent')
                /\ pc' # "ended" => \E start : LaidOut(start)' /\ Position(start)'
  <1>1. SUFFICES ASSUME AllDeclared'
                 PROVE  InStepAfter
    BY PrimedInput DEF InStep, Payload
  <1>2. AllDeclared
    BY <1>1, DeclaredBefore
  <1>3. /\ pulled = [i \in 1 .. Len(pulled) |-> Payload(i)]
        /\ Len(pulled) <= Len(sent)
        /\ pc # "ended" => \E start : LaidOut(start) /\ Position(start)
    BY <1>2 DEF InStep
  <1>4. CASE ClientSends
    <2>1. UNCHANGED <<pulled, pc>> /\ Len(pulled') <= Len(sent')
      <3>1. PICK frame \in Frame : sent' = Append(sent, frame)
        BY <1>4 DEF ClientSends, Frame
      <3>2. Len(sent') = Len(sent) + 1 /\ Len(sent) \in Nat /\ Len(pulled) \in Nat
        BY <3>1, AppendProperties DEF Types, LoopTypes
      <3>3. UNCHANGED <<pulled, pc>>
        BY <1>4 DEF ClientSends, loopVars
      <3>4. QED
        BY <1>3, <3>2, <3>3
    <2>2. QED
      BY <1>2, <1>3, <1>4, <2>1, InStepClientSends
  <1>5. CASE ReadHeader
    <2>1. UNCHANGED <<sent, pulled>>
      BY <1>5 DEF ReadHeader
    <2>2. QED
      BY <1>2, <1>3, <1>5, <2>1, InStepReadHeader
  <1>6. CASE PullPayload
    <2>1. sent' = sent
      BY <1>6 DEF PullPayload
    <2>2. QED
      BY <1>2, <1>6, <2>1, InStepPullPayload
  <1>7. CASE UNCHANGED <<sent, pulled>> /\ pc' = "ended"
    BY <1>3, <1>7
  <1>8. CASE CheckStop
    <2>1. UNCHANGED <<sent, input, pulled>> /\ pc = "loop" /\ pc' \in {"ended", "headers"}
      BY <1>8 DEF CheckStop, inputVars
    <2>2. PICK start : LaidOut(start) /\ Position(start)
      BY <1>3, <2>1
    <2>3. LaidOut(start)' /\ Next1' = Next1 /\ start[Next1] = 1
      BY <2>1, <2>2, LaidOutFrame DEF Position
    <2>4. pc' = "headers" => Position(start)'
      <3>1. Next1 <= Len(sent) => Len(sent[Next1].heading) \in Nat
        <4>1. Len(sent) \in Nat /\ Len(pulled) \in Nat /\ LoopTypes
          BY DEF Types, LoopTypes
        <4>2. Next1 <= Len(sent) => Next1 \in 1 .. Len(sent)
          BY <4>1 DEF Next1
        <4>3. QED
          BY <4>1, <4>2, SentTypes
      <3>2. 1 - start[Next1] = 0 /\ 1 .. 0 = {}
        BY <2>3
      <3> HIDE DEF Next1
      <3>3. QED
        BY <2>1, <2>3, <3>1, <3>2 DEF Position
    <2>5. QED
      BY <1>3, <2>1, <2>3, <2>4
  <1>9. CASE UNCHANGED <<sent, input, pulled>> /\ (UNCHANGED <<pc, length>> \/ (pc = "push" /\ pc' = "loop"))
    <2>1. CASE pc = "ended"
      BY <1>3, <1>9, <2>1
    <2>2. CASE pc # "ended"
      <3>1. PICK start : LaidOut(start) /\ Position(start)
        BY <1>3, <2>2
      <3>2. LaidOut(start)' /\ Next1' = Next1
        BY <1>9, <3>1, LaidOutFrame
      <3> HIDE DEF Next1
      <3>3. Position(start)'
        BY <1>9, <3>1, <3>2 DEF Position, Settles, LastLength
      <3>4. QED
        BY <1>3, <1>9, <3>2, <3>3
    <2>3. QED
      BY <2>1, <2>2
  <1>10. \/ ClientSends \/ ReadHeader \/ PullPayload \/ CheckStop
         \/ UNCHANGED <<sent, pulled>> /\ pc' = "ended"
         \/ /\ UNCHANGED <<sent, input, pulled>>
            /\ UNCHANGED <<pc, length>> \/ (pc = "push" /\ pc' = "loop")
    BY DEF Next, Listen, ClientCloses, HeaderAtEof, PayloadFails, HandlerReturns, Destroy, TakeTask,
       Pushing, LockOutput, WriteHeader, WritePayload, WritePart, Flush, PushFails, vars, inputVars,
       loopVars
  <1> HIDE DEF InStepAfter
  <1>11. QED
    BY <1>4, <1>5, <1>6, <1>7, <1>8, <1>9, <1>10

-----------------------------------------------------------------------------
LEMMA InitInv ==
  ASSUME Init
  PROVE  IInv
  <1> USE DEF Init
  <1>1. Types
    <2>1. \A t \in Threads : push[t] = Idle /\ Idle.at \notin Writing /\ mutex # t
      BY MainIsNoWorker DEF Idle, Writing, Threads
    <2>2. LoopTypes
      <3>1. sent \in Seq(Frame) /\ input \in Seq(Unit) /\ pulled \in Seq(Seq(Unit)) /\ Len(sent) = 0
        <4>1. \A S : <<>> \in Seq(S)
          BY EmptySeq
        <4>2. QED
          BY <4>1
      <3>2. MaxFrames \in Nat /\ Len(sent) <= MaxFrames
        BY FrameAssumption
      <3>3. QED
        BY <3>1, <3>2 DEF LoopTypes
    <2>3. PushTypes
      <3>1. output \in Seq([part : {"header", "payload"}, what : Outgoing])
        BY EmptySeq
      <3>2. push \in [Threads -> {Idle} \cup Active] /\ push[Main] = Idle
        BY DEF Threads
      <3>3. QED
        BY <2>1, <3>1, <3>2 DEF PushTypes
    <2>4. QED
      BY <2>2, <2>3 DEF Types
  <1>2. OutputInv
    BY DEF OutputInv, Idle
  <1>3. InputInv
    BY DEF InputInv
  <1>4. AnswerInv
    BY DEF AnswerInv, AnswersArePulled, AnswersInOnePlace, Headers, HeaderAhead, Idle
  <1>5. InStep
    <2>1. pulled = [i \in 1 .. Len(pulled) |-> Payload(i)] /\ Len(pulled) = 0 /\ Len(sent) = 0
      OBVIOUS
    <2>2. PICK start : start = [i \in 1 .. 1 |-> 1]
      OBVIOUS
    <2>3. LaidOut(start) /\ Position(start)
      BY <2>2 DEF LaidOut, Position, Next1
    <2>4. QED
      BY <2>1, <2>3 DEF InStep
  <1>6. QED
    BY <1>1, <1>2, <1>3, <1>4, <1>5 DEF IInv

\* The strengthened invariant holds of every behaviour of the server.
THEOREM Inductive == Spec => []IInv
  <1>1. Init => IInv
    BY InitInv
  <1>2. IInv /\ [Next]_vars => IInv'
    BY TypesStep, OutputStep, InputStep, AnswerStep, InStepStep DEF IInv
  <1>3. QED
    BY <1>1, <1>2, PTL DEF Spec

\* Every variable has its type, and whoever writes to the output holds the
\* mutex of PushMessage: no two threads write at the same time.
THEOREM TypeCorrect == Spec => []TypeOK
  <1>1. IInv => TypeOK
    <2>1. SUFFICES ASSUME LoopTypes, PushTypes
                   PROVE  TypeOK
      BY DEF IInv, Types
    <2>2. \A t \in Threads : push[t] = Idle \/ push[t].what \in Outgoing
      BY <2>1 DEF PushTypes, Active
    <2>3. \A t \in Threads : push[t].at \in {"header", "payload", "flush"} <=> mutex = t
      BY <2>1 DEF PushTypes, Writing
    <2>4. QED
      BY <2>1, <2>2, <2>3 DEF TypeOK, LoopTypes, PushTypes
  <1>2. QED
    BY <1>1, Inductive, PTL

\* Until a write fails, the client can cut the output into frames: a header is
\* followed by its own payload, however many threads push (PushMessage).
THEOREM WholeFrames == Spec => []OutputFramed
  <1>1. IInv => OutputFramed
    BY DEF IInv, OutputInv, OutputFramed
  <1>2. QED
    BY <1>1, Inductive, PTL

\* No request is answered twice, and none that was not pulled whole, whether
\* the loop's thread or a worker of the pool answers it.
THEOREM OneAnswer == Spec => []AnsweredOnce
  <1>1. IInv => AnsweredOnce
    <2>1. SUFFICES ASSUME IInv, NEW i \in 1 .. Len(output), NEW j \in 1 .. Len(output),
                          output[i].part = "header"
                   PROVE  /\ \E k \in 1 .. Len(pulled) : pulled[k] = Payload(output[i].what.of)
                          /\ output[j] = output[i] => i = j
      BY DEF AnsweredOnce
    <2>2. IsPulled(output[i].what.of)
      BY <2>1 DEF IInv, AnswerInv, AnswersArePulled
    <2>3. output[j] = output[i] => i = j
      BY <2>1 DEF IInv, AnswerInv, AnswersInOnePlace, Headers
    <2>4. QED
      BY <2>2, <2>3 DEF IsPulled
  <1>2. QED
    BY <1>1, Inductive, PTL

\* A client that declares the size of each payload, in a line among others, is
\* understood: PullMessage hands on its payloads whole and in their order.
THEOREM StaysInStep == Spec => []PulledInStep
  <1>1. IInv => PulledInStep
    BY DEF IInv, InStep, AllDeclared, PulledInStep
  <1>2. QED
    BY <1>1, Inductive, PTL

-----------------------------------------------------------------------------
\* The links lead through q and end there.
Path(q, links) ==
    /\ q \in Seq(Tasks)
    /\ \A i, j \in 1 .. Len(q) : q[i] = q[j] => i = j
    /\ \A i \in 1 .. Len(q) : links[q[i]] = IF i < Len(q) THEN q[i + 1] ELSE Null

Linked(q, queue, links) ==
    /\ Path(q, links)
    /\ queue.head = IF q = <<>> THEN Null ELSE q[1]
    /\ queue.tail = IF q = <<>> THEN Null ELSE q[Len(q)]

Links == [Tasks -> Tasks \cup {Null}]

In(q, t) == \E i \in 1 .. Len(q) : q[i] = t

LEMMA PathFacts ==
  ASSUME NEW links, NEW q, Path(q, links)
  PROVE  /\ q \in Seq(Tasks) /\ Len(q) \in Nat /\ DOMAIN q = 1 .. Len(q)
         /\ \A i \in 1 .. Len(q) : q[i] \in Tasks /\ q[i] # Null
         /\ q = <<>> <=> Len(q) = 0
         /\ q # <<>> => Len(q) >= 1 /\ 1 \in 1 .. Len(q) /\ Len(q) \in 1 .. Len(q)
  <1>1. q \in Seq(Tasks) /\ Len(q) \in Nat /\ DOMAIN q = 1 .. Len(q)
    BY LenProperties DEF Path
  <1>2. \A i \in 1 .. Len(q) : q[i] \in Tasks
    BY <1>1, ElementOfSeq
  <1>3. q = <<>> <=> Len(q) = 0
    BY <1>1, EmptySeq
  <1>4. \A n \in Nat : n # 0 => n >= 1 /\ 1 \in 1 .. n /\ n \in 1 .. n
    OBVIOUS
  <1>5. QED
    BY <1>1, <1>2, <1>3, <1>4, NullNodeAssumption

\* push puts a task that is in no queue behind the others.
LEMMA PushLinked ==
  ASSUME NEW links \in Links, NEW queue, NEW q, Linked(q, queue, links),
         NEW t \in Tasks, ~In(q, t)
  PROVE  /\ Linked(Append(q, t), PushQueue(queue, t), PushLinks(queue, links, t))
         /\ \A u : In(Append(q, t), u) <=> In(q, u) \/ u = t
  <1> DEFINE n == Len(q)
             p == Append(q, t)
             after == PushLinks(queue, links, t)
  <1>1. /\ q \in Seq(Tasks) /\ n \in Nat
        /\ \A i \in 1 .. n : q[i] \in Tasks /\ q[i] # Null
        /\ q = <<>> <=> n = 0
    BY PathFacts DEF Linked
  <1>2. /\ p \in Seq(Tasks) /\ Len(p) = n + 1
        /\ \A i \in 1 .. n : p[i] = q[i]
        /\ p[n + 1] = t
        /\ p # <<>>
    BY <1>1, AppendProperties, EmptySeq
  <1>3. /\ \A i, j \in 1 .. n : q[i] = q[j] => i = j
        /\ \A i \in 1 .. n : links[q[i]] = IF i < n THEN q[i + 1] ELSE Null
        /\ queue.head = IF q = <<>> THEN Null ELSE q[1]
        /\ queue.tail = IF q = <<>> THEN Null ELSE q[n]
    BY DEF Linked, Path
  <1>4. \A i \in 1 .. n : q[i] # t
    BY DEF In
  <1> HIDE DEF p
  <1>5. \A i, j \in 1 .. Len(p) : p[i] = p[j] => i = j
    <2>1. \A i \in 1 .. Len(p) : i \in 1 .. n \/ i = n + 1
      BY <1>1, <1>2
    <2>2. QED
      BY <1>2, <1>3, <1>4, <2>1
  <1>6. ASSUME q = <<>>
        PROVE  Linked(p, PushQueue(queue, t), after)
    <2>1. n = 0 /\ queue.tail = Null
      BY <1>1, <1>3, <1>6
    <2>2. /\ PushQueue(queue, t) = [head |-> t, tail |-> t]
          /\ after = [links EXCEPT ![t] = Null]
      BY <2>1 DEF PushQueue, PushLinks
    <2>3. after \in Links /\ after[t] = Null
      BY <2>2 DEF Links
    <2> HIDE DEF after
    <2>4. \A i \in 1 .. Len(p) : i = 1 /\ p[i] = t /\ ~(i < Len(p))
      BY <1>2, <2>1
    <2>5. p[1] = t /\ p[Len(p)] = t
      BY <1>2, <2>1
    <2>6. QED
      BY <1>2, <1>5, <2>2, <2>3, <2>4, <2>5 DEF Linked, Path
  <1>7. ASSUME q # <<>>
        PROVE  Linked(p, PushQueue(queue, t), after)
    <2>1. /\ n \in 1 .. n /\ n >= 1 /\ 1 \in 1 .. n
          /\ queue.tail = q[n] /\ queue.head = q[1] /\ queue.tail # Null
      BY <1>1, <1>3, <1>7
    <2>2. /\ PushQueue(queue, t) = [head |-> q[1], tail |-> t]
          /\ after = [[links EXCEPT ![t] = Null] EXCEPT ![q[n]] = t]
      BY <2>1 DEF PushQueue, PushLinks
    <2>3. q[n] \in Tasks /\ q[1] \in Tasks /\ q[n] # t
      BY <1>1, <1>4, <2>1
    <2>4. /\ after \in Links /\ after[t] = Null /\ after[q[n]] = t
          /\ \A u \in Tasks : u # t /\ u # q[n] => after[u] = links[u]
      BY <2>2, <2>3 DEF Links
    <2> HIDE DEF after
    <2>5. \A i \in 1 .. Len(p) : after[p[i]] = IF i < Len(p) THEN p[i + 1] ELSE Null
      <3>1. SUFFICES ASSUME NEW i \in 1 .. n + 1
                     PROVE  after[p[i]] = IF i < n + 1 THEN p[i + 1] ELSE Null
        BY <1>2
      <3>2. CASE i = n + 1
        BY <1>1, <1>2, <2>4, <3>2
      <3>3. CASE i = n
        BY <1>1, <1>2, <2>1, <2>4, <3>3
      <3>4. CASE i \in 1 .. n - 1
        <4>1. i \in 1 .. n /\ i + 1 \in 1 .. n /\ i # n /\ i < n /\ i < n + 1
          BY <1>1, <3>4
        <4>2. q[i] # t /\ q[i] # q[n] /\ q[i] \in Tasks
          BY <1>1, <1>3, <1>4, <2>1, <4>1
        <4>3. after[q[i]] = q[i + 1] /\ p[i] = q[i] /\ p[i + 1] = q[i + 1]
          BY <1>2, <1>3, <2>4, <4>1, <4>2
        <4>4. QED
          BY <4>1, <4>3
      <3>5. QED
        BY <1>1, <3>1, <3>2, <3>3, <3>4
    <2>6. p[1] = q[1] /\ p[Len(p)] = t
      BY <1>2, <2>1
    <2>7. Path(p, after)
      BY <1>2, <1>5, <2>5 DEF Path
    <2>8. QED
      BY <1>2, <2>2, <2>6, <2>7 DEF Linked
  <1>8. \A u : In(p, u) <=> In(q, u) \/ u = t
    <2>1. \A i \in 1 .. n + 1 : i \in 1 .. n \/ i = n + 1
      BY <1>1
    <2>2. n + 1 \in 1 .. n + 1 /\ \A i \in 1 .. n : i \in 1 .. n + 1
      BY <1>1
    <2>3. QED
      BY <1>2, <2>1, <2>2 DEF In
  <1>9. QED
    BY <1>6, <1>7, <1>8 DEF p

\* The links lead through what is left without the first, too.
LEMMA PathTail ==
  ASSUME NEW links, NEW q, Path(q, links), q # <<>>
  PROVE  /\ Path(Tail(q), links)
         /\ Len(Tail(q)) = Len(q) - 1
         /\ \A i \in 1 .. Len(q) - 1 : Tail(q)[i] = q[i + 1] /\ Tail(q)[i] # q[1]
         /\ Len(q) = 1 => Tail(q) = <<>> /\ links[q[1]] = Null
         /\ Len(q) # 1 => /\ Tail(q) # <<>> /\ links[q[1]] = Tail(q)[1]
                          /\ Tail(q)[Len(q) - 1] = q[Len(q)]
         /\ \A t : In(Tail(q), t) <=> In(q, t) /\ t # q[1]
  <1> DEFINE n == Len(q)
             p == Tail(q)
  <1>1. /\ q \in Seq(Tasks) /\ n \in Nat /\ n >= 1 /\ 1 \in 1 .. n /\ n \in 1 .. n
        /\ \A i, j \in 1 .. n : q[i] = q[j] => i = j
        /\ \A i \in 1 .. n : links[q[i]] = IF i < n THEN q[i + 1] ELSE Null
    BY PathFacts DEF Path
  <1>2. /\ p \in Seq(Tasks) /\ Len(p) = n - 1
        /\ \A i \in 1 .. n - 1 : p[i] = q[i + 1]
        /\ p = <<>> <=> Len(p) = 0
    <2>1. /\ p \in Seq(Tasks) /\ Len(p) = n - 1
          /\ \A i \in 1 .. n - 1 : p[i] = q[i + 1]
      BY <1>1, HeadTailProperties
    <2>2. QED
      BY <2>1, EmptySeq
  <1> HIDE DEF p, n
  <1>3. \A i \in 1 .. n - 1 : i + 1 \in 1 .. n /\ i + 1 # 1 /\ (i + 1 < n <=> i < n - 1)
    BY <1>1
  <1>4. \A i, j \in 1 .. n - 1 : p[i] = p[j] => i = j
    <2>1. ASSUME NEW i \in 1 .. n - 1, NEW j \in 1 .. n - 1, p[i] = p[j]
          PROVE  i = j
      <3>1. i + 1 = j + 1
        BY <1>1, <1>2, <1>3, <2>1
      <3>2. QED
        BY <1>1, <3>1
    <2>2. QED
      BY <2>1
  <1>5. \A i \in 1 .. n - 1 : links[p[i]] = IF i < n - 1 THEN p[i + 1] ELSE Null
    <2>1. SUFFICES ASSUME NEW i \in 1 .. n - 1
                   PROVE  links[q[i + 1]] = IF i < n - 1 THEN p[i + 1] ELSE Null
      BY <1>2
    <2>2. links[q[i + 1]] = IF i + 1 < n THEN q[(i + 1) + 1] ELSE Null
      BY <1>1, <1>3
    <2>3. i < n - 1 => i + 1 \in 1 .. n - 1
      BY <1>1
    <2>4. QED
      BY <1>2, <1>3, <2>2, <2>3
  <1>6. Path(p, links)
    BY <1>2, <1>4, <1>5 DEF Path
  <1>7. \A i \in 1 .. n - 1 : p[i] # q[1]
    BY <1>1, <1>2, <1>3
  <1>8. n = 1 => p = <<>> /\ links[q[1]] = Null
    BY <1>1, <1>2
  <1>9. n # 1 => p # <<>> /\ links[q[1]] = p[1] /\ p[n - 1] = q[n]
    <2>1. SUFFICES ASSUME n # 1
                   PROVE  p # <<>> /\ links[q[1]] = p[1] /\ p[n - 1] = q[n]
      OBVIOUS
    <2>2. /\ 1 < n /\ n - 1 # 0 /\ 1 \in 1 .. n - 1
          /\ n - 1 \in 1 .. n - 1 /\ (n - 1) + 1 = n
      BY <1>1, <2>1
    <2>3. QED
      BY <1>1, <1>2, <2>2
  <1>10. ASSUME NEW t
         PROVE  In(p, t) <=> In(q, t) /\ t # q[1]
    <2>1. ASSUME In(p, t)
          PROVE  In(q, t) /\ t # q[1]
      BY <1>2, <1>3, <1>7, <2>1 DEF In, n
    <2>2. ASSUME In(q, t), t # q[1]
          PROVE  In(p, t)
      <3>1. PICK i \in 1 .. n : q[i] = t
        BY <2>2 DEF In, n
      <3>2. i # 1
        BY <2>2, <3>1
      <3>3. i - 1 \in 1 .. n - 1 /\ (i - 1) + 1 = i
        BY <1>1, <3>2
      <3>4. p[i - 1] = t
        BY <1>2, <3>1, <3>3
      <3>5. QED
        BY <1>2, <3>3, <3>4 DEF In
    <2>3. QED
      BY <2>1, <2>2
  <1>11. QED
    BY <1>2, <1>6, <1>7, <1>8, <1>9, <1>10 DEF p, n

\* pop takes the first away.
LEMMA PopLinked ==
  ASSUME NEW links \in Links, NEW queue, NEW q, Linked(q, queue, links), q # <<>>
  PROVE  /\ Linked(Tail(q), PopQueue(queue, links), PopLinks(queue, links))
         /\ queue.head = q[1] /\ q[1] \in Tasks
  <1> DEFINE n == Len(q)
             p == Tail(q)
             after == PopLinks(queue, links)
  <1>1. /\ Path(q, links) /\ n \in Nat /\ 1 \in 1 .. n /\ n \in 1 .. n
        /\ \A i \in 1 .. n : q[i] \in Tasks /\ q[i] # Null
        /\ queue.head = q[1] /\ queue.tail = q[n]
    BY PathFacts DEF Linked
  <1>2. /\ Path(p, links) /\ Len(p) = n - 1
        /\ \A i \in 1 .. n - 1 : p[i] # q[1]
        /\ n = 1 => p = <<>> /\ links[q[1]] = Null
        /\ n # 1 => p # <<>> /\ links[q[1]] = p[1] /\ p[n - 1] = q[n]
    BY <1>1, PathTail
  <1>3. \A u \in Tasks : u # q[1] => after[u] = links[u]
    BY <1>1 DEF Links, PopLinks
  <1> HIDE DEF p, after, n
  <1>4. \A i \in 1 .. Len(p) : p[i] \in Tasks /\ p[i] # Null
    BY <1>2, PathFacts
  <1>5. Path(p, after)
    BY <1>2, <1>3, <1>4 DEF Path
  <1>6. Linked(p, PopQueue(queue, links), after)
    <2>1. CASE n = 1
      BY <1>1, <1>2, <1>5, <2>1 DEF Linked, PopQueue
    <2>2. CASE n # 1
      <3>1. p # <<>> => 1 \in 1 .. Len(p)
        BY <1>2, PathFacts
      <3>2. p[1] # Null
        BY <1>2, <1>4, <2>2, <3>1
      <3>3. QED
        BY <1>1, <1>2, <1>5, <2>2, <3>2 DEF Linked, PopQueue
    <2>3. QED
      BY <2>1, <2>2
  <1>7. QED
    BY <1>1, <1>6 DEF p, after

-----------------------------------------------------------------------------
(* The elements of a queue are the tasks it is linked through.              *)

LEMMA PathIsShort ==
  ASSUME NEW links, NEW q, Path(q, links)
  PROVE  Len(q) <= Cardinality(Tasks) /\ Cardinality(1 .. Len(q)) = Len(q)
  <1>1. q \in Seq(Tasks) /\ Len(q) \in Nat
    BY PathFacts
  <1>2. q \in [1 .. Len(q) -> Tasks]
    BY <1>1, LenProperties
  <1>3. q \in Injection(1 .. Len(q), Tasks)
    BY <1>2 DEF Path, Injection, IsInjective
  <1>4. Cardinality(1 .. Len(q)) = Len(q)
    <2>1. Cardinality(1 .. Len(q)) = IF 1 > Len(q) THEN 0 ELSE Len(q) - 1 + 1
      <3>1. 1 \in Int /\ Len(q) \in Int
        BY <1>1
      <3>2. QED
        BY <3>1, FS_Interval
    <2>2. QED
      BY <1>1, <2>1
  <1>5. QED
    BY <1>3, <1>4, FS_Injection, TaskAssumption

\* A walk along the links meets the tasks of the path, and then Null.
LEMMA WalkedIsPath ==
  ASSUME NEW links, NEW queue, NEW q, Linked(q, queue, links)
  PROVE  \A i \in 1 .. Cardinality(Tasks) + 1 :
            Walked(queue, links)[i] = IF i <= Len(q) THEN q[i] ELSE Null
  <1> DEFINE n == Len(q)
             last == Cardinality(Tasks) + 1
             expected == [i \in 1 .. last |-> IF i <= n THEN q[i] ELSE Null]
             node == Walked(queue, links)
             Onward(f) == [i \in 1 .. last |->
                            IF i = 1 THEN queue.head
                            ELSE IF f[i - 1] = Null THEN Null ELSE links[f[i - 1]]]
  <1>1. /\ n \in Nat /\ Cardinality(Tasks) \in Nat /\ n < last
        /\ \A i \in 1 .. n : q[i] # Null
        /\ q = <<>> <=> n = 0
        /\ queue.head = IF q = <<>> THEN Null ELSE q[1]
        /\ \A i \in 1 .. n : links[q[i]] = IF i < n THEN q[i + 1] ELSE Null
    BY PathFacts, PathIsShort, FS_CardinalityType, TaskAssumption DEF Linked, Path
  <1>2. expected = Onward(expected)
    <2>1. ASSUME NEW i \in 1 .. last
          PROVE  expected[i] = IF i = 1 THEN queue.head
                               ELSE IF expected[i - 1] = Null THEN Null ELSE links[expected[i - 1]]
      <3>1. CASE i = 1
        BY <1>1, <3>1
      <3>2. CASE i # 1 /\ i <= n
        <4>1. i - 1 \in 1 .. n /\ i - 1 \in 1 .. last /\ i - 1 < n /\ (i - 1) + 1 = i
          BY <1>1, <3>2
        <4>2. QED
          BY <1>1, <3>2, <4>1
      <3>3. CASE i # 1 /\ i = n + 1
        <4>1. i - 1 \in 1 .. n /\ i - 1 \in 1 .. last /\ ~(i - 1 < n) /\ ~(i <= n)
          BY <1>1, <3>3
        <4>2. QED
          BY <1>1, <3>3, <4>1
      <3>4. CASE i # 1 /\ i > n + 1
        <4>1. i - 1 \in 1 .. last /\ ~(i - 1 <= n) /\ ~(i <= n)
          BY <1>1, <3>4
        <4>2. QED
          BY <3>4, <4>1
      <3>5. QED
        BY <1>1, <3>1, <3>2, <3>3, <3>4
    <2>2. QED
      BY <2>1
  <1>3. node = CHOOSE f : f = Onward(f)
    BY DEF Walked
  <1> HIDE DEF expected, node
  <1>4. node = Onward(node)
    BY <1>2, <1>3
  <1>5. ASSUME NEW i \in 1 .. last, node[i] # expected[i]
        PROVE  FALSE
    <2> DEFINE wrong == {j \in 1 .. last : node[j] # expected[j]}
    <2>1. wrong \subseteq Nat /\ wrong # {}
      BY <1>5
    <2>2. PICK j \in wrong : \A k \in wrong : ~(<<k, j>> \in OpToRel(<, Nat))
      BY <2>1, WFMin, NatLessThanWellFounded
    <2>3. j \in 1 .. last /\ \A k \in wrong : ~(k < j)
      BY <2>1, <2>2 DEF OpToRel
    <2>4. /\ node[j] = Onward(node)[j]
          /\ expected[j] = Onward(expected)[j]
      BY <1>2, <1>4
    <2>5. j # 1 => j - 1 \in 1 .. last /\ node[j - 1] = expected[j - 1]
      BY <1>1, <2>3
    <2>6. node[j] = expected[j]
      BY <2>3, <2>4, <2>5
    <2>7. QED
      BY <2>6
  <1>6. QED
    BY <1>5 DEF expected, node

LEMMA ElementsOfLinked ==
  ASSUME NEW links, NEW queue, NEW q, Linked(q, queue, links)
  PROVE  Elements(queue, links) = q
  <1> DEFINE n == Len(q)
             last == Cardinality(Tasks) + 1
             node == Walked(queue, links)
  <1>1. /\ q \in Seq(Tasks) /\ n \in Nat /\ Cardinality(Tasks) \in Nat /\ n < last
        /\ \A i \in 1 .. n : q[i] # Null
        /\ Cardinality(1 .. n) = n
        /\ q = [i \in 1 .. n |-> q[i]]
    BY PathFacts, PathIsShort, LenProperties, FS_CardinalityType, TaskAssumption DEF Linked
  <1>2. \A i \in 1 .. last : node[i] = IF i <= n THEN q[i] ELSE Null
    BY WalkedIsPath
  <1> HIDE DEF node
  <1>3. {i \in 1 .. last : node[i] # Null} = 1 .. n
    BY <1>1, <1>2
  <1>4. [i \in 1 .. n |-> node[i]] = [i \in 1 .. n |-> q[i]]
    BY <1>1, <1>2
  <1>5. QED
    BY <1>1, <1>3, <1>4 DEF Elements, node

-----------------------------------------------------------------------------
(* The invariant.                                                           *)

Awaiting(what) == {t \in Tasks : taskPc[t] = what}

\* Who waits for the mutex is in its queue, and there is a holder then.
QueuedForMutex(q) ==
    /\ Linked(q, mutexQueue, mutexNext)
    /\ \A t \in Tasks : In(q, t) <=> taskPc[t] = "awaiting mutex"
    /\ ~locked => q = <<>>

OneHolder ==
    /\ locked <=> \E t \in Tasks : taskPc[t] = "holding"
    /\ \A t, u \in Tasks : taskPc[t] = "holding" /\ taskPc[u] = "holding" => t = u

MutexInv == QueuedForMutex(Waiters) /\ OneHolder

\* Until the counter is zero nobody walks, and who waits is in the queue.
QueuedForLatch(q) ==
    /\ Linked(q, latchQueue, latchNext)
    /\ \A t \in Tasks : In(q, t) <=> taskPc[t] = "awaiting latch"

Walking ==
    {s \in Signalers : \/ walk[s].pc = "advance"
                       \/ walk[s].pc = "resume" /\ walk[s].node # Null}

\* Afterwards the walk has a rest of the queue before it, from the node it is
\* at, where everybody still waits.
RestOfWalk(s, q) ==
    /\ Path(q, latchNext) /\ q # <<>> /\ q[1] = walk[s].node
    /\ \A i \in 1 .. Len(q) :
          i > 1 \/ walk[s].pc = "resume" => taskPc[q[i]] = "awaiting latch"
    /\ walk[s].pc = "advance" => taskPc[q[1]] \notin {"new", "awaiting latch"}
    /\ \A t \in Tasks : taskPc[t] = "awaiting latch" => In(q, t) \/ t \in cutOff

LatchInv ==
    /\ counter # 0 => Walking = {} /\ \E q : QueuedForLatch(q)
    /\ counter = 0 =>
          /\ latchQueue = EmptyQueue
          /\ \A s, r \in Walking : s = r
          /\ \A s \in Walking : \E q : RestOfWalk(s, q)
          /\ Walking = {} => Awaiting("awaiting latch") \subseteq cutOff

AsyncIInv == AsyncTypeOK /\ MutexInv /\ LatchInv

-----------------------------------------------------------------------------
LEMMA EmptyLinked ==
  ASSUME NEW links
  PROVE  Linked(<<>>, EmptyQueue, links) /\ \A t \in Tasks : ~In(<<>>, t)
  <1>1. <<>> \in Seq(Tasks) /\ Len(<<>>) = 0 /\ 1 .. 0 = {}
    BY EmptySeq
  <1>2. QED
    BY <1>1 DEF Linked, Path, EmptyQueue, In

\* The mapping is determined by what the invariant says.
LEMMA HolderFacts ==
  ASSUME NEW set
  PROVE  /\ set # {} => OneOf(set) \in set
         /\ set = {} => OneOf(set) = Null
  BY DEF OneOf

LEMMA HolderIsOne ==
  ASSUME OneHolder
  PROVE  /\ locked => Holder \in Tasks /\ taskPc[Holder] = "holding"
         /\ ~locked => Holder = Null
         /\ \A t \in Tasks : taskPc[t] = "holding" => Holder = t
  <1>1. locked <=> Holders # {}
    BY DEF OneHolder, Holders
  <1>2. (Holders # {} => Holder \in Holders) /\ (Holders = {} => Holder = Null)
    BY HolderFacts DEF Holder
  <1>3. QED
    BY <1>1, <1>2 DEF OneHolder, Holders

LEMMA QueuedIsWaiters ==
  ASSUME NEW q, QueuedForMutex(q)
  PROVE  Waiters = q
  BY ElementsOfLinked DEF QueuedForMutex, Waiters

\* A step that moves nobody to the mutex, into its queue or out of them.
LEMMA MutexFrame ==
  ASSUME MutexInv, UNCHANGED mutexVars,
         \A t \in Tasks : /\ taskPc'[t] = "holding" <=> taskPc[t] = "holding"
                          /\ taskPc'[t] = "awaiting mutex" <=> taskPc[t] = "awaiting mutex"
  PROVE  MutexInv' /\ UNCHANGED <<Holder, Waiters>>
  <1>1. Waiters' = Waiters
    BY DEF Waiters, mutexVars
  <1>2. Holders' = Holders
    BY DEF Holders
  <1>3. Holder' = Holder
    BY <1>2 DEF Holder
  <1>4. OneHolder'
    BY DEF MutexInv, OneHolder, mutexVars
  <1>5. QueuedForMutex(Waiters)'
    BY <1>1 DEF MutexInv, QueuedForMutex, mutexVars
  <1>6. QED
    BY <1>1, <1>3, <1>4, <1>5 DEF MutexInv

\* A step behind the latch.
LEMMA LatchFrame ==
  ASSUME AsyncTypeOK, LatchInv, UNCHANGED <<latchVars, walk>>,
         \A t \in Tasks : /\ taskPc'[t] = "awaiting latch" <=> taskPc[t] = "awaiting latch"
                          /\ taskPc'[t] = "new" => taskPc[t] = "new"
  PROVE  LatchInv'
  <1>1. Walking' = Walking /\ (Awaiting("awaiting latch"))' = Awaiting("awaiting latch")
    BY DEF Walking, Awaiting
  <1>2. ASSUME NEW q, QueuedForLatch(q)
        PROVE  QueuedForLatch(q)'
    BY <1>2 DEF QueuedForLatch, latchVars
  <1>3. ASSUME NEW s \in Walking, NEW q, RestOfWalk(s, q)
        PROVE  RestOfWalk(s, q)'
    <2>1. 1 \in 1 .. Len(q) /\ \A i \in 1 .. Len(q) : q[i] \in Tasks
      BY <1>3, PathFacts DEF RestOfWalk
    <2>2. QED
      BY <1>3, <2>1 DEF RestOfWalk, latchVars
  <1>4. QED
    BY <1>1, <1>2, <1>3 DEF LatchInv, latchVars

LEMMA PushedTypes ==
  ASSUME NEW queue \in QueueType, NEW links \in Links, NEW t \in Tasks
  PROVE  PushQueue(queue, t) \in QueueType /\ PushLinks(queue, links, t) \in Links
  <1>1. queue.head \in Tasks \cup {Null} /\ queue.tail \in Tasks \cup {Null}
    BY DEF QueueType
  <1>2. PushQueue(queue, t) \in QueueType
    BY <1>1 DEF PushQueue, QueueType
  <1>3. PushLinks(queue, links, t) \in Links
    BY DEF PushLinks, Links
  <1>4. QED
    BY <1>2, <1>3

LEMMA PopTypes ==
  ASSUME NEW queue \in QueueType, NEW links \in Links, queue.head # Null
  PROVE  /\ PopQueue(queue, links) \in QueueType /\ PopLinks(queue, links) \in Links
         /\ queue.head \in Tasks
  <1>1. queue.head \in Tasks /\ queue.tail \in Tasks \cup {Null}
    BY DEF QueueType
  <1>2. links[queue.head] \in Tasks \cup {Null}
    BY <1>1 DEF Links
  <1>3. PopQueue(queue, links) \in QueueType
    BY <1>1, <1>2 DEF PopQueue, QueueType
  <1>4. PopLinks(queue, links) \in Links
    BY DEF PopLinks, Links
  <1>5. QED
    BY <1>1, <1>3, <1>4

WalkPc == {"idle", "resume", "advance", "done"}
WalkType == [pc : WalkPc, node : Tasks \cup {Null}]

LEMMA WalkTypes ==
  ASSUME NEW w \in [Signalers -> WalkType], NEW s \in Signalers,
         NEW place \in WalkPc, NEW node \in Tasks \cup {Null}
  PROVE  /\ [w EXCEPT ![s] = [pc |-> place, node |-> node]] \in [Signalers -> WalkType]
         /\ [w EXCEPT ![s].pc = place] \in [Signalers -> WalkType]
  <1>1. [pc |-> place, node |-> node] \in WalkType
    BY DEF WalkType
  <1>2. w[s] \in WalkType
    OBVIOUS
  <1>3. [w[s] EXCEPT !.pc = place] \in WalkType
    BY <1>2 DEF WalkType
  <1>4. QED
    BY <1>1, <1>3

\* There is one walk at most, and it is at a task.
LEMMA WalkerFacts ==
  ASSUME LatchInv, NEW s \in Walking
  PROVE  /\ counter = 0 /\ latchQueue = EmptyQueue
         /\ \A r \in Walking : r = s
         /\ \E q : RestOfWalk(s, q)
         /\ walk[s].node \in Tasks
  <1>1. counter = 0 /\ latchQueue = EmptyQueue /\ (\A r \in Walking : r = s)
    BY DEF LatchInv
  <1>2. PICK q : RestOfWalk(s, q)
    BY <1>1 DEF LatchInv
  <1>3. walk[s].node = q[1] /\ q[1] \in Tasks
    BY <1>2, PathFacts DEF RestOfWalk
  <1>4. QED
    BY <1>1, <1>2, <1>3

LEMMA TypeStep ==
  ASSUME AsyncIInv, [AsyncNext]_asyncVars
  PROVE  AsyncTypeOK'
  <1> USE DEF latchVars, mutexVars, AsyncIInv
  <1>0. latchQueue \in QueueType /\ latchNext \in Links /\ mutexQueue \in QueueType
        /\ mutexNext \in Links /\ walk \in [Signalers -> WalkType]
    BY DEF AsyncTypeOK, Links, WalkType, WalkPc
  <1>1. ASSUME NEW t \in Tasks, LatchStart(t)
        PROVE  AsyncTypeOK'
    <2>1. latchQueue' \in QueueType /\ latchNext' \in Links
      BY <1>0, <1>1, PushedTypes DEF LatchStart
    <2>2. QED
      BY <1>1, <2>1 DEF LatchStart, AsyncTypeOK, Links
  <1>2. ASSUME NEW t \in Tasks, MutexStart(t)
        PROVE  AsyncTypeOK'
    <2>1. mutexQueue' \in QueueType /\ mutexNext' \in Links
      BY <1>0, <1>2, PushedTypes DEF MutexStart
    <2>2. QED
      BY <1>2, <2>1 DEF MutexStart, AsyncTypeOK, Links
  <1>3. ASSUME NEW t \in Tasks, Unlock(t)
        PROVE  AsyncTypeOK'
    <2>1. mutexQueue' \in QueueType /\ mutexNext' \in Links
      BY <1>0, <1>3, PopTypes DEF Unlock
    <2>2. QED
      BY <1>3, <2>1 DEF Unlock, AsyncTypeOK, Links
  <1>4. ASSUME NEW t \in Tasks, Free(t)
        PROVE  AsyncTypeOK'
    BY <1>4 DEF Free, AsyncTypeOK
  <1>5. ASSUME NEW s \in Signalers, CountDown(s)
        PROVE  AsyncTypeOK'
    <2>1. counter' \in 0 .. InitialCount
      <3>1. counter \in 0 .. InitialCount /\ InitialCount \in Nat
        BY CountAssumption DEF AsyncTypeOK
      <3>2. counter' = IF counter > 0 THEN counter - 1 ELSE 0
        BY <1>5 DEF CountDown
      <3>3. QED
        BY <3>1, <3>2
    <2>2. latchQueue.head \in Tasks \cup {Null} /\ EmptyQueue \in QueueType
      BY <1>0 DEF QueueType, EmptyQueue
    <2>3. latchQueue' \in QueueType
      BY <1>0, <1>5, <2>2 DEF CountDown
    <2>4. "resume" \in WalkPc /\ "done" \in WalkPc
      BY DEF WalkPc
    <2>5. walk' \in [Signalers -> WalkType]
      <3>1. \/ walk' = [walk EXCEPT ![s] = [pc |-> "resume", node |-> latchQueue.head]]
            \/ walk' = [walk EXCEPT ![s].pc = "done"]
        BY <1>5 DEF CountDown
      <3>2. /\ [walk EXCEPT ![s] = [pc |-> "resume", node |-> latchQueue.head]]
                  \in [Signalers -> WalkType]
            /\ [walk EXCEPT ![s].pc = "done"] \in [Signalers -> WalkType]
        BY <1>0, <2>2, <2>4, WalkTypes
      <3>3. QED
        BY <3>1, <3>2
    <2>6. QED
      BY <1>5, <2>1, <2>3, <2>5 DEF CountDown, AsyncTypeOK, WalkType, WalkPc
  <1>6. ASSUME NEW s \in Signalers, ResumeWaiter(s)
        PROVE  AsyncTypeOK'
    <2>1. "advance" \in WalkPc
      BY DEF WalkPc
    <2>2. walk[s].node \in Tasks
      BY <1>0, <1>6 DEF ResumeWaiter, WalkType
    <2>3. walk' = [walk EXCEPT ![s].pc = "advance"]
      BY <1>6 DEF ResumeWaiter
    <2>4. walk' \in [Signalers -> WalkType]
      BY <1>0, <2>1, <2>3, WalkTypes
    <2>5. QED
      BY <1>6, <2>2, <2>4 DEF ResumeWaiter, AsyncTypeOK, WalkType, WalkPc
  <1>7. ASSUME NEW s \in Signalers, AdvanceWalk(s)
        PROVE  AsyncTypeOK'
    <2>1. PICK n \in NextNode(walk[s].node) :
             walk' = [walk EXCEPT ![s] = [pc |-> "resume", node |-> n]]
      BY <1>7 DEF AdvanceWalk
    <2>2. walk[s].node \in Tasks /\ "resume" \in WalkPc
      <3>1. s \in Walking
        BY <1>7 DEF AdvanceWalk, Walking
      <3>2. QED
        BY <3>1, WalkerFacts DEF WalkPc
    <2>3. n \in Tasks \cup {Null}
      BY <1>0, <2>1, <2>2 DEF NextNode, Links
    <2>4. walk' \in [Signalers -> WalkType]
      BY <1>0, <2>1, <2>2, <2>3, WalkTypes
    <2>5. QED
      BY <1>7, <2>4 DEF AdvanceWalk, AsyncTypeOK, WalkType, WalkPc
  <1>8. ASSUME NEW s \in Signalers, EndWalk(s)
        PROVE  AsyncTypeOK'
    BY <1>8 DEF EndWalk, AsyncTypeOK
  <1>9. CASE UNCHANGED asyncVars
    BY <1>9 DEF asyncVars, AsyncTypeOK
  <1>10. QED
    BY <1>1, <1>2, <1>3, <1>4, <1>5, <1>6, <1>7, <1>8, <1>9
    DEF AsyncNext, TaskStep, SignalerStep, Terminated

-----------------------------------------------------------------------------
(* The steps before the mutex.                                              *)

LEMMA LatchStartStep ==
  ASSUME AsyncIInv, NEW t \in Tasks, LatchStart(t)
  PROVE  MutexInv' /\ LatchInv' /\ UNCHANGED <<Holder, Waiters>>
  <1>1. /\ taskPc[t] = "new" /\ UNCHANGED <<mutexVars, walk>>
        /\ taskPc \in [Tasks -> {"new", "awaiting latch", "resumed", "awaiting mutex",
                                 "holding", "unlocked", "freed"}]
        /\ latchNext \in Links
        /\ taskPc' = [taskPc EXCEPT ![t] = taskPc'[t]]
        /\ taskPc'[t] \in {"resumed", "awaiting latch"}
    BY DEF LatchStart, AsyncIInv, AsyncTypeOK, Links
  <1>2. MutexInv' /\ UNCHANGED <<Holder, Waiters>>
    BY <1>1, MutexFrame DEF AsyncIInv
  <1>3. CASE counter = 0
    <2>1. UNCHANGED latchVars /\ taskPc' = [taskPc EXCEPT ![t] = "resumed"]
      BY <1>3 DEF LatchStart
    <2>2. QED
      BY <1>1, <1>2, <2>1, LatchFrame DEF AsyncIInv
  <1>4. CASE counter # 0
    <2>1. /\ latchQueue' = PushQueue(latchQueue, t) /\ counter' = counter
          /\ latchNext' = PushLinks(latchQueue, latchNext, t)
          /\ taskPc' = [taskPc EXCEPT ![t] = "awaiting latch"]
      BY <1>4 DEF LatchStart
    <2>2. PICK q : QueuedForLatch(q)
      BY <1>4 DEF AsyncIInv, LatchInv
    <2>3. Walking' = {}
      BY <1>1, <1>4 DEF AsyncIInv, LatchInv, Walking
    <2>4. ~In(q, t)
      BY <1>1, <2>2 DEF QueuedForLatch
    <2>5. Linked(Append(q, t), latchQueue', latchNext')
          /\ \A u : In(Append(q, t), u) <=> In(q, u) \/ u = t
      BY <1>1, <2>1, <2>2, <2>4, PushLinked DEF QueuedForLatch
    <2>6. QueuedForLatch(Append(q, t))'
      BY <1>1, <2>1, <2>2, <2>5 DEF QueuedForLatch
    <2>7. QED
      BY <1>2, <1>4, <2>1, <2>3, <2>6 DEF LatchInv
  <1>5. QED
    BY <1>3, <1>4

LEMMA CountDownStep ==
  ASSUME AsyncIInv, NEW s \in Signalers, CountDown(s)
  PROVE  MutexInv' /\ LatchInv' /\ UNCHANGED <<Holder, Waiters>>
  <1>1. /\ walk[s].pc = "idle" /\ UNCHANGED <<mutexVars, taskPc, latchNext, cutOff>>
        /\ counter \in Nat
        /\ walk \in [Signalers -> [pc : {"idle", "resume", "advance", "done"},
                                   node : Tasks \cup {Null}]]
        /\ counter' = IF counter > 0 THEN counter - 1 ELSE 0
    <2>1. counter \in 0 .. InitialCount /\ InitialCount \in Nat
      BY CountAssumption DEF AsyncIInv, AsyncTypeOK
    <2>2. counter \in Nat
      BY <2>1
    <2>3. QED
      BY <2>2 DEF CountDown, AsyncIInv, AsyncTypeOK
  <1>2. MutexInv' /\ UNCHANGED <<Holder, Waiters>>
    BY <1>1, MutexFrame DEF AsyncIInv
  <1>3. s \notin Walking
    BY <1>1 DEF Walking
  <1>4. ASSUME NEW q, QueuedForLatch(q), UNCHANGED latchQueue
        PROVE  QueuedForLatch(q)'
    BY <1>1, <1>4 DEF QueuedForLatch
  <1>5. CASE counter' # 0
    <2>1. walk' = [walk EXCEPT ![s].pc = "done"] /\ UNCHANGED latchQueue
      BY <1>5 DEF CountDown
    <2>2. counter # 0
      BY <1>1, <1>5
    <2>3. Walking' = {}
      BY <1>1, <2>1, <2>2 DEF AsyncIInv, LatchInv, Walking
    <2>4. QED
      BY <1>2, <1>4, <1>5, <2>1, <2>2, <2>3 DEF AsyncIInv, LatchInv
  <1>6. CASE counter' = 0
    <2>1. walk' = [walk EXCEPT ![s] = [pc |-> "resume", node |-> latchQueue.head]]
          /\ latchQueue' = EmptyQueue
      BY <1>6 DEF CountDown
    <2>2. CASE counter = 0
      <3>1. latchQueue.head = Null
        <4>1. latchQueue = EmptyQueue
          BY <2>2 DEF AsyncIInv, LatchInv
        <4>2. QED
          BY <4>1 DEF EmptyQueue
      <3>2. Walking' = Walking /\ \A r \in Walking : walk'[r] = walk[r]
        BY <1>1, <1>3, <2>1, <3>1 DEF Walking
      <3>3. ASSUME NEW r \in Walking, NEW q, RestOfWalk(r, q)
            PROVE  RestOfWalk(r, q)'
        BY <1>1, <3>2, <3>3 DEF RestOfWalk
      <3>4. (Awaiting("awaiting latch"))' = Awaiting("awaiting latch")
        BY <1>1 DEF Awaiting
      <3>5. UNCHANGED cutOff
        BY <1>1
      <3>6. counter' = 0 /\ latchQueue' = EmptyQueue
        BY <1>6, <2>1
      <3>7. LatchInv'
        BY <2>2, <3>2, <3>3, <3>4, <3>5, <3>6 DEF AsyncIInv, LatchInv
      <3>8. QED
        BY <1>2, <3>7
    <2>3. CASE counter # 0
      <3>1. PICK q : QueuedForLatch(q)
        BY <2>3 DEF AsyncIInv, LatchInv
      <3>2. Walking = {}
        BY <2>3 DEF AsyncIInv, LatchInv
      <3>3. CASE q = <<>>
        <4>1. latchQueue.head = Null /\ \A t \in Tasks : ~In(q, t)
          BY <3>1, <3>3, EmptyLinked DEF QueuedForLatch, Linked
        <4>2. Walking' = {}
          BY <1>1, <2>1, <3>2, <4>1 DEF Walking
        <4>3. (Awaiting("awaiting latch"))' = {}
          BY <1>1, <3>1, <4>1 DEF QueuedForLatch, Awaiting
        <4>4. QED
          BY <1>2, <1>6, <2>1, <4>2, <4>3 DEF LatchInv
      <3>4. CASE q # <<>>
        <4>1. /\ Path(q, latchNext) /\ latchQueue.head = q[1] /\ q[1] # Null
              /\ \A i \in 1 .. Len(q) : q[i] \in Tasks
          BY <3>1, <3>4, PathFacts DEF QueuedForLatch, Linked
        <4>2. Walking' = {s}
          BY <1>1, <2>1, <3>2, <4>1 DEF Walking
        <4>3. \A i \in 1 .. Len(q) : taskPc[q[i]] = "awaiting latch"
          BY <3>1, <4>1 DEF QueuedForLatch, In
        <4>4. walk'[s].pc = "resume" /\ walk'[s].node = q[1]
          BY <1>1, <2>1, <4>1
        <4>5. RestOfWalk(s, q)'
          BY <1>1, <3>1, <3>4, <4>1, <4>3, <4>4 DEF RestOfWalk, QueuedForLatch
        <4>6. QED
          BY <1>2, <1>6, <2>1, <4>2, <4>5 DEF LatchInv
      <3>5. QED
        BY <3>3, <3>4
    <2>4. QED
      BY <2>2, <2>3
  <1>7. QED
    BY <1>5, <1>6

LEMMA ResumeWaiterStep ==
  ASSUME AsyncIInv, NEW s \in Signalers, ResumeWaiter(s)
  PROVE  MutexInv' /\ LatchInv' /\ UNCHANGED <<Holder, Waiters>>
  <1> DEFINE t == walk[s].node
  <1>1. /\ walk[s].pc = "resume" /\ t # Null /\ t \in Tasks
        /\ taskPc' = [taskPc EXCEPT ![t] = "resumed"]
        /\ walk' = [walk EXCEPT ![s].pc = "advance"]
        /\ UNCHANGED <<latchVars, mutexVars>>
        /\ taskPc \in [Tasks -> {"new", "awaiting latch", "resumed", "awaiting mutex",
                                 "holding", "unlocked", "freed"}]
        /\ walk \in [Signalers -> [pc : {"idle", "resume", "advance", "done"},
                                   node : Tasks \cup {Null}]]
    BY DEF ResumeWaiter, AsyncIInv, AsyncTypeOK
  <1>2. s \in Walking
    BY <1>1 DEF Walking
  <1>3. /\ counter = 0 /\ latchQueue = EmptyQueue
        /\ \A r \in Walking : r = s
    BY <1>2 DEF AsyncIInv, LatchInv
  <1>4. PICK q : RestOfWalk(s, q)
    BY <1>2, <1>3 DEF AsyncIInv, LatchInv
  <1>5. /\ Path(q, latchNext) /\ q # <<>> /\ q[1] = t
        /\ 1 \in 1 .. Len(q) /\ \A i \in 1 .. Len(q) : q[i] \in Tasks
        /\ \A i \in 1 .. Len(q) : taskPc[q[i]] = "awaiting latch"
    BY <1>1, <1>4, PathFacts DEF RestOfWalk
  <1>6. taskPc[t] = "awaiting latch"
    BY <1>5
  <1>7. MutexInv' /\ UNCHANGED <<Holder, Waiters>>
    BY <1>1, <1>6, MutexFrame DEF AsyncIInv
  <1>8. Walking' = Walking
    BY <1>1, <1>2 DEF Walking
  <1>9. walk'[s].pc = "advance" /\ walk'[s].node = t
    BY <1>1
  <1>10. \A i \in 1 .. Len(q) : i > 1 => q[i] # t
    <2>1. \A i \in 1 .. Len(q) : q[i] = q[1] => i = 1
      BY <1>5 DEF Path
    <2>2. ~(1 > 1)
      OBVIOUS
    <2>3. QED
      BY <1>5, <2>1, <2>2
  <1>11. RestOfWalk(s, q)'
    <2>1. \A i \in 1 .. Len(q) : i > 1 => taskPc'[q[i]] = "awaiting latch"
      BY <1>1, <1>5, <1>10
    <2>2. \A u \in Tasks : taskPc'[u] = "awaiting latch" => In(q, u) \/ u \in cutOff
      BY <1>1, <1>4 DEF RestOfWalk
    <2>3. taskPc'[t] = "resumed"
      BY <1>1
    <2>4. QED
      BY <1>1, <1>5, <1>9, <2>1, <2>2, <2>3 DEF RestOfWalk, latchVars
  <1>12. counter' = 0 /\ latchQueue' = EmptyQueue
    BY <1>1, <1>3 DEF latchVars
  <1>13. QED
    BY <1>2, <1>3, <1>7, <1>8, <1>11, <1>12 DEF LatchInv

LEMMA AdvanceWalkStep ==
  ASSUME AsyncIInv, NEW s \in Signalers, AdvanceWalk(s)
  PROVE  MutexInv' /\ LatchInv' /\ UNCHANGED <<Holder, Waiters>>
  <1>1. /\ walk[s].pc = "advance"
        /\ UNCHANGED <<counter, latchQueue, latchNext, mutexVars, taskPc>>
        /\ walk \in [Signalers -> [pc : {"idle", "resume", "advance", "done"},
                                   node : Tasks \cup {Null}]]
    BY DEF AdvanceWalk, AsyncIInv, AsyncTypeOK
  <1>2. MutexInv' /\ UNCHANGED <<Holder, Waiters>>
    BY <1>1, MutexFrame DEF AsyncIInv
  <1>3. s \in Walking
    BY <1>1 DEF Walking
  <1>4. /\ counter' = 0 /\ latchQueue' = EmptyQueue
        /\ \A r \in Walking : r = s
    BY <1>1, <1>3, WalkerFacts DEF AsyncIInv
  <1>5. PICK q : RestOfWalk(s, q)
    BY <1>3, WalkerFacts DEF AsyncIInv
  <1>6. /\ Path(q, latchNext) /\ q # <<>> /\ q[1] = walk[s].node /\ q[1] \in Tasks
        /\ taskPc[q[1]] \notin {"new", "awaiting latch"}
    BY <1>1, <1>5, PathFacts DEF RestOfWalk
  <1>7. PICK n \in NextNode(q[1]) :
           /\ walk' = [walk EXCEPT ![s] = [pc |-> "resume", node |-> n]]
           /\ cutOff' = IF n = latchNext[q[1]] THEN cutOff
                        ELSE cutOff \cup Awaiting("awaiting latch")
    BY <1>6 DEF AdvanceWalk, Awaiting
  <1>8. n = Null \/ n = latchNext[q[1]]
    BY <1>7 DEF NextNode
  <1>9. walk'[s].pc = "resume" /\ walk'[s].node = n
    BY <1>1, <1>7
  <1>10. CASE n = Null
    <2>1. Walking' = {}
      BY <1>1, <1>4, <1>7, <1>10 DEF Walking
    <2>2. ASSUME n = latchNext[q[1]]
          PROVE  Awaiting("awaiting latch") \subseteq cutOff
      <3>2. Len(q) = 1
        <4>1. Len(q) # 1 => latchNext[q[1]] = Tail(q)[1] /\ Tail(q) # <<>> /\ Path(Tail(q), latchNext)
          BY <1>6, PathTail
        <4>2. Len(q) # 1 => latchNext[q[1]] # Null
          BY <4>1, PathFacts
        <4>3. QED
          BY <1>10, <2>2, <4>2
      <3>3. Tail(q) = <<>> /\ \A t : In(Tail(q), t) <=> In(q, t) /\ t # q[1]
        BY <1>6, <3>2, PathTail
      <3>4. \A t \in Tasks : In(q, t) => t = q[1]
        BY <3>3, EmptyLinked
      <3>5. \A t \in Tasks : taskPc[t] = "awaiting latch" => In(q, t) \/ t \in cutOff
        BY <1>5 DEF RestOfWalk
      <3>6. QED
        BY <1>6, <3>4, <3>5 DEF Awaiting
    <2>3. (Awaiting("awaiting latch"))' = Awaiting("awaiting latch")
      BY <1>1 DEF Awaiting
    <2>4. (Awaiting("awaiting latch") \subseteq cutOff)'
      BY <1>7, <2>2, <2>3
    <2>5. QED
      BY <1>2, <1>4, <2>1, <2>4 DEF LatchInv
  <1>11. CASE n # Null
    <2> DEFINE p == Tail(q)
    <2>1. Walking' = {s}
      BY <1>1, <1>3, <1>4, <1>7, <1>9, <1>11 DEF Walking
    <2>2. n = latchNext[q[1]] /\ Len(q) # 1
      BY <1>6, <1>8, <1>11, PathTail
    <2>3. /\ Path(p, latchNext) /\ p # <<>> /\ p[1] = n
          /\ Len(p) = Len(q) - 1
          /\ \A i \in 1 .. Len(q) - 1 : p[i] = q[i + 1]
          /\ \A t : In(p, t) <=> In(q, t) /\ t # q[1]
      BY <1>6, <2>2, PathTail
    <2> HIDE DEF p
    <2>4. \A i \in 1 .. Len(p) : taskPc[p[i]] = "awaiting latch"
      <3>1. Len(q) \in Nat
        BY <1>6, PathFacts
      <3>2. \A i \in 1 .. Len(p) : i \in 1 .. Len(q) - 1 /\ i + 1 \in 1 .. Len(q) /\ i + 1 > 1
        BY <2>3, <3>1
      <3>3. \A i \in 1 .. Len(q) : i > 1 => taskPc[q[i]] = "awaiting latch"
        BY <1>5 DEF RestOfWalk
      <3>4. \A i \in 1 .. Len(p) : p[i] = q[i + 1]
        BY <2>3, <3>2
      <3>5. QED
        BY <3>2, <3>3, <3>4
    <2>5. \A t \in Tasks : taskPc[t] = "awaiting latch" => In(p, t) \/ t \in cutOff
      BY <1>5, <1>6, <2>3 DEF RestOfWalk
    <2>6. cutOff' = cutOff
      BY <1>7, <2>2
    <2>7. RestOfWalk(s, p)'
      BY <1>1, <1>9, <2>3, <2>4, <2>5, <2>6 DEF RestOfWalk
    <2>8. QED
      BY <1>2, <1>4, <2>1, <2>7 DEF LatchInv
  <1>12. QED
    BY <1>10, <1>11

LEMMA EndWalkStep ==
  ASSUME AsyncIInv, NEW s \in Signalers, EndWalk(s)
  PROVE  MutexInv' /\ LatchInv' /\ UNCHANGED <<Holder, Waiters>>
  <1>1. /\ walk[s].pc = "resume" /\ walk[s].node = Null
        /\ walk' = [walk EXCEPT ![s].pc = "done"]
        /\ UNCHANGED <<latchVars, mutexVars, taskPc>>
        /\ walk \in [Signalers -> [pc : {"idle", "resume", "advance", "done"},
                                   node : Tasks \cup {Null}]]
    BY DEF EndWalk, AsyncIInv, AsyncTypeOK
  <1>2. MutexInv' /\ UNCHANGED <<Holder, Waiters>>
    BY <1>1, MutexFrame DEF AsyncIInv
  <1>3. s \notin Walking
    BY <1>1 DEF Walking
  <1>4. Walking' = Walking /\ \A r \in Walking : walk'[r] = walk[r]
    BY <1>1, <1>3 DEF Walking
  <1>5. ASSUME NEW r \in Walking, NEW q, RestOfWalk(r, q)
        PROVE  RestOfWalk(r, q)'
    BY <1>1, <1>4, <1>5 DEF RestOfWalk, latchVars
  <1>6. ASSUME NEW q, QueuedForLatch(q)
        PROVE  QueuedForLatch(q)'
    BY <1>1, <1>6 DEF QueuedForLatch, latchVars
  <1>7. (Awaiting("awaiting latch"))' = Awaiting("awaiting latch")
    BY <1>1 DEF Awaiting
  <1>8. QED
    BY <1>1, <1>2, <1>4, <1>5, <1>6, <1>7 DEF AsyncIInv, LatchInv, latchVars

-----------------------------------------------------------------------------
(* The steps at the mutex.                                                  *)

\* What the tasks do at the mutex does not matter to the latch.
LEMMA LatchUndisturbed ==
  ASSUME AsyncIInv, UNCHANGED <<latchVars, walk>>,
         \A u \in Tasks : \/ taskPc'[u] = taskPc[u]
                          \/ /\ taskPc[u] \in {"resumed", "awaiting mutex", "holding"}
                             /\ taskPc'[u] \in {"awaiting mutex", "holding", "unlocked"}
  PROVE  LatchInv'
  <1>1. \A u \in Tasks : /\ taskPc'[u] = "awaiting latch" <=> taskPc[u] = "awaiting latch"
                         /\ taskPc'[u] = "new" => taskPc[u] = "new"
    OBVIOUS
  <1>2. QED
    BY <1>1, LatchFrame DEF AsyncIInv

TaskPcs == {"new", "awaiting latch", "resumed", "awaiting mutex", "holding", "unlocked", "freed"}

\* Acquire, or Wait.
LEMMA MutexStartStep ==
  ASSUME AsyncIInv, NEW t \in Tasks, MutexStart(t)
  PROVE  MutexInv' /\ LatchInv' /\ [Fifo!Next]_(Fifo!vars)
  <1>1. /\ taskPc[t] = "resumed" /\ UNCHANGED <<latchVars, walk>>
        /\ taskPc \in [Tasks -> TaskPcs] /\ mutexNext \in Links
        /\ locked \in BOOLEAN
    BY DEF MutexStart, AsyncIInv, AsyncTypeOK, TaskPcs, Links
  <1>2. ASSUME NEW place, taskPc' = [taskPc EXCEPT ![t] = place],
               place \in {"holding", "awaiting mutex"}
        PROVE  LatchInv'
    <2>1. \A u \in Tasks : taskPc'[u] = IF u = t THEN place ELSE taskPc[u]
      BY <1>1, <1>2
    <2>2. QED
      BY <1>1, <1>2, <2>1, LatchUndisturbed
  <1>3. QueuedForMutex(Waiters) /\ OneHolder
    BY DEF AsyncIInv, MutexInv
  <1>4. CASE ~locked
    <2>1. /\ locked' = TRUE /\ taskPc' = [taskPc EXCEPT ![t] = "holding"]
          /\ UNCHANGED <<mutexQueue, mutexNext>>
      BY <1>4 DEF MutexStart
    <2>2. \A u \in Tasks : taskPc[u] # "holding"
      BY <1>3, <1>4 DEF OneHolder
    <2>3. taskPc'[t] = "holding" /\ \A u \in Tasks : u # t => taskPc'[u] = taskPc[u]
      BY <1>1, <2>1
    <2>4. OneHolder' /\ Holders' = {t}
      BY <2>1, <2>2, <2>3 DEF OneHolder, Holders
    <2>5. Waiters' = Waiters
      BY <2>1 DEF Waiters
    <2>6. QueuedForMutex(Waiters)'
      BY <1>1, <1>3, <2>1, <2>3, <2>5 DEF QueuedForMutex
    <2>7. Holder' = t
      BY <2>4, HolderFacts DEF Holder
    <2>8. Holder = Null
      BY <1>3, <1>4, HolderIsOne
    <2>9. Fifo!Acquire(t)
      BY <2>5, <2>7, <2>8 DEF Fifo!Acquire
    <2>10. QED
      BY <1>2, <2>1, <2>4, <2>6, <2>9 DEF MutexInv, Fifo!Next
  <1>5. CASE locked
    <2>1. /\ mutexQueue' = PushQueue(mutexQueue, t)
          /\ mutexNext' = PushLinks(mutexQueue, mutexNext, t)
          /\ taskPc' = [taskPc EXCEPT ![t] = "awaiting mutex"] /\ UNCHANGED locked
      BY <1>5 DEF MutexStart
    <2>2. ~In(Waiters, t)
      BY <1>1, <1>3 DEF QueuedForMutex
    <2>3. /\ Linked(Append(Waiters, t), mutexQueue', mutexNext')
          /\ \A u : In(Append(Waiters, t), u) <=> In(Waiters, u) \/ u = t
      BY <1>1, <1>3, <2>1, <2>2, PushLinked DEF QueuedForMutex
    <2>4. Waiters' = Append(Waiters, t)
      BY <2>3, ElementsOfLinked DEF Waiters
    <2>5. taskPc'[t] = "awaiting mutex" /\ \A u \in Tasks : u # t => taskPc'[u] = taskPc[u]
      BY <1>1, <2>1
    <2>6. QueuedForMutex(Waiters)'
      BY <1>3, <1>5, <2>1, <2>3, <2>4, <2>5 DEF QueuedForMutex
    <2>7. OneHolder' /\ Holders' = Holders
      BY <1>1, <1>3, <2>1, <2>5 DEF OneHolder, Holders
    <2>8. Holder' = Holder
      BY <2>7 DEF Holder
    <2>9. Holder # Null
      BY <1>3, <1>5, HolderIsOne, NullNodeAssumption
    <2>10. Fifo!Wait(t)
      BY <2>4, <2>8, <2>9 DEF Fifo!Wait
    <2>11. QED
      BY <1>2, <2>1, <2>6, <2>7, <2>10 DEF MutexInv, Fifo!Next
  <1>6. QED
    BY <1>1, <1>4, <1>5

\* Release, to the first of those that wait.
LEMMA UnlockStep ==
  ASSUME AsyncIInv, NEW t \in Tasks, Unlock(t)
  PROVE  MutexInv' /\ LatchInv' /\ [Fifo!Next]_(Fifo!vars)
  <1>1. /\ taskPc[t] = "holding" /\ UNCHANGED <<latchVars, walk>>
        /\ taskPc \in [Tasks -> TaskPcs] /\ mutexNext \in Links
        /\ locked \in BOOLEAN
    BY DEF Unlock, AsyncIInv, AsyncTypeOK, TaskPcs, Links
  <1>2. QueuedForMutex(Waiters) /\ OneHolder
    BY DEF AsyncIInv, MutexInv
  <1>3. locked /\ Holder = t /\ Holder # Null /\ \A u \in Tasks : taskPc[u] = "holding" => u = t
    BY <1>1, <1>2, HolderIsOne, NullNodeAssumption DEF OneHolder
  <1>4. Linked(Waiters, mutexQueue, mutexNext)
    BY <1>2 DEF QueuedForMutex
  <1>5. CASE Waiters = <<>>
    <2>1. mutexQueue.head = Null
      BY <1>4, <1>5 DEF Linked
    <2>2. /\ locked' = FALSE /\ taskPc' = [taskPc EXCEPT ![t] = "unlocked"]
          /\ UNCHANGED <<mutexQueue, mutexNext>>
      BY <2>1 DEF Unlock
    <2>3. taskPc'[t] = "unlocked" /\ \A u \in Tasks : u # t => taskPc'[u] = taskPc[u]
      BY <1>1, <2>2
    <2>4. Waiters' = Waiters
      BY <2>2 DEF Waiters
    <2>5. OneHolder' /\ Holders' = {}
      BY <1>3, <2>2, <2>3 DEF OneHolder, Holders
    <2>6. QueuedForMutex(Waiters)'
      BY <1>1, <1>2, <1>5, <2>2, <2>3, <2>4 DEF QueuedForMutex
    <2>7. Holder' = Null
      BY <2>5, HolderFacts DEF Holder
    <2>8. Fifo!Release
      BY <1>3, <1>5, <2>4, <2>7 DEF Fifo!Release
    <2>9. LatchInv'
      BY <1>1, <2>3, LatchUndisturbed
    <2>10. QED
      BY <2>5, <2>6, <2>8, <2>9 DEF MutexInv, Fifo!Next
  <1>6. CASE Waiters # <<>>
    <2> DEFINE u == mutexQueue.head
    <2>1. u = Waiters[1] /\ u \in Tasks /\ u # Null
          /\ Linked(Tail(Waiters), PopQueue(mutexQueue, mutexNext), PopLinks(mutexQueue, mutexNext))
      BY <1>1, <1>4, <1>6, PopLinked, NullNodeAssumption
    <2>2. /\ taskPc' = [taskPc EXCEPT ![t] = "unlocked", ![u] = "holding"]
          /\ mutexQueue' = PopQueue(mutexQueue, mutexNext)
          /\ mutexNext' = PopLinks(mutexQueue, mutexNext)
          /\ UNCHANGED locked
      BY <2>1 DEF Unlock
    <2>3. Waiters' = Tail(Waiters)
      BY <2>1, <2>2, ElementsOfLinked DEF Waiters
    <2>4. /\ \A v : In(Tail(Waiters), v) <=> In(Waiters, v) /\ v # u
          /\ In(Waiters, u) /\ Head(Waiters) = u
      <3>1. Path(Waiters, mutexNext)
        BY <1>4 DEF Linked
      <3>2. 1 \in 1 .. Len(Waiters) /\ Waiters \in Seq(Tasks)
        BY <1>6, <3>1, PathFacts
      <3>3. \A v : In(Tail(Waiters), v) <=> In(Waiters, v) /\ v # Waiters[1]
        BY <1>6, <3>1, PathTail
      <3>4. Head(Waiters) = Waiters[1]
        BY <3>2
      <3>5. QED
        BY <2>1, <3>2, <3>3, <3>4 DEF In
    <2>5. taskPc[u] = "awaiting mutex" /\ u # t
      BY <1>1, <1>2, <2>1, <2>4 DEF QueuedForMutex
    <2> HIDE DEF u
    <2>6. /\ taskPc'[t] = "unlocked" /\ taskPc'[u] = "holding"
          /\ \A v \in Tasks : v # t /\ v # u => taskPc'[v] = taskPc[v]
      BY <1>1, <2>1, <2>2, <2>5
    <2>7. OneHolder' /\ Holders' = {u}
      BY <1>3, <2>1, <2>2, <2>5, <2>6 DEF OneHolder, Holders
    <2>8. QueuedForMutex(Waiters)'
      BY <1>1, <1>2, <1>3, <2>1, <2>2, <2>3, <2>4, <2>6 DEF QueuedForMutex
    <2>9. Holder' = u
      BY <2>7, HolderFacts DEF Holder
    <2>10. Fifo!Release
      BY <1>3, <1>6, <2>3, <2>4, <2>9 DEF Fifo!Release
    <2>11. LatchInv'
      BY <1>1, <2>1, <2>5, <2>6, LatchUndisturbed
    <2>12. QED
      BY <2>7, <2>8, <2>10, <2>11 DEF MutexInv, Fifo!Next
  <1>7. QED
    BY <1>5, <1>6

LEMMA FreeStep ==
  ASSUME AsyncIInv, NEW t \in Tasks, Free(t)
  PROVE  MutexInv' /\ LatchInv' /\ UNCHANGED <<Holder, Waiters>>
  <1>1. /\ taskPc[t] = "unlocked" /\ UNCHANGED <<latchVars, mutexVars, walk>>
        /\ taskPc' = [taskPc EXCEPT ![t] = "freed"]
        /\ taskPc \in [Tasks -> TaskPcs]
    BY DEF Free, AsyncIInv, AsyncTypeOK, TaskPcs
  <1>2. MutexInv' /\ UNCHANGED <<Holder, Waiters>>
    BY <1>1, MutexFrame DEF AsyncIInv
  <1>3. LatchInv'
    BY <1>1, LatchFrame DEF AsyncIInv
  <1>4. QED
    BY <1>2, <1>3

-----------------------------------------------------------------------------
LEMMA StepInv ==
  ASSUME AsyncIInv, [AsyncNext]_asyncVars
  PROVE  AsyncIInv' /\ [Fifo!Next]_(Fifo!vars)
  <1>1. AsyncTypeOK'
    BY TypeStep
  <1>2. ASSUME UNCHANGED <<Holder, Waiters>>
        PROVE  [Fifo!Next]_(Fifo!vars)
    BY <1>2 DEF Fifo!vars
  <1>3. ASSUME UNCHANGED asyncVars
        PROVE  MutexInv' /\ LatchInv' /\ UNCHANGED <<Holder, Waiters>>
    <2>1. MutexInv' /\ UNCHANGED <<Holder, Waiters>>
      BY <1>3, MutexFrame DEF AsyncIInv, asyncVars
    <2>2. LatchInv'
      BY <1>3, LatchUndisturbed DEF asyncVars
    <2>3. QED
      BY <2>1, <2>2
  <1>4. MutexInv' /\ LatchInv' /\ [Fifo!Next]_(Fifo!vars)
    BY <1>2, <1>3, LatchStartStep, MutexStartStep, UnlockStep, FreeStep, CountDownStep,
       ResumeWaiterStep, AdvanceWalkStep, EndWalkStep
    DEF AsyncNext, TaskStep, SignalerStep, Terminated
  <1>5. QED
    BY <1>1, <1>4 DEF AsyncIInv

LEMMA Initially ==
  ASSUME AsyncInit
  PROVE  AsyncIInv /\ Fifo!Init
  <1>1. AsyncTypeOK
    <2>1. EmptyQueue \in QueueType
      BY DEF EmptyQueue, QueueType
    <2>2. InitialCount \in 0 .. InitialCount
      BY CountAssumption
    <2>3. QED
      BY <2>1, <2>2 DEF AsyncInit, AsyncTypeOK
  <1>2. \A t \in Tasks : taskPc[t] = "new"
    BY DEF AsyncInit
  <1>3. QueuedForMutex(<<>>) /\ QueuedForLatch(<<>>)
    BY <1>2, EmptyLinked DEF AsyncInit, QueuedForMutex, QueuedForLatch
  <1>4. Waiters = <<>> /\ MutexInv
    BY <1>2, <1>3, QueuedIsWaiters DEF MutexInv, OneHolder, AsyncInit
  <1>5. Holder = Null
    BY <1>4, HolderIsOne DEF MutexInv, AsyncInit
  <1>6. LatchInv
    <2>1. counter # 0 /\ Walking = {}
      BY CountAssumption DEF AsyncInit, Walking
    <2>2. QED
      BY <1>3, <2>1 DEF LatchInv
  <1>7. QED
    BY <1>1, <1>4, <1>5, <1>6 DEF AsyncIInv, Fifo!Init

\* The queues are linked through exactly the tasks that wait, and the walk has
\* the rest of them before it.
THEOREM PrimitivesInductive == AsyncSpec => []AsyncIInv
  BY Initially, StepInv, PTL DEF AsyncSpec

\* Every variable has its type; links lead to tasks only.
THEOREM PrimitivesTypeCorrect == AsyncSpec => []AsyncTypeOK
  <1>1. AsyncIInv => AsyncTypeOK
    BY DEF AsyncIInv
  <1>2. QED
    BY <1>1, PrimitivesInductive, PTL

\* AsyncMutex grants in the order of arrival, and Unlock hands the mutex to
\* the first in the queue without a newcomer in between.
THEOREM MutexIsFifo == AsyncSpec => ImplementsFifoMutex
  BY Initially, StepInv, PrimitivesInductive, PTL DEF AsyncSpec, ImplementsFifoMutex, Fifo!Spec

\* CountDown resumes all waiters but those that stand behind one whose memory
\* was freed before the walk had read its link (AsyncLatch.h:115): when no walk
\* is under way a task that still waits is among them, and tasks get among them
\* only by a walk that reads a freed waiter.
THEOREM EverybodyResumed == AsyncSpec => []OthersResumed /\ CutOffByFreed
  <1>1. AsyncIInv => OthersResumed
    <2>1. SUFFICES ASSUME AsyncIInv, LatchOpened
                   PROVE  \A t \in Tasks : taskPc[t] = "awaiting latch" => t \in cutOff
      BY DEF OthersResumed
    <2>2. Walking = {} /\ counter = 0
      BY <2>1 DEF Walking, LatchOpened
    <2>3. QED
      BY <2>1, <2>2 DEF AsyncIInv, LatchInv, Awaiting
  <1>2. ASSUME [AsyncNext]_asyncVars, cutOff' # cutOff
        PROVE  \E s \in Signalers : walk[s].pc = "advance" /\ taskPc[walk[s].node] = "freed"
    <2>1. PICK s \in Signalers : AdvanceWalk(s)
      BY <1>2 DEF AsyncNext, TaskStep, SignalerStep, Terminated, asyncVars, latchVars,
         LatchStart, MutexStart, Unlock, Free, CountDown, ResumeWaiter, EndWalk
    <2>2. walk[s].pc = "advance"
      BY <2>1 DEF AdvanceWalk
    <2>3. PICK n \in NextNode(walk[s].node) : n # latchNext[walk[s].node]
      BY <1>2, <2>1 DEF AdvanceWalk
    <2>4. taskPc[walk[s].node] = "freed"
      BY <2>3 DEF NextNode
    <2>5. QED
      BY <2>2, <2>4
  <1>3. [AsyncNext]_asyncVars =>
           [cutOff' # cutOff => \E s \in Signalers :
               walk[s].pc = "advance" /\ taskPc[walk[s].node] = "freed"]_asyncVars
    BY <1>2
  <1>4. QED
    BY <1>1, <1>3, PrimitivesInductive, PTL DEF AsyncSpec, CutOffByFreed

=============================================================================
