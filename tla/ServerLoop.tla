----------------------------- MODULE ServerLoop -----------------------------
(***************************************************************************)
(* The JSON-RPC server around the language service: the listening loop     *)
(* that cuts the client's byte stream into messages and dispatches them,   *)
(* and the output that the loop and the pool's workers share.              *)
(*                                                                         *)
(* The stream is a sequence of units: a header line is one unit, and the   *)
(* payload of a frame is PayloadSize units.  The length a frame declares   *)
(* need not be the size of its payload.                                    *)
(***************************************************************************)
EXTENDS Integers, Sequences

CONSTANTS
    Workers,        \* threads of the service's pool
    Main,           \* the thread that runs the listening loop
    Messages,       \* [valid, method, hasId, hasParams]: what a payload says
    Headings,       \* sequences of header lines that a frame may start with
    PayloadSize,    \* units of a payload
    MaxBufferSize,  \* units that the transport reads at once
    MaxFrames,      \* bound: frames the client sends
    Nobody          \* the mutex is free

ASSUME MainIsNoWorker == Main \notin Workers /\ Nobody \notin Workers \cup {Main}

\* A header line declares a length, which may be negative, or something else.
Line == [name : {"type", "unknown"}] \cup [name : {"length"}, value : Int]

ASSUME FrameAssumption ==
    /\ PayloadSize \in Nat \ {0} /\ MaxBufferSize \in Nat /\ MaxFrames \in Nat
    /\ \A h \in Headings : h \in Seq(Line)
    /\ \A m \in Messages : m.valid \in BOOLEAN

Threads == Workers \cup {Main}
Ids == 1 .. MaxFrames

SyncRequests == {"initialize", "shutdown"}
Queries == {"hover"}
Requests == SyncRequests \cup Queries
Notifications == {"didOpen", "setTrace", "exit"}

VARIABLES
    sent,       \* the frames the client has written
    input,      \* the units of them that are not yet read
    closed,     \* the client has closed its end
    pc,         \* where the listening loop is
    length,     \* payloadLength of the message being pulled
    pulled,     \* the payloads handed to HandleClientMessage, in order
    stop,       \* serverStopSource
    tasks,      \* the pool's queue: what its workers will push
    push,       \* each thread's call of PushMessage
    mutex,      \* the holder of serverOutputMutex
    output,     \* the parts written to stdout
    failed,     \* some push has failed
    alive       \* serverOutputMutex and the transport exist

inputVars == <<sent, input, closed>>
loopVars == <<pc, length, pulled>>
pushVars == <<push, mutex, output, failed>>
vars == <<inputVars, loopVars, stop, tasks, pushVars, alive>>

Idle == [at |-> "idle"]

Init ==
    /\ sent = <<>> /\ input = <<>> /\ closed = FALSE
    /\ pc = "loop" /\ length = 0 /\ pulled = <<>>
    /\ stop = FALSE
    /\ tasks = {}
    /\ push = [t \in Threads |-> Idle]
    /\ mutex = Nobody /\ output = <<>> /\ failed = FALSE
    /\ alive = TRUE

-----------------------------------------------------------------------------
(* The client: any frame at any time.  The i-th frame asks with id i.      *)

Blank == [name |-> "blank"]
Payload(i) == [k \in 1 .. PayloadSize |-> [name |-> "payload", frame |-> i, part |-> k]]
FrameUnits(frame, i) == frame.heading \o <<Blank>> \o Payload(i)

ClientSends ==
    /\ ~closed /\ Len(sent) < MaxFrames
    /\ \E h \in Headings, m \in Messages :
          LET frame == [heading |-> h, message |-> m] IN
          /\ sent' = Append(sent, frame)
          /\ input' = input \o FrameUnits(frame, Len(sent) + 1)
    /\ UNCHANGED <<closed, loopVars, stop, tasks, pushVars, alive>>

ClientCloses ==
    /\ ~closed
    /\ closed' = TRUE
    /\ UNCHANGED <<sent, input, loopVars, stop, tasks, pushVars, alive>>

-----------------------------------------------------------------------------
(* The listening loop.                                                      *)

StopRequested == stop

CheckStop ==
    /\ pc = "loop"
    /\ pc' = IF StopRequested THEN "ended" ELSE "headers"
    /\ length' = 0
    /\ UNCHANGED <<inputVars, pulled, stop, tasks, pushVars, alive>>

\* A line ends at a newline, and only header lines have one: what is left of
\* an earlier payload is read as the beginning of the line that follows it.
LineEnds == {k \in 1 .. Len(input) : input[k].name # "payload"}
FirstLineEnd == CHOOSE k \in LineEnds : \A j \in LineEnds : k <= j
LineRead == IF FirstLineEnd = 1 THEN input[1] ELSE [name |-> "unknown"]

\* What a header line does to (pc, length).  Mutant: a length that is
\* known already is kept.
FirstLengthWins(line) ==
    CASE line.name = "blank" -> [pc |-> IF length = 0 THEN "ended" ELSE "payload", length |-> length]
      [] line.name = "length" /\ line.value < 0 -> [pc |-> "ended", length |-> length]
      [] line.name = "length" /\ line.value >= 0 ->
            [pc |-> "headers", length |-> IF length = 0 THEN line.value ELSE length]
      [] OTHER -> [pc |-> "headers", length |-> length]
HeaderEffect(line) ==
    CASE line.name = "blank" -> [pc |-> IF length = 0 THEN "ended" ELSE "payload", length |-> length]
      [] line.name = "length" /\ line.value < 0 -> [pc |-> "ended", length |-> length]
      [] line.name = "length" /\ line.value >= 0 -> [pc |-> "headers", length |-> line.value]
      [] OTHER -> [pc |-> "headers", length |-> length]

ReadHeader ==
    /\ pc = "headers" /\ LineEnds # {}
    /\ pc' = HeaderEffect(LineRead).pc
    /\ length' = HeaderEffect(LineRead).length
    /\ input' = SubSeq(input, FirstLineEnd + 1, Len(input))
    /\ UNCHANGED <<sent, closed, pulled, stop, tasks, pushVars, alive>>

\* The stream ends inside a line.
HeaderAtEof ==
    /\ pc = "headers" /\ LineEnds = {} /\ closed
    /\ pc' = "ended"
    /\ input' = <<>>
    /\ UNCHANGED <<sent, closed, length, pulled, stop, tasks, pushVars, alive>>

\* Read: fails when the payload exceeds the buffer or the stream ends in it.
ReadCompletes == length <= MaxBufferSize /\ Len(input) >= length

Fragment == SubSeq(input, 1, length)

\* HandleClientMessage parses the payload; only a whole one is valid JSON.
Message(fragment) ==
    IF \E i \in 1 .. Len(sent) : fragment = Payload(i)
    THEN sent[fragment[1].frame].message
    ELSE [valid |-> FALSE, method |-> "none", hasId |-> FALSE, hasParams |-> FALSE]

\* The conditions under which a registered handler is called.
Dispatches(m) ==
    /\ m.valid
    /\ \/ m.method \in Requests /\ m.hasId /\ m.hasParams
       \/ m.method \in Notifications /\ m.hasParams

\* The service has a context for the document: one of the first n payloads that
\* were pulled has opened it.  There is one document, and nobody closes it.
OpenAfter(n) ==
    \E k \in 1 .. n : Dispatches(Message(pulled[k])) /\ Message(pulled[k]).method = "didOpen"
DocumentOpen == OpenAfter(Len(pulled))

Response(i) == [kind |-> "response", of |-> i]
Notification(i) == [kind |-> "notification", of |-> i]
StartPush(what) == [at |-> "lock", what |-> what]

Enqueue(what) == tasks \cup {what}

\* The handlers: initialize and shutdown answer from the loop's thread, a query
\* for an open document and a document opened for the first time leave a task
\* in the pool, exit requests the stop.  A query for a document that is not
\* open is logged, and so is opening one that is.
Handle(m, i) ==
    /\ pc' = IF Dispatches(m) /\ m.method \in SyncRequests THEN "push" ELSE "loop"
    /\ push' = IF Dispatches(m) /\ m.method \in SyncRequests
               THEN [push EXCEPT ![Main] = StartPush(Response(i))] ELSE push
    /\ tasks' = CASE Dispatches(m) /\ m.method \in Queries /\ DocumentOpen -> Enqueue(Response(i))
                  [] Dispatches(m) /\ m.method = "didOpen" /\ ~DocumentOpen ->
                        Enqueue(Notification(i))
                  [] OTHER -> tasks
    /\ stop' = (stop \/ (Dispatches(m) /\ m.method = "exit"))

PullPayload ==
    /\ pc = "payload" /\ ReadCompletes
    /\ pulled' = Append(pulled, Fragment)
    /\ input' = SubSeq(input, Len(Fragment) + 1, Len(input))
    /\ Handle(Message(Fragment), IF Fragment[1].name = "payload" THEN Fragment[1].frame ELSE 0)
    /\ UNCHANGED <<sent, closed, length, mutex, output, failed, alive>>

PayloadFails ==
    /\ pc = "payload" /\ ~ReadCompletes
    /\ length > MaxBufferSize \/ closed
    /\ pc' = "ended"
    /\ UNCHANGED <<inputVars, length, pulled, stop, tasks, pushVars, alive>>

\* A handler that answers on the loop's thread returns when its push does.
HandlerReturns ==
    /\ pc = "push" /\ push[Main] = Idle
    /\ pc' = "loop"
    /\ UNCHANGED <<inputVars, length, pulled, stop, tasks, pushVars, alive>>

\* ~LanguageServer: members go in reverse order, so the mutex and the
\* transport are gone before the service waits for its pool.
Destroy ==
    /\ pc = "ended" /\ alive
    /\ alive' = FALSE
    /\ UNCHANGED <<inputVars, loopVars, stop, tasks, pushVars>>

-----------------------------------------------------------------------------
(* PushMessage, on any thread.  Every part may fail to be written.          *)

Dequeue(what) == tasks \ {what}

TakeTask(t) ==
    /\ alive /\ push[t] = Idle
    /\ \E what \in tasks :
          /\ push' = [push EXCEPT ![t] = StartPush(what)]
          /\ tasks' = Dequeue(what)
    /\ UNCHANGED <<inputVars, loopVars, stop, mutex, output, failed, alive>>

\* Mutant: the output is not locked.
NoLock == TRUE
MutexFree == mutex = Nobody

LockOutput(t) ==
    /\ alive /\ push[t].at = "lock" /\ MutexFree
    /\ mutex' = t
    /\ push' = [push EXCEPT ![t].at = "header"]
    /\ UNCHANGED <<inputVars, loopVars, stop, tasks, output, failed, alive>>

MutexAfterFailure == Nobody

WritePart(t, part, next) ==
    /\ alive /\ push[t].at = part
    /\ push' = [push EXCEPT ![t].at = next]
    /\ output' = Append(output, [part |-> part, what |-> push[t].what])
    /\ UNCHANGED <<inputVars, loopVars, stop, tasks, mutex, failed, alive>>

WriteHeader(t) == WritePart(t, "header", "payload")
WritePayload(t) == WritePart(t, "payload", "flush")

\* Mutant: the lock is given back by failures only.
FlushKeepingLock(t) ==
    /\ alive /\ push[t].at = "flush"
    /\ push' = [push EXCEPT ![t] = Idle]
    /\ UNCHANGED <<inputVars, loopVars, stop, tasks, mutex, output, failed, alive>>

Flush(t) ==
    /\ alive /\ push[t].at = "flush"
    /\ push' = [push EXCEPT ![t] = Idle]
    /\ mutex' = Nobody
    /\ UNCHANGED <<inputVars, loopVars, stop, tasks, output, failed, alive>>

\* Mutant: a push that failed is tried again.
PushRetried(t) ==
    /\ alive /\ push[t].at \in {"header", "payload", "flush"}
    /\ push' = [push EXCEPT ![t].at = "lock"]
    /\ mutex' = MutexAfterFailure
    /\ failed' = TRUE
    /\ UNCHANGED <<inputVars, loopVars, stop, tasks, output, alive>>

\* The caller of a failed push requests the stop of the loop.
PushFails(t) ==
    /\ alive /\ push[t].at \in {"header", "payload", "flush"}
    /\ push' = [push EXCEPT ![t] = Idle]
    /\ mutex' = MutexAfterFailure
    /\ failed' = TRUE
    /\ stop' = TRUE
    /\ UNCHANGED <<inputVars, loopVars, tasks, output, alive>>

-----------------------------------------------------------------------------
Pushing(t) == \/ LockOutput(t) \/ WriteHeader(t) \/ WritePayload(t)
              \/ Flush(t) \/ PushFails(t)

Listen == \/ CheckStop \/ ReadHeader \/ HeaderAtEof \/ PullPayload
          \/ PayloadFails \/ HandlerReturns

Next == \/ ClientSends \/ ClientCloses
        \/ Listen \/ Destroy
        \/ \E t \in Workers : TakeTask(t)
        \/ \E t \in Threads : Pushing(t)

Spec == Init /\ [][Next]_vars

\* The operating system runs every thread that can run and hands a mutex on;
\* nothing makes the client write or close.
FairSpec ==
    /\ Spec
    /\ WF_vars(Listen)
    /\ \A t \in Workers : WF_vars(TakeTask(t))
    /\ \A t \in Threads : SF_vars(LockOutput(t))
    /\ \A t \in Threads : WF_vars(WriteHeader(t) \/ WritePayload(t) \/ Flush(t) \/ PushFails(t))

-----------------------------------------------------------------------------
Frame == [heading : Headings, message : Messages]
Outgoing == [kind : {"response", "notification"}, of : Ids]

\* Every variable has its type, and the mutex is held by the thread that is
\* writing, by nobody when none is (std::lock_guard in PushMessage).
TypeOK ==
    /\ sent \in Seq(Frame) /\ Len(sent) <= MaxFrames
    /\ pc \in {"loop", "headers", "payload", "push", "ended"}
    /\ length \in Nat
    /\ {closed, stop, failed, alive} \subseteq BOOLEAN
    /\ tasks \subseteq Outgoing
    /\ \A t \in Threads :
          /\ push[t] = Idle \/ push[t].what \in Outgoing
          /\ push[t].at \in {"header", "payload", "flush"} <=> mutex = t

\* As long as no push failed, the client reads whole frames: every header is
\* followed by the payload it announces, whatever the loop and the workers
\* push at the same time.  This is what PushMessage's lock is for.
OutputFramed ==
    ~failed => \A i \in 1 .. Len(output) :
        output[i].part = (IF i % 2 = 1 THEN "header" ELSE "payload")
        /\ (i % 2 = 0 => output[i].what = output[i - 1].what)

\* A request is answered at most once, and only if it was pulled whole; the
\* answers of the loop's thread and of the pool do not double, and a write that
\* fails half-way is not taken up again.
AnsweredOnce ==
    \A i, j \in 1 .. Len(output) :
        output[i].part = "header" /\ output[i].what.kind = "response" =>
            /\ \E k \in 1 .. Len(pulled) : pulled[k] = Payload(output[i].what.of)
            /\ output[j] = output[i] => i = j

WellDeclared(frame) ==
    LET last == [name |-> "length", value |-> PayloadSize] IN
    \E k \in 1 .. Len(frame.heading) :
        /\ frame.heading[k] = last
        /\ \A j \in 1 .. Len(frame.heading) :
              frame.heading[j].name = "length" =>
                  frame.heading[j].value >= 0 /\ (j > k => frame.heading[j] = last)

\* When every frame declares its payload's size, in a header among others,
\* PullMessage stays in step with the client: the payloads it has handed on
\* are the first of those sent, none lost, torn or repeated, whatever is
\* wrong with their JSON.
PulledInStep ==
    (\A i \in 1 .. Len(sent) : WellDeclared(sent[i])) =>
        pulled = [i \in 1 .. Len(pulled) |-> Payload(i)]

\* A request that is dispatched is answered, unless the loop ends or a write
\* fails: no thread keeps the others from the output, whatever is pulled, opened
\* and pushed meanwhile.  A query counts only when its document was open by
\* then: for another one ScheduleLanguageQuery sends nothing, not even an error.
Asked(i) ==
    \E k \in 1 .. Len(pulled) :
        LET m == Message(pulled[k]) IN
        /\ pulled[k] = Payload(i) /\ Dispatches(m)
        /\ m.method \in SyncRequests \/ (m.method \in Queries /\ OpenAfter(k - 1))
Answered(i) == \E k \in 1 .. Len(output) : output[k] = [part |-> "payload", what |-> Response(i)]
RequestsAnswered == \A i \in Ids : Asked(i) ~> Answered(i) \/ failed \/ pc = "ended"

\* "This function is thread-safe" (SendServerResponse): a thread that pushes
\* finds the mutex and the transport.
OutputOutlivesPushes ==
    ~alive => \A t \in Threads : push[t] = Idle
=============================================================================
