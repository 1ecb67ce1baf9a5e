-------------------------- MODULE AsyncPrimitives --------------------------
(***************************************************************************)
(* AsyncLatch, AsyncMutex and the IntrusiveQueue both keep their waiters   *)
(* in, at the granularity of their internal std::mutex: what happens under *)
(* it is one action, what happens after its release is another.  The tasks *)
(* do what every language query with a feature state does: wait for the    *)
(* latch, then for the mutex, work, unlock and free their operation state. *)
(*                                                                         *)
(* A waiter is a node inside the operation state of its task, so the links *)
(* of the queues die with the task.  CountDown takes the whole queue,      *)
(* releases the internal mutex and walks it: it resumes a waiter and reads *)
(* the waiter's link afterwards.  Nothing keeps the waiter until then, and *)
(* when its memory holds something else by now the walk ends.  cutOff      *)
(* is the history of that, not a variable of the code: the tasks that were *)
(* still to be resumed.                                                    *)
(***************************************************************************)
EXTENDS Integers, Sequences, FiniteSets

CONSTANTS
    Tasks,
    Signalers,      \* threads that call CountDown, once each
    InitialCount,   \* the counter the latch is constructed with
    Null

ASSUME CountAssumption ==
    InitialCount \in Nat \ {0} /\ InitialCount <= Cardinality(Signalers)
ASSUME NullNodeAssumption == Null \notin Tasks
ASSUME TaskAssumption == IsFiniteSet(Tasks)

VARIABLES
    counter,      \* AsyncLatch::counter
    latchQueue,   \* AsyncLatch::signalResumeQueue
    latchNext,    \* WaiterBase::next of the latch operation states
    cutOff,       \* the tasks behind a waiter whose link was gone when read
    locked,       \* AsyncMutex::locked
    mutexQueue,   \* AsyncMutex::signalResumeQueue
    mutexNext,    \* WaiterBase::next of the mutex operation states
    taskPc,       \* Tasks -> where the task is
    walk          \* Signalers -> [pc, node]: the loop in CountDown

latchVars == <<counter, latchQueue, latchNext, cutOff>>
mutexVars == <<locked, mutexQueue, mutexNext>>
asyncVars == <<latchVars, mutexVars, taskPc, walk>>

EmptyQueue == [head |-> Null, tail |-> Null]

AsyncInit ==
    /\ counter = InitialCount
    /\ latchQueue = EmptyQueue
    /\ latchNext = [t \in Tasks |-> Null]
    /\ cutOff = {}
    /\ locked = FALSE
    /\ mutexQueue = EmptyQueue
    /\ mutexNext = [t \in Tasks |-> Null]
    /\ taskPc = [t \in Tasks |-> "new"]
    /\ walk = [s \in Signalers |-> [pc |-> "idle", node |-> Null]]

-----------------------------------------------------------------------------
(***************************************************************************)
(* IntrusiveQueue: the queue and the links after push and pop.             *)
(***************************************************************************)
PushQueue(queue, t) ==
    [head |-> IF queue.tail = Null THEN t ELSE queue.head, tail |-> t]

PushLinks(queue, links, t) ==
    LET cleared == [links EXCEPT ![t] = Null]
    IN  IF queue.tail = Null THEN cleared ELSE [cleared EXCEPT ![queue.tail] = t]

\* Mutant: pop forgets that the tail goes with the last element.
PopKeepingTail(queue, links) == [queue EXCEPT !.head = links[queue.head]]

PopQueue(queue, links) ==
    LET rest == links[queue.head]
    IN  [head |-> rest, tail |-> IF rest = Null THEN Null ELSE queue.tail]

PopLinks(queue, links) == [links EXCEPT ![queue.head] = Null]

-----------------------------------------------------------------------------
(***************************************************************************)
(* AsyncLatch.                                                             *)
(***************************************************************************)
LatchStart(t) ==
    /\ taskPc[t] = "new"
    /\ \/ /\ counter = 0
          /\ taskPc' = [taskPc EXCEPT ![t] = "resumed"]
          /\ UNCHANGED latchVars
       \/ /\ counter # 0
          /\ latchQueue' = PushQueue(latchQueue, t)
          /\ latchNext' = PushLinks(latchQueue, latchNext, t)
          /\ taskPc' = [taskPc EXCEPT ![t] = "awaiting latch"]
          /\ UNCHANGED <<counter, cutOff>>
    /\ UNCHANGED <<mutexVars, walk>>

\* Under the internal mutex: one less, and at zero the queue is taken.
CountDown(s) ==
    LET rest == IF counter > 0 THEN counter - 1 ELSE 0
    IN  /\ walk[s].pc = "idle"
        /\ counter' = rest
        /\ \/ /\ rest = 0
              /\ walk' = [walk EXCEPT ![s] = [pc |-> "resume", node |-> latchQueue.head]]
              /\ latchQueue' = EmptyQueue
           \/ /\ rest # 0
              /\ walk' = [walk EXCEPT ![s].pc = "done"]
              /\ UNCHANGED latchQueue
        /\ UNCHANGED <<latchNext, cutOff, mutexVars, taskPc>>

\* waiter.resume(waiter, false): the continuation of the task runs on this
\* thread until it has the mutex or queues for it (MutexStart).
ResumeWaiter(s) ==
    LET t == walk[s].node
    IN  /\ walk[s].pc = "resume"
        /\ t # Null
        /\ taskPc' = [taskPc EXCEPT ![t] = "resumed"]
        /\ walk' = [walk EXCEPT ![s].pc = "advance"]
        /\ UNCHANGED <<latchVars, mutexVars>>

\* ++iterator: the link is read from the node just resumed.  Once the
\* operation state has been freed the read is undefined: the old link may
\* still be there, or what the memory holds now, here a null pointer.
NextNode(t) ==
    IF taskPc[t] = "freed" THEN {latchNext[t], Null} ELSE {latchNext[t]}

AdvanceWalk(s) ==
    LET t == walk[s].node
    IN  /\ walk[s].pc = "advance"
        /\ taskPc[t] # "resumed"
        /\ \E n \in NextNode(t) :
              /\ walk' = [walk EXCEPT ![s] = [pc |-> "resume", node |-> n]]
              /\ cutOff' = IF n = latchNext[t] THEN cutOff
                           ELSE cutOff \cup {u \in Tasks : taskPc[u] = "awaiting latch"}
        /\ UNCHANGED <<counter, latchQueue, latchNext, mutexVars, taskPc>>

EndWalk(s) ==
    /\ walk[s].pc = "resume"
    /\ walk[s].node = Null
    /\ walk' = [walk EXCEPT ![s].pc = "done"]
    /\ UNCHANGED <<latchVars, mutexVars, taskPc>>

-----------------------------------------------------------------------------
(***************************************************************************)
(* AsyncMutex.                                                             *)
(***************************************************************************)
MutexStart(t) ==
    /\ taskPc[t] = "resumed"
    /\ \/ /\ ~locked
          /\ locked' = TRUE
          /\ taskPc' = [taskPc EXCEPT ![t] = "holding"]
          /\ UNCHANGED <<mutexQueue, mutexNext>>
       \/ /\ locked
          /\ mutexQueue' = PushQueue(mutexQueue, t)
          /\ mutexNext' = PushLinks(mutexQueue, mutexNext, t)
          /\ taskPc' = [taskPc EXCEPT ![t] = "awaiting mutex"]
          /\ UNCHANGED locked
    /\ UNCHANGED <<latchVars, walk>>

\* Mutant: the mutex is released before the next waiter is woken, which has
\* not taken it itself.
UnlockReleasing(t) ==
    /\ taskPc[t] = "holding"
    /\ locked' = FALSE
    /\ \/ /\ mutexQueue.head # Null
          /\ taskPc' = [taskPc EXCEPT ![t] = "unlocked", ![mutexQueue.head] = "holding"]
          /\ mutexQueue' = PopQueue(mutexQueue, mutexNext)
          /\ mutexNext' = PopLinks(mutexQueue, mutexNext)
       \/ /\ mutexQueue.head = Null
          /\ taskPc' = [taskPc EXCEPT ![t] = "unlocked"]
          /\ UNCHANGED <<mutexQueue, mutexNext>>
    /\ UNCHANGED <<latchVars, walk>>

\* The head of the queue gets the mutex without its being released.
Unlock(t) ==
    /\ taskPc[t] = "holding"
    /\ \/ /\ mutexQueue.head # Null
          /\ taskPc' = [taskPc EXCEPT ![t] = "unlocked", ![mutexQueue.head] = "holding"]
          /\ mutexQueue' = PopQueue(mutexQueue, mutexNext)
          /\ mutexNext' = PopLinks(mutexQueue, mutexNext)
          /\ UNCHANGED locked
       \/ /\ mutexQueue.head = Null
          /\ taskPc' = [taskPc EXCEPT ![t] = "unlocked"]
          /\ locked' = FALSE
          /\ UNCHANGED <<mutexQueue, mutexNext>>
    /\ UNCHANGED <<latchVars, walk>>

\* The task is complete and its operation state is deleted.
Free(t) ==
    /\ taskPc[t] = "unlocked"
    /\ taskPc' = [taskPc EXCEPT ![t] = "freed"]
    /\ UNCHANGED <<latchVars, mutexVars, walk>>

-----------------------------------------------------------------------------
TaskStep(t) == LatchStart(t) \/ MutexStart(t) \/ Unlock(t) \/ Free(t)
SignalerStep(s) == CountDown(s) \/ ResumeWaiter(s) \/ AdvanceWalk(s) \/ EndWalk(s)

Finished ==
    /\ \A t \in Tasks : taskPc[t] = "freed" \/ (taskPc[t] = "awaiting latch" /\ t \in cutOff)
    /\ \A s \in Signalers : walk[s].pc = "done"

Terminated == Finished /\ UNCHANGED asyncVars

AsyncNext ==
    \/ \E t \in Tasks : TaskStep(t)
    \/ \E s \in Signalers : SignalerStep(s)
    \/ Terminated

AsyncSpec == AsyncInit /\ [][AsyncNext]_asyncVars

\* Threads that are in a critical section or a walk go on; tasks end.
Fairness ==
    /\ \A t \in Tasks : WF_asyncVars(TaskStep(t))
    /\ \A s \in Signalers : WF_asyncVars(SignalerStep(s))

AsyncFairSpec == AsyncSpec /\ Fairness

-----------------------------------------------------------------------------
QueueType == [head : Tasks \cup {Null}, tail : Tasks \cup {Null}]

AsyncTypeOK ==
    /\ counter \in 0 .. InitialCount
    /\ latchQueue \in QueueType /\ mutexQueue \in QueueType
    /\ latchNext \in [Tasks -> Tasks \cup {Null}]
    /\ mutexNext \in [Tasks -> Tasks \cup {Null}]
    /\ cutOff \subseteq Tasks
    /\ locked \in BOOLEAN
    /\ taskPc \in [Tasks -> {"new", "awaiting latch", "resumed", "awaiting mutex",
                             "holding", "unlocked", "freed"}]
    /\ walk \in [Signalers -> [pc : {"idle", "resume", "advance", "done"},
                               node : Tasks \cup {Null}]]

LatchOpened == counter = 0 /\ \A s \in Signalers : walk[s].pc \in {"idle", "done"}

\* "Resume all waiters": when CountDown returns from the walk that found the
\* counter at zero, nobody who waited for the latch is left in its queue.
AllWaitersResumed == LatchOpened => \A t \in Tasks : taskPc[t] # "awaiting latch"

\* What there is of it: a task that waits for ever was linked behind a waiter
\* that was freed before the walk had read its link.  No race of waiting,
\* counting down and the walk itself forgets one.
OthersResumed == LatchOpened => \A t \in Tasks : taskPc[t] = "awaiting latch" => t \in cutOff
CutOffByFreed ==
    [][cutOff' # cutOff => \E s \in Signalers : walk[s].pc = "advance"
                                               /\ taskPc[walk[s].node] = "freed"]_asyncVars

Holders == {t \in Tasks : taskPc[t] = "holding"}

\* Handing the mutex over keeps the flag and the holder in step: there is one
\* holder, and the flag is never left set without one.
OneHolderWhileLocked == Cardinality(Holders) = IF locked THEN 1 ELSE 0

\* What a walk along the links of a queue meets, Null once it is past the end.
Walked(queue, links) ==
    LET node[i \in 1 .. Cardinality(Tasks) + 1] ==
            IF i = 1 THEN queue.head
            ELSE IF node[i - 1] = Null THEN Null ELSE links[node[i - 1]]
    IN  node

\* The elements of a queue, in order, as its links give them.
Elements(queue, links) ==
    LET length == Cardinality({i \in 1 .. Cardinality(Tasks) + 1 : Walked(queue, links)[i] # Null})
    IN  [i \in 1 .. length |-> Walked(queue, links)[i]]

\* Every task passes the latch and gets its turn with the mutex, also when
\* others are freed under the walk, except for those that are cut off by that.
EveryTaskServed == \A t \in Tasks : taskPc[t] = "new" ~> taskPc[t] = "freed" \/ t \in cutOff

\* The mutex is a fair one: it is granted in the order of arrival.
OneOf(set) == IF set = {} THEN Null ELSE CHOOSE t \in set : TRUE
Holder == OneOf(Holders)
Waiters == Elements(mutexQueue, mutexNext)

Fifo == INSTANCE FifoMutex WITH Users <- Tasks, holder <- Holder, queue <- Waiters

ImplementsFifoMutex == Fifo!Spec
=============================================================================
