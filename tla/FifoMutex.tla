----------------------------- MODULE FifoMutex ------------------------------
(***************************************************************************)
(* What AsyncMutex promises: one holder at a time, and whoever has to wait *)
(* gets the mutex in the order of arrival, straight from the holder before *)
(* it, so that a newcomer never overtakes.                                 *)
(***************************************************************************)
EXTENDS Sequences

CONSTANTS Users, Null

VARIABLES
    holder,  \* a user or Null
    queue    \* the users who wait, first come first

vars == <<holder, queue>>

Init == holder = Null /\ queue = <<>>

Acquire(u) == holder = Null /\ holder' = u /\ UNCHANGED queue

Wait(u) == holder # Null /\ queue' = Append(queue, u) /\ UNCHANGED holder

Release ==
    /\ holder # Null
    /\ IF queue = <<>>
       THEN holder' = Null /\ UNCHANGED queue
       ELSE holder' = Head(queue) /\ queue' = Tail(queue)

Next == (\E u \in Users : Acquire(u) \/ Wait(u)) \/ Release

Spec == Init /\ [][Next]_vars
=============================================================================
