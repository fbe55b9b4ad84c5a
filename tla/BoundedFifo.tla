----------------------------- MODULE BoundedFifo -----------------------------
(***************************************************************************)
(* What the message queues of EMMS promise: a first-in first-out queue of  *)
(* bounded capacity whose two operations never block.  enq answers 0 and   *)
(* appends, or answers -1 when the queue is full; deq answers 0 and hands  *)
(* over the oldest item, or answers -1 when the queue is empty.            *)
(*                                                                         *)
(* This is the abstract specification that Mcq (the ring buffer of         *)
(* utils/mcq.c) and Acq (its blocking wrapper, utils/acq.c) implement.     *)
(***************************************************************************)
EXTENDS Integers, Sequences

CONSTANTS Items,      \* the values that can be queued
          Capacity    \* how many of them fit

VARIABLES queue,      \* the items waiting, oldest first
          enqRet,     \* the answer of the last completed enq
          deqRet,     \* the answer of the last completed deq
          out         \* what the last successful deq handed over

vars == <<queue, enqRet, deqRet, out>>

Init == /\ queue = << >>
        /\ enqRet = 0
        /\ deqRet = 0
        /\ out \notin Items

Enq(d) == /\ Len(queue) < Capacity
          /\ queue' = Append(queue, d)
          /\ enqRet' = 0
          /\ UNCHANGED <<deqRet, out>>

EnqFull == /\ Len(queue) = Capacity
           /\ enqRet' = -1
           /\ UNCHANGED <<queue, deqRet, out>>

Deq == /\ queue # << >>
       /\ out' = Head(queue)
       /\ queue' = Tail(queue)
       /\ deqRet' = 0
       /\ UNCHANGED enqRet

DeqEmpty == /\ queue = << >>
            /\ deqRet' = -1
            /\ UNCHANGED <<queue, enqRet, out>>

Next == \/ \E d \in Items : Enq(d)
        \/ EnqFull
        \/ Deq
        \/ DeqEmpty

Spec == Init /\ [][Next]_vars
==============================================================================
