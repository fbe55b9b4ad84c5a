-------------------------------- MODULE Acq --------------------------------
(***************************************************************************)
(* The asynchronous queue of utils/acq.c: an Mcq ring behind a mutex, and a *)
(* condition variable on which consumers wait.  It joins the threads of    *)
(* EMMS: capture to analysis, analysis to monitor and log, monitor to log. *)
(*                                                                         *)
(* A thread is modelled by where it stands in Acq_enq or Acq_deq; the two  *)
(* accesses Mcq_enq and Mcq_deq make to the indices are separate steps, so *)
(* that what the mutex is needed for is visible.  A producer sends the     *)
(* messages <<p, 1>>, <<p, 2>>, ... and after an answer of -1 (the queue   *)
(* is full) either sends the same message again, as log_push does, or goes *)
(* on to the next, as analy_noweb_putin does.                              *)
(***************************************************************************)
EXTENDS Integers, Sequences, FiniteSets

CONSTANTS Producers, Consumers,
          QLen,         \* slots of the ring
          MaxMsgs,      \* bound: messages each producer sends
          Nil          \* no thread, no message

Threads == Producers \cup Consumers
Msgs == Producers \X (1..MaxMsgs)

ASSUME ThreadsAssumption == Producers \cap Consumers = {} /\ Nil \notin Threads
ASSUME QLenAssumption == QLen \in Nat \ {0}
ASSUME MaxMsgsAssumption == MaxMsgs \in Nat
ASSUME NilAssumption == Nil \notin Msgs

Slots == 0..(QLen - 1)
MOD(x, y) == x % y

VARIABLES
    mutex,       \* the thread that holds q->mutex, or Nil
    waiting,     \* the threads blocked in pthread_cond_wait
    pc,          \* where each thread is
    buf, head, tail,
    l,           \* each thread's local l of Mcq_enq and Mcq_deq
    next,        \* the number of the message each producer sends now
    ret,         \* the last answer of Acq_enq
    got          \* what the last Acq_deq handed over

acqVars == <<mutex, waiting, pc, buf, head, tail, l, next, ret, got>>

EnqPc == {"idle", "lock", "test", "store", "unlock", "signal"}
DeqPc == {"lock", "empty", "wait", "relock", "test", "load", "unlock"}
\* Where a thread owns the mutex.
Locked == {"test", "store", "unlock", "empty", "load"}

AcqTypeOK ==
    /\ mutex \in Threads \cup {Nil}
    /\ waiting \subseteq Consumers
    /\ pc \in [Threads -> EnqPc \cup DeqPc]
    /\ \A p \in Producers : pc[p] \in EnqPc
    /\ \A c \in Consumers : pc[c] \in DeqPc
    /\ buf \in [Slots -> Msgs \cup {Nil}]
    /\ head \in Slots /\ tail \in Slots
    /\ l \in [Threads -> Slots]
    /\ next \in [Producers -> 1..(MaxMsgs + 1)]
    /\ ret \in {0, -1}
    /\ got \in Msgs \cup {Nil}

AcqInit ==
    /\ mutex = Nil /\ waiting = {}
    /\ pc = [t \in Threads |-> IF t \in Producers THEN "idle" ELSE "lock"]
    /\ buf = [s \in Slots |-> Nil] /\ head = 0 /\ tail = 0
    /\ l = [t \in Threads |-> 0]
    /\ next = [p \in Producers |-> 1]
    /\ ret = 0 /\ got = Nil

Goto(t, from, to) == pc[t] = from /\ pc' = [pc EXCEPT ![t] = to]

Unlock(t, to) ==
    /\ Goto(t, "unlock", to)
    /\ mutex' = Nil
    /\ UNCHANGED <<waiting, buf, head, tail, l, next, ret, got>>

------------------------------------------------------------------------------
(* Acq_enq *)

Call(p) ==
    /\ next[p] <= MaxMsgs
    /\ Goto(p, "idle", "lock")
    /\ UNCHANGED <<mutex, waiting, buf, head, tail, l, next, ret, got>>

EnqLock(p) ==
    /\ mutex = Nil
    /\ Goto(p, "lock", "test")
    /\ mutex' = p
    /\ UNCHANGED <<waiting, buf, head, tail, l, next, ret, got>>

\* Mcq_enq up to its test; -1 when the ring is full.
EnqFull(p) ==
    /\ MOD(tail + 1, QLen) = head
    /\ Goto(p, "test", "unlock")
    /\ ret' = -1
    /\ next' \in {next, [next EXCEPT ![p] = @ + 1]}
    /\ UNCHANGED <<mutex, waiting, buf, head, tail, l, got>>

\* Faulty: the test for a full ring is forgotten.
EnqTestForgotten(p) ==
    /\ Goto(p, "test", "store")
    /\ l' = [l EXCEPT ![p] = MOD(tail + 1, QLen)]
    /\ UNCHANGED <<mutex, waiting, buf, head, tail, next, ret, got>>

EnqTest(p) ==
    /\ MOD(tail + 1, QLen) # head
    /\ Goto(p, "test", "store")
    /\ l' = [l EXCEPT ![p] = MOD(tail + 1, QLen)]
    /\ UNCHANGED <<mutex, waiting, buf, head, tail, next, ret, got>>

\* Mcq_enq from its test on: the copy and the new tail.
EnqStore(p) ==
    /\ Goto(p, "store", "unlock")
    /\ buf' = [buf EXCEPT ![l[p]] = <<p, next[p]>>]
    /\ tail' = l[p]
    /\ ret' = 0
    /\ next' = [next EXCEPT ![p] = @ + 1]
    /\ UNCHANGED <<mutex, waiting, head, l, got>>

\* Faulty: the signal is forgotten.
EnqSignalForgotten(p) ==
    /\ Goto(p, "signal", "idle")
    /\ UNCHANGED <<mutex, waiting, buf, head, tail, l, next, ret, got>>

\* pthread_cond_signal, after the unlock and whether or not the enq succeeded:
\* it wakes one waiting thread, if there is one.
EnqSignal(p) ==
    /\ pc[p] = "signal"
    /\ \/ /\ waiting = {}
          /\ pc' = [pc EXCEPT ![p] = "idle"]
          /\ UNCHANGED waiting
       \/ \E c \in waiting :
          /\ pc' = [pc EXCEPT ![p] = "idle", ![c] = "relock"]
          /\ waiting' = waiting \ {c}
    /\ UNCHANGED <<mutex, buf, head, tail, l, next, ret, got>>

------------------------------------------------------------------------------
(* Acq_deq, called in an endless loop by every consumer's callback *)

DeqLock(c) ==
    /\ mutex = Nil
    /\ \/ Goto(c, "lock", "empty")
       \/ Goto(c, "relock", "empty")   \* pthread_cond_wait takes it back
    /\ mutex' = c
    /\ UNCHANGED <<waiting, buf, head, tail, l, next, ret, got>>

\* Faulty: waits without looking at the queue.
DeqWaitBlindly(c) ==
    /\ Goto(c, "empty", "wait")
    /\ waiting' = waiting \cup {c}
    /\ mutex' = Nil
    /\ UNCHANGED <<buf, head, tail, l, next, ret, got>>

\* while (Mcq_empty): wait, which releases the mutex in the same step.
DeqWait(c) ==
    /\ head = tail
    /\ Goto(c, "empty", "wait")
    /\ waiting' = waiting \cup {c}
    /\ mutex' = Nil
    /\ UNCHANGED <<buf, head, tail, l, next, ret, got>>

\* The standard allows pthread_cond_wait to return without a signal.
Spurious(c) ==
    /\ Goto(c, "wait", "relock")
    /\ waiting' = waiting \ {c}
    /\ UNCHANGED <<mutex, buf, head, tail, l, next, ret, got>>

\* The loop ends; Mcq_deq tests the indices once more, under the same mutex.
DeqTest(c) ==
    /\ head # tail
    /\ Goto(c, "empty", "load")
    /\ l' = [l EXCEPT ![c] = MOD(head + 1, QLen)]
    /\ UNCHANGED <<mutex, waiting, buf, head, tail, next, ret, got>>

DeqLoad(c) ==
    /\ Goto(c, "load", "unlock")
    /\ got' = buf[l[c]]
    /\ head' = l[c]
    /\ UNCHANGED <<mutex, waiting, buf, tail, l, next, ret>>

Producer(p) == \/ Call(p) \/ EnqLock(p) \/ EnqFull(p) \/ EnqTest(p) \/ EnqStore(p)
               \/ Unlock(p, "signal") \/ EnqSignal(p)
Consumer(c) == \/ DeqLock(c) \/ DeqWait(c) \/ Spurious(c) \/ DeqTest(c) \/ DeqLoad(c)
               \/ Unlock(c, "lock")
AcqNext == (\E p \in Producers : Producer(p)) \/ (\E c \in Consumers : Consumer(c))

AcqSpec == AcqInit /\ [][AcqNext]_acqVars

\* Every thread the scheduler can run is run, and one that keeps asking for
\* the mutex gets it; nothing makes a producer call or a wait end by itself.
AcqFairSpec ==
    /\ AcqSpec
    /\ \A p \in Producers :
         /\ SF_acqVars(EnqLock(p))
         /\ WF_acqVars(EnqFull(p) \/ EnqTest(p) \/ EnqStore(p)
                    \/ Unlock(p, "signal") \/ EnqSignal(p))
    /\ \A c \in Consumers :
         /\ SF_acqVars(DeqLock(c))
         /\ WF_acqVars(DeqWait(c) \/ DeqTest(c) \/ DeqLoad(c) \/ Unlock(c, "lock"))

------------------------------------------------------------------------------
Count == MOD(tail - head + QLen, QLen)
Content == [i \in 1..Count |-> buf[MOD(head + i, QLen)]]

\* A thread is between lock and unlock exactly while it owns the mutex: with
\* any number of producers and consumers, Mcq is used by one thread at a time.
MutualExclusion == \A t \in Threads : pc[t] \in Locked <=> mutex = t

\* No lost wakeup: if messages are queued while all consumers are blocked in
\* pthread_cond_wait, some producer has yet to signal.  The signal is sent
\* after the unlock, so other threads run in between; it is still in time.
NoLostWakeup ==
    head # tail /\ Consumers # {} /\ waiting = Consumers
      => \E p \in Producers : pc[p] \in {"unlock", "signal"}

\* Acq is a bounded FIFO for any number of threads: what Acq_enq accepted
\* comes out once, in that order, and -1 is answered only when it is full.
Fifo == INSTANCE BoundedFifo
          WITH Items <- Msgs, Capacity <- QLen - 1, queue <- Content,
               enqRet <- ret, deqRet <- 0, out <- got
ImplementsFifo == Fifo!Spec

\* Every message accepted is handed to a consumer.
Delivered ==
    \A m \in Msgs : (\E i \in 1..Count : Content[i] = m) ~> got = m
==============================================================================
