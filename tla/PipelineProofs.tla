--------------------------- MODULE PipelineProofs ---------------------------
(***************************************************************************)
(* Proofs about the threads between the capture and the database.          *)
(*   - The blocking queue that connects them, for any number of producers, *)
(*     consumers, slots and messages: its types, mutual exclusion, that no *)
(*     wakeup is lost, and that it implements the bounded FIFO.            *)
(*   - The way of a mail through the threads, for any number of mails and  *)
(*     any length of the queues: its types, that a mail is in one place at *)
(*     a time, and that the threads keep the promise of MailLifecycle.     *)
(***************************************************************************)
EXTENDS Acq, Pipeline, SequenceTheorems, TLAPS

-----------------------------------------------------------------------------
(* The blocking queue.                                                       *)

\* Where a consumer is when it counts as blocked.
WaitInv == \A c \in Consumers : c \in waiting <=> pc[c] = "wait"

\* A producer inside Acq_enq up to the store has a message to send.
SendInv == \A p \in Producers : pc[p] \in {"lock", "test", "store"} => next[p] <= MaxMsgs

AcqInv == AcqTypeOK /\ WaitInv /\ SendInv /\ MutualExclusion

LEMMA ModInSlots == \A i \in Slots : MOD(i + 1, QLen) \in Slots
BY QLenAssumption, Z3 DEF MOD, Slots

LEMMA AcqInvInit == AcqInit => AcqInv
<1> SUFFICES ASSUME AcqInit PROVE AcqInv
  OBVIOUS
<1>1. \A t \in Threads : pc[t] = IF t \in Producers THEN "idle" ELSE "lock"
  BY DEF AcqInit
<1>2. AcqTypeOK
  BY <1>1, ThreadsAssumption, QLenAssumption, MaxMsgsAssumption
     DEF AcqInit, AcqTypeOK, Threads, EnqPc, DeqPc, Slots
<1>3. WaitInv /\ SendInv /\ MutualExclusion
  BY <1>1, ThreadsAssumption
     DEF AcqInit, WaitInv, SendInv, MutualExclusion, Threads, Locked
<1>4. QED BY <1>2, <1>3 DEF AcqInv

LEMMA ProducerStep ==
    ASSUME AcqInv, NEW p \in Producers, Producer(p)
    PROVE  AcqInv'
<1> USE DEF AcqInv, AcqTypeOK, WaitInv, SendInv, MutualExclusion, Threads, EnqPc, DeqPc, Locked, Goto
<1>0. p \notin Consumers /\ p \in Threads /\ p # Nil
  BY ThreadsAssumption
<1>1. CASE Call(p)
  BY <1>0, <1>1 DEF Call
<1>2. CASE EnqLock(p)
  BY <1>0, <1>2, ThreadsAssumption DEF EnqLock
<1>3. CASE EnqFull(p)
  <2>1. ret' = -1 /\ next' \in [Producers -> 1..(MaxMsgs + 1)]
    <3>1. next[p] <= MaxMsgs
      BY <1>0, <1>3 DEF EnqFull, SendInv
    <3>2. QED BY <1>0, <1>3, <3>1, MaxMsgsAssumption DEF EnqFull
  <2>2. QED BY <1>0, <1>3, <2>1 DEF EnqFull
<1>4. CASE EnqTest(p)
  BY <1>0, <1>4, ModInSlots DEF EnqTest
<1>5. CASE EnqStore(p)
  <2>1. next[p] \in 1..MaxMsgs /\ l[p] \in Slots
    BY <1>0, <1>5, MaxMsgsAssumption DEF EnqStore, SendInv
  <2>2. <<p, next[p]>> \in Msgs
    BY <1>0, <2>1 DEF Msgs
  <2>3. /\ buf' \in [Slots -> Msgs \cup {Nil}] /\ tail' \in Slots
        /\ next' \in [Producers -> 1..(MaxMsgs + 1)]
    BY <1>0, <1>5, <2>1, <2>2, MaxMsgsAssumption DEF EnqStore
  <2>4. QED BY <1>0, <1>5, <2>1, <2>3 DEF EnqStore
<1>6. CASE Unlock(p, "signal")
  BY <1>0, <1>6, ThreadsAssumption DEF Unlock
<1>7. CASE EnqSignal(p)
  BY <1>0, <1>7 DEF EnqSignal
<1>8. QED
  BY <1>1, <1>2, <1>3, <1>4, <1>5, <1>6, <1>7 DEF Producer

LEMMA ConsumerStep ==
    ASSUME AcqInv, NEW c \in Consumers, Consumer(c)
    PROVE  AcqInv'
<1> USE DEF AcqInv, AcqTypeOK, WaitInv, SendInv, MutualExclusion, Threads, EnqPc, DeqPc, Locked, Goto
<1>0. c \notin Producers /\ c \in Threads /\ c # Nil
  BY ThreadsAssumption
<1>1. CASE DeqLock(c)
  BY <1>0, <1>1, ThreadsAssumption DEF DeqLock
<1>2. CASE DeqWait(c)
  BY <1>0, <1>2, ThreadsAssumption DEF DeqWait
<1>3. CASE Spurious(c)
  BY <1>0, <1>3 DEF Spurious
<1>4. CASE DeqTest(c)
  BY <1>0, <1>4, ModInSlots DEF DeqTest
<1>5. CASE DeqLoad(c)
  BY <1>0, <1>5 DEF DeqLoad
<1>6. CASE Unlock(c, "lock")
  BY <1>0, <1>6, ThreadsAssumption DEF Unlock
<1>7. QED
  BY <1>1, <1>2, <1>3, <1>4, <1>5, <1>6 DEF Consumer

LEMMA AcqInvStep == AcqInv /\ [AcqNext]_acqVars => AcqInv'
<1>1. ASSUME AcqInv, UNCHANGED acqVars PROVE AcqInv'
  BY <1>1 DEF AcqInv, AcqTypeOK, WaitInv, SendInv, MutualExclusion, acqVars
<1>2. QED BY <1>1, ProducerStep, ConsumerStep DEF AcqNext

LEMMA Inductive == AcqSpec => []AcqInv
BY AcqInvInit, AcqInvStep, PTL DEF AcqSpec

\* Types, for any set of threads and any length.
THEOREM AcqTypeCorrect == AcqSpec => []AcqTypeOK
BY Inductive, PTL DEF AcqInv

\* One thread at a time between lock and unlock: the ring, which is written for
\* one producer and one consumer, is never entered twice.
THEOREM Mutex == AcqSpec => []MutualExclusion
BY Inductive, PTL DEF AcqInv

-----------------------------------------------------------------------------
\* Wakeups.  The step that could leave a message behind with everyone asleep is
\* the wait, and the waiter still holds the mutex when it finds the queue empty.
LEMMA WakeupStep == AcqInv /\ NoLostWakeup /\ [AcqNext]_acqVars => NoLostWakeup'
<1> SUFFICES ASSUME AcqInv, NoLostWakeup, [AcqNext]_acqVars,
                    head' # tail', Consumers # {}, waiting' = Consumers
             PROVE  \E p \in Producers : pc'[p] \in {"unlock", "signal"}
  BY DEF NoLostWakeup
<1> USE DEF Goto
<1>0. /\ waiting \subseteq Consumers
      /\ pc \in [Threads -> EnqPc \cup DeqPc]
      /\ Producers \cap Consumers = {}
      /\ Producers \subseteq Threads /\ Consumers \subseteq Threads
  BY ThreadsAssumption DEF AcqInv, AcqTypeOK, Threads
<1>1. ASSUME NEW p \in Producers, Producer(p)
      PROVE  \E q \in Producers : pc'[q] \in {"unlock", "signal"}
  <2>1. CASE EnqSignal(p)
    BY <1>0, <2>1 DEF EnqSignal
  <2>2. CASE EnqFull(p) \/ EnqStore(p) \/ Unlock(p, "signal")
    BY <1>0, <2>2 DEF EnqFull, EnqStore, Unlock
  <2>3. CASE Call(p) \/ EnqLock(p) \/ EnqTest(p)
    <3>1. \E q \in Producers : pc[q] \in {"unlock", "signal"}
      BY <2>3 DEF Call, EnqLock, EnqTest, NoLostWakeup
    <3>2. pc[p] \notin {"unlock", "signal"} /\ \A q \in Threads \ {p} : pc'[q] = pc[q]
      BY <1>0, <2>3 DEF Call, EnqLock, EnqTest
    <3>3. QED BY <1>0, <3>1, <3>2
  <2>4. QED BY <1>1, <2>1, <2>2, <2>3 DEF Producer
<1>2. ASSUME NEW c \in Consumers, Consumer(c)
      PROVE  \E q \in Producers : pc'[q] \in {"unlock", "signal"}
  <2>1. c \in waiting'
    OBVIOUS
  <2>2. CASE DeqWait(c)
    BY <2>2 DEF DeqWait
  <2>3. CASE Spurious(c)
    BY <2>1, <2>3 DEF Spurious
  <2>4. CASE DeqLock(c) \/ DeqTest(c) \/ DeqLoad(c) \/ Unlock(c, "lock")
    <3>1. pc[c] # "wait" /\ waiting' = waiting
      BY <2>4 DEF DeqLock, DeqTest, DeqLoad, Unlock
    <3>2. QED BY <2>1, <3>1 DEF AcqInv, WaitInv
  <2>5. QED BY <1>2, <2>2, <2>3, <2>4 DEF Consumer
<1>3. CASE UNCHANGED acqVars
  BY <1>3 DEF acqVars, NoLostWakeup
<1>4. QED BY <1>1, <1>2, <1>3 DEF AcqNext

\* While every consumer is blocked and a message waits, a signal is on its way.
THEOREM WakeupNotLost == AcqSpec => []NoLostWakeup
<1>1. AcqInit => NoLostWakeup
  BY DEF AcqInit, NoLostWakeup
<1>2. QED BY <1>1, Inductive, WakeupStep, PTL DEF AcqSpec
-----------------------------------------------------------------------------
(* The refinement: Content is the abstract queue.  Mcq is used by one thread *)
(* at a time, so what it read of the indices under the mutex still holds     *)
(* when it stores.                                                           *)

\* What a thread that has passed its test relies on.
StoreInv == \A p \in Producers :
    pc[p] = "store" => l[p] = MOD(tail + 1, QLen) /\ l[p] # head
LoadInv == \A c \in Consumers :
    pc[c] = "load" => l[c] = MOD(head + 1, QLen) /\ head # tail

\* The slots that hold a message that was not handed over yet.
Live(s) == IF head <= tail THEN head < s /\ s <= tail
                           ELSE head < s \/ s <= tail
LiveFilled == \A s \in Slots : Live(s) => buf[s] \in Msgs

RingInv == StoreInv /\ LoadInv /\ LiveFilled

\* On the indices the code computes, MOD wraps at most once.
LEMMA ModWraps ==
    ASSUME NEW x \in 0..(2 * QLen - 1)
    PROVE  MOD(x, QLen) = IF x < QLen THEN x ELSE x - QLen
<1>1. CASE x < QLen
  BY <1>1, QLenAssumption, Z3 DEF MOD
<1>2. CASE ~(x < QLen)
  <2>1. x - QLen \in 0..(QLen - 1) /\ x = (x - QLen) + QLen
    BY <1>2, QLenAssumption
  <2>2. ((x - QLen) + QLen) % QLen = (x - QLen) % QLen
    BY <2>1, QLenAssumption, Z3
  <2>3. QED BY <1>2, <2>1, <2>2, QLenAssumption, Z3 DEF MOD
<1>3. QED BY <1>1, <1>2

LEMMA NextSlot ==
    ASSUME NEW i \in Slots
    PROVE  MOD(i + 1, QLen) = IF i = QLen - 1 THEN 0 ELSE i + 1
<1>1. i + 1 \in 0..(2 * QLen - 1)
  BY QLenAssumption DEF Slots
<1>2. QED BY <1>1, ModWraps, QLenAssumption DEF Slots

LEMMA CountIs ==
    ASSUME NEW h \in Slots, NEW t \in Slots
    PROVE  /\ MOD(t - h + QLen, QLen) = IF h <= t THEN t - h ELSE t - h + QLen
           /\ MOD(t - h + QLen, QLen) \in 0..(QLen - 1)
<1>1. t - h + QLen \in 0..(2 * QLen - 1)
  BY QLenAssumption DEF Slots
<1>2. QED BY <1>1, ModWraps, QLenAssumption DEF Slots

LEMMA SlotAtIs ==
    ASSUME NEW h \in Slots, NEW i \in 0..(QLen - 1)
    PROVE  /\ MOD(h + i, QLen) = IF h + i < QLen THEN h + i ELSE h + i - QLen
           /\ MOD(h + i, QLen) \in Slots
<1>1. h + i \in 0..(2 * QLen - 1)
  BY QLenAssumption DEF Slots
<1>2. QED BY <1>1, ModWraps, QLenAssumption DEF Slots

LEMMA ContentLive ==
    ASSUME AcqTypeOK, NEW i \in 1..Count
    PROVE  MOD(head + i, QLen) \in Slots /\ Live(MOD(head + i, QLen))
<1>1. /\ head \in Slots /\ tail \in Slots
      /\ Count = IF head <= tail THEN tail - head ELSE tail - head + QLen
      /\ Count \in 0..(QLen - 1) /\ i \in 0..(QLen - 1)
  BY CountIs, QLenAssumption DEF AcqTypeOK, Count
<1>2. /\ MOD(head + i, QLen) \in Slots
      /\ MOD(head + i, QLen) = IF head + i < QLen THEN head + i ELSE head + i - QLen
  BY <1>1, SlotAtIs
<1>3. head \in 0..(QLen - 1) /\ tail \in 0..(QLen - 1) /\ i \in Nat \ {0} /\ i <= Count
  BY <1>1 DEF Slots
<1>4. Live(MOD(head + i, QLen))
  BY <1>1, <1>2, <1>3, QLenAssumption DEF Live
<1>5. QED BY <1>2, <1>4

LEMMA ContentIs ==
    ASSUME AcqTypeOK, LiveFilled
    PROVE  /\ Content \in Seq(Msgs)
           /\ Len(Content) = Count
           /\ \A i \in 1..Count : Content[i] = buf[MOD(head + i, QLen)]
<1>1. Count \in Nat
  BY CountIs DEF AcqTypeOK, Count
<1>2. \A i \in 1..Count : buf[MOD(head + i, QLen)] \in Msgs
  BY ContentLive DEF LiveFilled
<1>3. QED BY <1>1, <1>2 DEF Content

\* Two threads that own the mutex are one.
LEMMA OneInside ==
    ASSUME AcqInv, NEW t \in Threads, NEW u \in Threads,
           pc[t] \in Locked, pc[u] \in Locked
    PROVE  t = u
BY DEF AcqInv, MutualExclusion

-----------------------------------------------------------------------------
\* The steps that touch the ring, and what they do to the abstract queue.

\* What EnqStore changes, with the facts its test established.
LEMMA StoreIs ==
    ASSUME AcqInv, RingInv, NEW p \in Producers, EnqStore(p)
    PROVE  /\ head \in Slots /\ tail \in Slots /\ tail' \in Slots
           /\ tail' = IF tail = QLen - 1 THEN 0 ELSE tail + 1
           /\ tail' # head /\ head' = head
           /\ <<p, next[p]>> \in Msgs
           /\ buf' = [buf EXCEPT ![tail'] = <<p, next[p]>>]
           /\ buf \in [Slots -> Msgs \cup {Nil}]
<1>1. p \in Threads /\ pc[p] = "store" /\ tail' = l[p] /\ head' = head
  BY DEF EnqStore, Goto, Threads
<1>2. next[p] \in 1..MaxMsgs
  BY <1>1, MaxMsgsAssumption DEF AcqInv, AcqTypeOK, SendInv
<1>3. /\ head \in Slots /\ tail \in Slots /\ l[p] \in Slots
      /\ buf \in [Slots -> Msgs \cup {Nil}]
  BY <1>1 DEF AcqInv, AcqTypeOK
<1>4. l[p] # head /\ l[p] = IF tail = QLen - 1 THEN 0 ELSE tail + 1
  BY <1>1, <1>3, NextSlot DEF RingInv, StoreInv
<1>5. QED BY <1>1, <1>2, <1>3, <1>4 DEF EnqStore, Msgs

LEMMA LoadIs ==
    ASSUME AcqInv, RingInv, NEW c \in Consumers, DeqLoad(c)
    PROVE  /\ head \in Slots /\ tail \in Slots /\ head' \in Slots
           /\ head' = IF head = QLen - 1 THEN 0 ELSE head + 1
           /\ head # tail /\ tail' = tail /\ buf' = buf
           /\ got' = buf[head']
<1>1. c \in Threads /\ pc[c] = "load" /\ head' = l[c] /\ tail' = tail /\ buf' = buf
  BY DEF DeqLoad, Goto, Threads
<1>2. head \in Slots /\ tail \in Slots /\ l[c] \in Slots
  BY <1>1 DEF AcqInv, AcqTypeOK
<1>3. head # tail /\ l[c] = IF head = QLen - 1 THEN 0 ELSE head + 1
  BY <1>1, <1>2, NextSlot DEF RingInv, LoadInv
<1>4. QED BY <1>1, <1>2, <1>3 DEF DeqLoad

\* Every other step leaves the ring as it is; a local index is written only by
\* its owner, under the mutex.
QueueQuiet == UNCHANGED <<buf, head, tail>>

LEMMA OtherSteps ==
    ASSUME AcqInv, [AcqNext]_acqVars,
           \A p \in Producers : ~EnqStore(p), \A c \in Consumers : ~DeqLoad(c)
    PROVE  QueueQuiet /\ UNCHANGED got
<1>1. ASSUME NEW p \in Producers, Producer(p) PROVE QueueQuiet /\ UNCHANGED got
  BY <1>1 DEF Producer, Call, EnqLock, EnqFull, EnqTest, Unlock, EnqSignal, QueueQuiet
<1>2. ASSUME NEW c \in Consumers, Consumer(c) PROVE QueueQuiet /\ UNCHANGED got
  BY <1>2 DEF Consumer, DeqLock, DeqWait, Spurious, DeqTest, Unlock, QueueQuiet
<1>3. QED BY <1>1, <1>2 DEF AcqNext, acqVars, QueueQuiet
LEMMA RingInit == AcqInit => RingInv
BY DEF AcqInit, RingInv, StoreInv, LoadInv, LiveFilled, Live, Slots, Threads

\* A thread gets to "store" or "load" only by the test, and l[t] changes there.
LEMMA StoreInvStep == AcqInv /\ RingInv /\ [AcqNext]_acqVars => StoreInv'
<1> SUFFICES ASSUME AcqInv, RingInv, [AcqNext]_acqVars, NEW q \in Producers, pc'[q] = "store"
             PROVE  l'[q] = MOD(tail' + 1, QLen) /\ l'[q] # head'
  BY DEF StoreInv
<1> USE DEF Goto
<1>0. /\ q \in Threads /\ q \notin Consumers
      /\ pc \in [Threads -> EnqPc \cup DeqPc] /\ l \in [Threads -> Slots]
      /\ Producers \cap Consumers = {} /\ Consumers \subseteq Threads
      /\ Producers \subseteq Threads
  BY ThreadsAssumption DEF AcqInv, AcqTypeOK, Threads
<1>1. ASSUME NEW p \in Producers, EnqTest(p)
      PROVE  l'[q] = MOD(tail' + 1, QLen) /\ l'[q] # head'
  <2>1. pc[p] = "test" /\ p \in Threads
    BY <1>0, <1>1 DEF EnqTest
  <2>2. CASE q = p
    BY <1>0, <1>1, <2>2 DEF EnqTest
  <2>3. CASE q # p
    <3>1. pc[q] = "store"
      BY <1>0, <1>1, <2>3 DEF EnqTest
    <3>2. QED BY <1>0, <2>1, <2>3, <3>1, OneInside DEF Locked
  <2>4. QED BY <2>2, <2>3
<1>2. ASSUME NEW p \in Producers, EnqStore(p)
      PROVE  FALSE
  <2>1. pc[p] = "store" /\ p \in Threads /\ q # p /\ pc[q] = "store"
    BY <1>0, <1>2 DEF EnqStore
  <2>2. QED BY <1>0, <2>1, OneInside DEF Locked
<1>3. ASSUME NEW c \in Consumers, DeqLoad(c)
      PROVE  FALSE
  <2>1. pc[c] = "load" /\ c \in Threads /\ q # c /\ pc[q] = "store"
    BY <1>0, <1>3 DEF DeqLoad
  <2>2. QED BY <1>0, <2>1, OneInside DEF Locked
<1>4. CASE ~\E p \in Producers : EnqTest(p)
  <2>1. QueueQuiet
    BY <1>2, <1>3, OtherSteps
  <2>2. pc[q] = "store" /\ l'[q] = l[q]
    <3>1. ASSUME NEW p \in Producers, Producer(p) PROVE pc[q] = "store" /\ l'[q] = l[q]
      BY <1>0, <1>2, <1>4, <3>1
         DEF Producer, Call, EnqLock, EnqFull, Unlock, EnqSignal
    <3>2. ASSUME NEW c \in Consumers, Consumer(c) PROVE pc[q] = "store" /\ l'[q] = l[q]
      BY <1>0, <1>3, <3>2 DEF Consumer, DeqLock, DeqWait, Spurious, DeqTest, Unlock
    <3>3. QED BY <3>1, <3>2 DEF AcqNext, acqVars
  <2>3. QED BY <2>1, <2>2 DEF QueueQuiet, RingInv, StoreInv
<1>5. QED BY <1>1, <1>4

LEMMA LoadInvStep == AcqInv /\ RingInv /\ [AcqNext]_acqVars => LoadInv'
<1> SUFFICES ASSUME AcqInv, RingInv, [AcqNext]_acqVars, NEW d \in Consumers, pc'[d] = "load"
             PROVE  l'[d] = MOD(head' + 1, QLen) /\ head' # tail'
  BY DEF LoadInv
<1> USE DEF Goto
<1>0. /\ d \in Threads /\ d \notin Producers
      /\ pc \in [Threads -> EnqPc \cup DeqPc] /\ l \in [Threads -> Slots]
      /\ Producers \cap Consumers = {} /\ Consumers \subseteq Threads
      /\ Producers \subseteq Threads
  BY ThreadsAssumption DEF AcqInv, AcqTypeOK, Threads
<1>1. ASSUME NEW c \in Consumers, DeqTest(c)
      PROVE  l'[d] = MOD(head' + 1, QLen) /\ head' # tail'
  <2>1. pc[c] = "empty" /\ c \in Threads
    BY <1>0, <1>1 DEF DeqTest
  <2>2. CASE d = c
    BY <1>0, <1>1, <2>2 DEF DeqTest
  <2>3. CASE d # c
    <3>1. pc[d] = "load"
      BY <1>0, <1>1, <2>3 DEF DeqTest
    <3>2. QED BY <1>0, <2>1, <2>3, <3>1, OneInside DEF Locked
  <2>4. QED BY <2>2, <2>3
<1>2. ASSUME NEW p \in Producers, EnqStore(p)
      PROVE  FALSE
  <2>1. pc[p] = "store" /\ p \in Threads /\ d # p /\ pc[d] = "load"
    BY <1>0, <1>2 DEF EnqStore
  <2>2. QED BY <1>0, <2>1, OneInside DEF Locked
<1>3. ASSUME NEW c \in Consumers, DeqLoad(c)
      PROVE  FALSE
  <2>1. pc[c] = "load" /\ c \in Threads /\ d # c /\ pc[d] = "load"
    BY <1>0, <1>3 DEF DeqLoad
  <2>2. QED BY <1>0, <2>1, OneInside DEF Locked
<1>4. CASE ~\E c \in Consumers : DeqTest(c)
  <2>1. QueueQuiet
    BY <1>2, <1>3, OtherSteps
  <2>2. pc[d] = "load" /\ l'[d] = l[d]
    <3>1. ASSUME NEW p \in Producers, Producer(p) PROVE pc[d] = "load" /\ l'[d] = l[d]
      BY <1>0, <1>2, <3>1
         DEF Producer, Call, EnqLock, EnqFull, EnqTest, Unlock, EnqSignal
    <3>2. ASSUME NEW c \in Consumers, Consumer(c) PROVE pc[d] = "load" /\ l'[d] = l[d]
      BY <1>0, <1>3, <1>4, <3>2 DEF Consumer, DeqLock, DeqWait, Spurious, Unlock
    <3>3. QED BY <3>1, <3>2 DEF AcqNext, acqVars
  <2>3. QED BY <2>1, <2>2 DEF QueueQuiet, RingInv, LoadInv
<1>5. QED BY <1>1, <1>4

\* The store fills the slot it makes live; the load takes the oldest one away.
LEMMA LiveFilledStep == AcqInv /\ RingInv /\ [AcqNext]_acqVars => LiveFilled'
<1> SUFFICES ASSUME AcqInv, RingInv, [AcqNext]_acqVars PROVE LiveFilled'
  OBVIOUS
<1>1. ASSUME NEW p \in Producers, EnqStore(p) PROVE LiveFilled'
  <2>1. /\ head \in Slots /\ tail \in Slots /\ tail' \in Slots /\ head' = head
        /\ tail' = IF tail = QLen - 1 THEN 0 ELSE tail + 1
        /\ tail' # head
    BY <1>1, StoreIs
  <2>2. \A s \in Slots : Live(s)' => Live(s) \/ s = tail'
    BY <2>1, QLenAssumption DEF Live, Slots
  <2>3. \A s \in Slots : buf'[s] = IF s = tail' THEN <<p, next[p]>> ELSE buf[s]
    BY <1>1, StoreIs
  <2>4. QED BY <1>1, <2>2, <2>3, StoreIs DEF LiveFilled, RingInv
<1>2. ASSUME NEW c \in Consumers, DeqLoad(c) PROVE LiveFilled'
  <2>1. /\ head \in Slots /\ tail \in Slots /\ head' \in Slots
        /\ head' = IF head = QLen - 1 THEN 0 ELSE head + 1
        /\ head # tail /\ tail' = tail /\ buf' = buf
    BY <1>2, LoadIs
  <2>2. \A s \in Slots : Live(s)' => Live(s)
    BY <2>1, QLenAssumption DEF Live, Slots
  <2>3. QED BY <2>1, <2>2 DEF LiveFilled, RingInv
<1>3. CASE QueueQuiet
  BY <1>3 DEF QueueQuiet, RingInv, LiveFilled, Live
<1>4. QED BY <1>1, <1>2, <1>3, OtherSteps

LEMMA RingStep == AcqInv /\ RingInv /\ [AcqNext]_acqVars => RingInv'
BY StoreInvStep, LoadInvStep, LiveFilledStep DEF RingInv

LEMMA InitRefines == AcqInit => Fifo!Init
<1> SUFFICES ASSUME AcqInit PROVE Fifo!Init
  OBVIOUS
<1>1. AcqTypeOK /\ LiveFilled /\ Count = 0
  BY AcqInvInit, RingInit, CountIs DEF AcqInit, AcqInv, RingInv, AcqTypeOK, Count
<1>2. Content = << >>
  BY <1>1, ContentIs
<1>3. QED BY <1>2, NilAssumption DEF AcqInit, Fifo!Init

LEMMA StoreAppends ==
    ASSUME AcqInv, RingInv, AcqInv', RingInv', NEW p \in Producers, EnqStore(p)
    PROVE  Count < QLen - 1 /\ Content' = Append(Content, <<p, next[p]>>)
<1> DEFINE m == <<p, next[p]>>
<1>1. /\ head \in Slots /\ tail \in Slots /\ tail' \in Slots /\ m \in Msgs
      /\ tail' = IF tail = QLen - 1 THEN 0 ELSE tail + 1
      /\ tail' # head /\ head' = head
      /\ \A s \in Slots : buf'[s] = IF s = tail' THEN m ELSE buf[s]
  BY StoreIs
<1>2. /\ Count = IF head <= tail THEN tail - head ELSE tail - head + QLen
      /\ Count' = IF head <= tail' THEN tail' - head ELSE tail' - head + QLen
  BY <1>1, CountIs DEF Count
<1>3. Count' = Count + 1 /\ Count \in Nat /\ Count < QLen - 1
  BY <1>1, <1>2, QLenAssumption DEF Slots
<1>4. ASSUME NEW i \in 1..(Count + 1)
      PROVE  /\ MOD(head + i, QLen) \in Slots
             /\ MOD(head + i, QLen) = tail' <=> i = Count + 1
  <2>1. i \in 0..(QLen - 1)
    BY <1>3, QLenAssumption
  <2>2. /\ MOD(head + i, QLen) \in Slots
        /\ MOD(head + i, QLen) = IF head + i < QLen THEN head + i ELSE head + i - QLen
    BY <1>1, <2>1, SlotAtIs
  <2>3. QED BY <1>1, <1>2, <1>3, <2>1, <2>2, QLenAssumption DEF Slots
<1>5. /\ Content \in Seq(Msgs) /\ Len(Content) = Count
      /\ \A i \in 1..Count : Content[i] = buf[MOD(head + i, QLen)]
  BY ContentIs DEF AcqInv, RingInv
<1>6. Content' = [i \in 1..(Count + 1) |-> buf'[MOD(head + i, QLen)]]
  BY <1>1, <1>3 DEF Content
<1>7. \A i \in 1..(Count + 1) : Content'[i] = IF i <= Count THEN Content[i] ELSE m
  <2> SUFFICES ASSUME NEW i \in 1..(Count + 1)
               PROVE  Content'[i] = IF i <= Count THEN Content[i] ELSE m
    OBVIOUS
  <2>1. Content'[i] = buf'[MOD(head + i, QLen)]
    BY <1>6
  <2>2. Content'[i] = IF i = Count + 1 THEN m ELSE buf[MOD(head + i, QLen)]
    BY <1>1, <1>4, <2>1
  <2>3. (i <= Count <=> i # Count + 1) /\ (i <= Count => i \in 1..Count)
    BY <1>3
  <2>4. QED BY <1>5, <2>2, <2>3
<1>8. Content' \in Seq(Msgs) /\ Len(Content') = Count + 1
  <2>1. \A i \in 1..(Count + 1) : Content'[i] \in Msgs
    BY <1>1, <1>3, <1>5, <1>7
  <2>2. QED BY <1>3, <1>6, <2>1
<1>9. /\ Append(Content, m) \in Seq(Msgs)
      /\ Len(Append(Content, m)) = Count + 1
      /\ \A i \in 1..(Count + 1) : Append(Content, m)[i] = IF i <= Count THEN Content[i] ELSE m
  BY <1>1, <1>3, <1>5
<1>10. \A i \in 1..Len(Content') : Content'[i] = Append(Content, m)[i]
  BY <1>7, <1>8, <1>9
<1>11. QED BY <1>3, <1>8, <1>9, <1>10, SeqEqual

LEMMA LoadPops ==
    ASSUME AcqInv, RingInv, AcqInv', RingInv', NEW c \in Consumers, DeqLoad(c)
    PROVE  Content # << >> /\ got' = Head(Content) /\ Content' = Tail(Content)
<1>1. /\ head \in Slots /\ tail \in Slots /\ head' \in Slots
      /\ head' = IF head = QLen - 1 THEN 0 ELSE head + 1
      /\ head # tail /\ tail' = tail /\ buf' = buf /\ got' = buf[head']
  BY LoadIs
<1>2. /\ Count = IF head <= tail THEN tail - head ELSE tail - head + QLen
      /\ Count' = IF head' <= tail THEN tail - head' ELSE tail - head' + QLen
  BY <1>1, CountIs DEF Count
<1>3. Count' = Count - 1 /\ Count \in Nat \ {0} /\ Count <= QLen - 1
  BY <1>1, <1>2, QLenAssumption DEF Slots
<1>4. MOD(head + 1, QLen) = head'
  BY <1>1, NextSlot
<1>5. ASSUME NEW i \in 1..(Count - 1)
      PROVE  MOD(head' + i, QLen) = MOD(head + (i + 1), QLen)
  <2>1. i \in 0..(QLen - 1) /\ i + 1 \in 0..(QLen - 1)
    BY <1>3, QLenAssumption
  <2>2. /\ MOD(head' + i, QLen) = IF head' + i < QLen THEN head' + i
                                                      ELSE head' + i - QLen
        /\ MOD(head + (i + 1), QLen) = IF head + (i + 1) < QLen THEN head + (i + 1)
                                                                ELSE head + (i + 1) - QLen
    BY <1>1, <2>1, SlotAtIs
  <2>3. QED BY <1>1, <1>2, <1>3, <2>1, <2>2, QLenAssumption DEF Slots
<1>6. /\ Content \in Seq(Msgs) /\ Len(Content) = Count
      /\ \A i \in 1..Count : Content[i] = buf[MOD(head + i, QLen)]
  BY ContentIs DEF AcqInv, RingInv
<1>7. Content' = [i \in 1..(Count - 1) |-> buf[MOD(head' + i, QLen)]]
  BY <1>1, <1>3 DEF Content
<1>8. \A i \in 1..(Count - 1) : Content'[i] = Content[i + 1] /\ Content[i + 1] \in Msgs
  BY <1>3, <1>5, <1>6, <1>7
<1>9. Content' \in Seq(Msgs) /\ Len(Content') = Count - 1
  BY <1>3, <1>7, <1>8
<1>10. Content # << >> /\ Head(Content) = got'
  BY <1>1, <1>3, <1>4, <1>6
<1>11. /\ Tail(Content) \in Seq(Msgs) /\ Len(Tail(Content)) = Count - 1
       /\ \A i \in 1..(Count - 1) : Tail(Content)[i] = Content[i + 1]
  BY <1>3, <1>6, <1>10, HeadTailProperties
<1>12. \A i \in 1..Len(Content') : Content'[i] = Tail(Content)[i]
  BY <1>8, <1>9, <1>11
<1>13. QED BY <1>9, <1>10, <1>11, <1>12, SeqEqual

\* Every step is one of the bounded FIFO or leaves it unchanged: an answer of
\* -1 is given when it is full, and only the store and the load move items.
LEMMA StepRefines ==
    AcqInv /\ RingInv /\ AcqInv' /\ RingInv' /\ [AcqNext]_acqVars => [Fifo!Next]_(Fifo!vars)
<1> SUFFICES ASSUME AcqInv, RingInv, AcqInv', RingInv', [AcqNext]_acqVars
             PROVE  [Fifo!Next]_(Fifo!vars)
  OBVIOUS
<1>0. Len(Content) = Count
  BY ContentIs DEF AcqInv, RingInv
<1>1. ASSUME NEW p \in Producers, EnqStore(p) PROVE Fifo!Next
  <2>1. <<p, next[p]>> \in Msgs
    BY <1>1, StoreIs
  <2>2. Fifo!Enq(<<p, next[p]>>)
    BY <1>0, <1>1, StoreAppends DEF EnqStore, Fifo!Enq
  <2>3. QED BY <2>1, <2>2 DEF Fifo!Next
<1>2. ASSUME NEW c \in Consumers, DeqLoad(c) PROVE Fifo!Next
  <2>1. Fifo!Deq
    BY <1>2, LoadPops DEF DeqLoad, Fifo!Deq
  <2>2. QED BY <2>1 DEF Fifo!Next
<1>3. CASE /\ \A p \in Producers : ~EnqStore(p)
           /\ \A c \in Consumers : ~DeqLoad(c)
  <2>1. Content' = Content /\ UNCHANGED got
    BY <1>3, OtherSteps DEF QueueQuiet, Content, Count
  <2>2. ASSUME NEW p \in Producers, EnqFull(p) PROVE Fifo!EnqFull
    <3>1. head \in Slots /\ tail \in Slots /\ head = IF tail = QLen - 1 THEN 0 ELSE tail + 1
      BY <2>2, NextSlot DEF AcqInv, AcqTypeOK, EnqFull
    <3>2. Count = IF head <= tail THEN tail - head ELSE tail - head + QLen
      BY <3>1, CountIs DEF Count
    <3>3. Count = QLen - 1
      BY <3>1, <3>2, QLenAssumption DEF Slots
    <3>4. QED BY <1>0, <2>1, <2>2, <3>3 DEF EnqFull, Fifo!EnqFull
  <2>3. CASE \A p \in Producers : ~EnqFull(p)
    <3>1. ASSUME NEW p \in Producers, Producer(p) PROVE UNCHANGED ret
      BY <1>3, <2>3, <3>1 DEF Producer, Call, EnqLock, EnqTest, Unlock, EnqSignal
    <3>2. ASSUME NEW c \in Consumers, Consumer(c) PROVE UNCHANGED ret
      BY <1>3, <3>2 DEF Consumer, DeqLock, DeqWait, Spurious, DeqTest, Unlock
    <3>3. UNCHANGED ret
      BY <3>1, <3>2 DEF AcqNext, acqVars
    <3>4. QED BY <2>1, <3>3 DEF Fifo!vars
  <2>4. QED BY <2>2, <2>3 DEF Fifo!Next
<1>4. QED BY <1>1, <1>2, <1>3

\* The blocking queue of acq.c is a bounded FIFO of QLen - 1 messages for any
\* number of threads: what Acq_enq accepted comes out once and in that order,
\* and -1 is answered only when the queue is full.
THEOREM AcqRefinement == AcqSpec => ImplementsFifo
<1>1. AcqSpec => [](AcqInv /\ RingInv)
  BY AcqInvInit, AcqInvStep, RingInit, RingStep, PTL DEF AcqSpec
<1>2. QED BY <1>1, InitRefines, StepRefines, PTL DEF AcqSpec, ImplementsFifo, Fifo!Spec

-----------------------------------------------------------------------------
(* The way of a mail.                                                        *)

\* The variables that can refer to a mail: places, but for the position in a
\* queue.
Spots ==
    {<<"pool", 0>>}
    \cup ({"partial", "analysis", "monitor_queue", "monitor"} \X Protos)
    \cup ({"log"} \X LogThreads) \cup ({"log_queue"} \X (Protos \X Types))
Nowhere == <<"nowhere", 0>>

In(m, s) ==
    \/ s[1] = "pool" /\ m \in pool
    \/ s[1] = "partial" /\ m \in partial[s[2]]
    \/ s[1] = "analysis" /\ amail[s[2]] = m
    \/ s[1] = "monitor_queue" /\ m \in Range(monitor_queue[s[2]])
    \/ s[1] = "monitor" /\ mmail[s[2]] = m
    \/ s[1] = "log_queue" /\ m \in Range(log_queue[s[2]])
    \/ s[1] = "log" /\ lmail[s[2]] = m

\* No two variables refer to a mail, and no queue does so twice.
OneSpot == \A m \in Mails : \A x, y \in Spots : In(m, x) /\ In(m, y) => x = y
QueuesOnce == /\ \A p \in Protos : IsInjective(monitor_queue[p])
              /\ \A q \in Protos \X Types : IsInjective(log_queue[q])

\* A thread has a mail in hand where its code works on one.
HandInv ==
    /\ \A p \in Protos : amail[p] = None <=> apc[p] = "parse"
    /\ \A p \in Protos : mmail[p] = None <=> mpc[p] = "deq"
    /\ \A w \in LogThreads : lmail[w] = None <=> lpc[w] = "deq"

IInv == TypeOK /\ OneSpot /\ QueuesOnce /\ HandInv

\* The step takes m from spot s to spot d, and no other mail moves.
After(n, x, m, s, d) ==
    IF x = d THEN n = m \/ In(n, x) ELSE In(n, x) /\ ~(x = s /\ n = m)
Moves(m, s, d) ==
    \A n \in Mails, x \in Spots : In(n, x)' <=> After(n, x, m, s, d)
Stays == \A n \in Mails, x \in Spots : In(n, x)' <=> In(n, x)

------------------------------------------------------------------------------
(* Sequences without repetition                                               *)

\* Append adds the item to what a sequence without it holds, still once.
LEMMA AppendOnce ==
    ASSUME NEW S, NEW q \in Seq(S), NEW e \in S
    PROVE  /\ Append(q, e) \in Seq(S)
           /\ Range(Append(q, e)) = Range(q) \cup {e}
           /\ IsInjective(q) /\ e \notin Range(q) => IsInjective(Append(q, e))
<1>1. Append(q, e) \in Seq(S) /\ Len(Append(q, e)) = Len(q) + 1 /\ Len(q) \in Nat
  OBVIOUS
<1>2. \A i \in 1..Len(q) : Append(q, e)[i] = q[i]
  OBVIOUS
<1>3. Append(q, e)[Len(q) + 1] = e
  OBVIOUS
<1>4. DOMAIN q = 1..Len(q) /\ DOMAIN Append(q, e) = 1..(Len(q) + 1)
  OBVIOUS
<1>5. Range(Append(q, e)) = Range(q) \cup {e}
  <2>1. ASSUME NEW x \in Range(Append(q, e)) PROVE x \in Range(q) \cup {e}
    <3>1. PICK i \in 1..(Len(q) + 1) : x = Append(q, e)[i]
      BY <1>4, <2>1 DEF Range
    <3>2. CASE i = Len(q) + 1
      BY <1>3, <3>1, <3>2
    <3>3. CASE i # Len(q) + 1
      <4>1. i \in 1..Len(q)
        BY <1>1, <3>3
      <4>2. QED BY <1>2, <1>4, <3>1, <4>1 DEF Range
    <3>4. QED BY <3>2, <3>3
  <2>2. ASSUME NEW x \in Range(q) PROVE x \in Range(Append(q, e))
    <3>1. PICK i \in 1..Len(q) : x = q[i]
      BY <1>4, <2>2 DEF Range
    <3>2. i \in 1..(Len(q) + 1)
      BY <1>1
    <3>3. QED BY <1>2, <1>4, <3>1, <3>2 DEF Range
  <2>3. e \in Range(Append(q, e))
    <3>1. Len(q) + 1 \in 1..(Len(q) + 1)
      BY <1>1
    <3>2. QED BY <1>3, <1>4, <3>1 DEF Range
  <2>4. QED BY <2>1, <2>2, <2>3
<1>6. ASSUME IsInjective(q), e \notin Range(q) PROVE IsInjective(Append(q, e))
  <2>1. \A i \in 1..Len(q) : q[i] # e
    BY <1>4, <1>6 DEF Range
  <2>2. \A i, j \in 1..Len(q) : q[i] = q[j] => i = j
    BY <1>4, <1>6 DEF IsInjective
  <2>3. QED BY <1>1, <1>2, <1>3, <1>4, <2>1, <2>2 DEF IsInjective
<1>7. QED BY <1>1, <1>5, <1>6

\* Tail takes the first item out of a sequence that holds it once.
LEMMA TailOnce ==
    ASSUME NEW S, NEW q \in Seq(S), q # << >>, IsInjective(q)
    PROVE  /\ Tail(q) \in Seq(S) /\ Head(q) \in S /\ Head(q) \in Range(q)
           /\ Range(Tail(q)) = Range(q) \ {Head(q)}
           /\ IsInjective(Tail(q))
<1>1. /\ Tail(q) \in Seq(S) /\ Head(q) \in S /\ Head(q) = q[1]
      /\ Len(q) \in Nat \ {0} /\ Len(Tail(q)) = Len(q) - 1
  OBVIOUS
<1>2. \A i \in 1..(Len(q) - 1) : Tail(q)[i] = q[i + 1]
  OBVIOUS
<1>3. DOMAIN q = 1..Len(q) /\ DOMAIN Tail(q) = 1..(Len(q) - 1)
  BY <1>1
<1>4. \A i, j \in 1..Len(q) : q[i] = q[j] => i = j
  BY <1>3 DEF IsInjective
<1>5. Head(q) \in Range(q)
  BY <1>1, <1>3 DEF Range
<1>6. ASSUME NEW x \in Range(Tail(q)) PROVE x \in Range(q) \ {Head(q)}
  <2>1. PICK i \in 1..(Len(q) - 1) : x = Tail(q)[i]
    BY <1>3, <1>6 DEF Range
  <2>2. i + 1 \in 1..Len(q) /\ 1 \in 1..Len(q) /\ i + 1 # 1
    BY <1>1
  <2>3. x = q[i + 1]
    BY <1>2, <2>1
  <2>4. q[i + 1] # q[1]
    BY <1>4, <2>2
  <2>5. QED BY <1>1, <1>3, <2>2, <2>3, <2>4 DEF Range
<1>7. ASSUME NEW x \in Range(q), x # Head(q) PROVE x \in Range(Tail(q))
  <2>1. PICK i \in 1..Len(q) : x = q[i]
    BY <1>3, <1>7 DEF Range
  <2>2. i # 1
    BY <1>1, <1>7, <2>1
  <2>3. i - 1 \in 1..(Len(q) - 1) /\ (i - 1) + 1 = i
    BY <1>1, <2>2
  <2>4. Tail(q)[i - 1] = q[i]
    BY <1>2, <2>3
  <2>5. QED BY <1>3, <2>1, <2>3, <2>4 DEF Range
<1>8. IsInjective(Tail(q))
  <2>1. \A i \in 1..(Len(q) - 1) : i + 1 \in 1..Len(q)
    BY <1>1
  <2>2. SUFFICES ASSUME NEW i \in 1..(Len(q) - 1), NEW j \in 1..(Len(q) - 1),
                        Tail(q)[i] = Tail(q)[j]
                 PROVE  i = j
    BY <1>3 DEF IsInjective
  <2>3. q[i + 1] = q[j + 1]
    BY <1>2, <2>2
  <2>4. i + 1 = j + 1
    BY <1>4, <2>1, <2>3
  <2>5. QED BY <2>4
<1>9. QED BY <1>1, <1>5, <1>6, <1>7, <1>8

------------------------------------------------------------------------------
(* Spots                                                                      *)

\* The argument of a log thread names one queue, and each queue has its thread.
LEMMA ThreadOfQueue ==
    /\ LogThreads = 0..7
    /\ \A w \in LogThreads : /\ QueueOf(w) \in Protos \X Types
                             /\ w = (QueueOf(w)[1] * 4) + QueueOf(w)[2]
    /\ \A p \in Protos, t \in Types : /\ p * 4 + t \in LogThreads
                                      /\ QueueOf(p * 4 + t) = <<p, t>>
<1> USE DEF Protos, Types, KILL, MONITOR, SPAM, MONITOR_SPAM
<1>1. LogThreads = 0..7
  BY DEF LogThreads
<1>2. \A w \in 0..7 : w \div 4 \in {0, 1} /\ w % 4 \in {0, 1, 2, 3} /\ w = ((w \div 4) * 4) + (w % 4)
  OBVIOUS
<1>3. \A p \in {0, 1}, t \in {0, 1, 2, 3} : (p * 4 + t) \div 4 = p /\ (p * 4 + t) % 4 = t
  OBVIOUS
<1>4. QED BY <1>1, <1>2, <1>3 DEF QueueOf

\* The spots one by one.
LEMMA InSpots ==
    ASSUME NEW m
    PROVE  /\ In(m, <<"pool", 0>>) <=> m \in pool
           /\ \A p \in Protos : /\ In(m, <<"partial", p>>) <=> m \in partial[p]
                                /\ In(m, <<"analysis", p>>) <=> amail[p] = m
                                /\ In(m, <<"monitor_queue", p>>) <=> m \in Range(monitor_queue[p])
                                /\ In(m, <<"monitor", p>>) <=> mmail[p] = m
           /\ \A q \in Protos \X Types : In(m, <<"log_queue", q>>) <=> m \in Range(log_queue[q])
           /\ \A w \in LogThreads : In(m, <<"log", w>>) <=> lmail[w] = m
BY DEF In

LEMMA AllSpots ==
    ASSUME NEW x \in Spots
    PROVE  \/ x = <<"pool", 0>>
           \/ \E p \in Protos : x \in {<<"partial", p>>, <<"analysis", p>>,
                                       <<"monitor_queue", p>>, <<"monitor", p>>}
           \/ \E q \in Protos \X Types : x = <<"log_queue", q>>
           \/ \E w \in LogThreads : x = <<"log", w>>
BY DEF Spots

\* What a step that moves one mail does to the invariant.
LEMMA MovesKeepOneSpot ==
    ASSUME OneSpot, NEW m \in Mails, NEW s \in Spots, NEW d, In(m, s), s # d, Moves(m, s, d)
    PROVE  OneSpot'
<1> SUFFICES ASSUME NEW n \in Mails, NEW x \in Spots, NEW y \in Spots, In(n, x)', In(n, y)'
             PROVE  x = y
  BY DEF OneSpot
<1>1. CASE n = m
  BY <1>1 DEF OneSpot, Moves, After
<1>2. CASE n # m
  BY <1>2 DEF OneSpot, Moves, After
<1>3. QED BY <1>1, <1>2

LEMMA StaysKeepsOneSpot == OneSpot /\ Stays => OneSpot'
BY DEF OneSpot, Stays

------------------------------------------------------------------------------
(* Which mail each action moves                                               *)

\* A step that is explained: what it moves, and that the rest of the invariant
\* holds behind it.
Moved(m, s, d) ==
    /\ m \in Mails /\ s \in Spots /\ s # d /\ In(m, s) /\ Moves(m, s, d)
    /\ TypeOK' /\ QueuesOnce' /\ HandInv'

LEMMA BeginMoves ==
    ASSUME IInv, NEW p \in Protos, Begin(p)
    PROVE  \E m \in Mails : Moved(m, <<"pool", 0>>, <<"partial", p>>)
<1>1. PICK m \in pool : /\ pool' = pool \ {m}
                        /\ partial' = [partial EXCEPT ![p] = @ \cup {m}]
  BY DEF Begin
<1>2. m \in Mails /\ <<"pool", 0>> \in Spots /\ In(m, <<"pool", 0>>)
  BY <1>1 DEF IInv, TypeOK, Spots, In
<1>3. TypeOK' /\ QueuesOnce' /\ HandInv'
  BY <1>1, <1>2 DEF Begin, IInv, TypeOK, QueuesOnce, HandInv, logVars, monitorVars
<1>4. Moves(m, <<"pool", 0>>, <<"partial", p>>)
  <2>1. \A q \in Protos : partial'[q] = IF q = p THEN partial[p] \cup {m} ELSE partial[q]
    BY <1>1 DEF IInv, TypeOK
  <2>2. SUFFICES ASSUME NEW n \in Mails, NEW x \in Spots
                 PROVE  In(n, x)' <=> After(n, x, m, <<"pool", 0>>, <<"partial", p>>)
    BY DEF Moves
  <2> USE DEF After
  <2>3. CASE x = <<"pool", 0>>
    BY <1>1, <2>3 DEF In
  <2>4. CASE \E q \in Protos : x = <<"partial", q>>
    BY <2>1, <2>4 DEF In
  <2>5. CASE x[1] \notin {"pool", "partial"}
    BY <2>5 DEF In, Begin, monitorVars, logVars
  <2>6. QED BY <2>3, <2>4, <2>5, AllSpots
<1>5. QED BY <1>2, <1>3, <1>4 DEF Moved

LEMMA LeaveMoves ==
    ASSUME IInv, NEW p \in Protos, NEW m \in Mails, NEW to \in {"log_push", "monitor_push"},
           Leave(p, m, to)
    PROVE  Moved(m, <<"partial", p>>, <<"analysis", p>>)
<1>1. In(m, <<"partial", p>>) /\ <<"partial", p>> \in Spots
  BY DEF Leave, In, Spots
<1>2. TypeOK' /\ QueuesOnce' /\ HandInv'
  BY MailsAssumption DEF Leave, IInv, TypeOK, QueuesOnce, HandInv, logVars, monitorVars
<1>3. Moves(m, <<"partial", p>>, <<"analysis", p>>)
  <2>1. /\ \A q \in Protos : partial'[q] = IF q = p THEN partial[p] \ {m} ELSE partial[q]
        /\ \A q \in Protos : amail'[q] = IF q = p THEN m ELSE amail[q]
        /\ amail[p] = None
    BY DEF IInv, TypeOK, HandInv, Leave
  <2>2. SUFFICES ASSUME NEW n \in Mails, NEW x \in Spots
                 PROVE  In(n, x)' <=> After(n, x, m, <<"partial", p>>, <<"analysis", p>>)
    BY DEF Moves
  <2> USE DEF After
  <2>3. CASE \E q \in Protos : x = <<"partial", q>>
    BY <2>1, <2>3 DEF In
  <2>4. CASE \E q \in Protos : x = <<"analysis", q>>
    BY <2>1, <2>4, MailsAssumption DEF In
  <2>5. CASE x[1] \notin {"partial", "analysis"}
    BY <2>5 DEF In, Leave, monitorVars, logVars
  <2>6. QED BY <2>3, <2>4, <2>5, AllSpots
<1>4. QED BY <1>1, <1>2, <1>3 DEF Moved

LEMMA GiveUpMoves ==
    ASSUME IInv, NEW p \in Protos, NEW m \in Mails, GiveUp(p, m)
    PROVE  Moved(m, <<"partial", p>>, Nowhere)
<1>1. In(m, <<"partial", p>>) /\ <<"partial", p>> \in Spots
  BY DEF GiveUp, Leave, In, Spots
<1>2. TypeOK' /\ QueuesOnce' /\ HandInv'
  BY MailsAssumption
     DEF GiveUp, Leave, IInv, TypeOK, QueuesOnce, HandInv, logVars, monitorVars
<1>3. Moves(m, <<"partial", p>>, Nowhere)
  <2>1. /\ \A q \in Protos : partial'[q] = IF q = p THEN partial[p] \ {m} ELSE partial[q]
        /\ \A q \in Protos : amail'[q] = amail[q]
    BY DEF IInv, TypeOK, HandInv, GiveUp, Leave
  <2>2. SUFFICES ASSUME NEW n \in Mails, NEW x \in Spots
                 PROVE  In(n, x)' <=> After(n, x, m, <<"partial", p>>, Nowhere)
    BY DEF Moves
  <2> USE DEF After, Nowhere
  <2>3. CASE \E q \in Protos : x = <<"partial", q>>
    BY <2>1, <2>3 DEF In
  <2>4. CASE \E q \in Protos : x = <<"analysis", q>>
    BY <2>1, <2>4 DEF In
  <2>5. CASE x[1] \notin {"partial", "analysis"}
    BY <2>5, AllSpots DEF In, GiveUp, Leave, monitorVars, logVars
  <2>6. QED BY <2>3, <2>4, <2>5, AllSpots
<1>4. QED BY <1>1, <1>2, <1>3 DEF Moved, Nowhere

\* A mail in hand is in no queue.
LEMMA NotElsewhere ==
    ASSUME OneSpot, NEW m \in Mails, NEW s \in Spots, In(m, s), NEW x \in Spots, x # s
    PROVE  ~In(m, x)
BY DEF OneSpot

\* A push hands the mail of analysis thread p on.
LEMMA MonitorPushMoves ==
    ASSUME IInv, NEW p \in Protos, MonitorPush(p)
    PROVE  Moved(amail[p], <<"analysis", p>>, <<"monitor_queue", p>>)
<1> DEFINE m == amail[p]
<1>1. m \in Mails /\ <<"analysis", p>> \in Spots /\ <<"monitor_queue", p>> \in Spots
  BY DEF MonitorPush, IInv, TypeOK, HandInv, Spots
<1>2. In(m, <<"analysis", p>>)
  BY DEF In
<1>3. m \notin Range(monitor_queue[p])
  BY <1>1, <1>2, NotElsewhere DEF IInv, In
<1>4. /\ Append(monitor_queue[p], m) \in Seq(Mails)
      /\ Range(Append(monitor_queue[p], m)) = Range(monitor_queue[p]) \cup {m}
      /\ IsInjective(Append(monitor_queue[p], m))
  <2>1. monitor_queue[p] \in Seq(Mails) /\ IsInjective(monitor_queue[p])
    BY DEF IInv, TypeOK, QueuesOnce
  <2>2. QED BY <1>1, <1>3, <2>1, AppendOnce
<1>5. /\ \A q \in Protos : monitor_queue'[q] = IF q = p THEN Append(monitor_queue[p], m)
                                               ELSE monitor_queue[q]
      /\ DOMAIN monitor_queue' = Protos /\ monitor_queue' = [q \in Protos |-> monitor_queue'[q]]
      /\ \A q \in Protos : amail'[q] = IF q = p THEN None ELSE amail[q]
  BY DEF IInv, TypeOK, MonitorPush, PushDone, Enq
<1>6. \A q \in Protos : Range(monitor_queue'[q]) = IF q = p THEN Range(monitor_queue[q]) \cup {m}
                                                    ELSE Range(monitor_queue[q])
  BY <1>4, <1>5
<1>7. TypeOK' /\ QueuesOnce' /\ HandInv'
  <2>1. monitor_queue' \in [Protos -> Seq(Mails)] /\ QueuesOnce'
    BY <1>4, <1>5 DEF IInv, TypeOK, QueuesOnce, MonitorPush
  <2>2. /\ apc' \in [Protos -> {"parse", "monitor_push", "log_push"}]
        /\ amail' \in [Protos -> Mails \cup {None}] /\ tries' \in [Protos -> 0..1]
        /\ \A q \in Protos : amail'[q] = None <=> apc'[q] = "parse"
    BY DEF MonitorPush, PushDone, IInv, TypeOK, HandInv
  <2>3. QED
    BY <2>1, <2>2 DEF MonitorPush, IInv, TypeOK, HandInv, logVars, monitorVars
<1>8. Moves(m, <<"analysis", p>>, <<"monitor_queue", p>>)
  <2>2. SUFFICES ASSUME NEW n \in Mails, NEW x \in Spots
                 PROVE  In(n, x)' <=> After(n, x, m, <<"analysis", p>>, <<"monitor_queue", p>>)
    BY DEF Moves
  <2> USE DEF After
  <2>3. CASE \E q \in Protos : x = <<"monitor_queue", q>>
    <3>1. PICK q \in Protos : x = <<"monitor_queue", q>>
      BY <2>3
    <3>2. /\ In(n, x) <=> n \in Range(monitor_queue[q])
          /\ In(n, x)' <=> n \in Range(monitor_queue'[q])
      BY <3>1 DEF In
    <3>3. x = <<"monitor_queue", p>> <=> q = p
      BY <3>1
    <3>4. x # <<"analysis", p>>
      BY <3>1
    <3>5. QED BY <1>6, <3>2, <3>3, <3>4
  <2>4. CASE \E q \in Protos : x = <<"analysis", q>>
    BY <1>5, <2>4, MailsAssumption DEF In
  <2>5. CASE x[1] \notin {"analysis", "monitor_queue"}
    BY <2>5 DEF In, MonitorPush, monitorVars, logVars
  <2>6. QED BY <2>3, <2>4, <2>5, AllSpots
<1>9. QED BY <1>1, <1>2, <1>7, <1>8 DEF Moved

\* ... or on to the log queue of its family.
LEMMA KillPushMoves ==
    ASSUME IInv, NEW p \in Protos, KillPush(p)
    PROVE  Moved(amail[p], <<"analysis", p>>, <<"log_queue", <<p, KILL>>>>)
<1> DEFINE m == amail[p]
           k == <<p, KILL>>
<1>1. /\ m \in Mails /\ k \in Protos \X Types
      /\ <<"analysis", p>> \in Spots /\ <<"log_queue", k>> \in Spots
  BY DEF KillPush, IInv, TypeOK, HandInv, Spots, Types
<1>2. In(m, <<"analysis", p>>)
  BY DEF In
<1>3. m \notin Range(log_queue[k])
  BY <1>1, <1>2, NotElsewhere DEF IInv, In
<1>4. /\ Append(log_queue[k], m) \in Seq(Mails)
      /\ Range(Append(log_queue[k], m)) = Range(log_queue[k]) \cup {m}
      /\ IsInjective(Append(log_queue[k], m))
  <2>1. log_queue[k] \in Seq(Mails) /\ IsInjective(log_queue[k])
    BY <1>1 DEF IInv, TypeOK, QueuesOnce
  <2>2. QED BY <1>1, <1>3, <2>1, AppendOnce
<1>5. /\ \A q \in Protos \X Types : log_queue'[q] = IF q = k THEN Append(log_queue[k], m)
                                                    ELSE log_queue[q]
      /\ DOMAIN log_queue' = Protos \X Types
      /\ log_queue' = [q \in Protos \X Types |-> log_queue'[q]]
      /\ \A q \in Protos : amail'[q] = IF q = p THEN None ELSE amail[q]
  BY DEF IInv, TypeOK, KillPush, PushDone, Enq
<1>6. \A q \in Protos \X Types :
        Range(log_queue'[q]) = IF q = k THEN Range(log_queue[q]) \cup {m} ELSE Range(log_queue[q])
  BY <1>4, <1>5
<1>7. TypeOK' /\ QueuesOnce' /\ HandInv'
  <2>1. log_queue' \in [Protos \X Types -> Seq(Mails)] /\ QueuesOnce'
    BY <1>4, <1>5 DEF IInv, TypeOK, QueuesOnce, KillPush
  <2>2. /\ apc' \in [Protos -> {"parse", "monitor_push", "log_push"}]
        /\ amail' \in [Protos -> Mails \cup {None}] /\ tries' \in [Protos -> 0..1]
        /\ \A q \in Protos : amail'[q] = None <=> apc'[q] = "parse"
    BY DEF KillPush, PushDone, IInv, TypeOK, HandInv
  <2>3. QED
    BY <2>1, <2>2 DEF KillPush, IInv, TypeOK, HandInv, logVars, monitorVars
<1>8. Moves(m, <<"analysis", p>>, <<"log_queue", k>>)
  <2>2. SUFFICES ASSUME NEW n \in Mails, NEW x \in Spots
                 PROVE  In(n, x)' <=> After(n, x, m, <<"analysis", p>>, <<"log_queue", k>>)
    BY DEF Moves
  <2> USE DEF After
  <2>3. CASE \E q \in Protos \X Types : x = <<"log_queue", q>>
    <3>1. PICK q \in Protos \X Types : x = <<"log_queue", q>>
      BY <2>3
    <3>2. /\ In(n, x) <=> n \in Range(log_queue[q])
          /\ In(n, x)' <=> n \in Range(log_queue'[q])
      BY <3>1 DEF In
    <3>3. x = <<"log_queue", k>> <=> q = k
      BY <3>1
    <3>4. x # <<"analysis", p>>
      BY <3>1
    <3>5. QED BY <1>6, <3>2, <3>3, <3>4
  <2>4. CASE \E q \in Protos : x = <<"analysis", q>>
    BY <1>5, <2>4, MailsAssumption DEF In
  <2>5. CASE x[1] \notin {"analysis", "log_queue"}
    BY <2>5 DEF In, KillPush, monitorVars, logVars
  <2>6. QED BY <2>3, <2>4, <2>5, AllSpots
<1>9. QED BY <1>1, <1>2, <1>7, <1>8 DEF Moved

\* A mail that met a full queue twice is forgotten.
LEMMA ForgetMoves ==
    ASSUME IInv, NEW p \in Protos, MonitorPushFull(p), PushDone(p)
    PROVE  Moved(amail[p], <<"analysis", p>>, Nowhere)
<1>1. /\ amail[p] \in Mails /\ <<"analysis", p>> \in Spots /\ In(amail[p], <<"analysis", p>>)
  BY DEF MonitorPushFull, IInv, TypeOK, HandInv, Spots, In
<1>2. \A q \in Protos : amail'[q] = IF q = p THEN None ELSE amail[q]
  BY DEF PushDone, IInv, TypeOK
<1>3. TypeOK' /\ QueuesOnce' /\ HandInv'
  <2>1. /\ apc' \in [Protos -> {"parse", "monitor_push", "log_push"}]
        /\ amail' \in [Protos -> Mails \cup {None}] /\ tries' \in [Protos -> 0..1]
        /\ \A q \in Protos : amail'[q] = None <=> apc'[q] = "parse"
    BY DEF PushDone, IInv, TypeOK, HandInv
  <2>2. QED
    BY <2>1 DEF MonitorPushFull, IInv, TypeOK, QueuesOnce, HandInv, logVars, monitorVars
<1>4. Moves(amail[p], <<"analysis", p>>, Nowhere)
  <2>1. SUFFICES ASSUME NEW n \in Mails, NEW x \in Spots
                 PROVE  In(n, x)' <=> After(n, x, amail[p], <<"analysis", p>>, Nowhere)
    BY DEF Moves
  <2> USE DEF After, Nowhere
  <2>2. x # <<"nowhere", 0>>
    BY AllSpots
  <2>3. CASE \E q \in Protos : x = <<"analysis", q>>
    BY <1>2, <2>2, <2>3, MailsAssumption DEF In
  <2>4. CASE x[1] # "analysis"
    BY <2>2, <2>4 DEF In, MonitorPushFull, monitorVars, logVars
  <2>5. QED BY <2>3, <2>4, AllSpots
<1>5. QED BY <1>1, <1>3, <1>4 DEF Moved, Nowhere

LEMMA MonitorDeqMoves ==
    ASSUME IInv, NEW p \in Protos, MonitorDeq(p)
    PROVE  Moved(Head(monitor_queue[p]), <<"monitor_queue", p>>, <<"monitor", p>>)
<1> DEFINE m == Head(monitor_queue[p])
<1>1. /\ Tail(monitor_queue[p]) \in Seq(Mails) /\ m \in Mails /\ m \in Range(monitor_queue[p])
      /\ Range(Tail(monitor_queue[p])) = Range(monitor_queue[p]) \ {m}
      /\ IsInjective(Tail(monitor_queue[p]))
  <2>1. /\ monitor_queue[p] \in Seq(Mails) /\ IsInjective(monitor_queue[p])
        /\ monitor_queue[p] # << >>
    BY DEF IInv, TypeOK, QueuesOnce, MonitorDeq
  <2>2. QED BY <2>1, TailOnce
<1>2. <<"monitor_queue", p>> \in Spots /\ In(m, <<"monitor_queue", p>>)
  BY <1>1 DEF Spots, In
<1>3. /\ \A q \in Protos : monitor_queue'[q] = IF q = p THEN Tail(monitor_queue[p])
                                               ELSE monitor_queue[q]
      /\ DOMAIN monitor_queue' = Protos /\ monitor_queue' = [q \in Protos |-> monitor_queue'[q]]
      /\ \A q \in Protos : mmail'[q] = IF q = p THEN m ELSE mmail[q]
      /\ mmail[p] = None
  BY DEF IInv, TypeOK, HandInv, MonitorDeq, Deq
<1>4. \A q \in Protos : Range(monitor_queue'[q]) = IF q = p THEN Range(monitor_queue[q]) \ {m}
                                                    ELSE Range(monitor_queue[q])
  BY <1>1, <1>3
<1>5. TypeOK' /\ QueuesOnce' /\ HandInv'
  <2>0. monitor_queue' \in [Protos -> Seq(Mails)]
    <3>1. \A q \in Protos : monitor_queue[q] \in Seq(Mails)
      BY DEF IInv, TypeOK
    <3>2. \A q \in Protos : monitor_queue'[q] \in Seq(Mails)
      BY <1>1, <1>3, <3>1
    <3>3. QED BY <1>3, <3>2
  <2>1. QueuesOnce'
    BY <1>1, <1>3 DEF IInv, QueuesOnce, MonitorDeq
  <2>2. /\ mpc' \in [Protos -> {"deq", "match", "log_push", "free"}]
        /\ mmail' \in [Protos -> Mails \cup {None}]
        /\ \A q \in Protos : mmail'[q] = None <=> mpc'[q] = "deq"
    BY <1>1, MailsAssumption DEF MonitorDeq, IInv, TypeOK, HandInv
  <2>3. QED
    BY <2>0, <2>1, <2>2 DEF MonitorDeq, IInv, TypeOK, HandInv, logVars, analysisVars
<1>6. Moves(m, <<"monitor_queue", p>>, <<"monitor", p>>)
  <2>2. SUFFICES ASSUME NEW n \in Mails, NEW x \in Spots
                 PROVE  In(n, x)' <=> After(n, x, m, <<"monitor_queue", p>>, <<"monitor", p>>)
    BY DEF Moves
  <2> USE DEF After
  <2>3. CASE \E q \in Protos : x = <<"monitor_queue", q>>
    <3>1. PICK q \in Protos : x = <<"monitor_queue", q>>
      BY <2>3
    <3>2. /\ In(n, x) <=> n \in Range(monitor_queue[q])
          /\ In(n, x)' <=> n \in Range(monitor_queue'[q])
      BY <3>1 DEF In
    <3>3. x = <<"monitor_queue", p>> <=> q = p
      BY <3>1
    <3>4. x # <<"monitor", p>>
      BY <3>1
    <3>5. QED BY <1>4, <3>2, <3>3, <3>4
  <2>4. CASE \E q \in Protos : x = <<"monitor", q>>
    BY <1>3, <2>4, MailsAssumption DEF In
  <2>5. CASE x[1] \notin {"monitor", "monitor_queue"}
    BY <2>5 DEF In, MonitorDeq, analysisVars, logVars
  <2>6. QED BY <2>3, <2>4, <2>5, AllSpots
<1>7. QED BY <1>1, <1>2, <1>5, <1>6 DEF Moved

LEMMA MonitorLogPushMoves ==
    ASSUME IInv, NEW p \in Protos, MonitorLogPush(p)
    PROVE  Moved(mmail[p], <<"monitor", p>>, <<"log_queue", <<p, verdict[p]>>>>)
<1> DEFINE m == mmail[p]
           k == <<p, verdict[p]>>
<1>1. /\ m \in Mails /\ k \in Protos \X Types
      /\ <<"monitor", p>> \in Spots /\ <<"log_queue", k>> \in Spots
  BY DEF MonitorLogPush, IInv, TypeOK, HandInv, Spots
<1>2. In(m, <<"monitor", p>>)
  BY DEF In
<1>3. m \notin Range(log_queue[k])
  BY <1>1, <1>2, NotElsewhere DEF IInv, In
<1>4. /\ Append(log_queue[k], m) \in Seq(Mails)
      /\ Range(Append(log_queue[k], m)) = Range(log_queue[k]) \cup {m}
      /\ IsInjective(Append(log_queue[k], m))
  <2>1. log_queue[k] \in Seq(Mails) /\ IsInjective(log_queue[k])
    BY <1>1 DEF IInv, TypeOK, QueuesOnce
  <2>2. QED BY <1>1, <1>3, <2>1, AppendOnce
<1>5. /\ \A q \in Protos \X Types : log_queue'[q] = IF q = k THEN Append(log_queue[k], m)
                                                    ELSE log_queue[q]
      /\ DOMAIN log_queue' = Protos \X Types
      /\ log_queue' = [q \in Protos \X Types |-> log_queue'[q]]
      /\ \A q \in Protos : mmail'[q] = IF q = p THEN None ELSE mmail[q]
  BY DEF IInv, TypeOK, MonitorLogPush, Enq
<1>6. \A q \in Protos \X Types :
        Range(log_queue'[q]) = IF q = k THEN Range(log_queue[q]) \cup {m} ELSE Range(log_queue[q])
  BY <1>4, <1>5
<1>7. TypeOK' /\ QueuesOnce' /\ HandInv'
  <2>0. log_queue' \in [Protos \X Types -> Seq(Mails)]
    BY <1>4, <1>5 DEF IInv, TypeOK
  <2>1. QueuesOnce'
    BY <1>4, <1>5 DEF IInv, QueuesOnce, MonitorLogPush
  <2>2. /\ mpc' \in [Protos -> {"deq", "match", "log_push", "free"}]
        /\ mmail' \in [Protos -> Mails \cup {None}] /\ verdict' \in [Protos -> Types]
        /\ \A q \in Protos : mmail'[q] = None <=> mpc'[q] = "deq"
    BY DEF MonitorLogPush, IInv, TypeOK, HandInv, Types
  <2>3. QED
    BY <2>0, <2>1, <2>2 DEF MonitorLogPush, IInv, TypeOK, HandInv, logVars, analysisVars
<1>8. Moves(m, <<"monitor", p>>, <<"log_queue", k>>)
  <2>2. SUFFICES ASSUME NEW n \in Mails, NEW x \in Spots
                 PROVE  In(n, x)' <=> After(n, x, m, <<"monitor", p>>, <<"log_queue", k>>)
    BY DEF Moves
  <2> USE DEF After
  <2>3. CASE \E q \in Protos \X Types : x = <<"log_queue", q>>
    <3>1. PICK q \in Protos \X Types : x = <<"log_queue", q>>
      BY <2>3
    <3>2. /\ In(n, x) <=> n \in Range(log_queue[q])
          /\ In(n, x)' <=> n \in Range(log_queue'[q])
      BY <3>1 DEF In
    <3>3. x = <<"log_queue", k>> <=> q = k
      BY <3>1
    <3>4. x # <<"monitor", p>>
      BY <3>1
    <3>5. QED BY <1>6, <3>2, <3>3, <3>4
  <2>4. CASE \E q \in Protos : x = <<"monitor", q>>
    BY <1>5, <2>4, MailsAssumption DEF In
  <2>5. CASE x[1] \notin {"monitor", "log_queue"}
    BY <2>5 DEF In, MonitorLogPush, analysisVars, logVars
  <2>6. QED BY <2>3, <2>4, <2>5, AllSpots
<1>9. QED BY <1>1, <1>2, <1>7, <1>8 DEF Moved

LEMMA MonitorFreeMoves ==
    ASSUME IInv, NEW p \in Protos, MonitorFree(p)
    PROVE  Moved(mmail[p], <<"monitor", p>>, <<"pool", 0>>)
<1>1. mmail[p] \in Mails /\ <<"monitor", p>> \in Spots /\ In(mmail[p], <<"monitor", p>>)
  BY DEF MonitorFree, IInv, TypeOK, HandInv, Spots, In
<1>2. /\ \A q \in Protos : mmail'[q] = IF q = p THEN None ELSE mmail[q]
      /\ pool' = pool \cup {mmail[p]}
  BY DEF MonitorFree, IInv, TypeOK
<1>3. TypeOK' /\ QueuesOnce' /\ HandInv'
  <2>1. /\ mpc' \in [Protos -> {"deq", "match", "log_push", "free"}]
        /\ mmail' \in [Protos -> Mails \cup {None}] /\ pool' \subseteq Mails
        /\ \A q \in Protos : mmail'[q] = None <=> mpc'[q] = "deq"
    BY <1>1 DEF MonitorFree, IInv, TypeOK, HandInv
  <2>2. QED
    BY <2>1 DEF MonitorFree, IInv, TypeOK, QueuesOnce, HandInv, logVars, analysisVars
<1>4. Moves(mmail[p], <<"monitor", p>>, <<"pool", 0>>)
  <2>1. SUFFICES ASSUME NEW n \in Mails, NEW x \in Spots
                 PROVE  In(n, x)' <=> After(n, x, mmail[p], <<"monitor", p>>, <<"pool", 0>>)
    BY DEF Moves
  <2> USE DEF After
  <2>2. CASE x = <<"pool", 0>>
    BY <1>2, <2>2 DEF In
  <2>3. CASE \E q \in Protos : x = <<"monitor", q>>
    BY <1>2, <2>3, MailsAssumption DEF In
  <2>4. CASE x[1] \notin {"monitor", "pool"}
    BY <2>4 DEF In, MonitorFree, analysisVars, logVars
  <2>5. QED BY <2>2, <2>3, <2>4, AllSpots
<1>5. QED BY <1>1, <1>3, <1>4 DEF Moved

LEMMA LogDeqMoves ==
    ASSUME IInv, NEW w \in LogThreads, LogDeq(w)
    PROVE  Moved(Head(log_queue[QueueOf(w)]), <<"log_queue", QueueOf(w)>>, <<"log", w>>)
<1> DEFINE k == QueueOf(w)
           m == Head(log_queue[k])
<1>0. k \in Protos \X Types
  BY ThreadOfQueue
<1> HIDE DEF k
<1>1. /\ Tail(log_queue[k]) \in Seq(Mails) /\ m \in Mails /\ m \in Range(log_queue[k])
      /\ Range(Tail(log_queue[k])) = Range(log_queue[k]) \ {m}
      /\ IsInjective(Tail(log_queue[k]))
  <2>1. /\ log_queue[k] \in Seq(Mails) /\ IsInjective(log_queue[k])
    BY <1>0 DEF IInv, TypeOK, QueuesOnce
  <2>2. log_queue[k] # << >>
    BY DEF LogDeq, k
  <2>3. QED BY <2>1, <2>2, TailOnce
<1>2. <<"log_queue", k>> \in Spots /\ In(m, <<"log_queue", k>>)
  BY <1>0, <1>1 DEF Spots, In
<1>3. /\ log_queue' = [log_queue EXCEPT ![k] = Tail(@)]
      /\ lmail' = [lmail EXCEPT ![w] = m] /\ lpc' = [lpc EXCEPT ![w] = "insert"]
      /\ lpc[w] = "deq"
      /\ UNCHANGED <<pool, analysisVars, monitor_queue, monitorVars, records>>
  BY DEF LogDeq, Deq, k
<1>4. /\ \A q \in Protos \X Types : log_queue'[q] = IF q = k THEN Tail(log_queue[k])
                                                    ELSE log_queue[q]
      /\ DOMAIN log_queue' = Protos \X Types
      /\ log_queue' = [q \in Protos \X Types |-> log_queue'[q]]
      /\ \A v \in LogThreads : lmail'[v] = IF v = w THEN m ELSE lmail[v]
      /\ lmail[w] = None
  BY <1>3 DEF IInv, TypeOK, HandInv
<1>5. \A q \in Protos \X Types :
        Range(log_queue'[q]) = IF q = k THEN Range(log_queue[q]) \ {m} ELSE Range(log_queue[q])
  BY <1>1, <1>4
<1>6. TypeOK' /\ QueuesOnce' /\ HandInv'
  <2>0. log_queue' \in [Protos \X Types -> Seq(Mails)]
    BY <1>1, <1>4 DEF IInv, TypeOK
  <2>1. QueuesOnce'
    BY <1>1, <1>3, <1>4 DEF IInv, QueuesOnce
  <2>2. /\ lpc' \in [LogThreads -> {"deq", "insert", "insert_spam", "free"}]
        /\ lmail' \in [LogThreads -> Mails \cup {None}]
        /\ \A v \in LogThreads : lmail'[v] = None <=> lpc'[v] = "deq"
    BY <1>1, <1>3, MailsAssumption DEF IInv, TypeOK, HandInv
  <2>3. QED
    BY <1>3, <2>0, <2>1, <2>2 DEF IInv, TypeOK, HandInv, monitorVars, analysisVars
<1>7. Moves(m, <<"log_queue", k>>, <<"log", w>>)
  <2>2. SUFFICES ASSUME NEW n \in Mails, NEW x \in Spots
                 PROVE  In(n, x)' <=> After(n, x, m, <<"log_queue", k>>, <<"log", w>>)
    BY DEF Moves
  <2> USE DEF After
  <2>3. CASE \E q \in Protos \X Types : x = <<"log_queue", q>>
    <3>1. PICK q \in Protos \X Types : x = <<"log_queue", q>>
      BY <2>3
    <3>2. /\ In(n, x) <=> n \in Range(log_queue[q])
          /\ In(n, x)' <=> n \in Range(log_queue'[q])
      BY <3>1 DEF In
    <3>3. x = <<"log_queue", k>> <=> q = k
      BY <3>1
    <3>4. x # <<"log", w>>
      BY <3>1
    <3>5. QED BY <1>5, <3>2, <3>3, <3>4
  <2>4. CASE \E v \in LogThreads : x = <<"log", v>>
    BY <1>4, <2>4, MailsAssumption DEF In
  <2>5. CASE x[1] \notin {"log", "log_queue"}
    BY <1>3, <2>5 DEF In, analysisVars, monitorVars
  <2>6. QED BY <2>3, <2>4, <2>5, AllSpots
<1>8. <<"log_queue", k>> # <<"log", w>>
  OBVIOUS
<1>9. QED BY <1>1, <1>2, <1>6, <1>7, <1>8 DEF Moved, k

LEMMA LogFreeMoves ==
    ASSUME IInv, NEW w \in LogThreads, LogFree(w)
    PROVE  Moved(lmail[w], <<"log", w>>, <<"pool", 0>>)
<1>1. lmail[w] \in Mails /\ <<"log", w>> \in Spots /\ In(lmail[w], <<"log", w>>)
  BY DEF LogFree, IInv, TypeOK, HandInv, Spots, In
<1>2. /\ \A v \in LogThreads : lmail'[v] = IF v = w THEN None ELSE lmail[v]
      /\ pool' = pool \cup {lmail[w]}
  BY DEF LogFree, IInv, TypeOK
<1>3. TypeOK' /\ QueuesOnce' /\ HandInv'
  <2>1. /\ lpc' \in [LogThreads -> {"deq", "insert", "insert_spam", "free"}]
        /\ lmail' \in [LogThreads -> Mails \cup {None}] /\ pool' \subseteq Mails
        /\ records' \in [Mails -> SUBSET Types]
        /\ \A v \in LogThreads : lmail'[v] = None <=> lpc'[v] = "deq"
    BY <1>1 DEF LogFree, IInv, TypeOK, HandInv
  <2>2. QED
    BY <2>1 DEF LogFree, IInv, TypeOK, QueuesOnce, HandInv, monitorVars, analysisVars
<1>4. Moves(lmail[w], <<"log", w>>, <<"pool", 0>>)
  <2>1. SUFFICES ASSUME NEW n \in Mails, NEW x \in Spots
                 PROVE  In(n, x)' <=> After(n, x, lmail[w], <<"log", w>>, <<"pool", 0>>)
    BY DEF Moves
  <2> USE DEF After
  <2>2. CASE x = <<"pool", 0>>
    BY <1>2, <2>2 DEF In
  <2>3. CASE \E v \in LogThreads : x = <<"log", v>>
    BY <1>2, <2>3, MailsAssumption DEF In
  <2>4. CASE x[1] \notin {"log", "pool"}
    BY <2>4 DEF In, LogFree, analysisVars, monitorVars
  <2>5. QED BY <2>2, <2>3, <2>4, AllSpots
<1>5. QED BY <1>1, <1>3, <1>4 DEF Moved

------------------------------------------------------------------------------
(* The invariant                                                              *)

LEMMA MovedKeepsInv ==
    ASSUME IInv, NEW m, NEW s, NEW d, Moved(m, s, d)
    PROVE  IInv'
BY MovesKeepOneSpot DEF Moved, IInv

\* The steps that move no mail: another attempt, a verdict, a record, a stutter.
LEMMA RetryStays ==
    ASSUME IInv, NEW p \in Protos, MonitorPushFull(p), ~PushDone(p)
    PROVE  Stays /\ IInv'
<1>1. tries[p] = 0 /\ tries' = [tries EXCEPT ![p] = 1] /\ UNCHANGED <<apc, amail>>
  BY DEF MonitorPushFull
<1>2. Stays
  BY <1>1 DEF Stays, In, MonitorPushFull, monitorVars, logVars
<1>3. TypeOK' /\ QueuesOnce' /\ HandInv'
  BY <1>1 DEF MonitorPushFull, IInv, TypeOK, QueuesOnce, HandInv, monitorVars, logVars
<1>4. QED BY <1>2, <1>3, StaysKeepsOneSpot DEF IInv

LEMMA MonitorMailStays ==
    ASSUME IInv, NEW p \in Protos, MonitorMail(p)
    PROVE  Stays /\ IInv'
<1>1. Stays
  BY DEF Stays, In, MonitorMail, analysisVars, logVars
<1>2. TypeOK' /\ QueuesOnce' /\ HandInv'
  <2>1. /\ mpc' \in [Protos -> {"deq", "match", "log_push", "free"}]
        /\ verdict' \in [Protos -> Types]
        /\ \A q \in Protos : mmail[q] = None <=> mpc'[q] = "deq"
    BY DEF MonitorMail, IInv, TypeOK, HandInv
  <2>2. QED BY <2>1 DEF MonitorMail, IInv, TypeOK, QueuesOnce, HandInv, analysisVars, logVars
<1>3. QED BY <1>1, <1>2, StaysKeepsOneSpot DEF IInv

LEMMA InsertStays ==
    ASSUME IInv, NEW w \in LogThreads, LogInsert(w) \/ LogInsertSpam(w)
    PROVE  Stays /\ IInv'
<1>1. Stays
  BY DEF Stays, In, LogInsert, LogInsertSpam, analysisVars, monitorVars
<1>2. QueueOf(w)[2] \in Types
  BY ThreadOfQueue
<1>3. TypeOK' /\ QueuesOnce' /\ HandInv'
  <2>1. /\ lpc' \in [LogThreads -> {"deq", "insert", "insert_spam", "free"}]
        /\ \A v \in LogThreads : lmail[v] = None <=> lpc'[v] = "deq"
    BY DEF LogInsert, LogInsertSpam, IInv, TypeOK, HandInv
  <2>2. records' \in [Mails -> SUBSET Types]
    <3>1. PICK r \in Types : records' = [records EXCEPT ![lmail[w]] = @ \cup {r}]
      BY <1>2 DEF LogInsert, LogInsertSpam, Insert, Types
    <3>2. records \in [Mails -> SUBSET Types]
      BY DEF IInv, TypeOK
    <3>3. QED BY <3>1, <3>2
  <2>3. QED
    BY <2>1, <2>2
       DEF LogInsert, LogInsertSpam, IInv, TypeOK, QueuesOnce, HandInv, analysisVars, monitorVars
<1>4. QED BY <1>1, <1>3, StaysKeepsOneSpot DEF IInv

LEMMA StutterStays ==
    ASSUME IInv, UNCHANGED vars
    PROVE  Stays /\ IInv'
<1> USE DEF vars, analysisVars, monitorVars, logVars
<1>1. Stays
  BY DEF Stays, In
<1>2. QED BY <1>1, StaysKeepsOneSpot DEF IInv, TypeOK, QueuesOnce, HandInv

\* Each step moves one mail or none.
LEMMA StepMoves ==
    ASSUME IInv, [Next]_vars
    PROVE  (Stays /\ IInv') \/ \E m, s, d : Moved(m, s, d)
<1>1. ASSUME NEW p \in Protos, Analysis(p)
      PROVE  (Stays /\ IInv') \/ \E m, s, d : Moved(m, s, d)
  <2>1. CASE Begin(p)
    BY <1>1, <2>1, BeginMoves
  <2>2. CASE \E m \in Mails : Kill(p, m) \/ Complete(p, m)
    BY <1>1, <2>2, LeaveMoves DEF Kill, Complete
  <2>3. CASE \E m \in Mails : GiveUp(p, m)
    BY <1>1, <2>3, GiveUpMoves
  <2>4. CASE MonitorPush(p)
    BY <1>1, <2>4, MonitorPushMoves
  <2>5. CASE MonitorPushFull(p) /\ PushDone(p)
    BY <1>1, <2>5, ForgetMoves
  <2>6. CASE MonitorPushFull(p) /\ ~PushDone(p)
    BY <1>1, <2>6, RetryStays
  <2>7. CASE KillPush(p)
    BY <1>1, <2>7, KillPushMoves
  <2>8. QED BY <1>1, <2>1, <2>2, <2>3, <2>4, <2>5, <2>6, <2>7 DEF Analysis
<1>2. ASSUME NEW p \in Protos, Monitor(p)
      PROVE  (Stays /\ IInv') \/ \E m, s, d : Moved(m, s, d)
  BY <1>2, MonitorDeqMoves, MonitorMailStays, MonitorLogPushMoves, MonitorFreeMoves DEF Monitor
<1>3. ASSUME NEW w \in LogThreads, Log(w)
      PROVE  (Stays /\ IInv') \/ \E m, s, d : Moved(m, s, d)
  BY <1>3, LogDeqMoves, InsertStays, LogFreeMoves DEF Log
<1>4. CASE UNCHANGED vars
  BY <1>4, StutterStays
<1>5. QED BY <1>1, <1>2, <1>3, <1>4 DEF Next, AllLost

LEMMA IInvInit == Init => IInv
<1> SUFFICES ASSUME Init PROVE IInv
  OBVIOUS
<1> USE DEF Init
<1>1. TypeOK
  BY DEF TypeOK, Types
<1>2. HandInv
  BY DEF HandInv
<1>3. QueuesOnce
  BY DEF QueuesOnce, IsInjective
<1>4. \A m \in Mails, x \in Spots : In(m, x) => x = <<"pool", 0>>
  BY AllSpots, MailsAssumption DEF In, Range
<1>5. QED BY <1>1, <1>2, <1>3, <1>4 DEF IInv, OneSpot

LEMMA IInvStep == IInv /\ [Next]_vars => IInv'
BY StepMoves, MovedKeepsInv

LEMMA Invariance == Spec => []IInv
<1>1. QED BY IInvInit, IInvStep, PTL DEF Spec

\* Every variable has the values the code can give it.
THEOREM TypeCorrect == Spec => []TypeOK
<1>1. IInv => TypeOK
  BY DEF IInv
<1>2. QED BY <1>1, Invariance, PTL

\* The place x of m belongs to the spot s.
AtSpot(x, s, m) ==
    \/ s[1] = "pool" /\ x = <<"pool">>
    \/ s[1] \in {"partial", "analysis", "monitor", "log"} /\ x = s
    \/ /\ s[1] = "monitor_queue"
       /\ \E i \in DOMAIN monitor_queue[s[2]] :
            monitor_queue[s[2]][i] = m /\ x = <<"monitor_queue", s[2], i>>
    \/ /\ s[1] = "log_queue"
       /\ \E i \in DOMAIN log_queue[s[2]] :
            log_queue[s[2]][i] = m /\ x = <<"log_queue", s[2], i>>

\* Every place of a mail belongs to a spot that refers to it.
LEMMA SpotOfPlace ==
    ASSUME NEW m \in Mails, NEW x \in Places(m)
    PROVE  \E s \in Spots : In(m, s) /\ AtSpot(x, s, m)
<1>1. CASE x \in {<<"pool">> : z \in pool \cap {m}}
  <2>1. <<"pool", 0>> \in Spots
    BY DEF Spots
  <2>2. x = <<"pool">> /\ m \in pool
    BY <1>1
  <2>3. QED BY <2>1, <2>2 DEF In, AtSpot
<1>2. CASE x \in {<<"partial", p>> : p \in {p \in Protos : m \in partial[p]}}
  <2>1. PICK p \in Protos : x = <<"partial", p>> /\ m \in partial[p]
    BY <1>2
  <2>2. x \in Spots /\ x[1] = "partial" /\ x[2] = p
    BY <2>1 DEF Spots
  <2>3. QED BY <2>1, <2>2 DEF In, AtSpot
<1>3. CASE x \in {<<"analysis", p>> : p \in {p \in Protos : amail[p] = m}}
  <2>1. PICK p \in Protos : x = <<"analysis", p>> /\ amail[p] = m
    BY <1>3
  <2>2. x \in Spots /\ x[1] = "analysis" /\ x[2] = p
    BY <2>1 DEF Spots
  <2>3. QED BY <2>1, <2>2 DEF In, AtSpot
<1>4. CASE x \in {<<"monitor", p>> : p \in {p \in Protos : mmail[p] = m}}
  <2>1. PICK p \in Protos : x = <<"monitor", p>> /\ mmail[p] = m
    BY <1>4
  <2>2. x \in Spots /\ x[1] = "monitor" /\ x[2] = p
    BY <2>1 DEF Spots
  <2>3. QED BY <2>1, <2>2 DEF In, AtSpot
<1>5. CASE x \in {<<"log", w>> : w \in {w \in LogThreads : lmail[w] = m}}
  <2>1. PICK w \in LogThreads : x = <<"log", w>> /\ lmail[w] = m
    BY <1>5
  <2>2. x \in Spots /\ x[1] = "log" /\ x[2] = w
    BY <2>1 DEF Spots
  <2>3. QED BY <2>1, <2>2 DEF In, AtSpot
<1>6. CASE x \in UNION {{<<"monitor_queue", p, i>> :
                       i \in {i \in DOMAIN monitor_queue[p] : monitor_queue[p][i] = m}}
                      : p \in Protos}
  <2>1. PICK p \in Protos :
          x \in {<<"monitor_queue", p, i>> :
                   i \in {i \in DOMAIN monitor_queue[p] : monitor_queue[p][i] = m}}
    BY <1>6
  <2>2. PICK i \in DOMAIN monitor_queue[p] :
          x = <<"monitor_queue", p, i>> /\ monitor_queue[p][i] = m
    BY <2>1
  <2> DEFINE s == <<"monitor_queue", p>>
  <2>3. s \in Spots /\ s[1] = "monitor_queue" /\ s[2] = p
    BY DEF Spots
  <2>4. m \in Range(monitor_queue[p])
    BY <2>2 DEF Range
  <2> HIDE DEF s
  <2>5. In(m, s)
    BY <2>3, <2>4 DEF In
  <2>6. AtSpot(x, s, m)
    BY <2>2, <2>3 DEF AtSpot
  <2>7. QED BY <2>3, <2>5, <2>6
<1>7. CASE x \in UNION {{<<"log_queue", q, i>> :
                       i \in {i \in DOMAIN log_queue[q] : log_queue[q][i] = m}}
                      : q \in Protos \X Types}
  <2>1. PICK q \in Protos \X Types :
          x \in {<<"log_queue", q, i>> :
                   i \in {i \in DOMAIN log_queue[q] : log_queue[q][i] = m}}
    BY <1>7
  <2>2. PICK i \in DOMAIN log_queue[q] :
          x = <<"log_queue", q, i>> /\ log_queue[q][i] = m
    BY <2>1
  <2> DEFINE s == <<"log_queue", q>>
  <2>3. s \in Spots /\ s[1] = "log_queue" /\ s[2] = q
    BY DEF Spots
  <2>4. m \in Range(log_queue[q])
    BY <2>2 DEF Range
  <2> HIDE DEF s
  <2>5. In(m, s)
    BY <2>3, <2>4 DEF In
  <2>6. AtSpot(x, s, m)
    BY <2>2, <2>3 DEF AtSpot
  <2>7. QED BY <2>3, <2>5, <2>6
<1>8. QED BY <1>1, <1>2, <1>3, <1>4, <1>5, <1>6, <1>7 DEF Places

\* A mail is in one place at a time, whatever the threads do: no two of them work
\* on it, and it is not given back while anybody refers to it.
THEOREM OnePlaceAlways == Spec => []OnePlace
<1>1. ASSUME IInv, NEW m \in Mails, NEW x \in Places(m), NEW y \in Places(m)
      PROVE  x = y
  <2>1. PICK s \in Spots : In(m, s) /\ AtSpot(x, s, m)
    BY SpotOfPlace
  <2>2. PICK t \in Spots : In(m, t) /\ AtSpot(y, t, m)
    BY SpotOfPlace
  <2>3. AtSpot(y, s, m)
    BY <1>1, <2>1, <2>2 DEF IInv, OneSpot
  <2>4. CASE s[1] \notin {"monitor_queue", "log_queue"}
    BY <2>1, <2>3, <2>4 DEF AtSpot
  <2>5. CASE s[1] = "monitor_queue"
    <3>1. IsInjective(monitor_queue[s[2]])
      <4>1. s[2] \in Protos
        BY <2>5, AllSpots
      <4>2. QED BY <1>1, <4>1 DEF IInv, QueuesOnce
    <3>2. PICK i \in DOMAIN monitor_queue[s[2]] :
            monitor_queue[s[2]][i] = m /\ x = <<"monitor_queue", s[2], i>>
      BY <2>1, <2>5 DEF AtSpot
    <3>3. PICK j \in DOMAIN monitor_queue[s[2]] :
            monitor_queue[s[2]][j] = m /\ y = <<"monitor_queue", s[2], j>>
      BY <2>3, <2>5 DEF AtSpot
    <3>4. QED BY <3>1, <3>2, <3>3 DEF IsInjective
  <2>6. CASE s[1] = "log_queue"
    <3>1. IsInjective(log_queue[s[2]])
      <4>1. s[2] \in Protos \X Types
        BY <2>6, AllSpots
      <4>2. QED BY <1>1, <4>1 DEF IInv, QueuesOnce
    <3>2. PICK i \in DOMAIN log_queue[s[2]] :
            log_queue[s[2]][i] = m /\ x = <<"log_queue", s[2], i>>
      BY <2>1, <2>6 DEF AtSpot
    <3>3. PICK j \in DOMAIN log_queue[s[2]] :
            log_queue[s[2]][j] = m /\ y = <<"log_queue", s[2], j>>
      BY <2>3, <2>6 DEF AtSpot
    <3>4. QED BY <3>1, <3>2, <3>3 DEF IsInjective
  <2>7. QED BY <2>4, <2>5, <2>6
<1>2. IInv => OnePlace
  BY <1>1 DEF OnePlace
<1>3. QED BY <1>2, Invariance, PTL

------------------------------------------------------------------------------
(* The refinement of MailLifecycle                                            *)

\* What the spot of a mail says of it: its stage, and the type it is logged as.
StageAt(s) ==
    CASE s[1] = "pool" -> "free"
      [] s[1] = "partial" -> "analysis"
      [] s[1] = "analysis" -> IF apc[s[2]] = "monitor_push" THEN "analysis" ELSE "log"
      [] s[1] = "monitor_queue" -> "monitor"
      [] s[1] = "monitor" -> IF mpc[s[2]] = "log_push" THEN "log" ELSE "monitor"
      [] s[1] \in {"log_queue", "log"} -> "log"
TypeAt(s) ==
    CASE s[1] = "monitor" -> verdict[s[2]]
      [] s[1] = "log_queue" -> s[2][2]
      [] s[1] = "log" -> QueueOf(s[2])[2]
      [] OTHER -> KILL
OwedAs(m, t) == {Name[r] : r \in RecordsOf(t) \ records[m]}

\* A mail is at a stage because a spot of that stage refers to it.
At(m, stage) == \E x \in Spots : In(m, x) /\ StageAt(x) = stage
StagesBySpot ==
    IInv => \A m \in Mails :
              /\ m \in pool <=> At(m, "free")
              /\ InAnalysis(m) <=> At(m, "analysis")
              /\ InMonitor(m) <=> At(m, "monitor")
              /\ \A t \in Types : InLog(m, t) <=> \E x \in Spots : /\ In(m, x) /\ StageAt(x) = "log"
                                                                  /\ TypeAt(x) = t

\* The thread that works on log_queue[p][t].
LEMMA QueueOfThread ==
    ASSUME NEW p \in Protos, NEW t \in Types
    PROVE  p * 4 + t \in LogThreads /\ QueueOf(p * 4 + t) = <<p, t>>
BY DEF Protos, Types, LogThreads, QueueOf, KILL, MONITOR, SPAM, MONITOR_SPAM

LEMMA StagesBySpotHolds == StagesBySpot
<1> SUFFICES ASSUME IInv, NEW m \in Mails
             PROVE  /\ m \in pool <=> At(m, "free")
                    /\ InAnalysis(m) <=> At(m, "analysis")
                    /\ InMonitor(m) <=> At(m, "monitor")
                    /\ \A t \in Types : InLog(m, t) <=> \E x \in Spots : /\ In(m, x) /\ StageAt(x) = "log"
                                                                  /\ TypeAt(x) = t
  BY DEF StagesBySpot
<1>1. \A p \in Protos : /\ amail[p] = m => apc[p] \in {"monitor_push", "log_push"}
                        /\ mmail[p] = m => mpc[p] \in {"match", "log_push", "free"}
  BY MailsAssumption DEF IInv, HandInv, TypeOK
<1>2. m \in pool <=> At(m, "free")
  <2>1. m \in pool => At(m, "free")
    <3>1. <<"pool", 0>> \in Spots /\ StageAt(<<"pool", 0>>) = "free"
      BY DEF Spots, StageAt
    <3>2. QED BY <3>1 DEF At, In
  <2>2. ASSUME NEW x \in Spots, In(m, x), StageAt(x) = "free" PROVE m \in pool
    BY <2>2, AllSpots DEF StageAt, In
  <2>3. QED BY <2>1, <2>2 DEF At
<1>3. InAnalysis(m) <=> At(m, "analysis")
  <2>1. ASSUME NEW p \in Protos, m \in partial[p] PROVE At(m, "analysis")
    <3>1. <<"partial", p>> \in Spots /\ StageAt(<<"partial", p>>) = "analysis"
      BY DEF Spots, StageAt
    <3>2. QED BY <2>1, <3>1, InSpots DEF At
  <2>2. ASSUME NEW p \in Protos, amail[p] = m, apc[p] = "monitor_push" PROVE At(m, "analysis")
    <3>1. <<"analysis", p>> \in Spots /\ StageAt(<<"analysis", p>>) = "analysis"
      BY <2>2 DEF Spots, StageAt
    <3>2. QED BY <2>2, <3>1, InSpots DEF At
  <2>3. ASSUME NEW x \in Spots, In(m, x), StageAt(x) = "analysis" PROVE InAnalysis(m)
    <3>1. PICK p \in Protos : x = <<"partial", p>> \/ x = <<"analysis", p>>
      BY <2>3, AllSpots DEF StageAt
    <3>2. CASE x = <<"partial", p>>
      BY <2>3, <3>2, InSpots DEF InAnalysis
    <3>3. CASE x = <<"analysis", p>>
      BY <2>3, <3>3, InSpots DEF InAnalysis, StageAt
    <3>4. QED BY <3>1, <3>2, <3>3
  <2>4. QED BY <2>1, <2>2, <2>3 DEF At, InAnalysis
<1>4. InMonitor(m) <=> At(m, "monitor")
  <2>1. ASSUME NEW p \in Protos, m \in Range(monitor_queue[p]) PROVE At(m, "monitor")
    <3>1. <<"monitor_queue", p>> \in Spots /\ StageAt(<<"monitor_queue", p>>) = "monitor"
      BY DEF Spots, StageAt
    <3>2. QED BY <2>1, <3>1, InSpots DEF At
  <2>2. ASSUME NEW p \in Protos, mmail[p] = m, mpc[p] # "log_push" PROVE At(m, "monitor")
    <3>1. <<"monitor", p>> \in Spots /\ StageAt(<<"monitor", p>>) = "monitor"
      BY <2>2 DEF Spots, StageAt
    <3>2. QED BY <2>2, <3>1, InSpots DEF At
  <2>3. ASSUME NEW x \in Spots, In(m, x), StageAt(x) = "monitor" PROVE InMonitor(m)
    <3>1. PICK p \in Protos : x = <<"monitor_queue", p>> \/ x = <<"monitor", p>>
      BY <2>3, AllSpots DEF StageAt
    <3>2. CASE x = <<"monitor_queue", p>>
      BY <2>3, <3>2, InSpots DEF InMonitor
    <3>3. CASE x = <<"monitor", p>>
      BY <2>3, <3>3, InSpots DEF InMonitor, StageAt
    <3>4. QED BY <3>1, <3>2, <3>3
  <2>4. QED BY <2>1, <2>2, <2>3 DEF At, InMonitor
<1>5. ASSUME NEW t \in Types
      PROVE  InLog(m, t) <=> \E x \in Spots : In(m, x) /\ StageAt(x) = "log" /\ TypeAt(x) = t
  <2>1. ASSUME NEW p \in Protos, amail[p] = m, apc[p] = "log_push", t = KILL
        PROVE  \E x \in Spots : In(m, x) /\ StageAt(x) = "log" /\ TypeAt(x) = t
    <3>1. /\ <<"analysis", p>> \in Spots /\ StageAt(<<"analysis", p>>) = "log"
          /\ TypeAt(<<"analysis", p>>) = t
      BY <2>1 DEF Spots, StageAt, TypeAt
    <3>2. QED BY <2>1, <3>1, InSpots
  <2>2. ASSUME NEW p \in Protos, mmail[p] = m, mpc[p] = "log_push", t = verdict[p]
        PROVE  \E x \in Spots : In(m, x) /\ StageAt(x) = "log" /\ TypeAt(x) = t
    <3>1. /\ <<"monitor", p>> \in Spots /\ StageAt(<<"monitor", p>>) = "log"
          /\ TypeAt(<<"monitor", p>>) = t
      BY <2>2 DEF Spots, StageAt, TypeAt
    <3>2. QED BY <2>2, <3>1, InSpots
  <2>3. ASSUME NEW p \in Protos, m \in Range(log_queue[<<p, t>>])
        PROVE  \E x \in Spots : In(m, x) /\ StageAt(x) = "log" /\ TypeAt(x) = t
    <3>1. /\ <<"log_queue", <<p, t>>>> \in Spots /\ StageAt(<<"log_queue", <<p, t>>>>) = "log"
          /\ TypeAt(<<"log_queue", <<p, t>>>>) = t
      BY DEF Spots, StageAt, TypeAt
    <3>2. QED BY <2>3, <3>1, InSpots
  <2>4. ASSUME NEW p \in Protos, lmail[p * 4 + t] = m
        PROVE  \E x \in Spots : In(m, x) /\ StageAt(x) = "log" /\ TypeAt(x) = t
    <3>1. PICK w \in LogThreads : w = p * 4 + t /\ QueueOf(w) = <<p, t>>
      BY QueueOfThread
    <3>2. <<"log", w>> \in Spots /\ StageAt(<<"log", w>>) = "log" /\ TypeAt(<<"log", w>>) = t
      BY <3>1 DEF Spots, StageAt, TypeAt
    <3>3. QED BY <2>4, <3>1, <3>2, InSpots
  <2>5. ASSUME NEW x \in Spots, In(m, x), StageAt(x) = "log", TypeAt(x) = t PROVE InLog(m, t)
    <3>1. CASE \E p \in Protos : x = <<"analysis", p>>
      <4>1. PICK p \in Protos : x = <<"analysis", p>>
        BY <3>1
      <4>2. amail[p] = m /\ apc[p] # "monitor_push" /\ t = KILL
        BY <2>5, <4>1, InSpots DEF StageAt, TypeAt
      <4>3. QED BY <1>1, <4>2 DEF InLog
    <3>2. CASE \E p \in Protos : x = <<"monitor", p>>
      <4>1. PICK p \in Protos : x = <<"monitor", p>>
        BY <3>2
      <4>2. mmail[p] = m /\ mpc[p] = "log_push" /\ t = verdict[p]
        BY <2>5, <4>1, InSpots DEF StageAt, TypeAt
      <4>3. QED BY <4>2 DEF InLog
    <3>3. CASE \E q \in Protos \X Types : x = <<"log_queue", q>>
      <4>1. PICK q \in Protos \X Types : x = <<"log_queue", q>>
        BY <3>3
      <4>2. q = <<q[1], t>> /\ q[1] \in Protos /\ m \in Range(log_queue[q])
        BY <2>5, <4>1, InSpots DEF TypeAt
      <4>3. QED BY <4>2 DEF InLog
    <3>4. CASE \E w \in LogThreads : x = <<"log", w>>
      <4>1. PICK w \in LogThreads : x = <<"log", w>>
        BY <3>4
      <4>2. QueueOf(w)[2] = t /\ lmail[w] = m
        BY <2>5, <4>1, InSpots DEF TypeAt
      <4>3. \E p \in Protos : w = p * 4 + t
        BY <4>2 DEF LogThreads, QueueOf, Protos, Types, KILL, MONITOR, SPAM, MONITOR_SPAM
      <4>4. QED BY <4>2, <4>3 DEF InLog
    <3>5. QED BY <2>5, <3>1, <3>2, <3>3, <3>4, AllSpots DEF StageAt
  <2>6. QED BY <2>1, <2>2, <2>3, <2>4, <2>5 DEF InLog
<1>6. QED BY <1>2, <1>3, <1>4, <1>5

\* What the two mapped functions give for a mail at a spot, or at none.
StageOfSpot ==
    IInv => \A m \in Mails :
              /\ \A s \in Spots : In(m, s) =>
                   /\ StageOf(m) = StageAt(s)
                   /\ Owed(m) = IF StageAt(s) = "log" THEN OwedAs(m, TypeAt(s)) ELSE {}
              /\ (\A s \in Spots : ~In(m, s)) => StageOf(m) = "lost" /\ Owed(m) = {}

LEMMA TypeOfSpot ==
    ASSUME IInv, NEW s \in Spots
    PROVE  TypeAt(s) \in Types
<1>1. CASE \E p \in Protos : s = <<"monitor", p>>
  BY <1>1 DEF TypeAt, IInv, TypeOK
<1>2. CASE \E q \in Protos \X Types : s = <<"log_queue", q>>
  BY <1>2 DEF TypeAt
<1>3. CASE \E w \in LogThreads : s = <<"log", w>>
  BY <1>3, ThreadOfQueue DEF TypeAt
<1>4. CASE s[1] \notin {"monitor", "log_queue", "log"}
  BY <1>4 DEF TypeAt, Types
<1>5. QED BY <1>1, <1>2, <1>3, <1>4, AllSpots

LEMMA StageOfSpotHolds == StageOfSpot
<1> SUFFICES ASSUME IInv, NEW m \in Mails
             PROVE  /\ \A s \in Spots : In(m, s) =>
                         /\ StageOf(m) = StageAt(s)
                         /\ Owed(m) = IF StageAt(s) = "log" THEN OwedAs(m, TypeAt(s)) ELSE {}
                    /\ (\A s \in Spots : ~In(m, s)) => StageOf(m) = "lost" /\ Owed(m) = {}
  BY DEF StageOfSpot
<1>1. /\ m \in pool <=> At(m, "free")
      /\ InAnalysis(m) <=> At(m, "analysis")
      /\ InMonitor(m) <=> At(m, "monitor")
      /\ \A t \in Types : InLog(m, t) <=> \E x \in Spots : /\ In(m, x) /\ StageAt(x) = "log"
                                                          /\ TypeAt(x) = t
  BY StagesBySpotHolds DEF StagesBySpot
<1>2. ASSUME NEW s \in Spots, In(m, s)
      PROVE  /\ StageOf(m) = StageAt(s)
             /\ Owed(m) = IF StageAt(s) = "log" THEN OwedAs(m, TypeAt(s)) ELSE {}
  <2>1. \A stage : At(m, stage) <=> StageAt(s) = stage
    BY <1>2 DEF At, IInv, OneSpot
  <2>2. \A t \in Types : InLog(m, t) <=> StageAt(s) = "log" /\ t = TypeAt(s)
    BY <1>1, <1>2 DEF IInv, OneSpot
  <2>3. TypeAt(s) \in Types
    BY TypeOfSpot
  <2>4. StageAt(s) \in {"free", "analysis", "monitor", "log"}
    BY AllSpots DEF StageAt
  <2>5. StageOf(m) = StageAt(s)
    BY <1>1, <2>1, <2>2, <2>3, <2>4 DEF StageOf
  <2>6. {t \in Types : InLog(m, t)} = IF StageAt(s) = "log" THEN {TypeAt(s)} ELSE {}
    BY <2>2, <2>3
  <2>7. Owed(m) = IF StageAt(s) = "log" THEN OwedAs(m, TypeAt(s)) ELSE {}
    BY <2>6 DEF Owed, OwedAs
  <2>8. QED BY <2>5, <2>7
<1>3. ASSUME \A s \in Spots : ~In(m, s) PROVE StageOf(m) = "lost" /\ Owed(m) = {}
  <2>1. \A stage : ~At(m, stage)
    BY <1>3 DEF At
  <2>2. \A t \in Types : ~InLog(m, t)
    BY <1>1, <1>3
  <2>3. QED BY <1>1, <2>1, <2>2 DEF StageOf, Owed
<1>4. QED BY <1>2, <1>3

LEMMA NextStageOfSpot == StageOfSpot'
BY StageOfSpotHolds, PTL


------------------------------------------------------------------------------
(* What is written of a mail, at each point of its log thread                 *)

\* What is owed of a mail is known from where it is: nothing was written before
\* a log thread has it, and the log thread's place says what it has written.
RecordInv ==
    /\ \A p \in Protos : mpc[p] = "log_push" => verdict[p] # KILL
    /\ \A m \in Mails : (\A w \in LogThreads : lmail[w] # m) => records[m] = {}
    /\ \A w \in LogThreads :
         /\ lpc[w] = "insert" => records[lmail[w]] = {}
         /\ lpc[w] = "insert_spam" =>
              QueueOf(w)[2] = MONITOR_SPAM /\ records[lmail[w]] = {MONITOR}
         /\ lpc[w] = "free" => records[lmail[w]] = RecordsOf(QueueOf(w)[2])

LEMMA RecordInit == Init => RecordInv
BY MailsAssumption DEF Init, RecordInv

\* One log thread has a mail.
LEMMA OneLogThread ==
    ASSUME IInv, NEW v \in LogThreads, NEW w \in LogThreads, lmail[v] = lmail[w],
           lmail[v] # None
    PROVE  v = w
<1>1. lmail[v] \in Mails
  BY DEF IInv, TypeOK
<1>2. /\ <<"log", v>> \in Spots /\ <<"log", w>> \in Spots
      /\ In(lmail[v], <<"log", v>>) /\ In(lmail[v], <<"log", w>>)
  BY InSpots DEF Spots
<1>3. <<"log", v>> = <<"log", w>>
  BY <1>1, <1>2 DEF IInv, OneSpot
<1>4. QED BY <1>3

LEMMA InsertRecords ==
    ASSUME IInv, RecordInv, NEW w \in LogThreads, LogInsert(w) \/ LogInsertSpam(w)
    PROVE  RecordInv'
<1>1. lmail[w] \in Mails
  BY DEF IInv, TypeOK, HandInv, LogInsert, LogInsertSpam
<1>2. \A v \in LogThreads : lmail[v] = lmail[w] => v = w
  BY <1>1, OneLogThread, MailsAssumption
<1>3. UNCHANGED <<lmail, mpc, verdict>>
  BY DEF LogInsert, LogInsertSpam, monitorVars
<1>4. PICK r, at : /\ records' = [records EXCEPT ![lmail[w]] = @ \cup {r}]
                   /\ lpc' = [lpc EXCEPT ![w] = at]
                   /\ \/ /\ lpc[w] = "insert" /\ QueueOf(w)[2] = MONITOR_SPAM
                         /\ r = MONITOR /\ at = "insert_spam"
                      \/ /\ lpc[w] = "insert" /\ QueueOf(w)[2] # MONITOR_SPAM
                         /\ r = QueueOf(w)[2] /\ at = "free"
                      \/ lpc[w] = "insert_spam" /\ r = SPAM /\ at = "free"
  BY DEF LogInsert, LogInsertSpam, Insert
<1>5. \A n \in Mails : records'[n] = IF n = lmail[w] THEN records[n] \cup {r} ELSE records[n]
  BY <1>1, <1>4 DEF IInv, TypeOK
<1>6. \A v \in LogThreads : lpc'[v] = IF v = w THEN at ELSE lpc[v]
  BY <1>4 DEF IInv, TypeOK
<1>7. ASSUME NEW v \in LogThreads
      PROVE  /\ lpc'[v] = "insert" => records'[lmail[v]] = {}
             /\ lpc'[v] = "insert_spam" =>
                  QueueOf(v)[2] = MONITOR_SPAM /\ records'[lmail[v]] = {MONITOR}
             /\ lpc'[v] = "free" => records'[lmail[v]] = RecordsOf(QueueOf(v)[2])
  <2>1. CASE v # w
    <3>1. lpc[v] # "deq" => lmail[v] \in Mails /\ lmail[v] # lmail[w]
      BY <1>2, <2>1 DEF IInv, TypeOK, HandInv
    <3>2. QED BY <1>5, <1>6, <2>1, <3>1 DEF RecordInv
  <2>2. CASE v = w
    <3>1. lpc'[v] = at /\ records'[lmail[v]] = records[lmail[w]] \cup {r}
      BY <1>1, <1>5, <1>6, <2>2
    <3>2. CASE lpc[w] = "insert"
      <4>1. records[lmail[w]] = {}
        BY <3>2 DEF RecordInv
      <4>2. records'[lmail[v]] = {r}
        BY <3>1, <4>1
      <4>3. QED BY <1>4, <2>2, <3>1, <3>2, <4>2 DEF RecordsOf
    <3>3. CASE lpc[w] = "insert_spam"
      <4>1. QueueOf(w)[2] = MONITOR_SPAM /\ records[lmail[w]] = {MONITOR}
        BY <3>3 DEF RecordInv
      <4>2. records'[lmail[v]] = {MONITOR, SPAM} /\ at = "free"
        BY <1>4, <3>1, <3>3, <4>1
      <4>3. QED BY <2>2, <3>1, <4>1, <4>2 DEF RecordsOf
    <3>4. QED BY <1>4, <3>2, <3>3
  <2>3. QED BY <2>1, <2>2
<1>8. ASSUME NEW n \in Mails, \A v \in LogThreads : lmail[v] # n PROVE records'[n] = {}
  BY <1>5, <1>8 DEF RecordInv
<1>9. QED BY <1>3, <1>7, <1>8 DEF RecordInv

LEMMA LogDeqRecords ==
    ASSUME IInv, RecordInv, NEW w \in LogThreads, LogDeq(w)
    PROVE  RecordInv'
<1> DEFINE m == Head(log_queue[QueueOf(w)])
<1>1. m \in Mails /\ In(m, <<"log_queue", QueueOf(w)>>) /\ <<"log_queue", QueueOf(w)>> \in Spots
  BY LogDeqMoves DEF Moved
<1> HIDE DEF m
<1>2. ASSUME NEW v \in LogThreads PROVE lmail[v] # m
  <2>1. <<"log", v>> \in Spots /\ <<"log", v>> # <<"log_queue", QueueOf(w)>>
    BY DEF Spots
  <2>2. ~In(m, <<"log", v>>)
    BY <1>1, <2>1, NotElsewhere DEF IInv
  <2>3. QED BY <2>2, InSpots
<1>3. records[m] = {}
  BY <1>1, <1>2 DEF RecordInv
<1>4. /\ \A v \in LogThreads : lmail'[v] = IF v = w THEN m ELSE lmail[v]
      /\ \A v \in LogThreads : lpc'[v] = IF v = w THEN "insert" ELSE lpc[v]
      /\ UNCHANGED <<mpc, verdict, records>>
      /\ lmail[w] = None
  BY DEF LogDeq, IInv, TypeOK, HandInv, monitorVars, m
<1>5. QED BY <1>3, <1>4, MailsAssumption DEF RecordInv

LEMMA LogFreeRecords ==
    ASSUME IInv, RecordInv, NEW w \in LogThreads, LogFree(w)
    PROVE  RecordInv'
<1>1. lmail[w] \in Mails
  BY DEF IInv, TypeOK, HandInv, LogFree
<1>2. \A v \in LogThreads : lmail[v] = lmail[w] => v = w
  BY <1>1, OneLogThread, MailsAssumption
<1>3. /\ \A v \in LogThreads : lmail'[v] = IF v = w THEN None ELSE lmail[v]
      /\ \A v \in LogThreads : lpc'[v] = IF v = w THEN "deq" ELSE lpc[v]
      /\ \A n \in Mails : records'[n] = IF n = lmail[w] THEN {} ELSE records[n]
      /\ UNCHANGED <<mpc, verdict>>
  BY <1>1 DEF LogFree, IInv, TypeOK, HandInv, monitorVars
<1>4. ASSUME NEW v \in LogThreads, lpc'[v] # "deq"
      PROVE  /\ v # w /\ lpc'[v] = lpc[v] /\ lmail'[v] = lmail[v]
             /\ records'[lmail'[v]] = records[lmail[v]]
  <2>1. v # w /\ lpc'[v] = lpc[v] /\ lmail'[v] = lmail[v]
    BY <1>3, <1>4
  <2>2. lmail[v] \in Mails /\ lmail[v] # lmail[w]
    BY <1>2, <1>4, <2>1 DEF IInv, TypeOK, HandInv
  <2>3. QED BY <1>3, <2>1, <2>2
<1>5. ASSUME NEW n \in Mails, \A v \in LogThreads : lmail'[v] # n PROVE records'[n] = {}
  BY <1>3, <1>5 DEF RecordInv
<1>6. QED BY <1>3, <1>4, <1>5 DEF RecordInv

LEMMA RecordStep == IInv /\ RecordInv /\ [Next]_vars => RecordInv'
<1> SUFFICES ASSUME IInv, RecordInv, [Next]_vars PROVE RecordInv'
  OBVIOUS
<1>1. ASSUME NEW p \in Protos, Analysis(p) PROVE RecordInv'
  <2>1. UNCHANGED <<monitorVars, logVars>>
    BY <1>1 DEF Analysis, Begin, Kill, Complete, GiveUp, Leave, MonitorPush, MonitorPushFull, KillPush
  <2>2. QED BY <2>1 DEF RecordInv, monitorVars, logVars
<1>2. ASSUME NEW p \in Protos, Monitor(p) PROVE RecordInv'
  <2>1. UNCHANGED logVars
    BY <1>2 DEF Monitor, MonitorDeq, MonitorMail, MonitorLogPush, MonitorFree
  <2>2. \A q \in Protos : mpc'[q] = "log_push" => verdict'[q] # KILL
    BY <1>2 DEF Monitor, MonitorDeq, MonitorMail, MonitorLogPush, MonitorFree, RecordInv, IInv, TypeOK
  <2>3. QED BY <2>1, <2>2 DEF RecordInv, logVars
<1>3. ASSUME NEW w \in LogThreads, Log(w) PROVE RecordInv'
  BY <1>3, LogDeqRecords, InsertRecords, LogFreeRecords DEF Log
<1>4. CASE UNCHANGED vars
  BY <1>4 DEF vars, monitorVars, logVars, RecordInv
<1>5. QED BY <1>1, <1>2, <1>3, <1>4 DEF Next, AllLost

------------------------------------------------------------------------------
(* Each step as a step of MailLifecycle                                       *)

\* The abstract step that moves m, and the one that nothing is seen of.
LEMMA MoveStep ==
    ASSUME NEW m \in Mails, NEW to, NEW recs,
           StageOf(m)' = to, Owed(m)' = recs,
           \A n \in Mails : n # m => StageOf(n)' = StageOf(n) /\ Owed(n)' = Owed(n)
    PROVE  Lifecycle!Move(m, StageOf(m), to, recs)
BY DEF Lifecycle!Move

LEMMA SameStep ==
    ASSUME \A n \in Mails : StageOf(n)' = StageOf(n) /\ Owed(n)' = Owed(n)
    PROVE  UNCHANGED Lifecycle!vars
BY DEF Lifecycle!vars

\* Nothing but the spot of m says anything new of a mail.
Quiet(m) ==
    \A n \in Mails : n # m =>
      /\ records'[n] = records[n]
      /\ \A x \in Spots : In(n, x) => StageAt(x)' = StageAt(x) /\ TypeAt(x)' = TypeAt(x)

\* A step leaves alone, in the abstract, a mail that keeps its spot and of whose
\* spot nothing new is said.
LEMMA MailStays ==
    ASSUME IInv, IInv', NEW n \in Mails, records'[n] = records[n],
           \A x \in Spots : In(n, x)' <=> In(n, x),
           \A x \in Spots : In(n, x) => StageAt(x)' = StageAt(x) /\ TypeAt(x)' = TypeAt(x)
    PROVE  StageOf(n)' = StageOf(n) /\ Owed(n)' = Owed(n)
<1>1. CASE \E x \in Spots : In(n, x)
  <2>1. PICK x \in Spots : In(n, x)
    BY <1>1
  <2>2. StageOf(n) = StageAt(x) /\ StageOf(n)' = StageAt(x)'
    BY <2>1, StageOfSpotHolds, NextStageOfSpot DEF StageOfSpot
  <2>3. /\ Owed(n) = IF StageAt(x) = "log" THEN OwedAs(n, TypeAt(x)) ELSE {}
        /\ Owed(n)' = IF StageAt(x)' = "log" THEN OwedAs(n, TypeAt(x))' ELSE {}
    BY <2>1, StageOfSpotHolds, NextStageOfSpot DEF StageOfSpot
  <2>4. OwedAs(n, TypeAt(x))' = OwedAs(n, TypeAt(x))
    BY <2>1 DEF OwedAs
  <2>5. QED BY <2>1, <2>2, <2>3, <2>4
<1>2. CASE \A x \in Spots : ~In(n, x)
  BY <1>2, StageOfSpotHolds, NextStageOfSpot DEF StageOfSpot
<1>3. QED BY <1>1, <1>2

\* A step that moves m and is quiet about the others: what it does to the
\* mapped variables.
LEMMA MovedMaps ==
    ASSUME IInv, NEW m, NEW s, NEW d, Moved(m, s, d), Quiet(m)
    PROVE  /\ \A n \in Mails : n # m => StageOf(n)' = StageOf(n) /\ Owed(n)' = Owed(n)
           /\ StageOf(m) = StageAt(s)
           /\ Owed(m) = IF StageAt(s) = "log" THEN OwedAs(m, TypeAt(s)) ELSE {}
           /\ d \in Spots =>
                /\ StageOf(m)' = StageAt(d)'
                /\ Owed(m)' = IF StageAt(d)' = "log" THEN OwedAs(m, TypeAt(d))' ELSE {}
           /\ d \notin Spots => StageOf(m)' = "lost" /\ Owed(m)' = {}
<1>1. IInv' /\ m \in Mails /\ s \in Spots /\ In(m, s) /\ s # d /\ Moves(m, s, d)
  BY MovedKeepsInv DEF Moved
<1>2. ASSUME NEW n \in Mails, n # m PROVE StageOf(n)' = StageOf(n) /\ Owed(n)' = Owed(n)
  <2>1. \A x \in Spots : In(n, x)' <=> In(n, x)
    BY <1>1, <1>2 DEF Moves, After
  <2>2. QED BY <1>1, <1>2, <2>1, MailStays DEF Quiet
<1>3. \A x \in Spots : In(m, x)' <=> x = d
  BY <1>1 DEF Moves, After, IInv, OneSpot
<1>4. /\ StageOf(m) = StageAt(s)
      /\ Owed(m) = IF StageAt(s) = "log" THEN OwedAs(m, TypeAt(s)) ELSE {}
  BY <1>1, StageOfSpotHolds DEF StageOfSpot
<1>5. d \in Spots => /\ StageOf(m)' = StageAt(d)'
                     /\ Owed(m)' = IF StageAt(d)' = "log" THEN OwedAs(m, TypeAt(d))' ELSE {}
  BY <1>1, <1>3, NextStageOfSpot DEF StageOfSpot
<1>6. d \notin Spots => StageOf(m)' = "lost" /\ Owed(m)' = {}
  BY <1>1, <1>3, NextStageOfSpot DEF StageOfSpot
<1>7. QED BY <1>2, <1>4, <1>5, <1>6

\* A mail that no log thread has was not written yet.
LEMMA NothingWritten ==
    ASSUME IInv, RecordInv, NEW m \in Mails, NEW s \in Spots, In(m, s), s[1] # "log"
    PROVE  records[m] = {}
<1>1. ASSUME NEW w \in LogThreads PROVE lmail[w] # m
  <2>1. <<"log", w>> \in Spots /\ <<"log", w>> # s
    BY DEF Spots
  <2>2. ~In(m, <<"log", w>>)
    BY <2>1, NotElsewhere DEF IInv
  <2>3. QED BY <2>2, InSpots
<1>2. QED BY <1>1 DEF RecordInv

\* The spots of the code are spots, and what they say, one by one.
SpotSays ==
    /\ <<"pool", 0>> \in Spots /\ StageAt(<<"pool", 0>>) = "free" /\ Nowhere \notin Spots
    /\ \A p \in Protos :
         /\ <<"partial", p>> \in Spots /\ StageAt(<<"partial", p>>) = "analysis"
         /\ <<"analysis", p>> \in Spots /\ TypeAt(<<"analysis", p>>) = KILL
         /\ StageAt(<<"analysis", p>>) = IF apc[p] = "monitor_push" THEN "analysis" ELSE "log"
         /\ <<"monitor_queue", p>> \in Spots /\ StageAt(<<"monitor_queue", p>>) = "monitor"
         /\ <<"monitor", p>> \in Spots /\ TypeAt(<<"monitor", p>>) = verdict[p]
         /\ StageAt(<<"monitor", p>>) = IF mpc[p] = "log_push" THEN "log" ELSE "monitor"
    /\ \A q \in Protos \X Types :
         /\ <<"log_queue", q>> \in Spots /\ StageAt(<<"log_queue", q>>) = "log"
         /\ TypeAt(<<"log_queue", q>>) = q[2]
    /\ \A w \in LogThreads :
         /\ <<"log", w>> \in Spots /\ StageAt(<<"log", w>>) = "log"
         /\ TypeAt(<<"log", w>>) = QueueOf(w)[2]
LEMMA SpotSaysHolds == SpotSays
<1>1. /\ <<"pool", 0>> \in Spots /\ StageAt(<<"pool", 0>>) = "free" /\ Nowhere \notin Spots
  BY AllSpots DEF Spots, StageAt, Nowhere
<1>2. ASSUME NEW p \in Protos
      PROVE  /\ <<"partial", p>> \in Spots /\ StageAt(<<"partial", p>>) = "analysis"
             /\ <<"analysis", p>> \in Spots /\ TypeAt(<<"analysis", p>>) = KILL
             /\ StageAt(<<"analysis", p>>) = IF apc[p] = "monitor_push" THEN "analysis" ELSE "log"
             /\ <<"monitor_queue", p>> \in Spots /\ StageAt(<<"monitor_queue", p>>) = "monitor"
             /\ <<"monitor", p>> \in Spots /\ TypeAt(<<"monitor", p>>) = verdict[p]
             /\ StageAt(<<"monitor", p>>) = IF mpc[p] = "log_push" THEN "log" ELSE "monitor"
  BY DEF Spots, StageAt, TypeAt
<1>3. ASSUME NEW q \in Protos \X Types
      PROVE  /\ <<"log_queue", q>> \in Spots /\ StageAt(<<"log_queue", q>>) = "log"
             /\ TypeAt(<<"log_queue", q>>) = q[2]
  BY DEF Spots, StageAt, TypeAt
<1>4. ASSUME NEW w \in LogThreads
      PROVE  /\ <<"log", w>> \in Spots /\ StageAt(<<"log", w>>) = "log"
             /\ TypeAt(<<"log", w>>) = QueueOf(w)[2]
  BY DEF Spots, StageAt, TypeAt
<1>5. QED BY <1>1, <1>2, <1>3, <1>4 DEF SpotSays

LEMMA NextSpotSays == SpotSays'
BY SpotSaysHolds, PTL

\* What a step of one thread says of the spots: new things only of its own.
LEMMA AnalysisQuiet ==
    ASSUME IInv, NEW p \in Protos, \A q \in Protos : q # p => apc'[q] = apc[q],
           UNCHANGED <<mpc, verdict>>,
           NEW x \in Spots, x # <<"analysis", p>>
    PROVE  StageAt(x)' = StageAt(x) /\ TypeAt(x)' = TypeAt(x)
<1>1. CASE \E q \in Protos : x = <<"analysis", q>>
  <2>1. PICK q \in Protos : x = <<"analysis", q>>
    BY <1>1
  <2>2. q # p
    BY <2>1
  <2>3. x[1] = "analysis" /\ x[2] = q
    BY <2>1
  <2>4. QED BY <2>2, <2>3 DEF StageAt, TypeAt
<1>2. CASE x[1] # "analysis"
  BY <1>2 DEF StageAt, TypeAt
<1>3. QED BY <1>1, <1>2, AllSpots

LEMMA MonitorQuiet ==
    ASSUME IInv, NEW p \in Protos,
           \A q \in Protos : q # p => mpc'[q] = mpc[q] /\ verdict'[q] = verdict[q],
           UNCHANGED apc,
           NEW x \in Spots, x # <<"monitor", p>>
    PROVE  StageAt(x)' = StageAt(x) /\ TypeAt(x)' = TypeAt(x)
<1>1. CASE \E q \in Protos : x = <<"monitor", q>>
  <2>1. PICK q \in Protos : x = <<"monitor", q>>
    BY <1>1
  <2>2. q # p
    BY <2>1
  <2>3. x[1] = "monitor" /\ x[2] = q
    BY <2>1
  <2>4. QED BY <2>2, <2>3 DEF StageAt, TypeAt
<1>2. CASE x[1] # "monitor"
  BY <1>2 DEF StageAt, TypeAt
<1>3. QED BY <1>1, <1>2, AllSpots

LEMMA LogQuiet ==
    ASSUME UNCHANGED <<apc, mpc, verdict>>, NEW x \in Spots
    PROVE  StageAt(x)' = StageAt(x) /\ TypeAt(x)' = TypeAt(x)
BY DEF StageAt, TypeAt

LEMMA QuietAnalysis ==
    ASSUME IInv, NEW p \in Protos, NEW m, amail[p] \in {m, None},
           \A q \in Protos : q # p => apc'[q] = apc[q], UNCHANGED <<mpc, verdict, records>>
    PROVE  Quiet(m)
<1> SUFFICES ASSUME NEW n \in Mails, n # m, NEW x \in Spots, In(n, x)
             PROVE  StageAt(x)' = StageAt(x) /\ TypeAt(x)' = TypeAt(x)
  BY DEF Quiet
<1>1. x # <<"analysis", p>>
  <2>1. amail[p] # n
    BY MailsAssumption
  <2>2. ~In(n, <<"analysis", p>>)
    BY <2>1, InSpots
  <2>3. QED BY <2>2
<1>2. QED BY <1>1, AnalysisQuiet

LEMMA QuietMonitor ==
    ASSUME IInv, NEW p \in Protos, NEW m, mmail[p] \in {m, None},
           \A q \in Protos : q # p => mpc'[q] = mpc[q] /\ verdict'[q] = verdict[q],
           UNCHANGED <<apc, records>>
    PROVE  Quiet(m)
<1> SUFFICES ASSUME NEW n \in Mails, n # m, NEW x \in Spots, In(n, x)
             PROVE  StageAt(x)' = StageAt(x) /\ TypeAt(x)' = TypeAt(x)
  BY DEF Quiet
<1>1. x # <<"monitor", p>>
  <2>1. mmail[p] # n
    BY MailsAssumption
  <2>2. ~In(n, <<"monitor", p>>)
    BY <2>1, InSpots
  <2>3. QED BY <2>2
<1>2. QED BY <1>1, MonitorQuiet

LEMMA QuietLog ==
    ASSUME NEW m, UNCHANGED <<apc, mpc, verdict>>,
           \A n \in Mails : n # m => records'[n] = records[n]
    PROVE  Quiet(m)
BY LogQuiet DEF Quiet

\* The records owed of a mail of each type.
OwedSays ==
    \A m \in Mails : \A t :
      /\ t = KILL /\ records[m] = {} => OwedAs(m, t) = {Lifecycle!KILL}
      /\ t = MONITOR /\ records[m] = {} => OwedAs(m, t) = {Lifecycle!MONITOR}
      /\ t = SPAM /\ records[m] = {} => OwedAs(m, t) = {Lifecycle!SPAM}
      /\ t = MONITOR_SPAM /\ records[m] = {} =>
           OwedAs(m, t) = {Lifecycle!MONITOR, Lifecycle!SPAM}
      /\ t = MONITOR_SPAM /\ records[m] = {MONITOR} => OwedAs(m, t) = {Lifecycle!SPAM}
      /\ records[m] = RecordsOf(t) => OwedAs(m, t) = {}

LEMMA NameSays ==
    /\ Name[KILL] = Lifecycle!KILL /\ Name[MONITOR] = Lifecycle!MONITOR
    /\ Name[SPAM] = Lifecycle!SPAM
BY DEF Name, KILL, MONITOR, SPAM, Lifecycle!KILL, Lifecycle!MONITOR, Lifecycle!SPAM

LEMMA OwedSaysHolds == OwedSays
<1> SUFFICES ASSUME NEW m \in Mails, NEW t
             PROVE  /\ t = KILL /\ records[m] = {} => OwedAs(m, t) = {Lifecycle!KILL}
                    /\ t = MONITOR /\ records[m] = {} => OwedAs(m, t) = {Lifecycle!MONITOR}
                    /\ t = SPAM /\ records[m] = {} => OwedAs(m, t) = {Lifecycle!SPAM}
                    /\ t = MONITOR_SPAM /\ records[m] = {} =>
                         OwedAs(m, t) = {Lifecycle!MONITOR, Lifecycle!SPAM}
                    /\ t = MONITOR_SPAM /\ records[m] = {MONITOR} =>
                         OwedAs(m, t) = {Lifecycle!SPAM}
                    /\ records[m] = RecordsOf(t) => OwedAs(m, t) = {}
  BY DEF OwedSays
<1>1. KILL # MONITOR_SPAM /\ MONITOR # MONITOR_SPAM /\ SPAM # MONITOR_SPAM /\ MONITOR # SPAM
  BY DEF KILL, MONITOR, SPAM, MONITOR_SPAM
<1>2. \A r : r \in {KILL, MONITOR, SPAM} /\ t = r /\ records[m] = {} => OwedAs(m, t) = {Name[r]}
  BY <1>1 DEF OwedAs, RecordsOf
<1>3. t = MONITOR_SPAM /\ records[m] = {} => OwedAs(m, t) = {Name[MONITOR], Name[SPAM]}
  BY DEF OwedAs, RecordsOf
<1>4. t = MONITOR_SPAM /\ records[m] = {MONITOR} => OwedAs(m, t) = {Name[SPAM]}
  BY <1>1 DEF OwedAs, RecordsOf
<1>5. records[m] = RecordsOf(t) => OwedAs(m, t) = {}
  BY DEF OwedAs
<1>6. QED BY <1>2, <1>3, <1>4, <1>5, NameSays

LEMMA NextOwedSays == OwedSays'
BY OwedSaysHolds, PTL

\* The threads' steps are steps of the mail's life, or invisible in it.
AbstractStep == Lifecycle!Next \/ UNCHANGED Lifecycle!vars

LEMMA BeginMaps ==
    ASSUME IInv, RecordInv, NEW p \in Protos, Begin(p)
    PROVE  AbstractStep
<1> DEFINE s == <<"pool", 0>>
           d == <<"partial", p>>
<1>1. PICK m \in Mails : Moved(m, s, d)
  BY BeginMoves
<1>2. Quiet(m)
  BY QuietLog DEF Begin, monitorVars, logVars
<1>3. s \in Spots /\ d \in Spots /\ StageAt(s) = "free" /\ StageAt(d)' = "analysis"
  BY SpotSaysHolds, NextSpotSays DEF SpotSays
<1> HIDE DEF s, d
<1>4. Lifecycle!Move(m, "free", "analysis", {})
  BY <1>1, <1>2, <1>3, MovedMaps, MoveStep
<1>5. QED BY <1>4 DEF AbstractStep, Lifecycle!Next, Lifecycle!Analysis, Lifecycle!Alloc

LEMMA KillMaps ==
    ASSUME IInv, RecordInv, NEW p \in Protos, NEW m \in Mails, Kill(p, m)
    PROVE  AbstractStep
<1> DEFINE s == <<"partial", p>>
           d == <<"analysis", p>>
<1>1. Moved(m, s, d)
  BY LeaveMoves DEF Kill
<1>2. Quiet(m)
  BY QuietAnalysis DEF Kill, Leave, monitorVars, logVars, IInv, TypeOK, HandInv
<1>3. apc'[p] = "log_push" /\ records' = records
  BY DEF Kill, Leave, IInv, TypeOK, logVars
<1>4. /\ s \in Spots /\ d \in Spots /\ StageAt(s) = "analysis"
      /\ StageAt(d)' = "log" /\ TypeAt(d)' = KILL
  BY <1>3, SpotSaysHolds, NextSpotSays DEF SpotSays
<1>5. records[m] = {}
  BY <1>1, <1>4, NothingWritten DEF Moved
<1> HIDE DEF s, d
<1>6. OwedAs(m, TypeAt(d))' = {Lifecycle!KILL}
  BY <1>3, <1>4, <1>5, NextOwedSays DEF OwedSays
<1>7. Lifecycle!Move(m, "analysis", "log", {Lifecycle!KILL})
  BY <1>1, <1>2, <1>4, <1>6, MovedMaps, MoveStep
<1>8. QED BY <1>7 DEF AbstractStep, Lifecycle!Next, Lifecycle!Analysis, Lifecycle!Block

LEMMA CompleteMaps ==
    ASSUME IInv, RecordInv, NEW p \in Protos, NEW m \in Mails, Complete(p, m)
    PROVE  AbstractStep
<1> DEFINE s == <<"partial", p>>
           d == <<"analysis", p>>
<1>1. Moved(m, s, d)
  BY LeaveMoves DEF Complete
<1>2. Quiet(m)
  BY QuietAnalysis DEF Complete, Leave, monitorVars, logVars, IInv, TypeOK, HandInv
<1>3. apc'[p] = "monitor_push"
  BY DEF Complete, Leave, IInv, TypeOK
<1>4. s \in Spots /\ d \in Spots /\ StageAt(s) = "analysis" /\ StageAt(d)' = "analysis"
  BY <1>3, SpotSaysHolds, NextSpotSays DEF SpotSays
<1> HIDE DEF s, d
<1>5. StageOf(m)' = StageOf(m) /\ Owed(m)' = Owed(m)
  BY <1>1, <1>2, <1>4, MovedMaps
<1>6. QED BY <1>1, <1>2, <1>5, MovedMaps, SameStep DEF AbstractStep

LEMMA LoseMaps ==
    ASSUME IInv, RecordInv, NEW p \in Protos,
           (\E m \in Mails : GiveUp(p, m)) \/ (MonitorPushFull(p) /\ PushDone(p))
    PROVE  AbstractStep
<1>1. PICK m \in Mails, s \in Spots : Moved(m, s, Nowhere) /\ Quiet(m) /\ StageAt(s) = "analysis"
  <2>1. ASSUME NEW m \in Mails, GiveUp(p, m)
        PROVE  Moved(m, <<"partial", p>>, Nowhere) /\ Quiet(m)
    <3>1. UNCHANGED <<apc, mpc, verdict, records>>
      BY <2>1 DEF GiveUp, Leave, IInv, TypeOK, monitorVars, logVars
    <3>2. QED BY <2>1, <3>1, GiveUpMoves, QuietLog
  <2>2. ASSUME MonitorPushFull(p), PushDone(p)
        PROVE  /\ Moved(amail[p], <<"analysis", p>>, Nowhere) /\ Quiet(amail[p])
               /\ apc[p] = "monitor_push"
    <3>1. /\ \A q \in Protos : q # p => apc'[q] = apc[q]
          /\ UNCHANGED <<mpc, verdict, records>>
      BY <2>2 DEF MonitorPushFull, PushDone, IInv, TypeOK, monitorVars, logVars
    <3>2. QED BY <2>2, <3>1, ForgetMoves, QuietAnalysis DEF MonitorPushFull
  <2>3. QED BY <2>1, <2>2, SpotSaysHolds DEF SpotSays, Moved
<1>2. Nowhere \notin Spots
  BY SpotSaysHolds DEF SpotSays
<1>3. Lifecycle!Move(m, "analysis", "lost", {})
  BY <1>1, <1>2, MovedMaps, MoveStep
<1>4. QED BY <1>3 DEF AbstractStep, Lifecycle!Next, Lifecycle!Analysis, Lifecycle!Lose

LEMMA MonitorPushMaps ==
    ASSUME IInv, RecordInv, NEW p \in Protos, MonitorPush(p)
    PROVE  AbstractStep
<1> DEFINE s == <<"analysis", p>>
           d == <<"monitor_queue", p>>
<1>1. PICK m \in Mails : m = amail[p] /\ Moved(m, s, d)
  BY MonitorPushMoves DEF Moved
<1>2. Quiet(m)
  <2>1. /\ \A q \in Protos : q # p => apc'[q] = apc[q]
        /\ UNCHANGED <<mpc, verdict, records>>
    BY DEF MonitorPush, PushDone, IInv, TypeOK, monitorVars, logVars
  <2>2. QED BY <1>1, <2>1, QuietAnalysis
<1>3. apc[p] = "monitor_push"
  BY DEF MonitorPush
<1>4. s \in Spots /\ d \in Spots /\ StageAt(s) = "analysis" /\ StageAt(d)' = "monitor"
  BY <1>3, SpotSaysHolds, NextSpotSays DEF SpotSays
<1> HIDE DEF s, d
<1>5. Lifecycle!Move(m, "analysis", "monitor", {})
  BY <1>1, <1>2, <1>4, MovedMaps, MoveStep
<1>6. QED BY <1>5 DEF AbstractStep, Lifecycle!Next, Lifecycle!Analysis, Lifecycle!Submit

LEMMA KillPushMaps ==
    ASSUME IInv, RecordInv, NEW p \in Protos, KillPush(p)
    PROVE  AbstractStep
<1> DEFINE s == <<"analysis", p>>
           d == <<"log_queue", <<p, KILL>>>>
<1>1. PICK m \in Mails : m = amail[p] /\ Moved(m, s, d)
  BY KillPushMoves DEF Moved
<1>2. \A q \in Protos : q # p => apc'[q] = apc[q]
  BY DEF KillPush, PushDone, IInv, TypeOK
<1>3. UNCHANGED <<mpc, verdict, records>> /\ apc[p] = "log_push"
  BY DEF KillPush, monitorVars, logVars
<1>4. Quiet(m)
  BY <1>1, <1>2, <1>3, QuietAnalysis
<1>5. /\ s \in Spots /\ d \in Spots /\ StageAt(s) = "log" /\ StageAt(d)' = "log"
      /\ TypeAt(s) = KILL /\ TypeAt(d)' = KILL
  <2>1. <<p, KILL>> \in Protos \X Types
    BY DEF Types
  <2>2. QED BY <1>3, <2>1, SpotSaysHolds, NextSpotSays DEF SpotSays
<1> HIDE DEF s, d
<1>7. OwedAs(m, TypeAt(d))' = OwedAs(m, TypeAt(s))
  BY <1>3, <1>5 DEF OwedAs
<1>8. StageOf(m)' = StageOf(m) /\ Owed(m)' = Owed(m)
  BY <1>1, <1>4, <1>5, <1>7, MovedMaps
<1>9. QED BY <1>1, <1>4, <1>8, MovedMaps, SameStep DEF AbstractStep

LEMMA RetryMaps ==
    ASSUME IInv, RecordInv, NEW p \in Protos, MonitorPushFull(p), ~PushDone(p)
    PROVE  AbstractStep
<1>1. Stays /\ IInv'
  BY RetryStays
<1>2. UNCHANGED <<apc, mpc, verdict, records>>
  BY DEF MonitorPushFull, monitorVars, logVars
<1>3. \A n \in Mails : StageOf(n)' = StageOf(n) /\ Owed(n)' = Owed(n)
  BY <1>1, <1>2, MailStays, LogQuiet DEF Stays
<1>4. QED BY <1>3, SameStep DEF AbstractStep

LEMMA MonitorDeqMaps ==
    ASSUME IInv, RecordInv, NEW p \in Protos, MonitorDeq(p)
    PROVE  AbstractStep
<1> DEFINE s == <<"monitor_queue", p>>
           d == <<"monitor", p>>
<1>1. PICK m \in Mails : m = Head(monitor_queue[p]) /\ Moved(m, s, d)
  BY MonitorDeqMoves DEF Moved
<1>2. /\ \A q \in Protos : q # p => mpc'[q] = mpc[q]
      /\ UNCHANGED <<apc, verdict, records>>
      /\ mpc'[p] = "match" /\ mmail[p] = None
  BY DEF MonitorDeq, IInv, TypeOK, HandInv, analysisVars, logVars
<1>3. Quiet(m)
  BY <1>1, <1>2, QuietMonitor
<1>4. s \in Spots /\ d \in Spots /\ StageAt(s) = "monitor" /\ StageAt(d)' = "monitor"
  BY <1>2, SpotSaysHolds, NextSpotSays DEF SpotSays
<1> HIDE DEF s, d
<1>5. StageOf(m)' = StageOf(m) /\ Owed(m)' = Owed(m)
  BY <1>1, <1>3, <1>4, MovedMaps
<1>6. QED BY <1>1, <1>3, <1>5, MovedMaps, SameStep DEF AbstractStep

\* The verdict: the mail is to be logged under the headings it matched.
LEMMA MonitorMailMaps ==
    ASSUME IInv, RecordInv, NEW p \in Protos, MonitorMail(p)
    PROVE  AbstractStep
<1> DEFINE s == <<"monitor", p>>
<1>0. PICK m \in Mails : m = mmail[p]
  BY DEF MonitorMail, IInv, TypeOK, HandInv
<1>1. Stays /\ IInv'
  BY MonitorMailStays
<1>2. /\ mpc[p] = "match"
      /\ \A q \in Protos : q # p => mpc'[q] = mpc[q] /\ verdict'[q] = verdict[q]
      /\ UNCHANGED <<apc, records>>
  BY DEF MonitorMail, IInv, TypeOK, HandInv, analysisVars, logVars
<1>3. s \in Spots /\ In(m, s) /\ In(m, s)'
  <2>1. s \in Spots /\ In(m, s)
    BY <1>0, SpotSaysHolds, InSpots DEF SpotSays
  <2>2. QED BY <1>1, <1>2, <2>1 DEF Stays
<1>4. Quiet(m)
  BY <1>0, <1>2, QuietMonitor
<1>5. StageAt(s) = "monitor"
  BY <1>2, SpotSaysHolds DEF SpotSays
<1>6. /\ StageAt(s)' = IF mpc'[p] = "log_push" THEN "log" ELSE "monitor"
      /\ TypeAt(s)' = verdict'[p]
  BY NextSpotSays DEF SpotSays
<1>7. records'[m] = {}
  BY <1>2, <1>3, NothingWritten
<1> HIDE DEF s
<1>8. \A n \in Mails : n # m => StageOf(n)' = StageOf(n) /\ Owed(n)' = Owed(n)
  BY <1>1, <1>4, MailStays DEF Stays, Quiet
<1>9. StageOf(m) = "monitor" /\ Owed(m) = {}
  BY <1>2, <1>3, <1>5, StageOfSpotHolds DEF StageOfSpot
<1>10. /\ StageOf(m)' = StageAt(s)'
       /\ Owed(m)' = IF StageAt(s)' = "log" THEN OwedAs(m, TypeAt(s))' ELSE {}
  BY <1>1, <1>2, <1>3, NextStageOfSpot DEF StageOfSpot
<1>11. CASE mpc'[p] = "free"
  BY <1>6, <1>8, <1>9, <1>10, <1>11, SameStep DEF AbstractStep
<1>12. CASE mpc'[p] = "log_push" /\ verdict'[p] \in {MONITOR, SPAM, MONITOR_SPAM}
  <2> DEFINE recs == OwedAs(m, TypeAt(s))'
  <2>1. recs \in {{Lifecycle!MONITOR}, {Lifecycle!SPAM}, {Lifecycle!MONITOR, Lifecycle!SPAM}}
    BY <1>2, <1>6, <1>7, <1>12, NextOwedSays DEF OwedSays
  <2>2. StageOf(m)' = "log" /\ Owed(m)' = recs
    BY <1>6, <1>10, <1>12
  <2> HIDE DEF recs
  <2>3. Lifecycle!Move(m, "monitor", "log", recs)
    BY <1>2, <1>8, <1>9, <2>2, MoveStep
  <2>4. QED
    BY <1>2, <2>1, <2>3 DEF AbstractStep, Lifecycle!Next, Lifecycle!Downstream, Lifecycle!Log
<1>13. QED
  BY <1>2, <1>11, <1>12 DEF MonitorMail, IInv, TypeOK, Types, KILL

LEMMA MonitorLogPushMaps ==
    ASSUME IInv, RecordInv, NEW p \in Protos, MonitorLogPush(p)
    PROVE  AbstractStep
<1> DEFINE s == <<"monitor", p>>
<1>1. PICK m \in Mails, d \in Spots :
        m = mmail[p] /\ d = <<"log_queue", <<p, verdict[p]>>>> /\ Moved(m, s, d)
  <2>1. <<p, verdict[p]>> \in Protos \X Types
    BY DEF IInv, TypeOK
  <2>2. QED BY <2>1, MonitorLogPushMoves, SpotSaysHolds DEF Moved, SpotSays
<1>2. \A q \in Protos : q # p => mpc'[q] = mpc[q] /\ verdict'[q] = verdict[q]
  BY DEF MonitorLogPush, IInv, TypeOK
<1>3. UNCHANGED <<apc, records>> /\ mpc[p] = "log_push"
  BY DEF MonitorLogPush, analysisVars, logVars
<1>4. Quiet(m)
  BY <1>1, <1>2, <1>3, QuietMonitor
<1>5. /\ s \in Spots /\ d \in Spots /\ StageAt(s) = "log" /\ StageAt(d)' = "log"
      /\ TypeAt(d)' = TypeAt(s)
  <2>1. PICK k \in Protos \X Types : k = <<p, verdict[p]>>
    BY DEF IInv, TypeOK
  <2>2. d = <<"log_queue", k>> /\ k[2] = verdict[p]
    BY <1>1, <2>1
  <2>3. s \in Spots /\ StageAt(s) = "log" /\ TypeAt(s) = verdict[p]
    BY <1>3, SpotSaysHolds DEF SpotSays
  <2>4. StageAt(d)' = "log" /\ TypeAt(d)' = k[2]
    BY <2>2, NextSpotSays DEF SpotSays
  <2>5. QED BY <2>2, <2>3, <2>4
<1> HIDE DEF s
<1>7. OwedAs(m, TypeAt(d))' = OwedAs(m, TypeAt(s))
  BY <1>3, <1>5 DEF OwedAs
<1>8. StageOf(m)' = StageOf(m) /\ Owed(m)' = Owed(m)
  BY <1>1, <1>4, <1>5, <1>7, MovedMaps
<1>9. QED BY <1>1, <1>4, <1>8, MovedMaps, SameStep DEF AbstractStep

LEMMA MonitorFreeMaps ==
    ASSUME IInv, RecordInv, NEW p \in Protos, MonitorFree(p)
    PROVE  AbstractStep
<1> DEFINE s == <<"monitor", p>>
           d == <<"pool", 0>>
<1>1. PICK m \in Mails : m = mmail[p] /\ Moved(m, s, d)
  BY MonitorFreeMoves DEF Moved
<1>2. /\ \A q \in Protos : q # p => mpc'[q] = mpc[q] /\ verdict'[q] = verdict[q]
      /\ UNCHANGED <<apc, records>> /\ mpc[p] = "free"
  BY DEF MonitorFree, IInv, TypeOK, analysisVars, logVars
<1>3. Quiet(m)
  BY <1>1, <1>2, QuietMonitor
<1>4. s \in Spots /\ d \in Spots /\ StageAt(s) = "monitor" /\ StageAt(d)' = "free"
  BY <1>2, SpotSaysHolds, NextSpotSays DEF SpotSays
<1> HIDE DEF s, d
<1>6. Lifecycle!Move(m, "monitor", "free", {})
  BY <1>1, <1>3, <1>4, MovedMaps, MoveStep
<1>7. QED BY <1>6 DEF AbstractStep, Lifecycle!Next, Lifecycle!Downstream, Lifecycle!Clear

LEMMA LogDeqMaps ==
    ASSUME IInv, RecordInv, NEW w \in LogThreads, LogDeq(w)
    PROVE  AbstractStep
<1> DEFINE s == <<"log_queue", QueueOf(w)>>
           d == <<"log", w>>
<1>1. PICK m \in Mails : Moved(m, s, d)
  BY LogDeqMoves DEF Moved
<1>2. UNCHANGED <<apc, mpc, verdict, records>>
  BY DEF LogDeq, analysisVars, monitorVars
<1>3. Quiet(m)
  BY <1>2, QuietLog
<1>4. /\ s \in Spots /\ d \in Spots /\ StageAt(s) = "log" /\ StageAt(d)' = "log"
      /\ TypeAt(d)' = TypeAt(s)
  <2>1. QueueOf(w) \in Protos \X Types
    BY ThreadOfQueue
  <2>2. QED BY <2>1, SpotSaysHolds, NextSpotSays DEF SpotSays
<1> HIDE DEF s, d
<1>5. OwedAs(m, TypeAt(d))' = OwedAs(m, TypeAt(s))
  BY <1>2, <1>4 DEF OwedAs
<1>6. StageOf(m)' = StageOf(m) /\ Owed(m)' = Owed(m)
  BY <1>1, <1>3, <1>4, <1>5, MovedMaps
<1>7. QED BY <1>1, <1>3, <1>6, MovedMaps, SameStep DEF AbstractStep

\* A record written takes one heading off what is owed.
LEMMA RecordStepMaps ==
    ASSUME IInv, IInv', Stays, NEW w \in LogThreads, NEW m \in Mails, m = lmail[w], NEW r,
           UNCHANGED <<apc, mpc, verdict>>,
           \A n \in Mails : n # m => records'[n] = records[n],
           r \in OwedAs(m, QueueOf(w)[2]),
           OwedAs(m, QueueOf(w)[2])' = OwedAs(m, QueueOf(w)[2]) \ {r}
    PROVE  AbstractStep
<1> DEFINE s == <<"log", w>>
<1>1. s \in Spots /\ In(m, s) /\ In(m, s)'
  <2>1. s \in Spots /\ In(m, s)
    BY SpotSaysHolds, InSpots DEF SpotSays
  <2>2. QED BY <2>1 DEF Stays
<1>2. /\ StageAt(s) = "log" /\ StageAt(s)' = "log"
      /\ TypeAt(s) = QueueOf(w)[2] /\ TypeAt(s)' = QueueOf(w)[2]
  BY SpotSaysHolds, NextSpotSays DEF SpotSays
<1> HIDE DEF s
<1>3. \A n \in Mails : n # m => StageOf(n)' = StageOf(n) /\ Owed(n)' = Owed(n)
  BY MailStays, LogQuiet DEF Stays
<1>4. StageOf(m) = "log" /\ Owed(m) = OwedAs(m, QueueOf(w)[2])
  BY <1>1, <1>2, StageOfSpotHolds DEF StageOfSpot
<1>5. StageOf(m)' = "log" /\ Owed(m)' = OwedAs(m, QueueOf(w)[2])'
  BY <1>1, <1>2, NextStageOfSpot DEF StageOfSpot, OwedAs
<1>6. r \in Lifecycle!Records
  <2>1. QueueOf(w)[2] \in {KILL, MONITOR, SPAM, MONITOR_SPAM}
    BY ThreadOfQueue DEF Types
  <2>2. PICK x \in {KILL, MONITOR, SPAM} : r = Name[x]
    BY <2>1 DEF OwedAs, RecordsOf
  <2>3. QED BY <2>2, NameSays DEF Lifecycle!Records
<1>7. Lifecycle!Record(m, r)
  BY <1>3, <1>4, <1>5 DEF Lifecycle!Record
<1>8. QED BY <1>6, <1>7 DEF AbstractStep, Lifecycle!Next, Lifecycle!Downstream

LEMMA InsertMaps ==
    ASSUME IInv, RecordInv, NEW w \in LogThreads, LogInsert(w) \/ LogInsertSpam(w)
    PROVE  AbstractStep
<1>1. Stays /\ IInv'
  BY InsertStays
<1>2. PICK m \in Mails : m = lmail[w]
  BY DEF LogInsert, LogInsertSpam, IInv, TypeOK, HandInv
<1>3. PICK x : /\ records' = [records EXCEPT ![m] = @ \cup {x}]
               /\ \/ /\ lpc[w] = "insert" /\ QueueOf(w)[2] = MONITOR_SPAM /\ x = MONITOR
                  \/ /\ lpc[w] = "insert" /\ QueueOf(w)[2] # MONITOR_SPAM
                     /\ x = QueueOf(w)[2]
                  \/ lpc[w] = "insert_spam" /\ x = SPAM
  BY <1>2 DEF LogInsert, LogInsertSpam, Insert
<1>4. /\ UNCHANGED <<apc, mpc, verdict>>
      /\ \A n \in Mails : n # m => records'[n] = records[n]
      /\ records'[m] = records[m] \cup {x}
  <2>1. UNCHANGED <<apc, mpc, verdict>>
    BY DEF LogInsert, LogInsertSpam, analysisVars, monitorVars
  <2>2. DOMAIN records = Mails
    BY DEF IInv, TypeOK
  <2>3. QED BY <1>3, <2>1, <2>2
<1>5. QueueOf(w)[2] \in {KILL, MONITOR, SPAM, MONITOR_SPAM}
  BY ThreadOfQueue DEF Types
<1>6. Lifecycle!MONITOR # Lifecycle!SPAM
  BY DEF Lifecycle!MONITOR, Lifecycle!SPAM
<1>7. CASE lpc[w] = "insert" /\ QueueOf(w)[2] = MONITOR_SPAM
  <2>1. records[m] = {} /\ records'[m] = {MONITOR}
    BY <1>2, <1>3, <1>4, <1>7 DEF RecordInv
  <2>2. /\ OwedAs(m, QueueOf(w)[2]) = {Lifecycle!MONITOR, Lifecycle!SPAM}
        /\ OwedAs(m, QueueOf(w)[2])' = {Lifecycle!SPAM}
    BY <1>7, <2>1, OwedSaysHolds, NextOwedSays DEF OwedSays
  <2>3. QED BY <1>1, <1>2, <1>4, <1>6, <2>2, RecordStepMaps
<1>8. CASE lpc[w] = "insert" /\ QueueOf(w)[2] # MONITOR_SPAM
  <2>1. records[m] = {} /\ records'[m] = {QueueOf(w)[2]}
    BY <1>2, <1>3, <1>4, <1>8 DEF RecordInv
  <2>2. OwedAs(m, QueueOf(w)[2])' = {}
    <3>1. records'[m] = RecordsOf(QueueOf(w)[2])
      BY <1>8, <2>1 DEF RecordsOf
    <3>2. QED BY <3>1, NextOwedSays DEF OwedSays
  <2>3. PICK r : OwedAs(m, QueueOf(w)[2]) = {r}
    BY <1>5, <1>8, <2>1, OwedSaysHolds DEF OwedSays
  <2>4. QED BY <1>1, <1>2, <1>4, <2>2, <2>3, RecordStepMaps
<1>9. CASE lpc[w] = "insert_spam"
  <2>1. /\ QueueOf(w)[2] = MONITOR_SPAM
        /\ records[m] = {MONITOR} /\ records'[m] = {MONITOR, SPAM}
    BY <1>2, <1>3, <1>4, <1>9 DEF RecordInv
  <2>2. OwedAs(m, QueueOf(w)[2]) = {Lifecycle!SPAM}
    BY <2>1, OwedSaysHolds DEF OwedSays
  <2>3. OwedAs(m, QueueOf(w)[2])' = {}
    <3>1. records'[m] = RecordsOf(QueueOf(w)[2])
      BY <2>1 DEF RecordsOf
    <3>2. QED BY <3>1, NextOwedSays DEF OwedSays
  <2>4. QED BY <1>1, <1>2, <1>4, <2>2, <2>3, RecordStepMaps
<1>10. QED BY <1>3, <1>7, <1>8, <1>9

LEMMA LogFreeMaps ==
    ASSUME IInv, RecordInv, NEW w \in LogThreads, LogFree(w)
    PROVE  AbstractStep
<1> DEFINE s == <<"log", w>>
           d == <<"pool", 0>>
<1>1. PICK m \in Mails : m = lmail[w] /\ Moved(m, s, d)
  BY LogFreeMoves DEF Moved
<1>2. /\ UNCHANGED <<apc, mpc, verdict>>
      /\ \A n \in Mails : n # m => records'[n] = records[n]
      /\ lpc[w] = "free"
  BY <1>1 DEF LogFree, IInv, TypeOK, analysisVars, monitorVars
<1>3. Quiet(m)
  BY <1>2, QuietLog
<1>4. /\ s \in Spots /\ d \in Spots /\ StageAt(s) = "log" /\ StageAt(d)' = "free"
      /\ TypeAt(s) = QueueOf(w)[2]
  BY SpotSaysHolds, NextSpotSays DEF SpotSays
<1>5. records[m] = RecordsOf(QueueOf(w)[2])
  BY <1>1, <1>2 DEF RecordInv
<1>6. OwedAs(m, TypeAt(s)) = {}
  BY <1>4, <1>5, OwedSaysHolds DEF OwedSays
<1> HIDE DEF s, d
<1>7. Lifecycle!Move(m, "log", "free", {})
  BY <1>1, <1>3, <1>4, MovedMaps, MoveStep
<1>8. Owed(m) = {}
  BY <1>1, <1>3, <1>4, <1>6, MovedMaps
<1>9. Lifecycle!Release(m)
  BY <1>7, <1>8 DEF Lifecycle!Release
<1>10. QED BY <1>9 DEF AbstractStep, Lifecycle!Next, Lifecycle!Downstream

LEMMA StepMaps ==
    ASSUME IInv, RecordInv, [Next]_vars
    PROVE  AbstractStep
<1>1. ASSUME NEW p \in Protos, Analysis(p) PROVE AbstractStep
  BY <1>1, BeginMaps, KillMaps, CompleteMaps, LoseMaps, MonitorPushMaps, RetryMaps, KillPushMaps
     DEF Analysis
<1>2. ASSUME NEW p \in Protos, Monitor(p) PROVE AbstractStep
  BY <1>2, MonitorDeqMaps, MonitorMailMaps, MonitorLogPushMaps, MonitorFreeMaps DEF Monitor
<1>3. ASSUME NEW w \in LogThreads, Log(w) PROVE AbstractStep
  BY <1>3, LogDeqMaps, InsertMaps, LogFreeMaps DEF Log
<1>4. CASE UNCHANGED vars
  <2>1. Stays /\ IInv'
    BY <1>4, StutterStays
  <2>2. UNCHANGED <<apc, mpc, verdict, records>>
    BY <1>4 DEF vars, analysisVars, monitorVars, logVars
  <2>3. \A n \in Mails : StageOf(n)' = StageOf(n) /\ Owed(n)' = Owed(n)
    BY <2>1, <2>2, MailStays, LogQuiet DEF Stays
  <2>4. QED BY <2>3, SameStep DEF AbstractStep
<1>5. QED BY <1>1, <1>2, <1>3, <1>4 DEF Next, AllLost

LEMMA InitMaps == Init => Lifecycle!Init
<1> SUFFICES ASSUME Init PROVE Lifecycle!Init
  OBVIOUS
<1>1. IInv
  BY IInvInit
<1>2. ASSUME NEW m \in Mails PROVE StageOf(m) = "free" /\ Owed(m) = {}
  <2>1. <<"pool", 0>> \in Spots /\ In(m, <<"pool", 0>>)
    BY InSpots, SpotSaysHolds DEF Init, SpotSays
  <2>2. QED BY <1>1, <2>1, StageOfSpotHolds, SpotSaysHolds DEF StageOfSpot, SpotSays
<1>3. QED BY <1>2 DEF Lifecycle!Init

\* The threads keep the promise of MailLifecycle, for any number of mails and any
\* length of the queues.
THEOREM Refinement == Spec => ImplementsLifecycle
<1>1. Spec => []RecordInv
  BY RecordInit, RecordStep, Invariance, PTL DEF Spec
<1>2. IInv /\ RecordInv /\ [Next]_vars => [Lifecycle!Next]_Lifecycle!vars
  BY StepMaps DEF AbstractStep
<1>3. QED
  BY <1>1, <1>2, InitMaps, Invariance, PTL DEF Spec, ImplementsLifecycle, Lifecycle!Spec
=============================================================================
