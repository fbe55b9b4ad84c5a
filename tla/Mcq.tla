-------------------------------- MODULE Mcq --------------------------------
(***************************************************************************)
(* The circular queue of utils/mcq.c: a ring of QLen slots of Size words   *)
(* each, a head and a tail index, and no lock.  Mcq is written for one     *)
(* thread that enqueues and one that dequeues at the same time: every      *)
(* operation tests the indices, copies the slot word by word (memcpy), and *)
(* publishes its own index last.  The model interleaves the producer and   *)
(* the consumer at each of these accesses.                                 *)
(*                                                                         *)
(* The fences of the code (lfence, sfence, __sync_synchronize) stand       *)
(* between the copy and the publication and are what entitles the model to *)
(* take the accesses in program order.                                     *)
(***************************************************************************)
EXTENDS Integers, Sequences

CONSTANTS QLen,     \* queue->len, the number of slots
          Size,     \* queue->size, in words
          Data,     \* what a word of an enqueued item can hold
          Junk      \* the content of memory never written

ASSUME QLenAssumption == QLen \in Nat \ {0}
\* Mcq_new rounds every length up to a power of two, which is what makes the
\* mask of MOD (utils/byte.h) a remainder.
ASSUME PowerOfTwo == \E k \in 0..QLen : QLen = 2^k
ASSUME SizeAssumption == Size \in Nat \ {0}
ASSUME JunkAssumption == Junk \notin Data

Slots == 0..(QLen - 1)
Words == 1..Size
\* An item as the caller of Mcq_enq passes it, and a memory area of its size.
Item(d) == [w \in Words |-> d]
Items == {Item(d) : d \in Data}
Areas == [Words -> Data \cup {Junk}]
Blank == [w \in Words |-> Junk]

MOD(x, y) == x % y

VARIABLES
    buf,              \* [Slots -> Areas], the ring
    head, tail,       \* shared indices: last slot consumed, last slot filled
    ppc, pl, pd, pk,  \* producer: where it is, its l, its item, words copied
    cpc, cl, cd, ck,  \* consumer: where it is, its l, its area, words copied
    enqRet, deqRet,   \* the last answer of each operation
    out               \* the area the last successful Mcq_deq filled

prod == <<ppc, pl, pd, pk>>
cons == <<cpc, cl, cd, ck>>
mcqVars == <<buf, head, tail, prod, cons, enqRet, deqRet, out>>

McqTypeOK ==
    /\ buf \in [Slots -> Areas]
    /\ head \in Slots /\ tail \in Slots
    /\ ppc \in {"idle", "copy"} /\ pl \in Slots /\ pd \in Areas /\ pk \in 0..Size
    /\ cpc \in {"idle", "copy"} /\ cl \in Slots /\ cd \in Areas /\ ck \in 0..Size
    /\ enqRet \in {0, -1} /\ deqRet \in {0, -1}
    /\ out \in Areas

\* Mcq_new: NEW0 clears the indices, the ring itself is uninitialised.
McqInit ==
    /\ buf = [s \in Slots |-> Blank]
    /\ head = 0 /\ tail = 0
    /\ ppc = "idle" /\ pl = 0 /\ pd = Blank /\ pk = 0
    /\ cpc = "idle" /\ cl = 0 /\ cd = Blank /\ ck = 0
    /\ enqRet = 0 /\ deqRet = 0
    /\ out = Blank

------------------------------------------------------------------------------
(* Mcq_enq *)

EnqFull ==
    /\ ppc = "idle"
    /\ MOD(tail + 1, QLen) = head
    /\ enqRet' = -1
    /\ UNCHANGED <<buf, head, tail, prod, cons, deqRet, out>>

\* Faulty, here and below variants that the properties must not admit: the test
\* for a full ring is forgotten.
EnqStartUntested(d) ==
    /\ ppc = "idle"
    /\ ppc' = "copy" /\ pl' = MOD(tail + 1, QLen) /\ pd' = Item(d) /\ pk' = 0
    /\ UNCHANGED <<buf, head, tail, cons, enqRet, deqRet, out>>

EnqStart(d) ==
    /\ ppc = "idle"
    /\ MOD(tail + 1, QLen) # head
    /\ ppc' = "copy" /\ pl' = MOD(tail + 1, QLen) /\ pd' = Item(d) /\ pk' = 0
    /\ UNCHANGED <<buf, head, tail, cons, enqRet, deqRet, out>>

EnqCopy ==
    /\ ppc = "copy" /\ pk < Size
    /\ buf' = [buf EXCEPT ![pl] = [@ EXCEPT ![pk + 1] = pd[pk + 1]]]
    /\ pk' = pk + 1
    /\ UNCHANGED <<head, tail, ppc, pl, pd, cons, enqRet, deqRet, out>>

\* Faulty: the index is published before the copy is complete.
EnqPublishEarly ==
    /\ ppc = "copy" /\ pk + 1 >= Size
    /\ tail' = pl
    /\ ppc' = "idle"
    /\ enqRet' = 0
    /\ UNCHANGED <<buf, head, pl, pd, pk, cons, deqRet, out>>

EnqPublish ==
    /\ ppc = "copy" /\ pk = Size
    /\ tail' = pl
    /\ ppc' = "idle"
    /\ enqRet' = 0
    /\ UNCHANGED <<buf, head, pl, pd, pk, cons, deqRet, out>>

------------------------------------------------------------------------------
(* Mcq_deq *)

DeqEmpty ==
    /\ cpc = "idle"
    /\ head = tail
    /\ deqRet' = -1
    /\ UNCHANGED <<buf, head, tail, prod, cons, enqRet, out>>

\* Faulty: reads the slot at head, which was consumed already.
DeqStartAtHead ==
    /\ cpc = "idle"
    /\ head # tail
    /\ cpc' = "copy" /\ cl' = head /\ ck' = 0
    /\ UNCHANGED <<buf, head, tail, prod, cd, enqRet, deqRet, out>>

DeqStart ==
    /\ cpc = "idle"
    /\ head # tail
    /\ cpc' = "copy" /\ cl' = MOD(head + 1, QLen) /\ ck' = 0
    /\ UNCHANGED <<buf, head, tail, prod, cd, enqRet, deqRet, out>>

DeqCopy ==
    /\ cpc = "copy" /\ ck < Size
    /\ cd' = [cd EXCEPT ![ck + 1] = buf[cl][ck + 1]]
    /\ ck' = ck + 1
    /\ UNCHANGED <<buf, head, tail, prod, cpc, cl, enqRet, deqRet, out>>

DeqRelease ==
    /\ cpc = "copy" /\ ck = Size
    /\ head' = cl
    /\ cpc' = "idle"
    /\ out' = cd
    /\ deqRet' = 0
    /\ UNCHANGED <<buf, tail, prod, cl, cd, ck, enqRet>>

Producer == EnqFull \/ (\E d \in Data : EnqStart(d)) \/ EnqCopy \/ EnqPublish
Consumer == DeqEmpty \/ DeqStart \/ DeqCopy \/ DeqRelease
McqNext == Producer \/ Consumer

McqSpec == McqInit /\ [][McqNext]_mcqVars

------------------------------------------------------------------------------
(* The slots a consumer may read: those after head up to and including tail. *)
Count == MOD(tail - head + QLen, QLen)
SlotAt(i) == MOD(head + i, QLen)     \* the i-th oldest item's slot
RingContent == [i \in 1..Count |-> buf[SlotAt(i)]]

\* While the producer fills a slot and the consumer empties one, they are at
\* different slots: the two memcpy of mcq.c never touch the same memory.
CopiesDisjoint == ppc = "copy" /\ cpc = "copy" => pl # cl

\* Every slot between head and tail holds one whole item: the index is moved
\* only after the data is in place, so neither an unwritten nor a half-written
\* slot is ever visible, whatever the interleaving.
PublishedWhole == \A i \in 1..Count : buf[SlotAt(i)] \in Items

\* The ring implements the bounded FIFO of BoundedFifo with one slot less than
\* it has (note 2 in the header of mcq.c): an Mcq_enq that answers -1 found the
\* queue full, an Mcq_deq that answers 0 delivered the oldest item, whole.
Fifo == INSTANCE BoundedFifo
          WITH Items <- Items, Capacity <- QLen - 1, queue <- RingContent
ImplementsFifo == Fifo!Spec
==============================================================================
