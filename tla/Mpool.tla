------------------------------- MODULE Mpool -------------------------------
(***************************************************************************)
(* The memory pool of utils/mem.c: nodes are carved out of blocks of Step  *)
(* nodes and kept on a free stack that threads pop (Mpool_alloc) and push  *)
(* (Mpool_free) without a lock, by compare and swap.  The model takes one  *)
(* step per access to the shared pointers.                                 *)
(*                                                                         *)
(* A node is a number, block b holding (b-1)*Step+1 .. b*Step, and Null is *)
(* the null pointer.  Poppers and Pushers are the threads that allocate    *)
(* and free: capture and one analysis thread for pkgpool, both analysis    *)
(* threads on one side and the monitor and log threads on the other for    *)
(* mailpool.  A node handed out by one thread may be freed by any other.   *)
(* Not modelled: malloc failing inside Mpool_alloc.                        *)
(***************************************************************************)
EXTENDS Integers

CONSTANTS Poppers, Pushers,
          Step,          \* nodes per block
          MaxBlocks      \* bound: blocks the pool may grow to

Threads == Poppers \cup Pushers
Null == 0
Nodes == 1..(Step * MaxBlocks)
Ptrs == Nodes \cup {Null}

ASSUME StepAssumption == Step \in Nat \ {0} /\ MaxBlocks \in Nat \ {0}
ASSUME ThreadsAssumption == Poppers \cap Pushers = {}

VARIABLES
    free,      \* pool->free, the top of the free stack
    link,      \* [Nodes -> Ptrs], the next field of each node
    count,     \* pool->count, the number of blocks
    pc, tmp, nxt,     \* each thread's place, its tmp, and the tmp->next it read
    held       \* [Nodes -> Nat], how many callers hold each node

vars == <<free, link, count, pc, tmp, nxt, held>>

AllocPc == {"idle", "grow", "publish", "load", "next", "cas"}
FreePc == {"idle", "push", "pushcas"}

TypeOK ==
    /\ free \in Ptrs
    /\ link \in [Nodes -> Ptrs]
    /\ count \in 1..MaxBlocks
    /\ pc \in [Threads -> AllocPc \cup FreePc]
    /\ tmp \in [Threads -> Ptrs] /\ nxt \in [Threads -> Ptrs]
    /\ held \in [Nodes -> Nat]

First(b) == (b - 1) * Step + 1

\* The nodes of block b linked one after the other, the last one to nothing.
Chained(f, b) ==
    [n \in Nodes |-> IF n \in First(b)..(b * Step)
                       THEN IF n = b * Step THEN Null ELSE n + 1
                       ELSE f[n]]

\* Mpool_new.
Init ==
    /\ link = Chained([n \in Nodes |-> Null], 1)
    /\ free = First(1)
    /\ count = 1
    /\ pc = [t \in Threads |-> "idle"]
    /\ tmp = [t \in Threads |-> Null] /\ nxt = [t \in Threads |-> Null]
    /\ held = [n \in Nodes |-> 0]

Goto(t, from, to) == pc[t] = from /\ pc' = [pc EXCEPT ![t] = to]

------------------------------------------------------------------------------
(* Mpool_alloc *)

\* Faulty: the test for an empty pool is forgotten.
AllocUntested(t) ==
    /\ Goto(t, "idle", "load")
    /\ UNCHANGED <<free, link, count, tmp, nxt, held>>

\* if (!pool->free): grow first.
AllocTest(t) ==
    /\ \/ free = Null /\ count < MaxBlocks /\ Goto(t, "idle", "grow")
       \/ free # Null /\ Goto(t, "idle", "load")
    /\ UNCHANGED <<free, link, count, tmp, nxt, held>>

\* A new block: counted, put on the block list, its nodes chained up.
Grow(t) ==
    /\ count < MaxBlocks
    /\ Goto(t, "grow", "publish")
    /\ count' = count + 1
    /\ link' = Chained(link, count + 1)
    /\ tmp' = [tmp EXCEPT ![t] = First(count + 1)]
    /\ UNCHANGED <<free, nxt, held>>

\* pool->free = head, a plain store.
Publish(t) ==
    /\ Goto(t, "publish", "load")
    /\ free' = tmp[t]
    /\ UNCHANGED <<link, count, tmp, nxt, held>>

\* tmp = pool->free; an empty stack is read again.
Load(t) ==
    /\ Goto(t, "load", IF free = Null THEN "load" ELSE "next")
    /\ tmp' = [tmp EXCEPT ![t] = free]
    /\ UNCHANGED <<free, link, count, nxt, held>>

\* The argument tmp->next of the CAS is read before the CAS itself.
LoadNext(t) ==
    /\ Goto(t, "next", "cas")
    /\ nxt' = [nxt EXCEPT ![t] = link[tmp[t]]]
    /\ UNCHANGED <<free, link, count, tmp, held>>

\* Faulty: a plain store in place of the compare and swap.
PopStore(t) ==
    /\ Goto(t, "cas", "idle")
    /\ free' = nxt[t]
    /\ held' = [held EXCEPT ![tmp[t]] = @ + 1]
    /\ UNCHANGED <<link, count, tmp, nxt>>

Pop(t) ==
    /\ \/ /\ Goto(t, "cas", "idle")
          /\ free = tmp[t]
          /\ free' = nxt[t]
          /\ held' = [held EXCEPT ![tmp[t]] = @ + 1]
       \/ /\ Goto(t, "cas", "load")
          /\ free # tmp[t]
          /\ UNCHANGED <<free, held>>
    /\ UNCHANGED <<link, count, tmp, nxt>>

------------------------------------------------------------------------------
(* Mpool_free *)

\* Somebody who holds n gives it back: the call.
Free(t, n) ==
    /\ held[n] > 0
    /\ Goto(t, "idle", "push")
    /\ tmp' = [tmp EXCEPT ![t] = n]
    /\ held' = [held EXCEPT ![n] = @ - 1]
    /\ UNCHANGED <<free, link, count, nxt>>

\* tmp->next = pool->free.
PushLink(t) ==
    /\ Goto(t, "push", "pushcas")
    /\ link' = [link EXCEPT ![tmp[t]] = free]
    /\ UNCHANGED <<free, count, tmp, nxt, held>>

\* Faulty: a plain store in place of the compare and swap.
PushStore(t) ==
    /\ Goto(t, "pushcas", "idle")
    /\ free' = tmp[t]
    /\ UNCHANGED <<link, count, tmp, nxt, held>>

Push(t) ==
    /\ \/ Goto(t, "pushcas", "idle") /\ free = link[tmp[t]] /\ free' = tmp[t]
       \/ Goto(t, "pushcas", "push") /\ free # link[tmp[t]] /\ UNCHANGED free
    /\ UNCHANGED <<link, count, tmp, nxt, held>>

Popper(t) == \/ AllocTest(t) \/ Grow(t) \/ Publish(t)
             \/ Load(t) \/ LoadNext(t) \/ Pop(t)
Pusher(t) == (\E n \in Nodes : Free(t, n)) \/ PushLink(t) \/ Push(t)
Next == (\E t \in Poppers : Popper(t)) \/ (\E t \in Pushers : Pusher(t))

Spec == Init /\ [][Next]_vars
\* A thread that is inside Mpool_alloc or Mpool_free keeps being scheduled.
FairSpec ==
    /\ Spec
    /\ \A t \in Poppers : WF_vars(pc[t] # "idle" /\ Popper(t))
    /\ \A t \in Pushers : WF_vars(PushLink(t) \/ Push(t))

------------------------------------------------------------------------------
(* What is on the stack: everything reachable from free. *)
Within[k \in 0..(Step * MaxBlocks)] ==
    IF k = 0 THEN {free} \ {Null}
    ELSE Within[k - 1] \cup ({link[n] : n \in Within[k - 1]} \ {Null})
Stack == Within[Step * MaxBlocks]

\* Nodes a caller holds, and nodes on their way back.
Held == {n \in Nodes : held[n] > 0}
Returning == {tmp[t] : t \in {u \in Pushers : pc[u] # "idle"}}
\* The nodes of a new block that is not yet published.
Fresh == UNION {First(count)..(count * Step) : t \in {u \in Poppers : pc[u] = "publish"}}
Leaked == (1..(count * Step)) \ (Stack \cup Held \cup Returning \cup Fresh)

\* A node has one owner: nobody else holds it, it is not on the stack, and no
\* other thread is returning it.  A node handed out twice would be two mails
\* written over each other.
OneOwner ==
    /\ \A n \in Held : held[n] = 1
    /\ Held \cap Stack = {} /\ Returning \cap (Stack \cup Held) = {}
    /\ \A t, u \in Pushers :
         t # u /\ pc[t] # "idle" /\ pc[u] # "idle" => tmp[t] # tmp[u]

\* Nodes get lost only in the step the FIXME in Mpool_alloc names: publishing a
\* new block over a stack that was refilled since it was found empty.
LeakOnlyAtPublish ==
    [][Leaked' # Leaked => free # Null /\ \E t \in Poppers : Publish(t)]_vars

\* Lock freedom: as long as threads are inside Mpool_alloc or Mpool_free, calls
\* complete.  One call can be overtaken for ever, all of them cannot.
LockFree ==
    \/ <>[](\A t \in Threads : pc[t] = "idle")
    \/ []<><<\E t \in Threads : pc[t] # "idle" /\ pc'[t] = "idle">>_vars
==============================================================================
