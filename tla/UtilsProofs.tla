---------------------------- MODULE UtilsProofs ----------------------------
(***************************************************************************)
(* Proofs about the structures of utils/ that threads share:               *)
(*   - the memory pool, for any number of threads that free, any block     *)
(*     size and any number of blocks, as long as one thread allocates      *)
(*     (MpoolShared shows that two are too many);                          *)
(*   - the pool of threads, for any number of workers and of connections;  *)
(*   - the ring buffer, for every length, item size and data set.          *)
(***************************************************************************)
EXTENDS Mpool, Tpool, Mcq, FiniteSetTheorems, SequenceTheorems, WellFoundedInduction, TLAPS


NodeCount == Step * MaxBlocks

-----------------------------------------------------------------------------
(* The stack.  Within is a recursive function; that it exists, and what it   *)
(* computes, is shown by looking at the least number for which it would not. *)

LEMMA LeastNat ==
    ASSUME NEW T \in SUBSET Nat, T # {}
    PROVE  \E n \in T : \A m \in T : n <= m
<1>1. \E x \in T : \A y \in T : ~ (<<y, x>> \in OpToRel(<, Nat))
  BY WFMin, NatLessThanWellFounded
<1>2. PICK x \in T : \A y \in T : ~ (<<y, x>> \in OpToRel(<, Nat))
  BY <1>1
<1>3. ASSUME NEW y \in T PROVE x <= y
  <2>1. ASSUME y < x PROVE <<y, x>> \in OpToRel(<, Nat)
    <3>1. <<y, x>> \in Nat \X Nat /\ <<y, x>>[1] = y /\ <<y, x>>[2] = x
      OBVIOUS
    <3>2. QED BY <2>1, <3>1 DEF OpToRel
  <2>2. ~(y < x)
    BY <1>2, <2>1
  <2>3. x \in Nat /\ y \in Nat
    OBVIOUS
  <2>4. QED BY <2>2, <2>3
<1>4. QED BY <1>3

LEMMA UpTo ==
    ASSUME NEW n \in Nat, NEW T, 0 \in T,
           \A k \in 0..(n - 1) : k \in T => k + 1 \in T
    PROVE  \A k \in 0..n : k \in T
<1> DEFINE Bad == {k \in 0..n : k \notin T}
<1> SUFFICES ASSUME Bad # {} PROVE FALSE
  OBVIOUS
<1>1. PICK k \in Bad : \A j \in Bad : k <= j
  <2>1. Bad \in SUBSET Nat
    OBVIOUS
  <2>2. QED BY <2>1, LeastNat
<1>2. k \in 0..n /\ k # 0 /\ k \notin T
  BY <1>1
<1>3. k - 1 \in 0..(n - 1) /\ ~(k <= k - 1)
  BY <1>2
<1>4. k - 1 \in T
  BY <1>1, <1>3
<1>5. QED BY <1>2, <1>3, <1>4

LEMMA NodeCountNat == NodeCount \in Nat \ {0} /\ Nodes = 1..NodeCount
BY StepAssumption, Z3 DEF NodeCount, Nodes

LEMMA WithinDef ==
    \A k \in 0..NodeCount :
       Within[k] = IF k = 0 THEN {free} \ {Null}
                   ELSE Within[k - 1] \cup ({link[n] : n \in Within[k - 1]} \ {Null})
<1> DEFINE Prefix(m, g) ==
      g = [k \in 0..m |-> IF k = 0 THEN {free} \ {Null}
                          ELSE g[k - 1] \cup ({link[n] : n \in g[k - 1]} \ {Null})]
           Bad == {m \in Nat : ~\E g : Prefix(m, g)}
<1>1. Bad = {}
  <2> SUFFICES ASSUME Bad # {} PROVE FALSE
    OBVIOUS
  <2>1. PICK m \in Bad : \A j \in Bad : m <= j
    BY LeastNat
  <2>2. CASE m = 0
    <3> DEFINE g == [k \in 0..0 |-> {free} \ {Null}]
    <3>1. Prefix(0, g)
      OBVIOUS
    <3>2. QED BY <2>1, <2>2, <3>1
  <2>3. CASE m # 0
    <3>1. m - 1 \in Nat /\ m - 1 \notin Bad
      <4> HIDE DEF Prefix
      <4>1. m \in Nat /\ m - 1 \in Nat /\ ~(m <= m - 1)
        BY <2>1, <2>3
      <4>2. QED BY <2>1, <4>1
    <3>2. PICK g : Prefix(m - 1, g)
      BY <3>1
    <3> DEFINE top == g[m - 1] \cup ({link[n] : n \in g[m - 1]} \ {Null})
               h == [k \in 0..m |-> IF k = m THEN top ELSE g[k]]
    <3> HIDE DEF top
    <3>3. \A k \in 0..(m - 1) :
             g[k] = IF k = 0 THEN {free} \ {Null}
                    ELSE g[k - 1] \cup ({link[n] : n \in g[k - 1]} \ {Null})
      BY <3>2
    <3>4. \A k \in 0..m : k # 0 => h[k - 1] = g[k - 1]
      BY <2>1, <2>3
    <3>5. \A k \in 0..m :
             h[k] = IF k = 0 THEN {free} \ {Null}
                    ELSE h[k - 1] \cup ({link[n] : n \in h[k - 1]} \ {Null})
      <4> TAKE k \in 0..m
      <4>1. CASE k = m
        BY <2>3, <3>4, <4>1 DEF top
      <4>2. CASE k # m
        <5>1. k \in 0..(m - 1) /\ h[k] = g[k]
          BY <2>1, <4>2
        <5> HIDE DEF h
        <5>2. CASE k = 0
          BY <3>3, <5>1, <5>2
        <5>3. CASE k # 0
          <6>1. h[k - 1] = g[k - 1]
            BY <3>4, <5>3
          <6>2. g[k] = g[k - 1] \cup ({link[n] : n \in g[k - 1]} \ {Null})
            BY <3>3, <5>1, <5>3
          <6>3. QED BY <5>1, <5>3, <6>1, <6>2
        <5>4. QED BY <5>2, <5>3
      <4>3. QED BY <4>1, <4>2
    <3> HIDE DEF h
    <3>6. h = [k \in 0..m |-> h[k]]
      BY DEF h
    <3>7. Prefix(m, h)
      BY <3>5, <3>6
    <3>8. QED BY <2>1, <3>7
  <2>4. QED BY <2>2, <2>3
<1>2. \E g : Prefix(NodeCount, g)
  BY <1>1, NodeCountNat
<1>3. Prefix(NodeCount, Within)
  BY <1>2 DEF Within, NodeCount
<1>4. QED BY <1>3

\* S holds every node that a node of S is linked to.
Closed(S) == \A n \in S : link[n] # Null => link[n] \in S

\* Stack is the least set that holds the top and is closed.
StackClosed == /\ Stack \subseteq Nodes
               /\ free # Null => free \in Stack
               /\ Closed(Stack)
StackLeast == \A S : (free # Null => free \in S) /\ Closed(S) => Stack \subseteq S

LEMMA WithinZero == 0 \in 0..NodeCount /\ Within[0] = {free} \ {Null}
<1>1. 0 \in 0..NodeCount
  BY NodeCountNat
<1>2. Within[0] = IF 0 = 0 THEN {free} \ {Null}
                  ELSE Within[0 - 1] \cup ({link[n] : n \in Within[0 - 1]} \ {Null})
  BY <1>1, WithinDef, Zenon
<1>3. QED BY <1>1, <1>2

LEMMA WithinNext ==
    ASSUME NEW k \in 0..(NodeCount - 1)
    PROVE  /\ Within[k + 1] = Within[k] \cup ({link[n] : n \in Within[k]} \ {Null})
           /\ Closed(Within[k]) => Within[k + 1] = Within[k]
<1>1. k + 1 \in 0..NodeCount /\ k + 1 # 0 /\ (k + 1) - 1 = k
  BY NodeCountNat
<1>2. Within[k + 1] = Within[k] \cup ({link[n] : n \in Within[k]} \ {Null})
  BY <1>1, WithinDef
<1>3. QED BY <1>2 DEF Closed

\* Either the set is closed after k steps or each of them found another node,
\* and there are no more than NodeCount.
LEMMA StackIsClosed == TypeOK => StackClosed
<1> SUFFICES ASSUME TypeOK PROVE StackClosed
  OBVIOUS
<1> DEFINE T == {k \in 0..NodeCount :
                    /\ Within[k] \subseteq Nodes
                    /\ free # Null => free \in Within[k]
                    /\ Closed(Within[k]) \/ Cardinality(Within[k]) >= k + 1}
<1>1. IsFiniteSet(Nodes) /\ Cardinality(Nodes) = NodeCount
  <2>1. IsFiniteSet(1..NodeCount) /\ Cardinality(1..NodeCount) = NodeCount
    BY FS_Interval, NodeCountNat
  <2>2. QED BY <2>1, NodeCountNat
<1>2. free \in Nodes \cup {Null} /\ link \in [Nodes -> Nodes \cup {Null}]
  BY DEF TypeOK, Ptrs
<1>3. 0 \in T
  <2>1. 0 \in 0..NodeCount /\ Within[0] = {free} \ {Null}
    BY WithinZero
  <2>2. CASE free = Null
    BY <2>1, <2>2 DEF Closed
  <2>3. CASE free # Null
    <3>1. Within[0] = {free}
      BY <2>1, <2>3
    <3>2. Cardinality(Within[0]) = 1
      BY <3>1, FS_Singleton
    <3>3. QED BY <1>2, <2>1, <2>3, <3>1, <3>2
  <2>4. QED BY <2>2, <2>3
<1>4. ASSUME NEW k \in 0..(NodeCount - 1), k \in T PROVE k + 1 \in T
  <2>1. k + 1 \in 0..NodeCount
    BY NodeCountNat
  <2>2. Within[k + 1] = Within[k] \cup ({link[n] : n \in Within[k]} \ {Null})
    BY WithinNext
  <2>3. Within[k + 1] \subseteq Nodes /\ (free # Null => free \in Within[k + 1])
    BY <1>2, <1>4, <2>2
  <2>4. CASE Closed(Within[k])
    BY <1>4, <2>1, <2>3, <2>4, WithinNext
  <2>5. CASE ~Closed(Within[k])
    <3>1. PICK n \in Within[k] : link[n] # Null /\ link[n] \notin Within[k]
      BY <2>5 DEF Closed
    <3>2. IsFiniteSet(Within[k]) /\ IsFiniteSet(Within[k + 1])
      BY <1>1, <1>4, <2>3, FS_Subset
    <3> DEFINE V == Within[k] \cup {link[n]}
    <3>3. V \subseteq Within[k + 1]
      BY <2>2, <3>1
    <3>4. IsFiniteSet(V) /\ Cardinality(V) = Cardinality(Within[k]) + 1
      BY <3>1, <3>2, FS_AddElement
    <3>5. Cardinality(V) <= Cardinality(Within[k + 1])
      BY <3>2, <3>3, FS_Subset
    <3>6. Cardinality(Within[k]) \in Nat /\ Cardinality(Within[k + 1]) \in Nat
      BY <3>2, FS_CardinalityType
    <3>7. Cardinality(Within[k]) >= k + 1
      BY <1>4, <2>5
    <3> HIDE DEF V
    <3>8. Cardinality(Within[k + 1]) >= (k + 1) + 1
      BY <3>4, <3>5, <3>6, <3>7
    <3>9. QED BY <2>1, <2>3, <3>8
  <2>6. QED BY <2>4, <2>5
<1>5. NodeCount \in T
  <2> HIDE DEF T
  <2>1. \A k \in 0..NodeCount : k \in T
    BY <1>3, <1>4, UpTo, NodeCountNat
  <2>2. QED BY <2>1, NodeCountNat
<1>6. Stack = Within[NodeCount]
  BY DEF Stack, NodeCount
<1>7. Closed(Stack)
  <2>1. Cardinality(Stack) <= NodeCount /\ Cardinality(Stack) \in Nat
    BY <1>1, <1>5, <1>6, FS_Subset, FS_CardinalityType
  <2>2. QED BY <1>5, <1>6, <2>1, NodeCountNat
<1>8. QED BY <1>5, <1>6, <1>7 DEF StackClosed

LEMMA StackIsLeast == StackLeast
<1> SUFFICES ASSUME NEW S, free # Null => free \in S, Closed(S)
             PROVE  Stack \subseteq S
  BY DEF StackLeast
<1> DEFINE T == {k \in 0..NodeCount : Within[k] \subseteq S}
<1>1. 0 \in T
  BY WithinZero
<1>2. ASSUME NEW k \in 0..(NodeCount - 1), k \in T PROVE k + 1 \in T
  <2>1. k + 1 \in 0..NodeCount
    BY NodeCountNat
  <2>2. Within[k + 1] \subseteq S
    BY <1>2, WithinNext DEF Closed
  <2>3. QED BY <2>1, <2>2
<1>3. NodeCount \in T
  <2> HIDE DEF T
  <2>1. \A k \in 0..NodeCount : k \in T
    BY <1>1, <1>2, UpTo, NodeCountNat
  <2>2. QED BY <2>1, NodeCountNat
<1>4. QED BY <1>3 DEF Stack, NodeCount

-----------------------------------------------------------------------------
(* The invariant.  Every node of a block is held, being returned, fresh, or  *)
(* at rest; the nodes at rest are those on the stack and the leaked ones.    *)

OnePopper == \A t, u \in Poppers : t = u

Carved == 1..(count * Step)
Busy == {u \in Pushers : pc[u] # "idle"}
Rest == Carved \ (Held \cup Returning \cup Fresh)

PcInv == /\ \A t \in Poppers : pc[t] \in AllocPc
         /\ \A t \in Pushers : pc[t] \in FreePc

\* A node that somebody holds or returns is a node of a published block, and
\* only one thread has it.
OwnInv ==
    /\ \A n \in Nodes : held[n] # 0 => held[n] = 1 /\ n \in Carved /\ n \notin Fresh
    /\ \A u \in Busy : tmp[u] \in Carved /\ tmp[u] \notin Fresh /\ held[tmp[u]] = 0
    /\ \A t, u \in Busy : tmp[t] = tmp[u] => t = u

\* The nodes at rest form lists of which free starts one: nothing at rest is
\* linked to a node that is not, to free, or to what another is linked to.
\* This is what makes the compare and swap of Mpool_alloc safe: what is popped
\* is linked from nowhere.
ListInv ==
    /\ free # Null => free \in Rest
    /\ \A n \in Rest : link[n] # Null => link[n] \in Rest /\ link[n] # free
    /\ \A m, n \in Rest : link[m] = link[n] /\ link[m] # Null => m = n

\* Only the one popper takes nodes from the stack, so the node it looks at stays
\* there and what it read of its link stays true (no ABA).
PopInv ==
    \A t \in Poppers : /\ pc[t] \in {"next", "cas"} => tmp[t] \in Rest
                       /\ pc[t] = "cas" => nxt[t] = link[tmp[t]]

\* The new block is one list until it is published.
FreshInv ==
    \A t \in Poppers : pc[t] = "publish" =>
       /\ tmp[t] = First(count)
       /\ \A n \in First(count)..(count * Step) :
             link[n] = IF n = count * Step THEN Null ELSE n + 1

IInv == TypeOK /\ PcInv /\ OwnInv /\ ListInv /\ PopInv /\ FreshInv

-----------------------------------------------------------------------------
(* Blocks, and membership in the sets the invariant is about. *)

LEMMA BlockIs ==
    ASSUME NEW b \in 1..MaxBlocks
    PROVE  /\ b * Step \in Nat /\ b * Step <= NodeCount
           /\ First(b) \in 1..(b * Step)
           /\ First(b) + Step = b * Step + 1
           /\ b < MaxBlocks => /\ First(b + 1) = b * Step + 1
                               /\ (b + 1) * Step = b * Step + Step
                               /\ (b + 1) * Step <= NodeCount
<1>1. Step \in Nat /\ Step >= 1 /\ MaxBlocks \in Nat /\ b \in Nat /\ b >= 1 /\ b <= MaxBlocks
  BY StepAssumption
<1>2. b * Step \in Nat /\ b * Step <= MaxBlocks * Step /\ MaxBlocks * Step = Step * MaxBlocks
  BY <1>1, Z3
<1>3. (b - 1) * Step = b * Step - Step /\ (b + 1) * Step = b * Step + Step
  BY <1>1, Z3
<1>4. (b - 1) * Step \in Nat
  BY <1>1, Z3
<1>5. First(b) = b * Step - Step + 1 /\ First(b + 1) = b * Step + 1
  BY <1>1, <1>3 DEF First
<1>6. b < MaxBlocks => (b + 1) * Step <= MaxBlocks * Step
  <2>1. b < MaxBlocks => b + 1 <= MaxBlocks /\ b + 1 \in Nat
    BY <1>1
  <2>2. QED BY <1>1, <2>1, Z3
<1>7. QED BY <1>1, <1>2, <1>3, <1>4, <1>5, <1>6 DEF NodeCount

Publishing == \E t \in Poppers : pc[t] = "publish"

SetsAre ==
    /\ count \in 1..MaxBlocks
    /\ Carved \subseteq Nodes
    /\ \A n \in Nodes : n \in Held <=> held[n] # 0
    /\ \A n : n \in Returning <=> \E u \in Busy : tmp[u] = n
    /\ \A n : n \in Fresh <=> Publishing /\ n \in First(count)..(count * Step)
    /\ \A n : n \in Rest <=> /\ n \in Carved /\ n \in Nodes /\ held[n] = 0
                             /\ \A u \in Busy : tmp[u] # n
                             /\ n \notin Fresh

LEMMA SetsLemma == TypeOK => SetsAre
<1> SUFFICES ASSUME TypeOK PROVE SetsAre
  OBVIOUS
<1>1. count \in 1..MaxBlocks /\ held \in [Nodes -> Nat]
  BY DEF TypeOK
<1>2. Carved \subseteq Nodes
  BY <1>1, BlockIs, NodeCountNat DEF Carved
<1>3. \A n \in Nodes : n \in Held <=> held[n] # 0
  BY <1>1 DEF Held
<1>4. \A n : n \in Returning <=> \E u \in Busy : tmp[u] = n
  BY DEF Returning, Busy
<1>5. \A n : n \in Fresh <=> Publishing /\ n \in First(count)..(count * Step)
  BY DEF Fresh, Publishing
<1>6. QED BY <1>1, <1>2, <1>3, <1>4, <1>5 DEF SetsAre, Rest

\* A step that moves no node from one set to another.
LEMMA SetsStay ==
    ASSUME TypeOK, TypeOK', count' = count, held' = held, Busy' = Busy,
           \A u \in Busy : tmp'[u] = tmp[u], Publishing' = Publishing
    PROVE  Rest' = Rest /\ Fresh' = Fresh /\ Carved' = Carved
<1>1. SetsAre /\ SetsAre'
  BY SetsLemma, PTL
<1>2. Fresh' = Fresh
  <2>1. \A n : n \in Fresh' <=> n \in Fresh
    BY <1>1 DEF SetsAre, First
  <2>2. QED BY <2>1
<1>3. Carved' = Carved
  BY DEF Carved
<1>4. \A n : n \in Rest' <=> n \in Rest
  BY <1>1, <1>2, <1>3 DEF SetsAre
<1>5. QED BY <1>2, <1>3, <1>4

LEMMA ChainedIs ==
    ASSUME NEW f \in [Nodes -> Ptrs], NEW b \in 1..MaxBlocks
    PROVE  /\ Chained(f, b) \in [Nodes -> Ptrs]
           /\ \A n \in Nodes : n \notin First(b)..(b * Step) => Chained(f, b)[n] = f[n]
           /\ \A n \in First(b)..(b * Step) :
                 Chained(f, b)[n] = IF n = b * Step THEN Null ELSE n + 1
<1>1. b * Step \in Nat /\ b * Step <= NodeCount /\ First(b) \in 1..(b * Step)
  BY BlockIs
<1>2. \A n \in First(b)..(b * Step) : n \in Nodes /\ (n # b * Step => n + 1 \in Nodes)
  BY <1>1, NodeCountNat
<1>3. QED BY <1>2 DEF Chained, Ptrs

LEMMA IInvInit == Init => IInv
<1> SUFFICES ASSUME Init PROVE IInv
  OBVIOUS
<1>1. 1 \in 1..MaxBlocks /\ 1 * Step = Step /\ Null \in Ptrs
  BY StepAssumption DEF Ptrs
<1>2. /\ Step \in Nat /\ Step <= NodeCount /\ First(1) = 1 /\ 1 \in 1..Step
      /\ Carved = 1..Step /\ 1..Step \subseteq Nodes
  <2>1. Step \in Nat \ {0} /\ First(1) = 1
    BY StepAssumption DEF First
  <2>2. Step <= NodeCount
    BY <1>1, BlockIs
  <2>3. QED BY <1>1, <2>1, <2>2, NodeCountNat DEF Init, Carved
<1>3. /\ link \in [Nodes -> Ptrs]
      /\ \A n \in 1..Step : link[n] = IF n = Step THEN Null ELSE n + 1
  <2>1. [n \in Nodes |-> Null] \in [Nodes -> Ptrs]
    BY <1>1
  <2>2. QED BY <1>1, <1>2, <2>1, ChainedIs DEF Init
<1>4. TypeOK
  BY <1>1, <1>2, <1>3 DEF Init, TypeOK, AllocPc, Ptrs
<1>5. /\ \A t \in Threads : pc[t] = "idle"
      /\ Busy = {} /\ ~Publishing /\ \A n \in Nodes : held[n] = 0
  BY DEF Init, Busy, Publishing, Threads
<1>6. Rest = 1..Step
  BY <1>2, <1>4, <1>5, SetsLemma DEF SetsAre
<1>7. PcInv /\ PopInv /\ FreshInv
  BY <1>5 DEF PcInv, PopInv, FreshInv, AllocPc, FreePc, Threads
<1>8. OwnInv
  BY <1>5 DEF OwnInv
<1>9. ListInv
  BY <1>2, <1>3, <1>6 DEF ListInv, Init, Null
<1>10. QED BY <1>4, <1>7, <1>8, <1>9 DEF IInv

\* Types, and where each thread can be.
LEMMA TypeStep == IInv /\ [Next]_vars => TypeOK' /\ PcInv'
<1> SUFFICES ASSUME IInv, [Next]_vars PROVE TypeOK' /\ PcInv'
  OBVIOUS
<1> USE DEF Goto, Threads, AllocPc, FreePc
<1>0. /\ TypeOK /\ PcInv /\ SetsAre /\ Null \in Ptrs /\ Nodes \subseteq Ptrs
      /\ Poppers \cap Pushers = {}
  BY SetsLemma, ThreadsAssumption DEF IInv, Ptrs
<1>1. ASSUME NEW p \in Poppers, Popper(p) PROVE TypeOK' /\ PcInv'
  <2>0. p \in Threads /\ p \notin Pushers
    BY <1>0
  <2>1. CASE AllocTest(p)
    BY <1>0, <2>0, <2>1 DEF AllocTest, TypeOK, PcInv
  <2>2. CASE Grow(p)
    <3>1. count + 1 \in 1..MaxBlocks /\ count \in Nat
      BY <1>0, <2>2, StepAssumption DEF Grow, TypeOK
    <3>2. First(count + 1) \in Ptrs
      <4>1. First(count + 1) \in 1..((count + 1) * Step) /\ (count + 1) * Step <= NodeCount
            /\ (count + 1) * Step \in Nat
        BY <3>1, BlockIs
      <4>2. QED BY <4>1, NodeCountNat DEF Ptrs
    <3>3. Chained(link, count + 1) \in [Nodes -> Ptrs]
      BY <1>0, <3>1, ChainedIs DEF TypeOK
    <3>4. QED BY <1>0, <2>0, <2>2, <3>1, <3>2, <3>3 DEF Grow, TypeOK, PcInv
  <2>3. CASE Publish(p)
    BY <1>0, <2>0, <2>3 DEF Publish, TypeOK, PcInv
  <2>4. CASE Load(p)
    BY <1>0, <2>0, <2>4 DEF Load, TypeOK, PcInv
  <2>5. CASE LoadNext(p)
    <3>1. tmp[p] \in Nodes
      BY <1>0, <2>5 DEF LoadNext, IInv, PopInv, SetsAre
    <3>2. QED BY <1>0, <2>0, <2>5, <3>1 DEF LoadNext, TypeOK, PcInv
  <2>6. CASE Pop(p)
    <3>1. tmp[p] \in Nodes
      BY <1>0, <2>6 DEF Pop, IInv, PopInv, SetsAre
    <3>2. QED BY <1>0, <2>0, <2>6, <3>1 DEF Pop, TypeOK, PcInv
  <2>7. QED BY <1>1, <2>1, <2>2, <2>3, <2>4, <2>5, <2>6 DEF Popper
<1>2. ASSUME NEW u \in Pushers, Pusher(u) PROVE TypeOK' /\ PcInv'
  <2>0. u \in Threads /\ u \notin Poppers
    BY <1>0
  <2>1. ASSUME NEW n \in Nodes, Free(u, n) PROVE TypeOK' /\ PcInv'
    <3>1. held[n] - 1 \in Nat
      BY <1>0, <2>1 DEF Free, TypeOK
    <3>2. QED BY <1>0, <2>0, <2>1, <3>1 DEF Free, TypeOK, PcInv
  <2>2. CASE PushLink(u)
    BY <1>0, <2>0, <2>2 DEF PushLink, TypeOK, PcInv
  <2>3. CASE Push(u)
    BY <1>0, <2>0, <2>3 DEF Push, TypeOK, PcInv
  <2>4. QED BY <1>2, <2>1, <2>2, <2>3 DEF Pusher
<1>3. CASE UNCHANGED vars
  BY <1>0, <1>3 DEF vars, TypeOK, PcInv
<1>4. QED BY <1>1, <1>2, <1>3 DEF Next

-----------------------------------------------------------------------------
(* The steps of Mpool_alloc. *)

OwnersInv == OwnInv /\ ListInv /\ PopInv /\ FreshInv

\* The one popper changes nothing of the threads that return nodes.
LEMMA PopperAlone ==
    ASSUME IInv, OnePopper, NEW p \in Poppers, Popper(p)
    PROVE  /\ p \in Threads /\ p \notin Pushers /\ Poppers = {p}
           /\ Busy' = Busy /\ \A u \in Busy : tmp'[u] = tmp[u]
           /\ Publishing <=> pc[p] = "publish"
           /\ Publishing' <=> pc'[p] = "publish"
<1>1. p \in Threads /\ p \notin Pushers /\ Poppers = {p}
  BY ThreadsAssumption DEF OnePopper, Threads
<1>2. pc \in [Threads -> AllocPc \cup FreePc] /\ tmp \in [Threads -> Ptrs]
  BY DEF IInv, TypeOK
<1>3. \A u \in Pushers : pc'[u] = pc[u] /\ tmp'[u] = tmp[u]
  BY <1>1, <1>2 DEF Popper, AllocTest, Grow, Publish, Load, LoadNext, Pop, Goto, Threads
<1>4. QED BY <1>1, <1>3 DEF Busy, Publishing

\* Reading the stack moves nothing.
LEMMA LookStep ==
    ASSUME IInv, TypeOK', OnePopper, NEW p \in Poppers,
           AllocTest(p) \/ Load(p) \/ LoadNext(p)
    PROVE  OwnersInv'
<1>1. /\ p \in Threads /\ Poppers = {p} /\ Busy' = Busy
      /\ \A u \in Busy : tmp'[u] = tmp[u]
      /\ Publishing <=> pc[p] = "publish"
      /\ Publishing' <=> pc'[p] = "publish"
  BY PopperAlone DEF Popper
<1>2. /\ pc \in [Threads -> AllocPc \cup FreePc]
      /\ tmp \in [Threads -> Ptrs] /\ nxt \in [Threads -> Ptrs]
  BY DEF IInv, TypeOK
<1>3. /\ free' = free /\ link' = link /\ count' = count /\ held' = held
      /\ pc[p] \in {"idle", "load", "next"} /\ pc'[p] \in {"grow", "load", "next", "cas"}
  BY <1>1, <1>2 DEF AllocTest, Load, LoadNext, Goto
<1>4. Rest' = Rest /\ Fresh' = Fresh /\ Carved' = Carved
  <2>1. Publishing' = Publishing /\ TypeOK
    BY <1>1, <1>3 DEF Publishing, IInv
  <2>2. QED BY <1>1, <1>3, <2>1, SetsStay
<1>5. OwnInv' /\ ListInv'
  BY <1>1, <1>3, <1>4 DEF IInv, OwnInv, ListInv
<1>6. FreshInv'
  BY <1>1, <1>3 DEF FreshInv
<1>7. PopInv'
  <2>1. CASE AllocTest(p)
    BY <1>1, <1>2, <2>1 DEF AllocTest, Goto, PopInv
  <2>2. CASE Load(p)
    BY <1>1, <1>2, <1>4, <2>2 DEF Load, Goto, PopInv, IInv, ListInv
  <2>3. CASE LoadNext(p)
    BY <1>1, <1>2, <1>4, <2>3 DEF LoadNext, Goto, PopInv, IInv
  <2>4. QED BY <2>1, <2>2, <2>3
<1>8. QED BY <1>5, <1>6, <1>7 DEF OwnersInv

\* The new block lies behind all others: nobody knows its nodes.
LEMMA GrowStep ==
    ASSUME IInv, TypeOK', OnePopper, NEW p \in Poppers, Grow(p)
    PROVE  /\ OwnersInv'
           /\ Rest' = Rest
           /\ \A n \in Rest : link'[n] = link[n]
           /\ Carved' = Carved \cup Fresh' /\ Fresh = {} /\ Fresh' \cap Carved = {}
<1>1. /\ p \in Threads /\ Poppers = {p} /\ Busy' = Busy
      /\ \A u \in Busy : tmp'[u] = tmp[u]
      /\ Publishing <=> pc[p] = "publish"
      /\ Publishing' <=> pc'[p] = "publish"
  BY PopperAlone DEF Popper
<1>2. /\ pc[p] = "grow" /\ pc'[p] = "publish" /\ free' = free /\ held' = held
      /\ count' = count + 1 /\ link' = Chained(link, count + 1) /\ count < MaxBlocks
      /\ tmp'[p] = First(count + 1)
  BY <1>1 DEF Grow, Goto, IInv, TypeOK
<1>3. SetsAre /\ SetsAre' /\ count \in 1..MaxBlocks /\ count' \in 1..MaxBlocks
  <2>1. TypeOK
    BY DEF IInv
  <2>2. SetsAre /\ SetsAre'
    BY <2>1, SetsLemma, PTL
  <2>3. QED BY <2>1, <2>2 DEF TypeOK
<1>4. /\ count * Step \in Nat /\ count' * Step = count * Step + Step
      /\ First(count') = count * Step + 1 /\ Step \in Nat
  BY <1>2, <1>3, BlockIs, StepAssumption
<1>5. Fresh = {} /\ \A n : n \in Fresh' <=> n \in First(count')..(count' * Step)
  BY <1>1, <1>2, <1>3 DEF SetsAre, First
<1>6. Carved' = Carved \cup Fresh' /\ Fresh' \cap Carved = {}
  BY <1>4, <1>5 DEF Carved
<1>7. \A n \in Nodes : n \notin Fresh' => link'[n] = link[n]
  BY <1>2, <1>3, <1>5, ChainedIs DEF IInv, TypeOK
<1>8. OwnInv'
  <2>1. \A n \in Nodes : held'[n] # 0 => held'[n] = 1 /\ n \in Carved' /\ n \notin Fresh'
    BY <1>2, <1>6 DEF IInv, OwnInv
  <2>2. \A u \in Busy : tmp'[u] \in Carved' /\ tmp'[u] \notin Fresh' /\ held'[tmp'[u]] = 0
    BY <1>1, <1>2, <1>6 DEF IInv, OwnInv
  <2>3. QED BY <1>1, <2>1, <2>2 DEF IInv, OwnInv
<1>9. Rest' = Rest
  <2>1. \A n \in Fresh' : n \notin Rest /\ n \notin Rest'
    BY <1>3, <1>6 DEF SetsAre
  <2>2. \A n : n \notin Fresh' => (n \in Rest' <=> n \in Rest)
    BY <1>1, <1>2, <1>3, <1>5, <1>6 DEF SetsAre
  <2>3. \A n : n \in Rest' <=> n \in Rest
    BY <2>1, <2>2
  <2>4. QED BY <2>3
<1>10. \A n \in Rest : link'[n] = link[n]
  BY <1>3, <1>6, <1>7 DEF SetsAre
<1>11. ListInv'
  BY <1>2, <1>9, <1>10 DEF IInv, ListInv
<1>12. PopInv'
  BY <1>1, <1>2 DEF PopInv
<1>13. FreshInv'
  <2>1. \A n \in First(count')..(count' * Step) :
            link'[n] = IF n = count' * Step THEN Null ELSE n + 1
    BY <1>2, <1>3, ChainedIs DEF IInv, TypeOK
  <2>2. QED BY <1>1, <1>2, <2>1 DEF FreshInv, First
<1>14. QED BY <1>5, <1>6, <1>8, <1>9, <1>10, <1>11, <1>12, <1>13 DEF OwnersInv

\* Publishing puts the new block at rest; what free pointed to stays at rest,
\* on the stack no more if it was anything.
LEMMA PublishStep ==
    ASSUME IInv, TypeOK', OnePopper, NEW p \in Poppers, Publish(p)
    PROVE  /\ OwnersInv'
           /\ Rest' = Rest \cup Fresh /\ Fresh' = {} /\ Carved' = Carved
           /\ link' = link /\ free' = First(count)
           /\ First(count) \in 1..(count * Step) /\ count * Step \in Nat
           /\ Fresh = First(count)..(count * Step)
           /\ \A n \in Fresh : link[n] = IF n = count * Step THEN Null ELSE n + 1
<1>1. /\ p \in Threads /\ Poppers = {p} /\ Busy' = Busy
      /\ \A u \in Busy : tmp'[u] = tmp[u]
      /\ Publishing <=> pc[p] = "publish"
      /\ Publishing' <=> pc'[p] = "publish"
  BY PopperAlone DEF Popper
<1>2. /\ pc[p] = "publish" /\ pc'[p] = "load" /\ free' = tmp[p]
      /\ link' = link /\ count' = count /\ tmp' = tmp /\ nxt' = nxt /\ held' = held
  BY <1>1 DEF Publish, Goto, IInv, TypeOK
<1>3. TypeOK /\ count \in 1..MaxBlocks
  BY DEF IInv, TypeOK
<1>4. SetsAre /\ SetsAre'
  BY <1>3, SetsLemma, PTL
<1>5. count * Step \in Nat /\ First(count) \in 1..(count * Step)
  BY <1>3, BlockIs
<1>6. Fresh = First(count)..(count * Step) /\ Fresh' = {}
  <2>1. \A n : n \in Fresh <=> n \in First(count)..(count * Step)
    BY <1>1, <1>2, <1>4 DEF SetsAre
  <2>2. \A n : n \notin Fresh'
    BY <1>1, <1>2, <1>4 DEF SetsAre
  <2>3. QED BY <2>1, <2>2
<1>7. /\ free' = First(count)
      /\ \A n \in Fresh : link[n] = IF n = count * Step THEN Null ELSE n + 1
  BY <1>1, <1>2, <1>6 DEF IInv, FreshInv
<1>8. Carved' = Carved
  BY <1>2 DEF Carved
<1>9. /\ \A n \in Fresh : n \in Nodes /\ n \in Carved /\ held[n] = 0
                           /\ \A u \in Busy : tmp[u] # n
      /\ Rest \cap Fresh = {}
  <2>1. Fresh \subseteq Carved
    BY <1>5, <1>6 DEF Carved
  <2>2. QED BY <1>4, <2>1 DEF SetsAre, IInv, OwnInv
<1>10. Rest' = Rest \cup Fresh
  <2>1. \A n : n \in Rest' <=> n \in Rest \/ n \in Fresh
    BY <1>1, <1>2, <1>4, <1>6, <1>8, <1>9 DEF SetsAre
  <2>2. QED BY <2>1
<1>11. OwnInv'
  BY <1>1, <1>2, <1>6, <1>8 DEF IInv, OwnInv
<1>12. ListInv'
  <2>1. free' \in Fresh
    BY <1>5, <1>6, <1>7
  <2>2. \A n \in Fresh : link[n] # Null => link[n] \in Fresh /\ link[n] # free' /\ link[n] = n + 1
    BY <1>5, <1>6, <1>7 DEF Null
  <2>3. \A n \in Rest : link[n] # Null => link[n] \in Rest
    BY DEF IInv, ListInv
  <2>4. \A n \in Rest' : link'[n] # Null => link'[n] \in Rest' /\ link'[n] # free'
    BY <1>2, <1>9, <1>10, <2>1, <2>2, <2>3
  <2>5. \A m, n \in Fresh : link[m] = link[n] /\ link[m] # Null => m = n
    BY <1>5, <1>6, <2>2
  <2>6. \A m, n \in Rest : link[m] = link[n] /\ link[m] # Null => m = n
    BY DEF IInv, ListInv
  <2>7. \A m, n \in Rest' : link'[m] = link'[n] /\ link'[m] # Null => m = n
    BY <1>2, <1>9, <1>10, <2>2, <2>3, <2>5, <2>6
  <2>8. QED BY <1>10, <2>1, <2>4, <2>7 DEF ListInv
<1>13. PopInv' /\ FreshInv'
  BY <1>1, <1>2 DEF PopInv, FreshInv
<1>14. QED BY <1>2, <1>5, <1>6, <1>7, <1>8, <1>10, <1>11, <1>12, <1>13 DEF OwnersInv

\* A compare and swap that fails moves nothing; one that succeeds takes the top,
\* and free becomes what the top is linked to.
LEMMA PopFails ==
    ASSUME IInv, TypeOK', OnePopper, NEW p \in Poppers, Pop(p), free # tmp[p]
    PROVE  /\ OwnersInv'
           /\ Rest' = Rest /\ Fresh' = Fresh /\ Carved' = Carved
           /\ free' = free /\ link' = link /\ held' = held
<1>1. /\ p \in Threads /\ Poppers = {p} /\ Busy' = Busy
      /\ \A u \in Busy : tmp'[u] = tmp[u]
      /\ Publishing <=> pc[p] = "publish"
      /\ Publishing' <=> pc'[p] = "publish"
  BY PopperAlone DEF Popper
<1>2. /\ pc[p] = "cas" /\ pc'[p] = "load" /\ free' = free
      /\ link' = link /\ count' = count /\ held' = held
  BY <1>1 DEF Pop, Goto, IInv, TypeOK
<1>3. Rest' = Rest /\ Fresh' = Fresh /\ Carved' = Carved
  <2>1. Publishing' = Publishing /\ TypeOK
    BY <1>1, <1>2 DEF Publishing, IInv
  <2>2. QED BY <1>1, <1>2, <2>1, SetsStay
<1>4. OwnInv' /\ ListInv' /\ PopInv' /\ FreshInv'
  BY <1>1, <1>2, <1>3 DEF IInv, OwnInv, ListInv, PopInv, FreshInv
<1>5. QED BY <1>2, <1>3, <1>4 DEF OwnersInv

LEMMA PopTakes ==
    ASSUME IInv, TypeOK', OnePopper, NEW p \in Poppers, Pop(p), free = tmp[p]
    PROVE  /\ OwnersInv'
           /\ free \in Rest /\ Rest' = Rest \ {free} /\ Fresh' = Fresh /\ Carved' = Carved
           /\ free' = link[free] /\ link' = link
           /\ held' = [held EXCEPT ![free] = 1]
<1>1. /\ p \in Threads /\ Poppers = {p} /\ Busy' = Busy
      /\ \A u \in Busy : tmp'[u] = tmp[u]
      /\ Publishing <=> pc[p] = "publish"
      /\ Publishing' <=> pc'[p] = "publish"
  BY PopperAlone DEF Popper
<1>2. TypeOK /\ held \in [Nodes -> Nat]
  BY DEF IInv, TypeOK
<1>3. SetsAre /\ SetsAre'
  BY <1>2, SetsLemma, PTL
<1>4. pc[p] = "cas" /\ pc'[p] = "idle" /\ link' = link /\ count' = count
  BY <1>1, <1>2 DEF Pop, Goto, TypeOK
<1>5. free \in Rest /\ free \in Nodes /\ held[free] = 0
  BY <1>1, <1>3, <1>4 DEF IInv, PopInv, SetsAre
<1>6. free' = link[free]
  BY <1>1, <1>4 DEF Pop, Goto, IInv, PopInv
<1>7. held' = [held EXCEPT ![free] = 1]
  BY <1>2, <1>5 DEF Pop, Goto
<1>8. Carved' = Carved /\ Fresh' = Fresh
  <2>1. \A n : n \in Fresh' <=> n \in Fresh
    BY <1>1, <1>3, <1>4 DEF SetsAre
  <2>2. QED BY <1>4, <2>1 DEF Carved
<1>9. Rest' = Rest \ {free}
  <2>1. \A n \in Nodes : held'[n] = 0 <=> held[n] = 0 /\ n # free
    BY <1>2, <1>5, <1>7
  <2>2. \A n : n \in Rest' <=> n \in Rest /\ n # free
    BY <1>1, <1>3, <1>8, <2>1 DEF SetsAre
  <2>3. QED BY <2>2
<1>10. OwnInv'
  <2>1. free \in Carved /\ free \notin Fresh /\ \A u \in Busy : tmp[u] # free
    BY <1>3, <1>5 DEF SetsAre
  <2>2. \A n \in Nodes : held'[n] # 0 => held'[n] = 1 /\ n \in Carved' /\ n \notin Fresh'
    BY <1>2, <1>5, <1>7, <1>8, <2>1 DEF IInv, OwnInv
  <2>3. \A u \in Busy : tmp'[u] \in Carved' /\ tmp'[u] \notin Fresh' /\ held'[tmp'[u]] = 0
    <3>1. \A u \in Busy : tmp[u] \in Nodes
      BY <1>3 DEF IInv, OwnInv, SetsAre
    <3>2. QED BY <1>1, <1>2, <1>7, <1>8, <2>1, <3>1 DEF IInv, OwnInv
  <2>4. QED BY <1>1, <2>2, <2>3 DEF IInv, OwnInv
<1>11. ListInv'
  BY <1>4, <1>5, <1>6, <1>9 DEF IInv, ListInv
<1>12. PopInv' /\ FreshInv'
  BY <1>1, <1>4 DEF PopInv, FreshInv
<1>13. QED BY <1>4, <1>5, <1>6, <1>7, <1>8, <1>9, <1>10, <1>11, <1>12 DEF OwnersInv

-----------------------------------------------------------------------------
(* The steps of Mpool_free. *)

\* A thread that returns a node changes nothing of the popper, nor of another
\* thread that returns one.
LEMMA PusherAlone ==
    ASSUME IInv, NEW u \in Pushers, Pusher(u)
    PROVE  /\ u \in Threads /\ u \notin Poppers
           /\ \A t \in Threads : t # u => pc'[t] = pc[t] /\ tmp'[t] = tmp[t]
           /\ \A t \in Poppers : pc'[t] = pc[t] /\ tmp'[t] = tmp[t]
           /\ nxt' = nxt /\ count' = count
           /\ Publishing' = Publishing /\ Carved' = Carved
<1>1. u \in Threads /\ u \notin Poppers /\ Poppers \subseteq Threads
  BY ThreadsAssumption DEF Threads
<1>2. pc \in [Threads -> AllocPc \cup FreePc] /\ tmp \in [Threads -> Ptrs]
  BY DEF IInv, TypeOK
<1>3. \A t \in Threads : t # u => pc'[t] = pc[t] /\ tmp'[t] = tmp[t]
  BY <1>1, <1>2 DEF Pusher, Free, PushLink, Push, Goto
<1>4. nxt' = nxt /\ count' = count
  BY DEF Pusher, Free, PushLink, Push
<1>5. QED BY <1>1, <1>3, <1>4 DEF Publishing, Carved

LEMMA FreeStep ==
    ASSUME IInv, TypeOK', NEW u \in Pushers, NEW n \in Nodes, Free(u, n)
    PROVE  /\ OwnersInv'
           /\ Rest' = Rest /\ Fresh' = Fresh /\ Carved' = Carved
           /\ free' = free /\ link' = link
<1>1. /\ u \in Threads /\ u \notin Poppers
      /\ \A t \in Threads : t # u => pc'[t] = pc[t] /\ tmp'[t] = tmp[t]
      /\ \A t \in Poppers : pc'[t] = pc[t] /\ tmp'[t] = tmp[t]
      /\ nxt' = nxt /\ count' = count /\ Publishing' = Publishing /\ Carved' = Carved
  BY PusherAlone DEF Pusher
<1>2. TypeOK /\ held \in [Nodes -> Nat]
  BY DEF IInv, TypeOK
<1>3. SetsAre /\ SetsAre'
  BY <1>2, SetsLemma, PTL
<1>4. /\ pc[u] = "idle" /\ pc'[u] = "push" /\ tmp'[u] = n
      /\ free' = free /\ link' = link /\ held[n] # 0
      /\ held' = [held EXCEPT ![n] = held[n] - 1]
  BY <1>1, <1>2 DEF Free, Goto, TypeOK
<1>5. held[n] = 1 /\ n \in Carved /\ n \notin Fresh
  BY <1>4 DEF IInv, OwnInv
<1>6. held' = [held EXCEPT ![n] = 0]
  BY <1>4, <1>5
<1>7. u \notin Busy /\ Busy' = Busy \cup {u}
  BY <1>1, <1>4 DEF Busy, Threads
<1>8. \A t \in Busy : tmp'[t] = tmp[t] /\ tmp[t] # n /\ tmp[t] \in Nodes
  BY <1>1, <1>3, <1>5, <1>7 DEF IInv, OwnInv, Busy, Threads, SetsAre
<1>9. Fresh' = Fresh
  <2>1. \A m : m \in Fresh' <=> m \in Fresh
    BY <1>1, <1>3 DEF SetsAre, First
  <2>2. QED BY <2>1
<1>10. Rest' = Rest
  <2>1. \A m \in Nodes : m # n => held'[m] = held[m]
    BY <1>2, <1>6
  <2>2. n \notin Rest /\ n \notin Rest'
    BY <1>3, <1>4, <1>7 DEF SetsAre
  <2>3. \A m : m # n => (m \in Rest' <=> m \in Rest)
    BY <1>1, <1>3, <1>4, <1>7, <1>8, <1>9, <2>1 DEF SetsAre
  <2>4. \A m : m \in Rest' <=> m \in Rest
    BY <2>2, <2>3
  <2>5. QED BY <2>4
<1>11. OwnInv'
  <2>1. \A m \in Nodes : held'[m] # 0 => held'[m] = 1 /\ m \in Carved' /\ m \notin Fresh'
    BY <1>1, <1>2, <1>6, <1>9 DEF IInv, OwnInv
  <2>2. \A t \in Busy' : tmp'[t] \in Carved' /\ tmp'[t] \notin Fresh' /\ held'[tmp'[t]] = 0
    BY <1>1, <1>2, <1>4, <1>5, <1>6, <1>7, <1>8, <1>9 DEF IInv, OwnInv
  <2>3. \A t, w \in Busy' : tmp'[t] = tmp'[w] => t = w
    BY <1>4, <1>7, <1>8 DEF IInv, OwnInv
  <2>4. QED BY <2>1, <2>2, <2>3 DEF OwnInv
<1>12. ListInv' /\ PopInv' /\ FreshInv'
  BY <1>1, <1>4, <1>10 DEF IInv, ListInv, PopInv, FreshInv, First
<1>13. QED BY <1>1, <1>4, <1>9, <1>10, <1>11, <1>12 DEF OwnersInv

\* The link of a node that is being returned is nobody's business.
LEMMA PushLinkStep ==
    ASSUME IInv, TypeOK', NEW u \in Pushers, PushLink(u)
    PROVE  /\ OwnersInv'
           /\ Rest' = Rest /\ Fresh' = Fresh /\ Carved' = Carved
           /\ free' = free /\ \A n \in Rest : link'[n] = link[n]
<1>1. /\ u \in Threads /\ u \notin Poppers
      /\ \A t \in Threads : t # u => pc'[t] = pc[t] /\ tmp'[t] = tmp[t]
      /\ \A t \in Poppers : pc'[t] = pc[t] /\ tmp'[t] = tmp[t]
      /\ nxt' = nxt /\ count' = count /\ Publishing' = Publishing /\ Carved' = Carved
  BY PusherAlone DEF Pusher
<1>2. TypeOK /\ link \in [Nodes -> Ptrs] /\ pc \in [Threads -> AllocPc \cup FreePc]
  BY DEF IInv, TypeOK
<1>3. SetsAre
  BY <1>2, SetsLemma
<1>4. /\ pc[u] = "push" /\ pc'[u] = "pushcas" /\ tmp' = tmp
      /\ free' = free /\ held' = held
      /\ link' = [link EXCEPT ![tmp[u]] = free]
  BY <1>1, <1>2 DEF PushLink, Goto
<1>5. u \in Busy /\ Busy' = Busy /\ \A t \in Busy : tmp'[t] = tmp[t]
  BY <1>1, <1>4 DEF Busy, Threads
<1>6. Rest' = Rest /\ Fresh' = Fresh
  BY <1>1, <1>2, <1>4, <1>5, SetsStay
<1>7. tmp[u] \notin Rest /\ tmp[u] \notin Fresh
  BY <1>3, <1>5 DEF SetsAre, IInv, OwnInv
<1>8. \A n \in Nodes : n # tmp[u] => link'[n] = link[n]
  BY <1>2, <1>4
<1>9. /\ \A n \in Rest : link'[n] = link[n]
      /\ \A n \in Fresh : n \in Nodes => link'[n] = link[n]
  BY <1>3, <1>7, <1>8 DEF SetsAre
<1>10. OwnInv'
  BY <1>1, <1>4, <1>5, <1>6 DEF IInv, OwnInv
<1>11. ListInv'
  BY <1>4, <1>6, <1>9 DEF IInv, ListInv
<1>12. PopInv'
  BY <1>1, <1>6, <1>9 DEF IInv, PopInv
<1>13. FreshInv'
  <2>1. ASSUME NEW t \in Poppers, pc[t] = "publish", NEW n \in First(count)..(count * Step)
        PROVE  n \in Fresh /\ n \in Nodes
    <3>1. n \in Fresh
      BY <1>3, <2>1 DEF SetsAre, Publishing
    <3>2. count * Step \in Nat /\ count * Step <= NodeCount /\ First(count) \in 1..(count * Step)
      BY <1>2, BlockIs DEF TypeOK
    <3>3. QED BY <3>1, <3>2, NodeCountNat
  <2>2. \A t \in Poppers : pc'[t] = "publish" => pc[t] = "publish" /\ tmp'[t] = First(count)
    BY <1>1, <1>4 DEF IInv, FreshInv
  <2>3. QED BY <1>1, <1>9, <2>1, <2>2 DEF IInv, FreshInv, First
<1>14. QED BY <1>1, <1>4, <1>6, <1>9, <1>10, <1>11, <1>12, <1>13 DEF OwnersInv

LEMMA PushFails ==
    ASSUME IInv, TypeOK', NEW u \in Pushers, Push(u), free # link[tmp[u]]
    PROVE  /\ OwnersInv'
           /\ Rest' = Rest /\ Fresh' = Fresh /\ Carved' = Carved
           /\ free' = free /\ link' = link
<1>1. /\ u \in Threads /\ u \notin Poppers
      /\ \A t \in Threads : t # u => pc'[t] = pc[t] /\ tmp'[t] = tmp[t]
      /\ \A t \in Poppers : pc'[t] = pc[t] /\ tmp'[t] = tmp[t]
      /\ nxt' = nxt /\ count' = count /\ Publishing' = Publishing /\ Carved' = Carved
  BY PusherAlone DEF Pusher
<1>2. TypeOK /\ pc \in [Threads -> AllocPc \cup FreePc]
  BY DEF IInv, TypeOK
<1>3. /\ pc[u] = "pushcas" /\ pc'[u] = "push" /\ tmp' = tmp
      /\ free' = free /\ link' = link /\ held' = held
  BY <1>1, <1>2 DEF Push, Goto
<1>4. Busy' = Busy /\ \A t \in Busy : tmp'[t] = tmp[t]
  BY <1>1, <1>3 DEF Busy, Threads
<1>5. Rest' = Rest /\ Fresh' = Fresh
  BY <1>1, <1>2, <1>3, <1>4, SetsStay
<1>6. OwnInv' /\ ListInv' /\ PopInv' /\ FreshInv'
  BY <1>1, <1>3, <1>4, <1>5 DEF IInv, OwnInv, ListInv, PopInv, FreshInv, First
<1>7. QED BY <1>1, <1>3, <1>5, <1>6 DEF OwnersInv

\* The node comes to rest on top of what free pointed to.
LEMMA PushPuts ==
    ASSUME IInv, TypeOK', NEW u \in Pushers, Push(u), free = link[tmp[u]]
    PROVE  /\ OwnersInv'
           /\ tmp[u] \notin Rest /\ tmp[u] \in Returning /\ tmp[u] \in Nodes
           /\ Rest' = Rest \cup {tmp[u]} /\ Fresh' = Fresh /\ Carved' = Carved
           /\ free' = tmp[u] /\ link' = link
<1>1. /\ u \in Threads /\ u \notin Poppers
      /\ \A t \in Threads : t # u => pc'[t] = pc[t] /\ tmp'[t] = tmp[t]
      /\ \A t \in Poppers : pc'[t] = pc[t] /\ tmp'[t] = tmp[t]
      /\ nxt' = nxt /\ count' = count /\ Publishing' = Publishing /\ Carved' = Carved
  BY PusherAlone DEF Pusher
<1>2. TypeOK /\ pc \in [Threads -> AllocPc \cup FreePc]
  BY DEF IInv, TypeOK
<1>3. SetsAre /\ SetsAre'
  BY <1>2, SetsLemma, PTL
<1>4. /\ pc[u] = "pushcas" /\ pc'[u] = "idle" /\ tmp' = tmp
      /\ free' = tmp[u] /\ link' = link /\ held' = held
  BY <1>1, <1>2 DEF Push, Goto
<1>5. u \in Busy /\ Busy' = Busy \ {u} /\ \A t \in Busy : tmp'[t] = tmp[t]
  BY <1>1, <1>4 DEF Busy, Threads
<1>6. /\ tmp[u] \in Carved /\ tmp[u] \notin Fresh /\ held[tmp[u]] = 0
      /\ tmp[u] \in Nodes /\ tmp[u] # Null /\ tmp[u] \in Returning
      /\ \A t \in Busy : t # u => tmp[t] # tmp[u]
  <2>1. /\ tmp[u] \in Carved /\ tmp[u] \notin Fresh /\ held[tmp[u]] = 0
        /\ \A t \in Busy : t # u => tmp[t] # tmp[u]
    BY <1>5 DEF IInv, OwnInv
  <2>2. tmp[u] \in Nodes /\ tmp[u] \in Returning
    BY <1>3, <1>5, <2>1 DEF SetsAre
  <2>3. tmp[u] # Null
    BY <2>2, NodeCountNat DEF Null
  <2>4. QED BY <2>1, <2>2, <2>3
<1>7. Fresh' = Fresh
  <2>1. \A m : m \in Fresh' <=> m \in Fresh
    BY <1>1, <1>3 DEF SetsAre, First
  <2>2. QED BY <2>1
<1>8. tmp[u] \notin Rest /\ Rest' = Rest \cup {tmp[u]}
  <2>1. tmp[u] \notin Rest /\ tmp[u] \in Rest'
    BY <1>1, <1>3, <1>4, <1>5, <1>6, <1>7 DEF SetsAre
  <2>2. \A m : m # tmp[u] => (m \in Rest' <=> m \in Rest)
    BY <1>1, <1>3, <1>4, <1>5, <1>7 DEF SetsAre
  <2>3. QED BY <2>1, <2>2
<1>9. OwnInv'
  BY <1>1, <1>4, <1>5, <1>7 DEF IInv, OwnInv
<1>10. ListInv'
  BY <1>4, <1>6, <1>8 DEF IInv, ListInv
<1>11. PopInv' /\ FreshInv'
  BY <1>1, <1>4, <1>8 DEF IInv, PopInv, FreshInv, First
<1>12. QED BY <1>1, <1>4, <1>6, <1>7, <1>8, <1>9, <1>10, <1>11 DEF OwnersInv

-----------------------------------------------------------------------------
LEMMA OwnersStep == IInv /\ OnePopper /\ TypeOK' /\ [Next]_vars => OwnersInv'
<1> SUFFICES ASSUME IInv, OnePopper, TypeOK', [Next]_vars PROVE OwnersInv'
  OBVIOUS
<1>1. ASSUME NEW p \in Poppers, Popper(p) PROVE OwnersInv'
  BY <1>1, LookStep, GrowStep, PublishStep, PopFails, PopTakes DEF Popper
<1>2. ASSUME NEW u \in Pushers, Pusher(u) PROVE OwnersInv'
  BY <1>2, FreeStep, PushLinkStep, PushFails, PushPuts DEF Pusher
<1>3. CASE UNCHANGED vars
  <2>1. Busy' = Busy /\ Publishing' = Publishing /\ tmp' = tmp /\ TypeOK
    BY <1>3 DEF vars, Busy, Publishing, IInv
  <2>2. Rest' = Rest /\ Fresh' = Fresh /\ Carved' = Carved
    BY <1>3, <2>1, SetsStay DEF vars
  <2>3. QED
    BY <1>3, <2>1, <2>2
       DEF vars, IInv, OwnersInv, OwnInv, ListInv, PopInv, FreshInv, First
<1>4. QED BY <1>1, <1>2, <1>3 DEF Next

LEMMA IInvStep == IInv /\ OnePopper /\ [Next]_vars => IInv'
BY TypeStep, OwnersStep DEF IInv, OwnersInv

LEMMA Inductive == ASSUME OnePopper PROVE Spec => []IInv
<1>1. IInv /\ [Next]_vars => IInv'
  BY IInvStep
<1>2. QED BY <1>1, IInvInit, PTL DEF Spec

\* Types, for one thread that allocates and any number that free.
THEOREM TypeCorrect == ASSUME OnePopper PROVE Spec => []TypeOK
<1>1. IInv => TypeOK
  BY DEF IInv
<1>2. QED BY <1>1, Inductive, PTL

\* What is on the stack is at rest.
LEMMA StackAtRest == IInv => Stack \subseteq Rest
<1> SUFFICES ASSUME IInv PROVE Stack \subseteq Rest
  OBVIOUS
<1>1. (free # Null => free \in Rest) /\ Closed(Rest)
  BY DEF IInv, ListInv, Closed
<1>2. QED BY <1>1, StackIsLeast DEF StackLeast

\* With one thread that allocates a node has one owner, however many threads
\* give nodes back, and whatever the size and number of the blocks: a node is
\* never handed out twice, nor on the stack while somebody holds it.
THEOREM NodeOwned == ASSUME OnePopper PROVE Spec => []OneOwner
<1>1. IInv => OneOwner
  <2> SUFFICES ASSUME IInv PROVE OneOwner
    OBVIOUS
  <2>1. SetsAre /\ Stack \subseteq Rest
    BY SetsLemma, StackAtRest DEF IInv
  <2>2. \A n \in Held : held[n] = 1
    BY <2>1 DEF Held, IInv, OwnInv
  <2>3. Held \cap Stack = {} /\ Returning \cap Stack = {}
    BY <2>1 DEF Rest
  <2>4. Returning \cap Held = {}
    BY <2>1 DEF SetsAre, IInv, OwnInv
  <2>5. \A t, u \in Pushers :
           t # u /\ pc[t] # "idle" /\ pc[u] # "idle" => tmp[t] # tmp[u]
    BY DEF IInv, OwnInv, Busy
  <2>6. QED BY <2>2, <2>3, <2>4, <2>5 DEF OneOwner
<1>2. QED BY <1>1, Inductive, PTL

-----------------------------------------------------------------------------
(* Leaks.  What is at rest and not on the stack is lost. *)

LeakedAtRest == Leaked = Rest \ Stack

LEMMA LeakedIs == LeakedAtRest
BY DEF LeakedAtRest, Leaked, Rest, Carved

\* The facts about the stack before and after a step.
StackIs == /\ StackClosed /\ StackLeast /\ Stack \subseteq Rest
           /\ Leaked = Rest \ Stack

LEMMA StackFacts == IInv => StackIs
BY StackIsClosed, StackIsLeast, StackAtRest, LeakedIs DEF IInv, StackIs, LeakedAtRest

LEMMA StackStays ==
    ASSUME StackIs, StackIs', Rest' = Rest, free' = free,
           \A n \in Rest : link'[n] = link[n]
    PROVE  Leaked' = Leaked
<1>1. \A n \in Stack : link'[n] = link[n]
  BY DEF StackIs
<1>2. \A n \in Stack' : link'[n] = link[n]
  BY DEF StackIs
<1>3. Stack' \subseteq Stack
  <2>1. /\ free' # Null => free' \in Stack
        /\ \A n \in Stack : link'[n] # Null => link'[n] \in Stack
    BY <1>1 DEF StackIs, StackClosed, Closed
  <2>2. QED BY <2>1 DEF StackIs, StackLeast, Closed
<1>4. Stack \subseteq Stack'
  <2>1. /\ free # Null => free \in Stack'
        /\ \A n \in Stack' : link[n] # Null => link[n] \in Stack'
    BY <1>2 DEF StackIs, StackClosed, Closed
  <2>2. QED BY <2>1 DEF StackIs, StackLeast, Closed
<1>5. QED BY <1>3, <1>4 DEF StackIs

\* The top leaves the stack and rest together.
LEMMA PopLosesNothing ==
    ASSUME IInv, StackIs, StackIs', free \in Rest, Rest' = Rest \ {free},
           free' = link[free], link' = link, free # Null
    PROVE  Leaked' = Leaked
<1>0. free \in Stack
  BY DEF StackIs, StackClosed
<1>1. \A n \in Rest : link[n] # Null => link[n] # free
  BY DEF IInv, ListInv
<1>2. Stack' \subseteq Stack \ {free}
  <2>1. \A n \in Stack : link[n] # Null => link[n] \in Stack \ {free}
    BY <1>1 DEF StackIs, StackClosed, Closed
  <2>2. /\ free' # Null => free' \in Stack \ {free}
        /\ \A n \in Stack \ {free} : link'[n] # Null => link'[n] \in Stack \ {free}
    BY <1>0, <2>1
  <2>3. QED BY <2>2 DEF StackIs, StackLeast, Closed
<1>3. Stack \subseteq Stack' \cup {free}
  <2>1. \A n \in Stack' \cup {free} : link[n] # Null => link[n] \in Stack' \cup {free}
    BY DEF StackIs, StackClosed, Closed
  <2>2. QED BY <2>1 DEF StackIs, StackLeast, Closed
<1>4. QED BY <1>0, <1>2, <1>3 DEF StackIs

\* The node that comes to rest comes to be on the stack.
LEMMA PushLosesNothing ==
    ASSUME StackIs, StackIs', NEW x, x \notin Rest, x # Null, Rest' = Rest \cup {x},
           free' = x, link[x] = free, link' = link
    PROVE  Leaked' = Leaked
<1>0. x \notin Stack /\ x \in Stack'
  BY DEF StackIs, StackClosed
<1>1. Stack' \subseteq Stack \cup {x}
  <2>1. \A n \in Stack \cup {x} : link'[n] # Null => link'[n] \in Stack \cup {x}
    BY DEF StackIs, StackClosed, Closed
  <2>2. QED BY <2>1 DEF StackIs, StackLeast, Closed
<1>2. Stack \subseteq Stack'
  <2>1. /\ free # Null => free \in Stack'
        /\ \A n \in Stack' : link[n] # Null => link[n] \in Stack'
    BY <1>0 DEF StackIs, StackClosed, Closed
  <2>2. QED BY <2>1 DEF StackIs, StackLeast, Closed
<1>3. QED BY <1>0, <1>1, <1>2 DEF StackIs

\* Publishing over an empty stack puts the whole block on it.
LEMMA PublishLosesNothing ==
    ASSUME StackIs, StackIs', free = Null, link' = link, free' = First(count),
           First(count) \in 1..(count * Step), count * Step \in Nat,
           Fresh = First(count)..(count * Step), Rest' = Rest \cup Fresh,
           Rest \cap Fresh = {},
           \A n \in Fresh : link[n] = IF n = count * Step THEN Null ELSE n + 1
    PROVE  Leaked' = Leaked
<1>1. Stack = {}
  BY DEF StackIs, StackLeast, Closed
<1>2. Stack' \subseteq Fresh
  <2>1. /\ free' \in Fresh
        /\ \A n \in Fresh : link'[n] # Null => link'[n] \in Fresh
    BY DEF Null
  <2>2. QED BY <2>1 DEF StackIs, StackLeast, Closed
<1>3. Fresh \subseteq Stack'
  <2> DEFINE Off == {n \in Fresh : n \notin Stack'}
  <2> SUFFICES ASSUME Off # {} PROVE FALSE
    OBVIOUS
  <2>1. Off \in SUBSET Nat
    OBVIOUS
  <2>2. PICK n \in Off : \A m \in Off : n <= m
    BY <2>1, LeastNat
  <2>3. free' \in Stack'
    BY DEF StackIs, StackClosed, Null
  <2>4. n \in Fresh /\ n \notin Stack' /\ n # First(count)
    BY <2>2, <2>3
  <2>5. n - 1 \in Fresh /\ n - 1 # count * Step /\ ~(n <= n - 1) /\ n # Null
    BY <2>4 DEF Null
  <2>6. n - 1 \in Stack'
    BY <2>2, <2>5
  <2>7. link'[n - 1] = n
    BY <2>5
  <2>8. QED BY <2>4, <2>5, <2>6, <2>7 DEF StackIs, StackClosed, Closed
<1>4. QED BY <1>1, <1>2, <1>3 DEF StackIs

LEMMA LeakStep ==
    ASSUME IInv, IInv', OnePopper, [Next]_vars, Leaked' # Leaked
    PROVE  free # Null /\ \E t \in Poppers : Publish(t)
<1>0. TypeOK' /\ StackIs /\ StackIs' /\ SetsAre /\ SetsAre'
  BY StackFacts, SetsLemma, PTL DEF IInv
<1>1. ASSUME NEW p \in Poppers, AllocTest(p) \/ Load(p) \/ LoadNext(p)
      PROVE  FALSE
  <2>1. /\ Busy' = Busy /\ \A u \in Busy : tmp'[u] = tmp[u]
        /\ Publishing <=> pc[p] = "publish"
        /\ Publishing' <=> pc'[p] = "publish"
    BY <1>1, PopperAlone DEF Popper
  <2>2. /\ free' = free /\ link' = link /\ count' = count /\ held' = held
        /\ pc[p] # "publish" /\ pc'[p] # "publish"
    <3>1. pc \in [Threads -> AllocPc \cup FreePc] /\ p \in Threads
      BY DEF IInv, TypeOK, Threads
    <3>2. QED BY <1>1, <3>1 DEF AllocTest, Load, LoadNext, Goto
  <2>3. Publishing' = Publishing /\ TypeOK
    BY <2>1, <2>2 DEF Publishing, IInv
  <2>4. Rest' = Rest
    BY <1>0, <2>1, <2>2, <2>3, SetsStay
  <2>5. QED BY <1>0, <2>2, <2>4, StackStays
<1>2. ASSUME NEW p \in Poppers, Grow(p) PROVE FALSE
  <2>1. Rest' = Rest /\ free' = free /\ \A n \in Rest : link'[n] = link[n]
    BY <1>0, <1>2, GrowStep DEF Grow
  <2>2. QED BY <1>0, <2>1, StackStays
<1>3. ASSUME NEW p \in Poppers, Publish(p) PROVE free # Null
  <2> SUFFICES ASSUME free = Null PROVE FALSE
    OBVIOUS
  <2>1. Rest \cap Fresh = {}
    BY <1>0 DEF SetsAre
  <2>2. QED BY <1>0, <1>3, <2>1, PublishStep, PublishLosesNothing
<1>4. ASSUME NEW p \in Poppers, Pop(p) PROVE FALSE
  <2>1. CASE free # tmp[p]
    <3>1. Rest' = Rest /\ free' = free /\ link' = link
      BY <1>0, <1>4, <2>1, PopFails
    <3>2. QED BY <1>0, <3>1, StackStays
  <2>2. CASE free = tmp[p]
    <3>1. free \in Rest /\ Rest' = Rest \ {free} /\ free' = link[free] /\ link' = link
      BY <1>0, <1>4, <2>2, PopTakes
    <3>2. free # Null
      <4>1. free \in Nodes
        BY <1>0, <3>1 DEF SetsAre
      <4>2. QED BY <4>1, NodeCountNat DEF Null
    <3>3. QED BY <1>0, <3>1, <3>2, PopLosesNothing
  <2>3. QED BY <2>1, <2>2
<1>5. ASSUME NEW u \in Pushers, Pusher(u) PROVE FALSE
  <2>1. ASSUME NEW n \in Nodes, Free(u, n) PROVE FALSE
    <3>1. Rest' = Rest /\ free' = free /\ link' = link
      BY <1>0, <2>1, FreeStep
    <3>2. QED BY <1>0, <3>1, StackStays
  <2>2. CASE PushLink(u)
    <3>1. Rest' = Rest /\ free' = free /\ \A n \in Rest : link'[n] = link[n]
      BY <1>0, <2>2, PushLinkStep
    <3>2. QED BY <1>0, <3>1, StackStays
  <2>3. CASE Push(u) /\ free # link[tmp[u]]
    <3>1. Rest' = Rest /\ free' = free /\ link' = link
      BY <1>0, <2>3, PushFails
    <3>2. QED BY <1>0, <3>1, StackStays
  <2>4. CASE Push(u) /\ free = link[tmp[u]]
    <3>1. /\ tmp[u] \notin Rest /\ tmp[u] \in Nodes /\ Rest' = Rest \cup {tmp[u]}
          /\ free' = tmp[u] /\ link' = link
      BY <1>0, <2>4, PushPuts
    <3>2. PICK x \in Nodes : x = tmp[u]
      BY <3>1
    <3>3. x # Null
      BY NodeCountNat DEF Null
    <3>4. QED BY <1>0, <2>4, <3>1, <3>2, <3>3, PushLosesNothing
  <2>5. QED BY <1>5, <2>1, <2>2, <2>3, <2>4 DEF Pusher
<1>6. CASE UNCHANGED vars
  <2>1. Busy' = Busy /\ Publishing' = Publishing /\ tmp' = tmp /\ TypeOK
    BY <1>6 DEF vars, Busy, Publishing, IInv
  <2>2. Rest' = Rest
    BY <1>0, <1>6, <2>1, SetsStay DEF vars
  <2>3. QED BY <1>0, <1>6, <2>2, StackStays DEF vars
<1>7. \E t \in Poppers : Publish(t)
  BY <1>1, <1>2, <1>4, <1>5, <1>6 DEF Next, Popper
<1>8. QED BY <1>3, <1>7

\* Nodes get lost in no other step than the publication of a block over a stack
\* that was refilled meanwhile, the one a FIXME in Mpool_alloc names.
THEOREM LeakNamed == ASSUME OnePopper PROVE Spec => LeakOnlyAtPublish
<1>1. IInv /\ IInv' /\ [Next]_vars
        => [Leaked' # Leaked => free # Null /\ \E t \in Poppers : Publish(t)]_vars
  BY LeakStep
<1>2. QED BY <1>1, Inductive, PTL DEF Spec, LeakOnlyAtPublish

-----------------------------------------------------------------------------
(* The pool of threads.  The workers first: who sleeps, who has ended. *)

WorkersInv ==
    /\ \A w \in Workers : w \in waiting <=> wpc[w] = "wait"
    /\ joined <= current_num
    /\ \A w \in Workers : /\ w <= joined => wpc[w] = "done"
                          /\ w > current_num => wpc[w] = "none"
    /\ mpc = "freed" => joined = current_num
    /\ mpc = "push" => added < MaxTasks

\* The list of tasks: f are its nodes in order.  They hold the numbers of the
\* tasks that were added and not yet taken, and no other cell holds anything.
Chain(f) ==
    /\ f \in [1..queue.length -> Tasks]
    /\ \A i, j \in DOMAIN f : f[i] = f[j] => i = j
    /\ queue.length # 0 => f[1] = queue.head /\ f[queue.length] = queue.tail
    /\ \A i \in 1..(queue.length - 1) : queue.next[f[i]] = f[i + 1]
    /\ \A a \in Tasks : queue.data[a] # None => \E i \in DOMAIN f : a = f[i]
    /\ \A i \in DOMAIN f : queue.data[f[i]] = Len(taken) + i
TasksInv ==
    /\ Len(taken) + queue.length = added
    /\ \A k \in DOMAIN taken : taken[k] = k
    /\ \E f : Chain(f)
QueueInv == IF mpc = "freed" THEN Allocated(queue) = {} ELSE TasksInv

TpoolInv == TpoolTypeOK /\ WorkersInv /\ QueueInv

LEMMA TasksAre ==
    /\ None \notin Tasks /\ None \notin Workers /\ Main \notin Workers /\ None # Main
    /\ \A k \in Nat : k + 1 <= MaxTasks => k + 1 \in Tasks
    /\ MaxTasks \in Nat /\ Num \in Nat
BY NumAssumption, MainAssumption DEF Tasks, Workers

\* The walk over a list is the one function that follows its links.
LEMMA WalkIs ==
    ASSUME NEW list, NEW n \in Nat, list.length = n, NEW f,
           f = [i \in 1..n |-> IF i = 1 THEN list.head ELSE list.next[f[i - 1]]]
    PROVE  Walk(list) = f
<1> DEFINE P(g) == g = [i \in 1..n |-> IF i = 1 THEN list.head ELSE list.next[g[i - 1]]]
<1>1. ASSUME NEW g, P(g) PROVE g = f
  <2> DEFINE Bad == {i \in 1..n : g[i] # f[i]}
  <2>1. Bad = {}
    <3> SUFFICES ASSUME Bad # {} PROVE FALSE
      OBVIOUS
    <3>1. PICK i \in Bad : \A j \in Bad : i <= j
      <4>1. Bad \in SUBSET Nat
        OBVIOUS
      <4> HIDE DEF Bad
      <4>2. QED BY <4>1, LeastNat
    <3>2. i \in 1..n /\ g[i] # f[i]
      BY <3>1
    <3>3. i # 1 => i - 1 \in 1..n /\ g[i - 1] = f[i - 1]
      <4>1. i # 1 => i - 1 \in 1..n /\ ~(i <= i - 1)
        BY <3>2
      <4>2. QED BY <3>1, <4>1
    <3>4. g[i] = IF i = 1 THEN list.head ELSE list.next[g[i - 1]]
      BY <1>1, <3>2
    <3>5. f[i] = IF i = 1 THEN list.head ELSE list.next[f[i - 1]]
      BY <3>2
    <3>6. QED BY <3>2, <3>3, <3>4, <3>5
  <2>2. \A i \in 1..n : g[i] = f[i]
    BY <2>1
  <2>3. /\ g = [i \in 1..n |-> g[i]]
        /\ f = [i \in 1..n |-> f[i]]
    BY <1>1
  <2>4. QED BY ONLY <2>2, <2>3
<1>2. P(Walk(list))
  <2>1. \E g : P(g)
    OBVIOUS
  <2>2. Walk(list) = CHOOSE g : P(g)
    BY DEF Walk
  <2> HIDE DEF P
  <2>3. QED BY ONLY <2>1, <2>2
<1>3. QED BY <1>1, <1>2

LEMMA ContentIs ==
    ASSUME TpoolTypeOK, NEW f, Chain(f)
    PROVE  /\ Walk(queue) = f
           /\ Content(queue) = [i \in 1..queue.length |-> Len(taken) + i]
<1>1. PICK n \in Nat : n = queue.length /\ n <= MaxTasks
  BY TasksAre DEF TpoolTypeOK
<1>2. f \in [1..n -> Tasks]
  BY <1>1 DEF Chain
<1>3. \A i \in 1..n : f[i] = IF i = 1 THEN queue.head ELSE queue.next[f[i - 1]]
  <2> TAKE i \in 1..n
  <2>1. CASE i = 1
    BY <1>1, <2>1 DEF Chain
  <2>2. CASE i # 1
    <3>1. i - 1 \in 1..(n - 1) /\ (i - 1) + 1 = i
      BY <2>2
    <3>2. queue.next[f[i - 1]] = f[(i - 1) + 1]
      BY <1>1, <3>1 DEF Chain
    <3>3. QED BY <2>2, <3>1, <3>2
  <2>3. QED BY <2>1, <2>2
<1>4. f = [i \in 1..n |-> IF i = 1 THEN queue.head ELSE queue.next[f[i - 1]]]
  BY <1>2, <1>3
<1>5. Walk(queue) = f
  BY <1>1, <1>4, WalkIs
<1>6. \A i \in 1..n : queue.data[f[i]] = Len(taken) + i
  BY <1>1, <1>2 DEF Chain
<1>7. QED BY <1>1, <1>5, <1>6 DEF Content

\* malloc: as long as not all tasks were added, some cell is free.
LEMMA CellFree ==
    ASSUME TpoolTypeOK, NEW f, Chain(f), queue.length < MaxTasks
    PROVE  \E a \in Tasks : a \notin Allocated(queue)
<1> SUFFICES ASSUME Tasks \subseteq Allocated(queue) PROVE FALSE
  OBVIOUS
<1>1. PICK n \in Nat : n = queue.length /\ n < MaxTasks
  BY DEF TpoolTypeOK
<1>2. f \in [1..n -> Tasks] /\ \A a \in Tasks : \E i \in 1..n : f[i] = a
  BY <1>1 DEF Chain, Allocated
<1>3. IsFiniteSet(1..n) /\ Cardinality(1..n) = n
  BY FS_Interval
<1>4. f \in Surjection(1..n, Tasks)
  BY <1>2 DEF Surjection
<1>5. IsFiniteSet(Tasks) /\ Cardinality(Tasks) <= n
  BY <1>3, <1>4, FS_Surjection
<1>6. Cardinality(Tasks) = MaxTasks
  BY TasksAre, FS_Interval DEF Tasks
<1>7. QED BY <1>1, <1>5, <1>6, TasksAre

LEMMA QueueType ==
    ASSUME NEW q, NEW n \in 0..MaxTasks, NEW h \in Tasks \cup {None}, NEW t \in Tasks \cup {None},
           NEW next \in [Tasks \cup {None} -> Tasks \cup {None}],
           NEW data \in [Tasks \cup {None} -> Tasks \cup {None}],
           q = [length |-> n, head |-> h, tail |-> t, next |-> next, data |-> data]
    PROVE  q \in [length : 0..MaxTasks, head : Tasks \cup {None}, tail : Tasks \cup {None},
                  next : [Tasks \cup {None} -> Tasks \cup {None}],
                  data : [Tasks \cup {None} -> Tasks \cup {None}]]
OBVIOUS

LEMMA PushIs ==
    ASSUME TpoolTypeOK, NEW d, \E a \in Tasks : a \notin Allocated(queue)
    PROVE  LET q == List_push(queue, d)
           IN  \E p \in Tasks :
                 /\ queue.data[p] = None
                 /\ q = [length |-> queue.length + 1,
                         head |-> IF queue.length = 0 THEN p ELSE queue.head,
                         tail |-> p,
                         next |-> IF queue.length = 0 THEN queue.next
                                  ELSE [queue.next EXCEPT ![queue.tail] = p],
                         data |-> [queue.data EXCEPT ![p] = d]]
<1> DEFINE p == CHOOSE a \in Tasks \ Allocated(queue) : TRUE
<1>1. p \in Tasks /\ queue.data[p] = None
  BY DEF Allocated
<1>2. List_push(queue, d) =
        [queue EXCEPT !.data[p] = d,
                     !.head = IF queue.length = 0 THEN p ELSE @,
                     !.next = IF queue.length = 0 THEN @
                              ELSE [@ EXCEPT ![queue.tail] = p],
                     !.tail = p,
                     !.length = @ + 1]
  BY DEF List_push
<1> HIDE DEF p
<1>3. QED BY <1>1, <1>2 DEF TpoolTypeOK

\* Tpool_addwork: the new node is the last.
LEMMA PushChain ==
    ASSUME TpoolTypeOK, TasksInv, added < MaxTasks,
           queue' = List_push(queue, added + 1), added' = added + 1, taken' = taken
    PROVE  TasksInv' /\ TpoolTypeOK!3'
<1>1. PICK f : Chain(f)
  BY DEF TasksInv
<1>2. PICK n \in Nat : n = queue.length /\ n <= MaxTasks
  BY TasksAre DEF TpoolTypeOK
<1>3. PICK t \in Nat : t = Len(taken)
  BY DEF TpoolTypeOK
<1>4. added = t + n /\ n < MaxTasks /\ added + 1 \in Tasks
  BY <1>2, <1>3, TasksAre DEF TasksInv, Tasks
<1>5. \E a \in Tasks : a \notin Allocated(queue)
  BY <1>1, <1>2, <1>4, CellFree
<1>6. PICK p \in Tasks :
        /\ queue.data[p] = None
        /\ List_push(queue, added + 1) =
             [length |-> queue.length + 1,
              head |-> IF queue.length = 0 THEN p ELSE queue.head,
              tail |-> p,
              next |-> IF queue.length = 0 THEN queue.next
                       ELSE [queue.next EXCEPT ![queue.tail] = p],
              data |-> [queue.data EXCEPT ![p] = added + 1]]
  BY <1>5, PushIs
<1>7. /\ queue'.length = n + 1
      /\ queue'.head = IF n = 0 THEN p ELSE queue.head
      /\ queue'.tail = p
      /\ queue'.next = IF n = 0 THEN queue.next ELSE [queue.next EXCEPT ![queue.tail] = p]
      /\ queue'.data = [queue.data EXCEPT ![p] = t + n + 1]
  BY <1>2, <1>4, <1>6
<1>8. /\ queue.next \in [Tasks \cup {None} -> Tasks \cup {None}]
      /\ queue.data \in [Tasks \cup {None} -> Tasks \cup {None}]
      /\ queue.head \in Tasks \cup {None}
  BY DEF TpoolTypeOK
<1>9. TpoolTypeOK!3'
  <2>1. queue'.next \in [Tasks \cup {None} -> Tasks \cup {None}]
    BY <1>7, <1>8
  <2>2. queue'.data \in [Tasks \cup {None} -> Tasks \cup {None}]
    BY <1>4, <1>7, <1>8
  <2>3. n + 1 \in 0..MaxTasks
    BY <1>2, <1>4, TasksAre
  <2>4. queue' = [length |-> queue'.length, head |-> queue'.head, tail |-> queue'.tail,
                  next |-> queue'.next, data |-> queue'.data]
    BY <1>6
  <2>5. /\ queue'.length \in 0..MaxTasks /\ queue'.head \in Tasks \cup {None}
        /\ queue'.tail \in Tasks \cup {None}
    BY <2>3, <1>7, <1>8
  <2>6. QED BY ONLY <2>1, <2>2, <2>4, <2>5, QueueType
<1>10. /\ f \in [1..n -> Tasks]
       /\ \A i, j \in 1..n : f[i] = f[j] => i = j
       /\ n # 0 => f[1] = queue.head /\ f[n] = queue.tail
       /\ \A i \in 1..(n - 1) : queue.next[f[i]] = f[i + 1]
       /\ \A a \in Tasks : queue.data[a] # None => \E i \in 1..n : a = f[i]
       /\ \A i \in 1..n : queue.data[f[i]] = t + i
  BY <1>1, <1>2, <1>3 DEF Chain
<1>11. \A i \in 1..n : f[i] # p
  <2>1. \A i \in 1..n : t + i # None
    <3>1. \A i \in 1..n : t + i \in Tasks
      BY <1>4, TasksAre DEF Tasks
    <3>2. QED BY <3>1, TasksAre
  <2>2. QED BY <1>6, <1>10, <2>1
<1> DEFINE g == [i \in 1..(n + 1) |-> IF i = n + 1 THEN p ELSE f[i]]
<1>12. /\ g \in [1..(n + 1) -> Tasks] /\ DOMAIN g = 1..(n + 1)
       /\ g[n + 1] = p
       /\ \A i \in 1..n : i \in 1..(n + 1) /\ g[i] = f[i]
       /\ \A i \in 1..(n + 1) : i = n + 1 \/ i \in 1..n
  BY <1>10
<1> HIDE DEF g
<1>13. \A i, j \in 1..(n + 1) : g[i] = g[j] => i = j
  BY <1>10, <1>11, <1>12
<1>14. g[1] = queue'.head /\ g[n + 1] = queue'.tail
  <2>1. CASE n = 0
    BY <2>1, <1>7, <1>12
  <2>2. CASE n # 0
    <3>1. 1 \in 1..n
      BY <2>2
    <3>2. QED BY <3>1, <2>2, <1>7, <1>10, <1>12
  <2>3. QED BY <2>1, <2>2
<1>15. \A i \in 1..n : queue'.next[g[i]] = g[i + 1]
  <2> TAKE i \in 1..n
  <2>1. n # 0 /\ n \in 1..n
    OBVIOUS
  <2>2. queue'.next = [queue.next EXCEPT ![f[n]] = p]
    BY <2>1, <1>7, <1>10
  <2>3. CASE i = n
    BY <2>2, <2>3, <1>8, <1>10, <1>12
  <2>4. CASE i # n
    <3>1. i \in 1..(n - 1) /\ i + 1 \in 1..n
      BY <2>4
    <3>2. queue.next[f[i]] = f[i + 1] /\ f[i] # f[n]
      BY <3>1, <2>1, <2>4, <1>10
    <3>3. QED BY <3>1, <3>2, <2>2, <1>8, <1>10, <1>12
  <2>5. QED BY <2>3, <2>4
<1>16. \A a \in Tasks : queue'.data[a] # None => \E i \in 1..(n + 1) : a = g[i]
  <2> TAKE a \in Tasks
  <2>1. CASE a = p
    <3>1. n + 1 \in 1..(n + 1)
      OBVIOUS
    <3>2. QED BY <3>1, <2>1, <1>12
  <2>2. CASE a # p
    <3>1. queue'.data[a] = queue.data[a]
      BY <2>2, <1>7, <1>8
    <3>2. QED BY <3>1, <1>10, <1>12
  <2>3. QED BY <2>1, <2>2
<1>17. \A i \in 1..(n + 1) : queue'.data[g[i]] = t + i
  <2> TAKE i \in 1..(n + 1)
  <2>1. CASE i = n + 1
    BY <2>1, <1>7, <1>8, <1>12
  <2>2. CASE i # n + 1
    <3>1. i \in 1..n /\ g[i] = f[i] /\ f[i] # p /\ f[i] \in Tasks
      BY <2>2, <1>10, <1>11, <1>12
    <3>2. queue'.data[f[i]] = queue.data[f[i]]
      BY <3>1, <1>7, <1>8
    <3>3. QED BY <3>1, <3>2, <1>10
  <2>3. QED BY <2>1, <2>2
<1>18. Chain(g)'
  <2>1. queue'.length = n + 1 /\ Len(taken') = t
    BY <1>3, <1>7
  <2>2. \A i \in 1..((n + 1) - 1) : queue'.next[g[i]] = g[i + 1]
    BY <1>15
  <2>3. /\ g \in [1..queue'.length -> Tasks]
        /\ \A i, j \in DOMAIN g : g[i] = g[j] => i = j
        /\ g[1] = queue'.head /\ g[queue'.length] = queue'.tail
    BY ONLY <2>1, <1>12, <1>13, <1>14
  <2>4. \A i \in 1..(queue'.length - 1) : queue'.next[g[i]] = g[i + 1]
    BY ONLY <2>1, <2>2
  <2>5. /\ \A a \in Tasks : queue'.data[a] # None => \E i \in DOMAIN g : a = g[i]
        /\ \A i \in DOMAIN g : queue'.data[g[i]] = Len(taken') + i
    BY ONLY <2>1, <1>12, <1>16, <1>17
  <2>6. QED BY ONLY <2>3, <2>4, <2>5 DEF Chain
<1>19. t + (n + 1) = added'
  BY <1>4
<1>20. QED BY <1>3, <1>7, <1>9, <1>18, <1>19 DEF TasksInv

\* A worker takes a task: the first node goes, and the numbers move on by one.
LEMMA PopChain ==
    ASSUME TpoolTypeOK, TasksInv, ~List_empty(queue),
           queue' = List_popleft(queue), added' = added,
           taken' = Append(taken, List_first(queue))
    PROVE  TasksInv' /\ TpoolTypeOK!3' /\ taken' \in Seq(Tasks) /\ Len(taken') <= MaxTasks
<1>1. PICK f : Chain(f)
  BY DEF TasksInv
<1>2. PICK n \in Nat : n = queue.length /\ n <= MaxTasks /\ n # 0
  BY TasksAre DEF TpoolTypeOK, List_empty
<1>3. PICK t \in Nat : t = Len(taken)
  BY DEF TpoolTypeOK
<1>4. added = t + n /\ added <= MaxTasks /\ n <= MaxTasks /\ t + 1 <= MaxTasks
  BY <1>2, <1>3, TasksAre DEF TasksInv, TpoolTypeOK
<1>5. /\ queue.next \in [Tasks \cup {None} -> Tasks \cup {None}]
      /\ queue.data \in [Tasks \cup {None} -> Tasks \cup {None}]
      /\ queue.tail \in Tasks \cup {None}
  BY DEF TpoolTypeOK
<1>6. /\ f \in [1..n -> Tasks]
      /\ \A i, j \in 1..n : f[i] = f[j] => i = j
      /\ f[1] = queue.head /\ f[n] = queue.tail
      /\ \A i \in 1..(n - 1) : queue.next[f[i]] = f[i + 1]
      /\ \A a \in Tasks : queue.data[a] # None => \E i \in 1..n : a = f[i]
      /\ \A i \in 1..n : queue.data[f[i]] = t + i
  BY <1>1, <1>2, <1>3 DEF Chain
<1>7. 1 \in 1..n /\ f[1] \in Tasks
  BY <1>2, <1>6
<1>8. /\ queue'.length = n - 1
      /\ queue'.head = IF n = 1 THEN None ELSE queue.next[f[1]]
      /\ queue'.tail = IF n = 1 THEN None ELSE queue.tail
      /\ queue'.next = [queue.next EXCEPT ![f[1]] = None]
      /\ queue'.data = [queue.data EXCEPT ![f[1]] = None]
      /\ queue' = [length |-> queue'.length, head |-> queue'.head, tail |-> queue'.tail,
                   next |-> queue'.next, data |-> queue'.data]
  BY <1>2, <1>6 DEF TpoolTypeOK, List_popleft, Release
<1>9. TpoolTypeOK!3'
  <2> DEFINE N == queue.next
             D == queue.data
             p == f[1]
  <2>1. N \in [Tasks \cup {None} -> Tasks \cup {None}] /\ D \in [Tasks \cup {None} -> Tasks \cup {None}]
    BY <1>5
  <2>2. queue'.next = [N EXCEPT ![p] = None] /\ queue'.data = [D EXCEPT ![p] = None]
    BY <1>8
  <2> HIDE DEF N, D, p
  <2>3. queue'.next \in [Tasks \cup {None} -> Tasks \cup {None}]
    BY <2>1, <2>2
  <2>4. queue'.data \in [Tasks \cup {None} -> Tasks \cup {None}]
    BY <2>1, <2>2
  <2> USE DEF N, D, p
  <2>5. n - 1 \in 0..MaxTasks
    BY <1>2, TasksAre
  <2>6. queue'.head \in Tasks \cup {None} /\ queue'.tail \in Tasks \cup {None}
    BY <1>5, <1>7, <1>8
  <2>7. /\ queue'.length \in 0..MaxTasks
        /\ queue' = [length |-> queue'.length, head |-> queue'.head, tail |-> queue'.tail,
                     next |-> queue'.next, data |-> queue'.data]
    BY <2>5, <1>8
  <2>8. QED BY ONLY <2>3, <2>4, <2>6, <2>7, QueueType
<1>10. List_first(queue) = t + 1 /\ t + 1 \in Tasks
  BY <1>3, <1>4, <1>6, <1>7, TasksAre DEF List_first
<1>11. taken' = Append(taken, t + 1) /\ taken \in Seq(Tasks) /\ taken' \in Seq(Tasks)
  BY <1>10 DEF TpoolTypeOK
<1>12. /\ Len(taken') = t + 1 /\ taken'[t + 1] = t + 1
       /\ \A k \in 1..t : taken'[k] = taken[k]
       /\ DOMAIN taken' = 1..(t + 1) /\ DOMAIN taken = 1..t
  BY <1>3, <1>10, <1>11
<1>13. \A k \in 1..(t + 1) : taken'[k] = k
  <2>1. \A k \in 1..(t + 1) : k = t + 1 \/ k \in 1..t
    OBVIOUS
  <2>2. QED BY <2>1, <1>12 DEF TasksInv
<1> DEFINE g == [i \in 1..(n - 1) |-> f[i + 1]]
<1>14. \A i \in 1..(n - 1) : i + 1 \in 1..n /\ i \in 1..n /\ i + 1 # 1
  OBVIOUS
<1>15. g \in [1..(n - 1) -> Tasks] /\ \A i \in 1..(n - 1) : g[i] = f[i + 1]
  BY <1>6, <1>14
<1> HIDE DEF g
<1>16. \A i \in 1..(n - 1) : g[i] \in Tasks /\ g[i] # f[1]
  <2> TAKE i \in 1..(n - 1)
  <2>1. i + 1 \in 1..n /\ 1 \in 1..n /\ i + 1 # 1 /\ g[i] = f[i + 1]
    BY <1>7, <1>14, <1>15
  <2>2. f[i + 1] # f[1] /\ f[i + 1] \in Tasks
    BY <2>1, <1>6
  <2>3. QED BY <2>1, <2>2
<1>17. \A i, j \in 1..(n - 1) : g[i] = g[j] => i = j
  <2> SUFFICES ASSUME NEW i \in 1..(n - 1), NEW j \in 1..(n - 1), g[i] = g[j] PROVE i = j
    OBVIOUS
  <2>1. i + 1 = j + 1
    BY <1>6, <1>14, <1>15
  <2>2. QED BY <2>1
<1>18. n - 1 # 0 => g[1] = queue'.head /\ g[n - 1] = queue'.tail
  <2> SUFFICES ASSUME n - 1 # 0 PROVE g[1] = queue'.head /\ g[n - 1] = queue'.tail
    OBVIOUS
  <2>1. 1 \in 1..(n - 1) /\ n - 1 \in 1..(n - 1) /\ (n - 1) + 1 = n /\ n # 1
    BY <1>2
  <2>2. g[1] = f[1 + 1] /\ g[n - 1] = f[n]
    BY <2>1, <1>15
  <2>3. queue.next[f[1]] = f[1 + 1] /\ f[n] = queue.tail
    BY <2>1, <1>6
  <2>4. queue'.head = queue.next[f[1]] /\ queue'.tail = queue.tail
    BY <2>1, <1>8
  <2>5. QED BY ONLY <2>2, <2>3, <2>4
<1>19. \A i \in 1..((n - 1) - 1) : queue'.next[g[i]] = g[i + 1]
  <2> TAKE i \in 1..((n - 1) - 1)
  <2>1. i \in 1..(n - 1) /\ i + 1 \in 1..(n - 1)
    OBVIOUS
  <2>2. queue'.next[g[i]] = queue.next[g[i]]
    BY <2>1, <1>5, <1>8, <1>16
  <2>3. QED BY <2>1, <2>2, <1>6, <1>15
<1>20. \A a \in Tasks : queue'.data[a] # None => \E i \in 1..(n - 1) : a = g[i]
  <2> SUFFICES ASSUME NEW a \in Tasks, queue'.data[a] # None
               PROVE  \E i \in 1..(n - 1) : a = g[i]
    OBVIOUS
  <2>1. a # f[1] /\ queue.data[a] # None
    BY <1>5, <1>7, <1>8
  <2>2. PICK i \in 1..n : a = f[i]
    BY <2>1, <1>6
  <2>3. i - 1 \in 1..(n - 1) /\ (i - 1) + 1 = i
    BY <2>1, <2>2
  <2>4. g[i - 1] = a
    BY <2>2, <2>3, <1>15
  <2>5. QED BY <2>3, <2>4
<1>21. \A i \in 1..(n - 1) : queue'.data[g[i]] = (t + 1) + i
  <2> TAKE i \in 1..(n - 1)
  <2>1. queue'.data[g[i]] = queue.data[g[i]]
    BY <1>5, <1>8, <1>16
  <2>2. g[i] = f[i + 1] /\ i + 1 \in 1..n
    BY <1>14, <1>15
  <2>3. queue.data[f[i + 1]] = t + (i + 1)
    BY <2>2, <1>6
  <2>4. QED BY <2>1, <2>2, <2>3
<1>22. Chain(g)'
  <2>1. queue'.length = n - 1 /\ Len(taken') = t + 1 /\ DOMAIN g = 1..(n - 1)
    BY <1>8, <1>12, <1>15
  <2>2. /\ g \in [1..queue'.length -> Tasks]
        /\ \A i, j \in DOMAIN g : g[i] = g[j] => i = j
        /\ queue'.length # 0 => g[1] = queue'.head /\ g[queue'.length] = queue'.tail
    BY ONLY <2>1, <1>15, <1>17, <1>18
  <2>3. \A i \in 1..(queue'.length - 1) : queue'.next[g[i]] = g[i + 1]
    BY ONLY <2>1, <1>19
  <2>4. /\ \A a \in Tasks : queue'.data[a] # None => \E i \in DOMAIN g : a = g[i]
        /\ \A i \in DOMAIN g : queue'.data[g[i]] = Len(taken') + i
    BY ONLY <2>1, <1>20, <1>21
  <2>5. QED BY ONLY <2>2, <2>3, <2>4 DEF Chain
<1>23. (t + 1) + (n - 1) = added'
  BY <1>4
<1>24. TasksInv'
  <2>1. Len(taken') + queue'.length = added'
    BY <1>8, <1>12, <1>23
  <2>2. \A k \in DOMAIN taken' : taken'[k] = k
    BY ONLY <1>12, <1>13
  <2>3. QED BY ONLY <2>1, <2>2, <1>22 DEF TasksInv
<1>25. QED BY <1>4, <1>9, <1>11, <1>12, <1>24

\* List_free passes every node that is in use.
LEMMA FreeEmpties ==
    ASSUME TpoolTypeOK, TasksInv, queue' = List_free(queue)
    PROVE  Allocated(queue') = {} /\ TpoolTypeOK!3'
<1>1. PICK f : Chain(f)
  BY DEF TasksInv
<1>2. Walk(queue) = f
  BY <1>1, ContentIs
<1> DEFINE R == {f[i] : i \in 1..queue.length}
           Kept(h) == [a \in DOMAIN h |-> IF a \in R THEN None ELSE h[a]]
<1>3. queue' = [queue EXCEPT !.next = Kept(@), !.data = Kept(@), !.length = 0]
  BY <1>2 DEF List_free
<1>4. \A a \in Tasks : queue.data[a] # None => a \in R
  BY <1>1 DEF Chain
<1> HIDE DEF R
<1>5. /\ queue'.next \in [Tasks \cup {None} -> Tasks \cup {None}]
      /\ queue'.data \in [Tasks \cup {None} -> Tasks \cup {None}]
      /\ \A a \in Tasks : queue'.data[a] = IF a \in R THEN None ELSE queue.data[a]
      /\ queue'.length = 0 /\ queue'.head = queue.head /\ queue'.tail = queue.tail
      /\ queue' = [length |-> queue'.length, head |-> queue'.head, tail |-> queue'.tail,
                   next |-> queue'.next, data |-> queue'.data]
  <2> DEFINE N == queue.next
             D == queue.data
  <2>1. N \in [Tasks \cup {None} -> Tasks \cup {None}] /\ D \in [Tasks \cup {None} -> Tasks \cup {None}]
    BY DEF TpoolTypeOK
  <2>2. /\ queue'.next = Kept(N) /\ queue'.data = Kept(D)
        /\ queue'.length = 0 /\ queue'.head = queue.head /\ queue'.tail = queue.tail
        /\ queue' = [length |-> queue'.length, head |-> queue'.head, tail |-> queue'.tail,
                     next |-> queue'.next, data |-> queue'.data]
    BY <1>3 DEF TpoolTypeOK
  <2>3. \A a \in Tasks : queue'.data[a] = IF a \in R THEN None ELSE D[a]
    BY <2>1, <2>2
  <2> HIDE DEF N, D
  <2>4. Kept(N) \in [Tasks \cup {None} -> Tasks \cup {None}]
    BY <2>1
  <2>5. Kept(D) \in [Tasks \cup {None} -> Tasks \cup {None}]
    BY <2>1
  <2>6. QED BY <2>2, <2>3, <2>4, <2>5 DEF D
<1>6. \A a \in Tasks : queue'.data[a] = None
  BY <1>4, <1>5
<1>7. Allocated(queue') = {}
  BY <1>6 DEF Allocated
<1>8. TpoolTypeOK!3'
  <2>1. 0 \in 0..MaxTasks /\ queue.head \in Tasks \cup {None} /\ queue.tail \in Tasks \cup {None}
    BY TasksAre DEF TpoolTypeOK
  <2>2. QED BY <2>1, <1>5
<1>9. QED BY <1>7, <1>8

-----------------------------------------------------------------------------
(* The steps *)

LEMMA QueueKept ==
    ASSUME QueueInv, UNCHANGED <<queue, added, taken>>, mpc' = "freed" <=> mpc = "freed"
    PROVE  QueueInv'
<1>1. Allocated(queue)' = Allocated(queue)
  BY DEF Allocated
<1>2. \A f : Chain(f)' <=> Chain(f)
  BY DEF Chain
<1>3. TasksInv' <=> TasksInv
  BY <1>2 DEF TasksInv
<1>4. QED BY <1>1, <1>3 DEF QueueInv

\* Who is between its creation and its end keeps the pool from being freed.
LEMMA AtWork ==
    ASSUME TpoolTypeOK, WorkersInv, NEW w \in Workers, wpc[w] \notin {"none", "done"}
    PROVE  mpc # "freed" /\ joined < w /\ w <= current_num
<1>1. w \in Nat /\ joined \in Nat /\ current_num \in Nat
  BY DEF TpoolTypeOK, Workers
<1>2. ~(w <= joined) /\ ~(w > current_num)
  BY DEF WorkersInv
<1>3. QED BY <1>1, <1>2 DEF WorkersInv

LEMMA GotoKeeps ==
    ASSUME TpoolTypeOK, WorkersInv, NEW w \in Workers, NEW from, NEW to,
           WorkerGoto(w, from, to), from \notin {"none", "wait", "done"},
           to \in WorkerPc \ {"none", "wait"},
           UNCHANGED <<waiting, current_num, mpc, joined, added>>
    PROVE  wpc' \in [Workers -> WorkerPc] /\ WorkersInv'
<1>1. wpc' = [wpc EXCEPT ![w] = to] /\ wpc \in [Workers -> WorkerPc] /\ wpc[w] = from
  BY DEF WorkerGoto, TpoolTypeOK
<1>2. /\ wpc' \in [Workers -> WorkerPc] /\ wpc'[w] = to
      /\ \A v \in Workers : v # w => wpc'[v] = wpc[v]
  BY <1>1
<1>3. joined < w /\ w <= current_num /\ joined \in Nat /\ current_num \in Nat /\ w \in Nat
  BY <1>1, AtWork DEF TpoolTypeOK, Workers
<1>4. ~(w <= joined) /\ ~(w > current_num)
  BY <1>3
<1>5. \A v \in Workers : v \in waiting <=> wpc'[v] = "wait"
  BY <1>1, <1>2 DEF WorkersInv
<1>6. \A v \in Workers : (v <= joined => wpc'[v] = "done") /\ (v > current_num => wpc'[v] = "none")
  BY <1>2, <1>4 DEF WorkersInv
<1>7. QED BY <1>2, <1>5, <1>6 DEF WorkersInv

\* Waking sleepers up moves nobody else.
LEMMA WokenIs ==
    ASSUME TpoolTypeOK, WorkersInv, NEW W \in SUBSET waiting
    PROVE  /\ Woken(wpc, W) \in [Workers -> WorkerPc]
           /\ \A w \in Workers : w \in waiting \ W <=> Woken(wpc, W)[w] = "wait"
           /\ \A w \in Workers : wpc[w] # "wait" => Woken(wpc, W)[w] = wpc[w]
           /\ \A w \in Workers : wpc[w] = "wait" => Woken(wpc, W)[w] \in {"wait", "lock"}
           /\ \A w \in Workers : /\ w <= joined => Woken(wpc, W)[w] = "done"
                                 /\ w > current_num => Woken(wpc, W)[w] = "none"
<1>1. \A w \in Workers : Woken(wpc, W)[w] = IF w \in W THEN "lock" ELSE wpc[w]
  BY DEF Woken
<1>2. wpc \in [Workers -> WorkerPc] /\ "lock" \in WorkerPc
  BY DEF TpoolTypeOK, WorkerPc
<1>3. Woken(wpc, W) \in [Workers -> WorkerPc]
  BY <1>2 DEF Woken
<1>4. \A w \in Workers : w \in W => wpc[w] = "wait"
  BY DEF WorkersInv
<1>5. QED BY <1>1, <1>3, <1>4 DEF WorkersInv

LEMMA TpoolInvInit == TpoolInit => TpoolInv
<1> SUFFICES ASSUME TpoolInit PROVE TpoolInv
  OBVIOUS
<1>1. Num \in Nat /\ MaxTasks \in Nat /\ Len(<< >>) = 0 /\ DOMAIN << >> = {}
  BY TasksAre
<1>2. TpoolTypeOK
  <2>1. 0 \in 0..MaxTasks /\ 0 \in 0..Num /\ << >> \in Seq(Tasks) /\ Len(<< >>) <= MaxTasks
    BY <1>1
  <2>2. queue = [length |-> 0, head |-> None, tail |-> None,
                 next |-> [a \in Tasks \cup {None} |-> None],
                 data |-> [a \in Tasks \cup {None} |-> None]]
    BY DEF TpoolInit, List_new
  <2>3. TpoolTypeOK!3
    <3> DEFINE z == [a \in Tasks \cup {None} |-> None]
    <3>1. z \in [Tasks \cup {None} -> Tasks \cup {None}]
      OBVIOUS
    <3> HIDE DEF z
    <3>2. [length |-> 0, head |-> None, tail |-> None, next |-> z, data |-> z]
            \in [length : 0..MaxTasks, head : Tasks \cup {None}, tail : Tasks \cup {None},
                 next : [Tasks \cup {None} -> Tasks \cup {None}],
                 data : [Tasks \cup {None} -> Tasks \cup {None}]]
      BY <2>1, <3>1
    <3>3. QED BY <2>2, <3>2 DEF z
  <2>4. wpc \in [Workers -> WorkerPc]
    BY DEF TpoolInit, WorkerPc
  <2>5. QED BY <2>1, <2>3, <2>4 DEF TpoolInit, TpoolTypeOK, MainPc
<1>3. WorkersInv
  <2>1. \A w \in Workers : ~(w <= 0) /\ w \in Nat
    BY DEF Workers
  <2>2. waiting = {} /\ joined = 0 /\ current_num = 0 /\ mpc = "create"
        /\ \A w \in Workers : wpc[w] = "none"
    BY DEF TpoolInit
  <2>3. QED BY <2>1, <2>2 DEF WorkersInv
<1>4. QueueInv
  <2>1. /\ queue.length = 0 /\ \A a \in Tasks : queue.data[a] = None
        /\ added = 0 /\ taken = << >> /\ mpc = "create"
    BY DEF TpoolInit, List_new
  <2> DEFINE f == [i \in 1..0 |-> None]
  <2>2. f \in [1..0 -> Tasks] /\ DOMAIN f = {} /\ 1..(0 - 1) = {}
    OBVIOUS
  <2> HIDE DEF f
  <2>3. Chain(f)
    BY <2>1, <2>2 DEF Chain
  <2>4. TasksInv
    BY <1>1, <2>1, <2>3 DEF TasksInv
  <2>5. QED BY <2>1, <2>4 DEF QueueInv
<1>5. QED BY <1>2, <1>3, <1>4 DEF TpoolInv

LEMMA MainInv ==
    ASSUME TpoolInv, MainStep
    PROVE  TpoolInv'
<1> USE DEF TpoolInv
<1>0. /\ Num \in Nat /\ MaxTasks \in Nat /\ joined \in Nat /\ current_num \in Nat /\ added \in Nat
      /\ joined <= current_num /\ joined <= Num /\ current_num <= Num
      /\ \A w \in Workers : w \in Nat
  BY TasksAre DEF TpoolTypeOK, WorkersInv, Workers
<1>1. CASE Create
  <2>1. current_num < Num /\ current_num + 1 \in Workers /\ current_num + 1 \in 0..Num
    BY <1>0, <1>1 DEF Create, Workers
  <2>2. wpc' = [wpc EXCEPT ![current_num + 1] = "lock"] /\ current_num' = current_num + 1
    BY <1>1 DEF Create
  <2>3. wpc \in [Workers -> WorkerPc] /\ "lock" \in WorkerPc
    BY DEF TpoolTypeOK, WorkerPc
  <2>4. /\ wpc' \in [Workers -> WorkerPc] /\ wpc'[current_num + 1] = "lock"
        /\ \A v \in Workers : v # current_num + 1 => wpc'[v] = wpc[v]
    BY <2>1, <2>2, <2>3
  <2>5. TpoolTypeOK'
    BY <1>1, <2>1, <2>2, <2>4 DEF Create, TpoolTypeOK
  <2>6. wpc[current_num + 1] = "none"
    BY <1>0, <2>1 DEF WorkersInv
  <2>7. \A v \in Workers : v > current_num + 1 => v > current_num /\ v # current_num + 1
    BY <1>0
  <2>8. \A v \in Workers : v <= joined => v # current_num + 1
    BY <1>0
  <2>9. \A v \in Workers : v \in waiting <=> wpc'[v] = "wait"
    BY <2>4, <2>6 DEF WorkersInv
  <2>10. \A v \in Workers : (v <= joined => wpc'[v] = "done") /\ (v > current_num + 1 => wpc'[v] = "none")
    BY <2>4, <2>7, <2>8 DEF WorkersInv
  <2>11. joined <= current_num + 1 /\ mpc = "create"
    BY <1>0, <1>1 DEF Create
  <2>12. WorkersInv'
    BY <1>1, <2>2, <2>9, <2>10, <2>11 DEF WorkersInv, Create
  <2>13. QueueInv'
    BY <1>1, QueueKept DEF Create
  <2>14. QED BY <2>5, <2>12, <2>13
<1>2. CASE Created \/ AddLock \/ AddUnlock \/ FreeSet
  <2>1. TpoolTypeOK'
    BY <1>2 DEF Created, AddLock, AddUnlock, FreeSet, TpoolTypeOK, MainPc
  <2>2. WorkersInv'
    BY <1>0, <1>2 DEF Created, AddLock, AddUnlock, FreeSet, WorkersInv, TpoolTypeOK
  <2>3. QueueInv'
    BY <1>2, QueueKept DEF Created, AddLock, AddUnlock, FreeSet
  <2>4. QED BY <2>1, <2>2, <2>3
<1>3. CASE AddPush
  <2>1. CASE UNCHANGED <<queue, added>>
    <3>1. TpoolTypeOK' /\ WorkersInv'
      BY <1>3, <2>1 DEF AddPush, TpoolTypeOK, WorkersInv, MainPc
    <3>2. QueueInv'
      BY <1>3, <2>1, QueueKept DEF AddPush
    <3>3. QED BY <3>1, <3>2
  <2>2. CASE queue' = List_push(queue, added + 1) /\ added' = added + 1
    <3>1. added < MaxTasks /\ TasksInv /\ taken' = taken /\ mpc' = "unlock"
      BY <1>3 DEF AddPush, WorkersInv, QueueInv
    <3>2. TasksInv' /\ TpoolTypeOK!3'
      BY <2>2, <3>1, PushChain
    <3>3. added + 1 \in 0..MaxTasks
      BY <1>0, <3>1
    <3>4. TpoolTypeOK'
      BY <1>3, <2>2, <3>2, <3>3 DEF AddPush, TpoolTypeOK, MainPc
    <3>5. WorkersInv'
      BY <1>3 DEF AddPush, WorkersInv
    <3>6. QueueInv'
      BY <3>1, <3>2 DEF QueueInv
    <3>7. QED BY <3>4, <3>5, <3>6
  <2>3. QED BY <1>3, <2>1, <2>2 DEF AddPush
<1>4. CASE AddSignal
  <2>1. PICK W \in SUBSET waiting : waiting' = waiting \ W /\ wpc' = Woken(wpc, W)
    <3>1. CASE waiting = {} /\ UNCHANGED <<waiting, wpc>>
      <4>1. Woken(wpc, {}) = wpc
        BY DEF Woken, TpoolTypeOK
      <4>2. QED BY <3>1, <4>1
    <3>2. CASE \E w \in waiting : waiting' = waiting \ {w} /\ wpc' = Woken(wpc, {w})
      BY <3>2
    <3>3. QED BY <1>4, <3>1, <3>2 DEF AddSignal
  <2>2. TpoolTypeOK'
    BY <1>4, <2>1, WokenIs DEF AddSignal, TpoolTypeOK, MainPc
  <2>3. WorkersInv'
    BY <1>4, <2>1, WokenIs DEF AddSignal, WorkersInv
  <2>4. QueueInv'
    BY <1>4, QueueKept DEF AddSignal
  <2>5. QED BY <2>2, <2>3, <2>4
<1>5. CASE FreeBroadcast
  <2>1. waiting' = waiting \ waiting /\ wpc' = Woken(wpc, waiting) /\ waiting \in SUBSET waiting
    BY <1>5 DEF FreeBroadcast
  <2>2. TpoolTypeOK'
    BY <1>5, <2>1, WokenIs DEF FreeBroadcast, TpoolTypeOK, MainPc
  <2>3. WorkersInv'
    BY <1>5, <2>1, WokenIs DEF FreeBroadcast, WorkersInv
  <2>4. QueueInv'
    BY <1>5, QueueKept DEF FreeBroadcast
  <2>5. QED BY <2>2, <2>3, <2>4
<1>6. CASE Join
  <2>1. joined < current_num /\ wpc[joined + 1] = "done" /\ joined' = joined + 1
    BY <1>6 DEF Join
  <2>2. joined + 1 \in 0..Num /\ joined + 1 <= current_num
    BY <1>0, <2>1
  <2>3. \A w \in Workers : w <= joined + 1 => w <= joined \/ w = joined + 1
    BY <1>0
  <2>4. TpoolTypeOK'
    BY <1>6, <2>1, <2>2 DEF Join, TpoolTypeOK
  <2>5. WorkersInv'
    BY <1>6, <2>1, <2>2, <2>3 DEF Join, WorkersInv
  <2>6. QueueInv'
    BY <1>6, QueueKept DEF Join
  <2>7. QED BY <2>4, <2>5, <2>6
<1>7. CASE FreeMemory
  <2>1. TasksInv /\ queue' = List_free(queue) /\ mpc' = "freed"
    BY <1>7 DEF FreeMemory, QueueInv
  <2>2. Allocated(queue') = {} /\ TpoolTypeOK!3'
    BY <2>1, FreeEmpties
  <2>3. Allocated(queue)' = {}
    BY <2>2 DEF Allocated
  <2>4. TpoolTypeOK'
    BY <1>7, <2>2 DEF FreeMemory, TpoolTypeOK, MainPc
  <2>5. WorkersInv'
    BY <1>7 DEF FreeMemory, WorkersInv
  <2>6. QED BY <2>1, <2>3, <2>4, <2>5 DEF QueueInv
<1>8. QED BY <1>1, <1>2, <1>3, <1>4, <1>5, <1>6, <1>7 DEF MainStep

LEMMA WorkerInv ==
    ASSUME TpoolInv, NEW w \in Workers, WorkerStep(w) \/ Spurious(w)
    PROVE  TpoolInv'
<1> USE DEF TpoolInv
<1>1. CASE \E from, to : /\ WorkerGoto(w, from, to) /\ from \notin {"none", "wait", "done"}
                         /\ to \in WorkerPc \ {"none", "wait"}
                         /\ mutex' \in {mutex, w, None}
                         /\ UNCHANGED <<waiting, queue, isshutdown, current_num, mpc, joined,
                                        added, taken>>
  <2>1. wpc' \in [Workers -> WorkerPc] /\ WorkersInv'
    BY <1>1, GotoKeeps
  <2>2. TpoolTypeOK'
    BY <1>1, <2>1 DEF TpoolTypeOK
  <2>3. QueueInv'
    BY <1>1, QueueKept
  <2>4. QED BY <2>1, <2>2, <2>3
<1>2. CASE WorkerLock(w)
  BY <1>1, <1>2 DEF WorkerLock, WorkerPc
<1>3. CASE TestSleep(w)
  BY <1>1, <1>3 DEF TestSleep, WorkerPc
<1>4. CASE TestExit(w)
  BY <1>1, <1>4 DEF TestExit, WorkerPc
<1>5. CASE Unlock(w)
  BY <1>1, <1>5 DEF Unlock, WorkerPc
<1>6. CASE Run(w)
  BY <1>1, <1>6 DEF Run, WorkerPc
<1>7. CASE Sleep(w)
  <2>1. wpc \in [Workers -> WorkerPc] /\ "wait" \in WorkerPc /\ wpc[w] = "sleep"
        /\ wpc' = [wpc EXCEPT ![w] = "wait"]
    BY <1>7 DEF TpoolTypeOK, WorkerPc, Sleep, WorkerGoto
  <2>2. /\ wpc' \in [Workers -> WorkerPc] /\ wpc'[w] = "wait"
        /\ \A v \in Workers : v # w => wpc'[v] = wpc[v]
    BY <2>1
  <2>3. TpoolTypeOK'
    BY <1>7, <2>2 DEF Sleep, TpoolTypeOK
  <2>4. ~(w <= joined) /\ ~(w > current_num)
    BY <2>1 DEF WorkersInv
  <2>5. WorkersInv'
    BY <1>7, <2>2, <2>4 DEF Sleep, WorkersInv
  <2>6. QueueInv'
    BY <1>7, QueueKept DEF Sleep
  <2>7. QED BY <2>3, <2>5, <2>6
<1>8. CASE TestTake(w)
  <2>1. wpc[w] = "test" /\ WorkerGoto(w, "test", "unlock")
    BY <1>8 DEF TestTake, WorkerGoto
  <2>2. mpc # "freed" /\ TasksInv
    BY <2>1, AtWork DEF QueueInv
  <2>3. wpc' \in [Workers -> WorkerPc] /\ WorkersInv'
    BY <1>8, <2>1, GotoKeeps DEF TestTake, WorkerPc
  <2>4. TasksInv' /\ TpoolTypeOK!3' /\ taken' \in Seq(Tasks) /\ Len(taken') <= MaxTasks
    BY <1>8, <2>2, PopChain DEF TestTake
  <2>5. TpoolTypeOK'
    BY <1>8, <2>3, <2>4 DEF TestTake, TpoolTypeOK
  <2>6. QueueInv'
    BY <1>8, <2>2, <2>4 DEF TestTake, QueueInv
  <2>7. QED BY <2>3, <2>5, <2>6
<1>9. CASE ExitBroadcast(w)
  <2>1. /\ wpc[w] = "broadcast" /\ waiting' = waiting \ waiting /\ waiting \in SUBSET waiting
        /\ wpc' = [Woken(wpc, waiting) EXCEPT ![w] = "done"]
    BY <1>9 DEF ExitBroadcast
  <2>2. PICK u : u = Woken(wpc, waiting)
    OBVIOUS
  <2>3. /\ u \in [Workers -> WorkerPc] /\ wpc' = [u EXCEPT ![w] = "done"]
        /\ \A v \in Workers : v \notin waiting' <=> u[v] # "wait"
        /\ \A v \in Workers : /\ v <= joined => u[v] = "done"
                              /\ v > current_num => u[v] = "none"
    BY <2>1, <2>2, WokenIs
  <2>4. /\ wpc' \in [Workers -> WorkerPc] /\ wpc'[w] = "done"
        /\ \A v \in Workers : v # w => wpc'[v] = u[v]
    BY <2>3 DEF WorkerPc
  <2>5. ~(w > current_num) /\ w \notin waiting'
    BY <2>1 DEF WorkersInv
  <2>6. TpoolTypeOK'
    BY <1>9, <2>4 DEF ExitBroadcast, TpoolTypeOK
  <2>7. WorkersInv'
    BY <1>9, <2>3, <2>4, <2>5 DEF ExitBroadcast, WorkersInv
  <2>8. QueueInv'
    BY <1>9, QueueKept DEF ExitBroadcast
  <2>9. QED BY <2>6, <2>7, <2>8
<1>10. CASE Spurious(w)
  <2>1. wpc \in [Workers -> WorkerPc] /\ "lock" \in WorkerPc /\ wpc[w] = "wait"
        /\ wpc' = [wpc EXCEPT ![w] = "lock"]
    BY <1>10 DEF TpoolTypeOK, WorkerPc, Spurious, WorkerGoto
  <2>2. /\ wpc' \in [Workers -> WorkerPc] /\ wpc'[w] = "lock"
        /\ \A v \in Workers : v # w => wpc'[v] = wpc[v]
    BY <2>1
  <2>3. TpoolTypeOK'
    BY <1>10, <2>2 DEF Spurious, TpoolTypeOK
  <2>4. ~(w <= joined) /\ ~(w > current_num)
    BY <2>1 DEF WorkersInv
  <2>5. WorkersInv'
    BY <1>10, <2>2, <2>4 DEF Spurious, WorkersInv
  <2>6. QueueInv'
    BY <1>10, QueueKept DEF Spurious
  <2>7. QED BY <2>3, <2>5, <2>6
<1>11. QED
  BY <1>2, <1>3, <1>4, <1>5, <1>6, <1>7, <1>8, <1>9, <1>10 DEF WorkerStep

LEMMA TpoolInvStep == TpoolInv /\ [TpoolNext]_tpoolVars => TpoolInv'
<1> SUFFICES ASSUME TpoolInv, [TpoolNext]_tpoolVars PROVE TpoolInv'
  OBVIOUS
<1>1. CASE MainStep
  BY <1>1, MainInv
<1>2. CASE \E w \in Workers : WorkerStep(w) \/ Spurious(w)
  BY <1>2, WorkerInv
<1>3. CASE UNCHANGED tpoolVars
  <2>1. TpoolTypeOK' /\ WorkersInv'
    BY <1>3 DEF TpoolInv, TpoolTypeOK, WorkersInv, tpoolVars
  <2>2. QueueInv'
    BY <1>3, QueueKept DEF TpoolInv, tpoolVars
  <2>3. QED BY <2>1, <2>2 DEF TpoolInv
<1>4. QED BY <1>1, <1>2, <1>3 DEF TpoolNext, Finished

LEMMA TpoolInvAlways == TpoolSpec => []TpoolInv
BY TpoolInvInit, TpoolInvStep, PTL DEF TpoolSpec

\* The state of the thread pool has its type: the list of tasks never holds
\* more than was added, and joined never passes the workers there are.
THEOREM TpoolTypeCorrect == TpoolSpec => []TpoolTypeOK
<1>1. TpoolInv => TpoolTypeOK
  BY DEF TpoolInv
<1>2. QED BY <1>1, TpoolInvAlways, PTL

\* Tpool_addwork and thread_callback hand every connection to one worker, in the
\* order of arrival, for any number of workers; Tpool_free leaks no list node.
THEOREM TasksInOrder == TpoolSpec => []InOrder
<1>1. TpoolInv => InOrder
  <2> SUFFICES ASSUME TpoolInv PROVE InOrder
    OBVIOUS
  <2>1. CASE mpc = "freed"
    BY <2>1 DEF TpoolInv, QueueInv, InOrder
  <2>2. CASE mpc # "freed"
    <3>1. TasksInv /\ TpoolTypeOK
      BY <2>2 DEF TpoolInv, QueueInv
    <3>2. PICK f : Chain(f)
      BY <3>1 DEF TasksInv
    <3>3. PICK n \in Nat, t \in Nat : n = queue.length /\ t = Len(taken)
      BY <3>1 DEF TpoolTypeOK
    <3>4. Content(queue) = [i \in 1..n |-> t + i] /\ added = t + n
      BY <3>1, <3>2, <3>3, ContentIs DEF TasksInv
    <3>5. taken \in Seq(Tasks) /\ \A k \in 1..t : taken[k] = k
      <4>1. taken \in Seq(Tasks)
        BY <3>1 DEF TpoolTypeOK
      <4>2. DOMAIN taken = 1..t
        BY <4>1, <3>3
      <4>3. \A k \in DOMAIN taken : taken[k] = k
        BY <3>1 DEF TasksInv
      <4>4. QED BY <4>1, <4>2, <4>3
    <3> DEFINE c == [i \in 1..n |-> t + i]
    <3>6. c \in Seq(Tasks) /\ Len(c) = n /\ \A i \in 1..n : c[i] = t + i
      <4>1. \A i \in 1..n : t + i \in Tasks
        BY <3>1, <3>4, TasksAre DEF TpoolTypeOK, Tasks
      <4>2. c \in [1..n -> Tasks]
        BY <4>1
      <4>3. QED BY <4>2
    <3> HIDE DEF c
    <3>7. /\ taken \o c \in Seq(Tasks) /\ Len(taken \o c) = t + n
          /\ \A k \in 1..(t + n) : (taken \o c)[k] = IF k <= t THEN taken[k] ELSE c[k - t]
      <4>1. /\ taken \o c \in Seq(Tasks) /\ Len(taken \o c) = Len(taken) + Len(c)
            /\ \A k \in 1..(Len(taken) + Len(c)) :
                 (taken \o c)[k] = IF k <= Len(taken) THEN taken[k] ELSE c[k - Len(taken)]
        BY <3>5, <3>6, ConcatProperties
      <4>2. QED BY <3>3, <3>6, <4>1
    <3>8. \A k \in 1..(t + n) : (taken \o c)[k] = k
      <4> TAKE k \in 1..(t + n)
      <4>1. CASE k <= t
        BY <4>1, <3>5, <3>7
      <4>2. CASE ~(k <= t)
        <5>1. k - t \in 1..n /\ t + (k - t) = k
          BY <4>2
        <5>2. QED BY <4>2, <5>1, <3>6, <3>7
      <4>3. QED BY <4>1, <4>2
    <3>9. taken \o c = [k \in 1..(t + n) |-> k]
      <4> DEFINE s == taken \o c
      <4>0. s \in Seq(Tasks) /\ Len(s) = t + n /\ \A k \in 1..(t + n) : s[k] = k
        BY <3>7, <3>8
      <4> HIDE DEF s
      <4>1. s = [k \in 1..Len(s) |-> s[k]]
        BY <4>0
      <4>2. s = [k \in 1..(t + n) |-> k]
        BY <4>0, <4>1
      <4>3. QED BY <4>2 DEF s
    <3>10. QED BY <2>2, <3>4, <3>9 DEF c, InOrder
  <2>3. QED BY <2>1, <2>2
<1>2. QED BY <1>1, TpoolInvAlways, PTL

\* Tpool_free joins every worker it created before it frees the pool, wherever
\* in thread_callback each of them was when the flag was set.
THEOREM NobodyInFreedPool == TpoolSpec => []PoolOutlivesWorkers
<1>1. TpoolInv => PoolOutlivesWorkers
  BY AtWork DEF TpoolInv, PoolOutlivesWorkers
<1>2. QED BY <1>1, TpoolInvAlways, PTL

-----------------------------------------------------------------------------
(* The ring buffer: the invariants of module Mcq, and that it implements the *)
(* bounded FIFO.                                                             *)

\* On the indices the code computes, MOD wraps at most once.
LEMMA ModWraps ==
    ASSUME NEW x \in 0..(2 * QLen - 1)
    PROVE  MOD(x, QLen) = IF x < QLen THEN x ELSE x - QLen
<1>1. CASE x < QLen
  BY <1>1, QLenAssumption, Z3 DEF MOD
<1>2. CASE ~(x < QLen)
  <2>1. x - QLen \in 0..(QLen - 1) /\ x = (x - QLen) + QLen
    BY <1>2, QLenAssumption
  <2>2. ((x - QLen) + QLen) % QLen = (x - QLen) % QLen
    BY <2>1, QLenAssumption, Z3
  <2>3. QED BY <1>2, <2>1, <2>2, QLenAssumption, Z3 DEF MOD
<1>3. QED BY <1>1, <1>2

\* What both copies in progress rely on: the producer works on the slot after
\* tail, which is not yet visible, the consumer on the slot after head, which
\* stays visible until it is released; and what was copied so far is intact.
ProducerInv ==
    ppc = "copy" => /\ pl = MOD(tail + 1, QLen)
                    /\ pl # head
                    /\ pd \in Items
                    /\ \A w \in 1..pk : buf[pl][w] = pd[w]
ConsumerInv ==
    cpc = "copy" => /\ cl = MOD(head + 1, QLen)
                    /\ head # tail
                    /\ \A w \in 1..ck : cd[w] = buf[cl][w]

\* The slots with a complete item, as PublishedWhole but without counting.
Live(s) == IF head <= tail THEN head < s /\ s <= tail
                           ELSE head < s \/ s <= tail
LiveWhole == \A s \in Slots : Live(s) => buf[s] \in Items

McqInv == McqTypeOK /\ ProducerInv /\ ConsumerInv /\ LiveWhole

-----------------------------------------------------------------------------
\* Slots: the successor of an index, and the items between two of them.

LEMMA NextSlot ==
    ASSUME NEW i \in Slots
    PROVE  /\ MOD(i + 1, QLen) = IF i = QLen - 1 THEN 0 ELSE i + 1
           /\ MOD(i + 1, QLen) \in Slots
<1>1. i + 1 \in 0..(2 * QLen - 1)
  BY QLenAssumption DEF Slots
<1>2. QED BY <1>1, ModWraps, QLenAssumption DEF Slots

LEMMA CountIs ==
    ASSUME NEW h \in Slots, NEW t \in Slots
    PROVE  /\ MOD(t - h + QLen, QLen) = IF h <= t THEN t - h ELSE t - h + QLen
           /\ MOD(t - h + QLen, QLen) \in 0..(QLen - 1)
<1>1. t - h + QLen \in 0..(2 * QLen - 1)
  BY QLenAssumption DEF Slots
<1>2. QED BY <1>1, ModWraps, QLenAssumption DEF Slots

LEMMA SlotAtIs ==
    ASSUME NEW h \in Slots, NEW i \in 0..(QLen - 1)
    PROVE  /\ MOD(h + i, QLen) = IF h + i < QLen THEN h + i ELSE h + i - QLen
           /\ MOD(h + i, QLen) \in Slots
<1>1. h + i \in 0..(2 * QLen - 1)
  BY QLenAssumption DEF Slots
<1>2. QED BY <1>1, ModWraps, QLenAssumption DEF Slots

LEMMA SlotAtLive ==
    ASSUME McqTypeOK, NEW i \in 1..Count
    PROVE  SlotAt(i) \in Slots /\ Live(SlotAt(i))
<1>1. /\ head \in Slots /\ tail \in Slots
      /\ Count = IF head <= tail THEN tail - head ELSE tail - head + QLen
      /\ Count \in 0..(QLen - 1) /\ i \in 0..(QLen - 1)
  BY CountIs, QLenAssumption DEF McqTypeOK, Count
<1>2. /\ SlotAt(i) \in Slots
      /\ SlotAt(i) = IF head + i < QLen THEN head + i ELSE head + i - QLen
  BY <1>1, SlotAtIs DEF SlotAt
<1>3. head \in 0..(QLen - 1) /\ tail \in 0..(QLen - 1) /\ i \in Nat \ {0} /\ i <= Count
  BY <1>1 DEF Slots
<1>4. Live(SlotAt(i))
  BY <1>1, <1>2, <1>3, QLenAssumption DEF Live
<1>5. QED BY <1>2, <1>4

-----------------------------------------------------------------------------
LEMMA ItemsAreAreas == Items \subseteq Areas
BY DEF Items, Item, Areas

LEMMA McqInvInit == McqInit => McqInv
<1> SUFFICES ASSUME McqInit PROVE McqInv
  OBVIOUS
<1>1. Blank \in Areas
  BY DEF Blank, Areas
<1>2. McqTypeOK
  BY <1>1, QLenAssumption, SizeAssumption DEF McqInit, McqTypeOK, Slots
<1>3. ProducerInv /\ ConsumerInv
  BY DEF McqInit, ProducerInv, ConsumerInv
<1>4. LiveWhole
  BY DEF McqInit, LiveWhole, Live, Slots
<1>5. QED BY <1>2, <1>3, <1>4 DEF McqInv

LEMMA McqInvStep == McqInv /\ [McqNext]_mcqVars => McqInv'
<1> SUFFICES ASSUME McqInv, [McqNext]_mcqVars PROVE McqInv'
  OBVIOUS
<1> USE DEF McqInv
<1>0. /\ head \in Slots /\ tail \in Slots
      /\ MOD(tail + 1, QLen) = IF tail = QLen - 1 THEN 0 ELSE tail + 1
      /\ MOD(head + 1, QLen) = IF head = QLen - 1 THEN 0 ELSE head + 1
      /\ MOD(tail + 1, QLen) \in Slots /\ MOD(head + 1, QLen) \in Slots
  BY NextSlot DEF McqTypeOK
<1>1. CASE EnqFull
  BY <1>1 DEF EnqFull, prod, cons, McqTypeOK, ProducerInv, ConsumerInv, LiveWhole, Live
<1>2. ASSUME NEW d \in Data, EnqStart(d) PROVE McqInv'
  <2>1. Item(d) \in Items /\ Item(d) \in Areas
    BY DEF Items, Item, Areas
  <2>2. McqTypeOK'
    BY <1>2, <1>0, <2>1, SizeAssumption DEF EnqStart, cons, McqTypeOK
  <2>3. ProducerInv' /\ ConsumerInv' /\ LiveWhole'
    BY <1>2, <2>1 DEF EnqStart, cons, ProducerInv, ConsumerInv, LiveWhole, Live, McqTypeOK
  <2>4. QED BY <2>2, <2>3
<1>3. CASE EnqCopy
  <2> USE <1>3 DEF EnqCopy, cons
  <2>1. /\ ppc = "copy" /\ pk \in 0..Size /\ pk + 1 \in Words /\ pd \in Items
        /\ pl \in Slots /\ buf \in [Slots -> Areas] /\ pd[pk + 1] \in Data
    BY SizeAssumption DEF McqTypeOK, ProducerInv, Words, Items, Item
  <2>2. [buf[pl] EXCEPT ![pk + 1] = pd[pk + 1]] \in Areas
    BY <2>1 DEF Areas
  <2>3. McqTypeOK'
    BY <2>1, <2>2, SizeAssumption DEF McqTypeOK
  <2>4. \A s \in Slots : s # pl => buf'[s] = buf[s]
    BY <2>1
  <2>5. ProducerInv'
    BY <2>1, SizeAssumption DEF ProducerInv, Areas, Words
  <2>6. ~Live(pl)
    BY <1>0, <2>1, QLenAssumption DEF ProducerInv, Live, Slots
  <2>7. LiveWhole'
    BY <2>4, <2>6 DEF LiveWhole, Live
  <2>8. cpc = "copy" => cl # pl
    BY <1>0, <2>1 DEF ProducerInv, ConsumerInv, Slots
  <2>9. ConsumerInv'
    BY <2>4, <2>8 DEF ConsumerInv, McqTypeOK
  <2>10. QED BY <2>3, <2>5, <2>7, <2>9
<1>4. CASE EnqPublish
  <2> USE <1>4 DEF EnqPublish, cons
  <2>1. McqTypeOK'
    BY DEF McqTypeOK
  <2>2. ProducerInv' /\ ConsumerInv'
    BY DEF ProducerInv, ConsumerInv
  <2>3. buf[pl] \in Items
    <3>1. \A w \in Words : buf[pl][w] = pd[w]
      BY DEF ProducerInv, Words
    <3>2. buf[pl] \in Areas /\ pd \in Areas
      BY DEF McqTypeOK
    <3>3. buf[pl] = pd
      BY <3>1, <3>2 DEF Areas
    <3>4. QED BY <3>3 DEF ProducerInv
  <2>4. \A s \in Slots : Live(s)' => Live(s) \/ s = pl
    BY <1>0, QLenAssumption DEF ProducerInv, Live, Slots
  <2>5. LiveWhole'
    BY <2>3, <2>4 DEF LiveWhole
  <2>6. QED BY <2>1, <2>2, <2>5
<1>5. CASE DeqEmpty
  BY <1>5 DEF DeqEmpty, prod, cons, McqTypeOK, ProducerInv, ConsumerInv, LiveWhole, Live
<1>6. CASE DeqStart
  <2>1. McqTypeOK'
    BY <1>6, <1>0, SizeAssumption DEF DeqStart, prod, McqTypeOK
  <2>2. QED
    BY <1>6, <2>1 DEF DeqStart, prod, ProducerInv, ConsumerInv, LiveWhole, Live, McqTypeOK
<1>7. CASE DeqCopy
  <2> USE <1>7 DEF DeqCopy, prod
  <2>1. /\ cpc = "copy" /\ ck \in 0..Size /\ ck + 1 \in Words
        /\ cl \in Slots /\ buf[cl] \in Areas /\ cd \in Areas
    BY SizeAssumption DEF McqTypeOK, Words
  <2>2. McqTypeOK'
    BY <2>1, SizeAssumption DEF McqTypeOK, Areas
  <2>3. ConsumerInv'
    BY <2>1, SizeAssumption DEF ConsumerInv, Areas, Words
  <2>4. ProducerInv' /\ LiveWhole'
    BY DEF ProducerInv, LiveWhole, Live
  <2>5. QED BY <2>2, <2>3, <2>4
<1>8. CASE DeqRelease
  <2> USE <1>8 DEF DeqRelease, prod
  <2>1. McqTypeOK'
    BY DEF McqTypeOK
  <2>2. ProducerInv'
    BY <1>0, QLenAssumption DEF ProducerInv, ConsumerInv, Slots
  <2>3. \A s \in Slots : Live(s)' => Live(s)
    BY <1>0, QLenAssumption DEF ConsumerInv, Live, Slots
  <2>4. ConsumerInv' /\ LiveWhole'
    BY <2>3 DEF ConsumerInv, LiveWhole
  <2>5. QED BY <2>1, <2>2, <2>4
<1>9. CASE UNCHANGED mcqVars
  BY <1>9 DEF mcqVars, prod, cons, McqTypeOK, ProducerInv, ConsumerInv, LiveWhole, Live
<1>10. QED
  BY <1>1, <1>2, <1>3, <1>4, <1>5, <1>6, <1>7, <1>8, <1>9 DEF McqNext, Producer, Consumer

LEMMA McqInvAlways == McqSpec => []McqInv
BY McqInvInit, McqInvStep, PTL DEF McqSpec

\* McqTypeOK holds in every reachable state, for every length and item size.
THEOREM McqTypeCorrect == McqSpec => []McqTypeOK
BY McqInvAlways, PTL DEF McqInv

\* The copies of a concurrent Mcq_enq and Mcq_deq never touch the same slot.
THEOREM NoCopyRace == McqSpec => []CopiesDisjoint
<1>1. McqInv => CopiesDisjoint
  <2> SUFFICES ASSUME McqInv, ppc = "copy", cpc = "copy" PROVE pl # cl
    BY DEF CopiesDisjoint
  <2>1. /\ head \in 0..(QLen - 1) /\ tail \in 0..(QLen - 1) /\ head # tail
        /\ pl = MOD(tail + 1, QLen) /\ cl = MOD(head + 1, QLen)
    BY DEF McqInv, McqTypeOK, ProducerInv, ConsumerInv, Slots
  <2>2. QED BY <2>1, NextSlot, QLenAssumption DEF Slots
<1>2. QED BY McqInvAlways, <1>1, PTL

\* Every slot the consumer may read holds one whole item.
THEOREM NothingHalfWritten == McqSpec => []PublishedWhole
<1>1. McqInv => PublishedWhole
  BY SlotAtLive DEF McqInv, LiveWhole, PublishedWhole
<1>2. QED BY McqInvAlways, <1>1, PTL

-----------------------------------------------------------------------------
(* The refinement: RingContent is the abstract queue. *)

LEMMA RingContentIs ==
    ASSUME McqInv
    PROVE  /\ RingContent \in Seq(Items)
           /\ Len(RingContent) = Count
           /\ \A i \in 1..Count : RingContent[i] = buf[SlotAt(i)]
<1>1. McqTypeOK /\ Count \in Nat
  BY CountIs DEF McqInv, McqTypeOK, Count
<1>2. \A i \in 1..Count : buf[SlotAt(i)] \in Items
  BY <1>1, SlotAtLive DEF McqInv, LiveWhole
<1>3. QED BY <1>1, <1>2 DEF RingContent

LEMMA InitRefines == McqInit => Fifo!Init
<1> SUFFICES ASSUME McqInit PROVE Fifo!Init
  OBVIOUS
<1>1. McqInv /\ Count = 0
  BY McqInvInit, CountIs DEF McqInit, McqInv, McqTypeOK, Count
<1>2. RingContent = << >>
  BY <1>1, RingContentIs
<1>3. Blank \notin Items
  BY JunkAssumption, SizeAssumption DEF Blank, Items, Item, Words
<1>4. QED BY <1>2, <1>3 DEF McqInit, Fifo!Init

\* Publishing the tail appends the item, releasing the head removes the oldest;
\* every other step leaves the abstract queue alone.
LEMMA PublishAppends ==
    ASSUME McqInv, McqInv', EnqPublish
    PROVE  Count < QLen - 1 /\ pd \in Items /\ RingContent' = Append(RingContent, pd)
<1>1. /\ head \in Slots /\ tail \in Slots /\ pl \in Slots
      /\ pl = IF tail = QLen - 1 THEN 0 ELSE tail + 1
      /\ pl # head /\ tail' = pl /\ head' = head /\ buf' = buf
  BY NextSlot DEF McqInv, McqTypeOK, ProducerInv, EnqPublish
<1>2. /\ Count = IF head <= tail THEN tail - head ELSE tail - head + QLen
      /\ Count' = IF head <= pl THEN pl - head ELSE pl - head + QLen
  BY <1>1, CountIs DEF Count
<1>3. Count' = Count + 1 /\ Count \in Nat /\ Count < QLen - 1
  BY <1>1, <1>2, QLenAssumption DEF Slots
<1>4. \A i \in 1..Count' : SlotAt(i)' = SlotAt(i)
  BY <1>1 DEF SlotAt
<1>5. SlotAt(Count + 1) = pl
  <2>1. Count + 1 \in 0..(QLen - 1)
    BY <1>3, QLenAssumption
  <2>2. SlotAt(Count + 1) = IF head + (Count + 1) < QLen THEN head + (Count + 1)
                                                ELSE head + (Count + 1) - QLen
    BY <1>1, <2>1, SlotAtIs DEF SlotAt
  <2>3. QED BY <1>1, <1>2, <2>1, <2>2, QLenAssumption DEF Slots
<1>6. buf[pl] = pd /\ pd \in Items
  <2>1. \A w \in Words : buf[pl][w] = pd[w]
    BY DEF McqInv, ProducerInv, Words, EnqPublish
  <2>2. buf[pl] \in Areas /\ pd \in Areas
    BY DEF McqInv, McqTypeOK
  <2>3. QED BY <2>1, <2>2 DEF Areas, McqInv, ProducerInv, EnqPublish
<1>7. /\ RingContent \in Seq(Items) /\ Len(RingContent) = Count
      /\ \A i \in 1..Count : RingContent[i] = buf[SlotAt(i)]
  BY RingContentIs
<1>8. RingContent' = [i \in 1..(Count + 1) |-> buf[SlotAt(i)]]
  BY <1>1, <1>3, <1>4 DEF RingContent
<1>9. RingContent' = Append(RingContent, pd)
  <2>1. \A i \in 1..(Count + 1) : RingContent'[i] = IF i <= Count THEN RingContent[i] ELSE pd
    BY <1>3, <1>5, <1>6, <1>7, <1>8
  <2>2. \A i \in 1..(Count + 1) : RingContent'[i] \in Items
    BY <1>3, <1>6, <1>7, <2>1
  <2>3. RingContent' \in Seq(Items) /\ Len(RingContent') = Count + 1
    BY <1>3, <1>8, <2>2
  <2>4. /\ Append(RingContent, pd) \in Seq(Items)
        /\ Len(Append(RingContent, pd)) = Count + 1
        /\ \A i \in 1..(Count + 1) :
              Append(RingContent, pd)[i] = IF i <= Count THEN RingContent[i] ELSE pd
    BY <1>3, <1>6, <1>7
  <2>5. \A i \in 1..Len(RingContent') : RingContent'[i] = Append(RingContent, pd)[i]
    BY <2>1, <2>3, <2>4
  <2>6. QED BY <2>3, <2>4, <2>5, SeqEqual
<1>10. QED BY <1>3, <1>6, <1>9

LEMMA ReleasePops ==
    ASSUME McqInv, McqInv', DeqRelease
    PROVE  RingContent # << >> /\ out' = Head(RingContent) /\ RingContent' = Tail(RingContent)
<1>1. /\ head \in Slots /\ tail \in Slots /\ cl \in Slots
      /\ cl = IF head = QLen - 1 THEN 0 ELSE head + 1
      /\ head # tail /\ head' = cl /\ tail' = tail /\ buf' = buf /\ out' = cd
  BY NextSlot DEF McqInv, McqTypeOK, ConsumerInv, DeqRelease
<1>2. /\ Count = IF head <= tail THEN tail - head ELSE tail - head + QLen
      /\ Count' = IF cl <= tail THEN tail - cl ELSE tail - cl + QLen
  BY <1>1, CountIs DEF Count
<1>3. Count' = Count - 1 /\ Count \in Nat \ {0} /\ Count <= QLen - 1
  BY <1>1, <1>2, QLenAssumption DEF Slots
<1>4. SlotAt(1) = cl
  BY <1>1, <1>3, SlotAtIs, QLenAssumption DEF SlotAt, Slots
<1>5. \A i \in 1..Count' : SlotAt(i)' = SlotAt(i + 1)
  <2> SUFFICES ASSUME NEW i \in 1..Count' PROVE SlotAt(i)' = SlotAt(i + 1)
    OBVIOUS
  <2>1. i \in 0..(QLen - 1) /\ i + 1 \in 0..(QLen - 1)
    BY <1>3, QLenAssumption
  <2>2. /\ SlotAt(i)' = IF cl + i < QLen THEN cl + i ELSE cl + i - QLen
        /\ SlotAt(i + 1) = IF head + (i + 1) < QLen THEN head + (i + 1)
                                                    ELSE head + (i + 1) - QLen
    BY <1>1, <2>1, SlotAtIs DEF SlotAt
  <2>3. i + 1 <= Count
    BY <1>3
  <2>4. QED BY <1>1, <1>2, <2>1, <2>2, <2>3, QLenAssumption DEF Slots
<1>6. buf[cl] = cd
  <2>1. \A w \in Words : cd[w] = buf[cl][w]
    BY DEF McqInv, ConsumerInv, Words, DeqRelease
  <2>2. buf[cl] \in Areas /\ cd \in Areas
    BY <1>1 DEF McqInv, McqTypeOK
  <2>3. QED BY <2>1, <2>2 DEF Areas
<1>7. /\ RingContent \in Seq(Items) /\ Len(RingContent) = Count
      /\ \A i \in 1..Count : RingContent[i] = buf[SlotAt(i)]
  BY RingContentIs
<1>8. RingContent' = [i \in 1..(Count - 1) |-> buf[SlotAt(i + 1)]]
  BY <1>1, <1>3, <1>5 DEF RingContent
<1>9. RingContent' = Tail(RingContent)
  <2>1. RingContent # << >>
    BY <1>3, <1>7
  <2>2. /\ Tail(RingContent) \in Seq(Items) /\ Len(Tail(RingContent)) = Count - 1
        /\ \A i \in 1..(Count - 1) : Tail(RingContent)[i] = RingContent[i + 1]
    BY <1>3, <1>7, <2>1, HeadTailProperties
  <2>3. \A i \in 1..(Count - 1) : RingContent'[i] = RingContent[i + 1] /\ RingContent[i + 1] \in Items
    BY <1>3, <1>7, <1>8
  <2>4. RingContent' \in Seq(Items) /\ Len(RingContent') = Count - 1
    BY <1>3, <1>8, <2>3
  <2>5. \A i \in 1..Len(RingContent') : RingContent'[i] = Tail(RingContent)[i]
    BY <2>2, <2>3, <2>4
  <2>6. QED BY <2>2, <2>4, <2>5, SeqEqual
<1>10. RingContent # << >> /\ Head(RingContent) = cd
  BY <1>3, <1>4, <1>6, <1>7
<1>11. QED BY <1>1, <1>9, <1>10

\* Elsewhere neither the indices nor a live slot change.
LEMMA ContentStays ==
    ASSUME McqInv, head' = head, tail' = tail,
           \A s \in Slots : Live(s) => buf'[s] = buf[s]
    PROVE  RingContent' = RingContent
<1>1. Count' = Count /\ \A i \in 1..Count : SlotAt(i)' = SlotAt(i)
  BY DEF Count, SlotAt
<1>2. \A i \in 1..Count : buf'[SlotAt(i)] = buf[SlotAt(i)]
  BY SlotAtLive DEF McqInv
<1>3. QED BY <1>1, <1>2 DEF RingContent

\* Every step of the ring is a step of the bounded FIFO or leaves it unchanged.
LEMMA StepRefines == McqInv /\ McqInv' /\ [McqNext]_mcqVars => [Fifo!Next]_(Fifo!vars)
<1> SUFFICES ASSUME McqInv, McqInv', [McqNext]_mcqVars PROVE [Fifo!Next]_(Fifo!vars)
  OBVIOUS
<1>1. CASE EnqFull
  <2>1. RingContent' = RingContent
    BY <1>1, ContentStays DEF EnqFull
  <2>2. Len(RingContent) = QLen - 1
    <3>1. /\ head \in Slots /\ tail \in Slots
          /\ head = IF tail = QLen - 1 THEN 0 ELSE tail + 1
      BY <1>1, NextSlot DEF McqInv, McqTypeOK, EnqFull
    <3>2. Count = IF head <= tail THEN tail - head ELSE tail - head + QLen
      BY <3>1, CountIs DEF Count
    <3>3. Count = QLen - 1
      BY <3>1, <3>2, QLenAssumption DEF Slots
    <3>4. QED BY <3>3, RingContentIs
  <2>3. QED BY <1>1, <2>1, <2>2 DEF EnqFull, Fifo!Next, Fifo!EnqFull
<1>2. ASSUME NEW d \in Data, EnqStart(d) PROVE UNCHANGED Fifo!vars
  BY <1>2, ContentStays DEF EnqStart, Fifo!vars
<1>3. CASE EnqCopy
  <2>1. ~Live(pl) /\ pl \in Slots
    <3>1. /\ head \in 0..(QLen - 1) /\ tail \in 0..(QLen - 1) /\ pl \in Slots
          /\ pl = IF tail = QLen - 1 THEN 0 ELSE tail + 1
          /\ pl # head
      BY <1>3, NextSlot DEF McqInv, McqTypeOK, ProducerInv, EnqCopy, Slots
    <3>2. QED BY <3>1, QLenAssumption DEF Live
  <2>2. \A s \in Slots : Live(s) => buf'[s] = buf[s]
    BY <1>3, <2>1 DEF EnqCopy, McqInv, McqTypeOK
  <2>3. QED BY <1>3, <2>2, ContentStays DEF EnqCopy, Fifo!vars
<1>4. CASE EnqPublish
  <2>1. Count < QLen - 1 /\ pd \in Items /\ RingContent' = Append(RingContent, pd)
    BY <1>4, PublishAppends
  <2>2. Fifo!Enq(pd)
    BY <1>4, <2>1, RingContentIs DEF EnqPublish, Fifo!Enq
  <2>3. QED BY <2>1, <2>2 DEF Fifo!Next
<1>5. CASE DeqEmpty
  <2>1. RingContent' = RingContent
    BY <1>5, ContentStays DEF DeqEmpty
  <2>2. Count = 0
    <3>1. head \in Slots /\ tail \in Slots /\ head = tail
      BY <1>5 DEF DeqEmpty, McqInv, McqTypeOK
    <3>2. Count = tail - head
      BY <3>1, CountIs, QLenAssumption DEF Count, Slots
    <3>3. QED BY <3>1, <3>2, QLenAssumption DEF Slots
  <2>3. RingContent = << >>
    BY <2>2, RingContentIs
  <2>4. QED BY <1>5, <2>1, <2>3 DEF DeqEmpty, Fifo!Next, Fifo!DeqEmpty
<1>6. CASE DeqStart
  BY <1>6, ContentStays DEF DeqStart, Fifo!vars
<1>7. CASE DeqCopy
  BY <1>7, ContentStays DEF DeqCopy, Fifo!vars
<1>8. CASE DeqRelease
  <2>1. Fifo!Deq
    BY <1>8, ReleasePops DEF DeqRelease, Fifo!Deq
  <2>2. QED BY <2>1 DEF Fifo!Next
<1>9. CASE UNCHANGED mcqVars
  BY <1>9, ContentStays DEF mcqVars, Fifo!vars
<1>10. QED
  BY <1>1, <1>2, <1>3, <1>4, <1>5, <1>6, <1>7, <1>8, <1>9
     DEF McqNext, Producer, Consumer

\* The lock-free ring buffer of mcq.c is a bounded FIFO of QLen - 1 items, for
\* one producer and one consumer, however their memory accesses interleave.
THEOREM RingRefinement == McqSpec => ImplementsFifo
BY McqInvAlways, InitRefines, StepRefines, PTL DEF McqSpec, ImplementsFifo, Fifo!Spec
=============================================================================
