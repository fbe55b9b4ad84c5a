---------------------------- MODULE CaptureProofs ----------------------------
(***************************************************************************)
(* Proofs about the way of a packet to its parser, for any number of       *)
(* tuples, streams, buffers and connections and any length of the queue:   *)
(* the node of a packet is that of its connection, a connection has one    *)
(* node, and none is left.                                                 *)
(***************************************************************************)
EXTENDS Capture, SequenceTheorems, WellFoundedInduction, TLAPS

-----------------------------------------------------------------------------
(* The operations of the table. *)

Buckets == DOMAIN Mhash_new
Tables == [Buckets -> Seq(Nodes)]

LEMMA BucketsAre == Buckets = {Hash[t] : t \in Tuples}
BY DEF Buckets, Mhash_new

LEMMA BucketIs ==
    ASSUME NEW h \in Tables, NEW i \in Buckets
    PROVE  /\ DOMAIN h = Buckets /\ h[i] \in Seq(Nodes)
           /\ Len(h[i]) \in Nat /\ DOMAIN h[i] = 1..Len(h[i])
           /\ \A j \in DOMAIN h[i] : h[i][j] \in Nodes
<1>1. DOMAIN h = Buckets /\ h[i] \in Seq(Nodes)
  BY DEF Tables
<1>2. QED BY <1>1, LenProperties, ElementOfSeq

\* n is a node of the table h.
InTable(h, n) == \E i \in DOMAIN h : \E j \in DOMAIN h[i] : n = h[i][j]

LEMMA EntriesAre ==
    \A h \in Tables : \A n : n \in Entries(h) <=> InTable(h, n)
<1> SUFFICES ASSUME NEW h \in Tables, NEW n
             PROVE  n \in Entries(h) <=> InTable(h, n)
  OBVIOUS
<1>1. n \in Entries(h) <=> \E i \in DOMAIN h : n \in Range(h[i])
  BY DEF Entries
<1>2. \A i \in DOMAIN h : n \in Range(h[i]) <=> \E j \in DOMAIN h[i] : n = h[i][j]
  BY DEF Range
<1>3. QED BY <1>1, <1>2 DEF InTable

LEMMA FirstIs ==
    ASSUME NEW P, P \subseteq Nat, P # {}
    PROVE  First(P) \in P
<1>1. \E n \in P : \A m \in P : ~(<<m, n>> \in OpToRel(<, Nat))
  BY NatLessThanWellFounded, WFMin
<1>2. PICK n \in P : \A m \in P : ~(<<m, n>> \in OpToRel(<, Nat))
  BY <1>1
<1>3. ASSUME NEW m \in P PROVE n <= m
  <2>1. ASSUME m < n PROVE <<m, n>> \in OpToRel(<, Nat)
    <3>1. <<m, n>> \in Nat \X Nat /\ <<m, n>>[1] = m /\ <<m, n>>[2] = n
      OBVIOUS
    <3>2. QED BY <2>1, <3>1 DEF OpToRel
  <2>2. ~(m < n)
    BY <1>2, <2>1
  <2>3. m \in Nat /\ n \in Nat
    OBVIOUS
  <2>4. QED BY <2>2, <2>3
<1>4. QED BY <1>3 DEF First

LEMMA FirstAt ==
    ASSUME NEW h \in Tables, NEW t \in Tuples, Mhash_has(h, t)
    PROVE  /\ Hash[t] \in DOMAIN h
           /\ First(At(h[Hash[t]], t)) \in DOMAIN h[Hash[t]]
           /\ h[Hash[t]][First(At(h[Hash[t]], t))].key = t
<1>1. Hash[t] \in Buckets
  BY BucketsAre
<1>2. At(h[Hash[t]], t) \subseteq Nat /\ At(h[Hash[t]], t) # {}
  BY <1>1, BucketIs DEF At, Mhash_has
<1>3. First(At(h[Hash[t]], t)) \in At(h[Hash[t]], t)
  BY <1>2, FirstIs
<1>4. QED BY <1>1, <1>3, BucketIs DEF At

LEMMA FindIs ==
    ASSUME NEW h \in Tables, NEW t \in Tuples, Mhash_has(h, t)
    PROVE  InTable(h, Mhash_find(h, t)) /\ Mhash_find(h, t).key = t
           /\ Mhash_find(h, t) \in Nodes
<1> DEFINE p == First(At(h[Hash[t]], t))
<1>1. /\ Hash[t] \in DOMAIN h /\ p \in DOMAIN h[Hash[t]]
      /\ h[Hash[t]][p].key = t /\ Mhash_find(h, t) = h[Hash[t]][p]
  BY FirstAt DEF Mhash_find
<1> HIDE DEF p
<1>2. Hash[t] \in Buckets
  BY BucketsAre
<1>3. h[Hash[t]][p] \in Nodes
  BY <1>1, <1>2, BucketIs
<1>4. QED BY <1>1, <1>3 DEF InTable

LEMMA InsertIs ==
    ASSUME NEW h \in Tables, NEW i \in Buckets, NEW n \in Nodes
    PROVE  /\ Mhash_insert(h, i, n) \in Tables
           /\ \A k \in Buckets \ {i} : Mhash_insert(h, i, n)[k] = h[k]
           /\ DOMAIN Mhash_insert(h, i, n)[i] = 1..(Len(h[i]) + 1)
           /\ Mhash_insert(h, i, n)[i][1] = n
           /\ \A j \in 2..(Len(h[i]) + 1) :
                 j - 1 \in DOMAIN h[i] /\ Mhash_insert(h, i, n)[i][j] = h[i][j - 1]
<1>1. h[i] \in Seq(Nodes) /\ Len(h[i]) \in Nat /\ DOMAIN h[i] = 1..Len(h[i])
  BY BucketIs
<1>2. <<n>> \in Seq(Nodes) /\ Len(<<n>>) = 1 /\ <<n>>[1] = n
  OBVIOUS
<1>3. /\ <<n>> \o h[i] \in Seq(Nodes)
      /\ Len(<<n>> \o h[i]) = 1 + Len(h[i])
      /\ \A j \in 1..(1 + Len(h[i])) :
            (<<n>> \o h[i])[j] = IF j <= 1 THEN n ELSE h[i][j - 1]
  <2>1. /\ <<n>> \o h[i] \in Seq(Nodes)
        /\ Len(<<n>> \o h[i]) = Len(<<n>>) + Len(h[i])
        /\ \A j \in 1..(Len(<<n>>) + Len(h[i])) :
              (<<n>> \o h[i])[j] = IF j <= Len(<<n>>) THEN <<n>>[j] ELSE h[i][j - Len(<<n>>)]
    BY <1>1, <1>2, ConcatProperties
  <2>2. \A j \in 1..(1 + Len(h[i])) : j <= 1 => j = 1
    OBVIOUS
  <2>3. QED BY <1>2, <2>1, <2>2
<1>4. /\ Mhash_insert(h, i, n) \in Tables
      /\ Mhash_insert(h, i, n)[i] = <<n>> \o h[i]
      /\ \A k \in Buckets \ {i} : Mhash_insert(h, i, n)[k] = h[k]
  BY <1>3 DEF Mhash_insert, Tables
<1>5. DOMAIN (<<n>> \o h[i]) = 1..(Len(h[i]) + 1)
  BY <1>1, <1>3, LenProperties
<1>6. \A j \in 2..(Len(h[i]) + 1) : /\ j \in 1..(1 + Len(h[i])) /\ ~(j <= 1)
                                    /\ j - 1 \in 1..Len(h[i])
  BY <1>1
<1>7. 1 \in 1..(1 + Len(h[i]))
  BY <1>1
<1>8. QED BY <1>1, <1>3, <1>4, <1>5, <1>6, <1>7

LEMMA RemoveIs ==
    ASSUME NEW S, NEW s \in Seq(S), NEW p \in 1..Len(s)
    PROVE  /\ RemoveAt(s, p) \in Seq(S)
           /\ DOMAIN RemoveAt(s, p) = 1..(Len(s) - 1)
           /\ \A j \in 1..(Len(s) - 1) :
                 RemoveAt(s, p)[j] = IF j < p THEN s[j] ELSE s[j + 1]
<1> DEFINE a == SubSeq(s, 1, p - 1)
           b == SubSeq(s, p + 1, Len(s))
<1>1. Len(s) \in Nat /\ \A i \in 1..Len(s) : s[i] \in S
  BY LenProperties, ElementOfSeq
<1>2. /\ a \in Seq(S) /\ Len(a) = p - 1
      /\ \A i \in 1..(p - 1) : a[i] = s[i]
  <2>1. \A i \in 1..(p - 1) : s[i] \in S
    BY <1>1
  <2>2. /\ a \in Seq(S) /\ Len(a) = IF 1 <= p - 1 THEN (p - 1) - 1 + 1 ELSE 0
        /\ \A i \in 1..((p - 1) - 1 + 1) : a[i] = s[1 + i - 1]
    BY <2>1, SubSeqProperties
  <2>3. QED BY <2>2
<1>3. /\ b \in Seq(S) /\ Len(b) = Len(s) - p
      /\ \A i \in 1..(Len(s) - p) : b[i] = s[p + i]
  <2>1. \A i \in (p + 1)..Len(s) : s[i] \in S
    BY <1>1
  <2>2. /\ b \in Seq(S) /\ Len(b) = IF p + 1 <= Len(s) THEN Len(s) - (p + 1) + 1 ELSE 0
        /\ \A i \in 1..(Len(s) - (p + 1) + 1) : b[i] = s[(p + 1) + i - 1]
    BY <1>1, <2>1, SubSeqProperties
  <2>3. QED BY <1>1, <2>2
<1>4. /\ a \o b \in Seq(S)
      /\ Len(a \o b) = (p - 1) + (Len(s) - p)
      /\ \A i \in 1..((p - 1) + (Len(s) - p)) :
            (a \o b)[i] = IF i <= p - 1 THEN a[i] ELSE b[i - (p - 1)]
  <2>1. a \in Seq(S) /\ b \in Seq(S) /\ Len(a) = p - 1 /\ Len(b) = Len(s) - p
    BY <1>2, <1>3
  <2> HIDE DEF a, b
  <2>2. /\ a \o b \in Seq(S)
        /\ Len(a \o b) = Len(a) + Len(b)
        /\ \A i \in 1..(Len(a) + Len(b)) :
              (a \o b)[i] = IF i <= Len(a) THEN a[i] ELSE b[i - Len(a)]
    BY ONLY <2>1, ConcatProperties
  <2>3. QED BY ONLY <2>1, <2>2
<1>5. DOMAIN (a \o b) = 1..(Len(s) - 1)
  <2> HIDE DEF a, b
  <2>1. DOMAIN (a \o b) = 1..Len(a \o b)
    BY <1>4, LenProperties
  <2>2. (p - 1) + (Len(s) - p) = Len(s) - 1
    BY <1>1
  <2>3. QED BY <1>4, <2>1, <2>2
<1>6. ASSUME NEW j \in 1..(Len(s) - 1)
      PROVE  (a \o b)[j] = IF j < p THEN s[j] ELSE s[j + 1]
  <2>1. /\ j \in 1..((p - 1) + (Len(s) - p))
        /\ j < p => j <= p - 1 /\ j \in 1..(p - 1)
        /\ ~(j < p) => /\ ~(j <= p - 1) /\ j - (p - 1) \in 1..(Len(s) - p)
                       /\ p + (j - (p - 1)) = j + 1
    BY <1>1
  <2> HIDE DEF a, b
  <2>2. QED BY <1>2, <1>3, <1>4, <2>1
<1>7. RemoveAt(s, p) = a \o b
  BY DEF RemoveAt
<1>8. QED BY <1>4, <1>5, <1>6, <1>7

LEMMA DelIs ==
    ASSUME NEW h \in Tables, NEW t \in Tuples
    PROVE  /\ Mhash_del(h, t) \in Tables
           /\ \/ ~Mhash_has(h, t) /\ Mhash_del(h, t) = h
              \/ /\ Mhash_has(h, t)
                 /\ \A i \in Buckets \ {Hash[t]} : Mhash_del(h, t)[i] = h[i]
                 /\ \E p \in At(h[Hash[t]], t) :
                      /\ DOMAIN Mhash_del(h, t)[Hash[t]] = 1..(Len(h[Hash[t]]) - 1)
                      /\ \A j \in 1..(Len(h[Hash[t]]) - 1) :
                            Mhash_del(h, t)[Hash[t]][j] =
                               IF j < p THEN h[Hash[t]][j] ELSE h[Hash[t]][j + 1]
<1>1. Hash[t] \in Buckets
  BY BucketsAre
<1>2. DOMAIN h = Buckets /\ h[Hash[t]] \in Seq(Nodes) /\ DOMAIN h[Hash[t]] = 1..Len(h[Hash[t]])
  BY <1>1, BucketIs
<1>3. CASE ~Mhash_has(h, t)
  <2>1. Mhash_del(h, t) = h
    BY <1>1, <1>2, <1>3 DEF Mhash_del, Mhash_has, Tables
  <2>2. QED BY <1>3, <2>1
<1>4. CASE Mhash_has(h, t)
  <2> DEFINE p == First(At(h[Hash[t]], t))
  <2>1. p \in DOMAIN h[Hash[t]] /\ p \in At(h[Hash[t]], t)
    BY <1>4, FirstAt DEF At
  <2>2. /\ RemoveAt(h[Hash[t]], p) \in Seq(Nodes)
        /\ DOMAIN RemoveAt(h[Hash[t]], p) = 1..(Len(h[Hash[t]]) - 1)
        /\ \A j \in 1..(Len(h[Hash[t]]) - 1) :
              RemoveAt(h[Hash[t]], p)[j] = IF j < p THEN h[Hash[t]][j] ELSE h[Hash[t]][j + 1]
    BY <1>2, <2>1, RemoveIs
  <2>3. /\ Mhash_del(h, t) \in Tables
        /\ Mhash_del(h, t)[Hash[t]] = RemoveAt(h[Hash[t]], p)
        /\ \A i \in Buckets \ {Hash[t]} : Mhash_del(h, t)[i] = h[i]
    BY <1>1, <1>2, <1>4, <2>2 DEF Mhash_del, Mhash_has, Tables
  <2>4. QED BY <1>4, <2>1, <2>2, <2>3
<1>5. QED BY <1>3, <1>4

-----------------------------------------------------------------------------
(* The messages under way, in the order in which they are treated: place 0   *)
(* is the analysis thread, the last one the capture thread.                  *)

Places == 0..(Len(mq) + 1)
Message(i) == IF i = 0 THEN msg ELSE IF i <= Len(mq) THEN mq[i] ELSE putting
Waiting(i) == i \in Places /\ Message(i) # None
IsData(i) == Waiting(i) /\ Message(i).type = "MSG_DATA"
IsClose(i) == Waiting(i) /\ Message(i).type = "MSG_CLOSE"
DataOf(i, t) == IsData(i) /\ Message(i).t4 = t
CloseOf(i, t) == IsClose(i) /\ Message(i).t4 = t

Known(t) == t \notin recycled
Kept(t) == t \notin lost \cup recycled
IsLive(t) == \E s \in live : addr[s] = t

\* No two connections have one tuple at a time.
StreamInv ==
    /\ \A s \in live : addr[s] \in Tuples
    /\ \A s, u \in live : addr[s] = addr[u] => s = u

\* The stream of a packet has its tuple, or was reused.
MessageInv ==
    \A i \in Places : IsData(i) =>
       /\ Message(i).isrequest \in Directions(Message(i).t4)
       /\ \/ addr[Message(i).ts] = Message(i).t4
          \/ {Message(i).t4, addr[Message(i).ts]} \subseteq recycled

Inserting == apc \in {"key", "index", "port"}

\* The packet in hand and its node.
CallInv ==
    /\ apc \in {"deq", "aborted"} => msg = None
    /\ apc = "del" => msg \in Msgs /\ msg.type = "MSG_CLOSE"
    /\ apc \in {"find", "parse"} \/ Inserting => msg \in Msgs /\ msg.type = "MSG_DATA"
    /\ Inserting /\ Known(msg.t4) => \A n \in Entries(hash) : n.key # msg.t4
    /\ apc \in {"index", "port"} =>
          /\ node \in Nodes /\ node.ts = msg.ts
          /\ node.key = msg.t4 \/ {msg.t4, node.key} \subseteq recycled
    /\ apc = "port" /\ Known(msg.t4) => node.index = Hash[msg.t4]
    /\ apc = "parse" => node \in Nodes
    /\ apc = "parse" /\ Known(msg.t4) => node \in Entries(hash) /\ node.key = msg.t4
    /\ apc = "aborted" => recycled # {}

\* A node is in the bucket of its tuple, once, and has its protocol.
TableInv ==
    \A i \in DOMAIN hash : \A j \in DOMAIN hash[i] : Known(hash[i][j].key) =>
       /\ i = Hash[hash[i][j].key]
       /\ hash[i][j].port = Proto[hash[i][j].key]
       /\ \A k \in DOMAIN hash[i] : hash[i][k].key = hash[i][j].key => k = j

\* Between two closes all packets of a tuple are of one stream: the stream of the
\* connection, if it is still there, and of its node, if it has one.
OneStream(t) ==
    /\ \A i, j \in Places : DataOf(i, t) /\ DataOf(j, t) /\ i < j =>
          \/ Message(i).ts = Message(j).ts
          \/ \E k \in i..j : CloseOf(k, t)
    /\ \A i \in Places : DataOf(i, t) =>
          \/ \E k \in Places : k > i /\ CloseOf(k, t)
          \/ \E s \in live : addr[s] = t /\ Message(i).ts = s
NodeStream(n) ==
    /\ \A j \in Places : DataOf(j, n.key) =>
          \/ n.ts = Message(j).ts
          \/ \E k \in 0..j : CloseOf(k, n.key)
    /\ \/ \E k \in Places : CloseOf(k, n.key)
       \/ \E s \in live : addr[s] = n.key /\ n.ts = s
OrderInv ==
    /\ \A t \in Tuples : Kept(t) => OneStream(t)
    /\ \A n \in Entries(hash) : Kept(n.key) => NodeStream(n)

IInv == TypeOK /\ StreamInv /\ MessageInv /\ CallInv /\ TableInv /\ OrderInv

-----------------------------------------------------------------------------
(* How the messages move.  A step shifts them by d and drops the one at p. *)

MovesBut(d, p) ==
    /\ \A i \in Places' : Waiting(i)' => /\ i + d \in Places /\ i + d # p
                                         /\ Message(i)' = Message(i + d)
    /\ \A k \in Places : Waiting(k) /\ k # p => /\ k - d \in Places'
                                                /\ Message(k - d)' = Message(k)

LEMMA PlacesAre ==
    TypeOK => \E n \in Nat : /\ n = Len(mq) /\ Places = 0..(n + 1)
                             /\ \A i \in 1..n : mq[i] \in Msgs
<1> SUFFICES ASSUME TypeOK PROVE \E n \in Nat : n = Len(mq) /\ \A i \in 1..n : mq[i] \in Msgs
  BY DEF Places
<1>1. mq \in Seq(Msgs)
  BY DEF TypeOK
<1>2. QED BY <1>1, LenProperties, ElementOfSeq

LEMMA StayMoves ==
    ASSUME TypeOK, UNCHANGED <<mq, putting, msg>>
    PROVE  MovesBut(0, -1)
<1> PICK n \in Nat : n = Len(mq) /\ Places = 0..(n + 1)
  BY PlacesAre
<1>1. Places' = Places /\ \A i : Message(i)' = Message(i)
  BY DEF Places, Message
<1>2. QED BY <1>1 DEF MovesBut, Waiting

LEMMA HandMoves ==
    ASSUME TypeOK, UNCHANGED <<mq, putting>>, msg' = None
    PROVE  MovesBut(0, 0)
<1> PICK n \in Nat : n = Len(mq) /\ Places = 0..(n + 1)
  BY PlacesAre
<1>1. /\ Places' = Places /\ Message(0)' = None
      /\ \A i \in Places \ {0} : Message(i)' = Message(i)
  BY DEF Places, Message
<1>2. QED BY <1>1 DEF MovesBut, Waiting

LEMMA EnqMoves ==
    ASSUME TypeOK, Enq
    PROVE  MovesBut(0, -1)
<1> PICK n \in Nat : n = Len(mq) /\ Places = 0..(n + 1) /\ \A i \in 1..n : mq[i] \in Msgs
  BY PlacesAre
<1>1. /\ mq \in Seq(Msgs) /\ putting \in Msgs /\ mq' = Append(mq, putting)
      /\ putting' = None /\ msg' = msg
  BY DEF Enq, TypeOK
<1>2. Len(mq') = n + 1 /\ mq'[n + 1] = putting /\ \A i \in 1..n : mq'[i] = mq[i]
  BY <1>1, AppendProperties
<1>3. Places' = 0..(n + 2)
  BY <1>2 DEF Places
<1>4. \A i \in Places' : Message(i)' = IF i = n + 2 THEN None ELSE Message(i)
  <2> SUFFICES ASSUME NEW i \in 0..(n + 2)
               PROVE  Message(i)' = IF i = n + 2 THEN None ELSE Message(i)
    BY <1>3
  <2>1. Message(i)' = IF i = 0 THEN msg ELSE IF i <= n + 1 THEN mq'[i] ELSE None
    BY <1>1, <1>2 DEF Message
  <2>2. Message(i) = IF i = 0 THEN msg ELSE IF i <= n THEN mq[i] ELSE putting
    BY DEF Message
  <2>3. i = 0 \/ i \in 1..n \/ i = n + 1 \/ i = n + 2
    OBVIOUS
  <2>4. QED BY <1>2, <2>1, <2>2, <2>3
<1>5. \A i \in Places : i \in Places' /\ i # n + 2 /\ i - 0 = i /\ i + 0 = i /\ i # -1
  BY <1>3
<1>6. \A i \in Places' : i # n + 2 => i \in Places
  BY <1>3
<1>7. QED BY <1>4, <1>5, <1>6 DEF MovesBut, Waiting

LEMMA FullMoves ==
    ASSUME TypeOK, EnqFull
    PROVE  MovesBut(0, Len(mq) + 1)
<1> PICK n \in Nat : n = Len(mq) /\ Places = 0..(n + 1)
  BY PlacesAre
<1>1. UNCHANGED <<mq, msg>> /\ putting' = None
  BY DEF EnqFull
<1>2. /\ Places' = Places /\ Message(n + 1)' = None
      /\ \A i \in Places \ {n + 1} : Message(i)' = Message(i)
  BY <1>1 DEF Places, Message
<1>3. QED BY <1>2 DEF MovesBut, Waiting

LEMMA DeqMoves ==
    ASSUME TypeOK, CallInv, Deq
    PROVE  MovesBut(1, -1)
<1> PICK n \in Nat : n = Len(mq) /\ Places = 0..(n + 1) /\ \A i \in 1..n : mq[i] \in Msgs
  BY PlacesAre
<1>1. /\ mq \in Seq(Msgs) /\ mq # << >> /\ msg = None /\ msg' = Head(mq)
      /\ mq' = Tail(mq) /\ putting' = putting
  BY DEF Deq, TypeOK, CallInv
<1>2. n >= 1 /\ Len(mq') = n - 1 /\ Head(mq) = mq[1] /\ \A i \in 1..(n - 1) : mq'[i] = mq[i + 1]
  <2>1. n # 0
    BY <1>1, EmptySeq
  <2>2. QED BY <1>1, <2>1, HeadTailProperties
<1>3. Places' = 0..n
  BY <1>2 DEF Places
<1>4. \A i \in Places' : Message(i)' = Message(i + 1)
  <2> SUFFICES ASSUME NEW i \in 0..n PROVE Message(i)' = Message(i + 1)
    BY <1>3
  <2>1. Message(i)' = IF i = 0 THEN mq[1] ELSE IF i <= n - 1 THEN mq'[i] ELSE putting
    BY <1>1, <1>2 DEF Message
  <2>2. Message(i + 1) = IF i + 1 = 0 THEN msg ELSE IF i + 1 <= n THEN mq[i + 1] ELSE putting
    BY DEF Message
  <2>3. i = 0 \/ i \in 1..(n - 1) \/ (i = n /\ i >= 1)
    OBVIOUS
  <2>4. QED BY <1>2, <2>1, <2>2, <2>3
<1>5. Message(0) = None
  BY <1>1 DEF Message
<1>6. \A i \in Places' : i + 1 \in Places /\ i + 1 # -1
  BY <1>3
<1>7. \A k \in Places : k # 0 => k - 1 \in Places' /\ (k - 1) + 1 = k
  BY <1>3
<1>8. QED BY <1>4, <1>5, <1>6, <1>7 DEF MovesBut, Waiting

\* A message is put where there was none.
LEMMA PutMoves ==
    ASSUME TypeOK, UNCHANGED <<mq, msg>>, putting = None, putting' \in Msgs
    PROVE  /\ Places' = Places /\ Len(mq) + 1 \in Places /\ 0 \in Places
           /\ Message(Len(mq) + 1) = None /\ Message(Len(mq) + 1)' = putting'
           /\ \A i \in Places : i <= Len(mq) + 1 /\ (i # Len(mq) + 1 => Message(i)' = Message(i))
<1> PICK n \in Nat : n = Len(mq) /\ Places = 0..(n + 1)
  BY PlacesAre
<1>1. QED BY DEF Places, Message

LEMMA PlacesInt == TypeOK => Places \subseteq Int
BY PlacesAre

\* Dropping a message keeps what is said about the others.
LEMMA MessageKeeps ==
    ASSUME TypeOK, MessageInv, NEW d, NEW p, MovesBut(d, p),
           addr' = addr, recycled' = recycled
    PROVE  MessageInv'
<1> SUFFICES ASSUME NEW i \in Places', IsData(i)'
             PROVE  /\ Message(i)'.isrequest \in Directions(Message(i)'.t4)
                    /\ \/ addr'[Message(i)'.ts] = Message(i)'.t4
                       \/ {Message(i)'.t4, addr'[Message(i)'.ts]} \subseteq recycled'
  BY DEF MessageInv
<1>1. i + d \in Places /\ Message(i)' = Message(i + d)
  BY DEF MovesBut, IsData
<1>2. IsData(i + d)
  BY <1>1 DEF IsData, Waiting
<1>3. QED BY <1>1, <1>2 DEF MessageInv

\* A close of t that is behind a packet of t is not dropped.
LEMMA OneStreamKeeps ==
    ASSUME TypeOK, TypeOK', NEW t, OneStream(t), NEW d \in Int, NEW p \in Int, MovesBut(d, p),
           p # 0 => ~CloseOf(p, t),
           \A i \in Places' : i + d >= 0,
           \A s \in live : addr[s] = t => s \in live' /\ addr'[s] = t
    PROVE  OneStream(t)'
<1>0. (TypeOK => Places \subseteq Int)'
  BY PlacesInt, PTL
<1>1. Places \subseteq Int /\ Places' \subseteq Int
  BY <1>0, PlacesInt
<1>2. ASSUME NEW i \in Places', DataOf(i, t)'
      PROVE  /\ i + d \in Places /\ DataOf(i + d, t) /\ Message(i)' = Message(i + d)
             /\ i + d # p
  BY <1>2 DEF MovesBut, DataOf, IsData, Waiting
<1>3. ASSUME NEW i \in Places', DataOf(i, t)', NEW k \in Places, k >= i + d, CloseOf(k, t)
      PROVE  k - d \in Places' /\ k - d >= i /\ CloseOf(k - d, t)'
  <2>1. k # p
    <3>1. SUFFICES ASSUME k = p PROVE FALSE
      OBVIOUS
    <3>2. k = 0
      BY <1>3, <3>1
    <3>3. i + d >= 0 /\ i + d # 0
      BY <1>2, <1>3, <3>1, <3>2
    <3>4. QED BY <1>1, <1>3, <3>2, <3>3
  <2>2. k - d \in Places' /\ Message(k - d)' = Message(k)
    BY <1>3, <2>1 DEF MovesBut, CloseOf, IsClose
  <2>3. QED BY <1>1, <1>3, <2>2 DEF CloseOf, IsClose, Waiting
<1>4. ASSUME NEW i \in Places', NEW j \in Places', DataOf(i, t)', DataOf(j, t)', i < j
      PROVE  \/ Message(i)'.ts = Message(j)'.ts
             \/ \E k \in i..j : CloseOf(k, t)'
  <2>1. /\ i + d \in Places /\ DataOf(i + d, t) /\ Message(i)' = Message(i + d)
        /\ j + d \in Places /\ DataOf(j + d, t) /\ Message(j)' = Message(j + d)
    BY <1>2, <1>4
  <2>2. i + d < j + d
    BY <1>1, <1>4
  <2>3. CASE Message(i + d).ts = Message(j + d).ts
    BY <2>1, <2>3
  <2>4. ASSUME NEW k \in (i + d)..(j + d), CloseOf(k, t)
        PROVE  k - d \in i..j /\ CloseOf(k - d, t)'
    <3>1. k \in Places /\ k >= i + d /\ k <= j + d
      BY <1>1, <2>4 DEF CloseOf, IsClose, Waiting
    <3>2. k - d \in Places' /\ k - d >= i /\ CloseOf(k - d, t)'
      BY <1>3, <1>4, <2>4, <3>1
    <3>3. QED BY <1>1, <3>1, <3>2
  <2>5. QED BY <2>1, <2>2, <2>3, <2>4 DEF OneStream
<1>5. ASSUME NEW i \in Places', DataOf(i, t)'
      PROVE  \/ \E k \in Places' : k > i /\ CloseOf(k, t)'
             \/ \E s \in live' : addr'[s] = t /\ Message(i)'.ts = s
  <2>1. i + d \in Places /\ DataOf(i + d, t) /\ Message(i)' = Message(i + d)
    BY <1>2, <1>5
  <2>2. CASE \E s \in live : addr[s] = t /\ Message(i + d).ts = s
    BY <2>1, <2>2
  <2>3. ASSUME NEW k \in Places, k > i + d, CloseOf(k, t)
        PROVE  k - d \in Places' /\ k - d > i /\ CloseOf(k - d, t)'
    <3>1. k - d \in Places' /\ CloseOf(k - d, t)'
      BY <1>1, <1>3, <1>5, <2>3
    <3>2. QED BY <1>1, <2>3, <3>1
  <2>4. QED BY <2>1, <2>2, <2>3 DEF OneStream
<1>6. QED BY <1>4, <1>5 DEF OneStream

LEMMA NodeStreamKeeps ==
    ASSUME TypeOK, TypeOK', NEW n, NodeStream(n), NEW d \in Int, NEW p \in Int, MovesBut(d, p),
           ~CloseOf(p, n.key), \A k \in Places : Waiting(k) => k - d >= 0,
           \A s \in live : addr[s] = n.key => s \in live' /\ addr'[s] = n.key
    PROVE  NodeStream(n)'
<1>0. (TypeOK => Places \subseteq Int)'
  BY PlacesInt, PTL
<1>1. Places \subseteq Int /\ Places' \subseteq Int
  BY <1>0, PlacesInt
<1>2. ASSUME NEW k, CloseOf(k, n.key)
      PROVE  k \in Places /\ k - d \in Places' /\ CloseOf(k - d, n.key)' /\ k - d >= 0
  <2>1. k \in Places /\ Waiting(k) /\ k # p
    BY <1>2 DEF CloseOf, IsClose, Waiting
  <2>2. k - d \in Places' /\ Message(k - d)' = Message(k)
    BY <2>1 DEF MovesBut
  <2>3. QED BY <1>2, <2>1, <2>2 DEF CloseOf, IsClose, Waiting
<1>3. ASSUME NEW j \in Places', DataOf(j, n.key)'
      PROVE  n.ts = Message(j)'.ts \/ \E k \in 0..j : CloseOf(k, n.key)'
  <2>1. j + d \in Places /\ DataOf(j + d, n.key) /\ Message(j)' = Message(j + d)
    BY <1>3 DEF MovesBut, DataOf, IsData, Waiting
  <2>2. ASSUME NEW k \in 0..(j + d), CloseOf(k, n.key)
        PROVE  k - d \in 0..j /\ CloseOf(k - d, n.key)'
    <3>1. k \in Places /\ k - d \in Places' /\ CloseOf(k - d, n.key)' /\ k - d >= 0
      BY <1>2, <2>2
    <3>2. QED BY <1>1, <2>2, <3>1
  <2>3. QED BY <2>1, <2>2 DEF NodeStream
<1>4. \/ \E k \in Places' : CloseOf(k, n.key)'
      \/ \E s \in live' : addr'[s] = n.key /\ n.ts = s
  <2>1. CASE \E k \in Places : CloseOf(k, n.key)
    BY <1>2, <2>1
  <2>2. CASE \E s \in live : addr[s] = n.key /\ n.ts = s
    BY <2>2
  <2>3. QED BY <2>1, <2>2 DEF NodeStream
<1>5. QED BY <1>3, <1>4 DEF NodeStream

-----------------------------------------------------------------------------
(* Types. *)

LEMMA MessageIs ==
    /\ \A m \in Msgs : /\ m # None /\ m.t4 \in Tuples /\ m.type \in {"MSG_CLOSE", "MSG_DATA"}
                       /\ m.type = "MSG_DATA" =>
                             m.ts \in Streams /\ m.data \in Bufs /\ m.isrequest \in BOOLEAN
    /\ \A t : Close(t).type = "MSG_CLOSE" /\ Close(t).t4 = t
    /\ \A t, s, b, r : LET m == Data(t, s, b, r)
                       IN  /\ m.type = "MSG_DATA" /\ m.t4 = t /\ m.ts = s /\ m.data = b
                           /\ m.isrequest = r
    /\ \A t \in Tuples : Close(t) \in Msgs /\ Directions(t) \subseteq BOOLEAN
    /\ \A t \in Tuples, s \in Streams, b \in Bufs, r \in BOOLEAN : Data(t, s, b, r) \in Msgs
<1>1. ASSUME NEW m \in Msgs
      PROVE  /\ m # None /\ m.t4 \in Tuples /\ m.type \in {"MSG_CLOSE", "MSG_DATA"}
             /\ m.type = "MSG_DATA" =>
                   m.ts \in Streams /\ m.data \in Bufs /\ m.isrequest \in BOOLEAN
  <2>1. m # None
    BY NoneAssumption
  <2>2. CASE \E t \in Tuples : m = Close(t)
    BY <2>1, <2>2 DEF Close
  <2>3. CASE \E t \in Tuples, s \in Streams, b \in Bufs, r \in BOOLEAN : m = Data(t, s, b, r)
    BY <2>1, <2>3 DEF Data
  <2>4. QED BY <2>2, <2>3 DEF Msgs
<1>2. \A t \in Tuples : Close(t) \in Msgs
  BY DEF Msgs
<1>3. \A t \in Tuples, s \in Streams, b \in Bufs, r \in BOOLEAN : Data(t, s, b, r) \in Msgs
  BY DEF Msgs
<1>4. \A t \in Tuples : Directions(t) \subseteq BOOLEAN
  BY ProtoAssumption DEF Directions, Protos
<1>5. QED BY <1>1, <1>2, <1>3, <1>4 DEF Close, Data

\* The message in each place.
LEMMA InPlace ==
    TypeOK => /\ 0 \in Places /\ Message(0) = msg /\ Message(Len(mq) + 1) = putting
              /\ Len(mq) + 1 \in Places
              /\ \A i \in Places : Waiting(i) => Message(i) \in Msgs /\ Message(i) \in UnderWay
              /\ mq = << >> /\ UnderWay = {} => \A i : ~Waiting(i)
<1> SUFFICES ASSUME TypeOK
             PROVE  /\ 0 \in Places /\ Message(0) = msg /\ Message(Len(mq) + 1) = putting
                    /\ Len(mq) + 1 \in Places
                    /\ \A i \in Places : Waiting(i) => Message(i) \in Msgs /\ Message(i) \in UnderWay
                    /\ mq = << >> /\ UnderWay = {} => \A i : ~Waiting(i)
  OBVIOUS
<1> PICK n \in Nat : n = Len(mq) /\ Places = 0..(n + 1) /\ \A i \in 1..n : mq[i] \in Msgs
  BY PlacesAre
<1>1. 0 \in Places /\ Message(0) = msg /\ Message(n + 1) = putting /\ n + 1 \in Places
  BY DEF Message
<1>2. ASSUME NEW i \in Places, Waiting(i)
      PROVE  Message(i) \in Msgs /\ Message(i) \in UnderWay
  <2>1. mq \in Seq(Msgs) /\ DOMAIN mq = 1..n
    BY LenProperties DEF TypeOK
  <2>2. \A k \in 1..n : mq[k] \in Range(mq)
    BY <2>1 DEF Range
  <2>3. i = 0 \/ i \in 1..n \/ i = n + 1
    OBVIOUS
  <2>4. CASE i \in 1..n
    <3>1. Message(i) = mq[i]
      BY <2>4 DEF Message
    <3>2. QED BY <2>2, <2>4, <3>1 DEF UnderWay
  <2>5. CASE i = 0 \/ i = n + 1
    BY <1>1, <1>2, <2>5 DEF Waiting, UnderWay, TypeOK
  <2>6. QED BY <2>3, <2>4, <2>5
<1>3. \A i : Waiting(i) => UnderWay # {}
  BY <1>2 DEF Waiting
<1>4. QED BY <1>1, <1>2, <1>3

LEMMA InHand ==
    ASSUME TypeOK, CallInv, apc \in {"find", "key", "index", "port", "parse"}
    PROVE  /\ msg \in Msgs /\ msg.type = "MSG_DATA" /\ msg.t4 \in Tuples
           /\ msg.ts \in Streams /\ msg.data \in Bufs /\ msg.isrequest \in BOOLEAN
           /\ IsData(0) /\ DataOf(0, msg.t4)
<1>1. msg \in Msgs /\ msg.type = "MSG_DATA"
  BY DEF CallInv, Inserting
<1>2. msg # None /\ 0 \in Places /\ Message(0) = msg
  BY <1>1, InPlace, MessageIs
<1>3. QED BY <1>1, <1>2, MessageIs DEF DataOf, IsData, Waiting

\* The stream of the packet in hand has a tuple.
LEMMA InStream ==
    ASSUME TypeOK, CallInv, MessageInv, apc \in {"find", "key", "index", "port", "parse"}
    PROVE  /\ addr[msg.ts] \in Tuples
           /\ msg.isrequest \in Directions(msg.t4)
           /\ addr[msg.ts] = msg.t4 \/ {msg.t4, addr[msg.ts]} \subseteq recycled
<1>1. 0 \in Places /\ Message(0) = msg /\ IsData(0) /\ msg.t4 \in Tuples
  BY InHand, InPlace
<1>2. QED BY <1>1 DEF MessageInv, TypeOK

LEMMA TypeInit == Init => TypeOK
<1>1. << >> \in Seq(Msgs) /\ Len(<< >>) = 0 /\ << >> \in Seq(Nodes)
  BY EmptySeq
<1>2. Mhash_new \in [DOMAIN Mhash_new -> Seq(Nodes)]
  BY <1>1 DEF Mhash_new
<1>3. QED BY <1>1, <1>2, BoundAssumption DEF Init, TypeOK

LEMMA TypeStep ==
    ASSUME TypeOK, StreamInv, MessageInv, CallInv, [Next]_vars
    PROVE  TypeOK'
<1> USE DEF TypeOK
<1>1. ASSUME NEW s \in Streams, NEW t \in Tuples, Establish(s, t) PROVE TypeOK'
  <2>1. {m.t4 : m \in {m \in UnderWay : m.type = "MSG_DATA" /\ m.ts = s}} \subseteq Tuples
    <3>1. UnderWay \subseteq Msgs
      <4>1. Range(mq) \subseteq Msgs
        BY RangeOfSeq
      <4>2. QED BY <4>1 DEF UnderWay
    <3>2. QED BY <3>1, MessageIs
  <2>2. recycled' \subseteq Tuples
    BY <1>1, <2>1 DEF Establish
  <2>3. conns' \in 0..MaxConns
    BY <1>1, BoundAssumption DEF Establish
  <2>4. QED BY <1>1, <2>2, <2>3 DEF Establish
<1>2. ASSUME NEW s \in Streams, PutData(s) PROVE TypeOK'
  <2>1. s \in live /\ addr[s] \in Tuples
    BY <1>2 DEF PutData, StreamInv
  <2>2. PICK b \in free, r \in Directions(addr[s]) :
           putting' = Data(addr[s], s, b, r) /\ free' = free \ {b}
    BY <1>2 DEF PutData
  <2>3. b \in Bufs /\ r \in BOOLEAN
    BY <2>1, MessageIs
  <2>4. putting' \in Msgs
    BY <2>1, <2>2, <2>3, MessageIs
  <2>5. QED BY <1>2, <2>2, <2>4 DEF PutData, nids, history
<1>3. ASSUME NEW s \in Streams, PutClose(s) PROVE TypeOK'
  <2>1. addr[s] \in Tuples
    BY <1>3 DEF PutClose, StreamInv
  <2>2. putting' \in Msgs
    BY <1>3, <2>1, MessageIs DEF PutClose
  <2>3. QED BY <1>3, <2>2 DEF PutClose, history
<1>4. ASSUME NEW s \in Streams, TimeOut(s) PROVE TypeOK'
  BY <1>4 DEF TimeOut, StreamInv
<1>5. CASE Enq
  <2>1. putting \in Msgs
    BY <1>5 DEF Enq
  <2>2. mq' \in Seq(Msgs) /\ Len(mq') = Len(mq) + 1
    BY <1>5, <2>1, AppendProperties DEF Enq
  <2>3. Len(mq') <= QLen
    <3>1. Len(mq) \in Nat /\ Len(mq) < QLen
      BY <1>5, LenProperties DEF Enq
    <3>2. QED BY <2>2, <3>1, BoundAssumption
  <2>4. QED BY <1>5, <2>2, <2>3 DEF Enq, nids, history
<1>6. CASE EnqFull
  <2>1. putting \in Msgs /\ putting.t4 \in Tuples
        /\ (putting.type = "MSG_DATA" => putting.data \in Bufs)
    BY <1>6, MessageIs DEF EnqFull
  <2>2. QED BY <1>6, <2>1 DEF EnqFull, nids
<1>7. CASE Deq
  <2>1. /\ msg' \in Msgs /\ mq' \in Seq(Msgs) /\ Len(mq') = Len(mq) - 1
        /\ Len(mq) \in Nat
    BY <1>7, HeadTailProperties, LenProperties DEF Deq
  <2>2. Len(mq') <= QLen
    BY <2>1, BoundAssumption
  <2>3. apc' \in {"del", "find"}
    BY <1>7 DEF Deq
  <2>4. QED BY <1>7, <2>1, <2>2, <2>3 DEF Deq, nids, history
<1>8. CASE Del
  <2>1. hash \in Tables /\ msg.t4 \in Tuples
    <3>1. msg \in Msgs
      BY <1>8 DEF Del, CallInv
    <3>2. QED BY <3>1, MessageIs DEF Tables, Buckets
  <2>2. hash' \in Tables
    BY <1>8, <2>1, DelIs DEF Del
  <2>3. QED BY <1>8, <2>2 DEF Del, nids, history, Tables, Buckets
<1>9. CASE Find
  <2>1. msg.t4 \in Tuples /\ hash \in Tables
    BY <1>9, InHand DEF Find, Tables, Buckets
  <2>2. node' \in Nodes \cup {None} /\ apc' \in {"parse", "key"}
    <3>1. CASE Mhash_has(hash, msg.t4)
      BY <1>9, <2>1, <3>1, FindIs DEF Find
    <3>2. CASE ~Mhash_has(hash, msg.t4)
      BY <1>9, <3>2 DEF Find
    <3>3. QED BY <3>1, <3>2
  <2>3. QED BY <1>9, <2>2 DEF Find, nids, history
<1>10. CASE InsertKey
  <2>1. addr[msg.ts] \in Tuples /\ msg.ts \in Streams
    BY <1>10, InStream, InHand DEF InsertKey
  <2>2. node' \in Nodes
    BY <1>10, <2>1 DEF InsertKey, Nodes, Mhash_new
  <2>3. QED BY <1>10, <2>2 DEF InsertKey, nids, history
<1>11. CASE InsertIndex
  <2>1. addr[msg.ts] \in Tuples /\ node \in Nodes
    BY <1>11, InStream DEF InsertIndex, CallInv
  <2>2. node' \in Nodes
    BY <1>11, <2>1 DEF InsertIndex, Nodes, Mhash_new
  <2>3. QED BY <1>11, <2>2 DEF InsertIndex, nids, history
<1>12. CASE InsertPort
  <2>1. addr[msg.ts] \in Tuples /\ node \in Nodes
    BY <1>12, InStream DEF InsertPort, CallInv
  <2> DEFINE n == [node EXCEPT !.port = Proto[addr[msg.ts]]]
  <2>2. n \in Nodes /\ n.index \in Buckets
    BY <2>1, ProtoAssumption DEF Nodes, Buckets
  <2>3. node' = n /\ hash' = Mhash_insert(hash, n.index, n)
    BY <1>12 DEF InsertPort
  <2> HIDE DEF n
  <2>4. hash' \in Tables
    BY <2>2, <2>3, InsertIs DEF Tables, Buckets
  <2>5. QED BY <1>12, <2>2, <2>3, <2>4 DEF InsertPort, nids, history, Tables, Buckets
<1>13. CASE Parse
  <2>1. msg.data \in Bufs
    BY <1>13, InHand DEF Parse
  <2>2. QED BY <1>13, <2>1 DEF Parse, nids, history
<1>14. CASE UNCHANGED vars
  BY <1>14 DEF vars
<1>15. QED BY <1>1, <1>2, <1>3, <1>4, <1>5, <1>6, <1>7, <1>8, <1>9, <1>10, <1>11, <1>12,
              <1>13, <1>14 DEF Next, Analysis

-----------------------------------------------------------------------------
(* Streams and messages. *)

LEMMA StreamStep ==
    ASSUME TypeOK, StreamInv, [Next]_vars
    PROVE  StreamInv'
<1>1. ASSUME NEW s \in Streams, NEW t \in Tuples, Establish(s, t) PROVE StreamInv'
  <2>1. /\ addr'[s] = t /\ live' = live \cup {s} /\ s \notin live
        /\ \A u \in live : addr[u] # t
        /\ \A u \in live : addr'[u] = addr[u]
    BY <1>1 DEF Establish, TypeOK
  <2>2. QED BY <2>1 DEF StreamInv
<1>2. ASSUME addr' = addr, live' \subseteq live PROVE StreamInv'
  BY <1>2 DEF StreamInv
<1>3. CASE \E s \in Streams : PutData(s) \/ PutClose(s) \/ TimeOut(s)
  <2>1. addr' = addr /\ live' \subseteq live
    BY <1>3 DEF PutData, PutClose, TimeOut, nids
  <2>2. QED BY <1>2, <2>1
<1>4. CASE Enq \/ EnqFull \/ Analysis
  <2>1. addr' = addr /\ live' = live
    BY <1>4 DEF Enq, EnqFull, Analysis, Deq, Del, Find, InsertKey, InsertIndex,
                InsertPort, Parse, nids
  <2>2. QED BY <1>2, <2>1
<1>5. CASE UNCHANGED vars
  BY <1>2, <1>5 DEF vars
<1>6. QED BY <1>1, <1>3, <1>4, <1>5 DEF Next

\* What the steps that queue no message do to those that wait.
LEMMA StepMoves ==
    ASSUME TypeOK, CallInv,
           \/ UNCHANGED vars
           \/ \E s \in Streams : (\E t \in Tuples : Establish(s, t)) \/ TimeOut(s)
           \/ Enq \/ EnqFull \/ Analysis
    PROVE  \E d \in {0, 1}, p \in Int :
              /\ MovesBut(d, p)
              /\ d = 1 <=> Deq
              /\ p = IF Del \/ Parse THEN 0 ELSE IF EnqFull THEN Len(mq) + 1 ELSE -1
<1> USE DEF Deq, Del, Find, InsertKey, InsertIndex, InsertPort, Parse, Enq, EnqFull
<1>1. CASE \/ \E s \in Streams : (\E t \in Tuples : Establish(s, t)) \/ TimeOut(s)
           \/ Find \/ InsertKey \/ InsertIndex \/ InsertPort
  <2>1. UNCHANGED <<mq, putting, msg>> /\ ~Deq /\ ~Del /\ ~Parse /\ ~EnqFull
    <3>1. CASE Find \/ InsertKey \/ InsertIndex \/ InsertPort
      BY <3>1
    <3>2. CASE \E s \in Streams : (\E t \in Tuples : Establish(s, t)) \/ TimeOut(s)
      BY <3>2 DEF Establish, TimeOut, CallInv
    <3>3. QED BY <1>1, <3>1, <3>2
  <2>2. QED BY <2>1, StayMoves
<1>2. CASE UNCHANGED vars
  <2>1. UNCHANGED <<mq, putting, msg>>
    BY <1>2 DEF vars
  <2>2. ~Deq /\ ~Del /\ ~Parse /\ ~EnqFull
    BY <1>2 DEF vars
  <2>3. QED BY <2>1, <2>2, StayMoves
<1>3. CASE Enq
  <2>1. ~Deq /\ ~Del /\ ~Parse /\ ~EnqFull
    BY <1>3
  <2>2. QED BY <1>3, <2>1, EnqMoves
<1>4. CASE EnqFull
  <2>1. ~Deq /\ ~Del /\ ~Parse
    BY <1>4
  <2>2. Len(mq) + 1 \in Int
    BY LenProperties DEF TypeOK
  <2>3. QED BY <1>4, <2>1, <2>2, FullMoves
<1>5. CASE Deq
  <2>1. ~Del /\ ~Parse /\ ~EnqFull
    BY <1>5
  <2>2. QED BY <1>5, <2>1, DeqMoves
<1>6. CASE Del \/ Parse
  <2>1. ~Deq
    BY <1>6
  <2>2. UNCHANGED <<mq, putting>> /\ msg' = None
    BY <1>6
  <2>3. QED BY <1>6, <2>1, <2>2, HandMoves
<1>7. QED BY <1>1, <1>2, <1>3, <1>4, <1>5, <1>6 DEF Analysis

LEMMA MessageStep ==
    ASSUME TypeOK, TypeOK', StreamInv, MessageInv, CallInv, [Next]_vars
    PROVE  MessageInv'
<1>1. ASSUME NEW s \in Streams, NEW t \in Tuples, Establish(s, t) PROVE MessageInv'
  <2> DEFINE W == {m.t4 : m \in {m \in UnderWay : m.type = "MSG_DATA" /\ m.ts = s}}
  <2>1. /\ recycled \subseteq recycled'
        /\ W \subseteq {t} \/ W \cup {t} \subseteq recycled'
        /\ addr'[s] = t /\ \A u \in Streams \ {s} : addr'[u] = addr[u]
    BY <1>1 DEF Establish, TypeOK
  <2>2. Places' = Places /\ \A i : Message(i)' = Message(i)
    BY <1>1 DEF Establish, Places, Message
  <2> SUFFICES ASSUME NEW i \in Places, IsData(i)
               PROVE  /\ Message(i).isrequest \in Directions(Message(i).t4)
                      /\ \/ addr'[Message(i).ts] = Message(i).t4
                         \/ {Message(i).t4, addr'[Message(i).ts]} \subseteq recycled'
    BY <2>2 DEF MessageInv, IsData, Waiting
  <2>3. /\ Message(i) \in UnderWay /\ Message(i).type = "MSG_DATA"
        /\ Message(i).ts \in Streams
        /\ Message(i).isrequest \in Directions(Message(i).t4)
        /\ \/ addr[Message(i).ts] = Message(i).t4
           \/ {Message(i).t4, addr[Message(i).ts]} \subseteq recycled
    BY InPlace, MessageIs DEF IsData, MessageInv
  <2>4. CASE Message(i).ts = s
    <3>1. Message(i).t4 \in W
      BY <2>3, <2>4
    <3>2. QED BY <2>1, <2>3, <2>4, <3>1
  <2>5. CASE Message(i).ts # s
    BY <2>1, <2>3, <2>5
  <2>6. QED BY <2>4, <2>5
<1>2. ASSUME NEW s \in Streams, PutData(s) \/ PutClose(s) PROVE MessageInv'
  <2>1. s \in live /\ addr[s] \in Tuples /\ addr' = addr /\ recycled' = recycled
    BY <1>2 DEF PutData, PutClose, StreamInv, nids, history
  <2>2. /\ UNCHANGED <<mq, msg>> /\ putting = None
        /\ \/ putting' = Close(addr[s])
           \/ \E b \in Bufs, r \in Directions(addr[s]) : putting' = Data(addr[s], s, b, r)
    BY <1>2 DEF PutData, PutClose, TypeOK
  <2>3. /\ putting' \in Msgs
        /\ putting'.type = "MSG_DATA" =>
              /\ putting'.ts = s /\ putting'.t4 = addr[s]
              /\ putting'.isrequest \in Directions(addr[s])
    <3>1. CASE putting' = Close(addr[s])
      BY <2>1, <3>1, MessageIs
    <3>2. ASSUME NEW b \in Bufs, NEW r \in Directions(addr[s]), putting' = Data(addr[s], s, b, r)
          PROVE  /\ putting' \in Msgs /\ putting'.ts = s /\ putting'.t4 = addr[s]
                 /\ putting'.isrequest \in Directions(addr[s])
      BY <2>1, <3>2, MessageIs
    <3>3. QED BY <2>2, <3>1, <3>2
  <2>4. /\ Places' = Places /\ Message(Len(mq) + 1)' = putting'
        /\ \A i \in Places : i # Len(mq) + 1 => Message(i)' = Message(i)
    BY <2>2, <2>3, PutMoves
  <2> SUFFICES ASSUME NEW i \in Places, IsData(i)'
               PROVE  /\ Message(i)'.isrequest \in Directions(Message(i)'.t4)
                      /\ \/ addr[Message(i)'.ts] = Message(i)'.t4
                         \/ {Message(i)'.t4, addr[Message(i)'.ts]} \subseteq recycled
    BY <2>1, <2>4 DEF MessageInv
  <2>5. CASE i = Len(mq) + 1
    <3>1. Message(i)' = putting'
      BY <2>2, <2>4, <2>5
    <3>2. putting'.type = "MSG_DATA"
      BY <3>1 DEF IsData
    <3>3. QED BY <2>3, <3>1, <3>2
  <2>6. CASE i # Len(mq) + 1
    <3>1. Message(i)' = Message(i)
      BY <2>4, <2>6
    <3>2. IsData(i)
      BY <3>1 DEF IsData, Waiting
    <3>3. /\ Message(i).isrequest \in Directions(Message(i).t4)
          /\ \/ addr[Message(i).ts] = Message(i).t4
             \/ {Message(i).t4, addr[Message(i).ts]} \subseteq recycled
      BY <3>2 DEF MessageInv
    <3>4. QED BY <3>1, <3>3
  <2>7. QED BY <2>5, <2>6
<1>3. CASE \/ UNCHANGED vars \/ (\E s \in Streams : TimeOut(s))
           \/ Enq \/ EnqFull \/ Analysis
  <2>1. addr' = addr /\ recycled' = recycled
    BY <1>3 DEF vars, TimeOut, Enq, EnqFull, Analysis, Deq, Del, Find, InsertKey, InsertIndex,
                InsertPort, Parse, nids, history
  <2>2. \E d, p : MovesBut(d, p)
    BY <1>3, StepMoves
  <2>3. QED BY <2>1, <2>2, MessageKeeps
<1>4. QED BY <1>1, <1>2, <1>3 DEF Next

-----------------------------------------------------------------------------
(* The packet in hand, and the table. *)

HashIs == hash \in Tables /\ \A n : n \in Entries(hash) <=> InTable(hash, n)

LEMMA HashLemma == TypeOK => HashIs
BY EntriesAre DEF TypeOK, HashIs, Tables, Buckets

\* A node of a tuple that was not mixed up is found.
LEMMA EntryFound ==
    ASSUME TypeOK, TableInv, NEW n \in Entries(hash), Known(n.key), n.key \in Tuples
    PROVE  Mhash_has(hash, n.key) /\ n.port = Proto[n.key]
<1>0. PICK i \in DOMAIN hash : \E j \in DOMAIN hash[i] : n = hash[i][j]
  BY HashLemma DEF HashIs, InTable
<1>1. PICK j \in DOMAIN hash[i] : n = hash[i][j]
  BY <1>0
<1>2. i = Hash[n.key] /\ n.port = Proto[n.key]
  <2>1. Known(hash[i][j].key)
    BY <1>1
  <2>2. i = Hash[hash[i][j].key] /\ hash[i][j].port = Proto[hash[i][j].key]
    BY <2>1, Zenon DEF TableInv
  <2>3. QED BY <1>1, <2>2
<1>3. j \in At(hash[Hash[n.key]], n.key)
  BY <1>1, <1>2, Zenon DEF At
<1>4. QED BY <1>2, <1>3 DEF Mhash_has

\* The node that is put into the table.
LEMMA Inserted ==
    ASSUME TypeOK, CallInv, MessageInv, InsertPort
    PROVE  \E i \in Buckets :
              /\ node' \in Nodes /\ node'.key = node.key /\ node'.ts = msg.ts
              /\ hash' = Mhash_insert(hash, i, node')
              /\ node.key = msg.t4 \/ {msg.t4, node.key} \subseteq recycled
              /\ Known(msg.t4) => /\ node.key = msg.t4 /\ i = Hash[msg.t4]
                                  /\ node'.port = Proto[msg.t4]
<1>1. /\ node \in Nodes /\ node.ts = msg.ts /\ node.index \in Buckets
      /\ node.key = msg.t4 \/ {msg.t4, node.key} \subseteq recycled
      /\ Known(msg.t4) => node.index = Hash[msg.t4] /\ node.key = msg.t4
  BY DEF InsertPort, CallInv, TypeOK, Nodes, Buckets, Known
<1>2. addr[msg.ts] \in Tuples /\ (Known(msg.t4) => addr[msg.ts] = msg.t4)
  BY InStream DEF InsertPort, Known
<1> DEFINE n == [node EXCEPT !.port = Proto[addr[msg.ts]]]
<1>3. /\ n \in Nodes /\ n.key = node.key /\ n.ts = node.ts /\ n.index = node.index
      /\ n.port = Proto[addr[msg.ts]]
  BY <1>1, <1>2, ProtoAssumption DEF Nodes
<1>4. node' = n /\ hash' = Mhash_insert(hash, n.index, n)
  BY DEF InsertPort
<1> HIDE DEF n
<1>5. QED BY <1>1, <1>2, <1>3, <1>4

\* The entries after an insertion, and after a deletion.
LEMMA InsertEntries ==
    ASSUME NEW h \in Tables, NEW i \in Buckets, NEW n \in Nodes, NEW x
    PROVE  InTable(Mhash_insert(h, i, n), x) <=> x = n \/ InTable(h, x)
<1> DEFINE g == Mhash_insert(h, i, n)
<1>1. /\ g \in Tables
      /\ \A k \in Buckets \ {i} : g[k] = h[k]
      /\ DOMAIN g[i] = 1..(Len(h[i]) + 1) /\ g[i][1] = n
      /\ \A j \in 2..(Len(h[i]) + 1) : j - 1 \in DOMAIN h[i] /\ g[i][j] = h[i][j - 1]
  BY InsertIs
<1>2. /\ DOMAIN g = Buckets /\ DOMAIN h = Buckets
      /\ Len(h[i]) \in Nat /\ DOMAIN h[i] = 1..Len(h[i])
  BY <1>1, BucketIs
<1> HIDE DEF g
<1>3. ASSUME InTable(g, x) PROVE x = n \/ InTable(h, x)
  <2>0. PICK k \in Buckets : \E j \in DOMAIN g[k] : x = g[k][j]
    BY <1>2, <1>3 DEF InTable
  <2>1. PICK j \in DOMAIN g[k] : x = g[k][j]
    BY <2>0
  <2>2. CASE k # i
    BY <1>1, <1>2, <2>1, <2>2 DEF InTable
  <2>3. CASE k = i
    <3>1. j = 1 \/ j \in 2..(Len(h[i]) + 1)
      BY <1>1, <1>2, <2>1, <2>3
    <3>2. QED BY <1>1, <1>2, <2>1, <2>3, <3>1 DEF InTable
  <2>4. QED BY <2>2, <2>3
<1>4. ASSUME x = n PROVE InTable(g, x)
  <2>1. 1 \in DOMAIN g[i]
    BY <1>1, <1>2
  <2>2. QED BY <1>1, <1>2, <1>4, <2>1 DEF InTable
<1>5. ASSUME InTable(h, x) PROVE InTable(g, x)
  <2>0. PICK k \in Buckets : \E j \in DOMAIN h[k] : x = h[k][j]
    BY <1>2, <1>5 DEF InTable
  <2>1. PICK j \in DOMAIN h[k] : x = h[k][j]
    BY <2>0
  <2>2. CASE k # i
    BY <1>1, <1>2, <2>1, <2>2 DEF InTable
  <2>3. CASE k = i
    <3>1. j + 1 \in 2..(Len(h[i]) + 1) /\ (j + 1) - 1 = j /\ j + 1 \in DOMAIN g[i]
      BY <1>1, <1>2, <2>1, <2>3
    <3>2. g[i][j + 1] = h[i][j]
      BY <1>1, <3>1
    <3>3. QED BY <1>2, <2>1, <2>3, <3>1, <3>2 DEF InTable
  <2>4. QED BY <2>2, <2>3
<1>6. QED BY <1>3, <1>4, <1>5 DEF g

LEMMA DelEntries ==
    ASSUME NEW h \in Tables, NEW t \in Tuples
    PROVE  \A i \in Buckets : \E f :
              \A j \in DOMAIN Mhash_del(h, t)[i] :
                 /\ f[j] \in DOMAIN h[i] /\ Mhash_del(h, t)[i][j] = h[i][f[j]]
                 /\ \A k \in DOMAIN Mhash_del(h, t)[i] : f[k] = f[j] => k = j
                 /\ Mhash_has(h, t) /\ i = Hash[t] =>
                       \E p \in At(h[i], t) : f[j] # p
<1> SUFFICES ASSUME NEW i \in Buckets
    PROVE  \E f : \A j \in DOMAIN Mhash_del(h, t)[i] :
                     /\ f[j] \in DOMAIN h[i] /\ Mhash_del(h, t)[i][j] = h[i][f[j]]
                     /\ \A k \in DOMAIN Mhash_del(h, t)[i] : f[k] = f[j] => k = j
                     /\ Mhash_has(h, t) /\ i = Hash[t] =>
                           \E p \in At(h[i], t) : f[j] # p
  OBVIOUS
<1> DEFINE g == Mhash_del(h, t)
<1>1. CASE g[i] = h[i] /\ ~(Mhash_has(h, t) /\ i = Hash[t])
  <2> DEFINE f == [j \in DOMAIN h[i] |-> j]
  <2>1. \A j \in DOMAIN h[i] : f[j] = j
    OBVIOUS
  <2>2. g[i] = h[i]
    BY <1>1
  <2> HIDE DEF f, g
  <2>3. \A j \in DOMAIN g[i] : /\ f[j] \in DOMAIN h[i] /\ g[i][j] = h[i][f[j]]
                               /\ \A k \in DOMAIN g[i] : f[k] = f[j] => k = j
    BY <2>1, <2>2
  <2>4. QED BY <1>1, <2>3 DEF g
<1>2. CASE Mhash_has(h, t) /\ i = Hash[t]
  <2>1. PICK p \in At(h[i], t) :
           /\ DOMAIN g[i] = 1..(Len(h[i]) - 1)
           /\ \A j \in 1..(Len(h[i]) - 1) : g[i][j] = IF j < p THEN h[i][j] ELSE h[i][j + 1]
    BY <1>2, DelIs
  <2>2. Len(h[i]) \in Nat /\ DOMAIN h[i] = 1..Len(h[i]) /\ p \in 1..Len(h[i])
    BY BucketIs DEF At
  <2> DEFINE f == [j \in 1..(Len(h[i]) - 1) |-> IF j < p THEN j ELSE j + 1]
  <2>3. \A j \in 1..(Len(h[i]) - 1) :
           /\ f[j] = IF j < p THEN j ELSE j + 1
           /\ f[j] \in 1..Len(h[i]) /\ f[j] # p
           /\ \A k \in 1..(Len(h[i]) - 1) : f[k] = f[j] => k = j
    BY <2>2
  <2> HIDE DEF f, g
  <2>4. \A j \in DOMAIN g[i] : g[i][j] = h[i][f[j]]
    BY <2>1, <2>3
  <2>5. \A j \in DOMAIN g[i] :
           /\ f[j] \in DOMAIN h[i] /\ g[i][j] = h[i][f[j]]
           /\ \A k \in DOMAIN g[i] : f[k] = f[j] => k = j
           /\ \E q \in At(h[i], t) : f[j] # q
    BY <2>1, <2>2, <2>3, <2>4
  <2>6. QED BY <2>5 DEF g
<1>3. ~(Mhash_has(h, t) /\ i = Hash[t]) => g[i] = h[i]
  BY DelIs
<1>4. QED BY <1>1, <1>2, <1>3


\* The entries of the table after each of the operations.
LEMMA AfterInsert ==
    ASSUME TypeOK, CallInv, MessageInv, InsertPort
    PROVE  \A n : n \in Entries(hash') <=> n = node' \/ n \in Entries(hash)
<1>1. PICK i \in Buckets : node' \in Nodes /\ hash' = Mhash_insert(hash, i, node')
  BY Inserted
<1>2. PICK m \in Nodes : m = node'
  BY <1>1
<1>3. hash \in Tables /\ hash' \in Tables /\ hash' = Mhash_insert(hash, i, m)
  BY <1>1, <1>2, HashLemma, InsertIs DEF HashIs
<1>4. \A n : InTable(hash', n) <=> n = m \/ InTable(hash, n)
  BY <1>3, InsertEntries
<1>5. QED BY <1>2, <1>3, <1>4, EntriesAre

LEMMA AfterDel ==
    ASSUME TypeOK, CallInv, TableInv, Del
    PROVE  \A n \in Entries(hash') : n \in Entries(hash) /\ (Known(n.key) => n.key # msg.t4)
<1>1. msg.t4 \in Tuples /\ hash \in Tables /\ hash' = Mhash_del(hash, msg.t4)
  BY MessageIs, HashLemma DEF Del, CallInv, HashIs
<1>2. PICK t \in Tuples, h \in Tables : t = msg.t4 /\ h = hash
  BY <1>1
<1>3. Mhash_del(h, t) \in Tables /\ hash' = Mhash_del(h, t)
  BY <1>1, <1>2, DelIs
<1> SUFFICES ASSUME NEW n \in Entries(hash')
             PROVE  n \in Entries(hash) /\ (Known(n.key) => n.key # t)
  BY <1>2
<1>4. InTable(Mhash_del(h, t), n)
  BY <1>3, EntriesAre
<1>5. DOMAIN Mhash_del(h, t) = Buckets /\ DOMAIN h = Buckets
  BY <1>3, BucketIs DEF Tables
<1>6. PICK i \in Buckets : \E j \in DOMAIN Mhash_del(h, t)[i] : n = Mhash_del(h, t)[i][j]
  BY <1>4, <1>5 DEF InTable
<1>7. PICK j \in DOMAIN Mhash_del(h, t)[i] : n = Mhash_del(h, t)[i][j]
  BY <1>6
<1>8. \E q \in DOMAIN h[i] :
         /\ n = h[i][q]
         /\ Mhash_has(h, t) /\ i = Hash[t] => \E p \in At(h[i], t) : q # p
  <2>1. PICK f : \A k \in DOMAIN Mhash_del(h, t)[i] :
           /\ f[k] \in DOMAIN h[i] /\ Mhash_del(h, t)[i][k] = h[i][f[k]]
           /\ Mhash_has(h, t) /\ i = Hash[t] => \E p \in At(h[i], t) : f[k] # p
    BY DelEntries
  <2>2. QED BY <1>7, <2>1
<1>9. PICK q \in DOMAIN h[i] :
         /\ n = h[i][q]
         /\ Mhash_has(h, t) /\ i = Hash[t] => \E p \in At(h[i], t) : q # p
  BY <1>8
<1>10. n \in Entries(hash)
  BY <1>2, <1>5, <1>9, EntriesAre DEF InTable
<1>11. ASSUME Known(n.key), n.key = t PROVE FALSE
  <2>1. /\ i = Hash[t]
        /\ \A k \in DOMAIN h[i] : h[i][k].key = t => k = q
    BY <1>2, <1>5, <1>9, <1>11 DEF TableInv
  <2>2. q \in At(h[i], t)
    BY <1>9, <1>11 DEF At
  <2>3. Mhash_has(h, t)
    BY <2>1, <2>2 DEF Mhash_has
  <2>4. PICK p \in At(h[i], t) : q # p
    BY <1>9, <2>1, <2>3
  <2>5. p \in DOMAIN h[i] /\ h[i][p].key = t
    BY DEF At
  <2>6. QED BY <2>1, <2>4, <2>5
<1>12. QED BY <1>10, <1>11

LEMMA CallKeeps ==
    ASSUME CallInv, UNCHANGED <<apc, msg, node, hash>>, recycled \subseteq recycled'
    PROVE  CallInv'
<1>1. \A t : Known(t)' => Known(t)
  BY DEF Known
<1>2. Entries(hash') = Entries(hash)
  OBVIOUS
<1>3. Inserting' <=> Inserting
  BY DEF Inserting
<1>4. QED BY <1>1, <1>2, <1>3 DEF CallInv, Known

\* The steps of the capture thread touch neither the table nor the packet in hand.
LEMMA CaptureKeeps ==
    ASSUME TypeOK, [Next]_vars, ~Analysis
    PROVE  UNCHANGED <<apc, msg, node, hash>> /\ recycled \subseteq recycled'
<1>1. CASE UNCHANGED vars
  BY <1>1 DEF vars
<1>2. CASE Enq \/ EnqFull \/ \E s \in Streams : PutData(s) \/ PutClose(s) \/ TimeOut(s)
  BY <1>2 DEF Enq, EnqFull, PutData, PutClose, TimeOut, history
<1>3. ASSUME NEW s \in Streams, NEW t \in Tuples, Establish(s, t)
      PROVE  UNCHANGED <<apc, msg, node, hash>> /\ recycled \subseteq recycled'
  BY <1>3 DEF Establish
<1>4. QED BY <1>1, <1>2, <1>3 DEF Next

LEMMA CallStep ==
    ASSUME TypeOK, MessageInv, CallInv, TableInv, [Next]_vars
    PROVE  CallInv'
<1>1. CASE ~Analysis
  BY <1>1, CallKeeps, CaptureKeeps
<1>2. CASE Deq
  <2>1. msg' \in Msgs /\ apc' = IF msg'.type = "MSG_CLOSE" THEN "del" ELSE "find"
    BY <1>2, HeadTailProperties DEF Deq, TypeOK
  <2>2. QED BY <2>1, MessageIs DEF CallInv, Inserting
<1>3. CASE Del
  BY <1>3 DEF Del, CallInv, Inserting
<1>4. CASE Find
  <2>1. /\ msg \in Msgs /\ msg.type = "MSG_DATA" /\ msg.t4 \in Tuples
        /\ hash \in Tables /\ UNCHANGED <<msg, hash, recycled>>
    BY <1>4, InHand, HashLemma DEF Find, HashIs, history
  <2>2. CASE Mhash_has(hash, msg.t4)
    <3>1. apc' = "parse" /\ node' = Mhash_find(hash, msg.t4)
      BY <1>4, <2>2 DEF Find
    <3>2. node' \in Nodes /\ node' \in Entries(hash) /\ node'.key = msg.t4
      BY <2>1, <2>2, <3>1, FindIs, EntriesAre
    <3>3. QED BY <2>1, <3>1, <3>2 DEF CallInv, Inserting
  <2>3. CASE ~Mhash_has(hash, msg.t4)
    <3>1. apc' = "key"
      BY <1>4, <2>3 DEF Find
    <3>2. Known(msg.t4) => \A n \in Entries(hash) : n.key # msg.t4
      BY <2>1, <2>3, EntryFound
    <3>3. QED BY <2>1, <3>1, <3>2 DEF CallInv, Inserting, Known
  <2>4. QED BY <2>2, <2>3
<1>5. CASE InsertKey
  <2>1. /\ msg \in Msgs /\ msg.type = "MSG_DATA" /\ apc = "key" /\ apc' = "index"
        /\ UNCHANGED <<msg, hash, recycled>>
    BY <1>5, InHand DEF InsertKey, history
  <2>2. /\ addr[msg.ts] \in Tuples /\ msg.ts \in Streams
        /\ addr[msg.ts] = msg.t4 \/ {msg.t4, addr[msg.ts]} \subseteq recycled
    BY <1>5, InStream, InHand DEF InsertKey
  <2>3. node' \in Nodes /\ node'.key = addr[msg.ts] /\ node'.ts = msg.ts
    BY <1>5, <2>2 DEF InsertKey, Nodes, Mhash_new
  <2>4. QED BY <2>1, <2>2, <2>3 DEF CallInv, Inserting, Known
<1>6. CASE InsertIndex
  <2>1. /\ msg \in Msgs /\ msg.type = "MSG_DATA" /\ apc = "index" /\ apc' = "port"
        /\ UNCHANGED <<msg, hash, recycled>>
    BY <1>6, InHand DEF InsertIndex, history
  <2>2. /\ addr[msg.ts] \in Tuples /\ msg.t4 \in Tuples
        /\ addr[msg.ts] = msg.t4 \/ {msg.t4, addr[msg.ts]} \subseteq recycled
    BY <1>6, InStream, InHand DEF InsertIndex
  <2>3. node \in Nodes
    BY <2>1 DEF CallInv
  <2>4. /\ node' \in Nodes /\ node'.key = node.key /\ node'.ts = node.ts
        /\ node'.index = Hash[addr[msg.ts]]
    BY <1>6, <2>2, <2>3 DEF InsertIndex, Nodes, Mhash_new
  <2>5. Known(msg.t4) => node'.index = Hash[msg.t4]
    BY <2>2, <2>4 DEF Known
  <2>6. QED BY <2>1, <2>4, <2>5 DEF CallInv, Inserting, Known
<1>7. CASE InsertPort
  <2>1. /\ msg \in Msgs /\ msg.type = "MSG_DATA" /\ apc' = "parse"
        /\ UNCHANGED <<msg, recycled>>
    BY <1>7, InHand DEF InsertPort, history
  <2>2. /\ node' \in Nodes /\ node'.key = node.key
        /\ node.key = msg.t4 \/ {msg.t4, node.key} \subseteq recycled
    BY <1>7, Inserted
  <2>3. node' \in Entries(hash')
    BY <1>7, AfterInsert
  <2>4. QED BY <2>1, <2>2, <2>3 DEF CallInv, Inserting, Known
<1>8. CASE Parse
  <2>1. msg' = None /\ apc' \in {"deq", "aborted"} /\ recycled' = recycled
    BY <1>8 DEF Parse, history
  <2>2. ASSUME apc' = "aborted", recycled = {} PROVE FALSE
    <3>1. node \in Entries(hash) /\ node.key = msg.t4 /\ Known(msg.t4)
      BY <1>8, <2>2 DEF Parse, CallInv, Known
    <3>2. msg.t4 \in Tuples /\ msg.isrequest \in Directions(msg.t4)
      BY <1>8, InHand, InStream DEF Parse
    <3>3. node.port = Proto[msg.t4]
      BY <3>1, <3>2, EntryFound
    <3>4. ~(node.port = "HTTP" \/ (msg.isrequest <=> node.port = "SMTP"))
      BY <1>8, <2>2 DEF Parse
    <3>5. Proto[msg.t4] \in Protos
      BY <3>2, ProtoAssumption
    <3>6. QED BY <3>2, <3>3, <3>4, <3>5 DEF Directions, Protos
  <2>3. QED BY <2>1, <2>2 DEF CallInv, Inserting
<1>9. QED BY <1>1, <1>2, <1>3, <1>4, <1>5, <1>6, <1>7, <1>8 DEF Analysis

LEMMA TableStep ==
    ASSUME TypeOK, MessageInv, CallInv, TableInv, [Next]_vars
    PROVE  TableInv'
<1>1. CASE hash' = hash /\ recycled \subseteq recycled'
  BY <1>1 DEF TableInv, Known
<1>2. CASE Del
  <2>1. PICK t \in Tuples, h \in Tables : t = msg.t4 /\ h = hash /\ hash' = Mhash_del(h, t)
    BY <1>2, MessageIs, HashLemma DEF Del, CallInv, HashIs
  <2>2. DOMAIN Mhash_del(h, t) = Buckets /\ DOMAIN h = Buckets /\ recycled' = recycled
    BY <1>2, DelIs, BucketIs DEF Tables, Del, history
  <2> SUFFICES ASSUME NEW i \in Buckets, NEW j \in DOMAIN Mhash_del(h, t)[i],
                      Known(Mhash_del(h, t)[i][j].key)
               PROVE  /\ i = Hash[Mhash_del(h, t)[i][j].key]
                      /\ Mhash_del(h, t)[i][j].port = Proto[Mhash_del(h, t)[i][j].key]
                      /\ \A k \in DOMAIN Mhash_del(h, t)[i] :
                            Mhash_del(h, t)[i][k].key = Mhash_del(h, t)[i][j].key => k = j
    BY <2>1, <2>2 DEF TableInv, Known
  <2>3. PICK f : \A m \in DOMAIN Mhash_del(h, t)[i] :
           /\ f[m] \in DOMAIN h[i] /\ Mhash_del(h, t)[i][m] = h[i][f[m]]
           /\ \A k \in DOMAIN Mhash_del(h, t)[i] : f[k] = f[m] => k = m
    BY DelEntries
  <2>4. f[j] \in DOMAIN h[i] /\ Mhash_del(h, t)[i][j] = h[i][f[j]]
    BY <2>3
  <2>5. /\ i = Hash[h[i][f[j]].key] /\ h[i][f[j]].port = Proto[h[i][f[j]].key]
        /\ \A k \in DOMAIN h[i] : h[i][k].key = h[i][f[j]].key => k = f[j]
    BY <2>1, <2>2, <2>4 DEF TableInv
  <2>6. QED BY <2>3, <2>4, <2>5
<1>3. CASE InsertPort
  <2>1. PICK i \in Buckets :
              /\ node' \in Nodes /\ node'.key = node.key /\ node'.ts = msg.ts
              /\ hash' = Mhash_insert(hash, i, node')
              /\ node.key = msg.t4 \/ {msg.t4, node.key} \subseteq recycled
              /\ Known(msg.t4) => /\ node.key = msg.t4 /\ i = Hash[msg.t4]
                                  /\ node'.port = Proto[msg.t4]
    BY <1>3, Inserted
  <2>2. PICK n \in Nodes, h \in Tables : n = node' /\ h = hash
    BY <2>1, HashLemma DEF HashIs
  <2> DEFINE g == Mhash_insert(h, i, n)
  <2>3. hash' = g /\ recycled' = recycled
    BY <1>3, <2>1, <2>2 DEF InsertPort, history
  <2>4. /\ g \in Tables /\ \A k \in Buckets \ {i} : g[k] = h[k]
        /\ DOMAIN g[i] = 1..(Len(h[i]) + 1) /\ g[i][1] = n
        /\ \A j \in 2..(Len(h[i]) + 1) : j - 1 \in DOMAIN h[i] /\ g[i][j] = h[i][j - 1]
    BY InsertIs
  <2> HIDE DEF g
  <2>5. DOMAIN g = Buckets /\ DOMAIN h = Buckets /\ Len(h[i]) \in Nat
    BY <2>4, BucketIs
  <2>6. Known(n.key) => /\ i = Hash[n.key] /\ n.port = Proto[n.key]
                        /\ \A j \in DOMAIN h[i] : h[i][j].key # n.key
    <3>1. Known(n.key) => Known(msg.t4) /\ n.key = msg.t4
      BY <2>1, <2>2 DEF Known
    <3>2. Known(msg.t4) => \A x \in Entries(hash) : x.key # msg.t4
      BY <1>3 DEF CallInv, InsertPort, Inserting
    <3>3. \A j \in DOMAIN h[i] : h[i][j] \in Entries(hash)
      BY <2>2, <2>5, EntriesAre DEF InTable
    <3>4. QED BY <2>1, <2>2, <3>1, <3>2, <3>3
  <2>7. \A b \in Buckets : \A j \in DOMAIN h[b] : Known(h[b][j].key) =>
           /\ b = Hash[h[b][j].key] /\ h[b][j].port = Proto[h[b][j].key]
           /\ \A k \in DOMAIN h[b] : h[b][k].key = h[b][j].key => k = j
    BY <2>2, <2>5 DEF TableInv
  <2> SUFFICES ASSUME NEW b \in Buckets, NEW j \in DOMAIN g[b], Known(g[b][j].key)
               PROVE  /\ b = Hash[g[b][j].key] /\ g[b][j].port = Proto[g[b][j].key]
                      /\ \A k \in DOMAIN g[b] : g[b][k].key = g[b][j].key => k = j
    BY <2>3, <2>5 DEF TableInv, Known
  <2>8. CASE b # i
    BY <2>4, <2>7, <2>8
  <2>9. CASE b = i /\ j = 1
    <3>1. g[b][j] = n
      BY <2>4, <2>9
    <3>2. ASSUME NEW k \in DOMAIN g[b], g[b][k].key = n.key PROVE k = 1
      <4>1. k = 1 \/ k \in 2..(Len(h[i]) + 1)
        BY <2>4, <2>5, <2>9
      <4>2. CASE k \in 2..(Len(h[i]) + 1)
        <5>1. k - 1 \in DOMAIN h[i] /\ h[i][k - 1].key = n.key
          BY <2>4, <2>9, <3>2, <4>2
        <5>2. QED BY <2>6, <3>1, <5>1
      <4>3. QED BY <4>1, <4>2
    <3>3. QED BY <2>6, <2>9, <3>1, <3>2
  <2>10. CASE b = i /\ j # 1
    <3>1. j \in 2..(Len(h[i]) + 1)
      BY <2>4, <2>5, <2>10
    <3>2. j - 1 \in DOMAIN h[i] /\ g[b][j] = h[i][j - 1]
      BY <2>4, <2>10, <3>1
    <3>3. /\ i = Hash[h[i][j - 1].key] /\ h[i][j - 1].port = Proto[h[i][j - 1].key]
          /\ \A k \in DOMAIN h[i] : h[i][k].key = h[i][j - 1].key => k = j - 1
      BY <2>7, <3>2
    <3>4. ASSUME NEW k \in DOMAIN g[b], g[b][k].key = h[i][j - 1].key PROVE k = j
      <4>1. k = 1 \/ k \in 2..(Len(h[i]) + 1)
        BY <2>4, <2>5, <2>10
      <4>2. k # 1
        <5>1. SUFFICES ASSUME k = 1 PROVE FALSE
          OBVIOUS
        <5>2. n.key = h[i][j - 1].key
          BY <2>4, <2>10, <3>4, <5>1
        <5>3. QED BY <2>6, <3>2, <5>2
      <4>3. k - 1 \in DOMAIN h[i] /\ g[b][k] = h[i][k - 1]
        BY <2>4, <2>10, <4>1, <4>2
      <4>4. k - 1 = j - 1
        BY <3>3, <3>4, <4>3
      <4>5. QED BY <3>1, <4>1, <4>2, <4>4
    <3>5. QED BY <2>10, <3>2, <3>3, <3>4
  <2>11. QED BY <2>8, <2>9, <2>10
<1>4. ~(hash' = hash /\ recycled \subseteq recycled') => Del \/ InsertPort
  <2>1. CASE ~Analysis
    BY <2>1, CaptureKeeps
  <2>2. CASE Deq \/ Find \/ InsertKey \/ InsertIndex \/ Parse
    BY <2>2 DEF Deq, Find, InsertKey, InsertIndex, Parse, history
  <2>3. QED BY <2>1, <2>2 DEF Analysis
<1>5. QED BY <1>1, <1>2, <1>3, <1>4

-----------------------------------------------------------------------------
(* The order of the messages. *)

Places0 == \A i \in Places : i \in Int /\ i >= 0

LEMMA PlacesNat == TypeOK => Places0
BY PlacesAre DEF Places0

\* What a step that queues no message leaves of the order.
LEMMA ShiftOrder ==
    ASSUME TypeOK, TypeOK', CallInv,
           \/ UNCHANGED vars
           \/ \E s \in Streams : (\E t \in Tuples : Establish(s, t)) \/ TimeOut(s)
           \/ Enq \/ EnqFull \/ Analysis
    PROVE  \A t \in Tuples : Kept(t)' =>
              /\ Kept(t)
              /\ OneStream(t) => OneStream(t)'
              /\ ~(Del /\ msg.t4 = t) => \A n \in Nodes : n.key = t /\ NodeStream(n) => NodeStream(n)'
<1> SUFFICES ASSUME NEW t \in Tuples, Kept(t)'
             PROVE  /\ Kept(t)
                    /\ OneStream(t) => OneStream(t)'
                    /\ ~(Del /\ msg.t4 = t) =>
                          \A n \in Nodes : n.key = t /\ NodeStream(n) => NodeStream(n)'
  OBVIOUS
<1>1. PICK d \in {0, 1}, p \in Int :
              /\ MovesBut(d, p)
              /\ d = 1 <=> Deq
              /\ p = IF Del \/ Parse THEN 0 ELSE IF EnqFull THEN Len(mq) + 1 ELSE -1
  BY StepMoves
<1>2. d \in Int /\ Places0
  BY PlacesNat
<1>3. \A i \in Places' : i + d >= 0
  <2>1. (TypeOK => Places0)'
    BY PlacesNat, PTL
  <2>2. QED BY <2>1 DEF Places0
<1>4. \A k \in Places : Waiting(k) => k - d >= 0
  <2>1. CASE d = 0
    BY <1>2, <2>1 DEF Places0
  <2>2. CASE d = 1
    <3>1. Message(0) = None
      BY <1>1, <2>2, InPlace DEF Deq, CallInv
    <3>2. QED BY <1>2, <2>2, <3>1 DEF Places0, Waiting
  <2>3. QED BY <2>1, <2>2
<1>5. lost \subseteq lost' /\ recycled \subseteq recycled'
  <2>1. CASE \E s \in Streams : (\E u \in Tuples : Establish(s, u)) \/ TimeOut(s)
    BY <2>1 DEF Establish, TimeOut
  <2>2. CASE UNCHANGED vars
    BY <2>2 DEF vars
  <2>3. CASE Enq \/ EnqFull \/ Analysis
    BY <2>3 DEF Enq, EnqFull, Analysis, Deq, Del, Find, InsertKey, InsertIndex, InsertPort,
                Parse, history
  <2>4. QED BY <2>1, <2>2, <2>3
<1>6. Kept(t)
  BY <1>5 DEF Kept
<1>7. \A s \in live : addr[s] = t => s \in live' /\ addr'[s] = t
  <2>1. ASSUME NEW u \in Streams, NEW v \in Tuples, Establish(u, v)
        PROVE  \A s \in live : addr[s] = t => s \in live' /\ addr'[s] = t
    BY <2>1 DEF Establish, TypeOK
  <2>2. ASSUME NEW u \in Streams, TimeOut(u)
        PROVE  \A s \in live : addr[s] = t => s \in live' /\ addr'[s] = t
    BY <2>2 DEF TimeOut, Kept
  <2>3. CASE UNCHANGED vars \/ Enq \/ EnqFull \/ Analysis
    BY <2>3 DEF vars, nids, Enq, EnqFull, Analysis, Deq, Del, Find, InsertKey, InsertIndex,
                InsertPort, Parse
  <2>4. QED BY <2>1, <2>2, <2>3
<1>8. p # 0 => ~CloseOf(p, t)
  <2>1. SUFFICES ASSUME CloseOf(p, t), p # 0 PROVE FALSE
    OBVIOUS
  <2>2. p \in Places /\ Message(p).type = "MSG_CLOSE" /\ Message(p).t4 = t
    BY <2>1 DEF CloseOf, IsClose, Waiting
  <2>3. p # -1
    BY <1>2, <2>2 DEF Places0
  <2>4. EnqFull /\ p = Len(mq) + 1
    BY <1>1, <2>1, <2>3
  <2>5. Message(p) = putting
    BY <2>4, InPlace
  <2>6. QED BY <2>2, <2>4, <2>5 DEF EnqFull, Kept
<1>9. ~(Del /\ msg.t4 = t) => ~CloseOf(p, t)
  <2>1. SUFFICES ASSUME ~(Del /\ msg.t4 = t), CloseOf(p, t) PROVE FALSE
    OBVIOUS
  <2>2. p = 0
    BY <1>8, <2>1
  <2>3. Message(p) = msg /\ msg.type = "MSG_CLOSE" /\ msg.t4 = t
    BY <2>1, <2>2, InPlace DEF CloseOf, IsClose
  <2>4. Len(mq) + 1 # 0
    BY LenProperties DEF TypeOK
  <2>5. Parse
    BY <1>1, <2>1, <2>2, <2>3, <2>4
  <2>6. QED BY <2>3, <2>5, InHand DEF Parse
<1>10. OneStream(t) => OneStream(t)'
  BY <1>1, <1>2, <1>3, <1>7, <1>8, OneStreamKeeps
<1>11. ASSUME ~(Del /\ msg.t4 = t), NEW n \in Nodes, n.key = t, NodeStream(n)
       PROVE  NodeStream(n)'
  <2>1. ~CloseOf(p, n.key)
    BY <1>9, <1>11
  <2>2. \A s \in live : addr[s] = n.key => s \in live' /\ addr'[s] = n.key
    BY <1>7, <1>11
  <2>3. QED BY <1>1, <1>2, <1>4, <1>11, <2>1, <2>2, NodeStreamKeeps
<1>12. QED BY <1>6, <1>10, <1>11

\* What the capture thread is about to queue comes last.
LEMMA PutShape ==
    ASSUME TypeOK, StreamInv, NEW s \in Streams, PutData(s) \/ PutClose(s)
    PROVE  \E z \in Places :
              /\ Places' = Places /\ Message(z) = None
              /\ \A i \in Places : i <= z /\ (i # z => Message(i)' = Message(i))
              /\ s \in live /\ addr' = addr /\ live' \subseteq live
              /\ \A t : DataOf(z, t)' => t = addr[s] /\ Message(z)'.ts = s /\ live' = live
              /\ live' = live \/ (live' = live \ {s} /\ CloseOf(z, addr[s])')
<1>1. /\ s \in live /\ addr[s] \in Tuples /\ addr' = addr
      /\ UNCHANGED <<mq, msg>> /\ putting = None
  BY DEF PutData, PutClose, StreamInv, nids
<1>2. PICK z \in Places : z = Len(mq) + 1
  BY InPlace
<1>3. CASE PutData(s)
  <2>1. PICK b \in Bufs, r \in Directions(addr[s]) : putting' = Data(addr[s], s, b, r)
    BY <1>3 DEF PutData, TypeOK
  <2>2. /\ putting' \in Msgs /\ putting'.type = "MSG_DATA" /\ putting'.ts = s
        /\ putting'.t4 = addr[s]
    BY <1>1, <2>1, MessageIs
  <2>3. /\ Places' = Places /\ Message(z) = None /\ Message(z)' = putting'
        /\ \A i \in Places : i <= z /\ (i # z => Message(i)' = Message(i))
    BY <1>1, <1>2, <2>2, PutMoves
  <2>4. live' = live
    BY <1>3 DEF PutData, nids
  <2>5. QED BY <1>1, <2>2, <2>3, <2>4 DEF DataOf
<1>4. CASE PutClose(s)
  <2>1. /\ putting' \in Msgs /\ putting' # None /\ putting'.type = "MSG_CLOSE"
        /\ putting'.t4 = addr[s]
    BY <1>1, <1>4, MessageIs DEF PutClose
  <2>2. /\ Places' = Places /\ Message(z) = None /\ Message(z)' = putting'
        /\ \A i \in Places : i <= z /\ (i # z => Message(i)' = Message(i))
    BY <1>1, <1>2, <2>1, PutMoves
  <2>3. live' = live \ {s}
    BY <1>4 DEF PutClose
  <2>4. CloseOf(z, addr[s])'
    BY <1>1, <2>1, <2>2 DEF CloseOf, IsClose, Waiting
  <2>5. ~IsData(z)'
    BY <2>1, <2>2 DEF IsData
  <2>6. QED BY <1>1, <2>2, <2>3, <2>4, <2>5 DEF DataOf
<1>5. QED BY <1>3, <1>4

LEMMA PutOrder ==
    ASSUME TypeOK, StreamInv, NEW s \in Streams, PutData(s) \/ PutClose(s)
    PROVE  /\ \A t \in Tuples : OneStream(t) => OneStream(t)'
           /\ \A n : NodeStream(n) => NodeStream(n)'
<1> PICK z \in Places :
              /\ Places' = Places /\ Message(z) = None
              /\ \A i \in Places : i <= z /\ (i # z => Message(i)' = Message(i))
              /\ s \in live /\ addr' = addr /\ live' \subseteq live
              /\ \A t : DataOf(z, t)' => t = addr[s] /\ Message(z)'.ts = s /\ live' = live
              /\ live' = live \/ (live' = live \ {s} /\ CloseOf(z, addr[s])')
  BY PutShape
<1>1. \A i \in Places : i \in Int /\ i >= 0
  BY PlacesNat DEF Places0
<1>2. ASSUME NEW t, NEW i \in Places
      PROVE  /\ i # z => (DataOf(i, t)' <=> DataOf(i, t))
             /\ CloseOf(i, t) => CloseOf(i, t)' /\ i # z /\ i <= z
  BY DEF DataOf, CloseOf, IsData, IsClose, Waiting
<1>3. \A t, i : CloseOf(i, t) => i \in Places
  BY DEF CloseOf, IsClose, Waiting
<1>4. \A u \in live : u \in live' \/ (u = s /\ CloseOf(z, addr[s])')
  OBVIOUS
<1>5. \A t, i : DataOf(i, t)' => i \in Places
  BY DEF DataOf, IsData, Waiting
<1>6. \A u \in live : addr[u] = addr[s] => u = s
  BY DEF StreamInv
<1>7. ASSUME NEW t \in Tuples, OneStream(t) PROVE OneStream(t)'
  <2>1. ASSUME NEW i \in Places, NEW j \in Places, DataOf(i, t)', DataOf(j, t)', i < j
        PROVE  Message(i)'.ts = Message(j)'.ts \/ \E k \in i..j : CloseOf(k, t)'
    <3>1. i # z /\ DataOf(i, t) /\ Message(i)' = Message(i)
      BY <1>1, <1>2, <2>1
    <3>2. CASE j # z
      <4>1. DataOf(j, t) /\ Message(j)' = Message(j)
        BY <1>2, <2>1, <3>2
      <4>2. \/ Message(i).ts = Message(j).ts
            \/ \E k \in i..j : CloseOf(k, t)
        BY <1>7, <2>1, <3>1, <4>1 DEF OneStream
      <4>3. QED BY <1>2, <1>3, <3>1, <4>1, <4>2
    <3>3. CASE j = z
      <4>1. t = addr[s] /\ Message(j)'.ts = s
        BY <2>1, <3>3
      <4>2. \/ \E k \in Places : k > i /\ CloseOf(k, t)
            \/ \E u \in live : addr[u] = t /\ Message(i).ts = u
        BY <1>7, <3>1 DEF OneStream
      <4>3. ASSUME NEW k \in Places, k > i, CloseOf(k, t)
            PROVE  k \in i..j /\ CloseOf(k, t)'
        BY <1>1, <1>2, <3>3, <4>3
      <4>4. ASSUME NEW u \in live, addr[u] = t, Message(i).ts = u
            PROVE  Message(i)'.ts = Message(j)'.ts
        BY <1>6, <3>1, <4>1, <4>4
      <4>5. QED BY <4>2, <4>3, <4>4
    <3>4. QED BY <3>2, <3>3
  <2>2. ASSUME NEW i \in Places, DataOf(i, t)'
        PROVE  \/ \E k \in Places : k > i /\ CloseOf(k, t)'
               \/ \E u \in live' : addr[u] = t /\ Message(i)'.ts = u
    <3>1. CASE i = z
      BY <2>2, <3>1
    <3>2. CASE i # z
      <4>1. DataOf(i, t) /\ Message(i)' = Message(i) /\ z > i
        BY <1>1, <1>2, <2>2, <3>2
      <4>2. \/ \E k \in Places : k > i /\ CloseOf(k, t)
            \/ \E u \in live : addr[u] = t /\ Message(i).ts = u
        BY <1>7, <4>1 DEF OneStream
      <4>3. ASSUME NEW u \in live, addr[u] = t, Message(i).ts = u
            PROVE  u \in live' \/ CloseOf(z, t)'
        BY <1>4, <4>3
      <4>4. QED BY <1>2, <4>1, <4>2, <4>3
    <3>3. QED BY <3>1, <3>2
  <2>3. QED BY <2>1, <2>2 DEF OneStream
<1>8. ASSUME NEW n, NodeStream(n) PROVE NodeStream(n)'
  <2>1. ASSUME NEW j \in Places, DataOf(j, n.key)'
        PROVE  n.ts = Message(j)'.ts \/ \E k \in 0..j : CloseOf(k, n.key)'
    <3>1. CASE j # z
      <4>1. DataOf(j, n.key) /\ Message(j)' = Message(j)
        BY <1>2, <2>1, <3>1
      <4>2. n.ts = Message(j).ts \/ \E k \in 0..j : CloseOf(k, n.key)
        BY <1>8, <4>1 DEF NodeStream
      <4>3. QED BY <1>2, <1>3, <4>1, <4>2
    <3>2. CASE j = z
      <4>1. n.key = addr[s] /\ Message(j)'.ts = s
        BY <2>1, <3>2
      <4>2. \/ \E k \in Places : CloseOf(k, n.key)
            \/ \E u \in live : addr[u] = n.key /\ n.ts = u
        BY <1>8 DEF NodeStream
      <4>3. ASSUME NEW k \in Places, CloseOf(k, n.key)
            PROVE  k \in 0..j /\ CloseOf(k, n.key)'
        BY <1>1, <1>2, <3>2, <4>3
      <4>4. QED BY <1>6, <4>1, <4>2, <4>3
    <3>3. QED BY <3>1, <3>2
  <2>2. \/ \E k \in Places : CloseOf(k, n.key)'
        \/ \E u \in live' : addr[u] = n.key /\ n.ts = u
    <3>1. \/ \E k \in Places : CloseOf(k, n.key)
          \/ \E u \in live : addr[u] = n.key /\ n.ts = u
      BY <1>8 DEF NodeStream
    <3>2. ASSUME NEW u \in live, addr[u] = n.key, n.ts = u
          PROVE  u \in live' \/ CloseOf(z, n.key)'
      BY <1>4, <3>2
    <3>3. QED BY <1>2, <3>1, <3>2
  <2>3. QED BY <2>1, <2>2 DEF NodeStream
<1>9. QED BY <1>7, <1>8

LEMMA OrderStep ==
    ASSUME TypeOK, TypeOK', StreamInv, MessageInv, CallInv, TableInv, OrderInv, [Next]_vars
    PROVE  OrderInv'
<1>1. ASSUME NEW s \in Streams, PutData(s) \/ PutClose(s) PROVE OrderInv'
  <2>1. hash' = hash /\ lost' = lost /\ recycled' = recycled
    BY <1>1 DEF PutData, PutClose, history
  <2>2. \A t : Kept(t)' <=> Kept(t)
    BY <2>1 DEF Kept
  <2>3. Entries(hash') = Entries(hash)
    BY <2>1
  <2>4. QED BY <1>1, <2>2, <2>3, PutOrder DEF OrderInv
<1>2. CASE \/ UNCHANGED vars
           \/ \E s \in Streams : (\E t \in Tuples : Establish(s, t)) \/ TimeOut(s)
           \/ Enq \/ EnqFull \/ Analysis
  <2>1. \A t \in Tuples : Kept(t)' =>
              /\ Kept(t)
              /\ OneStream(t) => OneStream(t)'
              /\ ~(Del /\ msg.t4 = t) => \A n \in Nodes : n.key = t /\ NodeStream(n) => NodeStream(n)'
    BY <1>2, ShiftOrder
  <2>2. \A t \in Tuples : Kept(t)' => OneStream(t)'
    BY <2>1 DEF OrderInv
  <2>3. \A n \in Entries(hash) : n \in Nodes /\ n.key \in Tuples
    <3>1. \A n : InTable(hash, n) => n \in Nodes
      <4>1. PICK h \in Tables : h = hash
        BY HashLemma DEF HashIs
      <4>2. \A i \in DOMAIN h : \A j \in DOMAIN h[i] : h[i][j] \in Nodes
        BY BucketIs DEF Tables
      <4>3. QED BY <4>1, <4>2 DEF InTable
    <3>2. QED BY <3>1, HashLemma DEF HashIs, Nodes
  <2>4. ASSUME NEW n \in Entries(hash), Kept(n.key)', ~(Del /\ msg.t4 = n.key)
        PROVE  NodeStream(n)'
    BY <2>1, <2>3, <2>4 DEF OrderInv
  <2>5. \A n \in Entries(hash') : Kept(n.key)' => NodeStream(n)'
    <3>1. CASE hash' = hash /\ ~Del
      BY <2>4, <3>1
    <3>2. CASE Del
      <4>1. \A n \in Entries(hash') : n \in Entries(hash) /\ (Known(n.key) => n.key # msg.t4)
        BY <3>2, AfterDel
      <4>2. \A n : Kept(n.key)' => Known(n.key)
        BY <3>2 DEF Del, Kept, Known, history
      <4>3. QED BY <2>4, <4>1, <4>2
    <3>3. CASE InsertPort
      <4>1. /\ node' \in Nodes /\ node'.key = node.key /\ node'.ts = msg.ts
            /\ node.key = msg.t4 \/ {msg.t4, node.key} \subseteq recycled
        BY <3>3, Inserted
      <4>2. PICK m \in Nodes : m = node'
        BY <4>1
      <4>3. ~Del
        BY <3>3 DEF InsertPort, Del
      <4>4. \A n : n \in Entries(hash') <=> n = m \/ n \in Entries(hash)
        BY <3>3, <4>2, AfterInsert
      <4>5. ASSUME Kept(m.key)' PROVE NodeStream(m)'
        <5>1. Kept(m.key) /\ m.key \in Tuples
          BY <2>1, <4>5 DEF Nodes
        <5>2. m.key = msg.t4 /\ m.ts = msg.ts
          BY <4>1, <4>2, <5>1 DEF Kept
        <5>3. OneStream(m.key) /\ Message(0) = msg /\ 0 \in Places /\ DataOf(0, m.key)
          BY <3>3, <5>1, <5>2, InPlace, InHand DEF OrderInv, InsertPort
        <5>4. \A j \in Places : j \in Int /\ j >= 0
          BY PlacesNat DEF Places0
        <5>5. ASSUME NEW j \in Places, DataOf(j, m.key)
              PROVE  m.ts = Message(j).ts \/ \E k \in 0..j : CloseOf(k, m.key)
          <6>1. CASE j = 0
            BY <5>2, <5>3, <6>1
          <6>2. CASE 0 < j
            BY <5>2, <5>3, <5>5, <6>2 DEF OneStream
          <6>3. QED BY <5>4, <6>1, <6>2
        <5>6. \/ \E k \in Places : CloseOf(k, m.key)
              \/ \E s \in live : addr[s] = m.key /\ m.ts = s
          BY <5>2, <5>3 DEF OneStream
        <5>7. NodeStream(m)
          BY <5>5, <5>6 DEF NodeStream
        <5>8. QED BY <2>1, <4>3, <4>5, <5>1, <5>7
      <4>6. QED BY <2>4, <4>3, <4>4, <4>5
    <3>4. ~(hash' = hash /\ ~Del) => Del \/ InsertPort
      <4>1. CASE ~Analysis
        BY <4>1, CaptureKeeps DEF Analysis
      <4>2. CASE Deq \/ Find \/ InsertKey \/ InsertIndex \/ Parse
        BY <4>2 DEF Deq, Find, InsertKey, InsertIndex, Parse
      <4>3. QED BY <4>1, <4>2 DEF Analysis
    <3>5. QED BY <3>1, <3>2, <3>3, <3>4
  <2>6. QED BY <2>2, <2>5 DEF OrderInv
<1>3. QED BY <1>1, <1>2 DEF Next

-----------------------------------------------------------------------------
(* The theorems. *)

LEMMA NewIs == \A i \in DOMAIN Mhash_new : DOMAIN Mhash_new[i] = {}
<1>1. << >> \in Seq(Nodes) /\ Len(<< >>) = 0
  BY EmptySeq
<1>2. DOMAIN << >> = 1..0
  BY <1>1, LenProperties
<1>3. \A i \in DOMAIN Mhash_new : Mhash_new[i] = << >>
  BY DEF Mhash_new
<1>4. QED BY <1>2, <1>3

LEMMA NoneWaits == Init => TypeOK /\ (\A i : ~Waiting(i)) /\ Entries(hash) = {}
<1> SUFFICES ASSUME Init PROVE TypeOK /\ (\A i : ~Waiting(i)) /\ Entries(hash) = {}
  OBVIOUS
<1>1. TypeOK
  BY TypeInit
<1>2. mq = << >> /\ putting = None /\ msg = None /\ hash = Mhash_new
  BY DEF Init
<1>3. UnderWay = {}
  BY <1>2 DEF UnderWay, Range
<1>4. \A i \in DOMAIN hash : DOMAIN hash[i] = {}
  BY <1>2, NewIs
<1>5. \A n : ~InTable(hash, n)
  BY <1>4 DEF InTable
<1>6. \A n : n \notin Entries(hash)
  BY <1>1, <1>5, HashLemma DEF HashIs
<1>7. QED BY <1>1, <1>2, <1>3, <1>6, InPlace

LEMMA IInvInit == Init => IInv
<1> SUFFICES ASSUME Init PROVE IInv
  OBVIOUS
<1>1. TypeOK /\ (\A i : ~Waiting(i)) /\ Entries(hash) = {}
  BY NoneWaits
<1>2. StreamInv
  BY DEF Init, StreamInv
<1>3. MessageInv
  BY <1>1 DEF MessageInv, IsData
<1>4. CallInv
  BY DEF Init, CallInv, Inserting
<1>5. TableInv
  <2>1. \A i \in DOMAIN hash : DOMAIN hash[i] = {}
    BY NewIs DEF Init
  <2>2. QED BY <2>1 DEF TableInv
<1>6. OrderInv
  BY <1>1 DEF OrderInv, OneStream, DataOf, IsData
<1>7. QED BY <1>1, <1>2, <1>3, <1>4, <1>5, <1>6 DEF IInv

LEMMA IInvStep == IInv /\ [Next]_vars => IInv'
<1> SUFFICES ASSUME IInv, [Next]_vars PROVE IInv'
  OBVIOUS
<1>1. TypeOK /\ StreamInv /\ MessageInv /\ CallInv /\ TableInv /\ OrderInv
  BY DEF IInv
<1>2. TypeOK' /\ StreamInv'
  BY <1>1, TypeStep, StreamStep
<1>3. MessageInv' /\ CallInv' /\ TableInv'
  BY <1>1, <1>2, MessageStep, CallStep, TableStep
<1>4. OrderInv'
  BY <1>1, <1>2, OrderStep
<1>5. QED BY <1>2, <1>3, <1>4 DEF IInv

LEMMA Inductive == Spec => []IInv
BY IInvInit, IInvStep, PTL DEF Spec

\* Types, for any number of tuples, streams, buffers and connections.
THEOREM TypeCorrect == Spec => []TypeOK
<1>1. IInv => TypeOK
  BY DEF IInv
<1>2. QED BY <1>1, Inductive, PTL

LEMMA RightNodeFollows == IInv => RightNode
<1> SUFFICES ASSUME IInv PROVE RightNode
  OBVIOUS
<1>1. TypeOK /\ MessageInv /\ CallInv /\ TableInv /\ OrderInv
  BY DEF IInv
<1>2. ASSUME apc = "parse", msg.t4 \notin recycled
      PROVE  /\ node.key = msg.t4 /\ node.port = Proto[msg.t4]
             /\ msg.t4 \notin lost => node.ts = msg.ts /\ addr[node.ts] = msg.t4
  <2>1. node \in Entries(hash) /\ node.key = msg.t4 /\ Known(msg.t4)
    BY <1>1, <1>2 DEF CallInv, Known
  <2>2. /\ msg.t4 \in Tuples /\ Message(0) = msg /\ 0 \in Places /\ DataOf(0, msg.t4)
    BY <1>1, <1>2, InHand, InPlace
  <2>3. node.port = Proto[msg.t4]
    BY <1>1, <2>1, <2>2, EntryFound
  <2>4. ASSUME msg.t4 \notin lost PROVE node.ts = msg.ts /\ addr[node.ts] = msg.t4
    <3>1. NodeStream(node)
      BY <1>1, <2>1, <2>4 DEF OrderInv, Kept, Known
    <3>2. ~CloseOf(0, msg.t4)
      BY <2>2 DEF CloseOf, IsClose, DataOf, IsData
    <3>3. node.ts = msg.ts
      <4>1. node.ts = Message(0).ts \/ \E k \in 0..0 : CloseOf(k, node.key)
        BY <2>1, <2>2, <3>1 DEF NodeStream
      <4>2. QED BY <2>1, <2>2, <3>2, <4>1
    <3>4. addr[msg.ts] = msg.t4
      BY <1>1, <1>2, InStream
    <3>5. QED BY <3>3, <3>4
  <2>5. QED BY <2>1, <2>3, <2>4
<1>3. apc = "aborted" => recycled # {}
  BY <1>1 DEF CallInv
<1>4. QED BY <1>2, <1>3 DEF RightNode

\* A packet is parsed with the node of its own connection: with its tuple, its
\* protocol, and its stream unless a close was lost, or the stream was reused
\* while the packet waited.
THEOREM RightNodeAlways == Spec => []RightNode
BY RightNodeFollows, Inductive, PTL

LEMMA OneNodeFollows == IInv => OneNode
<1> SUFFICES ASSUME IInv, NEW t \in Tuples \ recycled, NEW i \in DOMAIN hash,
                    NEW j \in At(hash[i], t), NEW k \in At(hash[i], t)
             PROVE  i = Hash[t] /\ j = k
  BY DEF OneNode
<1>1. /\ j \in DOMAIN hash[i] /\ hash[i][j].key = t
      /\ k \in DOMAIN hash[i] /\ hash[i][k].key = t
  BY DEF At
<1>2. QED BY <1>1 DEF IInv, TableInv, Known

\* A connection has one node, in the bucket where it is looked for.
THEOREM OneNodeAlways == Spec => []OneNode
BY OneNodeFollows, Inductive, PTL

LEMMA NothingLeftFollows == IInv => NothingLeft
<1> SUFFICES ASSUME IInv, mq = << >>, UnderWay = {}, NEW n \in Entries(hash)
             PROVE  n.key \in {addr[s] : s \in live} \cup lost \cup recycled
  BY DEF NothingLeft
<1>1. \A i : ~Waiting(i)
  BY InPlace DEF IInv
<1>2. ASSUME Kept(n.key) PROVE n.key \in {addr[s] : s \in live}
  <2>1. NodeStream(n)
    BY <1>2 DEF IInv, OrderInv
  <2>2. QED BY <1>1, <2>1 DEF NodeStream, CloseOf, IsClose
<1>3. QED BY <1>2 DEF Kept

\* When all is processed only connections that are still there have a node,
\* except where a close was lost or a stream reused too early.
THEOREM NothingIsLeft == Spec => []NothingLeft
BY NothingLeftFollows, Inductive, PTL
=============================================================================
