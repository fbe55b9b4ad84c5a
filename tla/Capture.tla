------------------------------ MODULE Capture ------------------------------
(***************************************************************************)
(* From the wire to the parser, for one of the two families of protocols:  *)
(* nids_callback of analy.c and the putin functions of analy_noweb.c and   *)
(* analy_webmail.c in the capture thread, the loop of analy_callback in    *)
(* the analysis thread, and the queue, the table and the packet buffers    *)
(* between them.                                                           *)
(*                                                                         *)
(* libnids hands out a tcp_stream per connection, and reuses it when the   *)
(* connection is over: what a message says of its stream may by then be    *)
(* said of another one.  The streams are kept in a pool of libnids, where  *)
(* a stream that is not in use keeps the address it had last.              *)
(***************************************************************************)
EXTENDS Integers, Sequences

CONSTANTS Tuples, Hash,   \* as in module Mhash
          Proto,          \* the protocol of the port a tuple names
          Streams,        \* the tcp_stream structures of libnids
          QLen,           \* messages the queue mq holds
          MaxBufs,        \* bound: buffers of pkgpool
          MaxConns,       \* bound: connections established
          None

Protos == {"SMTP", "IMAP", "POP3", "HTTP"}
ASSUME ProtoAssumption == Proto \in [Tuples -> Protos]
ASSUME BoundAssumption == {QLen, MaxBufs, MaxConns} \subseteq Nat \ {0}

INSTANCE Mhash

Bufs == 1..MaxBufs

VARIABLES
    addr,      \* ts->addr of each stream
    live,      \* the streams in use
    conns,     \* connections established so far
    putting,   \* the message the capture thread is about to queue, or None
    mq,        \* the queue
    free,      \* buffers in pkgpool
    leaked,    \* buffers no one has a pointer to
    hash,
    apc, msg,  \* the analysis thread and its message
    node,      \* the node it is filling in or parses for
    lost,      \* history: tuples of which a close did not get into the queue
    recycled   \* history: tuples with a packet under way when its stream was reused

vars == <<addr, live, conns, putting, mq, free, leaked, hash, apc, msg, node,
          lost, recycled>>
nids == <<addr, live, conns>>
history == <<lost, recycled>>

\* putin drops the answers of SMTP servers, and what IMAP and POP3 clients ask.
Directions(t) == CASE Proto[t] = "SMTP" -> {TRUE}
                   [] Proto[t] \in {"IMAP", "POP3"} -> {FALSE}
                   [] Proto[t] = "HTTP" -> BOOLEAN

Close(t) == [type |-> "MSG_CLOSE", t4 |-> t]
Data(t, s, b, r) ==
    [type |-> "MSG_DATA", t4 |-> t, ts |-> s, data |-> b, isrequest |-> r]
Msgs == {Close(t) : t \in Tuples} \cup
        {Data(t, s, b, r) : t \in Tuples, s \in Streams, b \in Bufs, r \in BOOLEAN}
ASSUME NoneAssumption == None \notin Tuples \cup Streams \cup Msgs
Nodes == [key : Tuples, index : DOMAIN Mhash_new, port : Protos \cup {None}, ts : Streams]

TypeOK ==
    /\ addr \in [Streams -> Tuples \cup {None}] /\ live \subseteq Streams
    /\ conns \in 0..MaxConns
    /\ putting \in Msgs \cup {None}
    /\ mq \in Seq(Msgs) /\ Len(mq) <= QLen
    /\ free \subseteq Bufs /\ leaked \subseteq Bufs
    /\ hash \in [DOMAIN Mhash_new -> Seq(Nodes)]
    /\ apc \in {"deq", "del", "find", "key", "index", "port", "parse", "aborted"}
    /\ msg \in Msgs \cup {None} /\ node \in Nodes \cup {None}
    /\ lost \subseteq Tuples /\ recycled \subseteq Tuples

Init ==
    /\ addr = [s \in Streams |-> None] /\ live = {} /\ conns = 0
    /\ putting = None /\ mq = << >> /\ free = Bufs /\ leaked = {}
    /\ hash = Mhash_new
    /\ apc = "deq" /\ msg = None /\ node = None
    /\ lost = {} /\ recycled = {}

\* The messages between the capture thread and the parser.
UnderWay == ({putting, msg} \ {None}) \cup Range(mq)

------------------------------------------------------------------------------
(* The capture thread: libnids, and what it calls *)

\* A connection is established, on a stream that is free (NIDS_JUST_EST).
Establish(s, t) ==
    /\ apc # "aborted" /\ putting = None
    /\ conns < MaxConns /\ s \notin live /\ \A u \in live : addr[u] # t
    /\ addr' = [addr EXCEPT ![s] = t] /\ live' = live \cup {s}
    /\ conns' = conns + 1
    /\ LET waiting == {m.t4 : m \in {m \in UnderWay :
                                       m.type = "MSG_DATA" /\ m.ts = s}}
       IN  recycled' = IF waiting \subseteq {t} THEN recycled
                       ELSE recycled \cup waiting \cup {t}
    /\ UNCHANGED <<putting, mq, free, leaked, hash, apc, msg, node, lost>>

\* New data: it is copied into a buffer, if its direction is wanted.
PutData(s) ==
    /\ apc # "aborted" /\ putting = None /\ s \in live
    /\ \E b \in free, r \in Directions(addr[s]) :
         /\ \A c \in free : b <= c
         /\ putting' = Data(addr[s], s, b, r)
         /\ free' = free \ {b}
    /\ UNCHANGED <<nids, mq, leaked, hash, apc, msg, node, history>>

\* The connection is closed or reset; libnids frees the stream when the
\* callback has returned.
PutClose(s) ==
    /\ apc # "aborted" /\ putting = None /\ s \in live
    /\ putting' = Close(addr[s])
    /\ live' = live \ {s}
    /\ UNCHANGED <<addr, conns, mq, free, leaked, hash, apc, msg, node, history>>

\* libnids gives a connection up (NIDS_TIMED_OUT): nids_callback does nothing.
TimeOut(s) ==
    /\ apc # "aborted" /\ putting = None /\ s \in live
    /\ live' = live \ {s}
    /\ lost' = lost \cup {addr[s]}
    /\ UNCHANGED <<addr, conns, putting, mq, free, leaked, hash, apc, msg, node, recycled>>

\* Acq_enq takes the message.
Enq ==
    /\ apc # "aborted" /\ putting # None /\ Len(mq) < QLen
    /\ mq' = Append(mq, putting) /\ putting' = None
    /\ UNCHANGED <<nids, free, leaked, hash, apc, msg, node, history>>

\* Acq_enq answers -1, which putin does not look at.
EnqFull ==
    /\ apc # "aborted" /\ putting # None /\ Len(mq) = QLen
    /\ putting' = None
    /\ IF putting.type = "MSG_DATA"
       THEN leaked' = leaked \cup {putting.data} /\ UNCHANGED lost
       ELSE lost' = lost \cup {putting.t4} /\ UNCHANGED leaked
    /\ UNCHANGED <<nids, mq, free, hash, apc, msg, node, recycled>>

------------------------------------------------------------------------------
(* The analysis thread: analy_callback *)

Deq ==
    /\ apc = "deq" /\ mq # << >>
    /\ msg' = Head(mq) /\ mq' = Tail(mq)
    /\ apc' = IF Head(mq).type = "MSG_CLOSE" THEN "del" ELSE "find"
    /\ UNCHANGED <<nids, putting, free, leaked, hash, node, history>>

\* Faulty: a connection that ends keeps its node.
DelForgotten ==
    /\ apc = "del"
    /\ apc' = "deq" /\ msg' = None
    /\ UNCHANGED <<nids, putting, mq, free, leaked, hash, node, history>>

Del ==
    /\ apc = "del"
    /\ hash' = Mhash_del(hash, msg.t4)
    /\ apc' = "deq" /\ msg' = None
    /\ UNCHANGED <<nids, putting, mq, free, leaked, node, history>>

\* Faulty: every packet gets a node of its own.
FindNot ==
    /\ apc = "find"
    /\ apc' = "key"
    /\ UNCHANGED <<nids, putting, mq, free, leaked, hash, msg, node, history>>

Find ==
    /\ apc = "find"
    /\ IF Mhash_has(hash, msg.t4)
       THEN apc' = "parse" /\ node' = Mhash_find(hash, msg.t4)
       ELSE apc' = "key" /\ UNCHANGED node
    /\ UNCHANGED <<nids, putting, mq, free, leaked, hash, msg, history>>

\* The first packet of a connection: Mhash_insert(hash, &msg.ts->addr) copies
\* the tuple into the node, then hashes what the stream says by now, and last
\* the port is read from there.  The node is put into the table with the last
\* of these steps; no other thread looks at it.
InsertKey ==
    /\ apc = "key"
    /\ node' = [key |-> addr[msg.ts], index |-> Hash[addr[msg.ts]],
                port |-> None, ts |-> msg.ts]
    /\ apc' = "index"
    /\ UNCHANGED <<nids, putting, mq, free, leaked, hash, msg, history>>

InsertIndex ==
    /\ apc = "index"
    /\ node' = [node EXCEPT !.index = Hash[addr[msg.ts]]]
    /\ apc' = "port"
    /\ UNCHANGED <<nids, putting, mq, free, leaked, hash, msg, history>>

InsertPort ==
    /\ apc = "port"
    /\ LET n == [node EXCEPT !.port = Proto[addr[msg.ts]]]
       IN  node' = n /\ hash' = Mhash_insert(hash, n.index, n)
    /\ apc' = "parse"
    /\ UNCHANGED <<nids, putting, mq, free, leaked, msg, history>>

\* Faulty: the buffer is given back only after a request.
ParseKeeps ==
    /\ apc = "parse"
    /\ IF msg.isrequest \/ node.port = "HTTP"
       THEN apc' = "deq" /\ free' = free \cup {msg.data}
       ELSE apc' = "deq" /\ UNCHANGED free
    /\ msg' = None /\ node' = None
    /\ UNCHANGED <<nids, putting, mq, leaked, hash, history>>

\* parse asserts the direction its protocol goes by, and gives the buffer back
\* on every way out.
Parse ==
    /\ apc = "parse"
    /\ IF node.port = "HTTP" \/ (msg.isrequest <=> node.port = "SMTP")
       THEN apc' = "deq" /\ free' = free \cup {msg.data}
       ELSE apc' = "aborted" /\ UNCHANGED free
    /\ msg' = None /\ node' = None
    /\ UNCHANGED <<nids, putting, mq, leaked, hash, history>>

Analysis == \/ Deq \/ Del \/ Find \/ InsertKey \/ InsertIndex \/ InsertPort \/ Parse

Next ==
    \/ \E s \in Streams :
         \/ \E t \in Tuples : Establish(s, t)
         \/ PutData(s) \/ PutClose(s) \/ TimeOut(s)
    \/ Enq \/ EnqFull
    \/ Analysis

\* Both threads are run; nothing need come from the wire.
Spec == Init /\ [][Next]_vars /\ WF_vars(Enq \/ EnqFull) /\ WF_vars(Analysis)

------------------------------------------------------------------------------
\* A packet is parsed with the node of its own connection: with its tuple, its
\* protocol, so that the assertions on the direction hold, and its stream, the
\* address of which kill() takes to reset the connection.  It is otherwise only
\* if the stream was reused while a packet waited, or if a close of the same
\* tuple was lost before, and the node is the one it left.
RightNode ==
    /\ apc = "parse" /\ msg.t4 \notin recycled =>
         /\ node.key = msg.t4 /\ node.port = Proto[msg.t4]
         /\ msg.t4 \notin lost => node.ts = msg.ts /\ addr[node.ts] = msg.t4
    /\ apc = "aborted" => recycled # {}

\* A connection has one node, in the bucket where it is looked for, unless
\* streams were reused too early.
OneNode ==
    \A t \in Tuples \ recycled : \A i \in DOMAIN hash : \A j, k \in At(hash[i], t) :
        i = Hash[t] /\ j = k

\* When all is processed, only connections that are still there have a node,
\* except where the close was lost, or named a node that has another tuple.
NothingLeft ==
    mq = << >> /\ UnderWay = {} =>
        \A n \in Entries(hash) :
            n.key \in {addr[s] : s \in live} \cup lost \cup recycled

\* Every buffer comes back to the pool, except those of packets that met a full
\* queue.
BufferReturns ==
    \A b \in Bufs :
        b \notin free ~> b \in free \cup leaked \/ apc = "aborted"
=============================================================================
