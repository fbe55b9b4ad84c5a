------------------------------ MODULE Pipeline ------------------------------
(***************************************************************************)
(* The way of a mail through the threads of EMMS: one analysis thread per  *)
(* protocol family (analy_webmail.c, analy_noweb.c), one monitor thread    *)
(* per family (monitor.c) and eight log threads (log.c), joined by the     *)
(* queues monitor_queue[2] and log_queue[2][4] and by mailpool.            *)
(*                                                                         *)
(* One step is one call that another thread can observe.  The queues are   *)
(* the bounded FIFOs that module Acq shows them to be, the pool is the set *)
(* of nodes that module Mpool shows it to be with one popping thread.      *)
(* What is inside a mail is not modelled: the analysis of its packets ends *)
(* one way or another, and the monitor finds a keyword, spam, both or      *)
(* neither.                                                                *)
(***************************************************************************)
EXTENDS Integers, Sequences, Functions

CONSTANTS Mails,     \* the nodes of mailpool (bound: the pool does not grow)
          None,
          MonitorCap, LogCap    \* how many mails each queue holds

ASSUME MailsAssumption == None \notin Mails
ASSUME CapAssumption == MonitorCap \in Nat \ {0} /\ LogCap \in Nat \ {0}

\* enum PROTO and enum TYPE
Protos == {0, 1}
KILL == 0
MONITOR == 1
SPAM == 2
MONITOR_SPAM == 3
Types == {KILL, MONITOR, SPAM, MONITOR_SPAM}

\* The argument of each log thread, and the queue it works on.
LogThreads == {i * 4 + j : i \in Protos, j \in Types}
\* Faulty: the types counted from one.
QueueOfFromOne(w) == <<w \div 4, 1 + (w % 3)>>
QueueOf(w) == <<w \div 4, w % 4>>

VARIABLES
    pool,                \* the mails on mailpool's free stack
    partial,             \* mails an analysis thread is still filling
    apc, amail, tries,   \* the analysis threads: inside which push, for which mail
    monitor_queue, mpc, mmail, verdict,
    log_queue, lpc, lmail,
    records              \* the records written of each mail since it was allocated

analysisVars == <<partial, apc, amail, tries>>
monitorVars == <<mpc, mmail, verdict>>
logVars == <<lpc, lmail, records>>
vars == <<pool, analysisVars, monitor_queue, monitorVars, log_queue, logVars>>

TypeOK ==
    /\ pool \subseteq Mails
    /\ partial \in [Protos -> SUBSET Mails]
    /\ apc \in [Protos -> {"parse", "monitor_push", "log_push"}]
    /\ amail \in [Protos -> Mails \cup {None}]
    /\ tries \in [Protos -> 0..1]
    /\ monitor_queue \in [Protos -> Seq(Mails)]
    /\ mpc \in [Protos -> {"deq", "match", "log_push", "free"}]
    /\ mmail \in [Protos -> Mails \cup {None}]
    /\ verdict \in [Protos -> Types]
    /\ log_queue \in [Protos \X Types -> Seq(Mails)]
    /\ lpc \in [LogThreads -> {"deq", "insert", "insert_spam", "free"}]
    /\ lmail \in [LogThreads -> Mails \cup {None}]
    /\ records \in [Mails -> SUBSET Types]

Init ==
    /\ pool = Mails
    /\ partial = [p \in Protos |-> {}]
    /\ apc = [p \in Protos |-> "parse"] /\ amail = [p \in Protos |-> None]
    /\ tries = [p \in Protos |-> 0]
    /\ monitor_queue = [p \in Protos |-> <<>>]
    /\ mpc = [p \in Protos |-> "deq"] /\ mmail = [p \in Protos |-> None]
    /\ verdict = [p \in Protos |-> KILL]
    /\ log_queue = [q \in Protos \X Types |-> <<>>]
    /\ lpc = [w \in LogThreads |-> "deq"] /\ lmail = [w \in LogThreads |-> None]
    /\ records = [m \in Mails |-> {}]

\* Acq_enq and Acq_deq on the queue at index i of a family of queues.
Room(queues, i, cap) == Len(queues[i]) < cap
Enq(queues, i, m) == [queues EXCEPT ![i] = Append(@, m)]
Deq(queues, i) == [queues EXCEPT ![i] = Tail(@)]

------------------------------------------------------------------------------
(* The analysis thread of family p *)

\* The first packet of a mail: a node of mailpool for it.
Begin(p) ==
    /\ apc[p] = "parse"
    /\ \E m \in pool :
         /\ pool' = pool \ {m}
         /\ partial' = [partial EXCEPT ![p] = @ \cup {m}]
    /\ UNCHANGED <<apc, amail, tries, monitor_queue, monitorVars, log_queue, logVars>>

\* A packet ends the analysis of m: a blocking keyword matched (the connection
\* is reset and the mail goes to log_push) or the mail is complete (it goes to
\* monitor_push) or is given up (its node is not given back).
Leave(p, m, to) ==
    /\ apc[p] = "parse" /\ m \in partial[p]
    /\ partial' = [partial EXCEPT ![p] = @ \ {m}]
    /\ apc' = [apc EXCEPT ![p] = to]
    /\ amail' = [amail EXCEPT ![p] = IF to = "parse" THEN None ELSE m]
    /\ UNCHANGED <<pool, tries, monitor_queue, monitorVars, log_queue, logVars>>
Kill(p, m) == Leave(p, m, "log_push")
Complete(p, m) == Leave(p, m, "monitor_push")
GiveUp(p, m) == Leave(p, m, "parse")

PushDone(p) ==
    /\ apc' = [apc EXCEPT ![p] = "parse"]
    /\ amail' = [amail EXCEPT ![p] = None]
    /\ tries' = [tries EXCEPT ![p] = 0]

\* monitor_push succeeds on the first or second attempt.
MonitorPush(p) ==
    /\ apc[p] = "monitor_push" /\ Room(monitor_queue, p, MonitorCap)
    /\ monitor_queue' = Enq(monitor_queue, p, amail[p])
    /\ PushDone(p)
    /\ UNCHANGED <<pool, partial, monitorVars, log_queue, logVars>>

\* The queue is full: once more after usleep(10), then the mail is forgotten.
MonitorPushFull(p) ==
    /\ apc[p] = "monitor_push" /\ ~Room(monitor_queue, p, MonitorCap)
    /\ \/ tries[p] = 0 /\ tries' = [tries EXCEPT ![p] = 1] /\ UNCHANGED <<apc, amail>>
       \/ tries[p] = 1 /\ PushDone(p)
    /\ UNCHANGED <<pool, partial, monitor_queue, monitorVars, log_queue, logVars>>

\* log_push on log_queue[p][TYPE_KILL], attempted until there is room.
KillPush(p) ==
    /\ apc[p] = "log_push" /\ Room(log_queue, <<p, KILL>>, LogCap)
    /\ log_queue' = Enq(log_queue, <<p, KILL>>, amail[p])
    /\ PushDone(p)
    /\ UNCHANGED <<pool, partial, monitor_queue, monitorVars, logVars>>

------------------------------------------------------------------------------
(* The monitor thread of family p *)

MonitorDeq(p) ==
    /\ mpc[p] = "deq" /\ monitor_queue[p] # <<>>
    /\ mmail' = [mmail EXCEPT ![p] = Head(monitor_queue[p])]
    /\ monitor_queue' = Deq(monitor_queue, p)
    /\ mpc' = [mpc EXCEPT ![p] = "match"]
    /\ UNCHANGED <<pool, analysisVars, verdict, log_queue, logVars>>

\* The keywords and spam_filter: which log queue the mail belongs to, if any.
MonitorMail(p) ==
    /\ mpc[p] = "match"
    /\ \/ /\ \E t \in Types \ {KILL} : verdict' = [verdict EXCEPT ![p] = t]
          /\ mpc' = [mpc EXCEPT ![p] = "log_push"]
       \/ mpc' = [mpc EXCEPT ![p] = "free"] /\ UNCHANGED verdict
    /\ UNCHANGED <<pool, analysisVars, monitor_queue, mmail, log_queue, logVars>>

\* Faulty: no return after the push, so that the mail is given back as well.
MonitorLogPushNoReturn(p) ==
    /\ mpc[p] = "log_push" /\ Room(log_queue, <<p, verdict[p]>>, LogCap)
    /\ log_queue' = Enq(log_queue, <<p, verdict[p]>>, mmail[p])
    /\ mpc' = [mpc EXCEPT ![p] = "free"]
    /\ UNCHANGED <<pool, analysisVars, monitor_queue, mmail, verdict, logVars>>

MonitorLogPush(p) ==
    /\ mpc[p] = "log_push" /\ Room(log_queue, <<p, verdict[p]>>, LogCap)
    /\ log_queue' = Enq(log_queue, <<p, verdict[p]>>, mmail[p])
    /\ mpc' = [mpc EXCEPT ![p] = "deq"] /\ mmail' = [mmail EXCEPT ![p] = None]
    /\ verdict' = [verdict EXCEPT ![p] = KILL]    \* the locals of monitor_mail
    /\ UNCHANGED <<pool, analysisVars, monitor_queue, logVars>>

\* Neither matched nor spam: the mail is given back here.
MonitorFree(p) ==
    /\ mpc[p] = "free"
    /\ pool' = pool \cup {mmail[p]}
    /\ mpc' = [mpc EXCEPT ![p] = "deq"] /\ mmail' = [mmail EXCEPT ![p] = None]
    /\ UNCHANGED <<analysisVars, monitor_queue, verdict, log_queue, logVars>>

------------------------------------------------------------------------------
(* The log thread with argument w *)

LogDeq(w) ==
    /\ lpc[w] = "deq" /\ log_queue[QueueOf(w)] # <<>>
    /\ lmail' = [lmail EXCEPT ![w] = Head(log_queue[QueueOf(w)])]
    /\ log_queue' = Deq(log_queue, QueueOf(w))
    /\ lpc' = [lpc EXCEPT ![w] = "insert"]
    /\ UNCHANGED <<pool, analysisVars, monitor_queue, monitorVars, records>>

Insert(w, type) == records' = [records EXCEPT ![lmail[w]] = @ \cup {type}]

\* Faulty: a MONITOR_SPAM mail is written once.
LogInsertOnce(w) ==
    /\ lpc[w] = "insert"
    /\ Insert(w, IF QueueOf(w)[2] = MONITOR_SPAM THEN MONITOR ELSE QueueOf(w)[2])
    /\ lpc' = [lpc EXCEPT ![w] = "free"]
    /\ UNCHANGED <<pool, analysisVars, monitor_queue, monitorVars, log_queue, lmail>>

\* db_insert; a MONITOR_SPAM mail is written as a monitor record first.
LogInsert(w) ==
    /\ lpc[w] = "insert"
    /\ \/ /\ QueueOf(w)[2] = MONITOR_SPAM
          /\ Insert(w, MONITOR)
          /\ lpc' = [lpc EXCEPT ![w] = "insert_spam"]
       \/ /\ QueueOf(w)[2] # MONITOR_SPAM
          /\ Insert(w, QueueOf(w)[2])
          /\ lpc' = [lpc EXCEPT ![w] = "free"]
    /\ UNCHANGED <<pool, analysisVars, monitor_queue, monitorVars, log_queue, lmail>>

\* ... and a second time as a spam record.
LogInsertSpam(w) ==
    /\ lpc[w] = "insert_spam"
    /\ Insert(w, SPAM)
    /\ lpc' = [lpc EXCEPT ![w] = "free"]
    /\ UNCHANGED <<pool, analysisVars, monitor_queue, monitorVars, log_queue, lmail>>

LogFree(w) ==
    /\ lpc[w] = "free"
    /\ pool' = pool \cup {lmail[w]}
    /\ lpc' = [lpc EXCEPT ![w] = "deq"] /\ lmail' = [lmail EXCEPT ![w] = None]
    /\ records' = [records EXCEPT ![lmail[w]] = {}]
    /\ UNCHANGED <<analysisVars, monitor_queue, monitorVars, log_queue>>

Analysis(p) ==
    \/ Begin(p) \/ (\E m \in Mails : Kill(p, m) \/ Complete(p, m) \/ GiveUp(p, m))
    \/ MonitorPush(p) \/ MonitorPushFull(p) \/ KillPush(p)
Monitor(p) == MonitorDeq(p) \/ MonitorMail(p) \/ MonitorLogPush(p) \/ MonitorFree(p)
Log(w) == LogDeq(w) \/ LogInsert(w) \/ LogInsertSpam(w) \/ LogFree(w)

\* Where a mail is: a place for each variable that refers to it.
Places(m) ==
    {<<"pool">> : x \in pool \cap {m}}
    \cup {<<"partial", p>> : p \in {p \in Protos : m \in partial[p]}}
    \cup {<<"analysis", p>> : p \in {p \in Protos : amail[p] = m}}
    \cup {<<"monitor", p>> : p \in {p \in Protos : mmail[p] = m}}
    \cup {<<"log", w>> : w \in {w \in LogThreads : lmail[w] = m}}
    \cup (UNION {{<<"monitor_queue", p, i>> :
                    i \in {i \in DOMAIN monitor_queue[p] : monitor_queue[p][i] = m}}
                   : p \in Protos})
    \cup (UNION {{<<"log_queue", q, i>> :
                    i \in {i \in DOMAIN log_queue[q] : log_queue[q][i] = m}}
                   : q \in Protos \X Types})

\* Bound: with every mail lost this pool is empty and all threads wait.
AllLost == (\A m \in Mails : Places(m) = {}) /\ UNCHANGED vars

Next == \/ \E p \in Protos : Analysis(p) \/ Monitor(p)
        \/ \E w \in LogThreads : Log(w)
        \/ AllLost
Spec == Init /\ [][Next]_vars

\* Every thread keeps running, and db_insert returns; no packet need arrive.
FairSpec ==
    /\ Spec
    /\ \A p \in Protos : /\ WF_vars(MonitorPush(p) \/ MonitorPushFull(p) \/ KillPush(p))
                         /\ WF_vars(Monitor(p))
    /\ \A w \in LogThreads : WF_vars(Log(w))

------------------------------------------------------------------------------
\* A mail is in one place at a time: no two threads work on it, it is not in
\* two queues, and it is not on the free stack while anybody refers to it.
\* A mail given back twice, or given back and logged, would break this.
OnePlace == \A m \in Mails : \A x, y \in Places(m) : x = y

\* Where m is in the life that MailLifecycle describes.
InAnalysis(m) ==
    \E p \in Protos : m \in partial[p] \/ (amail[p] = m /\ apc[p] = "monitor_push")
InMonitor(m) ==
    \E p \in Protos : \/ mmail[p] = m /\ mpc[p] # "log_push"
                      \/ m \in Range(monitor_queue[p])
InLog(m, t) ==     \* on its way through a log queue of type t
    \E p \in Protos : \/ amail[p] = m /\ apc[p] = "log_push" /\ t = KILL
                      \/ mmail[p] = m /\ mpc[p] = "log_push" /\ t = verdict[p]
                      \/ m \in Range(log_queue[<<p, t>>])
                      \/ lmail[p * 4 + t] = m

Name == [t \in {KILL, MONITOR, SPAM} |->
           CASE t = KILL -> "kill" [] t = MONITOR -> "monitor" [] t = SPAM -> "spam"]
RecordsOf(t) == IF t = MONITOR_SPAM THEN {MONITOR, SPAM} ELSE {t}
StageOf(m) ==
    CASE m \in pool -> "free"
      [] InAnalysis(m) -> "analysis"
      [] InMonitor(m) -> "monitor"
      [] \E t \in Types : InLog(m, t) -> "log"
      [] OTHER -> "lost"
Owed(m) ==
    UNION {{Name[r] : r \in RecordsOf(t) \ records[m]} : t \in {t \in Types : InLog(m, t)}}

\* The threads together keep the promise of MailLifecycle: a mail that matched
\* is written to the database once under each heading it matched, before it is
\* given back; what is in monitor_queue is never lost.
Lifecycle == INSTANCE MailLifecycle
               WITH stage <- [m \in Mails |-> StageOf(m)], owed <- [m \in Mails |-> Owed(m)]
ImplementsLifecycle == Lifecycle!Spec

\* Every mail that reached a queue or a log thread is given back to the pool.
MailsReturn == \A m \in Mails : StageOf(m) \in {"monitor", "log"} ~> m \in pool
=============================================================================
