------------------------------- MODULE Tpool -------------------------------
(***************************************************************************)
(* The thread pool of utils/tpool.c, as main() uses it: one thread creates *)
(* the pool and its workers, adds a task per accepted connection, and when *)
(* it cannot accept any more shuts the pool down (Tpool_free).  Workers    *)
(* sleep on a condition variable until there is a task or the shutdown.    *)
(*                                                                         *)
(* The list of tasks is the linked list of module List.  Only the main     *)
(* thread adds tasks in this build (-UKILL_WITH_TPOOL), so Tpool_addwork   *)
(* never sees isshutdown.                                                  *)
(***************************************************************************)
EXTENDS Integers, Sequences, FiniteSets

CONSTANTS Num,         \* pool->origin_num
          MaxTasks,    \* bound: connections accepted
          Main, None

ASSUME NumAssumption == Num \in Nat \ {0} /\ MaxTasks \in Nat
ASSUME MainAssumption ==
    Main \notin 1..Num /\ None \notin (1..Num) \cup (1..MaxTasks) \cup {Main}

Workers == 1..Num
Tasks == 1..MaxTasks

INSTANCE List WITH Addr <- Tasks, Null <- None

VARIABLES
    mutex,        \* the thread that holds pool->mutex, or None
    waiting,      \* workers blocked in pthread_cond_wait
    queue,        \* pool->queue, a list as in module List
    isshutdown,
    current_num,  \* workers created
    mpc, joined,  \* the main thread, and how many workers it has joined
    wpc,          \* the workers
    added,        \* tasks accepted by Tpool_addwork so far
    taken         \* the tasks the workers took, in that order

tpoolVars == <<mutex, waiting, queue, isshutdown, current_num, mpc, joined, wpc,
          added, taken>>

MainPc == {"create", "accept", "push", "unlock", "signal",
           "broadcast", "join", "freed"}
WorkerPc == {"none", "lock", "test", "sleep", "wait", "unlock", "run",
             "exit", "broadcast", "done"}

TpoolTypeOK ==
    /\ mutex \in Workers \cup {Main, None}
    /\ waiting \subseteq Workers
    /\ queue \in [length : 0..MaxTasks, head : Tasks \cup {None}, tail : Tasks \cup {None},
                 next : [Tasks \cup {None} -> Tasks \cup {None}],
                 data : [Tasks \cup {None} -> Tasks \cup {None}]]
    /\ isshutdown \in BOOLEAN
    /\ current_num \in 0..Num
    /\ mpc \in MainPc /\ joined \in 0..Num
    /\ wpc \in [Workers -> WorkerPc]
    /\ added \in 0..MaxTasks
    /\ taken \in Seq(Tasks) /\ Len(taken) <= MaxTasks

\* Tpool_new.
TpoolInit ==
    /\ mutex = None /\ waiting = {} /\ queue = List_new
    /\ isshutdown = FALSE /\ current_num = 0
    /\ mpc = "create" /\ joined = 0
    /\ wpc = [w \in Workers |-> "none"]
    /\ added = 0 /\ taken = << >>

\* pthread_cond_signal and pthread_cond_broadcast: the woken workers compete
\* for the mutex, f gives the steps the workers take beside that.
Woken(f, W) == [w \in Workers |-> IF w \in W THEN "lock" ELSE f[w]]

------------------------------------------------------------------------------
(* The main thread: Tpool_run, Tpool_addwork for each connection, Tpool_free *)

Create ==
    /\ mpc = "create"
    /\ current_num < Num
    /\ current_num' = current_num + 1
    /\ wpc' = [wpc EXCEPT ![current_num + 1] = "lock"]
    /\ UNCHANGED <<mutex, waiting, queue, isshutdown, mpc, joined, added, taken>>

\* All created, or pthread_create failed: main does not look at the answer of
\* Tpool_run.
Created ==
    /\ mpc = "create"
    /\ mpc' = "accept"
    /\ UNCHANGED <<mutex, waiting, queue, isshutdown, current_num, joined, wpc,
                   added, taken>>

AddLock ==
    /\ mpc = "accept" /\ added < MaxTasks
    /\ mutex = None
    /\ mutex' = Main
    /\ mpc' = "push"
    /\ UNCHANGED <<waiting, queue, isshutdown, current_num, joined, wpc, added, taken>>

\* List_push may find no memory: the connection is then forgotten.
AddPush ==
    /\ mpc = "push"
    /\ \/ queue' = List_push(queue, added + 1) /\ added' = added + 1
       \/ UNCHANGED <<queue, added>>
    /\ mpc' = "unlock"
    /\ UNCHANGED <<mutex, waiting, isshutdown, current_num, joined, wpc, taken>>

AddUnlock ==
    /\ mpc = "unlock"
    /\ mutex' = None
    /\ mpc' = "signal"
    /\ UNCHANGED <<waiting, queue, isshutdown, current_num, joined, wpc, added, taken>>

\* Faulty: the signal is forgotten.
AddSignalForgotten ==
    /\ mpc = "signal"
    /\ mpc' = "accept"
    /\ UNCHANGED <<mutex, waiting, queue, isshutdown, current_num, joined, wpc, added, taken>>

AddSignal ==
    /\ mpc = "signal"
    /\ \/ waiting = {} /\ UNCHANGED <<waiting, wpc>>
       \/ \E w \in waiting :
            waiting' = waiting \ {w} /\ wpc' = Woken(wpc, {w})
    /\ mpc' = "accept"
    /\ UNCHANGED <<mutex, queue, isshutdown, current_num, joined, added, taken>>

\* Tpool_free: the flag is set without the mutex, then everyone is woken.
FreeSet ==
    /\ mpc = "accept"
    /\ isshutdown' = TRUE
    /\ mpc' = "broadcast"
    /\ UNCHANGED <<mutex, waiting, queue, current_num, joined, wpc, added, taken>>

FreeBroadcast ==
    /\ mpc = "broadcast"
    /\ wpc' = Woken(wpc, waiting) /\ waiting' = {}
    /\ mpc' = "join"
    /\ UNCHANGED <<mutex, queue, isshutdown, current_num, joined, added, taken>>

Join ==
    /\ mpc = "join" /\ joined < current_num
    /\ wpc[joined + 1] = "done"
    /\ joined' = joined + 1
    /\ UNCHANGED <<mutex, waiting, queue, isshutdown, current_num, mpc, wpc, added, taken>>

\* Faulty: the last worker is not waited for.
FreeMemoryEarly ==
    /\ mpc = "join" /\ joined + 1 >= current_num
    /\ mpc' = "freed"
    /\ queue' = List_free(queue)
    /\ UNCHANGED <<mutex, waiting, isshutdown, current_num, joined, wpc, added, taken>>

\* The list with the tasks nobody took, and the pool, are freed.
FreeMemory ==
    /\ mpc = "join" /\ joined = current_num
    /\ mpc' = "freed"
    /\ queue' = List_free(queue)
    /\ UNCHANGED <<mutex, waiting, isshutdown, current_num, joined, wpc, added, taken>>

------------------------------------------------------------------------------
(* A worker: thread_callback *)

WorkerGoto(w, from, to) == wpc[w] = from /\ wpc' = [wpc EXCEPT ![w] = to]

WorkerLock(w) ==
    /\ WorkerGoto(w, "lock", "test")
    /\ mutex = None
    /\ mutex' = w
    /\ UNCHANGED <<waiting, queue, isshutdown, current_num, mpc, joined, added, taken>>

\* The while loop finds neither a shutdown nor a task.
TestSleep(w) ==
    /\ ~isshutdown /\ List_empty(queue)
    /\ WorkerGoto(w, "test", "sleep")
    /\ UNCHANGED <<mutex, waiting, queue, isshutdown, current_num, mpc, joined,
                   added, taken>>

\* pthread_cond_wait: asleep and the mutex released in one step.
Sleep(w) ==
    /\ WorkerGoto(w, "sleep", "wait")
    /\ mutex' = None
    /\ waiting' = waiting \cup {w}
    /\ UNCHANGED <<queue, isshutdown, current_num, mpc, joined, added, taken>>

TestExit(w) ==
    /\ isshutdown
    /\ WorkerGoto(w, "test", "exit")
    /\ UNCHANGED <<mutex, waiting, queue, isshutdown, current_num, mpc, joined,
                   added, taken>>

TestTake(w) ==
    /\ ~isshutdown /\ ~List_empty(queue)
    /\ WorkerGoto(w, "test", "unlock")
    /\ taken' = Append(taken, List_first(queue))
    /\ queue' = List_popleft(queue)
    /\ UNCHANGED <<mutex, waiting, isshutdown, current_num, mpc, joined, added>>

Unlock(w) ==
    /\ \/ WorkerGoto(w, "unlock", "run")
       \/ WorkerGoto(w, "exit", "broadcast")
    /\ mutex' = None
    /\ UNCHANGED <<waiting, queue, isshutdown, current_num, mpc, joined, added, taken>>

\* task.func(task.args) returns.
Run(w) ==
    /\ WorkerGoto(w, "run", "lock")
    /\ UNCHANGED <<mutex, waiting, queue, isshutdown, current_num, mpc, joined,
                   added, taken>>

\* Faulty: the leaving worker wakes nobody.
ExitSilent(w) ==
    /\ WorkerGoto(w, "broadcast", "done")
    /\ UNCHANGED <<mutex, waiting, queue, isshutdown, current_num, mpc, joined,
                   added, taken>>

\* A worker that leaves wakes the others up again.
ExitBroadcast(w) ==
    /\ wpc[w] = "broadcast"
    /\ wpc' = [Woken(wpc, waiting) EXCEPT ![w] = "done"]
    /\ waiting' = {}
    /\ UNCHANGED <<mutex, queue, isshutdown, current_num, mpc, joined, added, taken>>

Spurious(w) ==
    /\ WorkerGoto(w, "wait", "lock")
    /\ waiting' = waiting \ {w}
    /\ UNCHANGED <<mutex, queue, isshutdown, current_num, mpc, joined, added, taken>>

MainStep == \/ Create \/ Created \/ AddLock \/ AddPush \/ AddUnlock \/ AddSignal
            \/ FreeSet \/ FreeBroadcast \/ Join \/ FreeMemory
WorkerStep(w) == \/ WorkerLock(w) \/ TestSleep(w) \/ Sleep(w) \/ TestExit(w)
                 \/ TestTake(w) \/ Unlock(w) \/ Run(w) \/ ExitBroadcast(w)
\* Everything has been freed.
Finished == mpc = "freed" /\ UNCHANGED tpoolVars
TpoolNext == MainStep \/ (\E w \in Workers : WorkerStep(w) \/ Spurious(w)) \/ Finished

TpoolSpec == TpoolInit /\ [][TpoolNext]_tpoolVars

\* The scheduler runs every thread that can run, a thread that keeps asking for
\* the mutex gets it, and a task ends: its client disconnects.  Nothing makes
\* main accept, or shut down, and no wait ends without being woken.
TpoolFairSpec ==
    /\ TpoolSpec
    /\ SF_tpoolVars(AddLock)
    /\ WF_tpoolVars(Create \/ AddPush \/ AddUnlock \/ AddSignal
               \/ FreeBroadcast \/ Join \/ FreeMemory)
    /\ \A w \in Workers :
         /\ SF_tpoolVars(WorkerLock(w))
         /\ WF_tpoolVars(TestSleep(w) \/ Sleep(w) \/ TestExit(w) \/ TestTake(w)
                    \/ Unlock(w) \/ Run(w) \/ ExitBroadcast(w))

------------------------------------------------------------------------------
\* Tasks are taken once each, in the order they were added: the linked list
\* holds those that were added and not taken, and its release leaves no node.
InOrder ==
    /\ mpc # "freed" => taken \o Content(queue) = [k \in 1..added |-> k]
    /\ mpc = "freed" => Allocated(queue) = {}

\* Nobody is inside the pool when its memory, mutex and condition are destroyed.
PoolOutlivesWorkers ==
    mpc = "freed" => \A w \in Workers : wpc[w] \in {"none", "done"}

\* Every connection added is served, unless the pool shuts down first or not one
\* worker could be created.
TaskTaken ==
    \A k \in Tasks :
       added >= k ~> \/ Len(taken) >= k
                     \/ isshutdown
                     \/ current_num = 0

\* Tpool_free returns.  The flag and the broadcast can fall between a worker's
\* test and its wait; with a second worker the broadcast that worker makes as it
\* leaves repeats the wakeup.
FreeReturnsIfTwo == isshutdown /\ current_num # 1 ~> mpc = "freed"
==============================================================================
