------------------------------ MODULE Control ------------------------------
(***************************************************************************)
(* Start and stop of the service and the reload of keywords: the commands  *)
(* a client sends to accept_request (main.c), each carried out by a worker *)
(* of the thread pool, with what they create and release in all modules.   *)
(*                                                                         *)
(* A command is a program of operations; one step is one operation.  A     *)
(* resource (the queues of one module, its pools and tables, a socket, the *)
(* database session, one keyword automaton of match_use) is a global       *)
(* pointer, cur, to one of several instances, of which those in live exist.*)
(* The pointer keeps its value when the instance is released, and a new    *)
(* instance may get the address of one that was released.                  *)
(*                                                                         *)
(* Bounds: Ids limits the instances of a resource and the threads of a     *)
(* role that exist at once, what leaks included; a start waits for room.   *)
(* MaxFailures limits the failures.                                        *)
(***************************************************************************)
EXTENDS Integers, Sequences, FiniteSets

CONSTANTS Clients,     \* connections, each served by a worker of its own
          Ids,         \* the addresses of instances and threads
          MaxFailures  \* how many kinds of failures happen in one run

ASSUME IdsAssumption == Ids \subseteq Nat \ {0} /\ IsFiniteSet(Ids)
ASSUME MaxFailuresAssumption == MaxFailures \in Nat

\* Threads by role: capture, the two analysis threads, monitor i, log[i][j].
Capture == 1
Web == 2
NoWeb == 3
Monitor(i) == 4 + i
Log(i, j) == 6 + 4 * i + j
Roles == 1..13
LogRoles == 6..13

\* Where the identifier of a thread is kept.  log has three columns and is
\* indexed by j in 0..3: log[0][3] is log[1][0], and log[1][3] is behind the
\* array (Outside).
Outside == 12
Slot(t) == IF t \in LogRoles THEN 6 + 3 * ((t - 6) \div 4) + ((t - 6) % 4) ELSE t

Resources == {"db", "spam", "match", "kill", "log", "monitor",
              "mailpool", "webmail", "noweb"}

\* What server_start does, in order; "keywords" is match_build_from_db.
Inits == <<"db", "spam", "match", "keywords", "kill", "log", "monitor",
           "mailpool", "webmail", "noweb">>
\* What server_run creates, in order.
RolesFrom(t) == [k \in 1..(14 - t) |-> t + k - 1]
Runs == RolesFrom(Capture)

Release(r) == <<[do |-> "release", on |-> r]>>
End(t) == <<[do |-> "cancel", on |-> t], [do |-> "join", on |-> t]>>

\* log_stop and monitor_stop end their threads and then free the queues.
LogStop == End(Log(0, 0)) \o End(Log(0, 1)) \o End(Log(0, 2)) \o End(Log(0, 3))
           \o End(Log(1, 0)) \o End(Log(1, 1)) \o End(Log(1, 2)) \o End(Log(1, 3))
           \o Release("log")
\* Faulty: the queues are freed before the threads are ended.
MonitorStopFree == Release("monitor") \o End(Monitor(0)) \o End(Monitor(1))
MonitorStop == End(Monitor(0)) \o End(Monitor(1)) \o Release("monitor")
AfterAnaly == MonitorStop \o LogStop \o Release("kill") \o Release("match")
                                                        \o Release("spam")
\* Faulty: only one of the protocols is stopped.
AnalyStopOne == End(Capture) \o End(Web) \o Release("webmail")
                             \o Release("noweb") \o Release("mailpool")
\* Faulty: the capture thread is waited for and not cancelled.
AnalyStopJoins ==
    Tail(End(Capture)) \o End(Web) \o Release("webmail")
    \o End(NoWeb) \o Release("noweb") \o Release("mailpool")
AnalyStop == End(Capture) \o End(Web) \o Release("webmail")
             \o End(NoWeb) \o Release("noweb") \o Release("mailpool")
\* server_stop
StopProgram == Release("db") \o AnalyStop \o AfterAnaly

\* What server_start releases again when the initialisation of r fails; that of
\* mailpool is analy_init.
\* Faulty: the queues that log_init did not create are freed as well.
UndoTooMuch(r) ==
    CASE r = "kill" -> Release("match")
      [] r = "log" -> Release("match") \o Release("kill") \o Release("log")
      [] r = "monitor" -> Release("match") \o Release("kill") \o Release("log")
      [] r = "mailpool" -> Release("match") \o Release("kill") \o Release("log")
                           \o Release("monitor")
      [] OTHER -> <<>>
\* Faulty: the socket is forgotten.
UndoTooLittle(r) ==
    CASE r \in {"kill", "log"} -> Release("match")
      [] r = "monitor" -> Release("match") \o Release("log")
      [] r = "mailpool" -> Release("match") \o Release("log") \o Release("monitor")
      [] OTHER -> <<>>
Undo(r) ==
    CASE r = "kill" -> Release("match")
      [] r = "log" -> Release("match") \o Release("kill")
      [] r = "monitor" -> Release("match") \o Release("kill") \o Release("log")
      [] r = "mailpool" -> Release("match") \o Release("kill") \o Release("log")
                           \o Release("monitor")
      [] OTHER -> <<>>
\* Initialisations whose result nobody looks at, and those that may leave a part
\* of what they created when they fail.
Unchecked == {"webmail", "noweb"}
LeavesPart == {"db", "match", "kill", "log"}

\* match_rebuild.
\* Faulty: the new automaton is put to use before it is built.
RebuildInPlace == <<"new", "load", "store", "build", "destroy">>
Rebuild == <<"new", "build", "load", "store", "destroy">>

VARIABLES
    up,          \* the process runs
    isboot,
    cmd, todo,   \* per client: the part of a command it is in, what is left of it
    cur, live,   \* the global pointer of each resource, and its instances
    built,       \* automata that hold their keywords
    spare, old,  \* tmp and tmp1 of match_rebuild
    running, ended,   \* threads, and those that ended and were not joined
    cancelled,
    tid,         \* the identifiers, by slot; 0 before any
    failed       \* history: what went wrong that the code does not deal with

resVars == <<cur, live, built>>
threadVars == <<running, ended, cancelled, tid>>
vars == <<up, isboot, cmd, todo, resVars, spare, old, threadVars, failed>>

Threads == Roles \X Ids
NoThread == <<0, 0>>

TypeOK ==
    /\ up \in BOOLEAN /\ isboot \in {0, 1}
    /\ cmd \in [Clients -> {"idle", "init", "undo", "undo_analy", "run", "stop", "rebuild"}]
    /\ DOMAIN todo = Clients
    /\ cur \in [Resources -> Ids \cup {0}] /\ live \in [Resources -> SUBSET Ids]
    /\ built \subseteq live["match"]
    /\ spare \in [Clients -> Ids \cup {0}] /\ old \in [Clients -> Ids \cup {0}]
    /\ running \subseteq Threads /\ ended \subseteq Threads \ running
    /\ cancelled \subseteq running
    /\ tid \in [1..Outside -> Threads \cup {NoThread}]

Init ==
    /\ up = TRUE /\ isboot = 0
    /\ cmd = [c \in Clients |-> "idle"] /\ todo = [c \in Clients |-> <<>>]
    /\ cur = [r \in Resources |-> 0] /\ live = [r \in Resources |-> {}]
    /\ built = {}
    /\ spare = [c \in Clients |-> 0] /\ old = [c \in Clients |-> 0]
    /\ running = {} /\ ended = {} /\ cancelled = {}
    /\ tid = [s \in 1..Outside |-> NoThread]
    /\ failed = {}

Fail(what) ==
    /\ Cardinality(failed \cup {what}) <= MaxFailures
    /\ failed' = failed \cup {what}

Least(S) == CHOOSE n \in S : \A m \in S : n <= m

------------------------------------------------------------------------------
(* The commands: accept_request *)

Begin(c, what, program) ==
    /\ up /\ cmd[c] = "idle"
    /\ cmd' = [cmd EXCEPT ![c] = what]
    /\ todo' = [todo EXCEPT ![c] = program]
    /\ UNCHANGED <<up, isboot, resVars, spare, old, threadVars, failed>>

FreeIds(t) == {n \in Ids : <<t, n>> \notin running \cup ended}
Room == /\ \A r \in Resources : live[r] # Ids
        /\ \A t \in Roles : FreeIds(t) # {}
\* S, E, and A or D; refused in the other state of isboot.
Start(c) == isboot = 0 /\ Room /\ Begin(c, "init", Inits)
Stop(c) == isboot = 1 /\ Begin(c, "stop", StopProgram)
Reload(c) == isboot = 1 /\ live["match"] # Ids /\ Begin(c, "rebuild", Rebuild)

At(c, part) == up /\ cmd[c] = part /\ todo[c] # <<>>
Op(c) == Head(todo[c])
Go(c, part, rest) ==
    /\ cmd' = [cmd EXCEPT ![c] = part]
    /\ todo' = [todo EXCEPT ![c] = rest]
Step(c) == Go(c, cmd[c], Tail(todo[c]))

\* The end of a part: the next one, or the answer.
Finish(c) ==
    /\ up /\ cmd[c] # "idle" /\ todo[c] = <<>>
    /\ IF cmd[c] \in {"init", "undo_analy"}
       THEN Go(c, "run", Runs) /\ UNCHANGED isboot
       ELSE /\ Go(c, "idle", <<>>)
            /\ isboot' = CASE cmd[c] = "run" -> 1
                           [] cmd[c] = "stop" -> 0
                           [] OTHER -> isboot
    /\ UNCHANGED <<up, resVars, spare, old, threadVars, failed>>

------------------------------------------------------------------------------
(* server_start *)

Create(r) ==
    \E n \in {Least(Ids \ live[r])} :
       /\ cur' = [cur EXCEPT ![r] = n]
       /\ live' = [live EXCEPT ![r] = @ \cup {n}]
InitOk(c) ==
    /\ At(c, "init") /\ Op(c) # "keywords" /\ live[Op(c)] # Ids
    /\ Create(Op(c))
    /\ Step(c)
    /\ UNCHANGED <<up, isboot, built, spare, old, threadVars, failed>>
Keywords(c) ==
    /\ At(c, "init") /\ Op(c) = "keywords"
    /\ built' = built \cup ({cur["match"]} \cap live["match"])
    /\ Step(c)
    /\ UNCHANGED <<up, isboot, cur, live, spare, old, threadVars, failed>>
InitFails(c) ==
    /\ At(c, "init") /\ Op(c) # "keywords"
    /\ LET r == Op(c)
       IN /\ \/ UNCHANGED <<cur, live>>
             \/ r \in LeavesPart /\ live[r] # Ids /\ Create(r)
          /\ Fail(r)
          /\ IF r \in Unchecked THEN Step(c)
             ELSE Go(c, IF r = "mailpool" THEN "undo_analy" ELSE "undo", Undo(r))
    /\ UNCHANGED <<up, isboot, built, spare, old, threadVars>>

\* server_run.  The identifier of the last log thread is written behind log,
\* where the linker puts padding or, as it orders the objects, mailpool.
RunOk(c) ==
    /\ At(c, "run")
    /\ LET t == Op(c)
           th == <<t, Least(FreeIds(t))>>
       IN /\ FreeIds(t) # {}
          /\ running' = running \cup {th}
          /\ tid' = [tid EXCEPT ![Slot(t)] = th]
          /\ \/ UNCHANGED <<cur, failed>>
             \/ /\ Slot(t) = Outside
                /\ cur' = [cur EXCEPT !["mailpool"] = 0]
                /\ Fail("layout")
    /\ Step(c)
    /\ UNCHANGED <<up, isboot, live, built, spare, old, ended, cancelled>>

\* A thread that cannot be created: its run function returns, and neither
\* analy_run, monitor_run nor log_run goes on behind it.
After(t) == CASE t = Capture -> Monitor(0)
              [] t \in {Web, NoWeb} -> t + 1
              [] t \in {Monitor(0), Monitor(1)} -> Log(0, 0)
              [] OTHER -> 14
RunFails(c) ==
    /\ At(c, "run")
    /\ Fail("create")
    /\ Go(c, "run", RolesFrom(After(Op(c))))
    /\ UNCHANGED <<up, isboot, resVars, spare, old, threadVars>>

------------------------------------------------------------------------------
(* server_stop, and what server_start takes back *)

\* A pointer or identifier that is not valid any more: the process may be ended
\* by the signal, or go on.
Misuse == up' \in BOOLEAN

Free(r, n) ==
    IF n \in live[r]
    THEN /\ live' = [live EXCEPT ![r] = @ \ {n}]
         /\ built' = IF r = "match" THEN built \ {n} ELSE built
         /\ UNCHANGED up
    ELSE Misuse /\ UNCHANGED <<live, built>>

Doing(c, what) ==
    At(c, cmd[c]) /\ cmd[c] \in {"stop", "undo", "undo_analy"} /\ Op(c).do = what
ReleaseStep(c) ==
    /\ Doing(c, "release")
    /\ Free(Op(c).on, cur[Op(c).on])
    /\ Step(c)
    /\ UNCHANGED <<isboot, cur, spare, old, threadVars, failed>>
\* spam_close returns at once when the file of words cannot be written.
SpamNotSaved(c) ==
    /\ Doing(c, "release") /\ Op(c).on = "spam"
    /\ Fail("save")
    /\ Step(c)
    /\ UNCHANGED <<up, isboot, resVars, spare, old, threadVars>>

Named(c) == tid[Slot(Op(c).on)]
CancelStep(c) ==
    /\ Doing(c, "cancel") /\ Named(c) \in running
    /\ cancelled' = cancelled \cup {Named(c)}
    /\ Step(c)
    /\ UNCHANGED <<up, isboot, resVars, spare, old, running, ended, tid, failed>>
\* pthread_cancel of a thread that has ended answers 0 or an error, as the
\* library has it; after an error for the capture thread analy_stop returns.
CancelEnded(c) ==
    /\ Doing(c, "cancel") /\ Named(c) \notin running
    /\ IF Named(c) \in ended THEN UNCHANGED up
       ELSE IF Op(c).on = Capture /\ Named(c) = NoThread THEN up' = FALSE
       ELSE Misuse
    /\ \/ Step(c)
       \/ Op(c).on = Capture /\ Go(c, "stop", AfterAnaly)
    /\ UNCHANGED <<isboot, resVars, spare, old, threadVars, failed>>
JoinStep(c) ==
    /\ Doing(c, "join") /\ Named(c) \notin running
    /\ ended' = ended \ {Named(c)}
    /\ IF Named(c) \in ended THEN UNCHANGED up ELSE Misuse
    /\ Step(c)
    /\ UNCHANGED <<isboot, resVars, spare, old, running, cancelled, tid, failed>>

------------------------------------------------------------------------------
(* match_rebuild.  am_addword asserts that am_new found memory. *)

RebuildNew(c) ==
    /\ At(c, "rebuild") /\ Op(c) = "new"
    /\ \/ /\ live["match"] # Ids
          /\ spare' = [spare EXCEPT ![c] = Least(Ids \ live["match"])]
          /\ live' = [live EXCEPT !["match"] = @ \cup {spare'[c]}]
          /\ UNCHANGED up
       \/ up' = FALSE /\ UNCHANGED <<spare, live>>
    /\ Step(c)
    /\ UNCHANGED <<isboot, cur, built, old, threadVars, failed>>
RebuildBuild(c) ==
    /\ At(c, "rebuild") /\ Op(c) = "build"
    /\ built' = built \cup ({spare[c]} \cap live["match"])
    /\ Step(c)
    /\ UNCHANGED <<up, isboot, cur, live, spare, old, threadVars, failed>>
RebuildLoad(c) ==
    /\ At(c, "rebuild") /\ Op(c) = "load"
    /\ old' = [old EXCEPT ![c] = cur["match"]]
    /\ Step(c)
    /\ UNCHANGED <<up, isboot, resVars, spare, threadVars, failed>>
RebuildStore(c) ==
    /\ At(c, "rebuild") /\ Op(c) = "store"
    /\ cur' = [cur EXCEPT !["match"] = spare[c]]
    /\ Step(c)
    /\ UNCHANGED <<up, isboot, live, built, spare, old, threadVars, failed>>
RebuildDestroy(c) ==
    /\ At(c, "rebuild") /\ Op(c) = "destroy"
    /\ Free("match", old[c])
    /\ spare' = [spare EXCEPT ![c] = 0] /\ old' = [old EXCEPT ![c] = 0]
    /\ Step(c)
    /\ UNCHANGED <<isboot, cur, threadVars, failed>>

------------------------------------------------------------------------------
(* The threads *)

Exit(t) ==
    /\ up /\ running' = running \ {t} /\ ended' = ended \cup {t}
    /\ cancelled' = cancelled \ {t}
    /\ UNCHANGED <<up, isboot, cmd, todo, resVars, spare, old, tid>>
Cancelled(t) == t \in cancelled /\ Exit(t) /\ UNCHANGED failed
\* nids_run returns when the interface fails.
CaptureEnds(t) ==
    /\ t[1] = Capture /\ t \in running \ cancelled
    /\ Exit(t)
    /\ Fail("capture")

Operation(c) ==
    \/ Finish(c) \/ InitOk(c) \/ Keywords(c) \/ InitFails(c) \/ RunOk(c) \/ RunFails(c)
    \/ ReleaseStep(c) \/ SpamNotSaved(c) \/ CancelStep(c) \/ CancelEnded(c) \/ JoinStep(c)
    \/ RebuildNew(c) \/ RebuildBuild(c) \/ RebuildLoad(c) \/ RebuildStore(c)
    \/ RebuildDestroy(c)
Command(c) == Start(c) \/ Stop(c) \/ Reload(c)
\* No command is under way, or the process has ended.
Quiet == (~up \/ \A c \in Clients : cmd[c] = "idle") /\ UNCHANGED vars
Next == \/ \E c \in Clients : Command(c) \/ Operation(c)
        \/ \E t \in running : Cancelled(t) \/ CaptureEnds(t)
        \/ Quiet

Spec == Init /\ [][Next]_vars

\* A worker goes on with its command, and a cancelled thread, whose cancellation
\* is asynchronous, ends.  Nobody has to send a command.
FairSpec ==
    /\ Spec
    /\ \A c \in Clients : WF_vars(Operation(c))
    /\ \A t \in Threads : WF_vars(Cancelled(t))

------------------------------------------------------------------------------
\* What the code does not deal with, or only in part: a service that was started
\* on an analysis that could not be initialised, a capture thread that ended by
\* itself, a variable behind log.
Sound == failed \cap {"mailpool", "webmail", "noweb", "capture", "layout"} = {}
AtRest == up /\ \A c \in Clients : cmd[c] = "idle"
Open(r) == cur[r] \in live[r]

\* What the threads of a role work on, and what server_stop releases before it
\* ends them.
Uses(t) ==
    CASE t = Capture -> {"webmail", "noweb"}
      [] t = Web -> {"webmail", "mailpool", "match", "kill", "monitor", "log"}
      [] t = NoWeb -> {"noweb", "mailpool", "match", "kill", "monitor", "log"}
      [] t \in LogRoles -> {"log", "mailpool", "db"}
      [] OTHER -> {"monitor", "log", "match", "spam", "mailpool"}
ReleasedEarly(t) == IF t > NoWeb THEN {"db", "mailpool"} ELSE {}
\* log[0][3] is overwritten: nobody ends that thread.
Forgotten == Log(0, 3)

\* server_start and server_stop keep an order in which no thread runs on a queue,
\* table, automaton or socket that is not there: all exist before the first
\* thread, and each is released when the last thread that uses it was joined.
\* (ReleasedEarly says which are released before: db and mailpool.)
UsesOpen ==
    Sound => \A th \in running : th[1] # Forgotten =>
                \A r \in Uses(th[1]) \ ReleasedEarly(th[1]) : Open(r)

\* Whenever a thread looks into match_use it finds an automaton that is there and
\* complete, while keywords are reloaded too (match.c:93), and the keywords come
\* from a database that is connected (match.h:8).
KeywordsComplete ==
    Sound => /\ (\E th \in running : th[1] \in Web..Monitor(1)) => cur["match"] \in built
             /\ \A c \in Clients : cmd[c] = "rebuild" => Open("db")

\* A queue has one consumer: two threads of a role never run, across any number
\* of starts, stops and failed starts.
OneThreadEach ==
    Sound => \A a, b \in running : a[1] = b[1] /\ a[1] # Forgotten => a = b

\* Nothing is released twice, on any path of server_start, server_stop and
\* match_rebuild.
ReleaseOnce ==
    Sound => \A c \in Clients :
                /\ Doing(c, "release") => Open(Op(c).on)
                /\ At(c, "rebuild") /\ Op(c) = "destroy" => old[c] \in live["match"]

\* When the service is down nothing of it is left but what the error paths are
\* known to leave: the database session and the word table after a failed start
\* (main.c:234), the part an initialisation could not finish, and the log thread
\* that nobody ends.
NothingLeft ==
    (AtRest /\ isboot = 0 /\ Sound /\ "create" \notin failed) =>
       /\ ended = {} /\ \A th \in running : th[1] = Forgotten
       /\ \A r \in Resources : live[r] # {} =>
             \/ r \in {"db", "spam"} /\ failed # {}
             \/ r \in LeavesPart \cap failed

\* Every command is answered, unless the process ends: a stop never waits for a
\* thread that was not cancelled.
Answered == \A c \in Clients : (up /\ cmd[c] # "idle") ~> (~up \/ cmd[c] = "idle")

=============================================================================
