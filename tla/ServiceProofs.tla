--------------------------- MODULE ServiceProofs ---------------------------
(***************************************************************************)
(* Proofs about the service from its start to its stop.                    *)
(*                                                                         *)
(* Control: for a service with one client, any set of addresses and any    *)
(* number of failures, what threads use exists, keywords are complete,     *)
(* nothing runs or is released twice, and nothing is left behind.          *)
(*                                                                         *)
(* Spam: for any number of filters, mails and words, a filter that runs    *)
(* alone is right and does not crash whatever others did before, and the   *)
(* file of words that is read at the start and written at the stop keeps   *)
(* each word once as long as no two filters run at once.                   *)
(***************************************************************************)
EXTENDS Control, Spam, SequenceTheorems, WellFoundedInduction, TLAPS

-----------------------------------------------------------------------------
(* Programs.  A command in progress is the rest of a program; what matters   *)
(* of it is which operations are still to come and in which order.           *)

\* An operation d on x is still to come in q.
Pending(d, x, q) == \E i \in 1..Len(q) : q[i].do = d /\ q[i].on = x
In(x, q) == \E i \in 1..Len(q) : q[i] = x

InitOps == Resources \cup {"keywords"}
UndoOps == [do : {"release"}, on : Resources]
StopOps == UndoOps \cup [do : {"cancel", "join"}, on : Roles]
RebuildOps == {"new", "build", "load", "store", "destroy"}

\* What a thread of role t needs until it is joined.
Needs(t) == Uses(t) \ ReleasedEarly(t)

\* Every thread is joined before what it needs is released, A being released
\* after q.
JoinsFirst(q, A) ==
    \A i \in 1..Len(q) : q[i].do = "join" =>
       \A r \in Needs(q[i].on) \ A :
          \E j \in (i + 1)..Len(q) : q[j].do = "release" /\ q[j].on = r
\* Nothing is released twice.
Once(q) ==
    \A i, j \in 1..Len(q) :
       q[i].do = "release" /\ q[j].do = "release" /\ q[i].on = q[j].on => i = j

\* What analy_stop leaves to do when it returns early.
AfterRoles == Monitor(0)..Log(1, 3)
AfterReleases == {"monitor", "log", "kill", "match", "spam"}
\* No thread is ended before the capture thread is, and all of AfterAnaly comes
\* behind.
CaptureFirst(q) ==
    \A i \in 1..Len(q) : q[i].do = "cancel" /\ q[i].on = Capture =>
       /\ \A j \in 1..(i - 1) : q[j].do = "release"
       /\ \A t \in AfterRoles : \E j \in (i + 1)..Len(q) : q[j].do = "join" /\ q[j].on = t
       /\ \A r \in AfterReleases :
             \E j \in (i + 1)..Len(q) : q[j].do = "release" /\ q[j].on = r

InitsLike(q) ==
    /\ q \in Seq(InitOps) /\ Len(q) <= 10
    /\ \A i \in 1..Len(q) : q[i] = Inits[10 - Len(q) + i]
RunsLike(q) ==
    /\ q \in Seq(Roles) /\ Len(q) <= 13
    /\ \A i \in 1..Len(q) : q[i] = 13 - Len(q) + i
RebuildLike(q) ==
    /\ q \in Seq(RebuildOps) /\ Len(q) <= 5
    /\ \A i \in 1..Len(q) : q[i] = Rebuild[5 - Len(q) + i]
UndoLike(q) == q \in Seq(UndoOps) /\ Once(q)
StopLike(q) == q \in Seq(StopOps) /\ JoinsFirst(q, {}) /\ Once(q) /\ CaptureFirst(q)

ProgramInv(c) ==
    /\ cmd[c] = "idle" => todo[c] = << >>
    /\ cmd[c] = "init" => InitsLike(todo[c])
    /\ cmd[c] = "run" => RunsLike(todo[c])
    /\ cmd[c] = "rebuild" => RebuildLike(todo[c])
    /\ cmd[c] = "stop" => StopLike(todo[c])
    /\ cmd[c] \in {"undo", "undo_analy"} => UndoLike(todo[c])
BootInv(c) ==
    /\ cmd[c] \in {"rebuild", "stop"} => isboot = 1
    /\ cmd[c] \in {"init", "undo", "undo_analy", "run"} => isboot = 0
    /\ cmd[c] = "undo_analy" => "mailpool" \in failed

-----------------------------------------------------------------------------
(* What exists at each point of a command. *)

\* The service is up and nothing of it is being stopped.
Serving(c) == cmd[c] \in {"run", "rebuild"} \/ (cmd[c] = "idle" /\ isboot = 1)
\* r is there: created, and its release still to come.
There(c, r) ==
    \/ Serving(c)
    \/ cmd[c] = "init" /\ ~In(r, todo[c])
    \/ cmd[c] \in {"stop", "undo"} /\ Pending("release", r, todo[c])
Worded(c) ==
    \/ Serving(c)
    \/ cmd[c] = "init" /\ ~In("keywords", todo[c])
    \/ cmd[c] = "stop" /\ Pending("release", "match", todo[c])
\* A thread of role t, if there is one, is still to be joined.
JoinDue(c, t) == Serving(c) \/ (cmd[c] = "stop" /\ Pending("join", t, todo[c]))
\* The capture thread is still to be cancelled.
CaptureDue(c) == Serving(c) \/ (cmd[c] = "stop" /\ Pending("cancel", Capture, todo[c]))
CaptureRuns == \E th \in running : th[1] = Capture

OpenInv(c) == Sound => \A r \in Resources : There(c, r) => Open(r)
WordsInv(c) == Sound /\ Worded(c) => cur["match"] \in built
\* match_rebuild: tmp1 is put to use when it is built, and tmp is what was in use.
RebuildInv(c) ==
    Sound /\ up /\ cmd[c] = "rebuild" =>
       /\ Len(todo[c]) \in 2..4 => spare[c] \in live["match"] /\ spare[c] # cur["match"]
       /\ Len(todo[c]) \in 2..3 => spare[c] \in built
       /\ Len(todo[c]) = 2 => old[c] = cur["match"]
       /\ Len(todo[c]) = 1 => old[c] \in live["match"] /\ old[c] # cur["match"]

\* No error path that leaves something of r was taken.
Clean(r) ==
    /\ "create" \notin failed
    /\ r \in {"db", "spam"} => failed = {}
    /\ r \in LeavesPart => r \notin failed
\* The automaton of match_rebuild that is not in use.
Second(c, r) ==
    IF r = "match" /\ cmd[c] = "rebuild"
    THEN IF Len(todo[c]) \in 2..4 THEN {spare[c]}
         ELSE IF Len(todo[c]) = 1 THEN {old[c]} ELSE {}
    ELSE {}
LeftInv(c) ==
    Sound /\ up => \A r \in Resources : Clean(r) =>
       live[r] = IF There(c, r) THEN {cur[r]} \cup Second(c, r) ELSE {}

TidInv == \A s \in 1..Outside : tid[s] # NoThread => Slot(tid[s][1]) = s

\* A thread is known by its identifier (but for the one that is overwritten)
\* and its join is still to come; nothing is cancelled before capture is.
ThreadInv(c) ==
    Sound =>
       /\ \A th \in running \cup ended :
             th[1] # Forgotten \/ th \in ended \cup cancelled => th = tid[Slot(th[1])]
       /\ \A th \in running \cup ended : th = tid[Slot(th[1])] => JoinDue(c, th[1])
       /\ cmd[c] = "run" =>
             \A th \in running : th[1] # Forgotten => th[1] < 14 - Len(todo[c])
       /\ cmd[c] # "stop" \/ CaptureDue(c) => cancelled = {} /\ ended = {}
\* The analysis threads are created after the capture thread and only with it.
CaptureInv(c) ==
    Sound /\ CaptureDue(c) =>
       /\ (\E th \in running : th[1] \in {Web, NoWeb}) => CaptureRuns
       /\ "create" \notin failed /\ ~(cmd[c] = "run" /\ Len(todo[c]) = 13) => CaptureRuns
       /\ cmd[c] = "run" /\ Len(todo[c]) \in {11, 12} => CaptureRuns

IInv(c) ==
    /\ TypeOK /\ ProgramInv(c) /\ BootInv(c) /\ TidInv
    /\ OpenInv(c) /\ WordsInv(c) /\ RebuildInv(c) /\ LeftInv(c)
    /\ ThreadInv(c) /\ CaptureInv(c)

-----------------------------------------------------------------------------
(* What a step does to a program: it drops the head. *)

LEMMA TailIs ==
    ASSUME NEW S, NEW q \in Seq(S), q # << >>
    PROVE  /\ Len(q) \in Nat \ {0} /\ Head(q) = q[1] /\ q[1] \in S
           /\ Tail(q) \in Seq(S) /\ Len(Tail(q)) = Len(q) - 1
           /\ \A i \in 1..(Len(q) - 1) : Tail(q)[i] = q[i + 1]
BY HeadTailProperties

LEMMA TailPending ==
    ASSUME NEW S, NEW q \in Seq(S), q # << >>, NEW d, NEW x
    PROVE  /\ Pending(d, x, q) <=> (q[1].do = d /\ q[1].on = x) \/ Pending(d, x, Tail(q))
           /\ Pending(d, x, q) <=> \/ q[1].do = d /\ q[1].on = x
                                   \/ \E j \in 2..Len(q) : q[j].do = d /\ q[j].on = x
<1>1. /\ Len(q) \in Nat \ {0} /\ Len(Tail(q)) = Len(q) - 1
      /\ \A i \in 1..(Len(q) - 1) : Tail(q)[i] = q[i + 1]
  BY TailIs
<1>2. Pending(d, x, q) <=> \/ q[1].do = d /\ q[1].on = x
                           \/ \E j \in 2..Len(q) : q[j].do = d /\ q[j].on = x
  BY <1>1 DEF Pending
<1>3. Pending(d, x, Tail(q)) <=> \E j \in 2..Len(q) : q[j].do = d /\ q[j].on = x
  <2>1. ASSUME NEW j \in 2..Len(q), q[j].do = d /\ q[j].on = x
        PROVE  Pending(d, x, Tail(q))
    <3>1. j - 1 \in 1..(Len(q) - 1) /\ (j - 1) + 1 = j
      BY <1>1
    <3>2. Tail(q)[j - 1] = q[j]
      BY <1>1, <3>1
    <3>3. QED BY <1>1, <2>1, <3>1, <3>2 DEF Pending
  <2>2. ASSUME NEW i \in 1..Len(Tail(q)), Tail(q)[i].do = d /\ Tail(q)[i].on = x
        PROVE  \E j \in 2..Len(q) : q[j].do = d /\ q[j].on = x
    <3>1. i + 1 \in 2..Len(q) /\ Tail(q)[i] = q[i + 1]
      BY <1>1
    <3>2. QED BY <2>2, <3>1
  <2>3. QED BY <2>1, <2>2 DEF Pending
<1>4. QED BY <1>2, <1>3

LEMMA StopTail ==
    ASSUME NEW q, StopLike(q), q # << >>
    PROVE  /\ StopLike(Tail(q)) /\ q \in Seq(StopOps) /\ q[1] \in StopOps
           /\ Head(q) = q[1]
<1>1. /\ q \in Seq(StopOps) /\ Len(q) \in Nat \ {0} /\ Head(q) = q[1] /\ q[1] \in StopOps
      /\ Tail(q) \in Seq(StopOps) /\ Len(Tail(q)) = Len(q) - 1
      /\ \A i \in 1..(Len(q) - 1) : Tail(q)[i] = q[i + 1]
  BY TailIs DEF StopLike
<1> DEFINE p == Tail(q)
<1>2. \A i \in 1..Len(p) : i + 1 \in 1..Len(q) /\ p[i] = q[i + 1]
  BY <1>1
<1>3. \A i, j \in Nat : j \in (i + 2)..Len(q) => j - 1 \in (i + 1)..Len(p) /\ p[j - 1] = q[j]
  <2> TAKE i, j \in Nat
  <2> HAVE j \in (i + 2)..Len(q)
  <2>1. j - 1 \in 1..(Len(q) - 1) /\ (j - 1) + 1 = j /\ j - 1 \in (i + 1)..(Len(q) - 1)
    BY <1>1
  <2>2. p[j - 1] = q[(j - 1) + 1]
    BY <1>1, <2>1
  <2>3. QED BY <1>1, <2>1, <2>2
<1> HIDE DEF p
<1>4. JoinsFirst(p, {})
  <2> SUFFICES ASSUME NEW i \in 1..Len(p), p[i].do = "join", NEW r \in Needs(p[i].on)
               PROVE  \E j \in (i + 1)..Len(p) : p[j].do = "release" /\ p[j].on = r
    BY DEF JoinsFirst
  <2>1. i + 1 \in 1..Len(q) /\ p[i] = q[i + 1]
    BY <1>2
  <2>2. PICK j \in ((i + 1) + 1)..Len(q) : q[j].do = "release" /\ q[j].on = r
    BY <2>1 DEF StopLike, JoinsFirst
  <2>3. j - 1 \in (i + 1)..Len(p) /\ p[j - 1] = q[j]
    BY <1>1, <1>3, <2>1, <2>2
  <2>4. QED BY <2>2, <2>3
<1>5. Once(p)
  <2>1. \A i, j \in 1..Len(p) : i + 1 = j + 1 => i = j
    BY <1>1
  <2>2. QED BY <1>2, <2>1 DEF StopLike, Once
<1>6. CaptureFirst(p)
  <2> SUFFICES ASSUME NEW i \in 1..Len(p), p[i].do = "cancel" /\ p[i].on = Capture
      PROVE  /\ \A j \in 1..(i - 1) : p[j].do = "release"
             /\ \A t \in AfterRoles : \E j \in (i + 1)..Len(p) : p[j].do = "join" /\ p[j].on = t
             /\ \A r \in AfterReleases :
                   \E j \in (i + 1)..Len(p) : p[j].do = "release" /\ p[j].on = r
    BY DEF CaptureFirst
  <2>1. i + 1 \in 1..Len(q) /\ p[i] = q[i + 1]
    BY <1>2
  <2>2. /\ \A j \in 1..((i + 1) - 1) : q[j].do = "release"
        /\ \A t \in AfterRoles :
              \E j \in ((i + 1) + 1)..Len(q) : q[j].do = "join" /\ q[j].on = t
        /\ \A r \in AfterReleases :
              \E j \in ((i + 1) + 1)..Len(q) : q[j].do = "release" /\ q[j].on = r
    BY <2>1 DEF StopLike, CaptureFirst
  <2>3. ASSUME NEW j \in 1..(i - 1) PROVE p[j].do = "release"
    <3>1. j \in 1..Len(p) /\ j + 1 \in 1..((i + 1) - 1)
      BY <1>1, <2>1
    <3>2. QED BY <1>2, <2>2, <3>1
  <2>4. \A j \in ((i + 1) + 1)..Len(q) : j - 1 \in (i + 1)..Len(p) /\ p[j - 1] = q[j]
    BY <1>1, <1>3, <2>1, SMTT(30)
  <2>5. ASSUME NEW t \in AfterRoles
        PROVE  \E j \in (i + 1)..Len(p) : p[j].do = "join" /\ p[j].on = t
    <3>1. PICK j \in ((i + 1) + 1)..Len(q) : q[j].do = "join" /\ q[j].on = t
      BY <2>2
    <3>2. j - 1 \in (i + 1)..Len(p) /\ p[j - 1] = q[j]
      BY <2>4
    <3>3. QED BY ONLY <3>1, <3>2
  <2>6. ASSUME NEW r \in AfterReleases
        PROVE  \E j \in (i + 1)..Len(p) : p[j].do = "release" /\ p[j].on = r
    <3>1. PICK j \in ((i + 1) + 1)..Len(q) : q[j].do = "release" /\ q[j].on = r
      BY <2>2
    <3>2. j - 1 \in (i + 1)..Len(p) /\ p[j - 1] = q[j]
      BY <2>4
    <3>3. QED BY ONLY <3>1, <3>2
  <2>7. QED BY ONLY <2>3, <2>5, <2>6
<1>7. QED BY <1>1, <1>4, <1>5, <1>6 DEF StopLike, p

LEMMA UndoTail ==
    ASSUME NEW q, UndoLike(q), q # << >>
    PROVE  /\ UndoLike(Tail(q)) /\ q \in Seq(UndoOps) /\ q[1] \in UndoOps
           /\ Head(q) = q[1]
<1>1. /\ q \in Seq(UndoOps) /\ Len(q) \in Nat \ {0} /\ Head(q) = q[1] /\ q[1] \in UndoOps
      /\ Tail(q) \in Seq(UndoOps) /\ Len(Tail(q)) = Len(q) - 1
      /\ \A i \in 1..(Len(q) - 1) : Tail(q)[i] = q[i + 1]
  BY TailIs DEF UndoLike
<1> DEFINE p == Tail(q)
<1>2. \A i \in 1..Len(p) : i + 1 \in 1..Len(q) /\ p[i] = q[i + 1]
  BY <1>1
<1>3. \A i, j \in 1..Len(p) : i + 1 = j + 1 => i = j
  BY <1>1
<1> HIDE DEF p
<1>4. Once(p)
  BY <1>2, <1>3 DEF UndoLike, Once
<1>5. QED BY <1>1, <1>4 DEF UndoLike, p

LEMMA RunsTail ==
    ASSUME NEW q, RunsLike(q), q # << >>
    PROVE  /\ RunsLike(Tail(q)) /\ q \in Seq(Roles)
           /\ Len(q) \in 1..13 /\ Len(Tail(q)) = Len(q) - 1
           /\ Head(q) = 14 - Len(q) /\ Head(q) \in Roles
<1>1. /\ q \in Seq(Roles) /\ Len(q) \in Nat \ {0} /\ Head(q) = q[1] /\ q[1] \in Roles
      /\ Tail(q) \in Seq(Roles) /\ Len(Tail(q)) = Len(q) - 1
      /\ \A i \in 1..(Len(q) - 1) : Tail(q)[i] = q[i + 1]
  BY TailIs DEF RunsLike
<1>2. q[1] = 14 - Len(q)
  BY <1>1 DEF RunsLike
<1>3. \A i \in 1..Len(Tail(q)) : Tail(q)[i] = 13 - Len(Tail(q)) + i
  BY <1>1 DEF RunsLike
<1>4. Len(q) \in 1..13
  <2>1. \A n \in Nat \ {0} : n <= 13 => n \in 1..13
    OBVIOUS
  <2>2. QED BY <1>1, <2>1 DEF RunsLike
<1>5. Len(Tail(q)) <= 13
  <2>1. \A n \in 1..13 : n - 1 <= 13
    OBVIOUS
  <2>2. QED BY <1>1, <1>4, <2>1
<1>6. RunsLike(Tail(q))
  BY <1>1, <1>3, <1>5 DEF RunsLike
<1>7. QED BY <1>1, <1>2, <1>4, <1>6

LEMMA RolesFromIs ==
    ASSUME NEW t \in 1..14
    PROVE  RunsLike(RolesFrom(t)) /\ Len(RolesFrom(t)) = 14 - t
<1>1. \A k \in 1..(14 - t) : t + k - 1 \in Roles
  BY DEF Roles
<1>2. RolesFrom(t) \in Seq(Roles) /\ Len(RolesFrom(t)) = 14 - t
  BY <1>1 DEF RolesFrom
<1>3. QED BY <1>2 DEF RunsLike, RolesFrom

LEMMA InitsIs ==
    /\ Inits \in Seq(InitOps) /\ Len(Inits) = 10
    /\ Inits[1] = "db" /\ Inits[2] = "spam" /\ Inits[3] = "match"
    /\ Inits[4] = "keywords" /\ Inits[5] = "kill" /\ Inits[6] = "log"
    /\ Inits[7] = "monitor" /\ Inits[8] = "mailpool" /\ Inits[9] = "webmail"
    /\ Inits[10] = "noweb"
BY DEF Inits, InitOps, Resources

LEMMA InitsBegin == InitsLike(Inits) /\ Inits # << >> /\ \A r \in Resources : In(r, Inits)
<1>1. InitsLike(Inits) /\ Inits # << >>
  BY InitsIs DEF InitsLike
<1>2. \A r \in Resources : In(r, Inits)
  BY InitsIs DEF In, Resources
<1>3. QED BY <1>1, <1>2

\* What is left of Inits begins behind what was initialised.
LEMMA InitsTail ==
    ASSUME NEW q, InitsLike(q), q # << >>
    PROVE  /\ InitsLike(Tail(q)) /\ Head(q) \in InitOps
           /\ Len(q) \in 1..10 /\ Head(q) = Inits[11 - Len(q)]
           /\ \A x : In(x, q) <=> \E j \in (11 - Len(q))..10 : Inits[j] = x
           /\ \A x : In(x, Tail(q)) <=> \E j \in (12 - Len(q))..10 : Inits[j] = x
<1>1. /\ q \in Seq(InitOps) /\ Len(q) \in Nat \ {0} /\ Head(q) = q[1] /\ q[1] \in InitOps
      /\ Tail(q) \in Seq(InitOps) /\ Len(Tail(q)) = Len(q) - 1
      /\ \A i \in 1..(Len(q) - 1) : Tail(q)[i] = q[i + 1]
  BY TailIs DEF InitsLike
<1>2. Len(q) \in 1..10
  <2>1. \A n \in Nat \ {0} : n <= 10 => n \in 1..10
    OBVIOUS
  <2>2. QED BY <1>1, <2>1 DEF InitsLike
<1>3. \A i \in 1..Len(Tail(q)) : Tail(q)[i] = Inits[10 - Len(Tail(q)) + i]
  <2> TAKE i \in 1..Len(Tail(q))
  <2>1. i + 1 \in 1..Len(q) /\ Tail(q)[i] = q[i + 1]
    BY <1>1
  <2>2. q[i + 1] = Inits[10 - Len(q) + (i + 1)]
    BY <2>1 DEF InitsLike
  <2>3. 10 - Len(q) + (i + 1) = 10 - Len(Tail(q)) + i
    BY <1>1
  <2>4. QED BY <2>1, <2>2, <2>3
<1>4. InitsLike(Tail(q))
  BY <1>1, <1>2, <1>3 DEF InitsLike
<1>5. ASSUME NEW p, InitsLike(p), Len(p) \in 0..10, NEW x
      PROVE  In(x, p) <=> \E j \in (11 - Len(p))..10 : Inits[j] = x
  <2>1. ASSUME NEW j \in (11 - Len(p))..10, Inits[j] = x PROVE In(x, p)
    <3>1. j - 10 + Len(p) \in 1..Len(p) /\ 10 - Len(p) + (j - 10 + Len(p)) = j
      BY <1>5
    <3>2. p[j - 10 + Len(p)] = Inits[j]
      BY <3>1, <1>5 DEF InitsLike
    <3>3. QED BY <2>1, <3>1, <3>2 DEF In
  <2>2. ASSUME NEW i \in 1..Len(p), p[i] = x
        PROVE  \E j \in (11 - Len(p))..10 : Inits[j] = x
    <3>1. 10 - Len(p) + i \in (11 - Len(p))..10
      BY <1>5
    <3>2. QED BY <2>2, <3>1, <1>5 DEF InitsLike
  <2>3. QED BY <2>1, <2>2 DEF In
<1>6. q[1] = Inits[11 - Len(q)]
  <2>1. 10 - Len(q) + 1 = 11 - Len(q) /\ 1 \in 1..Len(q)
    BY <1>2
  <2>2. QED BY <2>1 DEF InitsLike
<1>7. \A x : In(x, q) <=> \E j \in (11 - Len(q))..10 : Inits[j] = x
  BY <1>2, <1>5
<1>8. \A x : In(x, Tail(q)) <=> \E j \in (12 - Len(q))..10 : Inits[j] = x
  <2>0. \A n \in 1..10 : n - 1 \in 0..10 /\ 11 - (n - 1) = 12 - n
    OBVIOUS
  <2>1. Len(Tail(q)) \in 0..10 /\ 11 - Len(Tail(q)) = 12 - Len(q)
    BY <1>1, <1>2, <2>0
  <2>2. \A x : In(x, Tail(q)) <=> \E j \in (11 - Len(Tail(q)))..10 : Inits[j] = x
    BY <2>1, <1>4, <1>5
  <2>3. QED BY <2>1, <2>2
<1>9. QED BY <1>1, <1>2, <1>4, <1>6, <1>7, <1>8

LEMMA InitsStep ==
    ASSUME NEW q, InitsLike(q), q # << >>
    PROVE  /\ InitsLike(Tail(q)) /\ Head(q) \in InitOps
           /\ Head(q) # "keywords" => Head(q) \in Resources
           /\ \A x : In(x, q) <=> x = Head(q) \/ In(x, Tail(q))
           /\ ~In(Head(q), Tail(q))
           /\ Head(q) = "keywords" => ~In("match", q)
           /\ Head(q) = "match" => In("keywords", Tail(q))
<1>1. /\ InitsLike(Tail(q)) /\ Head(q) \in InitOps
      /\ Len(q) \in 1..10 /\ Head(q) = Inits[11 - Len(q)]
      /\ \A x : In(x, q) <=> \E j \in (11 - Len(q))..10 : Inits[j] = x
      /\ \A x : In(x, Tail(q)) <=> \E j \in (12 - Len(q))..10 : Inits[j] = x
  BY InitsTail
<1> PICK k : k = 11 - Len(q) /\ k \in 1..10 /\ 12 - Len(q) = k + 1
  <2>1. \A n \in 1..10 : 11 - n \in 1..10 /\ 12 - n = (11 - n) + 1
    OBVIOUS
  <2>2. QED BY <1>1, <2>1
<1>2. \A x : In(x, q) <=> x = Head(q) \/ In(x, Tail(q))
  <2>1. k..10 = {k} \cup (k + 1)..10
    OBVIOUS
  <2>2. QED BY <1>1, <2>1
<1>3. ~In(Head(q), Tail(q))
  <2>1. \A i, j \in 1..10 : Inits[i] = Inits[j] => i = j
    BY InitsIs
  <2>2. \A j \in (k + 1)..10 : j \in 1..10 /\ j # k
    OBVIOUS
  <2>3. ASSUME In(Head(q), Tail(q)) PROVE FALSE
    <3>1. PICK j \in (k + 1)..10 : Inits[j] = Inits[k]
      BY <1>1, <2>3
    <3>2. QED BY <2>1, <2>2, <3>1
  <2>4. QED BY <2>3
<1>4. Head(q) = "keywords" => ~In("match", q)
  <2>1. \A j \in 1..10 : (Inits[j] = "keywords" => j = 4) /\ (Inits[j] = "match" => j = 3)
    BY InitsIs
  <2>2. \A j \in k..10 : j \in 1..10 /\ j >= k
    OBVIOUS
  <2>3. ASSUME Head(q) = "keywords", In("match", q) PROVE FALSE
    <3>1. k = 4
      BY <1>1, <2>1, <2>3
    <3>2. PICK j \in k..10 : Inits[j] = "match"
      BY <1>1, <2>3
    <3>3. QED BY <2>1, <2>2, <3>1, <3>2
  <2>4. QED BY <2>3
<1>5. Head(q) = "match" => In("keywords", Tail(q))
  <2>1. \A j \in 1..10 : Inits[j] = "match" => j = 3
    BY InitsIs
  <2>2. k = 3 => 4 \in (k + 1)..10
    OBVIOUS
  <2>3. QED BY <1>1, <2>1, <2>2, InitsIs
<1>6. QED BY <1>1, <1>2, <1>3, <1>4, <1>5 DEF InitOps

-----------------------------------------------------------------------------
(* What server_stop and the error paths of server_start are composed of. *)

\* No thread is ended before the capture thread is.
EndsFirst(q) ==
    \A i \in 1..Len(q) : q[i].do = "cancel" /\ q[i].on = Capture =>
       \A j \in 1..(i - 1) : q[j].do = "release"
\* A part of a program that ends the threads of J and releases R, if A is
\* released behind it.
Piece(q, A, R, J) ==
    /\ q \in Seq(StopOps)
    /\ \A x : Pending("release", x, q) <=> x \in R
    /\ \A x : Pending("join", x, q) <=> x \in J
    /\ \A x : Pending("cancel", x, q) <=> x \in J
    /\ JoinsFirst(q, A) /\ Once(q) /\ EndsFirst(q)

\* q is s, of length m, and behind it t, of length n.
Joined(q, s, t, m, n) ==
    /\ Len(s) = m /\ Len(t) = n /\ Len(q) = m + n
    /\ \A i \in 1..m : i \in 1..(m + n) /\ q[i] = s[i]
    /\ \A i \in 1..n : m + i \in (m + 1)..(m + n) /\ q[m + i] = t[i]
    /\ \A i \in (m + 1)..(m + n) : i - m \in 1..n /\ q[i] = t[i - m]

LEMMA ConcatIs ==
    ASSUME NEW S, NEW s \in Seq(S), NEW t \in Seq(S)
    PROVE  s \o t \in Seq(S) /\ \E m, n \in Nat : Joined(s \o t, s, t, m, n)
<1>1. PICK m, n \in Nat : m = Len(s) /\ n = Len(t)
  BY LenProperties
<1>2. /\ s \o t \in Seq(S) /\ Len(s \o t) = m + n
      /\ \A i \in 1..(m + n) : (s \o t)[i] = IF i <= m THEN s[i] ELSE t[i - m]
  BY <1>1, ConcatProperties
<1>3. \A i \in 1..n : (m + i) - m = i /\ m + i \in 1..(m + n) /\ ~(m + i <= m)
  OBVIOUS
<1>4. \A i \in 1..m : i \in 1..(m + n) /\ i <= m
  OBVIOUS
<1>5. \A i \in (m + 1)..(m + n) : i \in 1..(m + n) /\ ~(i <= m) /\ i - m \in 1..n
  OBVIOUS
<1>6. \A i \in 1..n : m + i \in (m + 1)..(m + n) /\ (s \o t)[m + i] = t[i]
  BY <1>2, <1>3
<1>7. QED BY <1>1, <1>2, <1>4, <1>5, <1>6 DEF Joined

LEMMA ConcatPending ==
    ASSUME NEW S, NEW s \in Seq(S), NEW t \in Seq(S), NEW d, NEW x
    PROVE  Pending(d, x, s \o t) <=> Pending(d, x, s) \/ Pending(d, x, t)
<1>0. PICK m, n \in Nat : Joined(s \o t, s, t, m, n)
  BY ConcatIs
<1>1. /\ Len(s) = m /\ Len(t) = n /\ Len(s \o t) = m + n
      /\ \A i \in 1..m : i \in 1..(m + n) /\ (s \o t)[i] = s[i]
      /\ \A i \in 1..n : m + i \in (m + 1)..(m + n) /\ (s \o t)[m + i] = t[i]
      /\ \A i \in (m + 1)..(m + n) : i - m \in 1..n /\ (s \o t)[i] = t[i - m]
  BY <1>0 DEF Joined
<1>2. ASSUME Pending(d, x, s) PROVE Pending(d, x, s \o t)
  BY <1>1, <1>2 DEF Pending
<1>3. ASSUME Pending(d, x, t) PROVE Pending(d, x, s \o t)
  <2>1. PICK i \in 1..n : t[i].do = d /\ t[i].on = x
    BY <1>1, <1>3 DEF Pending
  <2>2. m + i \in 1..(m + n)
    OBVIOUS
  <2>3. QED BY <1>1, <2>1, <2>2 DEF Pending
<1>4. ASSUME Pending(d, x, s \o t) PROVE Pending(d, x, s) \/ Pending(d, x, t)
  <2>1. PICK i \in 1..(m + n) : (s \o t)[i].do = d /\ (s \o t)[i].on = x
    BY <1>1, <1>4 DEF Pending
  <2>2. CASE i \in 1..m
    BY <1>1, <2>1, <2>2 DEF Pending
  <2>3. CASE i \in (m + 1)..(m + n)
    BY <1>1, <2>1, <2>3 DEF Pending
  <2>4. QED BY <2>2, <2>3
<1>5. QED BY <1>2, <1>3, <1>4

LEMMA PieceConcat ==
    ASSUME NEW s, NEW t, NEW A, NEW B, NEW R1, NEW R2, NEW J1, NEW J2,
           Piece(s, A, R1, J1), Piece(t, B, R2, J2),
           A \subseteq B \cup R2, R1 \cap R2 = {}, J1 = {} \/ Capture \notin J2
    PROVE  Piece(s \o t, B, R1 \cup R2, J1 \cup J2)
<1> DEFINE q == s \o t
<1>1. s \in Seq(StopOps) /\ t \in Seq(StopOps)
  BY DEF Piece
<1>0. PICK m, n \in Nat : q \in Seq(StopOps) /\ Joined(q, s, t, m, n)
  BY <1>1, ConcatIs
<1>2. /\ q \in Seq(StopOps) /\ Len(s) = m /\ Len(t) = n /\ Len(q) = m + n
      /\ \A i \in 1..m : i \in 1..(m + n) /\ q[i] = s[i]
      /\ \A i \in 1..n : m + i \in (m + 1)..(m + n) /\ q[m + i] = t[i]
      /\ \A i \in (m + 1)..(m + n) : i - m \in 1..n /\ q[i] = t[i - m]
  BY <1>0 DEF Joined
<1>3. /\ \A x : Pending("release", x, q) <=> x \in R1 \cup R2
      /\ \A x : Pending("join", x, q) <=> x \in J1 \cup J2
      /\ \A x : Pending("cancel", x, q) <=> x \in J1 \cup J2
  BY <1>1, ConcatPending DEF Piece
<1> HIDE DEF q
<1>4. JoinsFirst(q, B)
  <2> SUFFICES ASSUME NEW i \in 1..(m + n), q[i].do = "join", NEW r \in Needs(q[i].on) \ B
               PROVE  \E j \in (i + 1)..(m + n) : q[j].do = "release" /\ q[j].on = r
    BY <1>2 DEF JoinsFirst
  <2>1. CASE i \in 1..m /\ r \in A
    <3>1. PICK k \in 1..n : t[k].do = "release" /\ t[k].on = r
      BY <1>2, <2>1 DEF Piece, Pending
    <3>2. m + k \in (i + 1)..(m + n)
      BY <2>1
    <3>3. QED BY <1>2, <3>1, <3>2
  <2>2. CASE i \in 1..m /\ r \notin A
    <3>1. q[i] = s[i]
      BY <1>2, <2>2
    <3>2. PICK j \in (i + 1)..m : s[j].do = "release" /\ s[j].on = r
      <4>1. JoinsFirst(s, A) /\ s[i].do = "join" /\ r \in Needs(s[i].on) \ A /\ Len(s) = m
        BY <1>2, <2>2, <3>1 DEF Piece
      <4>2. QED BY <2>2, <4>1 DEF JoinsFirst
    <3>3. j \in 1..m /\ j \in (i + 1)..(m + n)
      OBVIOUS
    <3>4. QED BY <1>2, <3>2, <3>3
  <2>3. CASE i \in (m + 1)..(m + n)
    <3>1. i - m \in 1..n /\ q[i] = t[i - m]
      BY <1>2, <2>3
    <3>2. PICK k \in (i - m + 1)..n : t[k].do = "release" /\ t[k].on = r
      <4>1. /\ JoinsFirst(t, B) /\ Len(t) = n
            /\ t[i - m].do = "join" /\ r \in Needs(t[i - m].on) \ B
        BY <1>2, <3>1 DEF Piece
      <4>2. QED BY <3>1, <4>1 DEF JoinsFirst
    <3>3. k \in 1..n /\ m + k \in (i + 1)..(m + n)
      BY <2>3
    <3>4. QED BY <1>2, <3>2, <3>3
  <2>4. QED BY <2>1, <2>2, <2>3
<1>5. Once(q)
  <2> SUFFICES ASSUME NEW i \in 1..(m + n), NEW j \in 1..(m + n),
                      q[i].do = "release" /\ q[j].do = "release" /\ q[i].on = q[j].on
               PROVE  i = j
    BY <1>2 DEF Once
  <2>1. \A k \in 1..m : q[k].do = "release" => q[k].on \in R1
    BY <1>2 DEF Piece, Pending
  <2>2. \A k \in (m + 1)..(m + n) : q[k].do = "release" => q[k].on \in R2
    BY <1>2 DEF Piece, Pending
  <2>3. CASE i \in 1..m /\ j \in 1..m
    BY <1>2, <2>3 DEF Piece, Once
  <2>4. CASE i \in (m + 1)..(m + n) /\ j \in (m + 1)..(m + n)
    <3>1. i - m = j - m
      BY <1>2, <2>4 DEF Piece, Once
    <3>2. QED BY <3>1
  <2>5. QED BY <2>1, <2>2, <2>3, <2>4
<1>6. EndsFirst(q)
  <2> SUFFICES ASSUME NEW i \in 1..(m + n), q[i].do = "cancel" /\ q[i].on = Capture,
                      NEW j \in 1..(i - 1)
               PROVE  q[j].do = "release"
    BY <1>2 DEF EndsFirst
  <2>1. CASE i \in 1..m
    <3>1. j \in 1..m
      BY <2>1
    <3>2. QED BY <1>2, <2>1, <3>1 DEF Piece, EndsFirst
  <2>2. CASE i \in (m + 1)..(m + n)
    <3>1. Capture \in J2
      BY <1>2, <2>2 DEF Piece, Pending
    <3>2. CASE j \in 1..m
      <4>1. s[j] \in StopOps /\ q[j] = s[j]
        BY <1>1, <1>2, <3>2, ElementOfSeq
      <4>2. ~Pending("join", s[j].on, s) /\ ~Pending("cancel", s[j].on, s)
        BY <3>1 DEF Piece
      <4>3. s[j].do # "join" /\ s[j].do # "cancel"
        BY <1>2, <3>2, <4>2 DEF Pending
      <4>4. QED BY <4>1, <4>3 DEF StopOps, UndoOps
    <3>3. CASE j \in (m + 1)..(m + n)
      <4>1. i - m \in 1..n /\ j - m \in 1..((i - m) - 1) /\ j - m \in 1..n
        BY <2>2, <3>3
      <4>2. QED BY <1>2, <2>2, <3>3, <4>1 DEF Piece, EndsFirst
    <3>4. QED BY <3>2, <3>3, <2>2
  <2>3. QED BY <2>1, <2>2
<1>7. QED BY <1>2, <1>3, <1>4, <1>5, <1>6 DEF Piece, q

LEMMA PieceThen ==
    ASSUME NEW s, NEW t, NEW A, NEW A0, NEW B, NEW R1, NEW R2, NEW J1, NEW J2, NEW R, NEW J,
           Piece(s, A, R1, J1), Piece(t, A0, R2, J2),
           A0 \subseteq B, A \subseteq B \cup R2, R1 \cap R2 = {},
           J1 = {} \/ Capture \notin J2, R = R1 \cup R2, J = J1 \cup J2
    PROVE  Piece(s \o t, B, R, J)
<1>1. Piece(t, B, R2, J2)
  BY DEF Piece, JoinsFirst
<1>2. QED BY <1>1, PieceConcat

LEMMA ReleaseIs ==
    ASSUME NEW r \in Resources
    PROVE  Piece(Release(r), {}, {r}, {})
BY DEF Release, Piece, StopOps, UndoOps, Pending, JoinsFirst, Once, EndsFirst

LEMMA EndIs ==
    ASSUME NEW t \in Roles
    PROVE  Piece(End(t), Needs(t), {}, {t})
<1> DEFINE e == End(t)
<1>1. /\ e \in Seq(StopOps) /\ Len(e) = 2
      /\ e[1].do = "cancel" /\ e[1].on = t /\ e[2].do = "join" /\ e[2].on = t
  BY DEF End, StopOps
<1> HIDE DEF e
<1>2. \A i \in 1..Len(e) : i = 1 \/ i = 2
  BY <1>1
<1>3. JoinsFirst(e, Needs(t)) /\ Once(e)
  BY <1>1, <1>2 DEF JoinsFirst, Once
<1>4. EndsFirst(e)
  BY <1>1, <1>2 DEF EndsFirst
<1>5. /\ \A x : ~Pending("release", x, e)
      /\ \A x : Pending("join", x, e) <=> x = t
      /\ \A x : Pending("cancel", x, e) <=> x = t
  BY <1>1, <1>2 DEF Pending
<1>6. QED BY <1>1, <1>3, <1>4, <1>5 DEF Piece, e

LEMMA NeedsAre ==
    /\ Needs(Capture) = {"webmail", "noweb"}
    /\ Needs(Web) = {"webmail", "mailpool", "match", "kill", "monitor", "log"}
    /\ Needs(NoWeb) = {"noweb", "mailpool", "match", "kill", "monitor", "log"}
    /\ \A t \in 4..5 : Needs(t) = {"monitor", "log", "match", "spam"}
    /\ \A t \in LogRoles : Needs(t) = {"log"}
BY DEF Needs, Uses, ReleasedEarly, Capture, Web, NoWeb, LogRoles

LEMMA LogStopIs == Piece(LogStop, {}, {"log"}, LogRoles)
<1> DEFINE L == {"log"}
<1>1. ASSUME NEW t \in 6..13 PROVE Piece(End(t), L, {}, {t})
  <2>1. t \in Roles /\ Needs(t) = L
    BY NeedsAre DEF Roles, LogRoles
  <2>2. Piece(End(t), Needs(t), {}, {t})
    BY <2>1, EndIs
  <2>3. QED BY <2>1, <2>2
<1>2. Piece(End(6) \o End(7), L, {}, 6..7)
  BY <1>1, PieceThen DEF Capture
<1>3. Piece(End(6) \o End(7) \o End(8),
            L, {}, 6..8)
  BY <1>1, <1>2, PieceThen DEF Capture
<1>4. Piece(End(6) \o End(7) \o End(8) \o End(9),
            L, {}, 6..9)
  BY <1>1, <1>3, PieceThen DEF Capture
<1>5. Piece(End(6) \o End(7) \o End(8) \o End(9) \o End(10),
            L, {}, 6..10)
  BY <1>1, <1>4, PieceThen DEF Capture
<1>6. Piece(End(6) \o End(7) \o End(8) \o End(9)
            \o End(10) \o End(11),
            L, {}, 6..11)
  BY <1>1, <1>5, PieceThen DEF Capture
<1>7. Piece(End(6) \o End(7) \o End(8) \o End(9)
            \o End(10) \o End(11) \o End(12),
            L, {}, 6..12)
  BY <1>1, <1>6, PieceThen DEF Capture
<1>8. Piece(End(6) \o End(7) \o End(8) \o End(9)
            \o End(10) \o End(11) \o End(12) \o End(13),
            L, {}, 6..13)
  BY <1>1, <1>7, PieceThen DEF Capture
<1>9. Piece(Release("log"), {}, {"log"}, {})
  BY ReleaseIs DEF Resources
<1>10. Piece(End(6) \o End(7) \o End(8) \o End(9)
             \o End(10) \o End(11) \o End(12) \o End(13)
             \o Release("log"), {}, {"log"}, LogRoles)
  BY <1>8, <1>9, PieceThen DEF LogRoles
<1>11. QED BY <1>10 DEF LogStop, Log

LEMMA MonitorStopIs == Piece(MonitorStop, {"log", "match", "spam"}, {"monitor"}, {4, 5})
<1> DEFINE N == {"monitor", "log", "match", "spam"}
<1>1. ASSUME NEW t \in 4..5 PROVE Piece(End(t), N, {}, {t})
  <2>1. t \in Roles /\ Needs(t) = N
    BY NeedsAre DEF Roles
  <2>2. Piece(End(t), Needs(t), {}, {t})
    BY <2>1, EndIs
  <2>3. QED BY <2>1, <2>2
<1>2. Piece(End(4) \o End(5), N, {}, {4, 5})
  BY <1>1, PieceThen DEF Capture
<1>3. Piece(Release("monitor"), {}, {"monitor"}, {})
  BY ReleaseIs DEF Resources
<1>4. Piece(End(4) \o End(5) \o Release("monitor"), {"log", "match", "spam"},
            {"monitor"}, {4, 5})
  BY <1>2, <1>3, PieceThen
<1>5. QED BY <1>4 DEF MonitorStop, Monitor

LEMMA AfterAnalyIs == Piece(AfterAnaly, {}, AfterReleases, AfterRoles)
<1>1. Piece(MonitorStop \o LogStop, {"match", "spam"}, {"monitor", "log"}, AfterRoles)
  <2>1. AfterRoles = {4, 5} \cup LogRoles /\ Capture \notin LogRoles
    BY DEF AfterRoles, Monitor, Log, LogRoles, Capture
  <2>2. QED BY <2>1, MonitorStopIs, LogStopIs, PieceThen
<1>2. \A r \in Resources : Piece(Release(r), {}, {r}, {})
  BY ReleaseIs
<1>3. Piece(MonitorStop \o LogStop \o Release("kill"), {"match", "spam"},
            {"monitor", "log", "kill"}, AfterRoles)
  BY <1>1, <1>2, PieceThen DEF Resources
<1>4. Piece(MonitorStop \o LogStop \o Release("kill") \o Release("match"), {"spam"},
            {"monitor", "log", "kill", "match"}, AfterRoles)
  BY <1>2, <1>3, PieceThen DEF Resources
<1>5. Piece(MonitorStop \o LogStop \o Release("kill") \o Release("match") \o Release("spam"),
            {}, {"monitor", "log", "kill", "match", "spam"}, AfterRoles)
  BY <1>2, <1>4, PieceThen DEF Resources
<1>6. QED BY <1>5 DEF AfterAnaly, AfterReleases

LEMMA AnalyStopIs ==
    Piece(AnalyStop, {"match", "kill", "monitor", "log"},
          {"webmail", "noweb", "mailpool"}, {Capture, Web, NoWeb})
<1> DEFINE B == {"match", "kill", "monitor", "log"}
<1>1. /\ Piece(End(Capture), {"webmail", "noweb"}, {}, {Capture})
      /\ Piece(End(Web), {"webmail", "mailpool"} \cup B, {}, {Web})
      /\ Piece(End(NoWeb), {"noweb", "mailpool"} \cup B, {}, {NoWeb})
  <2>1. Capture \in Roles /\ Web \in Roles /\ NoWeb \in Roles
    BY DEF Roles, Capture, Web, NoWeb
  <2>2. /\ Needs(Capture) = {"webmail", "noweb"}
        /\ Needs(Web) = {"webmail", "mailpool"} \cup B
        /\ Needs(NoWeb) = {"noweb", "mailpool"} \cup B
    BY NeedsAre
  <2>3. QED BY <2>1, <2>2, EndIs
<1>2. \A r \in Resources : Piece(Release(r), {}, {r}, {})
  BY ReleaseIs
<1>3. Piece(End(Capture) \o End(Web), {"webmail", "noweb", "mailpool"} \cup B, {}, {Capture, Web})
  BY <1>1, PieceThen DEF Capture, Web
<1>4. Piece(End(Capture) \o End(Web) \o Release("webmail"), {"noweb", "mailpool"} \cup B,
            {"webmail"}, {Capture, Web})
  BY <1>2, <1>3, PieceThen DEF Resources
<1>5. Piece(End(Capture) \o End(Web) \o Release("webmail") \o End(NoWeb),
            {"noweb", "mailpool"} \cup B, {"webmail"}, {Capture, Web, NoWeb})
  BY <1>1, <1>4, PieceThen DEF Capture, NoWeb
<1>6. Piece(End(Capture) \o End(Web) \o Release("webmail") \o End(NoWeb) \o Release("noweb"),
            {"mailpool"} \cup B, {"webmail", "noweb"}, {Capture, Web, NoWeb})
  BY <1>2, <1>5, PieceThen DEF Resources
<1>7. Piece(End(Capture) \o End(Web) \o Release("webmail") \o End(NoWeb) \o Release("noweb")
            \o Release("mailpool"), B, {"webmail", "noweb", "mailpool"}, {Capture, Web, NoWeb})
  BY <1>2, <1>6, PieceThen DEF Resources
<1>8. QED BY <1>7 DEF AnalyStop

\* server_stop ends every thread and releases everything, once; analy_stop ends
\* the capture thread first, and what it may skip is behind.
LEMMA StopIs ==
    /\ StopLike(StopProgram) /\ StopLike(AfterAnaly)
    /\ \A t \in Roles : Pending("join", t, StopProgram)
    /\ \A r \in Resources : Pending("release", r, StopProgram)
    /\ Pending("cancel", Capture, StopProgram)
    /\ \A x : Pending("join", x, AfterAnaly) <=> x \in AfterRoles
    /\ \A x : Pending("release", x, AfterAnaly) <=> x \in AfterReleases
    /\ ~Pending("cancel", Capture, AfterAnaly)
<1> DEFINE s == Release("db") \o AnalyStop
           t == AfterAnaly
           F == {"webmail", "noweb", "mailpool"}
           T == {Capture, Web, NoWeb}
<1>1. Piece(s, {"match", "kill", "monitor", "log"}, {"db"} \cup F, T)
  <2>1. Piece(Release("db"), {}, {"db"}, {})
    BY ReleaseIs DEF Resources
  <2>2. QED BY <2>1, AnalyStopIs, PieceThen
<1>2. Piece(t, {}, AfterReleases, AfterRoles)
  BY AfterAnalyIs
<1>3. Capture \notin AfterRoles
  BY DEF Capture, AfterRoles, Monitor
<1>4. Piece(s \o t, {}, {"db"} \cup F \cup AfterReleases, T \cup AfterRoles)
  BY <1>1, <1>2, <1>3, PieceThen DEF AfterReleases
<1>5. s \o t = StopProgram
  BY DEF StopProgram
<1>6. Roles = T \cup AfterRoles /\ Resources = {"db"} \cup F \cup AfterReleases /\ Capture \in T
  BY DEF Roles, AfterRoles, Resources, AfterReleases, Capture, Web, NoWeb, Monitor, Log
<1> HIDE DEF s, t
<1>7. CaptureFirst(s \o t)
  <2>1. s \in Seq(StopOps) /\ t \in Seq(StopOps)
    BY <1>1, <1>2 DEF Piece
  <2>2. PICK m, n \in Nat : Joined(s \o t, s, t, m, n)
    BY <2>1, ConcatIs
  <2>3. ASSUME NEW i \in 1..Len(s \o t),
               (s \o t)[i].do = "cancel" /\ (s \o t)[i].on = Capture
        PROVE  i \in 1..m
    <3>1. \A k \in 1..n : ~(t[k].do = "cancel" /\ t[k].on = Capture)
      BY <1>2, <1>3, <2>2 DEF Piece, Pending, Joined
    <3>2. i \in (m + 1)..(m + n) => FALSE
      BY <2>2, <2>3, <3>1 DEF Joined
    <3>3. QED BY <2>2, <3>2 DEF Joined
  <2>4. ASSUME NEW d, NEW x, Pending(d, x, t), NEW i \in 1..m
        PROVE  \E j \in (i + 1)..Len(s \o t) : (s \o t)[j].do = d /\ (s \o t)[j].on = x
    <3>1. PICK k \in 1..n : t[k].do = d /\ t[k].on = x
      BY <2>2, <2>4 DEF Pending, Joined
    <3>2. m + k \in (i + 1)..(m + n)
      OBVIOUS
    <3>3. QED BY <2>2, <3>1, <3>2 DEF Joined
  <2>5. EndsFirst(s \o t)
    BY <1>4 DEF Piece
  <2>6. /\ \A x \in AfterRoles : Pending("join", x, t)
        /\ \A x \in AfterReleases : Pending("release", x, t)
    BY <1>2 DEF Piece
  <2>7. ASSUME NEW i \in 1..Len(s \o t),
               (s \o t)[i].do = "cancel" /\ (s \o t)[i].on = Capture
        PROVE  /\ \A j \in 1..(i - 1) : (s \o t)[j].do = "release"
               /\ \A x \in AfterRoles :
                     \E j \in (i + 1)..Len(s \o t) : (s \o t)[j].do = "join" /\ (s \o t)[j].on = x
               /\ \A x \in AfterReleases :
                     \E j \in (i + 1)..Len(s \o t) :
                        (s \o t)[j].do = "release" /\ (s \o t)[j].on = x
    <3>1. i \in 1..m
      BY <2>3, <2>7
    <3>2. \A j \in 1..(i - 1) : (s \o t)[j].do = "release"
      BY <2>5, <2>7 DEF EndsFirst
    <3>3. ASSUME NEW x \in AfterRoles
          PROVE  \E j \in (i + 1)..Len(s \o t) :
                    (s \o t)[j].do = "join" /\ (s \o t)[j].on = x
      BY <2>4, <2>6, <3>1
    <3>4. ASSUME NEW x \in AfterReleases
          PROVE  \E j \in (i + 1)..Len(s \o t) :
                    (s \o t)[j].do = "release" /\ (s \o t)[j].on = x
      BY <2>4, <2>6, <3>1
    <3>5. QED BY <3>2, <3>3, <3>4
  <2>8. QED BY <2>7 DEF CaptureFirst
<1>8. CaptureFirst(t) /\ ~Pending("cancel", Capture, t)
  <2>1. ~Pending("cancel", Capture, t)
    BY <1>2, <1>3 DEF Piece
  <2>2. QED BY <2>1 DEF CaptureFirst, Pending
<1>9. StopLike(s \o t) /\ StopLike(t)
  BY <1>2, <1>4, <1>7, <1>8 DEF Piece, StopLike
<1>10. /\ \A x \in Roles : Pending("join", x, s \o t)
       /\ \A x \in Resources : Pending("release", x, s \o t)
       /\ Pending("cancel", Capture, s \o t)
  BY <1>4, <1>6 DEF Piece
<1>11. /\ \A x : Pending("join", x, t) <=> x \in AfterRoles
       /\ \A x : Pending("release", x, t) <=> x \in AfterReleases
  BY <1>2 DEF Piece
<1>12. QED BY <1>5, <1>8, <1>9, <1>10, <1>11 DEF t

LEMMA PieceUndo ==
    ASSUME NEW q, NEW A, NEW R, Piece(q, A, R, {}), R \subseteq Resources
    PROVE  UndoLike(q) /\ \A x : Pending("release", x, q) <=> x \in R
<1>1. q \in Seq(StopOps)
  BY DEF Piece
<1>2. ASSUME NEW i \in 1..Len(q) PROVE q[i] \in UndoOps
  <2>1. q[i] \in StopOps
    BY <1>1, ElementOfSeq
  <2>2. q[i].do # "join" /\ q[i].do # "cancel"
    BY DEF Piece, Pending
  <2>3. QED BY <2>1, <2>2 DEF StopOps
<1>3. q \in Seq(UndoOps)
  BY <1>1, <1>2
<1>4. QED BY <1>3 DEF Piece, UndoLike

LEMMA UndoPieces ==
    /\ Piece(Release("match"), {}, {"match"}, {})
    /\ Piece(Release("match") \o Release("kill"), {}, {"match", "kill"}, {})
    /\ Piece(Release("match") \o Release("kill") \o Release("log"),
             {}, {"match", "kill", "log"}, {})
    /\ Piece(Release("match") \o Release("kill") \o Release("log") \o Release("monitor"),
             {}, {"match", "kill", "log", "monitor"}, {})
    /\ {"match", "kill", "log", "monitor"} \subseteq Resources
<1>1. \A r \in Resources : Piece(Release(r), {}, {r}, {})
  BY ReleaseIs
<1>2. Piece(Release("match") \o Release("kill"), {}, {"match", "kill"}, {})
  BY <1>1, PieceThen DEF Resources
<1>3. Piece(Release("match") \o Release("kill") \o Release("log"),
            {}, {"match", "kill", "log"}, {})
  BY <1>1, <1>2, PieceThen DEF Resources
<1>4. Piece(Release("match") \o Release("kill") \o Release("log") \o Release("monitor"),
            {}, {"match", "kill", "log", "monitor"}, {})
  BY <1>1, <1>3, PieceThen DEF Resources
<1>5. QED BY <1>1, <1>2, <1>3, <1>4 DEF Resources

\* server_start takes back what it initialised before, but for the database
\* session and the words.
LEMMA UndoIs ==
    ASSUME NEW q, InitsLike(q), q # << >>,
           Head(q) \in Resources \ {"mailpool", "webmail", "noweb"}
    PROVE  /\ UndoLike(Undo(Head(q)))
           /\ \A x \in Resources \ {"db", "spam"} :
                 ~In(x, q) <=> Pending("release", x, Undo(Head(q)))
           /\ \A x \in {"db", "spam"} : ~Pending("release", x, Undo(Head(q)))
<1>1. /\ Len(q) \in 1..10 /\ Head(q) = Inits[11 - Len(q)]
      /\ \A x : In(x, q) <=> \E j \in (11 - Len(q))..10 : Inits[j] = x
  BY InitsTail
<1> PICK k : k = 11 - Len(q) /\ k \in 1..10
  <2>1. \A n \in 1..10 : 11 - n \in 1..10
    OBVIOUS
  <2>2. QED BY <1>1, <2>1
<1> DEFINE u == Undo(Head(q))
<1>2. \A x : ~In(x, q) <=> \A j \in k..10 : Inits[j] # x
  BY <1>1
<1>9. k \in 1..10 /\ Head(q) = Inits[k]
  BY <1>1
<1>10. \A i \in 1..10 : /\ Inits[i] = "kill" => i = 5
                        /\ Inits[i] = "log" => i = 6
                        /\ Inits[i] = "monitor" => i = 7
  BY InitsIs
<1>3. CASE Head(q) \in {"db", "spam", "match"}
  <2>1. u = << >>
    BY <1>3 DEF Undo
  <2>2. k = 1 \/ k = 2 \/ k = 3
    <3>1. \A i \in 1..10 : Inits[i] \in {"db", "spam", "match"} => i = 1 \/ i = 2 \/ i = 3
      BY InitsIs
    <3>2. QED BY <1>1, <1>3, <3>1
  <2>3. \A x \in Resources \ {"db", "spam"} : In(x, q)
    BY <1>1, <2>2, InitsIs DEF Resources
  <2>4. UndoLike(<< >>) /\ \A x : ~Pending("release", x, << >>)
    BY DEF UndoLike, Once, Pending
  <2>5. QED BY <2>1, <2>3, <2>4
<1>4. CASE Head(q) = "kill"
  <2>1. Piece(u, {}, {"match"}, {})
    BY <1>4, UndoPieces DEF Undo
  <2>2. k = 5
    BY <1>4, <1>9, <1>10
  <2>3. \A x \in Resources \ {"db", "spam"} : ~In(x, q) <=> x = "match"
    BY <1>2, <2>2, InitsIs DEF Resources
  <2>4. UndoLike(u) /\ \A x : Pending("release", x, u) <=> x = "match"
    BY <2>1, UndoPieces, PieceUndo
  <2>5. QED BY <2>3, <2>4
<1>5. CASE Head(q) = "log"
  <2>1. Piece(u, {}, {"match", "kill"}, {})
    BY <1>5, UndoPieces DEF Undo
  <2>2. k = 6
    BY <1>5, <1>9, <1>10
  <2>3. \A x \in Resources \ {"db", "spam"} : ~In(x, q) <=> x \in {"match", "kill"}
    BY <1>2, <2>2, InitsIs DEF Resources
  <2>4. UndoLike(u) /\ \A x : Pending("release", x, u) <=> x \in {"match", "kill"}
    BY <2>1, UndoPieces, PieceUndo
  <2>5. QED BY <2>3, <2>4
<1>6. CASE Head(q) = "monitor"
  <2>1. Piece(u, {}, {"match", "kill", "log"}, {})
    BY <1>6, UndoPieces DEF Undo
  <2>2. k = 7
    BY <1>6, <1>9, <1>10
  <2>3. \A x \in Resources \ {"db", "spam"} : ~In(x, q) <=> x \in {"match", "kill", "log"}
    BY <1>2, <2>2, InitsIs DEF Resources
  <2>4. UndoLike(u) /\ \A x : Pending("release", x, u) <=> x \in {"match", "kill", "log"}
    BY <2>1, UndoPieces, PieceUndo
  <2>5. QED BY <2>3, <2>4
<1>7. Head(q) \in {"db", "spam", "match", "kill", "log", "monitor"}
  BY DEF Resources
<1>8. QED BY <1>3, <1>4, <1>5, <1>6, <1>7

LEMMA UndoAnalyIs == UndoLike(Undo("mailpool"))
BY UndoPieces, PieceUndo DEF Undo

LEMMA RebuildIs ==
    /\ Rebuild \in Seq(RebuildOps) /\ Len(Rebuild) = 5
    /\ Rebuild[1] = "new" /\ Rebuild[2] = "build" /\ Rebuild[3] = "load"
    /\ Rebuild[4] = "store" /\ Rebuild[5] = "destroy"
BY DEF Rebuild, RebuildOps

LEMMA RebuildTail ==
    ASSUME NEW q, RebuildLike(q), q # << >>
    PROVE  /\ RebuildLike(Tail(q)) /\ Len(q) \in 1..5 /\ Len(Tail(q)) = Len(q) - 1
           /\ Head(q) = "new" <=> Len(q) = 5
           /\ Head(q) = "build" <=> Len(q) = 4
           /\ Head(q) = "load" <=> Len(q) = 3
           /\ Head(q) = "store" <=> Len(q) = 2
           /\ Head(q) = "destroy" <=> Len(q) = 1
<1>1. /\ q \in Seq(RebuildOps) /\ Len(q) \in Nat \ {0} /\ Head(q) = q[1] /\ q[1] \in RebuildOps
      /\ Tail(q) \in Seq(RebuildOps) /\ Len(Tail(q)) = Len(q) - 1
      /\ \A i \in 1..(Len(q) - 1) : Tail(q)[i] = q[i + 1]
  BY TailIs DEF RebuildLike
<1>2. Len(q) \in 1..5
  <2>1. \A n \in Nat \ {0} : n <= 5 => n \in 1..5
    OBVIOUS
  <2>2. QED BY <1>1, <2>1 DEF RebuildLike
<1>3. q[1] = Rebuild[6 - Len(q)]
  <2>1. 5 - Len(q) + 1 = 6 - Len(q) /\ 1 \in 1..Len(q)
    BY <1>2
  <2>2. QED BY <2>1 DEF RebuildLike
<1>4. \A i \in 1..Len(Tail(q)) : Tail(q)[i] = Rebuild[5 - Len(Tail(q)) + i]
  <2> TAKE i \in 1..Len(Tail(q))
  <2>1. i + 1 \in 1..Len(q) /\ Tail(q)[i] = q[i + 1]
    BY <1>1
  <2>2. q[i + 1] = Rebuild[5 - Len(q) + (i + 1)]
    BY <2>1 DEF RebuildLike
  <2>3. 5 - Len(q) + (i + 1) = 5 - Len(Tail(q)) + i
    BY <1>1
  <2>4. QED BY <2>1, <2>2, <2>3
<1>5. RebuildLike(Tail(q))
  <2>1. \A n \in 1..5 : n - 1 <= 5
    OBVIOUS
  <2>2. QED BY <1>1, <1>2, <1>4, <2>1 DEF RebuildLike
<1>6. QED
  <2> PICK n \in 1..5 : n = Len(q)
    BY <1>2
  <2>1. Head(q) = Rebuild[6 - n]
    BY <1>1, <1>3
  <2>2. /\ Head(q) = "new" <=> n = 5
        /\ Head(q) = "build" <=> n = 4
        /\ Head(q) = "load" <=> n = 3
        /\ Head(q) = "store" <=> n = 2
        /\ Head(q) = "destroy" <=> n = 1
    <3>1. n = 1 \/ n = 2 \/ n = 3 \/ n = 4 \/ n = 5
      OBVIOUS
    <3>2. \A i \in 1..5 : i = n => Head(q) = Rebuild[6 - i]
      BY <2>1
    <3>3. /\ n = 1 => Head(q) = "destroy"
          /\ n = 2 => Head(q) = "store"
          /\ n = 3 => Head(q) = "load"
          /\ n = 4 => Head(q) = "build"
          /\ n = 5 => Head(q) = "new"
      BY <3>2, RebuildIs
    <3>4. QED BY <3>1, <3>3
  <2>3. QED BY <1>1, <1>2, <1>5, <2>2

LEMMA RebuildBegin == RebuildLike(Rebuild)
BY RebuildIs DEF RebuildLike

-----------------------------------------------------------------------------
(* Instances, threads and where their identifiers are kept. *)

LEMMA LeastIs ==
    ASSUME NEW S, S \subseteq Ids, S # {}
    PROVE  Least(S) \in S
<1>1. S \subseteq Nat
  BY IdsAssumption
<1>2. \E n \in S : \A m \in S : ~(<<m, n>> \in OpToRel(<, Nat))
  BY <1>1, NatLessThanWellFounded, WFMin
<1>3. PICK n \in S : \A m \in S : ~(<<m, n>> \in OpToRel(<, Nat))
  BY <1>2
<1>4. ASSUME NEW m \in S PROVE n <= m
  <2>1. ASSUME m < n PROVE <<m, n>> \in OpToRel(<, Nat)
    <3>1. <<m, n>> \in Nat \X Nat /\ <<m, n>>[1] = m /\ <<m, n>>[2] = n
      BY <1>1
    <3>2. QED BY <2>1, <3>1 DEF OpToRel
  <2>2. ~(m < n)
    BY <1>3, <2>1
  <2>3. QED BY <1>1, <2>2
<1>5. QED BY <1>4 DEF Least

LEMMA SlotIs ==
    /\ \A t \in Roles : Slot(t) \in 1..Outside
    /\ \A t, u \in Roles : Slot(t) = Slot(u) /\ t < u => t = Forgotten
    /\ Forgotten \in Roles /\ Capture \in Roles /\ Outside # Slot(Capture)
<1>1. /\ \A t \in 1..5 : Slot(t) = t
      /\ Slot(6) = 6 /\ Slot(7) = 7 /\ Slot(8) = 8 /\ Slot(9) = 9
      /\ Slot(10) = 9 /\ Slot(11) = 10 /\ Slot(12) = 11 /\ Slot(13) = 12
  BY DEF Slot, LogRoles
<1>2. QED BY <1>1 DEF Roles, Outside, Forgotten, Log, Capture

-----------------------------------------------------------------------------
(* Types. *)

Parts == {"idle", "init", "undo", "undo_analy", "run", "stop", "rebuild"}

\* Where a client is after a step of its program.
LEMMA GoIs ==
    ASSUME NEW c \in Clients, TypeOK, NEW part \in Parts, NEW rest, Go(c, part, rest)
    PROVE  /\ cmd'[c] = part /\ todo'[c] = rest
           /\ cmd' \in [Clients -> Parts] /\ DOMAIN todo' = Clients
BY DEF TypeOK, Go, Parts

\* The operation at the head of each part of a command.
LEMMA OpIs ==
    ASSUME NEW c, ProgramInv(c), todo[c] # << >>
    PROVE  /\ cmd[c] = "init" => Op(c) \in InitOps
           /\ cmd[c] = "run" => Op(c) \in Roles
           /\ cmd[c] = "stop" => Op(c) \in StopOps
           /\ cmd[c] \in {"undo", "undo_analy"} => Op(c) \in UndoOps
<1>1. cmd[c] = "init" => Op(c) \in InitOps
  BY InitsTail DEF ProgramInv, Op
<1>2. cmd[c] = "run" => Op(c) \in Roles
  BY RunsTail DEF ProgramInv, Op
<1>3. cmd[c] = "stop" => Op(c) \in StopOps
  BY StopTail DEF ProgramInv, Op
<1>4. cmd[c] \in {"undo", "undo_analy"} => Op(c) \in UndoOps
  BY UndoTail DEF ProgramInv, Op
<1>5. QED BY <1>1, <1>2, <1>3, <1>4

\* A release, a cancellation and a join.
LEMMA DoingIs ==
    ASSUME NEW c, ProgramInv(c), NEW what, Doing(c, what)
    PROVE  /\ up /\ todo[c] # << >> /\ cmd[c] \in {"stop", "undo", "undo_analy"}
           /\ Op(c) = Head(todo[c]) /\ Op(c).do = what
           /\ what = "release" => Op(c).on \in Resources
           /\ what \in {"cancel", "join"} => cmd[c] = "stop" /\ Op(c).on \in Roles
BY OpIs DEF Doing, At, Op, StopOps, UndoOps

LEMMA CreateIs ==
    ASSUME TypeOK, NEW r \in Resources, live[r] # Ids, Create(r)
    PROVE  \E n \in Ids \ live[r] :
              /\ cur' = [cur EXCEPT ![r] = n] /\ live' = [live EXCEPT ![r] = @ \cup {n}]
              /\ cur' \in [Resources -> Ids \cup {0}] /\ live' \in [Resources -> SUBSET Ids]
<1>1. Ids \ live[r] # {}
  BY DEF TypeOK
<1>2. Least(Ids \ live[r]) \in Ids \ live[r]
  BY <1>1, LeastIs
<1>3. PICK n \in Ids \ live[r] :
         cur' = [cur EXCEPT ![r] = n] /\ live' = [live EXCEPT ![r] = @ \cup {n}]
  BY <1>2 DEF Create
<1>4. cur' \in [Resources -> Ids \cup {0}]
  BY <1>3 DEF TypeOK
<1>5. live' \in [Resources -> SUBSET Ids]
  BY <1>3 DEF TypeOK
<1>6. QED BY <1>3, <1>4, <1>5

LEMMA NewThread ==
    ASSUME NEW t \in Roles, FreeIds(t) # {}
    PROVE  <<t, Least(FreeIds(t))>> \in Threads \ (running \cup ended)
<1>1. Least(FreeIds(t)) \in FreeIds(t)
  BY LeastIs DEF FreeIds
<1>2. QED BY <1>1 DEF FreeIds, Threads

LEMMA FreeType ==
    ASSUME TypeOK, NEW r \in Resources, NEW n, Free(r, n)
    PROVE  /\ up' \in BOOLEAN /\ live' \in [Resources -> SUBSET Ids]
           /\ built' \subseteq live'["match"]
<1>1. CASE n \in live[r]
  BY <1>1 DEF Free, TypeOK, Resources
<1>2. CASE n \notin live[r]
  BY <1>2 DEF Free, Misuse, TypeOK
<1>3. QED BY <1>1, <1>2

LEMMA TypeStep ==
    ASSUME NEW c, Clients = {c}, TypeOK, ProgramInv(c), [Next]_vars
    PROVE  TypeOK'
<1> USE DEF Parts
<1>0. c \in Clients /\ cmd[c] \in Parts
  BY DEF TypeOK
<1>1. CASE Start(c) \/ Stop(c) \/ Reload(c)
  BY <1>0, <1>1 DEF Start, Stop, Reload, Begin, TypeOK, resVars, threadVars
<1>2. CASE Finish(c)
  <2>1. isboot' \in {0, 1}
    BY <1>2 DEF Finish, TypeOK
  <2>2. cmd' \in [Clients -> Parts] /\ DOMAIN todo' = Clients
    BY <1>0, <1>2, GoIs DEF Finish
  <2>3. QED BY <1>2, <2>1, <2>2 DEF Finish, TypeOK, resVars, threadVars
<1>3. CASE InitOk(c)
  <2>1. Op(c) \in Resources
    BY <1>3, OpIs DEF InitOk, At, InitOps
  <2>2. PICK n \in Ids \ live[Op(c)] :
              /\ cur' = [cur EXCEPT ![Op(c)] = n]
              /\ live' = [live EXCEPT ![Op(c)] = @ \cup {n}]
              /\ cur' \in [Resources -> Ids \cup {0}] /\ live' \in [Resources -> SUBSET Ids]
    BY <1>3, <2>1, CreateIs DEF InitOk
  <2>3. cmd' \in [Clients -> Parts] /\ DOMAIN todo' = Clients
    BY <1>0, <1>3, GoIs DEF InitOk, Step
  <2>4. live["match"] \subseteq live'["match"]
    BY <2>2 DEF TypeOK, Resources
  <2>5. QED BY <1>3, <2>2, <2>3, <2>4 DEF InitOk, TypeOK, threadVars
<1>4. CASE Keywords(c)
  <2>1. cmd' \in [Clients -> Parts] /\ DOMAIN todo' = Clients
    BY <1>0, <1>4, GoIs DEF Keywords, Step
  <2>2. QED BY <1>4, <2>1 DEF Keywords, TypeOK, threadVars
<1>5. CASE InitFails(c)
  <2>1. Op(c) \in Resources
    BY <1>5, OpIs DEF InitFails, At, InitOps
  <2>2. /\ cur' \in [Resources -> Ids \cup {0}] /\ live' \in [Resources -> SUBSET Ids]
        /\ live["match"] \subseteq live'["match"]
    <3>1. CASE UNCHANGED <<cur, live>>
      BY <3>1 DEF TypeOK
    <3>2. CASE live[Op(c)] # Ids /\ Create(Op(c))
      <4>1. PICK n \in Ids \ live[Op(c)] :
              /\ cur' = [cur EXCEPT ![Op(c)] = n]
              /\ live' = [live EXCEPT ![Op(c)] = @ \cup {n}]
              /\ cur' \in [Resources -> Ids \cup {0}] /\ live' \in [Resources -> SUBSET Ids]
        BY <2>1, <3>2, CreateIs
      <4>2. QED BY <4>1 DEF TypeOK, Resources
    <3>3. QED BY <1>5, <3>1, <3>2 DEF InitFails
  <2>3. cmd' \in [Clients -> Parts] /\ DOMAIN todo' = Clients
    BY <1>0, <1>5, GoIs DEF InitFails, Step
  <2>4. QED BY <1>5, <2>2, <2>3 DEF InitFails, TypeOK, threadVars
<1>6. CASE RunOk(c)
  <2>1. Op(c) \in Roles /\ Slot(Op(c)) \in 1..Outside
    BY <1>6, OpIs, SlotIs DEF RunOk, At
  <2>2. <<Op(c), Least(FreeIds(Op(c)))>> \in Threads \ (running \cup ended)
    BY <1>6, <2>1, NewThread DEF RunOk
  <2>3. cmd' \in [Clients -> Parts] /\ DOMAIN todo' = Clients
    BY <1>0, <1>6, GoIs DEF RunOk, Step
  <2>4. cur' \in [Resources -> Ids \cup {0}]
    BY <1>6 DEF RunOk, TypeOK
  <2>5. /\ running' \subseteq Threads /\ ended' \subseteq Threads \ running'
        /\ cancelled' \subseteq running' /\ tid' \in [1..Outside -> Threads \cup {NoThread}]
    BY <1>6, <2>1, <2>2 DEF RunOk, TypeOK
  <2>6. QED BY <1>6, <2>3, <2>4, <2>5 DEF RunOk, TypeOK
<1>7. CASE RunFails(c)
  <2>1. cmd' \in [Clients -> Parts] /\ DOMAIN todo' = Clients
    BY <1>0, <1>7, GoIs DEF RunFails
  <2>2. QED BY <1>7, <2>1 DEF RunFails, TypeOK, resVars, threadVars
<1>8. CASE ReleaseStep(c)
  <2>1. Op(c).on \in Resources
    BY <1>8, DoingIs DEF ReleaseStep
  <2>2. cmd' \in [Clients -> Parts] /\ DOMAIN todo' = Clients
    BY <1>0, <1>8, GoIs DEF ReleaseStep, Step
  <2>3. /\ up' \in BOOLEAN /\ live' \in [Resources -> SUBSET Ids]
        /\ built' \subseteq live'["match"]
    BY <1>8, <2>1, FreeType DEF ReleaseStep
  <2>4. QED BY <1>8, <2>2, <2>3 DEF ReleaseStep, TypeOK, threadVars
<1>9. CASE SpamNotSaved(c)
  <2>1. cmd' \in [Clients -> Parts] /\ DOMAIN todo' = Clients
    BY <1>0, <1>9, GoIs DEF SpamNotSaved, Step
  <2>2. QED BY <1>9, <2>1 DEF SpamNotSaved, TypeOK, resVars, threadVars
<1>10. CASE CancelStep(c)
  <2>1. cmd' \in [Clients -> Parts] /\ DOMAIN todo' = Clients
    BY <1>0, <1>10, GoIs DEF CancelStep, Step
  <2>2. cancelled' \subseteq running
    BY <1>10 DEF CancelStep, TypeOK
  <2>3. QED BY <1>10, <2>1, <2>2 DEF CancelStep, TypeOK, resVars
<1>11. CASE CancelEnded(c)
  <2>1. cmd' \in [Clients -> Parts] /\ DOMAIN todo' = Clients
    BY <1>0, <1>11, GoIs DEF CancelEnded, Step
  <2>2. up' \in BOOLEAN
    BY <1>11 DEF CancelEnded, Misuse, TypeOK
  <2>3. QED BY <1>11, <2>1, <2>2 DEF CancelEnded, TypeOK, resVars, threadVars
<1>12. CASE JoinStep(c)
  <2>1. cmd' \in [Clients -> Parts] /\ DOMAIN todo' = Clients
    BY <1>0, <1>12, GoIs DEF JoinStep, Step
  <2>2. up' \in BOOLEAN /\ ended' \subseteq ended
    BY <1>12 DEF JoinStep, Misuse, TypeOK
  <2>3. QED BY <1>12, <2>1, <2>2 DEF JoinStep, TypeOK, resVars
<1>13. CASE RebuildNew(c)
  <2>1. cmd' \in [Clients -> Parts] /\ DOMAIN todo' = Clients
    BY <1>0, <1>13, GoIs DEF RebuildNew, Step
  <2>2. CASE /\ live["match"] # Ids
             /\ spare' = [spare EXCEPT ![c] = Least(Ids \ live["match"])]
             /\ live' = [live EXCEPT !["match"] = @ \cup {spare'[c]}]
             /\ UNCHANGED up
    <3>1. Least(Ids \ live["match"]) \in Ids
      <4>1. Ids \ live["match"] # {}
        BY <2>2 DEF TypeOK, Resources
      <4>2. QED BY <4>1, LeastIs
    <3>2. spare' \in [Clients -> Ids \cup {0}] /\ spare'[c] \in Ids
      BY <1>0, <2>2, <3>1 DEF TypeOK
    <3>3. live' \in [Resources -> SUBSET Ids] /\ live["match"] \subseteq live'["match"]
      BY <2>2, <3>2 DEF TypeOK, Resources
    <3>4. QED BY <1>13, <2>1, <2>2, <3>2, <3>3 DEF RebuildNew, TypeOK, threadVars
  <2>3. CASE up' = FALSE /\ UNCHANGED <<spare, live>>
    BY <1>13, <2>1, <2>3 DEF RebuildNew, TypeOK, threadVars
  <2>4. QED BY <1>13, <2>2, <2>3 DEF RebuildNew
<1>14. CASE RebuildBuild(c)
  <2>1. cmd' \in [Clients -> Parts] /\ DOMAIN todo' = Clients
    BY <1>0, <1>14, GoIs DEF RebuildBuild, Step
  <2>2. QED BY <1>14, <2>1 DEF RebuildBuild, TypeOK, threadVars
<1>15. CASE RebuildLoad(c)
  <2>1. cmd' \in [Clients -> Parts] /\ DOMAIN todo' = Clients
    BY <1>0, <1>15, GoIs DEF RebuildLoad, Step
  <2>2. QED BY <1>15, <2>1 DEF RebuildLoad, TypeOK, resVars, threadVars, Resources
<1>16. CASE RebuildStore(c)
  <2>1. cmd' \in [Clients -> Parts] /\ DOMAIN todo' = Clients
    BY <1>0, <1>16, GoIs DEF RebuildStore, Step
  <2>2. QED BY <1>0, <1>16, <2>1 DEF RebuildStore, TypeOK, threadVars
<1>17. CASE RebuildDestroy(c)
  <2>1. cmd' \in [Clients -> Parts] /\ DOMAIN todo' = Clients
    BY <1>0, <1>17, GoIs DEF RebuildDestroy, Step
  <2>2. /\ up' \in BOOLEAN /\ live' \in [Resources -> SUBSET Ids]
        /\ built' \subseteq live'["match"]
    BY <1>17, FreeType DEF RebuildDestroy, Resources
  <2>3. spare' \in [Clients -> Ids \cup {0}] /\ old' \in [Clients -> Ids \cup {0}]
    BY <1>17 DEF RebuildDestroy, TypeOK
  <2>4. QED BY <1>17, <2>1, <2>2, <2>3 DEF RebuildDestroy, TypeOK, threadVars
<1>18. CASE \E t \in running : Cancelled(t) \/ CaptureEnds(t)
  <2>1. PICK t \in running : Exit(t)
    BY <1>18 DEF Cancelled, CaptureEnds
  <2>2. QED BY <2>1 DEF Exit, TypeOK, resVars
<1>19. CASE UNCHANGED vars
  BY <1>19 DEF vars, TypeOK, resVars, threadVars
<1>20. QED
  BY <1>1, <1>2, <1>3, <1>4, <1>5, <1>6, <1>7, <1>8, <1>9, <1>10, <1>11, <1>12, <1>13,
     <1>14, <1>15, <1>16, <1>17, <1>18, <1>19 DEF Next, Command, Operation, Quiet

-----------------------------------------------------------------------------
(* The program of a command. *)

LEMMA Program ==
    ASSUME NEW c \in Clients, TypeOK, ProgramInv(c), NEW part \in Parts, NEW rest,
           Go(c, part, rest),
           /\ part = "idle" => rest = << >>
           /\ part = "init" => InitsLike(rest)
           /\ part = "run" => RunsLike(rest)
           /\ part = "rebuild" => RebuildLike(rest)
           /\ part = "stop" => StopLike(rest)
           /\ part \in {"undo", "undo_analy"} => UndoLike(rest)
    PROVE  ProgramInv(c)' /\ cmd'[c] = part /\ todo'[c] = rest
BY GoIs DEF ProgramInv

LEMMA ProgramStep ==
    ASSUME NEW c \in Clients, TypeOK, ProgramInv(c), todo[c] # << >>, cmd[c] # "idle", Step(c)
    PROVE  ProgramInv(c)' /\ cmd'[c] = cmd[c] /\ todo'[c] = Tail(todo[c])
<1>1. cmd[c] \in Parts
  BY DEF TypeOK, Parts
<1>2. /\ cmd[c] = "init" => InitsLike(Tail(todo[c]))
      /\ cmd[c] = "run" => RunsLike(Tail(todo[c]))
      /\ cmd[c] = "rebuild" => RebuildLike(Tail(todo[c]))
      /\ cmd[c] = "stop" => StopLike(Tail(todo[c]))
      /\ cmd[c] \in {"undo", "undo_analy"} => UndoLike(Tail(todo[c]))
  BY InitsTail, RunsTail, RebuildTail, StopTail, UndoTail DEF ProgramInv
<1>3. QED BY <1>1, <1>2, Program DEF Step

\* What each action does to the program of the client.
LEMMA InitFailsProgram ==
    ASSUME NEW c \in Clients, TypeOK, ProgramInv(c), InitFails(c)
    PROVE  /\ ProgramInv(c)' /\ Op(c) \in Resources /\ cmd[c] = "init" /\ todo[c] # << >>
           /\ InitsLike(todo[c])
           /\ \/ Op(c) \in Unchecked /\ cmd'[c] = "init" /\ todo'[c] = Tail(todo[c])
              \/ Op(c) = "mailpool" /\ cmd'[c] = "undo_analy"
              \/ /\ Op(c) \in Resources \ {"mailpool", "webmail", "noweb"}
                 /\ cmd'[c] = "undo" /\ todo'[c] = Undo(Head(todo[c]))
<1>1. Op(c) \in Resources /\ cmd[c] = "init" /\ todo[c] # << >> /\ InitsLike(todo[c])
  BY OpIs DEF InitFails, At, InitOps, ProgramInv
<1>2. CASE Op(c) \in Unchecked
  BY <1>1, <1>2, ProgramStep DEF InitFails
<1>3. CASE Op(c) = "mailpool"
  <2>1. Go(c, "undo_analy", Undo("mailpool"))
    BY <1>3 DEF InitFails, Unchecked
  <2>2. QED BY <1>1, <1>3, <2>1, UndoAnalyIs, Program DEF Parts
<1>4. CASE Op(c) \notin Unchecked \cup {"mailpool"}
  <2>1. Go(c, "undo", Undo(Op(c)))
    BY <1>4 DEF InitFails
  <2>2. UndoLike(Undo(Op(c)))
    BY <1>1, <1>4, UndoIs DEF Op, Unchecked
  <2>3. QED BY <1>1, <1>4, <2>1, <2>2, Program DEF Parts, Op, Unchecked
<1>5. QED BY <1>2, <1>3, <1>4

LEMMA RunFailsProgram ==
    ASSUME NEW c \in Clients, TypeOK, ProgramInv(c), RunFails(c)
    PROVE  /\ ProgramInv(c)' /\ cmd[c] = "run" /\ todo[c] # << >>
           /\ Len(todo[c]) \in 1..13 /\ Op(c) = 14 - Len(todo[c])
           /\ cmd'[c] = "run" /\ Len(todo'[c]) = 14 - After(Op(c))
           /\ After(Op(c)) \in (Op(c) + 1)..14 /\ Op(c) \in Roles
           /\ After(Op(c)) = 2 => FALSE
           /\ After(Op(c)) = 3 => Op(c) = 2
<1>1. /\ cmd[c] = "run" /\ todo[c] # << >> /\ RunsLike(todo[c])
      /\ Go(c, "run", RolesFrom(After(Op(c))))
  BY DEF RunFails, At, ProgramInv
<1>2. Len(todo[c]) \in 1..13 /\ Op(c) = 14 - Len(todo[c]) /\ Op(c) \in Roles
  BY <1>1, RunsTail DEF Op
<1>3. /\ After(Op(c)) \in (Op(c) + 1)..14
      /\ After(Op(c)) = 2 => FALSE
      /\ After(Op(c)) = 3 => Op(c) = 2
  <2>1. ASSUME NEW t \in Roles
        PROVE  After(t) \in (t + 1)..14 /\ After(t) # 2 /\ (After(t) = 3 => t = 2)
    BY DEF After, Roles, Capture, Web, NoWeb, Monitor, Log
  <2>2. QED BY <1>2, <2>1
<1>4. After(Op(c)) \in 1..14
  <2>1. \A t \in Roles : \A u \in (t + 1)..14 : u \in 1..14
    BY DEF Roles
  <2>2. QED BY <1>2, <1>3, <2>1
<1>5. RunsLike(RolesFrom(After(Op(c)))) /\ Len(RolesFrom(After(Op(c)))) = 14 - After(Op(c))
  BY <1>4, RolesFromIs
<1>6. ProgramInv(c)' /\ cmd'[c] = "run" /\ todo'[c] = RolesFrom(After(Op(c)))
  BY <1>1, <1>5, Program DEF Parts
<1>7. QED BY <1>1, <1>2, <1>3, <1>5, <1>6

LEMMA CancelEndedProgram ==
    ASSUME NEW c \in Clients, TypeOK, ProgramInv(c), CancelEnded(c)
    PROVE  /\ ProgramInv(c)' /\ cmd[c] = "stop" /\ cmd'[c] = "stop"
           /\ todo[c] # << >> /\ StopLike(todo[c])
           /\ Op(c) = Head(todo[c]) /\ Op(c).do = "cancel" /\ Op(c).on \in Roles
           /\ \/ todo'[c] = Tail(todo[c])
              \/ Op(c).on = Capture /\ todo'[c] = AfterAnaly
<1>1. /\ cmd[c] = "stop" /\ todo[c] # << >> /\ StopLike(todo[c])
      /\ Op(c) = Head(todo[c]) /\ Op(c).do = "cancel" /\ Op(c).on \in Roles
  BY DoingIs DEF CancelEnded, ProgramInv
<1>2. CASE Step(c)
  BY <1>1, <1>2, ProgramStep
<1>3. CASE Op(c).on = Capture /\ Go(c, "stop", AfterAnaly)
  BY <1>1, <1>3, StopIs, Program DEF Parts
<1>4. QED BY <1>1, <1>2, <1>3 DEF CancelEnded

LEMMA FinishProgram ==
    ASSUME NEW c \in Clients, TypeOK, ProgramInv(c), Finish(c)
    PROVE  /\ ProgramInv(c)' /\ up /\ todo[c] = << >> /\ cmd[c] # "idle"
           /\ IF cmd[c] \in {"init", "undo_analy"}
              THEN cmd'[c] = "run" /\ Len(todo'[c]) = 13 /\ isboot' = isboot
              ELSE /\ cmd'[c] = "idle" /\ todo'[c] = << >>
                   /\ isboot' = IF cmd[c] = "run" THEN 1 ELSE IF cmd[c] = "stop" THEN 0
                                ELSE isboot
<1>1. CASE cmd[c] \in {"init", "undo_analy"}
  <2>1. Go(c, "run", Runs) /\ isboot' = isboot
    BY <1>1 DEF Finish
  <2>2. RunsLike(Runs) /\ Len(Runs) = 13
    <3>1. Capture \in 1..14 /\ 14 - Capture = 13
      BY DEF Capture
    <3>2. QED BY <3>1, RolesFromIs DEF Runs
  <2>3. QED BY <1>1, <2>1, <2>2, Program DEF Parts, Finish
<1>2. CASE cmd[c] \notin {"init", "undo_analy"}
  <2>1. Go(c, "idle", << >>)
    BY <1>2 DEF Finish
  <2>2. QED BY <1>2, <2>1, Program DEF Parts, Finish
<1>3. QED BY <1>1, <1>2

LEMMA BeginProgram ==
    ASSUME NEW c \in Clients, TypeOK, ProgramInv(c), Command(c)
    PROVE  /\ ProgramInv(c)' /\ up /\ cmd[c] = "idle"
           /\ UNCHANGED <<up, isboot, resVars, spare, old, threadVars, failed>>
           /\ \/ isboot = 0 /\ cmd'[c] = "init" /\ todo'[c] = Inits
              \/ isboot = 1 /\ cmd'[c] = "stop" /\ todo'[c] = StopProgram
              \/ isboot = 1 /\ cmd'[c] = "rebuild" /\ todo'[c] = Rebuild
<1> USE DEF Begin, Parts
<1>1. ASSUME NEW part \in Parts, NEW rest, Begin(c, part, rest)
      PROVE  Go(c, part, rest) /\ up /\ cmd[c] = "idle"
             /\ UNCHANGED <<up, isboot, resVars, spare, old, threadVars, failed>>
  BY <1>1 DEF Go
<1>2. CASE Start(c)
  BY <1>1, <1>2, InitsBegin, Program DEF Start
<1>3. CASE Stop(c)
  BY <1>1, <1>3, StopIs, Program DEF Stop
<1>4. CASE Reload(c)
  BY <1>1, <1>4, RebuildBegin, Program DEF Reload
<1>5. QED BY <1>2, <1>3, <1>4 DEF Command

LEMMA ProgramBootStep ==
    ASSUME NEW c, Clients = {c}, TypeOK, ProgramInv(c), BootInv(c), [Next]_vars
    PROVE  ProgramInv(c)' /\ BootInv(c)'
<1>0. c \in Clients
  OBVIOUS
<1>1. CASE Command(c)
  BY <1>0, <1>1, BeginProgram DEF BootInv
<1>2. CASE Finish(c)
  <2>1. failed' = failed
    BY <1>2 DEF Finish
  <2>2. QED BY <1>0, <1>2, <2>1, FinishProgram DEF BootInv
<1>3. CASE InitFails(c)
  <2>1. isboot' = isboot /\ failed' = failed \cup {Op(c)}
    BY <1>3 DEF InitFails, Fail
  <2>2. QED BY <1>0, <1>3, <2>1, InitFailsProgram DEF BootInv
<1>4. CASE RunFails(c)
  <2>1. isboot' = isboot
    BY <1>4 DEF RunFails
  <2>2. QED BY <1>0, <1>4, <2>1, RunFailsProgram DEF BootInv
<1>5. CASE CancelEnded(c)
  <2>1. isboot' = isboot
    BY <1>5 DEF CancelEnded
  <2>2. QED BY <1>0, <1>5, <2>1, CancelEndedProgram DEF BootInv
<1>6. CASE \/ InitOk(c) \/ Keywords(c) \/ RunOk(c) \/ ReleaseStep(c) \/ SpamNotSaved(c)
           \/ CancelStep(c) \/ JoinStep(c) \/ RebuildNew(c) \/ RebuildBuild(c)
           \/ RebuildLoad(c) \/ RebuildStore(c) \/ RebuildDestroy(c)
  <2>1. Step(c) /\ todo[c] # << >> /\ cmd[c] # "idle" /\ isboot' = isboot
    BY <1>6 DEF InitOk, Keywords, RunOk, ReleaseStep, SpamNotSaved, CancelStep, JoinStep,
                RebuildNew, RebuildBuild, RebuildLoad, RebuildStore, RebuildDestroy, At, Doing
  <2>2. ProgramInv(c)' /\ cmd'[c] = cmd[c]
    BY <1>0, <2>1, ProgramStep
  <2>3. failed \subseteq failed'
    BY <1>6 DEF InitOk, Keywords, RunOk, ReleaseStep, SpamNotSaved, CancelStep, JoinStep,
                RebuildNew, RebuildBuild, RebuildLoad, RebuildStore, RebuildDestroy, Fail
  <2>4. QED BY <2>1, <2>2, <2>3 DEF BootInv
<1>7. CASE \E t \in running : Cancelled(t) \/ CaptureEnds(t)
  <2>1. /\ cmd' = cmd /\ todo' = todo /\ isboot' = isboot /\ failed \subseteq failed'
    BY <1>7 DEF Cancelled, CaptureEnds, Exit, Fail
  <2>2. QED BY <2>1 DEF ProgramInv, BootInv
<1>8. CASE UNCHANGED vars
  BY <1>8 DEF vars, ProgramInv, BootInv
<1>9. QED
  BY <1>1, <1>2, <1>3, <1>4, <1>5, <1>6, <1>7, <1>8 DEF Next, Operation, Quiet

-----------------------------------------------------------------------------
(* What is there. *)

RInv(c) == OpenInv(c) /\ WordsInv(c) /\ RebuildInv(c) /\ LeftInv(c)
TInv(c) == TidInv /\ ThreadInv(c) /\ CaptureInv(c)

LEMMA SoundGrows ==
    ASSUME failed \subseteq failed'
    PROVE  Sound' => Sound
BY DEF Sound

LEMMA ThereInit ==
    ASSUME NEW c \in Clients, TypeOK, ProgramInv(c), cmd[c] = "init", todo[c] # << >>, Step(c)
    PROVE  /\ InitsLike(todo[c]) /\ cmd'[c] = "init" /\ todo'[c] = Tail(todo[c])
           /\ \A r \in Resources : There(c, r)' <=> (r = Op(c) \/ There(c, r))
           /\ ~There(c, Op(c))
           /\ Worded(c)' <=> (Op(c) = "keywords" \/ Worded(c))
           /\ Op(c) = "keywords" => There(c, "match")
           /\ Op(c) = "match" => ~Worded(c)'
<1>1. InitsLike(todo[c]) /\ cmd'[c] = "init" /\ todo'[c] = Tail(todo[c])
  BY ProgramStep DEF ProgramInv
<1> DEFINE q == todo[c]
<1>2. /\ \A x : In(x, q) <=> x = Op(c) \/ In(x, Tail(q))
      /\ ~In(Op(c), Tail(q))
      /\ Op(c) = "keywords" => ~In("match", q)
      /\ Op(c) = "match" => In("keywords", Tail(q))
  BY <1>1, InitsStep DEF Op
<1>3. /\ \A x : There(c, x) <=> ~In(x, q)
      /\ Worded(c) <=> ~In("keywords", q)
  BY DEF There, Worded, Serving
<1>4. /\ \A x : There(c, x)' <=> ~In(x, Tail(q))
      /\ Worded(c)' <=> ~In("keywords", Tail(q))
  BY <1>1 DEF There, Worded, Serving
<1>5. QED BY <1>1, <1>2, <1>3, <1>4

LEMMA ThereEnd ==
    ASSUME NEW c \in Clients, TypeOK, ProgramInv(c), cmd[c] \in {"stop", "undo"},
           todo[c] # << >>, Step(c)
    PROVE  /\ cmd'[c] = cmd[c] /\ todo'[c] = Tail(todo[c])
           /\ \A r : There(c, r) <=> (Op(c).do = "release" /\ Op(c).on = r) \/ There(c, r)'
           /\ \A r : Op(c).do = "release" /\ Op(c).on = r => ~There(c, r)'
           /\ Worded(c)' => Worded(c) /\ There(c, "match")'
<1>1. cmd'[c] = cmd[c] /\ todo'[c] = Tail(todo[c])
  BY ProgramStep
<1> PICK q : q = todo[c]
  OBVIOUS
<1>2. PICK S : q \in Seq(S) /\ Once(q) /\ Op(c) = q[1]
  BY StopTail, UndoTail DEF ProgramInv, StopLike, UndoLike, Op
<1>3. \A d, x : /\ Pending(d, x, q) <=> (q[1].do = d /\ q[1].on = x) \/ Pending(d, x, Tail(q))
                /\ Pending(d, x, q) <=> \/ q[1].do = d /\ q[1].on = x
                                        \/ \E j \in 2..Len(q) : q[j].do = d /\ q[j].on = x
  BY <1>2, TailPending
<1>4. /\ \A x : There(c, x) <=> Pending("release", x, q)
      /\ \A x : There(c, x)' <=> Pending("release", x, Tail(q))
      /\ Worded(c) <=> cmd[c] = "stop" /\ Pending("release", "match", q)
      /\ Worded(c)' <=> cmd[c] = "stop" /\ Pending("release", "match", Tail(q))
  BY <1>1 DEF There, Worded, Serving
<1>5. Op(c).do = "release" => ~Pending("release", Op(c).on, Tail(q))
  <2> SUFFICES ASSUME Op(c).do = "release", Pending("release", Op(c).on, Tail(q))
               PROVE  FALSE
    OBVIOUS
  <2>1. Len(q) \in Nat \ {0} /\ Len(Tail(q)) = Len(q) - 1
        /\ \A i \in 1..(Len(q) - 1) : Tail(q)[i] = q[i + 1]
    BY <1>2, TailIs
  <2>2. PICK i \in 1..(Len(q) - 1) : q[i + 1].do = "release" /\ q[i + 1].on = Op(c).on
    BY <2>1 DEF Pending
  <2>3. 1 \in 1..Len(q) /\ i + 1 \in 1..Len(q) /\ i + 1 # 1
    BY <2>1
  <2>4. QED BY <1>2, <2>2, <2>3 DEF Once
<1>6. \A x : Pending("release", x, q) <=>
               (Op(c).do = "release" /\ Op(c).on = x) \/ Pending("release", x, Tail(q))
  BY <1>2, <1>3
<1>7. \A x : There(c, x) <=> (Op(c).do = "release" /\ Op(c).on = x) \/ There(c, x)'
  BY <1>4, <1>6
<1>8. \A r : Op(c).do = "release" /\ Op(c).on = r => ~There(c, r)'
  BY <1>4, <1>5
<1>9. Worded(c)' => Worded(c) /\ There(c, "match")'
  BY <1>4, <1>6
<1>10. QED BY <1>1, <1>7, <1>8, <1>9

LEMMA ResInitOk ==
    ASSUME NEW c \in Clients, TypeOK, ProgramInv(c), RInv(c), InitOk(c)
    PROVE  RInv(c)'
<1> PICK r : r = Op(c)
  OBVIOUS
<1>1. /\ cmd[c] = "init" /\ todo[c] # << >> /\ Step(c) /\ r # "keywords"
      /\ up' = up /\ failed' = failed /\ built' = built
  BY DEF InitOk, At
<1>2. r \in Resources
  BY <1>1, OpIs DEF InitOps
<1>3. PICK n \in Ids \ live[r] :
         /\ cur' = [cur EXCEPT ![r] = n] /\ live' = [live EXCEPT ![r] = @ \cup {n}]
         /\ cur' \in [Resources -> Ids \cup {0}] /\ live' \in [Resources -> SUBSET Ids]
  BY <1>2, CreateIs DEF InitOk
<1>4. /\ cmd'[c] = "init"
      /\ \A x \in Resources : There(c, x)' <=> (x = r \/ There(c, x))
      /\ ~There(c, r)
      /\ Worded(c)' => Worded(c) /\ r # "match"
  BY <1>1, ThereInit
<1>5. /\ cur'[r] = n /\ live'[r] = live[r] \cup {n}
      /\ \A x \in Resources \ {r} : cur'[x] = cur[x] /\ live'[x] = live[x]
  BY <1>2, <1>3 DEF TypeOK
<1>6. (Sound' <=> Sound) /\ \A x : Clean(x)' <=> Clean(x)
  BY <1>1 DEF Sound, Clean
<1>7. OpenInv(c)'
  BY <1>4, <1>5, <1>6 DEF RInv, OpenInv, Open
<1>8. WordsInv(c)'
  <2>1. Worded(c)' => Worded(c) /\ cur'["match"] = cur["match"]
    <3>1. "match" \in Resources
      BY DEF Resources
    <3>2. QED BY <1>4, <1>5, <3>1
  <2>2. QED BY <1>1, <1>6, <2>1 DEF RInv, WordsInv
<1>9. RebuildInv(c)'
  BY <1>4 DEF RebuildInv
<1>10. LeftInv(c)'
  <2>1. \A x : Second(c, x) = {} /\ Second(c, x)' = {}
    BY <1>1, <1>4 DEF Second
  <2>2. SUFFICES ASSUME Sound', up', NEW x \in Resources, Clean(x)'
        PROVE  live'[x] = IF There(c, x)' THEN {cur'[x]} \cup Second(c, x)' ELSE {}
    BY DEF LeftInv
  <2>3. live[x] = IF There(c, x) THEN {cur[x]} \cup Second(c, x) ELSE {}
    BY <1>1, <1>6, <2>2 DEF RInv, LeftInv
  <2>4. CASE x = r
    BY <1>4, <1>5, <2>1, <2>3, <2>4
  <2>5. CASE x # r
    <3>1. There(c, x)' <=> There(c, x)
      BY <1>4, <2>5
    <3>2. cur'[x] = cur[x] /\ live'[x] = live[x]
      BY <1>5, <2>5
    <3>3. QED BY <2>1, <2>3, <3>1, <3>2
  <2>6. QED BY <2>4, <2>5
<1>11. QED BY <1>7, <1>8, <1>9, <1>10 DEF RInv

LEMMA ResKeywords ==
    ASSUME NEW c \in Clients, TypeOK, ProgramInv(c), RInv(c), Keywords(c)
    PROVE  RInv(c)'
<1>1. /\ cmd[c] = "init" /\ todo[c] # << >> /\ Step(c) /\ Op(c) = "keywords"
      /\ up' = up /\ failed' = failed /\ cur' = cur /\ live' = live
      /\ built' = built \cup ({cur["match"]} \cap live["match"])
  BY DEF Keywords, At
<1>2. "keywords" \notin Resources /\ "match" \in Resources
  BY DEF Resources
<1>3. /\ cmd'[c] = "init" /\ There(c, "match")
      /\ \A x \in Resources : There(c, x)' <=> There(c, x)
  BY <1>1, <1>2, ThereInit
<1>4. (Sound' <=> Sound) /\ \A x : Clean(x)' <=> Clean(x)
  BY <1>1 DEF Sound, Clean
<1>5. OpenInv(c)'
  BY <1>1, <1>3, <1>4 DEF RInv, OpenInv, Open
<1>6. WordsInv(c)'
  BY <1>1, <1>2, <1>3, <1>4 DEF RInv, WordsInv, OpenInv, Open
<1>7. RebuildInv(c)'
  BY <1>3 DEF RebuildInv
<1>8. LeftInv(c)'
  <2>1. \A x : Second(c, x) = {} /\ Second(c, x)' = {}
    BY <1>1, <1>3 DEF Second
  <2>2. QED BY <1>1, <1>3, <1>4, <2>1 DEF RInv, LeftInv
<1>9. QED BY <1>5, <1>6, <1>7, <1>8 DEF RInv

LEMMA ResInitFails ==
    ASSUME NEW c \in Clients, TypeOK, ProgramInv(c), RInv(c), InitFails(c)
    PROVE  RInv(c)'
<1> PICK r : r = Op(c)
  OBVIOUS
<1>1. /\ r \in Resources /\ cmd[c] = "init" /\ todo[c] # << >> /\ InitsLike(todo[c])
      /\ up' = up /\ failed' = failed \cup {r} /\ built' = built
      /\ \/ r \in Unchecked /\ cmd'[c] = "init" /\ todo'[c] = Tail(todo[c])
         \/ r = "mailpool" /\ cmd'[c] = "undo_analy"
         \/ /\ r \in Resources \ {"mailpool", "webmail", "noweb"}
            /\ cmd'[c] = "undo" /\ todo'[c] = Undo(Head(todo[c]))
  BY InitFailsProgram DEF InitFails, Fail
<1>2. CASE r \in {"mailpool", "webmail", "noweb"}
  BY <1>1, <1>2 DEF RInv, OpenInv, WordsInv, RebuildInv, LeftInv, Sound
<1>3. CASE r \notin {"mailpool", "webmail", "noweb"}
  <2>1. cmd'[c] = "undo" /\ todo'[c] = Undo(Head(todo[c])) /\ r = Head(todo[c])
    BY <1>1, <1>3 DEF Unchecked, Op
  <2>2. /\ \A x \in Resources \ {"db", "spam"} : There(c, x)' <=> There(c, x)
        /\ \A x \in {"db", "spam"} : ~There(c, x)'
        /\ ~Worded(c)' /\ ~There(c, r)'
    <3>1. /\ \A x \in Resources \ {"db", "spam"} :
                ~In(x, todo[c]) <=> Pending("release", x, Undo(Head(todo[c])))
          /\ \A x \in {"db", "spam"} : ~Pending("release", x, Undo(Head(todo[c])))
      BY <1>1, <1>3, <2>1, UndoIs
    <3>2. \A x : There(c, x) <=> ~In(x, todo[c])
      BY <1>1 DEF There, Serving
    <3>3. \A x : There(c, x)' <=> Pending("release", x, Undo(Head(todo[c])))
      BY <2>1 DEF There, Serving
    <3>4. ~Worded(c)'
      BY <2>1 DEF Worded, Serving
    <3>5. In(r, todo[c])
      BY <1>1, InitsStep DEF Op
    <3>6. ~There(c, r)'
      <4>1. CASE r \in {"db", "spam"}
        BY <3>1, <3>3, <4>1
      <4>2. CASE r \notin {"db", "spam"}
        BY <1>1, <3>1, <3>3, <3>5, <4>2
      <4>3. QED BY <4>1, <4>2
    <3>7. \A x \in Resources \ {"db", "spam"} : There(c, x)' <=> There(c, x)
      BY <3>1, <3>2, <3>3
    <3>8. \A x \in {"db", "spam"} : ~There(c, x)'
      BY <3>1, <3>3
    <3>9. QED BY <3>4, <3>6, <3>7, <3>8
  <2>3. \A x \in Resources \ {r} : cur'[x] = cur[x] /\ live'[x] = live[x]
    BY <1>1 DEF InitFails, Create, TypeOK
  <2>4. r \notin LeavesPart => live' = live
    BY DEF InitFails
  <2>5. (Sound' => Sound) /\ \A x : Clean(x)' => Clean(x) /\ x \notin {"db", "spam"}
                                                /\ (x = r => r \notin LeavesPart)
    BY <1>1 DEF Sound, Clean
  <2>6. OpenInv(c)'
    <3>1. ASSUME NEW x \in Resources, There(c, x)' PROVE x # r /\ There(c, x)
      <4>1. x \notin {"db", "spam"}
        BY <2>2, <3>1
      <4>2. x # r
        BY <2>2, <3>1
      <4>3. QED BY <2>2, <3>1, <4>1, <4>2
    <3>2. QED BY <2>3, <2>5, <3>1 DEF RInv, OpenInv, Open
  <2>7. WordsInv(c)' /\ RebuildInv(c)'
    BY <2>1, <2>2 DEF WordsInv, RebuildInv
  <2>8. LeftInv(c)'
    <3>1. \A x : Second(c, x) = {} /\ Second(c, x)' = {}
      BY <1>1, <2>1 DEF Second
    <3>2. ASSUME NEW x \in Resources, Clean(x)'
          PROVE  /\ Clean(x) /\ live'[x] = live[x] /\ (There(c, x)' <=> There(c, x))
                 /\ There(c, x) => cur'[x] = cur[x]
      <4>1. Clean(x) /\ x \notin {"db", "spam"} /\ (x = r => live' = live)
        BY <2>4, <2>5, <3>2
      <4>2. (There(c, x)' <=> There(c, x)) /\ (There(c, x) => x # r)
        BY <2>2, <4>1
      <4>3. QED BY <2>3, <4>1, <4>2
    <3>3. QED BY <1>1, <2>5, <3>1, <3>2 DEF RInv, LeftInv
  <2>9. QED BY <2>6, <2>7, <2>8 DEF RInv
<1>4. QED BY <1>2, <1>3

LEMMA CleanGrows ==
    ASSUME failed \subseteq failed'
    PROVE  \A r : Clean(r)' => Clean(r)
BY DEF Clean

\* A step that creates and releases nothing.
LEMMA ResSame ==
    ASSUME NEW c, RInv(c), cur' = cur, live' = live, built' = built, failed \subseteq failed',
           up' => up,
           \A r \in Resources : There(c, r)' <=> There(c, r), Worded(c)' => Worded(c),
           cmd[c] = "rebuild" => Len(todo[c]) \notin 1..4,
           cmd'[c] = "rebuild" => Len(todo'[c]) \notin 1..4
    PROVE  RInv(c)'
<1>1. (Sound' => Sound) /\ \A r : Clean(r)' => Clean(r)
  BY SoundGrows, CleanGrows
<1>2. OpenInv(c)'
  BY <1>1 DEF RInv, OpenInv, Open
<1>3. WordsInv(c)'
  BY <1>1 DEF RInv, WordsInv
<1>4. \A n : n \in 2..4 \/ n \in 2..3 \/ n = 2 \/ n = 1 => n \in 1..4
  OBVIOUS
<1>5. RebuildInv(c)'
  BY <1>4 DEF RebuildInv
<1>6. LeftInv(c)'
  <2>1. \A x : Second(c, x) = {} /\ Second(c, x)' = {}
    BY <1>4 DEF Second
  <2>2. QED BY <1>1, <2>1 DEF RInv, LeftInv
<1>7. QED BY <1>2, <1>3, <1>5, <1>6 DEF RInv

LEMMA ResCommand ==
    ASSUME NEW c \in Clients, TypeOK, ProgramInv(c), RInv(c), Command(c)
    PROVE  RInv(c)'
<1>1. /\ up /\ cmd[c] = "idle"
      /\ UNCHANGED <<up, isboot, resVars, spare, old, threadVars, failed>>
      /\ \/ isboot = 0 /\ cmd'[c] = "init" /\ todo'[c] = Inits
         \/ isboot = 1 /\ cmd'[c] = "stop" /\ todo'[c] = StopProgram
         \/ isboot = 1 /\ cmd'[c] = "rebuild" /\ todo'[c] = Rebuild
  BY BeginProgram
<1>2. \A r \in Resources : There(c, r)' <=> There(c, r)
  BY <1>1, InitsBegin, StopIs DEF There, Serving
<1>3. Worded(c)' => Worded(c)
  <2>1. In("keywords", Inits)
    BY InitsIs DEF In
  <2>2. QED BY <1>1, <2>1 DEF Worded, Serving
<1>4. cmd'[c] = "rebuild" => Len(todo'[c]) \notin 1..4
  <2>1. 5 \notin 1..4
    OBVIOUS
  <2>2. CASE cmd'[c] = "rebuild"
    BY <1>1, <2>1, <2>2, RebuildIs
  <2>3. QED BY <2>2
<1>5. QED BY <1>1, <1>2, <1>3, <1>4, ResSame DEF resVars

LEMMA ResFinish ==
    ASSUME NEW c \in Clients, TypeOK, ProgramInv(c), BootInv(c), RInv(c), Finish(c)
    PROVE  RInv(c)'
<1>1. /\ up /\ todo[c] = << >> /\ cmd[c] # "idle"
      /\ IF cmd[c] \in {"init", "undo_analy"}
         THEN cmd'[c] = "run" /\ Len(todo'[c]) = 13 /\ isboot' = isboot
         ELSE /\ cmd'[c] = "idle" /\ todo'[c] = << >>
              /\ isboot' = IF cmd[c] = "run" THEN 1 ELSE IF cmd[c] = "stop" THEN 0
                           ELSE isboot
  BY FinishProgram
<1>2. /\ UNCHANGED <<up, resVars, spare, old, threadVars, failed>>
      /\ cmd[c] \in Parts
  BY DEF Finish, TypeOK, Parts
<1>3. CASE cmd[c] = "undo_analy"
  BY <1>1, <1>2, <1>3
     DEF BootInv, RInv, OpenInv, WordsInv, RebuildInv, LeftInv, Sound
<1>4. CASE cmd[c] # "undo_analy"
  <2>1. /\ \A x : ~In(x, << >>)
        /\ \A d, x : ~Pending(d, x, << >>)
    BY DEF In, Pending
  <2>2. /\ cmd[c] = "init" => cmd'[c] = "run"
        /\ cmd[c] = "run" => cmd'[c] = "idle" /\ isboot' = 1
        /\ cmd[c] = "stop" => cmd'[c] = "idle" /\ isboot' = 0
        /\ cmd[c] = "undo" => cmd'[c] = "idle" /\ isboot' = 0
        /\ cmd[c] = "rebuild" => cmd'[c] = "idle" /\ isboot' = 1
    BY <1>1, <1>4 DEF BootInv
  <2>3. \A r \in Resources : There(c, r)' <=> There(c, r)
    BY <1>1, <1>2, <1>4, <2>1, <2>2 DEF There, Serving, Parts
  <2>4. Worded(c)' => Worded(c)
    BY <1>1, <1>2, <1>4, <2>1, <2>2 DEF Worded, Serving, Parts
  <2>5. Len(todo[c]) \notin 1..4 /\ cmd'[c] # "rebuild"
    BY <1>1
  <2>6. QED BY <1>2, <2>3, <2>4, <2>5, ResSame DEF resVars
<1>5. QED BY <1>3, <1>4

LEMMA ResRun ==
    ASSUME NEW c \in Clients, TypeOK, ProgramInv(c), RInv(c), RunOk(c) \/ RunFails(c)
    PROVE  RInv(c)'
<1>1. cmd[c] = "run" /\ cmd'[c] = "run"
  BY ProgramStep, RunFailsProgram DEF RunOk, RunFails, At
<1>2. live' = live /\ built' = built /\ up' = up /\ failed \subseteq failed'
  BY DEF RunOk, RunFails, Fail, resVars
<1>3. CASE cur' = cur
  <2>1. /\ \A r \in Resources : There(c, r)' <=> There(c, r)
        /\ Worded(c)' => Worded(c)
    BY <1>1 DEF There, Worded, Serving
  <2>2. QED BY <1>1, <1>2, <1>3, <2>1, ResSame
<1>4. CASE cur' # cur
  <2>1. "layout" \in failed'
    BY <1>4 DEF RunOk, RunFails, resVars, Fail
  <2>2. QED BY <1>1, <2>1 DEF RInv, OpenInv, WordsInv, RebuildInv, LeftInv, Sound
<1>5. QED BY <1>3, <1>4

LEMMA FreeIs ==
    ASSUME TypeOK, NEW r \in Resources, NEW n, Free(r, n), n \in live[r]
    PROVE  /\ live'[r] = live[r] \ {n} /\ \A x \in Resources \ {r} : live'[x] = live[x]
           /\ up' = up /\ built \ {n} \subseteq built' /\ (r # "match" => built' = built)
BY DEF Free, TypeOK

LEMMA ResRelease ==
    ASSUME NEW c \in Clients, TypeOK, ProgramInv(c), BootInv(c), RInv(c), ReleaseStep(c)
    PROVE  RInv(c)'
<1>1. /\ up /\ todo[c] # << >> /\ cmd[c] \in {"stop", "undo", "undo_analy"}
      /\ Op(c).do = "release" /\ Op(c).on \in Resources /\ Step(c)
      /\ failed' = failed /\ cur' = cur /\ Free(Op(c).on, cur[Op(c).on])
  BY DoingIs DEF ReleaseStep
<1>2. CASE cmd[c] = "undo_analy" \/ ~Sound
  <2>1. ~Sound'
    BY <1>1, <1>2 DEF BootInv, Sound
  <2>2. QED BY <2>1 DEF RInv, OpenInv, WordsInv, RebuildInv, LeftInv
<1>3. CASE cmd[c] # "undo_analy" /\ Sound
  <2> PICK r \in Resources : r = Op(c).on
    BY <1>1
  <2>1. /\ cmd[c] \in {"stop", "undo"} /\ cmd'[c] = cmd[c]
        /\ \A x : There(c, x) <=> x = r \/ There(c, x)'
        /\ ~There(c, r)'
        /\ Worded(c)' => Worded(c) /\ There(c, "match")'
    BY <1>1, <1>3, ThereEnd
  <2>2. cur[r] \in live[r]
    BY <1>3, <2>1 DEF RInv, OpenInv, Open
  <2>3. /\ live'[r] = live[r] \ {cur[r]} /\ \A x \in Resources \ {r} : live'[x] = live[x]
        /\ up' = up /\ (r # "match" => built' = built)
    BY <1>1, <2>2, FreeIs
  <2>4. (Sound' <=> Sound) /\ \A x : Clean(x)' <=> Clean(x)
    BY <1>1 DEF Sound, Clean
  <2>5. OpenInv(c)'
    BY <1>1, <1>3, <2>1, <2>3 DEF RInv, OpenInv, Open
  <2>6. WordsInv(c)'
    <3>1. Worded(c)' => r # "match"
      BY <2>1
    <3>2. QED BY <1>1, <1>3, <2>1, <2>3, <3>1 DEF RInv, WordsInv
  <2>7. RebuildInv(c)'
    BY <2>1 DEF RebuildInv
  <2>8. LeftInv(c)'
    <3>1. \A x : Second(c, x) = {} /\ Second(c, x)' = {}
      BY <2>1 DEF Second
    <3>2. SUFFICES ASSUME NEW x \in Resources, Clean(x)'
          PROVE  live'[x] = IF There(c, x)' THEN {cur'[x]} \cup Second(c, x)' ELSE {}
      BY DEF LeftInv
    <3>3. live[x] = IF There(c, x) THEN {cur[x]} \cup Second(c, x) ELSE {}
      BY <1>1, <1>3, <2>4, <3>2 DEF RInv, LeftInv
    <3>4. CASE x = r
      BY <2>1, <2>3, <3>1, <3>3, <3>4
    <3>5. CASE x # r
      <4>1. (There(c, x)' <=> There(c, x)) /\ live'[x] = live[x] /\ cur'[x] = cur[x]
        BY <1>1, <2>1, <2>3, <3>5
      <4>2. QED BY <3>1, <3>3, <4>1
    <3>6. QED BY <3>4, <3>5
  <2>9. QED BY <2>5, <2>6, <2>7, <2>8 DEF RInv
<1>4. QED BY <1>2, <1>3

LEMMA ResSpamNotSaved ==
    ASSUME NEW c \in Clients, TypeOK, ProgramInv(c), BootInv(c), RInv(c), SpamNotSaved(c)
    PROVE  RInv(c)'
<1>1. /\ up /\ todo[c] # << >> /\ cmd[c] \in {"stop", "undo", "undo_analy"}
      /\ Op(c).do = "release" /\ Op(c).on = "spam" /\ Step(c) /\ up' = up
      /\ cur' = cur /\ live' = live /\ built' = built /\ failed' = failed \cup {"save"}
  BY DoingIs DEF SpamNotSaved, resVars, Fail
<1>2. CASE cmd[c] = "undo_analy" \/ ~Sound
  <2>1. ~Sound'
    BY <1>1, <1>2 DEF BootInv, Sound
  <2>2. QED BY <2>1 DEF RInv, OpenInv, WordsInv, RebuildInv, LeftInv
<1>3. CASE cmd[c] # "undo_analy" /\ Sound
  <2>1. /\ cmd[c] \in {"stop", "undo"} /\ cmd'[c] = cmd[c]
        /\ \A x : There(c, x) <=> x = "spam" \/ There(c, x)'
        /\ Worded(c)' => Worded(c)
    BY <1>1, <1>3, ThereEnd
  <2>2. \A x : Clean(x)' => Clean(x) /\ x # "spam"
    BY <1>1 DEF Clean
  <2>3. OpenInv(c)' /\ WordsInv(c)'
    BY <1>1, <1>3, <2>1 DEF RInv, OpenInv, WordsInv, Open
  <2>4. RebuildInv(c)'
    BY <2>1 DEF RebuildInv
  <2>5. LeftInv(c)'
    <3>1. \A x : Second(c, x) = {} /\ Second(c, x)' = {}
      BY <2>1 DEF Second
    <3>2. ASSUME NEW x \in Resources, Clean(x)'
          PROVE  (There(c, x)' <=> There(c, x)) /\ Clean(x)
      BY <2>1, <2>2, <3>2
    <3>3. QED BY <1>1, <1>3, <3>1, <3>2 DEF RInv, LeftInv
  <2>6. QED BY <2>3, <2>4, <2>5 DEF RInv
<1>4. QED BY <1>2, <1>3

LEMMA ResJoin ==
    ASSUME NEW c \in Clients, TypeOK, ProgramInv(c), RInv(c),
           CancelStep(c) \/ JoinStep(c) \/ (CancelEnded(c) /\ Step(c))
    PROVE  RInv(c)'
<1>1. /\ up /\ todo[c] # << >> /\ cmd[c] = "stop" /\ Op(c).do # "release" /\ Step(c)
      /\ cur' = cur /\ live' = live /\ built' = built /\ failed' = failed
  BY DoingIs DEF CancelStep, JoinStep, CancelEnded, resVars
<1>2. /\ cmd'[c] = "stop" /\ \A x : There(c, x)' <=> There(c, x)
      /\ Worded(c)' => Worded(c)
  BY <1>1, ThereEnd
<1>3. QED BY <1>1, <1>2, ResSame

\* The step of a thread, or of the process.
LEMMA ResOther ==
    ASSUME NEW c \in Clients, RInv(c), failed \subseteq failed',
           UNCHANGED <<up, isboot, cmd, todo, cur, live, built, spare, old>>
    PROVE  RInv(c)'
<1>1. (Sound' => Sound) /\ \A r : Clean(r)' => Clean(r)
  BY SoundGrows, CleanGrows
<1>2. /\ \A r : (There(c, r)' <=> There(c, r)) /\ Second(c, r)' = Second(c, r)
      /\ Worded(c)' <=> Worded(c)
  BY DEF There, Worded, Serving, Second
<1>3. OpenInv(c)' /\ WordsInv(c)' /\ RebuildInv(c)'
  BY <1>1, <1>2 DEF RInv, OpenInv, WordsInv, RebuildInv, Open
<1>4. LeftInv(c)'
  <2>1. SUFFICES ASSUME Sound', up', NEW x \in Resources, Clean(x)'
        PROVE  live'[x] = IF There(c, x)' THEN {cur'[x]} \cup Second(c, x)' ELSE {}
    BY DEF LeftInv
  <2>2. live[x] = IF There(c, x) THEN {cur[x]} \cup Second(c, x) ELSE {}
    BY <1>1, <2>1 DEF RInv, LeftInv
  <2>3. QED BY <1>2, <2>2
<1>5. QED BY <1>3, <1>4 DEF RInv

LEMMA RebuildGo ==
    ASSUME NEW c \in Clients, TypeOK, ProgramInv(c), cmd[c] = "rebuild", todo[c] # << >>, Step(c)
    PROVE  /\ cmd'[c] = "rebuild" /\ Len(todo[c]) \in 1..5
           /\ Len(todo'[c]) = Len(todo[c]) - 1
           /\ Op(c) = "new" <=> Len(todo[c]) = 5
           /\ Op(c) = "build" <=> Len(todo[c]) = 4
           /\ Op(c) = "load" <=> Len(todo[c]) = 3
           /\ Op(c) = "store" <=> Len(todo[c]) = 2
           /\ Op(c) = "destroy" <=> Len(todo[c]) = 1
           /\ \A r : There(c, r) /\ There(c, r)'
           /\ Worded(c) /\ Worded(c)'
<1>1. cmd'[c] = "rebuild" /\ todo'[c] = Tail(todo[c]) /\ RebuildLike(todo[c])
  BY ProgramStep DEF ProgramInv
<1>2. /\ \A r : There(c, r) /\ There(c, r)'
      /\ Worded(c) /\ Worded(c)'
  BY <1>1 DEF There, Worded, Serving
<1>3. QED BY <1>1, <1>2, RebuildTail DEF Op

\* RInv during match_rebuild, when n operations of it are left.
Reloading(c, n) ==
    Sound =>
       /\ \A r \in Resources : Open(r)
       /\ cur["match"] \in built
       /\ up => /\ n \in 2..4 => spare[c] \in live["match"] /\ spare[c] # cur["match"]
                /\ n \in 2..3 => spare[c] \in built
                /\ n = 2 => old[c] = cur["match"]
                /\ n = 1 => old[c] \in live["match"] /\ old[c] # cur["match"]
                /\ \A r \in Resources \ {"match"} : Clean(r) => live[r] = {cur[r]}
                /\ Clean("match") =>
                      live["match"] = {cur["match"]} \cup
                         (IF n \in 2..4 THEN {spare[c]} ELSE IF n = 1 THEN {old[c]} ELSE {})

LEMMA ReloadingIs ==
    ASSUME NEW c, NEW n, cmd[c] = "rebuild", Len(todo[c]) = n
    PROVE  RInv(c) <=> Reloading(c, n)
<1>1. /\ \A r : There(c, r)
      /\ Worded(c)
  BY DEF There, Worded, Serving
<1>2. OpenInv(c) <=> (Sound => \A r \in Resources : Open(r))
  BY <1>1 DEF OpenInv
<1>3. WordsInv(c) <=> (Sound => cur["match"] \in built)
  BY <1>1 DEF WordsInv
<1>4. RebuildInv(c) <=> (Sound /\ up =>
                /\ n \in 2..4 => spare[c] \in live["match"] /\ spare[c] # cur["match"]
                /\ n \in 2..3 => spare[c] \in built
                /\ n = 2 => old[c] = cur["match"]
                /\ n = 1 => old[c] \in live["match"] /\ old[c] # cur["match"])
  BY DEF RebuildInv
<1>5. /\ Second(c, "match") = IF n \in 2..4 THEN {spare[c]} ELSE IF n = 1 THEN {old[c]} ELSE {}
      /\ \A r : r # "match" => Second(c, r) = {}
  BY DEF Second
<1>6. "match" \in Resources
  BY DEF Resources
<1>7. LeftInv(c) <=> (Sound /\ up =>
                /\ \A r \in Resources \ {"match"} : Clean(r) => live[r] = {cur[r]}
                /\ Clean("match") =>
                      live["match"] = {cur["match"]} \cup
                         (IF n \in 2..4 THEN {spare[c]} ELSE IF n = 1 THEN {old[c]} ELSE {}))
  <2>1. LeftInv(c) <=> (Sound /\ up => \A r \in Resources : Clean(r) =>
                                          live[r] = {cur[r]} \cup Second(c, r))
    BY <1>1 DEF LeftInv
  <2>2. \A r : r # "match" => {cur[r]} \cup Second(c, r) = {cur[r]}
    BY <1>5
  <2>3. (\A r \in Resources : Clean(r) => live[r] = {cur[r]} \cup Second(c, r)) <=>
           /\ \A r \in Resources \ {"match"} : Clean(r) => live[r] = {cur[r]} \cup Second(c, r)
           /\ Clean("match") => live["match"] = {cur["match"]} \cup Second(c, "match")
    BY <1>6
  <2>4. QED BY <1>5, <2>1, <2>2, <2>3
<1>8. QED BY <1>2, <1>3, <1>4, <1>7 DEF RInv, Reloading

ReloadFact ==
    \A c, n : cmd[c] = "rebuild" /\ Len(todo[c]) = n => (RInv(c) <=> Reloading(c, n))

LEMMA ReloadFactIs == ReloadFact
BY ReloadingIs DEF ReloadFact

LEMMA ReloadNext ==
    ASSUME NEW c, NEW n, cmd'[c] = "rebuild", Len(todo'[c]) = n, Reloading(c, n)'
    PROVE  RInv(c)'
<1>1. ReloadFact'
  BY ReloadFactIs, PTL
<1>2. QED BY <1>1 DEF ReloadFact

LEMMA ResRebuild ==
    ASSUME NEW c \in Clients, TypeOK, ProgramInv(c), RInv(c),
           \/ RebuildNew(c) \/ RebuildBuild(c) \/ RebuildLoad(c)
           \/ RebuildStore(c) \/ RebuildDestroy(c)
    PROVE  RInv(c)'
<1>1. cmd[c] = "rebuild" /\ todo[c] # << >> /\ Step(c) /\ failed' = failed /\ up
  BY DEF RebuildNew, RebuildBuild, RebuildLoad, RebuildStore, RebuildDestroy, At
<1> PICK n \in 1..5 : n = Len(todo[c])
  BY <1>1, RebuildGo
<1>2. /\ cmd'[c] = "rebuild" /\ Len(todo'[c]) = n - 1
      /\ Op(c) = "new" <=> n = 5
      /\ Op(c) = "build" <=> n = 4
      /\ Op(c) = "load" <=> n = 3
      /\ Op(c) = "store" <=> n = 2
      /\ Op(c) = "destroy" <=> n = 1
  BY <1>1, RebuildGo
<1>3. Reloading(c, n)
  BY <1>1, ReloadingIs
<1>4. (Sound' <=> Sound) /\ \A x : Clean(x)' <=> Clean(x)
  BY <1>1 DEF Sound, Clean
<1>5. "match" \in Resources
  BY DEF Resources
<1>6. n = 5 \/ n = 4 \/ n = 3 \/ n = 2 \/ n = 1
  OBVIOUS
<1> USE DEF Reloading, Open
<1>7. CASE RebuildNew(c)
  <2>1. n = 5 /\ Len(todo'[c]) = 4 /\ cur' = cur /\ built' = built
    BY <1>2, <1>7 DEF RebuildNew
  <2>2. CASE up' = FALSE /\ UNCHANGED <<spare, live>>
    <3>1. Reloading(c, 4)'
      BY <1>3, <1>4, <2>1, <2>2
    <3>2. QED BY <1>2, <2>1, <3>1, ReloadNext
  <2>3. CASE /\ live["match"] # Ids
             /\ spare' = [spare EXCEPT ![c] = Least(Ids \ live["match"])]
             /\ live' = [live EXCEPT !["match"] = @ \cup {spare'[c]}]
             /\ UNCHANGED up
    <3>1. Ids \ live["match"] # {}
      BY <1>5, <2>3 DEF TypeOK
    <3>2. Least(Ids \ live["match"]) \in Ids \ live["match"]
      BY <3>1, LeastIs
    <3>3. spare'[c] \notin live["match"]
      BY <2>3, <3>2 DEF TypeOK
    <3>4. /\ live'["match"] = live["match"] \cup {spare'[c]}
          /\ \A r \in Resources \ {"match"} : live'[r] = live[r]
      BY <1>5, <2>3 DEF TypeOK
    <3>5. Reloading(c, 4)'
      <4>1. SUFFICES ASSUME Sound PROVE Reloading(c, 4)'
        BY <1>4
      <4>2. /\ \A r \in Resources : cur[r] \in live[r]
            /\ cur["match"] \in built
            /\ \A r \in Resources \ {"match"} : Clean(r) => live[r] = {cur[r]}
            /\ Clean("match") => live["match"] = {cur["match"]}
        BY <1>1, <1>3, <2>1, <4>1
      <4>3. \A r \in Resources : cur'[r] \in live'[r]
        BY <2>1, <3>4, <4>2
      <4>4. spare'[c] # cur'["match"] /\ spare'[c] \in live'["match"]
        BY <1>5, <2>1, <3>3, <3>4, <4>2
      <4>5. Clean("match") => live'["match"] = {cur'["match"]} \cup {spare'[c]}
        BY <2>1, <3>4, <4>2
      <4>6. QED BY <1>4, <2>1, <3>4, <4>2, <4>3, <4>4, <4>5
    <3>6. QED BY <1>2, <2>1, <3>5, ReloadNext
  <2>4. QED BY <1>7, <2>2, <2>3 DEF RebuildNew
<1>8. CASE RebuildBuild(c)
  <2>1. /\ n = 4 /\ Len(todo'[c]) = 3 /\ cur' = cur /\ live' = live /\ spare' = spare /\ up' = up
        /\ built' = built \cup ({spare[c]} \cap live["match"])
    BY <1>2, <1>8 DEF RebuildBuild
  <2>2. Reloading(c, 3)'
    BY <1>1, <1>3, <1>4, <2>1
  <2>3. QED BY <1>2, <2>1, <2>2, ReloadNext
<1>9. CASE RebuildLoad(c)
  <2>1. /\ n = 3 /\ Len(todo'[c]) = 2 /\ spare' = spare /\ up' = up
        /\ cur' = cur /\ live' = live /\ built' = built
        /\ old' = [old EXCEPT ![c] = cur["match"]]
    BY <1>2, <1>9 DEF RebuildLoad, resVars
  <2>2. old'[c] = cur["match"]
    BY <2>1 DEF TypeOK
  <2>3. Reloading(c, 2)'
    BY <1>1, <1>3, <1>4, <2>1, <2>2
  <2>4. QED BY <1>2, <2>1, <2>3, ReloadNext
<1>10. CASE RebuildStore(c)
  <2>1. /\ n = 2 /\ Len(todo'[c]) = 1 /\ old' = old /\ up' = up
        /\ live' = live /\ built' = built /\ cur' = [cur EXCEPT !["match"] = spare[c]]
    BY <1>2, <1>10 DEF RebuildStore
  <2>2. cur'["match"] = spare[c] /\ \A r \in Resources \ {"match"} : cur'[r] = cur[r]
    BY <1>5, <2>1 DEF TypeOK
  <2>3. Reloading(c, 1)'
    <3>1. SUFFICES ASSUME Sound PROVE Reloading(c, 1)'
      BY <1>4
    <3>2. /\ \A r \in Resources : cur[r] \in live[r]
          /\ spare[c] \in live["match"] /\ spare[c] # cur["match"] /\ spare[c] \in built
          /\ old[c] = cur["match"]
          /\ \A r \in Resources \ {"match"} : Clean(r) => live[r] = {cur[r]}
          /\ Clean("match") => live["match"] = {cur["match"]} \cup {spare[c]}
      BY <1>1, <1>3, <2>1, <3>1
    <3>3. \A r \in Resources : cur'[r] \in live'[r]
      BY <2>1, <2>2, <3>2
    <3>4. /\ cur'["match"] \in built' /\ old'[c] \in live'["match"] /\ old'[c] # cur'["match"]
          /\ Clean("match") => live'["match"] = {cur'["match"]} \cup {old'[c]}
      BY <1>5, <2>1, <2>2, <3>2
    <3>5. QED BY <1>4, <2>1, <2>2, <3>2, <3>3, <3>4
  <2>4. QED BY <1>2, <2>1, <2>3, ReloadNext
<1>11. CASE RebuildDestroy(c)
  <2>1. n = 1 /\ Len(todo'[c]) = 0 /\ cur' = cur /\ Free("match", old[c])
    BY <1>2, <1>11 DEF RebuildDestroy
  <2>2. Reloading(c, 0)'
    <3>1. SUFFICES ASSUME Sound PROVE Reloading(c, 0)'
      BY <1>4
    <3>2. /\ \A r \in Resources : cur[r] \in live[r]
          /\ cur["match"] \in built
          /\ old[c] \in live["match"] /\ old[c] # cur["match"]
          /\ \A r \in Resources \ {"match"} : Clean(r) => live[r] = {cur[r]}
          /\ Clean("match") => live["match"] = {cur["match"]} \cup {old[c]}
      BY <1>1, <1>3, <2>1, <3>1
    <3>3. /\ live'["match"] = live["match"] \ {old[c]}
          /\ \A x \in Resources \ {"match"} : live'[x] = live[x]
          /\ built \ {old[c]} \subseteq built'
      BY <1>5, <2>1, <3>2, FreeIs
    <3>4. /\ \A r \in Resources : cur'[r] \in live'[r]
          /\ cur'["match"] \in built'
      BY <2>1, <3>2, <3>3
    <3>5. Clean("match") => live'["match"] = {cur'["match"]}
      BY <2>1, <3>2, <3>3
    <3>6. QED BY <1>4, <2>1, <3>2, <3>3, <3>4, <3>5
  <2>3. QED BY <1>2, <2>1, <2>2, ReloadNext
<1>12. QED BY <1>7, <1>8, <1>9, <1>10, <1>11

-----------------------------------------------------------------------------
(* Threads. *)

LEMMA ThreadRole ==
    ASSUME TypeOK, NEW th \in running \cup ended
    PROVE  th \in Threads /\ th[1] \in Roles /\ Slot(th[1]) \in 1..Outside
<1>1. th \in Threads
  BY DEF TypeOK
<1>2. th[1] \in Roles
  BY <1>1 DEF Threads
<1>3. QED BY <1>1, <1>2, SlotIs

\* A step that starts, cancels and joins nothing.
LEMMA ThreadSame ==
    ASSUME NEW c, TypeOK, TInv(c), UNCHANGED threadVars, failed \subseteq failed',
           \A t \in Roles : Sound /\ JoinDue(c, t) =>
              \/ JoinDue(c, t)'
              \/ \A th \in running \cup ended : th[1] # t,
           Sound /\ (cmd'[c] # "stop" \/ CaptureDue(c)') => cancelled = {} /\ ended = {},
           cmd'[c] # "run",
           CaptureDue(c)' => CaptureDue(c) /\ ~(cmd[c] = "run" /\ Len(todo[c]) = 13)
    PROVE  TInv(c)'
<1>1. Sound' => Sound
  BY SoundGrows
<1>2. running' = running /\ ended' = ended /\ cancelled' = cancelled /\ tid' = tid
  BY DEF threadVars
<1>3. TidInv'
  BY <1>2 DEF TInv, TidInv
<1>4. ThreadInv(c)'
  <2> SUFFICES ASSUME Sound, Sound' PROVE ThreadInv(c)'
    BY <1>1 DEF ThreadInv
  <2>1. \A th \in running \cup ended :
           th[1] # Forgotten \/ th \in ended \cup cancelled => th = tid[Slot(th[1])]
    BY DEF TInv, ThreadInv
  <2>2. ASSUME NEW th \in running \cup ended, th = tid[Slot(th[1])]
        PROVE  JoinDue(c, th[1])'
    <3> PICK t \in Roles : t = th[1]
      BY ThreadRole
    <3>1. JoinDue(c, t)
      BY <2>2 DEF TInv, ThreadInv
    <3>2. JoinDue(c, t)'
      BY <3>1
    <3>3. QED BY <3>2
  <2>3. cmd'[c] # "stop" \/ CaptureDue(c)' => cancelled = {} /\ ended = {}
    OBVIOUS
  <2>4. QED BY <1>2, <2>1, <2>2, <2>3 DEF ThreadInv
<1>5. CaptureInv(c)'
  <2> SUFFICES ASSUME Sound, CaptureDue(c)' PROVE CaptureInv(c)'
    BY <1>1 DEF CaptureInv
  <2>1. /\ (\E th \in running : th[1] \in {Web, NoWeb}) => CaptureRuns
        /\ "create" \notin failed => CaptureRuns
    BY DEF TInv, CaptureInv
  <2>2. CaptureRuns' <=> CaptureRuns
    BY <1>2 DEF CaptureRuns
  <2>3. QED BY <1>2, <2>1, <2>2 DEF CaptureInv
<1>6. QED BY <1>3, <1>4, <1>5 DEF TInv

LEMMA ThreadCommand ==
    ASSUME NEW c \in Clients, TypeOK, ProgramInv(c), TInv(c), Command(c)
    PROVE  TInv(c)'
<1>1. /\ up /\ cmd[c] = "idle"
      /\ UNCHANGED <<up, isboot, resVars, spare, old, threadVars, failed>>
      /\ \/ isboot = 0 /\ cmd'[c] = "init" /\ todo'[c] = Inits
         \/ isboot = 1 /\ cmd'[c] = "stop" /\ todo'[c] = StopProgram
         \/ isboot = 1 /\ cmd'[c] = "rebuild" /\ todo'[c] = Rebuild
  BY BeginProgram
<1>2. \A t \in Roles : JoinDue(c, t) => JoinDue(c, t)'
  BY <1>1, StopIs DEF JoinDue, Serving
<1>3. Sound => cancelled = {} /\ ended = {}
  BY <1>1 DEF TInv, ThreadInv
<1>4. CaptureDue(c)' => CaptureDue(c)
  BY <1>1 DEF CaptureDue, Serving
<1>5. QED BY <1>1, <1>2, <1>3, <1>4, ThreadSame

LEMMA ThreadInit ==
    ASSUME NEW c \in Clients, TypeOK, ProgramInv(c), TInv(c),
           InitOk(c) \/ Keywords(c) \/ InitFails(c)
    PROVE  TInv(c)'
<1>1. cmd[c] = "init" /\ cmd'[c] \in {"init", "undo", "undo_analy"}
  BY InitFailsProgram, ProgramStep DEF InitOk, Keywords, InitFails, At
<1>2. UNCHANGED threadVars /\ failed \subseteq failed'
  BY DEF InitOk, Keywords, InitFails, Fail
<1>3. \A t : ~JoinDue(c, t)
  BY <1>1 DEF JoinDue, Serving
<1>4. Sound => cancelled = {} /\ ended = {}
  BY <1>1 DEF TInv, ThreadInv
<1>5. ~CaptureDue(c)'
  BY <1>1 DEF CaptureDue, Serving
<1>6. QED BY <1>1, <1>2, <1>3, <1>4, <1>5, ThreadSame

\* Where nothing is joined, only the forgotten thread runs.
LEMMA OnlyForgotten ==
    ASSUME NEW c, TypeOK, TInv(c), Sound, \A t \in Roles : ~JoinDue(c, t)
    PROVE  ended = {} /\ cancelled = {} /\ \A th \in running : th[1] = Forgotten
<1>1. \A th \in running \cup ended : th # tid[Slot(th[1])]
  BY ThreadRole DEF TInv, ThreadInv
<1>2. cancelled \subseteq running
  BY DEF TypeOK
<1>3. QED BY <1>1, <1>2 DEF TInv, ThreadInv

LEMMA ThreadFinish ==
    ASSUME NEW c \in Clients, TypeOK, ProgramInv(c), BootInv(c), TInv(c), Finish(c)
    PROVE  TInv(c)'
<1>1. /\ up /\ todo[c] = << >> /\ cmd[c] # "idle"
      /\ IF cmd[c] \in {"init", "undo_analy"}
         THEN cmd'[c] = "run" /\ Len(todo'[c]) = 13 /\ isboot' = isboot
         ELSE /\ cmd'[c] = "idle" /\ todo'[c] = << >>
              /\ isboot' = IF cmd[c] = "run" THEN 1 ELSE IF cmd[c] = "stop" THEN 0
                           ELSE isboot
  BY FinishProgram
<1>2. UNCHANGED threadVars /\ failed' = failed /\ cmd[c] \in Parts
  BY DEF Finish, TypeOK, Parts
<1>3. running' = running /\ ended' = ended /\ cancelled' = cancelled /\ tid' = tid
  BY <1>2 DEF threadVars
<1>4. Sound' <=> Sound
  BY <1>2 DEF Sound
<1>5. CASE cmd[c] \in {"init", "undo_analy"}
  <2>1. TidInv'
    BY <1>3 DEF TInv, TidInv
  <2>2. CASE ~Sound
    BY <1>4, <2>1, <2>2 DEF TInv, ThreadInv, CaptureInv
  <2>3. CASE Sound
    <3>1. \A t : ~JoinDue(c, t)
      BY <1>5 DEF JoinDue, Serving
    <3>2. ended = {} /\ cancelled = {} /\ \A th \in running : th[1] = Forgotten
      BY <2>3, <3>1, OnlyForgotten
    <3>3. cmd'[c] = "run" /\ Len(todo'[c]) = 13 /\ \A t : JoinDue(c, t)'
      BY <1>1, <1>5 DEF JoinDue, Serving
    <3>4. ThreadInv(c)'
      <4>1. \A th \in running \cup ended :
               th[1] # Forgotten \/ th \in ended \cup cancelled => th = tid[Slot(th[1])]
        BY <3>2
      <4>2. QED BY <1>3, <3>2, <3>3, <4>1 DEF ThreadInv
    <3>5. CaptureInv(c)'
      <4>1. Forgotten \notin {Web, NoWeb} /\ 13 \notin {11, 12}
        BY DEF Forgotten, Web, NoWeb, Log
      <4>2. QED BY <1>3, <3>2, <3>3, <4>1 DEF CaptureInv
    <3>6. QED BY <2>1, <3>4, <3>5 DEF TInv
  <2>4. QED BY <2>2, <2>3
<1>6. CASE cmd[c] \in {"run", "rebuild"}
  <2>1. cmd'[c] = "idle" /\ isboot' = 1
    BY <1>1, <1>6 DEF BootInv
  <2>2. \A t \in Roles : JoinDue(c, t)'
    BY <2>1 DEF JoinDue, Serving
  <2>3. Sound => cancelled = {} /\ ended = {}
    BY <1>6 DEF TInv, ThreadInv
  <2>4. CaptureDue(c) /\ ~(cmd[c] = "run" /\ Len(todo[c]) = 13)
    BY <1>1, <1>6 DEF CaptureDue, Serving
  <2>5. QED BY <1>2, <2>1, <2>2, <2>3, <2>4, ThreadSame
<1>7. CASE cmd[c] \in {"stop", "undo"}
  <2>1. cmd'[c] = "idle" /\ isboot' = 0
    BY <1>1, <1>7 DEF BootInv
  <2>2. \A t : ~JoinDue(c, t)
    BY <1>1, <1>7 DEF JoinDue, Serving, Pending
  <2>3. Sound => cancelled = {} /\ ended = {}
    BY <2>2, OnlyForgotten
  <2>4. ~CaptureDue(c)'
    BY <2>1 DEF CaptureDue, Serving
  <2>5. QED BY <1>2, <2>1, <2>2, <2>3, <2>4, ThreadSame
<1>8. QED BY <1>1, <1>2, <1>5, <1>6, <1>7 DEF Parts

LEMMA ThreadRebuild ==
    ASSUME NEW c \in Clients, TypeOK, ProgramInv(c), TInv(c),
           \/ RebuildNew(c) \/ RebuildBuild(c) \/ RebuildLoad(c)
           \/ RebuildStore(c) \/ RebuildDestroy(c)
    PROVE  TInv(c)'
<1>1. /\ cmd[c] = "rebuild" /\ todo[c] # << >> /\ Step(c) /\ failed' = failed
      /\ UNCHANGED threadVars
  BY DEF RebuildNew, RebuildBuild, RebuildLoad, RebuildStore, RebuildDestroy, At
<1>2. cmd'[c] = "rebuild"
  BY <1>1, ProgramStep
<1>3. (\A t : JoinDue(c, t)') /\ CaptureDue(c)
  BY <1>1, <1>2 DEF JoinDue, CaptureDue, Serving
<1>4. Sound => cancelled = {} /\ ended = {}
  BY <1>1 DEF TInv, ThreadInv
<1>5. QED BY <1>1, <1>2, <1>3, <1>4, ThreadSame

\* The role created next and what is left to create.
LEMMA RunsLeft ==
    ASSUME NEW n \in 1..13, 14 - n \in Roles
    PROVE  \E m \in 1..13, t \in Roles : /\ m = n /\ t = 14 - m /\ t = 14 - n
                                         /\ t = 2 => m = 12
                                         /\ t = 3 => m = 11
                                         /\ t # 1 => m # 13
OBVIOUS

LEMMA ThreadRunOk ==
    ASSUME NEW c \in Clients, TypeOK, ProgramInv(c), TInv(c), RunOk(c)
    PROVE  TInv(c)'
<1>1. cmd[c] = "run" /\ todo[c] # << >> /\ Step(c) /\ RunsLike(todo[c])
  BY DEF RunOk, At, ProgramInv
<1> PICK L \in 1..13, t \in Roles : /\ L = Len(todo[c]) /\ t = 14 - L /\ t = Op(c)
                                    /\ t = 2 => L = 12
                                    /\ t = 3 => L = 11
                                    /\ t # 1 => L # 13
  <2>1. Len(todo[c]) \in 1..13 /\ 14 - Len(todo[c]) \in Roles /\ Op(c) = 14 - Len(todo[c])
    BY <1>1, RunsTail DEF Op
  <2>2. \E m \in 1..13, u \in Roles :
           /\ m = Len(todo[c]) /\ u = 14 - m /\ u = 14 - Len(todo[c])
           /\ u = 2 => m = 12
           /\ u = 3 => m = 11
           /\ u # 1 => m # 13
    BY ONLY <2>1, RunsLeft
  <2>3. QED BY ONLY <2>1, <2>2
<1> PICK th : th = <<t, Least(FreeIds(t))>>
  OBVIOUS
<1>2. /\ th \in Threads \ (running \cup ended) /\ th[1] = t
      /\ running' = running \cup {th} /\ tid' = [tid EXCEPT ![Slot(t)] = th]
      /\ ended' = ended /\ cancelled' = cancelled /\ failed \subseteq failed'
  BY NewThread DEF RunOk, Fail
<1>3. cmd'[c] = "run" /\ Len(todo'[c]) = L - 1
  BY <1>1, ProgramStep, RunsTail
<1>4. Slot(t) \in 1..Outside /\ tid'[Slot(t)] = th
      /\ \A x \in 1..Outside \ {Slot(t)} : tid'[x] = tid[x]
  BY <1>2, SlotIs DEF TypeOK
<1>5. Sound' => Sound
  BY <1>2, SoundGrows
<1>6. TidInv'
  BY <1>2, <1>4 DEF TInv, TidInv
<1>7. ThreadInv(c)'
  <2> SUFFICES ASSUME Sound PROVE ThreadInv(c)'
    BY <1>5 DEF ThreadInv
  <2>1. cancelled = {} /\ ended = {}
    BY <1>1 DEF TInv, ThreadInv
  <2>2. \A u \in running : u[1] # Forgotten => u = tid[Slot(u[1])] /\ u[1] < t
    BY <1>1 DEF TInv, ThreadInv
  <2>3. ASSUME NEW u \in running, u[1] # Forgotten
        PROVE  u = tid'[Slot(u[1])] /\ u[1] < 14 - (L - 1)
    <3>1. u[1] \in Roles /\ Slot(u[1]) \in 1..Outside
      BY ThreadRole
    <3>2. Slot(u[1]) # Slot(t)
      BY <2>2, <2>3, <3>1, SlotIs
    <3>3. u[1] < 14 - (L - 1)
      <4>1. \A v \in Roles : v < t => v < 14 - (L - 1)
        BY DEF Roles
      <4>2. QED BY <2>2, <2>3, <3>1, <4>1
    <3>4. QED BY <1>4, <2>2, <2>3, <3>1, <3>2, <3>3
  <2>4. th = tid'[Slot(th[1])] /\ th[1] < 14 - (L - 1)
    BY <1>2, <1>4
  <2>5. \A x : JoinDue(c, x)'
    BY <1>3 DEF JoinDue, Serving
  <2>6. QED BY <1>2, <1>3, <2>1, <2>3, <2>4, <2>5 DEF ThreadInv
<1>8. CaptureInv(c)'
  <2> SUFFICES ASSUME Sound PROVE CaptureInv(c)'
    BY <1>5 DEF CaptureInv
  <2>1. CASE t = Capture
    BY <1>2, <2>1 DEF CaptureInv, CaptureRuns
  <2>2. CASE t # Capture
    <3>1. CaptureDue(c)
      BY <1>1 DEF CaptureDue, Serving
    <3>2. /\ (\E u \in running : u[1] \in {Web, NoWeb}) => CaptureRuns
          /\ "create" \notin failed /\ ~(cmd[c] = "run" /\ Len(todo[c]) = 13) => CaptureRuns
          /\ cmd[c] = "run" /\ Len(todo[c]) \in {11, 12} => CaptureRuns
      BY <3>1 DEF TInv, CaptureInv
    <3>3. L # 13 /\ (L - 1 \in {11, 12} => L \in {11, 12})
          /\ (t \in {Web, NoWeb} => L \in {11, 12})
      <4>1. t # 1
        BY <2>2 DEF Capture
      <4>2. L # 13
        BY <4>1
      <4>3. L - 1 \in {11, 12} => L = 12 \/ L = 13
        OBVIOUS
      <4>4. t = 2 \/ t = 3 => L = 12 \/ L = 11
        OBVIOUS
      <4>5. QED BY <4>2, <4>3, <4>4 DEF Web, NoWeb
    <3>4. CaptureRuns => CaptureRuns'
      BY <1>2 DEF CaptureRuns
    <3>5. /\ (\E u \in running' : u[1] \in {Web, NoWeb}) => CaptureRuns
          /\ "create" \notin failed' => CaptureRuns
          /\ L - 1 \in {11, 12} => CaptureRuns
      BY <1>1, <1>2, <3>2, <3>3
    <3>6. QED BY <1>3, <3>4, <3>5 DEF CaptureInv
  <2>3. QED BY <2>1, <2>2
<1>9. QED BY <1>6, <1>7, <1>8 DEF TInv

LEMMA ThreadRunFails ==
    ASSUME NEW c \in Clients, TypeOK, ProgramInv(c), TInv(c), RunFails(c)
    PROVE  TInv(c)'
<1>1. /\ cmd[c] = "run" /\ todo[c] # << >>
      /\ Len(todo[c]) \in 1..13 /\ Op(c) = 14 - Len(todo[c])
      /\ cmd'[c] = "run" /\ Len(todo'[c]) = 14 - After(Op(c))
      /\ After(Op(c)) \in (Op(c) + 1)..14 /\ Op(c) \in Roles
      /\ After(Op(c)) # 2
      /\ After(Op(c)) = 3 => Op(c) = 2
  BY RunFailsProgram
<1>a. PICK a \in Int : a = After(Op(c))
  BY <1>1 DEF Roles
<1> PICK L \in 1..13, t \in Roles : /\ L = Len(todo[c]) /\ t = 14 - L /\ a = After(Op(c))
                                    /\ t = Op(c) /\ (t = 2 => L = 12)
  <2>1. Len(todo[c]) \in 1..13 /\ 14 - Len(todo[c]) \in Roles /\ Op(c) = 14 - Len(todo[c])
    BY <1>1
  <2>2. \E m \in 1..13, u \in Roles :
           /\ m = Len(todo[c]) /\ u = 14 - m /\ u = 14 - Len(todo[c])
           /\ u = 2 => m = 12
           /\ u = 3 => m = 11
           /\ u # 1 => m # 13
    BY ONLY <2>1, RunsLeft
  <2>3. QED BY ONLY <1>a, <2>1, <2>2
<1>2. /\ running' = running /\ ended' = ended /\ cancelled' = cancelled /\ tid' = tid
      /\ failed \subseteq failed' /\ "create" \in failed'
  BY DEF RunFails, threadVars, Fail
<1>3. Sound' => Sound
  BY <1>2, SoundGrows
<1>4. TidInv'
  BY <1>2 DEF TInv, TidInv
<1>5. a \in Int /\ a > t /\ a <= 14 /\ Len(todo'[c]) = 14 - a
  BY <1>1 DEF Roles
<1>6. ThreadInv(c)'
  <2> SUFFICES ASSUME Sound PROVE ThreadInv(c)'
    BY <1>3 DEF ThreadInv
  <2>1. /\ cancelled = {} /\ ended = {}
        /\ \A u \in running : u[1] # Forgotten => u = tid[Slot(u[1])] /\ u[1] < t
    BY <1>1 DEF TInv, ThreadInv
  <2>2. \A u \in running : u[1] # Forgotten => u[1] < 14 - Len(todo'[c])
    <3>1. 14 - Len(todo'[c]) = a
      BY <1>5
    <3>2. \A x \in Roles : x < t => x < a
      BY <1>5 DEF Roles
    <3>3. QED BY <2>1, <3>1, <3>2, ThreadRole
  <2>3. \A x : JoinDue(c, x)'
    BY <1>1 DEF JoinDue, Serving
  <2>4. QED BY <1>1, <1>2, <2>1, <2>2, <2>3 DEF ThreadInv
<1>7. CaptureInv(c)'
  <2> SUFFICES ASSUME Sound PROVE CaptureInv(c)'
    BY <1>3 DEF CaptureInv
  <2>1. CaptureDue(c)
    BY <1>1 DEF CaptureDue, Serving
  <2>2. /\ (\E u \in running : u[1] \in {Web, NoWeb}) => CaptureRuns
        /\ L \in {11, 12} => CaptureRuns
    BY <1>1, <2>1 DEF TInv, CaptureInv
  <2>3. Len(todo'[c]) \in {11, 12} => L \in {11, 12}
    <3>1. SUFFICES ASSUME 14 - a \in {11, 12} PROVE L \in {11, 12}
      BY <1>5
    <3>2. a = 2 \/ a = 3
      BY <1>5, <3>1
    <3>3. t = 2
      BY <1>1, <3>2
    <3>4. L = 12
      BY <3>3
    <3>5. QED BY <3>4
  <2>4. CaptureRuns' <=> CaptureRuns
    BY <1>2 DEF CaptureRuns
  <2>5. QED BY <1>2, <2>2, <2>3, <2>4 DEF CaptureInv
<1>8. QED BY <1>4, <1>6, <1>7 DEF TInv

\* The step of a program that ends threads: a join or cancellation is behind.
LEMMA JoinEnd ==
    ASSUME NEW c \in Clients, TypeOK, ProgramInv(c), cmd[c] \in {"stop", "undo", "undo_analy"},
           todo[c] # << >>, Step(c)
    PROVE  /\ cmd'[c] = cmd[c]
           /\ \A t : JoinDue(c, t) => (Op(c).do = "join" /\ Op(c).on = t) \/ JoinDue(c, t)'
           /\ CaptureDue(c)' => CaptureDue(c) /\ cmd[c] = "stop" /\ Op(c).do = "release"
<1>1. cmd'[c] = cmd[c] /\ todo'[c] = Tail(todo[c])
  BY ProgramStep
<1> PICK q : q = todo[c]
  OBVIOUS
<1>2. CASE cmd[c] = "stop"
  <2>1. StopLike(q) /\ q \in Seq(StopOps) /\ Op(c) = q[1]
    BY <1>2, StopTail DEF ProgramInv, Op
  <2>2. \A d, x : /\ Pending(d, x, q) <=> (q[1].do = d /\ q[1].on = x) \/ Pending(d, x, Tail(q))
                  /\ Pending(d, x, q) <=> \/ q[1].do = d /\ q[1].on = x
                                          \/ \E j \in 2..Len(q) : q[j].do = d /\ q[j].on = x
    BY <2>1, TailPending
  <2>3. /\ \A t : JoinDue(c, t) <=> Pending("join", t, q)
        /\ \A t : JoinDue(c, t)' <=> Pending("join", t, Tail(q))
        /\ CaptureDue(c) <=> Pending("cancel", Capture, q)
        /\ CaptureDue(c)' <=> Pending("cancel", Capture, Tail(q))
    BY <1>1, <1>2 DEF JoinDue, CaptureDue, Serving
  <2>4. \A t : JoinDue(c, t) => (Op(c).do = "join" /\ Op(c).on = t) \/ JoinDue(c, t)'
    <3>1. \A t : Pending("join", t, q) =>
                    (q[1].do = "join" /\ q[1].on = t) \/ Pending("join", t, Tail(q))
      BY <2>2
    <3>2. QED BY <2>1, <2>3, <3>1
  <2>5. CaptureDue(c)' => CaptureDue(c)
    BY <2>2, <2>3
  <2>6. ASSUME CaptureDue(c)' PROVE Op(c).do = "release"
    <3>1. Len(q) \in Nat \ {0} /\ Len(Tail(q)) = Len(q) - 1
          /\ \A i \in 1..(Len(q) - 1) : Tail(q)[i] = q[i + 1]
      BY <2>1, TailIs
    <3>2. PICK i \in 1..(Len(q) - 1) : q[i + 1].do = "cancel" /\ q[i + 1].on = Capture
      BY <2>3, <2>6, <3>1 DEF Pending
    <3>3. i + 1 \in 1..Len(q) /\ 1 \in 1..((i + 1) - 1)
      BY <3>1
    <3>4. QED BY <2>1, <3>2, <3>3 DEF StopLike, CaptureFirst
  <2>7. QED BY <1>1, <1>2, <2>4, <2>5, <2>6
<1>3. CASE cmd[c] # "stop"
  BY <1>1, <1>3 DEF JoinDue, CaptureDue, Serving
<1>4. QED BY <1>2, <1>3

LEMMA ThreadRelease ==
    ASSUME NEW c \in Clients, TypeOK, ProgramInv(c), TInv(c),
           ReleaseStep(c) \/ SpamNotSaved(c)
    PROVE  TInv(c)'
<1>1. /\ todo[c] # << >> /\ cmd[c] \in {"stop", "undo", "undo_analy"}
      /\ Op(c).do = "release" /\ Step(c) /\ UNCHANGED threadVars /\ failed \subseteq failed'
  BY DoingIs DEF ReleaseStep, SpamNotSaved, Fail
<1>2. /\ cmd'[c] = cmd[c]
      /\ \A t : JoinDue(c, t) => JoinDue(c, t)'
      /\ CaptureDue(c)' => CaptureDue(c) /\ cmd[c] = "stop"
  BY <1>1, JoinEnd
<1>3. Sound /\ (cmd'[c] # "stop" \/ CaptureDue(c)') => cancelled = {} /\ ended = {}
  BY <1>2 DEF TInv, ThreadInv
<1>4. QED BY <1>1, <1>2, <1>3, ThreadSame

LEMMA ThreadCancel ==
    ASSUME NEW c \in Clients, TypeOK, ProgramInv(c), TInv(c), CancelStep(c)
    PROVE  TInv(c)'
<1>1. /\ todo[c] # << >> /\ cmd[c] = "stop" /\ Op(c).on \in Roles
      /\ Op(c).do = "cancel" /\ Step(c) /\ Named(c) \in running
      /\ cancelled' = cancelled \cup {Named(c)} /\ failed' = failed
      /\ running' = running /\ ended' = ended /\ tid' = tid
  BY DoingIs DEF CancelStep
<1>2. /\ cmd'[c] = "stop" /\ \A t : JoinDue(c, t) => JoinDue(c, t)'
      /\ ~CaptureDue(c)'
  BY <1>1, JoinEnd
<1>3. TidInv' /\ (Sound' <=> Sound)
  BY <1>1 DEF TInv, TidInv, Sound
<1>4. ThreadInv(c)'
  <2> SUFFICES ASSUME Sound PROVE ThreadInv(c)'
    BY <1>3 DEF ThreadInv
  <2>1. Named(c) = tid[Slot(Named(c)[1])]
    <3>1. Slot(Op(c).on) \in 1..Outside /\ Named(c) # NoThread
      <4>1. Named(c) \in Threads
        BY <1>1 DEF TypeOK
      <4>2. NoThread \notin Threads
        BY DEF NoThread, Threads, Roles
      <4>3. QED BY <1>1, <4>1, <4>2, SlotIs
    <3>2. Slot(Named(c)[1]) = Slot(Op(c).on)
      BY <3>1 DEF TInv, TidInv, Named
    <3>3. QED BY <3>2 DEF Named
  <2>2. /\ \A th \in running \cup ended :
              th[1] # Forgotten \/ th \in ended \cup cancelled => th = tid[Slot(th[1])]
        /\ \A th \in running \cup ended : th = tid[Slot(th[1])] => JoinDue(c, th[1])
    BY DEF TInv, ThreadInv
  <2>3. \A th \in running \cup ended :
           th[1] # Forgotten \/ th \in ended' \cup cancelled' => th = tid[Slot(th[1])]
    BY <1>1, <2>1, <2>2
  <2>4. ASSUME NEW th \in running \cup ended, th = tid[Slot(th[1])]
        PROVE  JoinDue(c, th[1])'
    <3> PICK t : t = th[1]
      OBVIOUS
    <3>1. JoinDue(c, t)'
      BY <1>2, <2>2, <2>4
    <3>2. QED BY <3>1
  <2>5. QED BY <1>1, <1>2, <2>3, <2>4 DEF ThreadInv
<1>5. CaptureInv(c)'
  BY <1>2 DEF CaptureInv
<1>6. QED BY <1>3, <1>4, <1>5 DEF TInv

LEMMA ThreadJoin ==
    ASSUME NEW c \in Clients, TypeOK, ProgramInv(c), TInv(c), JoinStep(c)
    PROVE  TInv(c)'
<1>1. /\ todo[c] # << >> /\ cmd[c] = "stop" /\ Op(c).on \in Roles
      /\ Op(c).do = "join" /\ Step(c) /\ Named(c) \notin running
      /\ ended' = ended \ {Named(c)} /\ failed' = failed
      /\ running' = running /\ cancelled' = cancelled /\ tid' = tid
  BY DoingIs DEF JoinStep
<1>2. /\ cmd'[c] = "stop"
      /\ \A t : JoinDue(c, t) => Op(c).on = t \/ JoinDue(c, t)'
      /\ ~CaptureDue(c)'
  BY <1>1, JoinEnd
<1>3. TidInv' /\ (Sound' <=> Sound)
  BY <1>1 DEF TInv, TidInv, Sound
<1>4. ThreadInv(c)'
  <2> SUFFICES ASSUME Sound PROVE ThreadInv(c)'
    BY <1>3 DEF ThreadInv
  <2>1. /\ \A th \in running \cup ended :
              th[1] # Forgotten \/ th \in ended \cup cancelled => th = tid[Slot(th[1])]
        /\ \A th \in running \cup ended : th = tid[Slot(th[1])] => JoinDue(c, th[1])
    BY DEF TInv, ThreadInv
  <2>2. ASSUME NEW th \in running' \cup ended', th = tid[Slot(th[1])]
        PROVE  JoinDue(c, th[1])'
    <3> PICK t : t = th[1]
      OBVIOUS
    <3>1. th \in running \cup ended /\ th # Named(c)
      BY <1>1
    <3>2. Op(c).on # t
      BY <2>2, <3>1 DEF Named
    <3>3. JoinDue(c, t)'
      BY <1>2, <2>1, <2>2, <3>1, <3>2
    <3>4. QED BY <3>3
  <2>3. QED BY <1>1, <1>2, <2>1, <2>2 DEF ThreadInv
<1>5. CaptureInv(c)'
  BY <1>2 DEF CaptureInv
<1>6. QED BY <1>3, <1>4, <1>5 DEF TInv

\* analy_stop returns early only when the capture thread does not run, and then
\* no analysis thread does.
LEMMA CaptureGone ==
    ASSUME NEW c \in Clients, TypeOK, ProgramInv(c), TInv(c), Sound, CancelEnded(c),
           Op(c).on = Capture
    PROVE  /\ CaptureDue(c) /\ "create" \in failed /\ cancelled = {} /\ ended = {}
           /\ \A th \in running : th[1] \in AfterRoles
           /\ \A t \in AfterRoles : Pending("join", t, todo[c])
           /\ \A r \in AfterReleases : Pending("release", r, todo[c])
<1>1. /\ cmd[c] = "stop" /\ todo[c] # << >> /\ StopLike(todo[c]) /\ Named(c) \notin running
      /\ Op(c) = Head(todo[c]) /\ Op(c).do = "cancel"
  BY CancelEndedProgram DEF CancelEnded
<1> PICK q : q = todo[c]
  OBVIOUS
<1>2. q \in Seq(StopOps) /\ Len(q) \in Nat \ {0} /\ Head(q) = q[1]
  BY <1>1, TailIs DEF StopLike
<1>3. 1 \in 1..Len(q) /\ q[1].do = "cancel" /\ q[1].on = Capture
  BY <1>1, <1>2
<1>4. /\ Pending("cancel", Capture, q)
      /\ \A t \in AfterRoles : Pending("join", t, q)
      /\ \A r \in AfterReleases : Pending("release", r, q)
  <2>1. \A j \in (1 + 1)..Len(q) : j \in 1..Len(q)
    BY <1>2
  <2>2. QED BY <1>1, <1>3, <2>1 DEF StopLike, CaptureFirst, Pending
<1>5. CaptureDue(c)
  BY <1>1, <1>4 DEF CaptureDue
<1>6. cancelled = {} /\ ended = {}
  BY <1>5 DEF TInv, ThreadInv
<1>7. ~CaptureRuns
  <2>1. ASSUME NEW th \in running, th[1] = Capture PROVE FALSE
    <3>1. th = tid[Slot(Capture)]
      BY <2>1 DEF TInv, ThreadInv, Capture, Forgotten, Log
    <3>2. QED BY <1>1, <2>1, <3>1 DEF Named
  <2>2. QED BY <2>1 DEF CaptureRuns
<1>8. "create" \in failed /\ \A th \in running : th[1] \notin {Web, NoWeb}
  BY <1>1, <1>5, <1>7 DEF TInv, CaptureInv
<1>9. \A th \in running : th[1] \in AfterRoles
  <2>1. \A t \in Roles : t \notin {Capture, Web, NoWeb} => t \in AfterRoles
    BY DEF Roles, AfterRoles, Capture, Web, NoWeb, Monitor, Log
  <2>2. QED BY <1>7, <1>8, <2>1, ThreadRole DEF CaptureRuns
<1>10. QED BY <1>4, <1>5, <1>6, <1>8, <1>9

LEMMA ThreadCancelEnded ==
    ASSUME NEW c \in Clients, TypeOK, ProgramInv(c), TInv(c), CancelEnded(c)
    PROVE  TInv(c)'
<1>1. /\ cmd[c] = "stop" /\ cmd'[c] = "stop" /\ todo[c] # << >>
      /\ Op(c).do = "cancel" /\ UNCHANGED threadVars /\ failed' = failed
  BY CancelEndedProgram DEF CancelEnded
<1>2. CASE Step(c)
  <2>1. (\A t : JoinDue(c, t) => JoinDue(c, t)') /\ ~CaptureDue(c)'
    BY <1>1, <1>2, JoinEnd
  <2>2. QED BY <1>1, <2>1, ThreadSame
<1>3. CASE Op(c).on = Capture /\ Go(c, "stop", AfterAnaly)
  <2>1. todo'[c] = AfterAnaly
    BY <1>3 DEF Go, TypeOK
  <2>2. /\ ~CaptureDue(c)'
        /\ \A t \in AfterRoles : JoinDue(c, t)'
    BY <1>1, <2>1, StopIs DEF CaptureDue, JoinDue, Serving
  <2>3. Sound => \A th \in running \cup ended : th[1] \in AfterRoles
    BY <1>3, CaptureGone
  <2>4. \A t \in Roles : Sound /\ JoinDue(c, t) =>
              \/ JoinDue(c, t)'
              \/ \A th \in running \cup ended : th[1] # t
    BY <2>2, <2>3
  <2>5. QED BY <1>1, <2>2, <2>4, ThreadSame
<1>4. QED BY <1>2, <1>3 DEF CancelEnded

LEMMA ResCancelEnded ==
    ASSUME NEW c \in Clients, TypeOK, ProgramInv(c), TInv(c), RInv(c), CancelEnded(c)
    PROVE  RInv(c)'
<1>1. CASE Step(c)
  BY <1>1, ResJoin
<1>2. CASE Op(c).on = Capture /\ Go(c, "stop", AfterAnaly)
  <2>1. /\ cmd[c] = "stop" /\ cmd'[c] = "stop" /\ todo'[c] = AfterAnaly
        /\ cur' = cur /\ live' = live /\ built' = built /\ failed' = failed
    BY <1>2, CancelEndedProgram DEF CancelEnded, resVars, Go, TypeOK
  <2>2. (Sound' <=> Sound) /\ \A r : Clean(r)' <=> Clean(r)
    BY <2>1 DEF Sound, Clean
  <2>3. CASE ~Sound
    BY <2>2, <2>3 DEF RInv, OpenInv, WordsInv, RebuildInv, LeftInv
  <2>4. CASE Sound
    <3>1. "create" \in failed /\ \A r \in AfterReleases : Pending("release", r, todo[c])
      BY <1>2, <2>4, CaptureGone
    <3>2. /\ \A r : There(c, r)' => There(c, r)
          /\ Worded(c)' => Worded(c)
      BY <2>1, <3>1, StopIs DEF There, Worded, Serving
    <3>3. OpenInv(c)' /\ WordsInv(c)'
      BY <2>1, <2>2, <3>2 DEF RInv, OpenInv, WordsInv, Open
    <3>4. RebuildInv(c)'
      BY <2>1 DEF RebuildInv
    <3>5. LeftInv(c)'
      BY <2>1, <3>1 DEF LeftInv, Clean
    <3>6. QED BY <3>3, <3>4, <3>5 DEF RInv
  <2>5. QED BY <2>3, <2>4
<1>3. QED BY <1>1, <1>2 DEF CancelEnded

LEMMA ThreadExit ==
    ASSUME NEW c \in Clients, TypeOK, ProgramInv(c), TInv(c),
           NEW t \in running, Cancelled(t) \/ CaptureEnds(t)
    PROVE  TInv(c)'
<1>1. /\ cmd' = cmd /\ todo' = todo /\ isboot' = isboot /\ tid' = tid
      /\ running' = running \ {t} /\ ended' = ended \cup {t} /\ cancelled' = cancelled \ {t}
  BY DEF Cancelled, CaptureEnds, Exit
<1>2. TidInv'
  BY <1>1 DEF TInv, TidInv
<1>3. CASE CaptureEnds(t)
  <2>1. ~Sound'
    BY <1>3 DEF CaptureEnds, Fail, Sound
  <2>2. QED BY <1>2, <2>1 DEF TInv, ThreadInv, CaptureInv
<1>4. CASE Cancelled(t)
  <2>1. t \in cancelled /\ failed' = failed
    BY <1>4 DEF Cancelled
  <2>2. (Sound' <=> Sound) /\ (\A x : JoinDue(c, x)' <=> JoinDue(c, x))
        /\ (CaptureDue(c)' <=> CaptureDue(c))
    BY <1>1, <2>1 DEF Sound, JoinDue, CaptureDue, Serving
  <2>3. CASE ~Sound
    BY <1>2, <2>2, <2>3 DEF TInv, ThreadInv, CaptureInv
  <2>4. CASE Sound
    <3>1. cmd[c] = "stop" /\ ~CaptureDue(c)
      BY <2>1, <2>4 DEF TInv, ThreadInv
    <3>2. CaptureInv(c)'
      BY <2>2, <3>1 DEF CaptureInv
    <3>3. /\ \A th \in running \cup ended :
                th[1] # Forgotten \/ th \in ended \cup cancelled => th = tid[Slot(th[1])]
          /\ \A th \in running \cup ended : th = tid[Slot(th[1])] => JoinDue(c, th[1])
      BY <2>4 DEF TInv, ThreadInv
    <3>4. \A th \in running' \cup ended' :
             /\ th \in running \cup ended
             /\ th \in ended' \cup cancelled' => th \in ended \cup cancelled
      BY <1>1, <2>1
    <3>5. ASSUME NEW th \in running' \cup ended', th = tid[Slot(th[1])]
          PROVE  JoinDue(c, th[1])'
      <4> PICK x : x = th[1]
        OBVIOUS
      <4>1. JoinDue(c, x)'
        BY <2>2, <3>3, <3>4, <3>5
      <4>2. QED BY <4>1
    <3>6. ThreadInv(c)'
      BY <1>1, <2>2, <3>1, <3>3, <3>4, <3>5 DEF ThreadInv
    <3>7. QED BY <1>2, <3>2, <3>6 DEF TInv
  <2>5. QED BY <2>3, <2>4
<1>5. QED BY <1>3, <1>4

-----------------------------------------------------------------------------
(* The theorems.  They are about a service with one client: a second one can *)
(* start what the first stops, as no command takes a lock.                   *)

LEMMA Initially ==
    ASSUME NEW c, Clients = {c}, Init
    PROVE  IInv(c)
<1>1. TypeOK
  BY DEF Init, TypeOK, Outside, Threads, NoThread, Resources
<1>2. cmd[c] = "idle" /\ todo[c] = << >> /\ isboot = 0
  BY DEF Init
<1>3. ProgramInv(c) /\ BootInv(c) /\ RebuildInv(c)
  BY <1>2 DEF ProgramInv, BootInv, RebuildInv
<1>4. /\ \A r : ~There(c, r) /\ Second(c, r) = {}
      /\ ~Worded(c) /\ ~CaptureDue(c) /\ \A t : ~JoinDue(c, t)
  BY <1>2 DEF There, Second, Worded, JoinDue, CaptureDue, Serving
<1>5. OpenInv(c) /\ WordsInv(c)
  BY <1>4 DEF OpenInv, WordsInv
<1>6. LeftInv(c)
  BY <1>4 DEF LeftInv, Init
<1>7. TidInv
  BY DEF TidInv, Init
<1>8. ThreadInv(c) /\ CaptureInv(c)
  BY <1>2, <1>4 DEF ThreadInv, CaptureInv, Init
<1>9. QED BY <1>1, <1>3, <1>5, <1>6, <1>7, <1>8 DEF IInv

LEMMA Inductive ==
    ASSUME NEW c, Clients = {c}, IInv(c), [Next]_vars
    PROVE  IInv(c)'
<1>0. c \in Clients /\ TypeOK /\ ProgramInv(c) /\ BootInv(c) /\ RInv(c) /\ TInv(c)
  BY DEF IInv, RInv, TInv
<1>1. TypeOK' /\ ProgramInv(c)' /\ BootInv(c)'
  BY <1>0, TypeStep, ProgramBootStep
<1>2. CASE Command(c)
  BY <1>0, <1>1, <1>2, ResCommand, ThreadCommand DEF IInv, RInv, TInv
<1>3. CASE Finish(c)
  BY <1>0, <1>1, <1>3, ResFinish, ThreadFinish DEF IInv, RInv, TInv
<1>4. CASE InitOk(c) \/ Keywords(c) \/ InitFails(c)
  BY <1>0, <1>1, <1>4, ResInitOk, ResKeywords, ResInitFails, ThreadInit DEF IInv, RInv, TInv
<1>5. CASE RunOk(c) \/ RunFails(c)
  BY <1>0, <1>1, <1>5, ResRun, ThreadRunOk, ThreadRunFails DEF IInv, RInv, TInv
<1>6. CASE ReleaseStep(c) \/ SpamNotSaved(c)
  BY <1>0, <1>1, <1>6, ResRelease, ResSpamNotSaved, ThreadRelease DEF IInv, RInv, TInv
<1>7. CASE CancelStep(c) \/ CancelEnded(c) \/ JoinStep(c)
  BY <1>0, <1>1, <1>7, ResJoin, ResCancelEnded, ThreadCancel, ThreadCancelEnded, ThreadJoin
     DEF IInv, RInv, TInv
<1>8. CASE \/ RebuildNew(c) \/ RebuildBuild(c) \/ RebuildLoad(c)
           \/ RebuildStore(c) \/ RebuildDestroy(c)
  BY <1>0, <1>1, <1>8, ResRebuild, ThreadRebuild DEF IInv, RInv, TInv
<1>9. CASE \E t \in running : Cancelled(t) \/ CaptureEnds(t)
  <2>1. PICK t \in running : Cancelled(t) \/ CaptureEnds(t)
    BY <1>9
  <2>2. /\ UNCHANGED <<up, isboot, cmd, todo, cur, live, built, spare, old>>
        /\ failed \subseteq failed'
    BY <2>1 DEF Cancelled, CaptureEnds, Exit, Fail, resVars
  <2>3. QED BY <1>0, <1>1, <2>1, <2>2, ResOther, ThreadExit DEF IInv, RInv, TInv
<1>10. CASE UNCHANGED vars
  <2>1. /\ UNCHANGED <<up, isboot, cmd, todo, cur, live, built, spare, old>>
        /\ UNCHANGED <<running, ended, cancelled, tid, failed>>
    BY <1>10 DEF vars, resVars, threadVars
  <2>2. RInv(c)'
    BY <1>0, <2>1, ResOther
  <2>3. TInv(c)'
    <3>1. /\ Sound' <=> Sound
          /\ \A x : JoinDue(c, x)' <=> JoinDue(c, x)
          /\ CaptureDue(c)' <=> CaptureDue(c)
          /\ CaptureRuns' <=> CaptureRuns
      BY <2>1 DEF Sound, JoinDue, CaptureDue, Serving, CaptureRuns
    <3>2. TidInv' /\ CaptureInv(c)'
      BY <1>0, <2>1, <3>1 DEF TInv, TidInv, CaptureInv
    <3>3. ThreadInv(c)'
      <4>1. ASSUME NEW th \in running \cup ended, JoinDue(c, th[1]) PROVE JoinDue(c, th[1])'
        <5> PICK x : x = th[1]
          OBVIOUS
        <5>1. JoinDue(c, x)'
          BY <3>1, <4>1
        <5>2. QED BY <5>1
      <4>2. QED BY <1>0, <2>1, <3>1, <4>1 DEF TInv, ThreadInv
    <3>4. QED BY <3>2, <3>3 DEF TInv
  <2>4. QED BY <1>1, <2>2, <2>3 DEF IInv, RInv, TInv
<1>11. QED
  BY <1>2, <1>3, <1>4, <1>5, <1>6, <1>7, <1>8, <1>9, <1>10 DEF Next, Operation, Quiet

LEMMA AlwaysInv ==
    ASSUME NEW c, Clients = {c}
    PROVE  Spec => []IInv(c)
<1>1. Init => IInv(c)
  BY Initially
<1>2. IInv(c) /\ [Next]_vars => IInv(c)'
  BY Inductive
<1>3. QED BY <1>1, <1>2, PTL DEF Spec

\* Every variable has the type of what the code keeps in it.
THEOREM TypeCorrect ==
    ASSUME NEW c, Clients = {c}
    PROVE  Spec => []TypeOK
<1>1. IInv(c) => TypeOK
  BY DEF IInv
<1>2. QED BY <1>1, AlwaysInv, PTL

\* A thread that runs on something is still to be joined, and what it needs is
\* released behind that.
LEMMA NeededIs ==
    ASSUME NEW c, Clients = {c}, IInv(c), Sound, NEW th \in running, th[1] # Forgotten
    PROVE  /\ \A r \in Needs(th[1]) : There(c, r)
           /\ "match" \in Needs(th[1]) => Worded(c)
<1>1. JoinDue(c, th[1])
  BY DEF IInv, ThreadInv
<1>2. CASE Serving(c)
  BY <1>2 DEF There, Worded
<1>3. CASE cmd[c] = "stop" /\ Pending("join", th[1], todo[c])
  <2>1. PICK i \in 1..Len(todo[c]) : todo[c][i].do = "join" /\ todo[c][i].on = th[1]
    BY <1>3 DEF Pending
  <2>2. JoinsFirst(todo[c], {}) /\ todo[c] \in Seq(StopOps)
    BY <1>3 DEF IInv, ProgramInv, StopLike
  <2>3. \A r \in Needs(th[1]) :
           \E j \in (i + 1)..Len(todo[c]) : todo[c][j].do = "release" /\ todo[c][j].on = r
    BY <2>1, <2>2 DEF JoinsFirst
  <2>4. \A j \in (i + 1)..Len(todo[c]) : j \in 1..Len(todo[c])
    BY <2>2
  <2>5. \A r \in Needs(th[1]) : Pending("release", r, todo[c])
    BY <2>3, <2>4 DEF Pending
  <2>6. QED BY <1>3, <2>5 DEF There, Worded
<1>4. QED BY <1>1, <1>2, <1>3 DEF JoinDue

\* server_start and server_stop (main.c) create and release in an order in which no
\* thread runs on a queue, table, automaton or socket that is not there.
THEOREM UsesAreOpen ==
    ASSUME NEW c, Clients = {c}
    PROVE  Spec => []UsesOpen
<1>1. ASSUME IInv(c) PROVE UsesOpen
  <2> SUFFICES ASSUME Sound, NEW th \in running, th[1] # Forgotten,
                      NEW r \in Uses(th[1]) \ ReleasedEarly(th[1])
               PROVE  Open(r)
    BY DEF UsesOpen
  <2>1. There(c, r)
    BY <1>1, NeededIs DEF Needs
  <2>2. r \in Resources
    BY DEF Uses, Resources
  <2>3. QED BY <1>1, <2>1, <2>2 DEF IInv, OpenInv
<1>2. IInv(c) => UsesOpen
  BY <1>1
<1>3. QED BY <1>2, AlwaysInv, PTL

\* Whenever a thread looks into match_use the automaton is there and complete, a
\* reload included, and the reload has its database (match.c, match.h).
THEOREM KeywordsAreComplete ==
    ASSUME NEW c, Clients = {c}
    PROVE  Spec => []KeywordsComplete
<1>1. ASSUME IInv(c) PROVE KeywordsComplete
  <2> SUFFICES ASSUME Sound
      PROVE  /\ (\E th \in running : th[1] \in Web..Monitor(1)) => cur["match"] \in built
             /\ \A d \in Clients : cmd[d] = "rebuild" => Open("db")
    BY DEF KeywordsComplete
  <2>1. ASSUME NEW th \in running, th[1] \in Web..Monitor(1) PROVE cur["match"] \in built
    <3>1. /\ th[1] # Forgotten
          /\ th[1] = Web \/ th[1] = NoWeb \/ th[1] \in 4..5
      BY <2>1 DEF Web, NoWeb, Monitor, Forgotten, Log
    <3>2. "match" \in Needs(th[1])
      BY <3>1, NeedsAre
    <3>3. Worded(c)
      BY <1>1, <3>1, <3>2, NeededIs
    <3>4. QED BY <1>1, <3>3 DEF IInv, WordsInv
  <2>2. ASSUME cmd[c] = "rebuild" PROVE Open("db")
    <3>1. There(c, "db") /\ "db" \in Resources
      BY <2>2 DEF There, Serving, Resources
    <3>2. QED BY <1>1, <3>1 DEF IInv, OpenInv
  <2>3. QED BY <2>1, <2>2
<1>2. IInv(c) => KeywordsComplete
  BY <1>1
<1>3. QED BY <1>2, AlwaysInv, PTL

\* Two threads of a role never run, across any number of starts, stops and failed
\* starts: a queue has one consumer.
THEOREM OneThreadOfRole ==
    ASSUME NEW c, Clients = {c}
    PROVE  Spec => []OneThreadEach
<1>1. IInv(c) => OneThreadEach
  BY DEF IInv, ThreadInv, OneThreadEach
<1>2. QED BY <1>1, AlwaysInv, PTL

\* server_start, server_stop and match_rebuild release nothing twice.
THEOREM ReleasedOnce ==
    ASSUME NEW c, Clients = {c}
    PROVE  Spec => []ReleaseOnce
<1>1. ASSUME IInv(c) PROVE ReleaseOnce
  <2> SUFFICES ASSUME Sound
      PROVE  /\ Doing(c, "release") => Open(Op(c).on)
             /\ At(c, "rebuild") /\ Op(c) = "destroy" => old[c] \in live["match"]
    BY DEF ReleaseOnce
  <2>1. ASSUME Doing(c, "release") PROVE Open(Op(c).on)
    <3>1. /\ todo[c] # << >> /\ cmd[c] \in {"stop", "undo", "undo_analy"}
          /\ Op(c) = Head(todo[c]) /\ Op(c).do = "release" /\ Op(c).on \in Resources
      BY <1>1, <2>1, DoingIs DEF IInv
    <3>2. cmd[c] # "undo_analy"
      BY <1>1 DEF IInv, BootInv, Sound
    <3>3. PICK S : todo[c] \in Seq(S)
      BY <1>1, <3>1 DEF IInv, ProgramInv, StopLike, UndoLike
    <3>4. Len(todo[c]) \in Nat \ {0} /\ Op(c) = todo[c][1]
      BY <3>1, <3>3, TailIs
    <3>5. Pending("release", Op(c).on, todo[c])
      BY <3>1, <3>4 DEF Pending
    <3>6. There(c, Op(c).on)
      BY <3>1, <3>2, <3>5 DEF There
    <3>7. QED BY <1>1, <3>1, <3>6 DEF IInv, OpenInv
  <2>2. ASSUME At(c, "rebuild") /\ Op(c) = "destroy" PROVE old[c] \in live["match"]
    <3>1. Len(todo[c]) = 1 /\ up /\ cmd[c] = "rebuild"
      BY <1>1, <2>2, RebuildTail DEF IInv, ProgramInv, At, Op
    <3>2. QED BY <1>1, <3>1 DEF IInv, RebuildInv
  <2>3. QED BY <2>1, <2>2
<1>2. IInv(c) => ReleaseOnce
  BY <1>1
<1>3. QED BY <1>2, AlwaysInv, PTL

\* When the service is down nothing is left of it but what the error paths of
\* server_start and the forgotten log thread are known to leave.
THEOREM NothingIsLeft ==
    ASSUME NEW c, Clients = {c}
    PROVE  Spec => []NothingLeft
<1>1. ASSUME IInv(c) PROVE NothingLeft
  <2> SUFFICES ASSUME AtRest, isboot = 0, Sound, "create" \notin failed
      PROVE  /\ ended = {} /\ \A th \in running : th[1] = Forgotten
             /\ \A r \in Resources : live[r] # {} =>
                  \/ r \in {"db", "spam"} /\ failed # {}
                  \/ r \in LeavesPart \cap failed
    BY DEF NothingLeft
  <2>1. cmd[c] = "idle" /\ up
    BY DEF AtRest
  <2>2. (\A t : ~JoinDue(c, t)) /\ \A r : ~There(c, r)
    BY <2>1 DEF JoinDue, There, Serving
  <2>3. ended = {} /\ \A th \in running : th[1] = Forgotten
    BY <1>1, <2>2, OnlyForgotten DEF IInv, TInv
  <2>4. \A r \in Resources : Clean(r) => live[r] = {}
    BY <1>1, <2>1, <2>2 DEF IInv, LeftInv
  <2>5. QED BY <2>3, <2>4 DEF Clean
<1>2. IInv(c) => NothingLeft
  BY <1>1
<1>3. QED BY <1>2, AlwaysInv, PTL
-----------------------------------------------------------------------------
(* The spam filter.  What is kept about the table: a word is in the bucket  *)
(* of its hash (TableOf), and as long as no two filters ran at once, in one *)
(* node of it (Distinct).                                                   *)

TableOf(t) ==
    /\ t \in [0..Size - 1 -> Seq(Words)]
    /\ \A i \in 0..Size - 1 : \A j \in 1..Len(t[i]) : Hash[t[i][j]] = i
Distinct(t) ==
    \A i \in 0..Size - 1 : \A j, k \in 1..Len(t[i]) : t[i][j] = t[i][k] => j = k

\* The words at the nodes of the buckets before the i-th, and in the i-th up to
\* the j-th node; and those of the buckets up to the i-th.
Passed(t, i, j) ==
    {KeyOf(t, n) : n \in {p \in Places(t) : p[1] < i \/ (p[1] = i /\ p[2] <= j)}}
AllOf(t, i) == {KeyOf(t, n) : n \in {p \in Places(t) : p[1] <= i}}

\* A filter r that runs alone: what it has read of the mail, ...
Reads(r, word) ==
    /\ r.pc = "token" => r.test \cup Range(r.todo) = Range(r.mail)
    /\ r.pc = "insert" => r.test \cup {word} \cup Range(r.todo) = Range(r.mail)
    /\ r.pc \in {"token", "insert", "rewalk", "reindex"} => r.counted = {}
    /\ r.pc \notin {"token", "insert", "done"} => r.test = Range(r.mail)
\* ... where its walk over table t is, and that it has counted what it passed.
Walks(t, r, index, node) ==
    /\ r.pc \in {"reindex", "index", "bump", "list"} => node = NULL
    /\ r.pc \in {"next", "value", "count"} => node # NULL
    /\ r.pc \in {"node", "next", "value", "count", "index", "bump", "list"} =>
         /\ index <= Size - 1
         /\ node # NULL => node[1] = index
    /\ r.pc \in {"node", "index", "bump"} /\ node = NULL => r.counted = r.test \cap AllOf(t, index)
    /\ r.pc \in {"node", "next"} /\ node # NULL =>
         r.counted = r.test \cap Passed(t, index, node[2])
    /\ r.pc \in {"next", "count"} => r.reg = node
    /\ r.pc \in {"bump", "list"} => r.idx = index
    /\ r.pc = "list" => index >= 0 /\ r.counted = r.test \cap AllOf(t, index - 1)
    /\ r.pc \in {"value", "count"} =>
         /\ r.key = KeyOf(t, node)
         /\ r.counted = r.test \cap Passed(t, index, node[2] - 1)
    /\ r.pc = "done" => r.counted = Range(r.mail) \cap AllOf(t, Size - 1)
    /\ Distinct(t) => ~r.wrong
AloneInv ==
    \A m \in Monitors : mon[m].alone =>
        /\ mon[m].pc # "crashed"
        /\ Busy(m) => \A o \in Monitors \ {m} : ~Busy(o)
        /\ Reads(mon[m], filter_word) /\ Walks(table, mon[m], cur_index, cur_node)
\* What any filter reads and stores is there.
ServiceInv ==
    /\ TableOf(table)
    /\ phase # "running" => mon = [m \in Monitors |-> Idle]
    /\ \A m \in Monitors :
         /\ mon[m].pc = "insert" => filter_word \in Found
         /\ mon[m].pc = "next" => mon[m].reg \in Places(table)
         /\ mon[m].pc = "list" => mon[m].idx \in 0..Size - 1
\* As long as no two filters ran at once, the node of the cursor is in no bucket
\* behind its index, and the file and the table have each word once if the file
\* had at first.
Behind(index, node) == node # NULL => node[1] <= index
FileInv ==
    ~raced =>
        /\ \A m \in Monitors : mon[m].alone
        /\ Behind(cur_index, cur_node)
        /\ IsInjective(File) => IsInjective(file) /\ (phase # "off" => Distinct(table))

SpamInv == SpamTypeOK /\ ServiceInv /\ AloneInv /\ FileInv
-----------------------------------------------------------------------------
(* Recursive functions over numbers, by looking at the least number for     *)
(* which the claim would be false.                                          *)

LEMMA LeastNat ==
    ASSUME NEW T \in SUBSET Nat, T # {}
    PROVE  \E n \in T : \A m \in T : n <= m
<1>1. \E x \in T : \A y \in T : ~ (<<y, x>> \in OpToRel(<, Nat))
  BY WFMin, NatLessThanWellFounded
<1>2. PICK x \in T : \A y \in T : ~ (<<y, x>> \in OpToRel(<, Nat))
  BY <1>1
<1>3. ASSUME NEW y \in T PROVE x <= y
  <2>1. ASSUME y < x PROVE <<y, x>> \in OpToRel(<, Nat)
    <3>1. <<y, x>> \in Nat \X Nat /\ <<y, x>>[1] = y /\ <<y, x>>[2] = x
      OBVIOUS
    <3>2. QED BY <2>1, <3>1 DEF OpToRel
  <2>2. ~(y < x)
    BY <1>2, <2>1
  <2>3. x \in Nat /\ y \in Nat
    OBVIOUS
  <2>4. QED BY <2>2, <2>3
<1>4. QED BY <1>3

LEMMA UpTo ==
    ASSUME NEW n \in Nat, NEW T, 0 \in T,
           \A k \in 0..(n - 1) : k \in T => k + 1 \in T
    PROVE  \A k \in 0..n : k \in T
<1> DEFINE Bad == {k \in 0..n : k \notin T}
<1> SUFFICES ASSUME Bad # {} PROVE FALSE
  OBVIOUS
<1>1. PICK k \in Bad : \A j \in Bad : k <= j
  <2>1. Bad \in SUBSET Nat
    OBVIOUS
  <2>2. QED BY <2>1, LeastNat
<1>2. k \in 0..n /\ k # 0 /\ k \notin T
  BY <1>1
<1>3. k - 1 \in 0..(n - 1) /\ ~(k <= k - 1)
  BY <1>2
<1>4. k - 1 \in T
  BY <1>1, <1>3
<1>5. QED BY <1>2, <1>3, <1>4

\* A function can be defined number by number.
Steps(S, n) == [1..n -> [S -> S]]
Follows(f, S, n, x, step) ==
    f \in [0..n -> S] /\ f[0] = x /\ \A k \in 1..n : f[k] = step[k][f[k - 1]]

LEMMA NumberByNumber ==
    ASSUME NEW S, NEW n \in Nat, NEW x \in S, NEW step \in Steps(S, n)
    PROVE  \E f : Follows(f, S, n, x, step)
<1> USE DEF Steps, Follows
<1> DEFINE Good(k, f) == /\ f \in [0..k -> S] /\ f[0] = x
                         /\ \A i \in 1..k : f[i] = step[i][f[i - 1]]
           T == {k \in 0..n : \E f : Good(k, f)}
<1>1. 0 \in T
  <2>1. Good(0, [i \in 0..0 |-> x])
    OBVIOUS
  <2> HIDE DEF Good
  <2>2. QED BY <2>1
<1>2. ASSUME NEW k \in 0..(n - 1), k \in T PROVE k + 1 \in T
  <2>1. PICK f : Good(k, f)
    BY <1>2
  <2> DEFINE g == [i \in 0..(k + 1) |-> IF i = k + 1 THEN step[k + 1][f[k]] ELSE f[i]]
  <2>2. /\ 0 \in 0..k /\ k \in 0..k /\ k + 1 \in 1..n /\ k + 1 \in 0..n
        /\ \A i \in 0..(k + 1) : i = k + 1 \/ (i \in 0..k /\ i # k + 1)
        /\ \A i \in 0..k : i \in 0..(k + 1) /\ i # k + 1
        /\ k + 1 \in 0..(k + 1)
    OBVIOUS
  <2>3. f[k] \in S /\ step[k + 1][f[k]] \in S
    BY <2>1, <2>2
  <2>4. /\ g[k + 1] = step[k + 1][f[k]]
        /\ \A i \in 0..k : g[i] = f[i]
    BY <2>2
  <2>5. g \in [0..(k + 1) -> S]
    BY <2>1, <2>2, <2>3
  <2> HIDE DEF g
  <2>6. \A i \in 1..(k + 1) : g[i] = step[i][g[i - 1]]
    <3> TAKE i \in 1..(k + 1)
    <3>1. i - 1 \in 0..k /\ g[i - 1] = f[i - 1]
      BY <2>4
    <3>2. CASE i = k + 1
      BY <3>1, <3>2, <2>4
    <3>3. CASE i # k + 1
      <4>1. i \in 1..k /\ i \in 0..k
        BY <3>3
      <4>2. QED BY <4>1, <3>1, <2>1, <2>4
    <3>4. QED BY <3>2, <3>3
  <2>7. g[0] = x
    BY <2>1, <2>2, <2>4
  <2>8. Good(k + 1, g)
    BY <2>5, <2>6, <2>7
  <2> HIDE DEF Good
  <2>9. QED BY <2>2, <2>8
<1>3. n \in T
  <2> HIDE DEF T
  <2>1. \A k \in 0..n : k \in T
    BY <1>1, <1>2, UpTo
  <2>2. QED BY <2>1
<1>4. QED BY <1>3

-----------------------------------------------------------------------------
(* Sequences *)

LEMMA RangeIs ==
    ASSUME NEW S, NEW s \in Seq(S)
    PROVE  /\ Range(s) \subseteq S
           /\ \A w : w \in Range(s) <=> \E j \in 1..Len(s) : s[j] = w
BY DEF Range

LEMMA JoinIs ==
    ASSUME NEW S, NEW u \in Seq(S), NEW v \in Seq(S)
    PROVE  /\ u \o v \in Seq(S)
           /\ Range(u \o v) = Range(u) \cup Range(v)
           /\ IsInjective(u \o v) <=> /\ IsInjective(u) /\ IsInjective(v)
                                      /\ Range(u) \cap Range(v) = {}
<1>1. PICK m \in Nat, n \in Nat : m = Len(u) /\ n = Len(v)
  OBVIOUS
<1>2. PICK s : s = u \o v
  OBVIOUS
<1>3. /\ s \in Seq(S) /\ Len(s) = m + n
      /\ \A i \in 1..(m + n) : s[i] = IF i <= m THEN u[i] ELSE v[i - m]
  <2>1. /\ u \o v \in Seq(S) /\ Len(u \o v) = Len(u) + Len(v)
        /\ \A i \in 1..(Len(u) + Len(v)) :
             (u \o v)[i] = IF i <= Len(u) THEN u[i] ELSE v[i - Len(u)]
    BY ConcatProperties
  <2>2. QED BY <1>1, <1>2, <2>1
<1>4. DOMAIN u = 1..m /\ DOMAIN v = 1..n /\ DOMAIN s = 1..(m + n)
  BY <1>1, <1>3
<1>5. /\ \A i \in 1..m : i \in 1..(m + n) /\ s[i] = u[i]
      /\ \A i \in 1..n : m + i \in 1..(m + n) /\ s[m + i] = v[i]
      /\ \A i \in 1..(m + n) : i \in 1..m \/ (i - m \in 1..n /\ m + (i - m) = i)
  <2>1. /\ \A i \in 1..m : i \in 1..(m + n) /\ i <= m
        /\ \A i \in 1..n : m + i \in 1..(m + n) /\ ~(m + i <= m) /\ (m + i) - m = i
        /\ \A i \in 1..(m + n) : i \in 1..m \/ (i - m \in 1..n /\ m + (i - m) = i)
    OBVIOUS
  <2>2. QED BY <1>3, <2>1
<1>6. Range(s) = Range(u) \cup Range(v)
  <2>1. /\ Range(u) = {u[i] : i \in 1..m} /\ Range(v) = {v[i] : i \in 1..n}
        /\ Range(s) = {s[i] : i \in 1..(m + n)}
    BY <1>4 DEF Range
  <2>2. \A i \in 1..m : u[i] \in Range(s)
    BY <1>5, <2>1
  <2>3. \A i \in 1..n : v[i] \in Range(s)
    BY <1>5, <2>1
  <2>4. \A i \in 1..(m + n) : s[i] \in Range(u) \cup Range(v)
    <3> TAKE i \in 1..(m + n)
    <3>1. CASE i \in 1..m
      BY <3>1, <1>5, <2>1
    <3>2. CASE i - m \in 1..n /\ m + (i - m) = i
      <4>1. s[i] = v[i - m]
        BY <3>2, <1>5
      <4>2. QED BY <3>2, <4>1, <2>1
    <3>3. QED BY <3>1, <3>2, <1>5
  <2>5. QED BY <2>1, <2>2, <2>3, <2>4
<1>7. ASSUME IsInjective(s)
      PROVE  IsInjective(u) /\ IsInjective(v) /\ Range(u) \cap Range(v) = {}
  <2>1. \A i, j \in 1..(m + n) : s[i] = s[j] => i = j
    BY <1>4, <1>7 DEF IsInjective
  <2>2. IsInjective(u)
    BY <1>4, <1>5, <2>1 DEF IsInjective
  <2>3. IsInjective(v)
    <3> SUFFICES ASSUME NEW i \in 1..n, NEW j \in 1..n, v[i] = v[j] PROVE i = j
      BY <1>4 DEF IsInjective
    <3>1. m + i = m + j
      BY <1>5, <2>1
    <3>2. QED BY <3>1
  <2>4. \A i \in 1..m, j \in 1..n : u[i] # v[j]
    <3> SUFFICES ASSUME NEW i \in 1..m, NEW j \in 1..n, u[i] = v[j] PROVE FALSE
      OBVIOUS
    <3>1. i = m + j
      BY <1>5, <2>1
    <3>2. QED BY <3>1
  <2>5. QED BY <1>4, <2>2, <2>3, <2>4 DEF Range
<1>8. ASSUME IsInjective(u), IsInjective(v), Range(u) \cap Range(v) = {}
      PROVE  IsInjective(s)
  <2>1. /\ \A i, j \in 1..m : u[i] = u[j] => i = j
        /\ \A i, j \in 1..n : v[i] = v[j] => i = j
        /\ \A i \in 1..m, j \in 1..n : u[i] # v[j]
    <3>1. \A i \in 1..m, j \in 1..n : u[i] # v[j]
      BY ONLY <1>4, <1>8 DEF Range
    <3>2. QED BY <1>4, <1>8, <3>1 DEF IsInjective
  <2> SUFFICES ASSUME NEW i \in 1..(m + n), NEW j \in 1..(m + n), s[i] = s[j] PROVE i = j
    BY <1>4 DEF IsInjective
  <2>2. CASE i \in 1..m /\ j \in 1..m
    BY <2>1, <2>2, <1>5
  <2>3. CASE i \in 1..m /\ j \notin 1..m
    <3>1. j - m \in 1..n /\ s[j] = v[j - m] /\ s[i] = u[i]
      BY <2>3, <1>5
    <3>2. QED BY <3>1, <2>1, <2>3
  <2>4. CASE i \notin 1..m /\ j \in 1..m
    <3>1. i - m \in 1..n /\ s[i] = v[i - m] /\ s[j] = u[j]
      BY <2>4, <1>5
    <3>2. QED BY <3>1, <2>1, <2>4
  <2>5. CASE i \notin 1..m /\ j \notin 1..m
    <3>1. i - m \in 1..n /\ s[i] = v[i - m] /\ j - m \in 1..n /\ s[j] = v[j - m]
      BY <2>5, <1>5
    <3>2. i - m = j - m
      BY <3>1, <2>1
    <3>3. QED BY <3>2
  <2>6. QED BY <2>2, <2>3, <2>4, <2>5
<1>9. QED BY <1>2, <1>3, <1>6, <1>7, <1>8

LEMMA EmptyIs ==
    ASSUME NEW S
    PROVE  << >> \in Seq(S) /\ Range(<< >>) = {} /\ IsInjective(<< >>)
<1>1. << >> \in Seq(S) /\ Len(<< >>) = 0
  OBVIOUS
<1>2. DOMAIN << >> = {}
  <2>1. DOMAIN << >> = 1..0
    BY <1>1
  <2>2. QED BY <2>1
<1>3. QED BY <1>1, <1>2 DEF Range, IsInjective

\* FlattenSeq holds what the sequences hold, and holds it once if and only if
\* each of them does and no two share anything.
LEMMA FlattenIs ==
    ASSUME NEW S, NEW n \in Nat \ {0}, NEW s \in [1..n -> Seq(S)]
    PROVE  LET f == FlattenSeq(s)
           IN  /\ f \in Seq(S)
               /\ \A w : w \in Range(f) <=> \E a \in 1..n : w \in Range(s[a])
               /\ IsInjective(f) <=>
                    /\ \A a \in 1..n : IsInjective(s[a])
                    /\ \A a, b \in 1..n : a # b => Range(s[a]) \cap Range(s[b]) = {}
<1> DEFINE P(g) == g = [i \in 1..n |-> IF i = 1 THEN s[i] ELSE g[i - 1] \o s[i]]
           R(k, f) ==
               /\ f \in Seq(S)
               /\ \A w : w \in Range(f) <=> \E a \in 1..k : w \in Range(s[a])
               /\ IsInjective(f) <=>
                    /\ \A a \in 1..k : IsInjective(s[a])
                    /\ \A a, b \in 1..k : a # b => Range(s[a]) \cap Range(s[b]) = {}
<1>1. \E g : P(g)
  <2> DEFINE step == [k \in 1..n |-> [x \in Seq(S) |-> IF k = 1 THEN s[k] ELSE x \o s[k]]]
  <2>1. step \in [1..n -> [Seq(S) -> Seq(S)]]
    <3>1. \A k \in 1..n, x \in Seq(S) : s[k] \in Seq(S) /\ x \o s[k] \in Seq(S)
      BY ConcatProperties
    <3>2. QED BY <3>1
  <2>2. << >> \in Seq(S)
    BY EmptyIs
  <2>3. \A x \in Seq(S), k \in 1..n : step[k][x] = IF k = 1 THEN s[k] ELSE x \o s[k]
    OBVIOUS
  <2> HIDE DEF step
  <2>4. PICK f \in [0..n -> Seq(S)] :
           f[0] = << >> /\ \A k \in 1..n : f[k] = step[k][f[k - 1]]
    <3>1. step \in Steps(Seq(S), n) /\ n \in Nat
      BY <2>1 DEF Steps
    <3>2. \E f : Follows(f, Seq(S), n, << >>, step)
      BY <2>2, <3>1, NumberByNumber
    <3>3. QED BY <3>2 DEF Follows
  <2>5. \A k \in 1..n : k - 1 \in 0..n /\ k \in 0..n /\ f[k - 1] \in Seq(S)
    BY <2>4
  <2>6. \A k \in 1..n : f[k] = IF k = 1 THEN s[k] ELSE f[k - 1] \o s[k]
    BY <2>3, <2>4, <2>5
  <2> DEFINE g == [i \in 1..n |-> f[i]]
  <2>7. \A k \in 1..n : g[k] = f[k] /\ (k # 1 => k - 1 \in 1..n /\ g[k - 1] = f[k - 1])
    OBVIOUS
  <2>8. \A k \in 1..n : g[k] = IF k = 1 THEN s[k] ELSE g[k - 1] \o s[k]
    BY <2>6, <2>7
  <2>9. P(g)
    <3>1. g = [i \in 1..n |-> g[i]]
      OBVIOUS
    <3> HIDE DEF g
    <3>2. QED BY <2>8, <3>1
  <2>10. QED BY <2>9
<1>2. PICK g : g = (CHOOSE h : P(h))
  OBVIOUS
<1>3. P(g)
  BY <1>1, <1>2, Zenon
<1>4. FlattenSeq(s) = g[n]
  <2>1. Len(s) = n
    <3>1. s \in Seq(Seq(S))
      OBVIOUS
    <3>2. DOMAIN s = 1..n
      OBVIOUS
    <3>3. QED BY <3>1, <3>2, LenProperties
  <2>2. QED BY <1>2, <2>1 DEF FlattenSeq
<1>5. \A i \in 1..n : g[i] = IF i = 1 THEN s[i] ELSE g[i - 1] \o s[i]
  BY <1>3
<1> HIDE DEF P
<1> DEFINE T == {k \in 0..n : k = 0 \/ R(k, g[k])}
<1>6. 0 \in T
  OBVIOUS
<1>7. ASSUME NEW k \in 0..(n - 1), k \in T PROVE k + 1 \in T
  <2>1. k + 1 \in 1..n /\ k + 1 \in 0..n /\ s[k + 1] \in Seq(S)
    OBVIOUS
  <2>2. CASE k = 0
    <3>1. g[1] = s[1] /\ 1..1 = {1} /\ k + 1 = 1
      BY <2>1, <2>2, <1>5
    <3>2. R(1, g[1])
      BY <2>1, <3>1
    <3>3. QED BY <2>1, <3>1, <3>2
  <2>3. CASE k # 0
    <3> HIDE DEF R
    <3>1. k + 1 # 1 /\ (k + 1) - 1 = k /\ R(k, g[k])
      BY <1>7, <2>3
    <3> USE DEF R
    <3>2. g[k + 1] = g[k] \o s[k + 1]
      BY <2>1, <3>1, <1>5
    <3> HIDE DEF T
    <3>3. /\ g[k + 1] \in Seq(S)
          /\ Range(g[k + 1]) = Range(g[k]) \cup Range(s[k + 1])
          /\ IsInjective(g[k + 1]) <=> /\ IsInjective(g[k]) /\ IsInjective(s[k + 1])
                                       /\ Range(g[k]) \cap Range(s[k + 1]) = {}
      BY <2>1, <3>1, <3>2, JoinIs
    <3>4. /\ \A a \in 1..(k + 1) : a = k + 1 \/ (a \in 1..k /\ a # k + 1)
          /\ \A a \in 1..k : a \in 1..(k + 1) /\ a # k + 1
          /\ k + 1 \in 1..(k + 1)
      OBVIOUS
    <3>5. \A w : w \in Range(g[k + 1]) <=> \E a \in 1..(k + 1) : w \in Range(s[a])
      BY <3>1, <3>3, <3>4
    <3>6. Range(g[k]) \cap Range(s[k + 1]) = {} <=>
            \A a \in 1..k : Range(s[a]) \cap Range(s[k + 1]) = {}
      BY <3>1
    <3>7. IsInjective(g[k + 1]) <=>
            /\ \A a \in 1..(k + 1) : IsInjective(s[a])
            /\ \A a, b \in 1..(k + 1) : a # b => Range(s[a]) \cap Range(s[b]) = {}
      <4>1. IsInjective(g[k]) <=>
              /\ \A a \in 1..k : IsInjective(s[a])
              /\ \A a, b \in 1..k : a # b => Range(s[a]) \cap Range(s[b]) = {}
        BY <3>1
      <4>2. QED BY <3>3, <3>4, <3>6, <4>1
    <3>8. R(k + 1, g[k + 1])
      BY <3>3, <3>5, <3>7
    <3>9. QED BY <2>1, <3>8 DEF T
  <2>4. QED BY <2>2, <2>3
<1>8. n \in T /\ n # 0
  <2> HIDE DEF T
  <2>1. \A k \in 0..n : k \in T
    BY <1>6, <1>7, UpTo
  <2>2. QED BY <2>1
<1>9. R(n, g[n])
  BY <1>8
<1>10. QED BY <1>4, <1>9

-----------------------------------------------------------------------------
(* The table *)

LEMMA SizeIs == Size \in Nat \ {0} /\ Hash \in [Words -> 0..Size - 1] /\ Size - 1 \in Nat
BY SizeAssumption

LEMMA BucketIs ==
    ASSUME NEW t, TableOf(t), NEW i \in 0..Size - 1
    PROVE  /\ t[i] \in Seq(Words) /\ Len(t[i]) \in Nat
           /\ \A j \in 1..Len(t[i]) : t[i][j] \in Words /\ Hash[t[i][j]] = i
           /\ IsInjective(t[i]) <=> \A j, k \in 1..Len(t[i]) : t[i][j] = t[i][k] => j = k
           /\ \A w : w \in Range(t[i]) <=> \E j \in 1..Len(t[i]) : t[i][j] = w
<1>1. t[i] \in Seq(Words) /\ \A j \in 1..Len(t[i]) : Hash[t[i][j]] = i
  BY DEF TableOf
<1>2. QED BY <1>1 DEF IsInjective, Range

LEMMA PlaceIs ==
    ASSUME NEW t, NEW n
    PROVE  n \in Places(t) <=> \E i \in 0..Size - 1 : \E j \in 1..Len(t[i]) : n = <<i, j>>
BY DEF Places

LEMMA PairPlace ==
    ASSUME NEW t, NEW i, NEW j
    PROVE  /\ <<i, j>> \in Places(t) <=> i \in 0..Size - 1 /\ j \in 1..Len(t[i])
           /\ KeyOf(t, <<i, j>>) = t[i][j]
           /\ <<i, j>>[1] = i /\ <<i, j>>[2] = j
BY DEF Places, KeyOf

LEMMA PlaceNotNull == ASSUME NEW t PROVE NULL \notin Places(t)
<1>1. \A i \in 0..Size - 1 : \A j \in 1..Len(t[i]) : <<i, j>> \in Nat \X Nat
  BY SizeIs
<1>2. QED BY <1>1, NullAssumption DEF Places

LEMMA FindIs ==
    ASSUME NEW t, TableOf(t), NEW w \in Words
    PROVE  Shash_find(t, w) <=> \E i \in 0..Size - 1 : \E j \in 1..Len(t[i]) : t[i][j] = w
<1>1. Hash[w] \in 0..Size - 1
  BY SizeIs
<1>2. PICK h \in 0..Size - 1 : h = Hash[w]
  BY <1>1
<1>3. w \in Range(t[h]) <=> \E j \in 1..Len(t[h]) : t[h][j] = w
  <2>1. t[h] \in Seq(Words)
    BY BucketIs
  <2>2. QED BY <2>1, RangeIs
<1>4. Shash_find(t, w) <=> w \in Range(t[h])
  BY <1>2 DEF Shash_find
<1>5. ASSUME NEW i \in 0..Size - 1, NEW j \in 1..Len(t[i]), t[i][j] = w PROVE i = h
  BY <1>2, <1>5, BucketIs
<1>6. QED BY <1>3, <1>4, <1>5

LEMMA NewTable == TableOf(Shash_new) /\ Distinct(Shash_new) /\ Places(Shash_new) = {}
<1>1. \A i \in 0..Size - 1 : Shash_new[i] = << >>
  BY DEF Shash_new
<1>2. << >> \in Seq(Words) /\ Len(<< >>) = 0 /\ 1..0 = {}
  OBVIOUS
<1>3. Shash_new \in [0..Size - 1 -> Seq(Words)]
  BY <1>2 DEF Shash_new
<1>4. \A i \in 0..Size - 1 : 1..Len(Shash_new[i]) = {}
  BY <1>1, <1>2
<1>5. Places(Shash_new) = {}
  BY <1>4 DEF Places
<1>6. QED BY <1>3, <1>4, <1>5 DEF TableOf, Distinct

\* Shash_insert: one word more, in front of its bucket.
LEMMA InsertIs ==
    ASSUME NEW t, TableOf(t), NEW w \in Words
    PROVE  LET r == Shash_insert(t, w)
           IN  /\ TableOf(r)
               /\ \A i \in 0..Size - 1 : Len(r[i]) >= Len(t[i])
               /\ \A v \in Words : Shash_find(r, v) => v = w \/ Shash_find(t, v)
               /\ Distinct(t) /\ ~Shash_find(t, w) => Distinct(r)
<1> DEFINE h == Hash[w]
<1>1. PICK r : r = [t EXCEPT ![h] = <<w>> \o @]
  OBVIOUS
<1>2. PICK u : u = <<w>> \o t[h]
  OBVIOUS
<1>3. h \in 0..Size - 1 /\ t[h] \in Seq(Words) /\ t \in [0..Size - 1 -> Seq(Words)]
  BY SizeIs DEF TableOf
<1>4. PICK m \in Nat : m = Len(t[h])
  BY <1>3
<1>5. /\ u \in Seq(Words) /\ Len(u) = m + 1 /\ u[1] = w
      /\ \A j \in 1..(m + 1) : j # 1 => j - 1 \in 1..m /\ u[j] = t[h][j - 1]
  <2>1. <<w>> \in Seq(Words) /\ Len(<<w>>) = 1 /\ <<w>>[1] = w
    OBVIOUS
  <2>2. /\ <<w>> \o t[h] \in Seq(Words)
        /\ Len(<<w>> \o t[h]) = Len(<<w>>) + Len(t[h])
        /\ \A j \in 1..(Len(<<w>>) + Len(t[h])) :
             (<<w>> \o t[h])[j] = IF j <= Len(<<w>>) THEN <<w>>[j] ELSE t[h][j - Len(<<w>>)]
    BY <1>3, <2>1, ConcatProperties
  <2>3. /\ u \in Seq(Words) /\ Len(u) = 1 + m
        /\ \A j \in 1..(1 + m) : u[j] = IF j <= 1 THEN <<w>>[j] ELSE t[h][j - 1]
    BY <1>2, <1>4, <2>1, <2>2
  <2>4. 1 \in 1..(1 + m) /\ 1 + m = m + 1
    OBVIOUS
  <2>5. \A j \in 1..(m + 1) : j # 1 => j - 1 \in 1..m /\ ~(j <= 1)
    OBVIOUS
  <2>6. QED BY <2>1, <2>3, <2>4, <2>5
<1> HIDE DEF h
<1>6. /\ r \in [0..Size - 1 -> Seq(Words)] /\ r[h] = u
      /\ \A i \in 0..Size - 1 : i # h => r[i] = t[i]
  BY <1>1, <1>2, <1>3, <1>5
<1>7. /\ \A j \in 1..m : t[h][j] \in Words /\ Hash[t[h][j]] = h
      /\ Hash[w] = h
  BY <1>3, <1>4, BucketIs DEF h
<1>8. \A j \in 1..(m + 1) : Hash[u[j]] = h
  BY <1>5, <1>7
<1>9. TableOf(r)
  <2>1. \A i \in 0..Size - 1 : \A j \in 1..Len(r[i]) : Hash[r[i][j]] = i
    <3> TAKE i \in 0..Size - 1
    <3>1. CASE i = h
      BY <3>1, <1>5, <1>6, <1>8
    <3>2. CASE i # h
      BY <3>2, <1>6 DEF TableOf
    <3>3. QED BY <3>1, <3>2
  <2>2. QED BY <1>6, <2>1 DEF TableOf
<1>10. \A i \in 0..Size - 1 : Len(r[i]) >= Len(t[i])
  <2> TAKE i \in 0..Size - 1
  <2>1. Len(t[i]) \in Nat
    BY <1>3
  <2>2. CASE i = h
    BY <2>2, <1>4, <1>5, <1>6
  <2>3. CASE i # h
    BY <2>1, <2>3, <1>6
  <2>4. QED BY <2>2, <2>3
<1>11. ASSUME NEW v \in Words, Shash_find(r, v) PROVE v = w \/ Shash_find(t, v)
  <2>1. PICK i \in 0..Size - 1 : \E j \in 1..Len(r[i]) : r[i][j] = v
    BY <1>9, <1>11, FindIs
  <2>2. PICK j \in 1..Len(r[i]) : r[i][j] = v
    BY <2>1
  <2>3. CASE i = h
    <3>1. j \in 1..(m + 1) /\ u[j] = v
      BY <2>2, <2>3, <1>5, <1>6
    <3>2. v = w \/ (j - 1 \in 1..Len(t[i]) /\ t[i][j - 1] = v)
      BY <3>1, <2>3, <1>4, <1>5
    <3>3. QED BY <3>2, FindIs
  <2>4. CASE i # h
    <3>1. j \in 1..Len(t[i]) /\ t[i][j] = v
      BY <2>2, <2>4, <1>6
    <3>2. QED BY <3>1, FindIs
  <2>5. QED BY <2>3, <2>4
<1>12. ASSUME Distinct(t), ~Shash_find(t, w) PROVE Distinct(r)
  <2>1. \A j \in 1..m : t[h][j] # w
    BY <1>3, <1>4, <1>12, FindIs
  <2>2. \A j, k \in 1..m : t[h][j] = t[h][k] => j = k
    BY <1>3, <1>4, <1>12 DEF Distinct
  <2>3. \A j, k \in 1..(m + 1) : u[j] = u[k] => j = k
    <3> SUFFICES ASSUME NEW j \in 1..(m + 1), NEW k \in 1..(m + 1), u[j] = u[k] PROVE j = k
      OBVIOUS
    <3>1. CASE j # 1 /\ k # 1
      <4>1. j - 1 = k - 1
        BY <3>1, <2>2, <1>5
      <4>2. QED BY <4>1
    <3>2. CASE j = 1 /\ k # 1
      <4>1. u[k] = t[h][k - 1] /\ k - 1 \in 1..m /\ u[j] = w
        BY <3>2, <1>5
      <4>2. QED BY <4>1, <2>1
    <3>3. CASE j # 1 /\ k = 1
      <4>1. u[j] = t[h][j - 1] /\ j - 1 \in 1..m /\ u[k] = w
        BY <3>3, <1>5
      <4>2. QED BY <4>1, <2>1
    <3>4. QED BY <3>1, <3>2, <3>3
  <2>4. \A i \in 0..Size - 1 : \A j, k \in 1..Len(r[i]) : r[i][j] = r[i][k] => j = k
    <3> TAKE i \in 0..Size - 1
    <3>1. CASE i = h
      BY <3>1, <2>3, <1>5, <1>6
    <3>2. CASE i # h
      BY <3>2, <1>6, <1>12 DEF Distinct
    <3>3. QED BY <3>1, <3>2
  <2>5. QED BY <2>4 DEF Distinct
<1>13. r = Shash_insert(t, w)
  BY <1>1 DEF Shash_insert, h
<1>14. QED BY <1>9, <1>10, <1>11, <1>12, <1>13

\* Words inserted one after the other: each is found where it belongs, and if
\* only new ones are inserted, in one node.
LEMMA InsertedIs ==
    ASSUME NEW t, TableOf(t), NEW ws \in Seq(Words), NEW once \in BOOLEAN
    PROVE  LET r == Inserted(t, ws, once)
           IN  /\ TableOf(r)
               /\ \A i \in 0..Size - 1 : Len(r[i]) >= Len(t[i])
               /\ Distinct(t) /\ once => Distinct(r)
               /\ Distinct(t) /\ IsInjective(ws) /\ (\A w \in Words : ~Shash_find(t, w)) =>
                    Distinct(r)
<1> DEFINE Adds(u, k) == IF once /\ Shash_find(u, ws[k]) THEN u ELSE Shash_insert(u, ws[k])
           S == {u \in [0..Size - 1 -> Seq(Words)] : TableOf(u)}
           step == [k \in 1..Len(ws) |-> [u \in S |-> Adds(u, k)]]
           P(f) == f = [n \in 0..Len(ws) |-> IF n = 0 THEN t
                          ELSE IF once /\ Shash_find(f[n - 1], ws[n]) THEN f[n - 1]
                          ELSE Shash_insert(f[n - 1], ws[n])]
<1>1. PICK len \in Nat : len = Len(ws)
  OBVIOUS
<1>2. \A k \in 1..len : ws[k] \in Words
  BY <1>1
<1>3. \A u : u \in S <=> TableOf(u)
  BY DEF TableOf
<1> HIDE DEF S
<1>4. ASSUME NEW u \in S, NEW k \in 1..len
      PROVE  /\ Adds(u, k) \in S
             /\ \A i \in 0..Size - 1 : Len(Adds(u, k)[i]) >= Len(u[i])
             /\ \A v \in Words : Shash_find(Adds(u, k), v) => v = ws[k] \/ Shash_find(u, v)
             /\ Distinct(u) /\ (once \/ ~Shash_find(u, ws[k])) => Distinct(Adds(u, k))
  <2>1. \A i \in 0..Size - 1 : Len(u[i]) \in Nat
    BY <1>3, BucketIs
  <2>2. CASE once /\ Shash_find(u, ws[k])
    BY <2>1, <2>2
  <2>3. CASE ~(once /\ Shash_find(u, ws[k]))
    <3>1. Adds(u, k) = Shash_insert(u, ws[k])
      BY <2>3
    <3> HIDE DEF Adds
    <3>2. /\ TableOf(Adds(u, k))
          /\ \A i \in 0..Size - 1 : Len(Adds(u, k)[i]) >= Len(u[i])
          /\ \A v \in Words : Shash_find(Adds(u, k), v) => v = ws[k] \/ Shash_find(u, v)
          /\ Distinct(u) /\ ~Shash_find(u, ws[k]) => Distinct(Adds(u, k))
      BY <3>1, <1>2, <1>3, InsertIs
    <3>3. QED BY <3>2, <2>3, <1>3
  <2>4. QED BY <2>2, <2>3
<1>5. \E f : P(f)
  <2>1. step \in Steps(S, len)
    <3> HIDE DEF Adds
    <3>1. QED BY <1>1, <1>4 DEF Steps
  <2>2. t \in S
    BY <1>3
  <2>3. \A u \in S, k \in 1..len : step[k][u] = Adds(u, k)
    BY <1>1
  <2> HIDE DEF step
  <2>4. PICK f : Follows(f, S, len, t, step)
    BY <2>1, <2>2, NumberByNumber
  <2>5. f \in [0..len -> S] /\ f[0] = t /\ \A k \in 1..len : f[k] = step[k][f[k - 1]]
    BY <2>4 DEF Follows
  <2>6. \A k \in 1..len : f[k - 1] \in S
    <3>1. \A k \in 1..len : k - 1 \in 0..len
      OBVIOUS
    <3>2. QED BY <2>5, <3>1
  <2>7. \A k \in 0..len : f[k] = IF k = 0 THEN t ELSE Adds(f[k - 1], k)
    <3> HIDE DEF Adds
    <3>1. \A k \in 0..len : k # 0 => k \in 1..len
      OBVIOUS
    <3>2. QED BY <2>3, <2>5, <2>6, <3>1
  <2>8. f = [k \in 0..len |-> f[k]]
    BY <2>5
  <2>9. P(f)
    BY ONLY <2>7, <2>8, <1>1, SMTT(30)
  <2>10. QED BY <2>9, Zenon
<1>6. PICK f : f = CHOOSE g : P(g)
  OBVIOUS
<1>7. P(f)
  BY <1>5, <1>6
<1>8. Inserted(t, ws, once) = f[len]
  BY <1>1, <1>6 DEF Inserted
<1>9. f[0] = t /\ \A k \in 1..len : f[k] = Adds(f[k - 1], k)
  <2>1. \A k \in 0..len : f[k] = IF k = 0 THEN t ELSE Adds(f[k - 1], k)
    BY <1>1, <1>7
  <2>2. 0 \in 0..len /\ \A k \in 1..len : k \in 0..len /\ k # 0
    OBVIOUS
  <2>3. QED BY <2>1, <2>2
<1> HIDE DEF P, step, Adds
<1> DEFINE Good(k) ==
      /\ f[k] \in S
      /\ \A i \in 0..Size - 1 : Len(f[k][i]) >= Len(t[i])
      /\ \A v \in Words : Shash_find(f[k], v) =>
           Shash_find(t, v) \/ \E q \in 1..k : ws[q] = v
      /\ Distinct(t) /\ once => Distinct(f[k])
      /\ Distinct(t) /\ IsInjective(ws) /\ (\A w \in Words : ~Shash_find(t, w)) =>
           Distinct(f[k])
    T == {k \in 0..len : Good(k)}
<1>10. 0 \in T
  <2>1. \A i \in 0..Size - 1 : Len(t[i]) \in Nat
    BY BucketIs
  <2>2. QED BY <2>1, <1>3, <1>9
<1>11. ASSUME NEW k \in 0..(len - 1), k \in T PROVE k + 1 \in T
  <2>1. k + 1 \in 1..len /\ k + 1 \in 0..len /\ (k + 1) - 1 = k
    OBVIOUS
  <2>2. f[k + 1] = Adds(f[k], k + 1)
    BY <1>9, <2>1
  <2>3. f[k] \in S
    BY <1>11
  <2>4. /\ f[k + 1] \in S
        /\ \A i \in 0..Size - 1 : Len(f[k + 1][i]) >= Len(f[k][i])
        /\ \A v \in Words : Shash_find(f[k + 1], v) => v = ws[k + 1] \/ Shash_find(f[k], v)
        /\ Distinct(f[k]) /\ (once \/ ~Shash_find(f[k], ws[k + 1])) => Distinct(f[k + 1])
    BY <1>4, <2>1, <2>2, <2>3
  <2>5. \A i \in 0..Size - 1 : Len(f[k + 1][i]) >= Len(t[i])
    <3>1. \A i \in 0..Size - 1 : Len(t[i]) \in Nat /\ Len(f[k][i]) \in Nat /\ Len(f[k + 1][i]) \in Nat
      BY <1>3, <2>3, <2>4, BucketIs
    <3>2. \A i \in 0..Size - 1 : Len(f[k][i]) >= Len(t[i])
      BY <1>11
    <3> TAKE i \in 0..Size - 1
    <3>3. PICK a \in Nat, b \in Nat, c \in Nat :
             a = Len(t[i]) /\ b = Len(f[k][i]) /\ c = Len(f[k + 1][i])
      BY <3>1
    <3>4. b >= a /\ c >= b
      BY <2>4, <3>2, <3>3
    <3>5. c >= a
      BY <3>4
    <3>6. QED BY <3>3, <3>5
  <2>6. \A v \in Words : Shash_find(f[k + 1], v) =>
          Shash_find(t, v) \/ \E q \in 1..(k + 1) : ws[q] = v
    <3>1. k + 1 \in 1..(k + 1) /\ \A q \in 1..k : q \in 1..(k + 1)
      OBVIOUS
    <3>2. \A v \in Words : Shash_find(f[k], v) => Shash_find(t, v) \/ \E q \in 1..k : ws[q] = v
      BY <1>11
    <3>3. QED BY <2>4, <3>1, <3>2
  <2>7. ASSUME Distinct(t), once PROVE Distinct(f[k + 1])
    BY <2>4, <2>7, <1>11
  <2>8. ASSUME Distinct(t), IsInjective(ws), \A w \in Words : ~Shash_find(t, w)
        PROVE  Distinct(f[k + 1])
    <3>1. \A q \in 1..k : ws[q] # ws[k + 1]
      <4>1. \A q \in 1..k : q \in 1..len /\ q # k + 1
        OBVIOUS
      <4>2. \A p, q \in 1..len : ws[p] = ws[q] => p = q
        BY <1>1, <2>8 DEF IsInjective
      <4>3. QED BY <4>1, <4>2, <2>1
    <3>2. ws[k + 1] \in Words
      BY <1>2, <2>1
    <3>3. ~Shash_find(f[k], ws[k + 1])
      BY <3>1, <3>2, <2>8, <1>11
    <3>4. Distinct(f[k])
      BY <2>8, <1>11
    <3>5. QED BY <3>3, <3>4, <2>4
  <2>9. Good(k + 1)
    BY <2>4, <2>5, <2>6, <2>7, <2>8
  <2> HIDE DEF Good
  <2>10. QED BY <2>1, <2>9
<1>12. Good(len)
  <2> HIDE DEF T
  <2>1. \A k \in 0..len : k \in T
    BY <1>10, <1>11, UpTo
  <2>2. len \in T
    BY <2>1
  <2> USE DEF T
  <2> HIDE DEF Good
  <2>3. QED BY <2>2
<1>13. QED BY <1>3, <1>8, <1>12

\* What spam_close writes: a sequence of words, in which none is twice if the
\* table has none twice and the cursor's node is not in a bucket still to come.
LEMMA RemainingIs ==
    ASSUME NEW t, TableOf(t), NEW index \in Int, NEW node \in {NULL} \cup Places(t)
    PROVE  /\ Remaining(t, index, node) \in Seq(Words)
           /\ Distinct(t) /\ (node # NULL => node[1] <= index) =>
                IsInjective(Remaining(t, index, node))
<1> DEFINE b == [k \in 1..Size |-> IF k - 1 > index THEN t[k - 1] ELSE << >>]
           u == IF node = NULL THEN << >>
                ELSE SubSeq(t[node[1]], node[2] + 1, Len(t[node[1]]))
<1>1. \A k \in 1..Size : k - 1 \in 0..Size - 1
  BY SizeIs
<1>2. b \in [1..Size -> Seq(Words)]
  BY <1>1, BucketIs, EmptyIs
<1>3. \A k \in 1..Size : b[k] = IF k - 1 > index THEN t[k - 1] ELSE << >>
  OBVIOUS
<1>4. Remaining(t, index, node) = u \o FlattenSeq(b)
  BY DEF Remaining
<1> HIDE DEF b
<1>5. PICK f : f = FlattenSeq(b)
  OBVIOUS
<1>6. /\ f \in Seq(Words)
      /\ \A w : w \in Range(f) <=> \E a \in 1..Size : w \in Range(b[a])
      /\ IsInjective(f) <=>
           /\ \A a \in 1..Size : IsInjective(b[a])
           /\ \A a, c \in 1..Size : a # c => Range(b[a]) \cap Range(b[c]) = {}
  <2>1. PICK n \in Nat \ {0} : n = Size
    BY SizeIs
  <2>2. b \in [1..n -> Seq(Words)]
    BY <1>2, <2>1
  <2>3. /\ f \in Seq(Words)
        /\ \A w : w \in Range(f) <=> \E a \in 1..n : w \in Range(b[a])
        /\ IsInjective(f) <=>
             /\ \A a \in 1..n : IsInjective(b[a])
             /\ \A a, c \in 1..n : a # c => Range(b[a]) \cap Range(b[c]) = {}
    BY <1>5, <2>2, FlattenIs
  <2>4. QED BY <2>1, <2>3
<1>7. \A k \in 1..Size : \A w \in Range(b[k]) : k - 1 > index /\ Hash[w] = k - 1
  <2> TAKE k \in 1..Size
  <2>1. CASE k - 1 > index
    <3>1. \A w \in Range(t[k - 1]) : Hash[w] = k - 1
      <4>1. PICK i \in 0..Size - 1 : i = k - 1
        BY <1>1
      <4>2. t[i] \in Seq(Words) /\ \A j \in 1..Len(t[i]) : Hash[t[i][j]] = i
        BY BucketIs
      <4>3. \A w \in Range(t[i]) : Hash[w] = i
        BY <4>2, RangeIs
      <4>4. QED BY <4>1, <4>3
    <3>2. QED BY <2>1, <3>1, <1>3
  <2>2. CASE ~(k - 1 > index)
    BY <2>2, <1>3, EmptyIs
  <2>3. QED BY <2>1, <2>2
<1>8. \A a, c \in 1..Size : a # c => Range(b[a]) \cap Range(b[c]) = {}
  <2>1. \A a, c \in 1..Size : a - 1 = c - 1 => a = c
    BY SizeIs
  <2>2. QED BY <1>7, <2>1
<1>9. ASSUME Distinct(t) PROVE IsInjective(f)
  <2>1. \A k \in 1..Size : IsInjective(b[k])
    <3> TAKE k \in 1..Size
    <3>1. CASE k - 1 > index
      <4>1. IsInjective(t[k - 1])
        BY <1>1, <1>9, BucketIs DEF Distinct
      <4>2. QED BY <3>1, <4>1, <1>3
    <3>2. CASE ~(k - 1 > index)
      BY <3>2, <1>3, EmptyIs
    <3>3. QED BY <3>1, <3>2
  <2>2. QED BY <2>1, <1>6, <1>8
<1>10. /\ u \in Seq(Words)
       /\ Distinct(t) => IsInjective(u)
       /\ \A w \in Range(u) : node # NULL /\ Hash[w] = node[1]
  <2>1. CASE node = NULL
    BY <2>1, EmptyIs
  <2>2. CASE node # NULL
    <3>1. PICK i \in 0..Size - 1 : \E j \in 1..Len(t[i]) : node = <<i, j>>
      BY <2>2, PlaceIs
    <3>2. PICK j \in 1..Len(t[i]) : node = <<i, j>>
      BY <3>1
    <3>3. PICK s \in Seq(Words) : s = t[i]
      BY BucketIs
    <3>4. PICK n \in Nat : n = Len(s)
      OBVIOUS
    <3>5. j \in 1..n /\ node[1] = i /\ node[2] = j
      BY <3>2, <3>3, <3>4
    <3>6. u = SubSeq(s, j + 1, n)
      BY <2>2, <3>3, <3>4, <3>5
    <3> HIDE DEF u
    <3>7. /\ u \in Seq(Words) /\ Len(u) = n - j
          /\ \A k \in 1..(n - j) : j + k \in 1..n /\ u[k] = s[j + k]
      <4>1. \A k \in (j + 1)..n : s[k] \in Words
        BY <3>4, <3>5
      <4>2. /\ SubSeq(s, j + 1, n) \in Seq(Words)
            /\ Len(SubSeq(s, j + 1, n)) = IF j + 1 <= n THEN n - (j + 1) + 1 ELSE 0
            /\ \A k \in 1..(n - (j + 1) + 1) : SubSeq(s, j + 1, n)[k] = s[(j + 1) + k - 1]
        BY <3>4, <3>5, <4>1, SubSeqProperties
      <4>3. (IF j + 1 <= n THEN n - (j + 1) + 1 ELSE 0) = n - j /\ n - (j + 1) + 1 = n - j
        BY <3>5
      <4>4. \A k \in 1..(n - j) : j + k \in 1..n /\ (j + 1) + k - 1 = j + k
        BY <3>5
      <4>5. QED BY <3>6, <4>2, <4>3, <4>4
    <3>8. DOMAIN u = 1..(n - j)
      BY <3>7
    <3>9. ASSUME Distinct(t) PROVE IsInjective(u)
      <4>1. \A p, q \in 1..n : s[p] = s[q] => p = q
        BY <3>3, <3>4, <3>9 DEF Distinct
      <4> SUFFICES ASSUME NEW p \in 1..(n - j), NEW q \in 1..(n - j), u[p] = u[q] PROVE p = q
        BY <3>8 DEF IsInjective
      <4>2. j + p = j + q
        BY <3>7, <4>1
      <4>3. QED BY <4>2
    <3>10. \A w \in Range(u) : Hash[w] = i
      <4>1. \A p \in 1..n : Hash[s[p]] = i
        BY <3>3, <3>4 DEF TableOf
      <4>2. \A k \in 1..(n - j) : Hash[u[k]] = i
        BY <3>7, <4>1
      <4>3. Range(u) = {u[k] : k \in 1..(n - j)}
        BY <3>8 DEF Range
      <4>4. QED BY <4>2, <4>3
    <3>11. QED BY <2>2, <3>5, <3>7, <3>9, <3>10
  <2>3. QED BY <2>1, <2>2
<1> HIDE DEF u
<1>11. /\ u \o f \in Seq(Words)
       /\ IsInjective(u \o f) <=> /\ IsInjective(u) /\ IsInjective(f)
                                  /\ Range(u) \cap Range(f) = {}
  BY <1>6, <1>10, JoinIs
<1>12. ASSUME node # NULL => node[1] <= index PROVE Range(u) \cap Range(f) = {}
  <2> SUFFICES ASSUME NEW w \in Range(u), w \in Range(f) PROVE FALSE
    OBVIOUS
  <2>1. PICK a \in 1..Size : w \in Range(b[a])
    BY <1>6
  <2>2. a - 1 > index /\ Hash[w] = a - 1 /\ Hash[w] <= index
    BY <2>1, <1>7, <1>10, <1>12
  <2>3. QED BY <2>2, SizeIs
<1>13. QED BY <1>4, <1>5, <1>9, <1>10, <1>11, <1>12

LEMMA EntriesIs ==
    ASSUME NEW t, TableOf(t), IsInjective(Entries(t))
    PROVE  Distinct(t)
<1> DEFINE b == [k \in 1..Size |-> IF k - 1 > -1 THEN t[k - 1] ELSE << >>]
<1>1. \A k \in 1..Size : k - 1 \in 0..Size - 1 /\ k - 1 > -1
  BY SizeIs
<1>2. b \in [1..Size -> Seq(Words)] /\ \A k \in 1..Size : b[k] = t[k - 1]
  BY <1>1, BucketIs
<1>3. Entries(t) = << >> \o FlattenSeq(b)
  BY DEF Entries, Remaining
<1> HIDE DEF b
<1>4. PICK f : f = FlattenSeq(b)
  OBVIOUS
<1>5. /\ f \in Seq(Words)
      /\ IsInjective(f) => \A a \in 1..Size : IsInjective(b[a])
  BY <1>2, <1>4, SizeIs, FlattenIs
<1>6. IsInjective(f)
  BY <1>3, <1>4, <1>5, ConcatEmptySeq
<1>7. \A i \in 0..Size - 1 : IsInjective(t[i])
  <2> TAKE i \in 0..Size - 1
  <2>1. i + 1 \in 1..Size /\ (i + 1) - 1 = i
    BY SizeIs
  <2>2. QED BY <2>1, <1>2, <1>5, <1>6
<1>8. QED BY <1>7, BucketIs DEF Distinct

-----------------------------------------------------------------------------
(* The walk *)

\* The word w is at a node that is passed at node j of bucket i; in a bucket up
\* to the i-th.
PassedAt(t, w, i, j) ==
    \E a \in 0..Size - 1 : \E b \in 1..Len(t[a]) : t[a][b] = w /\ (a < i \/ (a = i /\ b <= j))
AllAt(t, w, i) == \E a \in 0..Size - 1 : \E b \in 1..Len(t[a]) : t[a][b] = w /\ a <= i

LEMMA PassedIs ==
    ASSUME NEW t, NEW w
    PROVE  /\ \A i, j : w \in Passed(t, i, j) <=> PassedAt(t, w, i, j)
           /\ \A i : w \in AllOf(t, i) <=> AllAt(t, w, i)
<1>1. ASSUME NEW i, NEW j
      PROVE  w \in Passed(t, i, j) <=> PassedAt(t, w, i, j)
  <2>1. ASSUME w \in Passed(t, i, j)
        PROVE  PassedAt(t, w, i, j)
    <3>1. PICK n \in Places(t) : KeyOf(t, n) = w /\ (n[1] < i \/ (n[1] = i /\ n[2] <= j))
      BY <2>1 DEF Passed
    <3>2. PICK a \in 0..Size - 1 : \E b \in 1..Len(t[a]) : n = <<a, b>>
      BY PlaceIs
    <3>3. PICK b \in 1..Len(t[a]) : n = <<a, b>>
      BY <3>2
    <3>4. n[1] = a /\ n[2] = b /\ KeyOf(t, n) = t[a][b]
      BY <3>3, PairPlace
    <3>5. QED BY <3>1, <3>4 DEF PassedAt
  <2>2. ASSUME PassedAt(t, w, i, j)
        PROVE  w \in Passed(t, i, j)
    <3>1. PICK a \in 0..Size - 1 :
             \E b \in 1..Len(t[a]) : t[a][b] = w /\ (a < i \/ (a = i /\ b <= j))
      BY <2>2 DEF PassedAt
    <3>2. PICK b \in 1..Len(t[a]) : t[a][b] = w /\ (a < i \/ (a = i /\ b <= j))
      BY <3>1
    <3>3. PICK n : n = <<a, b>>
      OBVIOUS
    <3>4. n \in Places(t) /\ n[1] = a /\ n[2] = b /\ KeyOf(t, n) = w
      BY <3>2, <3>3, PairPlace
    <3>5. QED BY <3>2, <3>4 DEF Passed
  <2>3. QED BY <2>1, <2>2
<1>2. ASSUME NEW i
      PROVE  w \in AllOf(t, i) <=> AllAt(t, w, i)
  <2>1. ASSUME w \in AllOf(t, i)
        PROVE  AllAt(t, w, i)
    <3>1. PICK n \in Places(t) : KeyOf(t, n) = w /\ n[1] <= i
      BY <2>1 DEF AllOf
    <3>2. PICK a \in 0..Size - 1 : \E b \in 1..Len(t[a]) : n = <<a, b>>
      BY PlaceIs
    <3>3. PICK b \in 1..Len(t[a]) : n = <<a, b>>
      BY <3>2
    <3>4. n[1] = a /\ n[2] = b /\ KeyOf(t, n) = t[a][b]
      BY <3>3, PairPlace
    <3>5. QED BY <3>1, <3>4 DEF AllAt
  <2>2. ASSUME AllAt(t, w, i)
        PROVE  w \in AllOf(t, i)
    <3>1. PICK a \in 0..Size - 1 :
             \E b \in 1..Len(t[a]) : t[a][b] = w /\ a <= i
      BY <2>2 DEF AllAt
    <3>2. PICK b \in 1..Len(t[a]) : t[a][b] = w /\ a <= i
      BY <3>1
    <3>3. PICK n : n = <<a, b>>
      OBVIOUS
    <3>4. n \in Places(t) /\ n[1] = a /\ n[2] = b /\ KeyOf(t, n) = w
      BY <3>2, <3>3, PairPlace
    <3>5. QED BY <3>2, <3>4 DEF AllOf
  <2>3. QED BY <2>1, <2>2
<1>3. QED BY <1>1, <1>2

\* The walk begins with nothing passed and ends with all words, ...
LEMMA WalkEnds ==
    ASSUME NEW t, TableOf(t)
    PROVE  /\ AllOf(t, -1) = {}
           /\ \A w \in Words : w \in AllOf(t, Size - 1) <=> Shash_find(t, w)
           /\ AllOf(t, Size - 1) \subseteq Words
<1>1. \A w : w \notin AllOf(t, -1)
  <2> SUFFICES ASSUME NEW w, AllAt(t, w, -1) PROVE FALSE
    BY PassedIs
  <2>1. PICK a \in 0..Size - 1 : a <= -1
    BY DEF AllAt
  <2>2. QED BY <2>1, SizeIs
<1>2. \A a \in 0..Size - 1 : a <= Size - 1
  BY SizeIs
<1>3. ASSUME NEW w
      PROVE  w \in AllOf(t, Size - 1) <=>
                \E a \in 0..Size - 1 : \E b \in 1..Len(t[a]) : t[a][b] = w
  <2>1. AllAt(t, w, Size - 1) <=> \E a \in 0..Size - 1 : \E b \in 1..Len(t[a]) : t[a][b] = w
    BY <1>2 DEF AllAt
  <2>2. QED BY <2>1, PassedIs
<1>4. \A w \in Words : w \in AllOf(t, Size - 1) <=> Shash_find(t, w)
  BY <1>3, FindIs
<1>5. AllOf(t, Size - 1) \subseteq Words
  BY <1>3, BucketIs
<1>6. QED BY <1>1, <1>4, <1>5

\* ... passes an empty bucket or the last node of one, ...
LEMMA BucketEnds ==
    ASSUME NEW t, TableOf(t), NEW i \in 0..Size - 1
    PROVE  /\ Passed(t, i, Len(t[i])) = AllOf(t, i)
           /\ Passed(t, i, 0) = AllOf(t, i - 1)
           /\ t[i] = << >> => AllOf(t, i) = AllOf(t, i - 1)
<1>1. \A a \in 0..Size - 1 : Len(t[a]) \in Nat
  BY BucketIs
<1>2. ASSUME NEW w PROVE w \in Passed(t, i, Len(t[i])) <=> w \in AllOf(t, i)
  <2>1. \A a \in 0..Size - 1 : \A b \in 1..Len(t[a]) :
           (a < i \/ (a = i /\ b <= Len(t[i]))) <=> a <= i
    BY <1>1, SizeIs
  <2>2. PassedAt(t, w, i, Len(t[i])) <=> AllAt(t, w, i)
    BY <2>1 DEF PassedAt, AllAt
  <2>3. QED BY <2>2, PassedIs
<1>3. ASSUME NEW w PROVE w \in Passed(t, i, 0) <=> w \in AllOf(t, i - 1)
  <2>1. \A a \in 0..Size - 1 : \A b \in 1..Len(t[a]) :
           (a < i \/ (a = i /\ b <= 0)) <=> a <= i - 1
    BY <1>1, SizeIs
  <2>2. PassedAt(t, w, i, 0) <=> AllAt(t, w, i - 1)
    BY <2>1 DEF PassedAt, AllAt
  <2>3. QED BY <2>2, PassedIs
<1>4. ASSUME t[i] = << >> PROVE Len(t[i]) = 0
  BY <1>4
<1>5. QED BY <1>2, <1>3, <1>4

\* ... and from one node to the next, whose word it has not passed before if the
\* table has each word once.
LEMMA NodePassed ==
    ASSUME NEW t, TableOf(t), NEW i \in 0..Size - 1, NEW j \in 1..Len(t[i])
    PROVE  /\ Passed(t, i, j) = Passed(t, i, j - 1) \cup {t[i][j]}
           /\ Distinct(t) => t[i][j] \notin Passed(t, i, j - 1)
           /\ Passed(t, i, j) \subseteq Words
<1>1. \A a \in 0..Size - 1 : Len(t[a]) \in Nat
  BY BucketIs
<1>2. ASSUME NEW w
      PROVE  w \in Passed(t, i, j) <=> w \in Passed(t, i, j - 1) \/ w = t[i][j]
  <2>1. \A a \in 0..Size - 1 : \A b \in 1..Len(t[a]) :
           (a < i \/ (a = i /\ b <= j)) <=>
           (a < i \/ (a = i /\ b <= j - 1)) \/ (a = i /\ b = j)
    BY <1>1, SizeIs
  <2>2. PassedAt(t, w, i, j) <=> PassedAt(t, w, i, j - 1) \/ w = t[i][j]
    BY <2>1 DEF PassedAt
  <2>3. QED BY <2>2, PassedIs
<1>3. ASSUME Distinct(t), t[i][j] \in Passed(t, i, j - 1) PROVE FALSE
  <2>1. PassedAt(t, t[i][j], i, j - 1)
    BY <1>3, PassedIs
  <2>2. PICK a \in 0..Size - 1 :
           \E b \in 1..Len(t[a]) : t[a][b] = t[i][j] /\ (a < i \/ (a = i /\ b <= j - 1))
    BY <2>1 DEF PassedAt
  <2>3. PICK b \in 1..Len(t[a]) : t[a][b] = t[i][j] /\ (a < i \/ (a = i /\ b <= j - 1))
    BY <2>2
  <2>4. Hash[t[a][b]] = a /\ Hash[t[i][j]] = i
    BY BucketIs
  <2>5. a = i
    BY <2>3, <2>4
  <2>6. b = j
    BY <2>3, <2>5, <1>3 DEF Distinct
  <2>7. QED BY <2>3, <2>5, <2>6, SizeIs, <1>1
<1>4. Passed(t, i, j) \subseteq Words
  <2> SUFFICES ASSUME NEW w, PassedAt(t, w, i, j) PROVE w \in Words
    BY PassedIs
  <2>1. PICK a \in 0..Size - 1 : \E b \in 1..Len(t[a]) : t[a][b] = w
    BY DEF PassedAt
  <2>2. QED BY <2>1, BucketIs
<1>5. QED BY <1>2, <1>3, <1>4

-----------------------------------------------------------------------------
(* The steps of a filter *)

\* A step of filter m, which was in the middle of a mail, leaves it as r.
Moves(m, r) ==
    /\ Busy(m) /\ r \in Filters /\ mon' = [mon EXCEPT ![m] = r]
    /\ r.alone = mon[m].alone
    /\ UNCHANGED <<file, table, phase, raced>>
    /\ cur_index' \in -1..Size /\ cur_node' \in Nodes
    /\ filter_word' \in Found \cup {NULL} /\ (filter_word \in Found => filter_word' \in Found)
    /\ r.pc = "insert" => filter_word' \in Found
    /\ r.pc = "next" => r.reg \in Places(table)
    /\ r.pc = "list" => r.idx \in 0..Size - 1
    /\ mon[m].alone =>
         /\ r.pc # "crashed"
         /\ Reads(r, filter_word') /\ Walks(table, r, cur_index', cur_node')
         /\ Behind(cur_index, cur_node) => Behind(cur_index', cur_node')

\* What is known of a filter before its step.
LEMMA BeforeStep ==
    ASSUME SpamInv, NEW m \in Monitors
    PROVE  /\ mon[m] \in Filters
           /\ cur_index \in -1..Size /\ cur_node \in Nodes /\ filter_word \in Found \cup {NULL}
           /\ TableOf(table)
           /\ mon[m].pc = "insert" => filter_word \in Found
           /\ mon[m].pc = "next" => mon[m].reg \in Places(table)
           /\ mon[m].pc = "list" => mon[m].idx \in 0..Size - 1
           /\ mon[m].alone =>
                /\ Reads(mon[m], filter_word) /\ Walks(table, mon[m], cur_index, cur_node)
                /\ Busy(m) => \A o \in Monitors \ {m} : ~Busy(o)
BY DEF SpamInv, SpamTypeOK, ServiceInv, AloneInv

LEMMA TokenMoves ==
    ASSUME SpamInv, NEW m \in Monitors, Token(m)
    PROVE  \E r : Moves(m, r)
<1> DEFINE q == mon[m]
           r == [q EXCEPT !.todo = Tail(@), !.pc = "insert"]
<1>1. /\ q \in Filters /\ filter_word \in Found \cup {NULL}
      /\ cur_index \in -1..Size /\ cur_node \in Nodes
      /\ q.alone => /\ Reads(q, filter_word) /\ Walks(table, q, cur_index, cur_node)
                    /\ Busy(m) => \A o \in Monitors \ {m} : ~Busy(o)
  BY BeforeStep
<1>2. /\ q.pc = "token" /\ q.todo # << >> /\ Busy(m)
      /\ mon' = [mon EXCEPT ![m] = r]
      /\ UNCHANGED <<file, table, cur_index, cur_node, phase, raced>>
  BY DEF Token, Busy, cursor
<1>3. /\ q.todo \in Seq(Words) /\ Tail(q.todo) \in Seq(Words) /\ Head(q.todo) \in Words
      /\ Range(q.todo) = {Head(q.todo)} \cup Range(Tail(q.todo))
  <2>1. q.todo \in Seq(Words)
    BY <1>1 DEF Filters
  <2>2. Tail(q.todo) \in Seq(Words) /\ Head(q.todo) \in Words
    BY <2>1, <1>2
  <2>3. PICK u : u = <<Head(q.todo)>>
    OBVIOUS
  <2>4. u \in Seq(Words) /\ Range(u) = {Head(q.todo)} /\ q.todo = u \o Tail(q.todo)
    BY <2>1, <2>2, <2>3, <1>2 DEF Range
  <2>5. Range(u \o Tail(q.todo)) = Range(u) \cup Range(Tail(q.todo))
    <3>1. PICK v : v = Tail(q.todo)
      OBVIOUS
    <3>2. v \in Seq(Words)
      BY <2>2, <3>1
    <3>3. Range(u \o v) = Range(u) \cup Range(v)
      BY <2>4, <3>2, JoinIs
    <3>4. QED BY <3>1, <3>3
  <2>6. QED BY <2>1, <2>2, <2>4, <2>5
<1>4. /\ filter_word' = Head(q.todo) \/ filter_word' = Mixture
      /\ q.alone => filter_word' = Head(q.todo)
  BY <1>1, <1>2 DEF Token, Busy
<1>5. /\ r \in Filters /\ r.pc = "insert" /\ r.alone = q.alone /\ r.mail = q.mail
      /\ r.todo = Tail(q.todo) /\ r.test = q.test /\ r.counted = q.counted /\ r.wrong = q.wrong
  BY <1>1, <1>3 DEF Filters, Pcs
<1>6. filter_word' \in Found
  BY <1>3, <1>4 DEF Found
<1> HIDE DEF r
<1>7. ASSUME q.alone
      PROVE  Reads(r, filter_word') /\ Walks(table, r, cur_index', cur_node')
  <2>1. Reads(r, filter_word')
    BY <1>1, <1>2, <1>3, <1>4, <1>5, <1>7 DEF Reads
  <2>2. Walks(table, r, cur_index', cur_node')
    BY <1>1, <1>5, <1>7 DEF Walks
  <2>3. QED BY <2>1, <2>2
<1>8. Moves(m, r)
  BY <1>1, <1>2, <1>5, <1>6, <1>7 DEF Moves
<1>9. QED BY <1>8

LEMMA InsertMoves ==
    ASSUME SpamInv, NEW m \in Monitors, Insert(m)
    PROVE  \E r : Moves(m, r)
<1> DEFINE q == mon[m]
           r == [q EXCEPT !.test = @ \cup {filter_word}, !.pc = "token"]
<1>1. /\ q \in Filters /\ (q.pc = "insert" => filter_word \in Found)
      /\ cur_index \in -1..Size /\ cur_node \in Nodes
      /\ q.alone => Reads(q, filter_word) /\ Walks(table, q, cur_index, cur_node)
  BY BeforeStep
<1>2. /\ q.pc = "insert" /\ Busy(m)
      /\ mon' = [mon EXCEPT ![m] = r]
      /\ UNCHANGED <<file, table, cur_index, cur_node, filter_word, phase, raced>>
  BY DEF Insert, Busy, cursor
<1>3. /\ r \in Filters /\ r.pc = "token" /\ r.alone = q.alone /\ r.mail = q.mail
      /\ r.todo = q.todo /\ r.test = q.test \cup {filter_word}
      /\ r.counted = q.counted /\ r.wrong = q.wrong
  BY <1>1, <1>2 DEF Filters, Pcs
<1> HIDE DEF r
<1>4. ASSUME q.alone
      PROVE  Reads(r, filter_word') /\ Walks(table, r, cur_index', cur_node')
  BY <1>1, <1>2, <1>3, <1>4 DEF Reads, Walks
<1>5. Moves(m, r)
  BY <1>1, <1>2, <1>3, <1>4 DEF Moves
<1>6. QED BY <1>5

LEMMA TokensEndMoves ==
    ASSUME SpamInv, NEW m \in Monitors, TokensEnd(m)
    PROVE  \E r : Moves(m, r)
<1> DEFINE q == mon[m]
           r == [q EXCEPT !.pc = "rewalk"]
<1>1. /\ q \in Filters /\ filter_word \in Found \cup {NULL}
      /\ cur_index \in -1..Size /\ cur_node \in Nodes
      /\ q.alone => Reads(q, filter_word) /\ Walks(table, q, cur_index, cur_node)
  BY BeforeStep
<1>2. /\ q.pc = "token" /\ q.todo = << >> /\ Busy(m)
      /\ mon' = [mon EXCEPT ![m] = r]
      /\ UNCHANGED <<file, table, cur_index, cur_node, filter_word, phase, raced>>
  BY DEF TokensEnd, Goto, Busy, cursor
<1>3. /\ r \in Filters /\ r.pc = "rewalk" /\ r.alone = q.alone /\ r.mail = q.mail
      /\ r.test = q.test /\ r.counted = q.counted /\ r.wrong = q.wrong
  BY <1>1, <1>2 DEF Filters, Pcs
<1>4. Range(q.todo) = {}
  BY <1>2, EmptyIs
<1> HIDE DEF r
<1>5. ASSUME q.alone
      PROVE  Reads(r, filter_word') /\ Walks(table, r, cur_index', cur_node')
  BY <1>1, <1>2, <1>3, <1>4, <1>5 DEF Reads, Walks
<1>6. Moves(m, r)
  BY <1>1, <1>2, <1>3, <1>5 DEF Moves
<1>7. QED BY <1>6

LEMMA RewalkMoves ==
    ASSUME SpamInv, NEW m \in Monitors, Rewalk(m)
    PROVE  \E r : Moves(m, r)
<1> DEFINE q == mon[m]
<1>1. /\ q \in Filters /\ filter_word \in Found \cup {NULL} /\ TableOf(table)
      /\ cur_index \in -1..Size /\ cur_node \in Nodes /\ NULL \in Nodes
      /\ q.alone => Reads(q, filter_word) /\ Walks(table, q, cur_index, cur_node)
  BY BeforeStep DEF Nodes
<1>2. UNCHANGED <<file, table, filter_word, phase, raced>>
  BY DEF Rewalk
<1>3. CASE Goto(m, "rewalk", "reindex") /\ cur_node' = NULL /\ UNCHANGED cur_index
  <2> DEFINE r == [q EXCEPT !.pc = "reindex"]
  <2>1. q.pc = "rewalk" /\ Busy(m) /\ mon' = [mon EXCEPT ![m] = r]
    BY <1>3 DEF Goto, Busy
  <2>2. /\ r \in Filters /\ r.pc = "reindex" /\ r.alone = q.alone /\ r.mail = q.mail
        /\ r.test = q.test /\ r.counted = q.counted /\ r.wrong = q.wrong
    BY <1>1 DEF Filters, Pcs
  <2> HIDE DEF r
  <2>3. ASSUME q.alone
        PROVE  Reads(r, filter_word') /\ Walks(table, r, cur_index', cur_node')
    BY <1>1, <1>2, <1>3, <2>1, <2>2, <2>3 DEF Reads, Walks
  <2>4. Moves(m, r)
    BY <1>1, <1>2, <1>3, <2>1, <2>2, <2>3 DEF Moves, Behind
  <2>5. QED BY <2>4
<1>4. CASE Goto(m, "reindex", "node") /\ cur_index' = -1 /\ UNCHANGED cur_node
  <2> DEFINE r == [q EXCEPT !.pc = "node"]
  <2>1. q.pc = "reindex" /\ Busy(m) /\ mon' = [mon EXCEPT ![m] = r]
    BY <1>4 DEF Goto, Busy
  <2>2. /\ r \in Filters /\ r.pc = "node" /\ r.alone = q.alone /\ r.mail = q.mail
        /\ r.test = q.test /\ r.counted = q.counted /\ r.wrong = q.wrong
    BY <1>1 DEF Filters, Pcs
  <2>3. AllOf(table, -1) = {} /\ -1 \in -1..Size /\ -1 <= Size - 1
    BY <1>1, WalkEnds, SizeIs
  <2> HIDE DEF r
  <2>4. ASSUME q.alone
        PROVE  /\ Reads(r, filter_word') /\ Walks(table, r, cur_index', cur_node')
               /\ cur_node' = NULL
    BY <1>1, <1>2, <1>4, <2>1, <2>2, <2>3, <2>4 DEF Reads, Walks
  <2>5. Moves(m, r)
    BY <1>1, <1>2, <1>4, <2>1, <2>2, <2>3, <2>4 DEF Moves, Behind
  <2>6. QED BY <2>5
<1>5. QED BY <1>3, <1>4 DEF Rewalk

\* A node, its word and the one after it.
LEMMA AtNode ==
    ASSUME NEW t, TableOf(t), NEW node \in Places(t)
    PROVE  /\ node # NULL /\ node[1] \in 0..Size - 1 /\ node[2] \in Nat /\ KeyOf(t, node) \in Words
           /\ Passed(t, node[1], node[2]) = Passed(t, node[1], node[2] - 1) \cup {KeyOf(t, node)}
           /\ Distinct(t) => KeyOf(t, node) \notin Passed(t, node[1], node[2] - 1)
           /\ NextOf(t, node) = NULL => Passed(t, node[1], node[2]) = AllOf(t, node[1])
           /\ NextOf(t, node) # NULL =>
                /\ NextOf(t, node) \in Places(t)
                /\ NextOf(t, node)[1] = node[1] /\ NextOf(t, node)[2] - 1 = node[2]
<1>1. PICK i \in 0..Size - 1 : \E j \in 1..Len(t[i]) : node = <<i, j>>
  BY PlaceIs
<1>2. PICK j \in 1..Len(t[i]) : node = <<i, j>>
  BY <1>1
<1>3. PICK len \in Nat : len = Len(t[i])
  BY BucketIs
<1>4. /\ node[1] = i /\ node[2] = j /\ j \in 1..len /\ KeyOf(t, node) = t[i][j]
      /\ t[i][j] \in Words /\ node # NULL
  BY <1>2, <1>3, PairPlace, BucketIs, PlaceNotNull
<1>5. /\ Passed(t, i, j) = Passed(t, i, j - 1) \cup {t[i][j]}
      /\ Distinct(t) => t[i][j] \notin Passed(t, i, j - 1)
  BY NodePassed
<1>6. NextOf(t, node) = IF j = len THEN NULL ELSE <<i, j + 1>>
  BY <1>3, <1>4 DEF NextOf
<1>7. CASE j = len
  <2>1. Passed(t, i, j) = AllOf(t, i)
    BY <1>3, <1>7, BucketEnds
  <2>2. QED BY <1>4, <1>5, <1>6, <1>7, <2>1
<1>8. CASE j # len
  <2>1. PICK n : n = <<i, j + 1>>
    OBVIOUS
  <2>2. j + 1 \in 1..len /\ (j + 1) - 1 = j
    BY <1>4, <1>8
  <2>3. n \in Places(t) /\ n[1] = i /\ n[2] = j + 1 /\ n # NULL
    BY <1>3, <2>1, <2>2, PairPlace, PlaceNotNull
  <2>4. NextOf(t, node) = n
    BY <1>6, <1>8, <2>1
  <2>5. QED BY <1>4, <1>5, <2>2, <2>3, <2>4
<1>9. QED BY <1>7, <1>8

\* The first node of a bucket.
LEMMA AtBucket ==
    ASSUME NEW t, TableOf(t), NEW i \in 0..Size - 1
    PROVE  /\ ListOf(t, i) = NULL => AllOf(t, i) = AllOf(t, i - 1)
           /\ ListOf(t, i) # NULL =>
                /\ ListOf(t, i) \in Places(t) /\ ListOf(t, i)[1] = i
                /\ Passed(t, i, ListOf(t, i)[2] - 1) = AllOf(t, i - 1)
<1>1. CASE t[i] = << >>
  BY <1>1, BucketEnds DEF ListOf
<1>2. CASE t[i] # << >>
  <2>1. PICK n : n = <<i, 1>>
    OBVIOUS
  <2>2. 1 \in 1..Len(t[i])
    <3>1. PICK s \in Seq(Words) : s = t[i]
      BY BucketIs
    <3>2. Len(s) \in Nat /\ Len(s) # 0
      BY <1>2, <3>1
    <3>3. QED BY <3>1, <3>2
  <2>3. n \in Places(t) /\ n[1] = i /\ n[2] = 1 /\ n # NULL /\ n[2] - 1 = 0
    BY <2>1, <2>2, PairPlace, PlaceNotNull
  <2>4. ListOf(t, i) = n
    BY <1>2, <2>1 DEF ListOf
  <2>5. Passed(t, i, 0) = AllOf(t, i - 1)
    BY BucketEnds
  <2>6. QED BY <2>3, <2>4, <2>5
<1>3. QED BY <1>1, <1>2

LEMMA ReadNodeMoves ==
    ASSUME SpamInv, NEW m \in Monitors, ReadNode(m)
    PROVE  \E r : Moves(m, r)
<1> DEFINE q == mon[m]
           r == [q EXCEPT !.reg = cur_node, !.pc = IF cur_node = NULL THEN "index" ELSE "next"]
<1>1. /\ q \in Filters /\ filter_word \in Found \cup {NULL}
      /\ cur_index \in -1..Size /\ cur_node \in Nodes
      /\ q.alone => Reads(q, filter_word) /\ Walks(table, q, cur_index, cur_node)
  BY BeforeStep
<1>2. /\ q.pc = "node" /\ Busy(m)
      /\ mon' = [mon EXCEPT ![m] = r]
      /\ UNCHANGED <<file, table, cur_index, cur_node, filter_word, phase, raced>>
  BY DEF ReadNode, Busy, cursor
<1>3. /\ r \in Filters /\ r.pc = (IF cur_node = NULL THEN "index" ELSE "next")
      /\ r.reg = cur_node /\ r.alone = q.alone /\ r.mail = q.mail
      /\ r.test = q.test /\ r.counted = q.counted /\ r.wrong = q.wrong
  BY <1>1 DEF Filters, Pcs
<1>4. cur_node # NULL => cur_node \in Places(table)
  BY <1>1 DEF Nodes
<1> HIDE DEF r
<1>5. ASSUME q.alone
      PROVE  Reads(r, filter_word') /\ Walks(table, r, cur_index', cur_node')
  BY <1>1, <1>2, <1>3, <1>5 DEF Reads, Walks
<1>6. Moves(m, r)
  BY <1>1, <1>2, <1>3, <1>4, <1>5 DEF Moves
<1>7. QED BY <1>6

LEMMA ReadIndexMoves ==
    ASSUME SpamInv, NEW m \in Monitors, ReadIndex(m)
    PROVE  \E r : Moves(m, r)
<1> DEFINE q == mon[m]
           r == [q EXCEPT !.idx = cur_index, !.pc = "bump"]
<1>1. /\ q \in Filters /\ filter_word \in Found \cup {NULL}
      /\ cur_index \in -1..Size /\ cur_node \in Nodes
      /\ q.alone => Reads(q, filter_word) /\ Walks(table, q, cur_index, cur_node)
  BY BeforeStep
<1>2. /\ q.pc = "index" /\ Busy(m)
      /\ mon' = [mon EXCEPT ![m] = r]
      /\ UNCHANGED <<file, table, cur_index, cur_node, filter_word, phase, raced>>
  BY DEF ReadIndex, Busy, cursor
<1>3. /\ r \in Filters /\ r.pc = "bump" /\ r.idx = cur_index /\ r.alone = q.alone /\ r.mail = q.mail
      /\ r.test = q.test /\ r.counted = q.counted /\ r.wrong = q.wrong
  BY <1>1 DEF Filters, Pcs
<1> HIDE DEF r
<1>4. ASSUME q.alone
      PROVE  Reads(r, filter_word') /\ Walks(table, r, cur_index', cur_node')
  BY <1>1, <1>2, <1>3, <1>4 DEF Reads, Walks
<1>5. Moves(m, r)
  BY <1>1, <1>2, <1>3, <1>4 DEF Moves
<1>6. QED BY <1>5

LEMMA ReadValueMoves ==
    ASSUME SpamInv, NEW m \in Monitors, ReadValue(m)
    PROVE  \E r : Moves(m, r)
<1> DEFINE q == mon[m]
           r == [q EXCEPT !.reg = cur_node, !.pc = "count"]
<1>1. /\ q \in Filters /\ filter_word \in Found \cup {NULL}
      /\ cur_index \in -1..Size /\ cur_node \in Nodes
      /\ q.alone => Reads(q, filter_word) /\ Walks(table, q, cur_index, cur_node)
  BY BeforeStep
<1>2. /\ q.pc = "value" /\ Busy(m)
      /\ mon' = [mon EXCEPT ![m] = r]
      /\ UNCHANGED <<file, table, cur_index, cur_node, filter_word, phase, raced>>
  BY DEF ReadValue, Busy, cursor
<1>3. /\ r \in Filters /\ r.pc = "count" /\ r.reg = cur_node /\ r.key = q.key
      /\ r.alone = q.alone /\ r.mail = q.mail
      /\ r.test = q.test /\ r.counted = q.counted /\ r.wrong = q.wrong
  BY <1>1 DEF Filters, Pcs
<1> HIDE DEF r
<1>4. ASSUME q.alone
      PROVE  Reads(r, filter_word') /\ Walks(table, r, cur_index', cur_node')
  BY <1>1, <1>2, <1>3, <1>4 DEF Reads, Walks
<1>5. Moves(m, r)
  BY <1>1, <1>2, <1>3, <1>4 DEF Moves
<1>6. QED BY <1>5

LEMMA StoreIndexMoves ==
    ASSUME SpamInv, NEW m \in Monitors, StoreIndex(m)
    PROVE  \E r : Moves(m, r)
<1> DEFINE q == mon[m]
<1>1. /\ q \in Filters /\ filter_word \in Found \cup {NULL}
      /\ cur_index \in -1..Size /\ cur_node \in Nodes
      /\ q.alone => Reads(q, filter_word) /\ Walks(table, q, cur_index, cur_node)
  BY BeforeStep
<1>2. /\ q.pc = "bump" /\ Busy(m)
      /\ cur_index' = IF q.idx = Size THEN Size ELSE q.idx + 1
      /\ UNCHANGED <<file, table, cur_node, filter_word, phase, raced>>
  BY DEF StoreIndex, Busy
<1>3. q.idx \in -1..Size /\ cur_index' \in 0..Size /\ cur_index' \in -1..Size
  <2>1. q.idx \in -1..Size
    BY <1>1 DEF Filters
  <2>2. QED BY <2>1, <1>2, SizeIs
<1>4. PICK n \in 0..Size : n = cur_index'
  BY <1>3
<1>5. CASE n > Size - 1
  <2> DEFINE r == Ended(q)
  <2>1. mon' = [mon EXCEPT ![m] = r]
    BY <1>4, <1>5 DEF StoreIndex
  <2>2. /\ r \in Filters /\ r.pc = "done" /\ r.alone = q.alone /\ r.mail = q.mail
        /\ r.counted = q.counted /\ r.wrong = q.wrong
    <3>1. {} \in SUBSET Found /\ 0 \in -1..Size
      BY SizeIs
    <3>2. QED BY <1>1, <3>1 DEF Filters, Pcs, Ended
  <2> HIDE DEF r
  <2>3. ASSUME q.alone
        PROVE  /\ Reads(r, filter_word') /\ Walks(table, r, cur_index', cur_node')
               /\ Behind(cur_index, cur_node) => Behind(cur_index', cur_node')
    <3>1. /\ q.idx = cur_index /\ cur_index <= Size - 1 /\ cur_node = NULL
          /\ q.counted = q.test \cap AllOf(table, cur_index) /\ q.test = Range(q.mail)
          /\ Distinct(table) => ~q.wrong
      BY <1>1, <1>2, <2>3 DEF Reads, Walks
    <3>2. cur_index = Size - 1
      BY <1>2, <1>3, <1>4, <1>5, <3>1, SizeIs
    <3>3. QED BY <1>2, <2>2, <3>1, <3>2 DEF Reads, Walks, Behind
  <2>4. Moves(m, r)
    BY <1>1, <1>2, <1>3, <2>1, <2>2, <2>3 DEF Moves
  <2>5. QED BY <2>4
<1>6. CASE ~(n > Size - 1)
  <2> DEFINE r == [q EXCEPT !.idx = n, !.pc = "list"]
  <2>1. mon' = [mon EXCEPT ![m] = r]
    BY <1>4, <1>6 DEF StoreIndex
  <2>2. n \in 0..Size - 1 /\ n \in -1..Size
    BY <1>4, <1>6, SizeIs
  <2>3. /\ r \in Filters /\ r.pc = "list" /\ r.idx = n /\ r.alone = q.alone /\ r.mail = q.mail
        /\ r.test = q.test /\ r.counted = q.counted /\ r.wrong = q.wrong
    BY <1>1, <2>2 DEF Filters, Pcs
  <2> HIDE DEF r
  <2>4. ASSUME q.alone
        PROVE  /\ Reads(r, filter_word') /\ Walks(table, r, cur_index', cur_node')
               /\ Behind(cur_index, cur_node) => Behind(cur_index', cur_node')
    <3>1. /\ q.idx = cur_index /\ cur_index <= Size - 1 /\ cur_node = NULL
          /\ q.counted = q.test \cap AllOf(table, cur_index) /\ q.test = Range(q.mail)
          /\ Distinct(table) => ~q.wrong
      BY <1>1, <1>2, <2>4 DEF Reads, Walks
    <3>2. n - 1 = cur_index /\ n >= 0 /\ n <= Size - 1
      BY <1>2, <1>3, <1>4, <2>2, <3>1, SizeIs
    <3>3. QED BY <1>2, <1>4, <2>3, <3>1, <3>2 DEF Reads, Walks, Behind
  <2>5. Moves(m, r)
    BY <1>1, <1>2, <1>3, <2>1, <2>2, <2>3, <2>4 DEF Moves
  <2>6. QED BY <2>5
<1>7. QED BY <1>5, <1>6

LEMMA StoreListMoves ==
    ASSUME SpamInv, NEW m \in Monitors, StoreList(m)
    PROVE  \E r : Moves(m, r)
<1> DEFINE q == mon[m]
<1>1. PICK node : node = ListOf(table, q.idx)
  OBVIOUS
<1>2. /\ q.pc = "list" /\ Busy(m) /\ q.idx \in 0..Size - 1
      /\ cur_node' = node
      /\ UNCHANGED <<file, table, cur_index, filter_word, phase, raced>>
  BY <1>1, BeforeStep DEF StoreList, StoreNode, Busy
<1>3. /\ q \in Filters /\ filter_word \in Found \cup {NULL} /\ TableOf(table)
      /\ cur_index \in -1..Size
      /\ q.alone => Reads(q, filter_word) /\ Walks(table, q, cur_index, cur_node)
  BY BeforeStep
<1>4. ASSUME q.alone
      PROVE  /\ q.idx = cur_index /\ cur_index <= Size - 1
             /\ q.counted = q.test \cap AllOf(table, cur_index - 1) /\ q.test = Range(q.mail)
             /\ Distinct(table) => ~q.wrong
  BY <1>2, <1>3, <1>4 DEF Reads, Walks
<1>5. /\ node = NULL => AllOf(table, q.idx) = AllOf(table, q.idx - 1)
      /\ node # NULL => /\ node \in Places(table) /\ node[1] = q.idx
                        /\ Passed(table, q.idx, node[2] - 1) = AllOf(table, q.idx - 1)
  BY <1>1, <1>2, <1>3, AtBucket
<1>6. 0 \in -1..Size /\ NULL \in Nodes
  BY SizeIs DEF Nodes
<1>7. CASE node = NULL
  <2> DEFINE r == [q EXCEPT !.pc = "index", !.key = NULL, !.reg = NULL, !.idx = 0]
  <2>1. mon' = [mon EXCEPT ![m] = r]
    BY <1>1, <1>3, <1>7 DEF StoreList, StoreNode
  <2>2. /\ r \in Filters /\ r.pc = "index" /\ r.alone = q.alone /\ r.mail = q.mail
        /\ r.test = q.test /\ r.counted = q.counted /\ r.wrong = q.wrong
    BY <1>3, <1>6 DEF Filters, Pcs
  <2> HIDE DEF r
  <2>3. ASSUME q.alone
        PROVE  /\ Reads(r, filter_word') /\ Walks(table, r, cur_index', cur_node')
               /\ Behind(cur_index, cur_node) => Behind(cur_index', cur_node')
    BY <1>2, <1>4, <1>5, <1>7, <2>2, <2>3 DEF Reads, Walks, Behind
  <2>4. Moves(m, r)
    BY <1>2, <1>3, <1>6, <1>7, <2>1, <2>2, <2>3 DEF Moves
  <2>5. QED BY <2>4
<1>8. CASE node # NULL
  <2> DEFINE r == [q EXCEPT !.pc = "value", !.key = KeyOf(table, node), !.reg = NULL, !.idx = 0]
  <2>1. mon' = [mon EXCEPT ![m] = r]
    BY <1>1, <1>3, <1>8 DEF StoreList, StoreNode
  <2>2. node \in Nodes /\ KeyOf(table, node) \in Words
    BY <1>3, <1>5, <1>8, AtNode DEF Nodes
  <2>3. /\ r \in Filters /\ r.pc = "value" /\ r.key = KeyOf(table, node)
        /\ r.alone = q.alone /\ r.mail = q.mail
        /\ r.test = q.test /\ r.counted = q.counted /\ r.wrong = q.wrong
    BY <1>3, <1>6, <2>2 DEF Filters, Pcs
  <2> HIDE DEF r
  <2>4. ASSUME q.alone
        PROVE  /\ Reads(r, filter_word') /\ Walks(table, r, cur_index', cur_node')
               /\ Behind(cur_index, cur_node) => Behind(cur_index', cur_node')
    <3>1. node[1] <= cur_index
      BY <1>2, <1>3, <1>4, <1>5, <1>8, <2>4, SizeIs
    <3>2. QED BY <1>2, <1>4, <1>5, <1>8, <2>3, <2>4, <3>1 DEF Reads, Walks, Behind
  <2>5. Moves(m, r)
    BY <1>2, <1>3, <2>1, <2>2, <2>3, <2>4 DEF Moves
  <2>6. QED BY <2>5
<1>9. QED BY <1>7, <1>8

LEMMA StoreNextMoves ==
    ASSUME SpamInv, NEW m \in Monitors, StoreNext(m)
    PROVE  \E r : Moves(m, r)
<1> DEFINE q == mon[m]
<1>1. PICK node : node = NextOf(table, q.reg)
  OBVIOUS
<1>2. /\ q.pc = "next" /\ Busy(m) /\ q.reg \in Places(table)
      /\ cur_node' = node
      /\ UNCHANGED <<file, table, cur_index, filter_word, phase, raced>>
  BY <1>1, BeforeStep DEF StoreNext, StoreNode, Busy
<1>3. /\ q \in Filters /\ filter_word \in Found \cup {NULL} /\ TableOf(table)
      /\ cur_index \in -1..Size
      /\ q.alone => Reads(q, filter_word) /\ Walks(table, q, cur_index, cur_node)
  BY BeforeStep
<1>4. q.reg # NULL /\ q.reg[1] \in 0..Size - 1
  BY <1>2, <1>3, AtNode
<1>5. ASSUME q.alone
      PROVE  /\ q.reg = cur_node /\ q.reg[1] = cur_index /\ cur_index <= Size - 1
             /\ q.counted = q.test \cap Passed(table, cur_index, q.reg[2])
             /\ q.test = Range(q.mail)
             /\ Distinct(table) => ~q.wrong
  BY <1>2, <1>3, <1>4, <1>5 DEF Reads, Walks
<1>6. /\ node = NULL => Passed(table, q.reg[1], q.reg[2]) = AllOf(table, q.reg[1])
      /\ node # NULL => /\ node \in Places(table) /\ node[1] = q.reg[1] /\ node[2] - 1 = q.reg[2]
  BY <1>1, <1>2, <1>3, AtNode
<1>7. 0 \in -1..Size /\ NULL \in Nodes
  BY SizeIs DEF Nodes
<1>8. CASE node = NULL
  <2> DEFINE r == [q EXCEPT !.pc = "node", !.key = NULL, !.reg = NULL, !.idx = 0]
  <2>1. mon' = [mon EXCEPT ![m] = r]
    BY <1>1, <1>3, <1>8 DEF StoreNext, StoreNode
  <2>2. /\ r \in Filters /\ r.pc = "node" /\ r.alone = q.alone /\ r.mail = q.mail
        /\ r.test = q.test /\ r.counted = q.counted /\ r.wrong = q.wrong
    BY <1>3, <1>7 DEF Filters, Pcs
  <2> HIDE DEF r
  <2>3. ASSUME q.alone
        PROVE  /\ Reads(r, filter_word') /\ Walks(table, r, cur_index', cur_node')
               /\ Behind(cur_index, cur_node) => Behind(cur_index', cur_node')
    BY <1>2, <1>5, <1>6, <1>8, <2>2, <2>3 DEF Reads, Walks, Behind
  <2>4. Moves(m, r)
    BY <1>2, <1>3, <1>7, <1>8, <2>1, <2>2, <2>3 DEF Moves
  <2>5. QED BY <2>4
<1>9. CASE node # NULL
  <2> DEFINE r == [q EXCEPT !.pc = "value", !.key = KeyOf(table, node), !.reg = NULL, !.idx = 0]
  <2>1. mon' = [mon EXCEPT ![m] = r]
    BY <1>1, <1>3, <1>9 DEF StoreNext, StoreNode
  <2>2. node \in Nodes /\ KeyOf(table, node) \in Words
    BY <1>3, <1>6, <1>9, AtNode DEF Nodes
  <2>3. /\ r \in Filters /\ r.pc = "value" /\ r.key = KeyOf(table, node)
        /\ r.alone = q.alone /\ r.mail = q.mail
        /\ r.test = q.test /\ r.counted = q.counted /\ r.wrong = q.wrong
    BY <1>3, <1>7, <2>2 DEF Filters, Pcs
  <2> HIDE DEF r
  <2>4. ASSUME q.alone
        PROVE  /\ Reads(r, filter_word') /\ Walks(table, r, cur_index', cur_node')
               /\ Behind(cur_index, cur_node) => Behind(cur_index', cur_node')
    <3>1. node[1] <= cur_index
      BY <1>3, <1>4, <1>5, <1>6, <1>9, <2>4, SizeIs
    <3>2. QED BY <1>2, <1>5, <1>6, <1>9, <2>3, <2>4, <3>1 DEF Reads, Walks, Behind
  <2>5. Moves(m, r)
    BY <1>2, <1>3, <2>1, <2>2, <2>3, <2>4 DEF Moves
  <2>6. QED BY <2>5
<1>10. QED BY <1>8, <1>9

LEMMA CountMoves ==
    ASSUME SpamInv, NEW m \in Monitors, Count(m)
    PROVE  \E r : Moves(m, r)
<1> DEFINE q == mon[m]
           next == [q EXCEPT !.pc = "node", !.key = NULL, !.reg = NULL]
<1>1. /\ q.pc = "count" /\ Busy(m)
      /\ UNCHANGED <<file, table, cur_index, cur_node, filter_word, phase, raced>>
  BY DEF Count, Busy, cursor
<1>2. /\ q \in Filters /\ filter_word \in Found \cup {NULL} /\ TableOf(table)
      /\ cur_index \in -1..Size /\ cur_node \in Nodes /\ NULL \in Nodes
      /\ q.alone => Reads(q, filter_word) /\ Walks(table, q, cur_index, cur_node)
  BY BeforeStep DEF Nodes
<1>3. ASSUME q.alone
      PROVE  /\ q.reg = cur_node /\ cur_node # NULL /\ cur_node \in Places(table)
             /\ q.key = KeyOf(table, cur_node) /\ q.key \in Words
             /\ cur_index <= Size - 1 /\ cur_node[1] = cur_index
             /\ q.test = Range(q.mail)
             /\ q.counted = q.test \cap Passed(table, cur_index, cur_node[2] - 1)
             /\ Passed(table, cur_index, cur_node[2]) =
                  Passed(table, cur_index, cur_node[2] - 1) \cup {q.key}
             /\ Distinct(table) => q.key \notin q.counted /\ ~q.wrong
  <2>1. /\ q.reg = cur_node /\ cur_node # NULL
        /\ q.key = KeyOf(table, cur_node)
        /\ cur_index <= Size - 1 /\ cur_node[1] = cur_index
        /\ q.test = Range(q.mail)
        /\ q.counted = q.test \cap Passed(table, cur_index, cur_node[2] - 1)
        /\ Distinct(table) => ~q.wrong
    BY <1>1, <1>2, <1>3 DEF Reads, Walks
  <2>2. cur_node \in Places(table)
    BY <1>2, <2>1 DEF Nodes
  <2>3. PICK t, node : t = table /\ node = cur_node
    OBVIOUS
  <2>4. /\ KeyOf(t, node) \in Words
        /\ Passed(t, node[1], node[2]) = Passed(t, node[1], node[2] - 1) \cup {KeyOf(t, node)}
        /\ Distinct(t) => KeyOf(t, node) \notin Passed(t, node[1], node[2] - 1)
    BY <1>2, <2>2, <2>3, AtNode
  <2>5. QED BY <2>1, <2>2, <2>3, <2>4
<1>4. /\ next \in Filters /\ next.pc = "node" /\ next.alone = q.alone /\ next.mail = q.mail
      /\ next.test = q.test /\ next.counted = q.counted /\ next.wrong = q.wrong
  BY <1>2 DEF Filters, Pcs
<1>5. CASE q.key \in q.test /\ q.reg = NULL
  <2> DEFINE r == [q EXCEPT !.pc = "crashed"]
  <2>1. mon' = [mon EXCEPT ![m] = r]
    BY <1>5 DEF Count
  <2>2. r \in Filters /\ r.pc = "crashed" /\ r.alone = q.alone
    BY <1>2 DEF Filters, Pcs
  <2>3. ~q.alone
    BY <1>3, <1>5
  <2> HIDE DEF r
  <2>4. Moves(m, r)
    BY <1>1, <1>2, <2>1, <2>2, <2>3 DEF Moves
  <2>5. QED BY <2>4
<1>6. CASE ~(q.key \in q.test /\ q.reg = NULL) /\ q.key \in q.test /\ q.alone
  <2> DEFINE wrong == q.wrong \/ q.key \in q.counted \/ KeyOf(table, q.reg) # q.key
             r == [next EXCEPT !.counted = @ \cup {q.key}, !.wrong = wrong]
  <2>1. mon' = [mon EXCEPT ![m] = r]
    <3>1. r = [next EXCEPT !.counted = @ \cup {q.key},
                           !.wrong = \/ @ \/ q.key \in q.counted
                                     \/ KeyOf(table, q.reg) # q.key]
      BY <1>4
    <3> HIDE DEF r
    <3>2. QED BY <1>6, <3>1 DEF Count
  <2>2. q.counted \cup {q.key} \in SUBSET Words /\ wrong \in BOOLEAN
    BY <1>2, <1>3, <1>6 DEF Filters
  <2>3. Distinct(table) => ~wrong
    BY <1>3, <1>6
  <2> HIDE DEF wrong, next
  <2>4. /\ r \in Filters /\ r.pc = "node" /\ r.alone = q.alone /\ r.mail = q.mail
        /\ r.test = q.test /\ r.counted = q.counted \cup {q.key} /\ r.wrong = wrong
    BY <1>4, <2>2 DEF Filters, Pcs
  <2> HIDE DEF r
  <2>5. Reads(r, filter_word')
    BY <1>3, <1>6, <2>4 DEF Reads
  <2>6. r.counted = r.test \cap Passed(table, cur_index, cur_node[2])
    BY <1>3, <1>6, <2>4
  <2>7. Walks(table, r, cur_index, cur_node)
    BY <1>3, <1>6, <2>3, <2>4, <2>6 DEF Walks
  <2>8. Moves(m, r)
    BY <1>1, <1>2, <2>1, <2>4, <2>5, <2>7 DEF Moves
  <2>9. QED BY <2>8
<1>7. CASE ~(q.key \in q.test /\ q.reg = NULL) /\ ~(q.key \in q.test /\ q.alone)
  <2>1. mon' = [mon EXCEPT ![m] = next]
    BY <1>7 DEF Count
  <2> HIDE DEF next
  <2>2. ASSUME q.alone
        PROVE  /\ Reads(next, filter_word') /\ Walks(table, next, cur_index', cur_node')
               /\ Behind(cur_index, cur_node) => Behind(cur_index', cur_node')
    <3>1. next.counted = next.test \cap Passed(table, cur_index, cur_node[2])
      BY <1>3, <1>4, <1>7, <2>2
    <3>2. QED BY <1>1, <1>3, <1>4, <2>2, <3>1 DEF Reads, Walks
  <2>3. Moves(m, next)
    BY <1>1, <1>2, <1>4, <2>1, <2>2 DEF Moves
  <2>4. QED BY <2>3
<1>8. QED BY <1>5, <1>6, <1>7

LEMMA FilterMoves ==
    ASSUME SpamInv, NEW m \in Monitors, Filter(m)
    PROVE  \E r : Moves(m, r)
BY TokenMoves, InsertMoves, TokensEndMoves, RewalkMoves, ReadNodeMoves, StoreNextMoves,
   ReadIndexMoves, StoreIndexMoves, StoreListMoves, ReadValueMoves, CountMoves DEF Filter

\* Where a filter is that does not run is no matter of the cursor.
LEMMA NotRunning ==
    ASSUME NEW q, q.pc \in {"idle", "done", "crashed"}, NEW t, NEW w, NEW i, NEW n,
           NEW w2, NEW i2, NEW n2,
           Reads(q, w), Walks(t, q, i, n)
    PROVE  Reads(q, w2) /\ Walks(t, q, i2, n2)
BY DEF Reads, Walks

LEMMA FilterStep ==
    ASSUME SpamInv, phase = "running", NEW m \in Monitors, Filter(m)
    PROVE  SpamInv'
<1>1. PICK r : Moves(m, r)
  BY FilterMoves
<1>2. mon \in [Monitors -> Filters]
  BY DEF SpamInv, SpamTypeOK
<1>3. /\ mon'[m] = r /\ DOMAIN mon' = Monitors
      /\ \A o \in Monitors \ {m} : mon'[o] = mon[o]
  BY <1>1, <1>2 DEF Moves
<1>4. /\ UNCHANGED <<file, table, phase, raced>>
      /\ Nodes' = Nodes /\ Filters' = Filters
  BY <1>1 DEF Moves, Nodes, Filters
<1>5. SpamTypeOK'
  <2>1. mon' \in [Monitors -> Filters]
    BY <1>1, <1>2 DEF Moves
  <2>2. QED BY <1>1, <1>4, <2>1 DEF Moves, SpamInv, SpamTypeOK
<1>6. ServiceInv'
  <2>1. \A o \in Monitors :
          /\ mon'[o].pc = "insert" => filter_word' \in Found
          /\ mon'[o].pc = "next" => mon'[o].reg \in Places(table)
          /\ mon'[o].pc = "list" => mon'[o].idx \in 0..Size - 1
    <3> TAKE o \in Monitors
    <3>1. CASE o = m
      BY <1>1, <1>3, <3>1 DEF Moves
    <3>2. CASE o # m
      BY <1>1, <1>3, <3>2 DEF Moves, SpamInv, ServiceInv
    <3>3. QED BY <3>1, <3>2
  <2>2. phase' = "running" /\ TableOf(table)
    BY <1>4 DEF SpamInv, ServiceInv
  <2>3. QED BY <1>4, <2>1, <2>2 DEF ServiceInv
<1>7. AloneInv'
  <2> SUFFICES ASSUME NEW o \in Monitors, mon'[o].alone
               PROVE  /\ mon'[o].pc # "crashed"
                      /\ Busy(o)' => \A p \in Monitors \ {o} : ~Busy(p)'
                      /\ Reads(mon'[o], filter_word')
                      /\ Walks(table', mon'[o], cur_index', cur_node')
    BY DEF AloneInv
  <2>1. CASE o = m
    <3>1. mon[m].alone /\ Busy(m)
      BY <1>1, <1>3, <2>1 DEF Moves
    <3>2. \A p \in Monitors \ {m} : ~Busy(p)
      BY <3>1 DEF SpamInv, AloneInv
    <3>3. \A p \in Monitors \ {m} : ~Busy(p)'
      BY <1>3, <3>2 DEF Busy
    <3>4. QED BY <1>1, <1>3, <1>4, <2>1, <3>1, <3>3 DEF Moves
  <2>2. CASE o # m
    <3>1. /\ mon[o].alone /\ mon'[o] = mon[o] /\ mon[o].pc # "crashed"
          /\ Reads(mon[o], filter_word) /\ Walks(table, mon[o], cur_index, cur_node)
          /\ Busy(o) => ~Busy(m)
      BY <1>3, <2>2 DEF SpamInv, AloneInv
    <3>2. ~Busy(o) /\ ~Busy(o)' /\ mon[o].pc \in {"idle", "done", "crashed"}
      BY <1>1, <3>1 DEF Moves, Busy
    <3>3. PICK q : q = mon[o]
      OBVIOUS
    <3>4. PICK t, w, i, n, w2, i2, n2 :
             /\ t = table /\ w = filter_word /\ i = cur_index /\ n = cur_node
             /\ w2 = filter_word' /\ i2 = cur_index' /\ n2 = cur_node'
      OBVIOUS
    <3>5. Reads(q, w2) /\ Walks(t, q, i2, n2)
      BY <3>1, <3>2, <3>3, <3>4, NotRunning
    <3>6. QED BY <1>4, <3>1, <3>2, <3>3, <3>4, <3>5
  <2>3. QED BY <2>1, <2>2
<1>8. FileInv'
  <2> SUFFICES ASSUME ~raced
               PROVE  /\ \A o \in Monitors : mon'[o].alone
                      /\ Behind(cur_index', cur_node')
                      /\ IsInjective(File) => IsInjective(file) /\ (phase # "off" => Distinct(table))
    BY <1>4 DEF FileInv
  <2>1. /\ \A o \in Monitors : mon[o].alone
        /\ Behind(cur_index, cur_node)
        /\ IsInjective(File) => IsInjective(file) /\ (phase # "off" => Distinct(table))
    BY DEF SpamInv, FileInv
  <2>2. \A o \in Monitors : mon'[o].alone
    BY <1>1, <1>3, <2>1 DEF Moves
  <2>3. Behind(cur_index', cur_node')
    BY <1>1, <2>1 DEF Moves
  <2>4. QED BY <2>1, <2>2, <2>3
<1>9. QED BY <1>5, <1>6, <1>7, <1>8 DEF SpamInv

LEMMA StartingIs ==
    ASSUME NEW text \in Mails \cup {<< >>}, NEW by_itself \in BOOLEAN
    PROVE  LET r == Starting(text, by_itself)
           IN  /\ r \in Filters /\ r.pc = "token" /\ r.alone = by_itself
               /\ by_itself => r.mail = text
               /\ r.todo = text /\ r.test = {} /\ r.counted = {} /\ r.wrong = FALSE
<1>1. text \in Seq(Words) /\ << >> \in Mails \cup {<< >>} /\ 0 \in -1..Size /\ NULL \in Nodes
  <2>1. text \in Seq(Words)
    BY MailAssumption, EmptyIs
  <2>2. 0 \in -1..Size
    BY SizeIs
  <2>3. QED BY <2>1, <2>2 DEF Nodes
<1>2. QED BY <1>1 DEF Starting, Filters, Pcs

LEMMA IdleIs ==
    /\ Idle \in Filters /\ Idle.pc = "idle" /\ Idle.alone
    /\ \A t, w, i, n : Reads(Idle, w) /\ Walks(t, Idle, i, n)
<1>1. PICK q : q = Starting(<< >>, TRUE)
  OBVIOUS
<1>2. /\ q \in Filters /\ q.alone = TRUE /\ q.mail = << >> /\ q.test = {}
      /\ q.counted = {} /\ q.wrong = FALSE
  BY <1>1, StartingIs
<1>3. Idle = [q EXCEPT !.pc = "idle"]
  BY <1>1 DEF Idle
<1> DEFINE r == [q EXCEPT !.pc = "idle"]
<1>4. /\ r \in Filters /\ r.pc = "idle" /\ r.alone = TRUE /\ r.mail = << >> /\ r.test = {}
      /\ r.counted = {} /\ r.wrong = FALSE
  BY <1>2 DEF Filters, Pcs
<1> HIDE DEF r
<1>5. Range(<< >>) = {}
  BY EmptyIs
<1>6. \A w : Reads(r, w)
  BY <1>4, <1>5 DEF Reads
<1>7. \A t, i, n : Walks(t, r, i, n)
  BY <1>4 DEF Walks
<1> USE DEF r
<1>8. Idle = r
  BY <1>3
<1> HIDE DEF r
<1>9. QED BY <1>4, <1>6, <1>7, <1>8

LEMMA BeginStep ==
    ASSUME SpamInv, phase = "running", NEW m \in Monitors, BeginFilter(m)
    PROVE  SpamInv'
<1> DEFINE others == {o \in Monitors \ {m} : Busy(o)}
<1>1. PICK text \in Mails :
         /\ mon' = [o \in Monitors |->
                      IF o = m THEN Starting(text, others = {})
                      ELSE IF o \in others THEN Disturbed(mon[o]) ELSE mon[o]]
         /\ raced' = (raced \/ others # {})
  BY DEF BeginFilter
<1>2. /\ UNCHANGED <<file, table, cur_index, cur_node, filter_word, phase>>
      /\ Nodes' = Nodes /\ Filters' = Filters
  BY DEF BeginFilter, cursor, Nodes, Filters
<1>3. PICK r : r = Starting(text, others = {})
  OBVIOUS
<1>4. /\ r \in Filters /\ r.pc = "token" /\ r.alone = (others = {})
      /\ (others = {} => r.mail = text)
      /\ r.todo = text /\ r.test = {} /\ r.counted = {} /\ r.wrong = FALSE
  <2>1. PICK b \in BOOLEAN : b = (others = {})
    OBVIOUS
  <2>2. r = Starting(text, b)
    BY <1>3, <2>1
  <2>3. QED BY <2>1, <2>2, StartingIs
<1>5. /\ mon'[m] = r /\ DOMAIN mon' = Monitors
      /\ \A o \in Monitors \ {m} : mon'[o] = IF o \in others THEN Disturbed(mon[o]) ELSE mon[o]
  BY <1>1, <1>3
<1>6. \A o \in Monitors : mon[o] \in Filters
  BY DEF SpamInv, SpamTypeOK
<1>7. ASSUME NEW q \in Filters
      PROVE  /\ Disturbed(q) \in Filters /\ Disturbed(q).pc = q.pc /\ Disturbed(q).alone = FALSE
             /\ Disturbed(q).reg = q.reg /\ Disturbed(q).idx = q.idx
  <2>1. << >> \in Mails \cup {<< >>} /\ {} \in SUBSET Words
    OBVIOUS
  <2>2. QED BY <2>1 DEF Filters, Disturbed
<1>8. \A o \in Monitors \ {m} :
         /\ mon'[o] \in Filters /\ mon'[o].pc = mon[o].pc
         /\ mon'[o].reg = mon[o].reg /\ mon'[o].idx = mon[o].idx
         /\ mon'[o].alone => o \notin others /\ mon'[o] = mon[o]
  <2> TAKE o \in Monitors \ {m}
  <2> HIDE DEF others
  <2>1. CASE o \in others
    <3>1. PICK q \in Filters : q = mon[o]
      BY <1>6
    <3>2. mon'[o] = Disturbed(q)
      BY <1>5, <2>1, <3>1
    <3>3. QED BY <1>7, <3>1, <3>2
  <2>2. CASE o \notin others
    BY <1>5, <1>6, <2>2
  <2>3. QED BY <2>1, <2>2
<1> HIDE DEF others
<1>9. SpamTypeOK'
  <2>1. mon' \in [Monitors -> Filters]
    <3>1. \A o \in Monitors : mon'[o] \in Filters
      BY <1>4, <1>5, <1>8
    <3>2. mon' = [o \in Monitors |-> mon'[o]]
      BY <1>1
    <3>3. QED BY <3>1, <3>2
  <2>2. raced' \in BOOLEAN
    BY <1>1 DEF SpamInv, SpamTypeOK
  <2>3. QED BY <1>2, <2>1, <2>2 DEF SpamInv, SpamTypeOK
<1>10. ServiceInv'
  <2>1. \A o \in Monitors :
          /\ mon'[o].pc = "insert" => filter_word \in Found
          /\ mon'[o].pc = "next" => mon'[o].reg \in Places(table)
          /\ mon'[o].pc = "list" => mon'[o].idx \in 0..Size - 1
    <3> TAKE o \in Monitors
    <3>1. CASE o = m
      BY <1>4, <1>5, <3>1
    <3>2. CASE o # m
      BY <1>8, <3>2 DEF SpamInv, ServiceInv
    <3>3. QED BY <3>1, <3>2
  <2>2. phase' = "running" /\ TableOf(table)
    BY <1>2 DEF SpamInv, ServiceInv
  <2>3. QED BY <1>2, <2>1, <2>2 DEF ServiceInv
<1>11. AloneInv'
  <2> SUFFICES ASSUME NEW o \in Monitors, mon'[o].alone
               PROVE  /\ mon'[o].pc # "crashed"
                      /\ Busy(o)' => \A p \in Monitors \ {o} : ~Busy(p)'
                      /\ Reads(mon'[o], filter_word)
                      /\ Walks(table, mon'[o], cur_index, cur_node)
    BY <1>2 DEF AloneInv
  <2>1. CASE o = m
    <3>1. others = {}
      BY <1>4, <1>5, <2>1
    <3>2. \A p \in Monitors \ {m} : ~Busy(p)
      BY <3>1 DEF others
    <3>3. \A p \in Monitors \ {m} : ~Busy(p)'
      BY <1>8, <3>2 DEF Busy
    <3>4. Reads(r, filter_word)
      BY <1>4, <3>1 DEF Reads
    <3>5. Walks(table, r, cur_index, cur_node)
      BY <1>4 DEF Walks
    <3>6. QED BY <1>4, <1>5, <2>1, <3>3, <3>4, <3>5
  <2>2. CASE o # m
    <3>1. mon'[o] = mon[o] /\ o \notin others
      BY <1>8, <2>2
    <3>2. ~Busy(o) /\ ~Busy(o)'
      BY <3>1, <2>2 DEF others, Busy
    <3>3. QED BY <3>1, <3>2 DEF SpamInv, AloneInv
  <2>3. QED BY <2>1, <2>2
<1>12. FileInv'
  <2> SUFFICES ASSUME ~raced'
               PROVE  /\ \A o \in Monitors : mon'[o].alone
                      /\ Behind(cur_index, cur_node)
                      /\ IsInjective(File) => IsInjective(file) /\ (phase # "off" => Distinct(table))
    BY <1>2 DEF FileInv
  <2>1. ~raced /\ others = {}
    BY <1>1
  <2>2. \A o \in Monitors : mon'[o].alone
    <3> TAKE o \in Monitors
    <3>1. CASE o = m
      BY <1>4, <1>5, <2>1, <3>1
    <3>2. CASE o # m
      BY <1>5, <2>1, <3>2 DEF SpamInv, FileInv
    <3>3. QED BY <3>1, <3>2
  <2>3. QED BY <2>1, <2>2 DEF SpamInv, FileInv
<1>13. QED BY <1>9, <1>10, <1>11, <1>12 DEF SpamInv

-----------------------------------------------------------------------------
(* The steps of the main thread *)

\* While no monitor runs, only the table, the cursor and the file matter.
AtRestInv ==
    /\ mon = [m \in Monitors |-> Idle]
    /\ TableOf(table) /\ file \in Seq(Words)
    /\ cur_index \in -1..Size /\ cur_node \in Nodes /\ filter_word \in Found \cup {NULL}
    /\ phase \in {"off", "ready", "running"} /\ raced \in BOOLEAN
    /\ ~raced => /\ Behind(cur_index, cur_node)
                 /\ IsInjective(File) =>
                      IsInjective(file) /\ (phase # "off" => Distinct(table))

LEMMA NobodyFilters == AtRestInv => SpamInv
<1> SUFFICES ASSUME AtRestInv PROVE SpamInv
  OBVIOUS
<1> USE DEF AtRestInv
<1>1. \A m \in Monitors : mon[m] = Idle
  OBVIOUS
<1>2. SpamTypeOK
  <2>1. mon \in [Monitors -> Filters]
    BY IdleIs
  <2>2. table \in [0..Size - 1 -> Seq(Words)]
    BY DEF TableOf
  <2>3. QED BY <2>1, <2>2 DEF SpamTypeOK
<1>3. ServiceInv
  BY <1>1, IdleIs DEF ServiceInv
<1>4. AloneInv
  <2>1. \A m \in Monitors : ~Busy(m) /\ mon[m].pc # "crashed"
    BY <1>1, IdleIs DEF Busy
  <2>2. \A m \in Monitors :
          Reads(mon[m], filter_word) /\ Walks(table, mon[m], cur_index, cur_node)
    BY <1>1, IdleIs
  <2>3. QED BY <2>1, <2>2 DEF AloneInv
<1>5. FileInv
  BY <1>1, IdleIs DEF FileInv
<1>6. QED BY <1>2, <1>3, <1>4, <1>5 DEF SpamInv

LEMMA SpamStart ==
    ASSUME SpamInit
    PROVE  SpamInv
<1>1. TableOf(Shash_new) /\ File \in Seq(Words)
  BY NewTable, MailAssumption
<1>2. 0 \in -1..Size
  BY SizeIs
<1>3. AtRestInv
  BY <1>1, <1>2 DEF SpamInit, Nodes, Behind, AtRestInv
<1>4. QED BY <1>3, NobodyFilters

\* What holds of the service between two steps of the main thread.
LEMMA BeforeMain ==
    ASSUME SpamInv
    PROVE  AtRestInv \/ phase = "running"
BY DEF SpamInv, SpamTypeOK, ServiceInv, FileInv, AtRestInv

LEMMA LoadStep ==
    ASSUME SpamInv, Load
    PROVE  AtRestInv'
<1>1. AtRestInv
  BY BeforeMain DEF Load
<1>2. PICK f \in Seq(Words) : f = file
  BY <1>1 DEF AtRestInv
<1>3. PICK t : t = Inserted(Shash_new, f, FALSE)
  OBVIOUS
<1>4. \A w \in Words : ~Shash_find(Shash_new, w)
  <2>1. \A w \in Words : Shash_new[Hash[w]] = << >>
    BY SizeIs DEF Shash_new
  <2>2. QED BY <2>1, EmptyIs DEF Shash_find
<1>5. TableOf(t) /\ (IsInjective(f) => Distinct(t))
  <2>1. FALSE \in BOOLEAN /\ TableOf(Shash_new) /\ Distinct(Shash_new)
    BY NewTable
  <2>2. QED BY <1>2, <1>3, <1>4, <2>1, InsertedIs
<1>6. /\ table' = t /\ cur_index' = 0 /\ cur_node' = NULL /\ phase' = "ready"
      /\ UNCHANGED <<file, filter_word, raced, mon>>
  BY <1>2, <1>3 DEF Load
<1>7. 0 \in -1..Size /\ NULL \in Nodes'
  BY SizeIs DEF Nodes
<1>8. QED BY <1>1, <1>2, <1>5, <1>6, <1>7 DEF Behind, AtRestInv

LEMMA Shifted ==
    ASSUME NEW a \in Nat, NEW b \in Nat, NEW x \in 1..a, b >= a
    PROVE  x + b - a \in 1..b
OBVIOUS

LEMMA TrainStep ==
    ASSUME SpamInv, NEW lesson \in Lessons, Train(lesson)
    PROVE  AtRestInv'
<1>1. AtRestInv
  BY BeforeMain DEF Train
<1>2. PICK t, node : t = table /\ node = cur_node
  OBVIOUS
<1>3. PICK r : r = Inserted(t, lesson, TRUE)
  OBVIOUS
<1>4. /\ TableOf(t) /\ TableOf(r)
      /\ \A i \in 0..Size - 1 : Len(r[i]) >= Len(t[i])
      /\ Distinct(t) => Distinct(r)
  <2>1. TableOf(t) /\ lesson \in Seq(Words) /\ TRUE \in BOOLEAN
    BY <1>1, <1>2, MailAssumption DEF AtRestInv
  <2>2. QED BY <1>3, <2>1, InsertedIs
<1>5. PICK moved : moved = Moved(t, r, node)
  OBVIOUS
<1>6. /\ moved \in {NULL} \cup Places(r)
      /\ moved # NULL => node # NULL /\ moved[1] = node[1]
  <2>1. CASE node = NULL
    BY <1>5, <2>1 DEF Moved
  <2>2. CASE node # NULL
    <3>1. node \in Places(t)
      BY <1>1, <1>2, <2>2 DEF AtRestInv, Nodes
    <3>2. PICK i \in 0..Size - 1 : \E j \in 1..Len(t[i]) : node = <<i, j>>
      BY <3>1, PlaceIs
    <3>3. PICK j \in 1..Len(t[i]) : node = <<i, j>>
      BY <3>2
    <3>4. PICK a \in Nat, b \in Nat : a = Len(t[i]) /\ b = Len(r[i])
      BY <1>4, BucketIs
    <3>5. j \in 1..a /\ b >= a /\ node[1] = i /\ node[2] = j
      BY <1>4, <3>3, <3>4
    <3>6. j + b - a \in 1..b
      BY <3>4, <3>5, Shifted
    <3>7. moved = <<i, j + b - a>>
      BY <1>5, <2>2, <3>4, <3>5 DEF Moved
    <3>8. moved \in Places(r) /\ moved[1] = i
      BY <3>4, <3>6, <3>7, PairPlace
    <3>9. QED BY <2>2, <3>5, <3>8
  <2>3. QED BY <2>1, <2>2
<1>7. /\ table' = r /\ cur_node' = moved
      /\ UNCHANGED <<file, cur_index, filter_word, phase, mon, raced>>
  BY <1>2, <1>3, <1>5 DEF Train
<1>8. cur_node' \in Nodes'
  BY <1>6, <1>7 DEF Nodes
<1>9. phase = "ready"
  BY DEF Train
<1>10. Behind(cur_index, node) => Behind(cur_index, moved)
  BY <1>6 DEF Behind
<1>11. QED BY <1>1, <1>2, <1>4, <1>7, <1>8, <1>9, <1>10 DEF AtRestInv

LEMMA RunStep ==
    ASSUME SpamInv, Run
    PROVE  AtRestInv'
<1>1. AtRestInv
  BY BeforeMain DEF Run
<1>2. QED BY <1>1 DEF Run, AtRestInv, cursor, Nodes

LEMMA StopStep ==
    ASSUME SpamInv, StopMonitors
    PROVE  AtRestInv'
BY DEF StopMonitors, AtRestInv, cursor, Nodes, SpamInv, SpamTypeOK, ServiceInv, FileInv

LEMMA SaveStep ==
    ASSUME SpamInv, Save
    PROVE  AtRestInv'
<1>1. AtRestInv /\ phase = "ready"
  BY BeforeMain DEF Save
<1>2. PICK t, index, node : t = table /\ index = cur_index /\ node = cur_node
  OBVIOUS
<1>3. PICK f : f = Remaining(t, index, node)
  OBVIOUS
<1>4. /\ f \in Seq(Words)
      /\ Distinct(t) /\ (node # NULL => node[1] <= index) => IsInjective(f)
  <2>1. TableOf(t) /\ index \in Int /\ node \in {NULL} \cup Places(t)
    BY <1>1, <1>2, SizeIs DEF AtRestInv, Nodes
  <2>2. QED BY <1>3, <2>1, RemainingIs
<1>5. /\ file' = f /\ phase' = "off"
      /\ UNCHANGED <<table, cur_index, cur_node, filter_word, mon, raced>>
  BY <1>2, <1>3 DEF Save, cursor
<1>6. ~raced /\ IsInjective(File) => IsInjective(f)
  BY <1>1, <1>2, <1>4 DEF AtRestInv, Behind
<1>7. QED BY <1>1, <1>4, <1>5, <1>6 DEF AtRestInv, Nodes

-----------------------------------------------------------------------------
LEMMA SpamStep ==
    ASSUME SpamInv, [SpamNext]_spamVars
    PROVE  SpamInv'
<1>1. (AtRestInv => SpamInv)'
  BY NobodyFilters, PTL
<1>2. CASE Load
  BY <1>1, <1>2, LoadStep
<1>3. ASSUME NEW lesson \in Lessons, Train(lesson) PROVE SpamInv'
  BY <1>1, <1>3, TrainStep
<1>4. CASE Run
  BY <1>1, <1>4, RunStep
<1>5. CASE StopMonitors
  BY <1>1, <1>5, StopStep
<1>6. CASE Save
  BY <1>1, <1>6, SaveStep
<1>7. ASSUME NEW m \in Monitors, phase = "running", BeginFilter(m) PROVE SpamInv'
  BY <1>7, BeginStep
<1>8. ASSUME NEW m \in Monitors, Filter(m) PROVE SpamInv'
  BY <1>8, FilterStep DEF Filter
<1>9. CASE UNCHANGED spamVars
  BY <1>9 DEF spamVars, cursor, SpamInv, SpamTypeOK, Nodes, Filters, ServiceInv, AloneInv,
              Busy, FileInv
<1>10. QED BY <1>2, <1>3, <1>4, <1>5, <1>6, <1>7, <1>8, <1>9 DEF SpamNext

LEMMA SpamInvariant == SpamSpec => []SpamInv
<1>1. SpamInit => SpamInv
  BY SpamStart
<1>2. SpamInv /\ [SpamNext]_spamVars => SpamInv'
  BY SpamStep
<1>3. QED BY <1>1, <1>2, PTL DEF SpamSpec

\* The cursor is none or a node of the table whatever the filters do to it, and
\* no pointer that shash.c follows unchecked, the node a walk has read or the
\* bucket it looks in, is outside the table.
THEOREM SpamTypeCorrect == SpamSpec => []SpamTypeOK
<1>1. SpamInv => SpamTypeOK
  BY DEF SpamInv
<1>2. QED BY <1>1, SpamInvariant, PTL

\* A filter that ran alone, after whatever filters that ran at once left in the
\* cursor and in filter_word, has counted each known word of its mail, once and
\* with its own numbers.
THEOREM AloneIsRight == SpamSpec => []AloneRight
<1>1. SpamInv => AloneRight
  <2> SUFFICES ASSUME SpamInv, NEW m \in Monitors, mon[m].pc = "done", mon[m].alone,
                      IsInjective(Entries(table))
               PROVE  /\ ~mon[m].wrong
                      /\ mon[m].counted = {w \in Range(mon[m].mail) : Shash_find(table, w)}
    BY DEF AloneRight
  <2>1. PICK t, q : t = table /\ q = mon[m]
    OBVIOUS
  <2>2. TableOf(t) /\ Distinct(t)
    BY <2>1, EntriesIs DEF SpamInv, ServiceInv
  <2>3. ~q.wrong /\ q.counted = Range(q.mail) \cap AllOf(t, Size - 1)
    BY <2>1, <2>2 DEF SpamInv, AloneInv, Walks
  <2>4. Range(q.mail) \subseteq Words
    <3>1. q.mail \in Seq(Words)
      BY <2>1, MailAssumption, EmptyIs DEF SpamInv, SpamTypeOK, Filters
    <3>2. QED BY <3>1, RangeIs
  <2>5. \A w \in Words : w \in AllOf(t, Size - 1) <=> Shash_find(t, w)
    BY <2>2, WalkEnds
  <2>6. q.counted = {w \in Range(q.mail) : Shash_find(t, w)}
    BY <2>3, <2>4, <2>5
  <2>7. QED BY <2>1, <2>3, <2>6
<1>2. QED BY <1>1, SpamInvariant, PTL

\* A filter that no other one disturbs follows no pointer that is none.
THEOREM CrashNeedsRace == SpamSpec => []CrashOnlyIfRaced
<1>1. SpamInv => CrashOnlyIfRaced
  BY DEF SpamInv, AloneInv, CrashOnlyIfRaced
<1>2. QED BY <1>1, SpamInvariant, PTL

\* However often the service stops and starts, and although spam_close writes from
\* where the last walk left the cursor, no word is twice in the file if none was
\* at first and no two filters have run at once.
THEOREM FileStaysDistinct ==
    ASSUME IsInjective(File)
    PROVE  SpamSpec => []SavedOnce
<1>1. SpamInv => SavedOnce
  BY DEF SpamInv, FileInv, SavedOnce
<1>2. QED BY <1>1, SpamInvariant, PTL
=============================================================================
