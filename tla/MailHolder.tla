----------------------------- MODULE MailHolder -----------------------------
(***************************************************************************)
(* What the two analysis modules have in common: the hash node of a        *)
(* connection points to the mail_t that its packets are written into, and  *)
(* the analysis thread takes that mail from mailpool, hands it on, or      *)
(* drops the pointer.  Noweb and Webmail extend this module with the       *)
(* protocols that decide when.                                             *)
(*                                                                         *)
(* The node of a connection that was closed points to nothing here.        *)
(* Monitor and log threads appear as the second half of MailLifecycle,     *)
(* which module Pipeline implements.                                       *)
(***************************************************************************)
EXTENDS Integers, FiniteSets

CONSTANTS Conns,       \* the connections, by struct tuple4
          Mails,       \* bound: the nodes mailpool has
          None
ASSUME HolderAssumption == None \notin Conns /\ None \notin Mails

VARIABLES
    mail,              \* node->mail
    stage, owed,       \* the life of each mail
    filler             \* the connection whose analysis each mail is in

lifeVars == <<stage, owed, filler>>

Life == INSTANCE MailLifecycle

HolderTypeOK ==
    /\ mail \in [Conns -> Mails \cup {None}]
    /\ Life!TypeOK
    /\ filler \in [Mails -> Conns \cup {None}]

HolderInit ==
    /\ mail = [c \in Conns |-> None]
    /\ Life!Init
    /\ filler = [n \in Mails |-> None]

\* Connection c has a mail in analysis; the node of a connection whose mail was
\* handed on still points to it.
Owns(c) == mail[c] # None /\ stage[mail[c]] = "analysis" /\ filler[mail[c]] = c

\* node->mail = Mpool_alloc(mailpool), with and without success.
Take(c, n) ==
    /\ Life!Alloc(n)
    /\ filler' = [filler EXCEPT ![n] = c]
    /\ mail' = [mail EXCEPT ![c] = n]
NoMemory == \A n \in Mails : stage[n] # "free"

\* Mail n is handed on or given up, whatever stage it was in.
Leave(n, to, records) ==
    /\ stage' = [stage EXCEPT ![n] = to]
    /\ owed' = [owed EXCEPT ![n] = records]
    /\ filler' = [filler EXCEPT ![n] = None]

\* log_push on the queue for blocked mails, and monitor_push, which forgets the
\* mail when the queue stays full.
LogPush(c) == Leave(mail[c], "log", {Life!KILL})
MonitorPush(c) == \E to \in {"monitor", "lost"} : Leave(mail[c], to, {})

\* node->mail is overwritten or its node is deleted: a mail that was still being
\* analysed is out of reach.
Forget(c) ==
    /\ mail' = [mail EXCEPT ![c] = None]
    /\ \/ Owns(c) /\ Leave(mail[c], "lost", {})
       \/ ~Owns(c) /\ UNCHANGED lifeVars

\* A step of the monitor thread or a log thread.
HolderDownstream ==
    /\ \E n \in Mails : Life!Downstream(n)
    /\ UNCHANGED <<mail, filler>>

------------------------------------------------------------------------------
\* A mail is handed on once: blocked, or submitted to the monitor, or neither,
\* and never after it was handed on or given back.
ImplementsLifecycle == Life!Spec
=============================================================================
