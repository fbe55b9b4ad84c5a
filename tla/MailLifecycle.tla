--------------------------- MODULE MailLifecycle ---------------------------
(***************************************************************************)
(* What EMMS promises about one captured mail.  A mail_t is taken from     *)
(* mailpool by an analysis module, which either blocks its connection and  *)
(* hands it to the log module, or hands it to the monitor module.  The     *)
(* monitor module judges it: a mail that matched is logged, once under     *)
(* each heading it matched, and only then given back; a mail that matched  *)
(* nothing is given back at once.  A mail that nobody will look at again   *)
(* is lost: it stays allocated for ever.                                   *)
(*                                                                         *)
(* Pipeline implements this module as a whole; Webmail and Noweb implement *)
(* its analysis half, with the other half as their environment, Noweb up   *)
(* to a POP3 client that makes it hand on a mail twice.                    *)
(***************************************************************************)
CONSTANTS Mails

VARIABLES
    stage,     \* where each mail is in its life
    owed       \* the records still to be written for each mail

vars == <<stage, owed>>

Stages == {"free", "analysis", "monitor", "log", "lost"}

\* The types of record db_insert is given, as in enum TYPE.
KILL == "kill"
MONITOR == "monitor"
SPAM == "spam"
Records == {KILL, MONITOR, SPAM}

TypeOK == stage \in [Mails -> Stages] /\ owed \in [Mails -> SUBSET Records]

Init == stage = [m \in Mails |-> "free"] /\ owed = [m \in Mails |-> {}]

Move(m, from, to, records) ==
    /\ stage[m] = from
    /\ stage' = [stage EXCEPT ![m] = to]
    /\ owed' = [owed EXCEPT ![m] = records]

Alloc(m) == Move(m, "free", "analysis", {})
Block(m) == Move(m, "analysis", "log", {KILL})
Submit(m) == Move(m, "analysis", "monitor", {})
Lose(m) == Move(m, "analysis", "lost", {})
Log(m, records) == Move(m, "monitor", "log", records)
Clear(m) == Move(m, "monitor", "free", {})
Record(m, r) ==
    /\ stage[m] = "log" /\ r \in owed[m]
    /\ owed' = [owed EXCEPT ![m] = @ \ {r}]
    /\ UNCHANGED stage
Release(m) == owed[m] = {} /\ Move(m, "log", "free", {})

Analysis(m) == Alloc(m) \/ Block(m) \/ Submit(m) \/ Lose(m)
Downstream(m) ==
    \/ Clear(m) \/ Release(m)
    \/ \E records \in {{MONITOR}, {SPAM}, {MONITOR, SPAM}} : Log(m, records)
    \/ \E r \in Records : Record(m, r)
Next == \E m \in Mails : Analysis(m) \/ Downstream(m)

Spec == Init /\ [][Next]_vars
=============================================================================
