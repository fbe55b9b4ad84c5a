---------------------------- MODULE NowebProofs ----------------------------
(***************************************************************************)
(* Proofs about the analysis thread for any number of connections and      *)
(* mails: its types; that only a POP3 connection which began its mail in   *)
(* one already handed on writes into a mail it does not own; and that the  *)
(* thread keeps its half of MailLifecycle until such a mail is handed on.  *)
(***************************************************************************)
EXTENDS Noweb, TLAPS

-----------------------------------------------------------------------------
(* What each step on a mail (MailHolder) does to the relation between nodes  *)
(* and mails.                                                                *)

\* A mail in analysis is the one its connection's node points to.
FillerInv ==
    \A n \in Mails :
        /\ stage[n] = "analysis" <=> filler[n] # None
        /\ filler[n] # None => filler[n] \in Conns /\ mail[filler[n]] = n

HolderInv == HolderTypeOK /\ FillerInv

\* The connections other than c keep their mails.
OthersKeep(c) == \A d \in Conns \ {c} : mail'[d] = mail[d] /\ (Owns(d) => Owns(d)')

\* Initially no mail is in analysis.
LEMMA HolderInvInit == HolderInit => HolderInv
BY HolderAssumption
   DEF HolderInit, HolderInv, HolderTypeOK, FillerInv,
       Life!Init, Life!TypeOK, Life!Stages, Life!Records

\* A mail that leaves the hands of its owner.
LEMMA LeaveKeeps ==
    ASSUME HolderInv, NEW c \in Conns, Owns(c),
           NEW to \in {"lost", "monitor", "log"}, NEW records \in SUBSET Life!Records,
           Leave(mail[c], to, records),
           mail' \in [Conns -> Mails \cup {None}],
           \A d \in Conns \ {c} : mail'[d] = mail[d]
    PROVE  HolderInv' /\ OthersKeep(c)
<1> DEFINE n == mail[c]
<1>1. n \in Mails /\ filler[n] = c /\ stage[n] = "analysis"
  BY HolderAssumption DEF HolderInv, HolderTypeOK, Owns
<1>2. HolderTypeOK'
  BY <1>1 DEF HolderInv, HolderTypeOK, Leave, Life!TypeOK, Life!Stages, Life!Records
<1>3. /\ stage'[n] = to /\ filler'[n] = None
      /\ \A k \in Mails \ {n} : stage'[k] = stage[k] /\ filler'[k] = filler[k]
  BY <1>1 DEF HolderInv, HolderTypeOK, Leave, Life!TypeOK
<1>4. \A k \in Mails \ {n} : filler[k] # c
  BY <1>1, HolderAssumption DEF HolderInv, FillerInv
<1>5. FillerInv'
  BY <1>1, <1>3, <1>4 DEF HolderInv, FillerInv
<1>6. OthersKeep(c)
  BY <1>1, <1>3, HolderAssumption DEF HolderInv, HolderTypeOK, OthersKeep, Owns
<1>7. QED BY <1>2, <1>5, <1>6 DEF HolderInv

\* Leaving is a step of MailLifecycle.
LEMMA LeaveIsLifeStep ==
    ASSUME HolderInv, NEW c \in Conns, Owns(c),
           NEW to, NEW records,
           \/ to = "lost" /\ records = {}
           \/ to = "monitor" /\ records = {}
           \/ to = "log" /\ records = {Life!KILL},
           Leave(mail[c], to, records)
    PROVE  Life!Next
<1>1. mail[c] \in Mails /\ stage[mail[c]] = "analysis"
  BY DEF HolderInv, HolderTypeOK, Owns
<1>2. Life!Analysis(mail[c])
  BY <1>1 DEF Leave, Life!Analysis, Life!Lose, Life!Submit, Life!Block, Life!Move
<1>3. QED BY <1>1, <1>2 DEF Life!Next

\* A connection that hands on the mail it owns.
LEMMA HandOnKeeps ==
    ASSUME HolderInv, NEW c \in Conns, Owns(c), LogPush(c) \/ MonitorPush(c), UNCHANGED mail
    PROVE  HolderInv' /\ OthersKeep(c) /\ Life!Next
<1>1. mail' \in [Conns -> Mails \cup {None}]
  BY DEF HolderInv, HolderTypeOK
<1>2. CASE LogPush(c)
  <2>1. Leave(mail[c], "log", {Life!KILL}) /\ {Life!KILL} \in SUBSET Life!Records
    BY <1>2 DEF LogPush, Life!Records
  <2>2. QED BY <1>1, <2>1, LeaveKeeps, LeaveIsLifeStep
<1>3. CASE MonitorPush(c)
  <2>1. PICK to \in {"monitor", "lost"} : Leave(mail[c], to, {})
    BY <1>3 DEF MonitorPush
  <2>2. QED BY <1>1, <2>1, LeaveKeeps, LeaveIsLifeStep
<1>4. QED BY <1>2, <1>3

\* Whoever had the mail, its pointers stay in order when it is handed on.
LEMMA HandOnKeepsInv ==
    ASSUME HolderInv, NEW c \in Conns, mail[c] # None,
           LogPush(c) \/ MonitorPush(c), UNCHANGED mail
    PROVE  HolderInv'
<1>1. mail[c] \in Mails
  BY DEF HolderInv, HolderTypeOK
<1>2. ASSUME NEW to \in {"lost", "monitor", "log"}, NEW records \in SUBSET Life!Records,
             Leave(mail[c], to, records)
      PROVE  HolderInv'
  <2>1. HolderTypeOK'
    BY <1>1, <1>2 DEF HolderInv, HolderTypeOK, Leave, Life!TypeOK, Life!Stages, Life!Records
  <2>2. /\ stage'[mail[c]] = to /\ filler'[mail[c]] = None
        /\ \A k \in Mails \ {mail[c]} : stage'[k] = stage[k] /\ filler'[k] = filler[k]
    BY <1>1, <1>2 DEF HolderInv, HolderTypeOK, Leave, Life!TypeOK
  <2>3. FillerInv'
    BY <1>1, <2>2 DEF HolderInv, FillerInv
  <2>4. QED BY <2>1, <2>3 DEF HolderInv
<1>3. {Life!KILL} \in SUBSET Life!Records /\ {} \in SUBSET Life!Records
  BY DEF Life!Records
<1>4. QED BY <1>2, <1>3 DEF LogPush, MonitorPush

\* A step that touches no mail.
LEMMA IdleKeeps ==
    ASSUME HolderInv, UNCHANGED <<mail, lifeVars>>
    PROVE  /\ HolderInv' /\ UNCHANGED Life!vars
           /\ \A c \in Conns : mail'[c] = mail[c] /\ (Owns(c) => Owns(c)')
BY DEF lifeVars, Life!vars, HolderInv, HolderTypeOK, FillerInv, Owns, Life!TypeOK

\* A pointer overwritten: its mail, if it owned one, is lost.
LEMMA ForgetKeeps ==
    ASSUME HolderInv, NEW c \in Conns, Forget(c)
    PROVE  HolderInv' /\ OthersKeep(c) /\ mail'[c] = None /\ [Life!Next]_Life!vars
<1>1. /\ mail' \in [Conns -> Mails \cup {None}] /\ mail'[c] = None
      /\ \A d \in Conns \ {c} : mail'[d] = mail[d]
  BY DEF Forget, HolderInv, HolderTypeOK
<1>2. CASE Owns(c) /\ Leave(mail[c], "lost", {})
  <2>1. HolderInv' /\ OthersKeep(c)
    BY <1>1, <1>2, LeaveKeeps
  <2>2. Life!Next
    BY <1>2, LeaveIsLifeStep
  <2>3. QED BY <1>1, <2>1, <2>2
<1>3. CASE ~Owns(c) /\ UNCHANGED lifeVars
  <2>1. \A n \in Mails : filler[n] # c
    <3>1. SUFFICES ASSUME NEW n \in Mails, filler[n] = c PROVE FALSE
      OBVIOUS
    <3>2. mail[c] = n /\ stage[n] = "analysis" /\ n # None
      BY <3>1, HolderAssumption DEF HolderInv, FillerInv
    <3>3. QED BY <3>1, <3>2, <1>3 DEF Owns
  <2>2. FillerInv'
    BY <1>1, <1>3, <2>1, HolderAssumption DEF lifeVars, HolderInv, FillerInv
  <2>3. HolderTypeOK' /\ OthersKeep(c)
    BY <1>1, <1>3 DEF lifeVars, HolderInv, HolderTypeOK, OthersKeep, Owns, Life!TypeOK
  <2>4. UNCHANGED Life!vars
    BY <1>3 DEF lifeVars, Life!vars
  <2>5. QED BY <1>1, <2>2, <2>3, <2>4 DEF HolderInv
<1>4. QED BY <1>2, <1>3 DEF Forget

\* A new mail for a node that pointed to nothing.
LEMMA TakeKeeps ==
    ASSUME HolderInv, NEW c \in Conns, mail[c] = None, NEW n \in Mails, Take(c, n)
    PROVE  HolderInv' /\ OthersKeep(c) /\ mail'[c] = n /\ Owns(c)' /\ Life!Next
<1> USE HolderAssumption DEF Take
<1>1. /\ stage[n] = "free" /\ stage'[n] = "analysis"
      /\ filler'[n] = c /\ mail'[c] = n /\ n # None
      /\ \A k \in Mails \ {n} : stage'[k] = stage[k] /\ filler'[k] = filler[k]
      /\ \A d \in Conns \ {c} : mail'[d] = mail[d]
  BY DEF HolderInv, HolderTypeOK, Life!TypeOK, Life!Alloc, Life!Move
<1>2. HolderTypeOK'
  BY DEF HolderInv, HolderTypeOK, Life!TypeOK, Life!Stages, Life!Records, Life!Alloc, Life!Move
<1>3. filler[n] = None /\ \A k \in Mails : filler[k] # c
  BY <1>1 DEF HolderInv, FillerInv
<1>4. FillerInv'
  BY <1>1, <1>3 DEF HolderInv, FillerInv
<1>5. OthersKeep(c) /\ Owns(c)'
  BY <1>1 DEF OthersKeep, Owns, HolderInv, HolderTypeOK
<1>6. Life!Next
  BY DEF Life!Next, Life!Analysis
<1>7. QED BY <1>1, <1>2, <1>4, <1>5, <1>6 DEF HolderInv

\* The monitor and log threads move only mails that left the analysis.
LEMMA DownstreamKeeps ==
    ASSUME HolderInv, HolderDownstream
    PROVE  /\ HolderInv' /\ Life!Next
           /\ \A c \in Conns : mail'[c] = mail[c] /\ (Owns(c) => Owns(c)')
<1>1. PICK n \in Mails : Life!Downstream(n)
  BY DEF HolderDownstream
<1>2. /\ stage' \in [Mails -> Life!Stages] /\ owed' \in [Mails -> SUBSET Life!Records]
      /\ \A k \in Mails : stage'[k] = "analysis" <=> stage[k] = "analysis"
  <2> USE DEF Life!Move, HolderInv, HolderTypeOK, Life!TypeOK, Life!Stages, Life!Records
  <2>1. CASE Life!Clear(n) \/ Life!Release(n)
    BY <2>1 DEF Life!Clear, Life!Release
  <2>2. CASE \E records \in {{Life!MONITOR}, {Life!SPAM}, {Life!MONITOR, Life!SPAM}} : Life!Log(n, records)
    BY <2>2 DEF Life!Log
  <2>3. CASE \E r \in Life!Records : Life!Record(n, r)
    BY <2>3 DEF Life!Record
  <2>4. QED BY <1>1, <2>1, <2>2, <2>3 DEF Life!Downstream
<1>3. UNCHANGED <<mail, filler>>
  BY DEF HolderDownstream
<1>4. HolderInv'
  BY <1>2, <1>3 DEF HolderInv, HolderTypeOK, FillerInv, Life!TypeOK
<1>5. \A c \in Conns : mail'[c] = mail[c] /\ (Owns(c) => Owns(c)')
  BY <1>2, <1>3 DEF HolderInv, HolderTypeOK, Owns
<1>6. Life!Next
  BY <1>1 DEF Life!Next
<1>7. QED BY <1>4, <1>5, <1>6

-----------------------------------------------------------------------------
(* The thread. *)

\* Between two steps of a call the node in hand is in the middle of a mail,
\* and past parse_mime's test it has one.
CallInv ==
    /\ pc # "deq" => cur \in Conns /\ isncomplete[cur]
    /\ pc \in {"header", "content"} => mail[cur] # None

IInv == TypeOK /\ CallInv /\ HolderInv /\ OwnMail

------------------------------------------------------------------------------
(* parse_content *)

WayType == [state : States, type : Kinds, do : {"nothing", "log_push", "monitor_push"}]
Ends(way) == way \in WayType /\ (way.do # "nothing" => way.state = "dead")

\* Each way through the switch has a proper answer, and gives the mail away
\* only with an answer that ends it.
LEMMA WaysEnd == ASSUME NEW s \in States, NEW k \in Kinds PROVE \A way \in Ways(s, k) : Ends(way)
<1> USE DEF Ends, WayType, States, Kinds, Way, Killed, Pushed, Error, Finished
<1>1. \A j \in Kinds : \A way \in FromAttachMid(j) : Ends(way)
  BY DEF FromAttachMid
<1>2. \A j \in Kinds : \A way \in FromAttach(j) : Ends(way)
  BY <1>1 DEF FromAttach
<1>3. ASSUME NEW j \in Kinds PROVE \A way \in FromContentMid(j) : Ends(way)
  <2>1. CASE j = "text"
    BY <2>1 DEF FromContentMid
  <2>2. CASE j = "alternative"
    BY <2>2 DEF FromContentMid
  <2>3. CASE j = "mixed"
    BY <2>3, <1>2 DEF FromContentMid
  <2>4. QED BY <2>1, <2>2, <2>3
<1>4. ASSUME NEW j \in Kinds PROVE \A way \in FromNoContent(j) : Ends(way)
  BY <1>3 DEF FromNoContent
<1>5. \A way \in FromStart(k) : Ends(way)
  BY <1>4 DEF FromStart
<1>6. QED
  BY <1>1, <1>2, <1>3, <1>4, <1>5 DEF Ways

------------------------------------------------------------------------------
LEMMA IInvInit == Init => IInv
BY HolderInvInit, HolderAssumption
   DEF Init, HolderInit, HolderInv, IInv, TypeOK, CallInv, OwnMail, States, Kinds

------------------------------------------------------------------------------
(* The packets *)

Preserved == IInv' /\ [Life!Next \/ twice']_Life!vars

\* The packet is dropped, or passed on in a node that is in the middle of a mail.
PassedOn(c) == Drop \/ (pc' \in {"mime", "push"} /\ cur' = c /\ isncomplete'[c])

\* Packets that make the node forget its mail.
LEMMA ForgettingPacket ==
    ASSUME IInv, NEW c \in Conns, Forget(c), PassedOn(c), UNCHANGED <<state, sentNull, twice>>,
           reused' = reused \/ reused' = reused \ {c},
           NEW b \in BOOLEAN, isncomplete' = [isncomplete EXCEPT ![c] = b],
           type' \in [Conns -> Kinds]
    PROVE  Preserved
<1>1. HolderInv' /\ OthersKeep(c) /\ mail'[c] = None /\ [Life!Next]_Life!vars
  BY ForgetKeeps DEF IInv
<1>2. isncomplete' \in [Conns -> BOOLEAN] /\ \A d \in Conns \ {c} : isncomplete'[d] = isncomplete[d]
  BY DEF IInv, TypeOK
<1>3. /\ pc' \in {"deq", "mime", "push"} /\ cur' \in Conns \cup {None}
      /\ pc' # "deq" => cur' = c /\ cur' # None /\ isncomplete'[c]
  BY HolderAssumption DEF PassedOn, Drop
<1>4. TypeOK'
  BY <1>1, <1>2, <1>3 DEF IInv, TypeOK, HolderInv
<1>5. CallInv'
  BY <1>3 DEF CallInv
<1>6. OwnMail'
  BY <1>1, <1>2 DEF OwnMail, OthersKeep, IInv
<1>7. QED BY <1>1, <1>4, <1>5, <1>6 DEF Preserved, IInv

\* Packets that leave the node's mail as it is.
LEMMA KeepingPacket ==
    ASSUME IInv, NEW c \in Conns, PassedOn(c),
           UNCHANGED <<mail, type, state, sentNull, twice, lifeVars>>,
           \/ UNCHANGED <<isncomplete, reused>>
           \/ /\ isncomplete' = [isncomplete EXCEPT ![c] = TRUE]
              /\ reused' = reused \cup {d \in {c} : mail[d] # None /\ ~Owns(d)}
    PROVE  Preserved
<1>1. /\ isncomplete' \in [Conns -> BOOLEAN] /\ reused' \subseteq Conns
      /\ \A d \in Conns \ reused' :
            /\ d \notin reused
            /\ mail[d] # None => Owns(d) \/ isncomplete'[d] = isncomplete[d]
  BY DEF IInv, TypeOK
<1>u. isncomplete[c] => isncomplete'[c]
  BY DEF IInv, TypeOK
<1>2. /\ pc' \in {"deq", "mime", "push"} /\ cur' \in Conns \cup {None}
      /\ pc' # "deq" => cur' = c /\ cur' # None /\ isncomplete'[c]
  BY HolderAssumption DEF PassedOn, Drop
<1>3. HolderInv' /\ UNCHANGED Life!vars /\ \A d \in Conns : mail'[d] = mail[d] /\ (Owns(d) => Owns(d)')
  BY IdleKeeps DEF IInv
<1>4. TypeOK' /\ CallInv'
  BY <1>1, <1>2, <1>3 DEF IInv, TypeOK, CallInv, HolderInv
<1>5. OwnMail'
  BY <1>1, <1>3 DEF OwnMail, IInv
<1>6. QED BY <1>3, <1>4, <1>5 DEF Preserved, IInv

LEMMA PacketStep ==
    ASSUME IInv, NEW c \in Conns, Packet(c)
    PROVE  Preserved
<1> USE DEF PassedOn, Continue, Drop, nodeVars, historyVars
<1>0. \A d \in Conns : isncomplete[d] \in BOOLEAN /\ type \in [Conns -> Kinds]
  BY DEF IInv, TypeOK
<1>1. CASE SmtpData(c)
  BY <1>1, <1>0, ForgettingPacket DEF SmtpData
<1>2. CASE SmtpText(c)
  <2>1. PassedOn(c)
    BY <1>2 DEF SmtpText
  <2>2. QED BY <1>2, <2>1, KeepingPacket DEF SmtpText
<1>3. CASE ImapFetch(c)
  <2>1. isncomplete'[c]
    BY <1>3 DEF ImapFetch, IInv, TypeOK
  <2>2. PassedOn(c)
    BY <1>3, <2>1 DEF ImapFetch
  <2>3. QED BY <1>3, <1>0, <2>2, ForgettingPacket DEF ImapFetch
<1>4. CASE ImapText(c)
  <2>1. PassedOn(c)
    BY <1>4 DEF ImapText
  <2>2. QED BY <1>4, <2>1, KeepingPacket DEF ImapText
<1>5. CASE PopOctets(c)
  <2>1. PassedOn(c)
    BY <1>5 DEF PopOctets
  <2>2. QED BY <1>5, <2>1, KeepingPacket DEF PopOctets
<1>6. CASE PopOk(c)
  <2>1. isncomplete' = [isncomplete EXCEPT ![c] = isncomplete[c]]
    BY <1>6 DEF PopOk, IInv, TypeOK
  <2>2. PassedOn(c)
    BY <1>6 DEF PopOk
  <2>3. QED BY <1>6, <1>0, <2>1, <2>2, ForgettingPacket DEF PopOk
<1>7. CASE PopText(c)
  <2>1. PassedOn(c)
    BY <1>7 DEF PopText
  <2>2. QED BY <1>7, <2>1, KeepingPacket DEF PopText
<1>8. CASE Close(c)
  <2>1. type' \in [Conns -> Kinds]
    BY <1>8, <1>0 DEF Close
  <2>2. QED BY <1>8, <2>1, ForgettingPacket DEF Close
<1>9. QED
  BY <1>1, <1>2, <1>3, <1>4, <1>5, <1>6, <1>7, <1>8 DEF Packet

------------------------------------------------------------------------------
(* parse_mime *)

LEMMA TwiceType == ASSUME IInv PROVE twice \in BOOLEAN
BY DEF IInv, TypeOK

\* A mail handed on: in order, or the second time.
LEMMA HandOnStep ==
    ASSUME HolderInv, NEW c \in Conns, mail[c] # None, LogPush(c) \/ MonitorPush(c),
           Owns(c) \/ c \in reused, twice' = (c \in reused), UNCHANGED mail
    PROVE  HolderInv' /\ (twice' \/ (OthersKeep(c) /\ Life!Next))
<1>1. HolderInv'
  BY HandOnKeepsInv
<1>2. CASE Owns(c)
  BY <1>1, <1>2, HandOnKeeps
<1>3. QED BY <1>1, <1>2

\* Back in parse: the invariant holds again, provided that a connection whose
\* mail was handed on does not go on.
LEMMA ReturnKeeps ==
    ASSUME IInv, ~twice, pc # "deq", NEW ok \in BOOLEAN, Return(ok),
           UNCHANGED <<mail, sentNull, reused>>, state' \in States, type' \in [Conns -> Kinds],
           Keep \/ (~ok /\ mail[cur] # None /\ (Block \/ Submit))
    PROVE  Preserved
<1>1. cur \in Conns /\ isncomplete[cur] /\ cur # None
  BY HolderAssumption DEF IInv, CallInv
<1>2. /\ isncomplete' \in [Conns -> BOOLEAN] /\ isncomplete'[cur] = ok
      /\ \A d \in Conns \ {cur} : isncomplete'[d] = isncomplete[d]
  BY <1>1 DEF Return, IInv, TypeOK
<1>3. /\ pc' \in {"deq", "push"} /\ cur' \in Conns \cup {None}
      /\ pc' # "deq" => cur' = cur /\ cur' # None /\ ok
  BY <1>1 DEF Return, Drop, IInv, TypeOK
<1>4. CallInv'
  BY <1>1, <1>2, <1>3 DEF CallInv
<1>c. PICK c \in Conns : c = cur
  BY <1>1
<1>5. /\ HolderInv' /\ twice' \in BOOLEAN
      /\ \/ twice'
         \/ /\ OthersKeep(c) /\ [Life!Next]_Life!vars
            /\ ok => mail'[c] = mail[c] /\ (Owns(c) => Owns(c)')
  <2>1. CASE Keep
    <3>1. HolderInv' /\ UNCHANGED Life!vars /\ \A d \in Conns : mail'[d] = mail[d] /\ (Owns(d) => Owns(d)')
      BY <2>1, IdleKeeps DEF IInv, Keep
    <3>2. twice' \in BOOLEAN
      <4>1. twice \in BOOLEAN
        BY TwiceType
      <4>2. twice' = twice
        BY <2>1 DEF Keep
      <4>3. QED BY <4>1, <4>2
    <3>3. QED BY <3>1, <3>2 DEF OthersKeep
  <2>2. CASE ~ok /\ mail[cur] # None /\ (Block \/ Submit)
    <3>1. Owns(c) \/ c \in reused
      BY <1>1, <1>c, <2>2 DEF IInv, OwnMail
    <3>2. twice' = (c \in reused) /\ (LogPush(c) \/ MonitorPush(c))
      BY <1>c, <2>2 DEF Block, Submit
    <3>3. HolderInv' /\ (twice' \/ (OthersKeep(c) /\ Life!Next))
      BY <1>c, <2>2, <3>1, <3>2, HandOnStep DEF IInv
    <3>4. QED BY <2>2, <3>2, <3>3
  <2>3. QED BY <2>1, <2>2
<1>6. TypeOK'
  BY <1>2, <1>3, <1>5 DEF IInv, TypeOK, HolderInv
<1>7. OwnMail'
  BY <1>1, <1>2, <1>c, <1>5 DEF OwnMail, OthersKeep, IInv
<1>8. QED BY <1>4, <1>5, <1>6, <1>7 DEF Preserved, IInv

LEMMA AllocStep == ASSUME IInv, ~twice, Alloc PROVE Preserved
<1>1. cur \in Conns /\ isncomplete[cur] /\ mail[cur] = None /\ pc = "mime"
  BY DEF Alloc, mine, IInv, CallInv
<1>2. ASSUME NEW n \in Mails, Take(cur, n), state' = "start", pc' = "header",
             UNCHANGED <<isncomplete, cur, type, sentNull, historyVars>>
      PROVE  Preserved
  <2>1. HolderInv' /\ OthersKeep(cur) /\ mail'[cur] = n /\ Owns(cur)' /\ Life!Next
    BY <1>1, <1>2, TakeKeeps DEF IInv
  <2>2. TypeOK' /\ CallInv'
    BY <1>1, <1>2, <2>1, HolderAssumption DEF IInv, TypeOK, CallInv, HolderInv, States, historyVars
  <2>3. OwnMail'
    BY <1>2, <2>1 DEF OwnMail, OthersKeep, IInv, historyVars
  <2>4. QED BY <2>1, <2>2, <2>3 DEF Preserved, IInv
<1>3. CASE Return(FALSE) /\ UNCHANGED <<mail, state, lifeVars, type, sentNull, historyVars>>
  BY <1>1, <1>3, ReturnKeeps DEF IInv, TypeOK, Keep, historyVars
<1>4. QED BY <1>2, <1>3 DEF Alloc

\* Steps inside a call that touch neither nodes nor mails.
LEMMA InnerStep ==
    ASSUME IInv, cur \in Conns, mail[cur] # None, pc # "deq",
           pc' \in {"header", "content"},
           UNCHANGED <<nodeVars, state, cur, sentNull, historyVars, lifeVars>>
    PROVE  Preserved
<1>1. HolderInv' /\ UNCHANGED Life!vars /\ \A d \in Conns : mail'[d] = mail[d] /\ (Owns(d) => Owns(d)')
  BY IdleKeeps DEF IInv, nodeVars
<1>2. TypeOK' /\ CallInv' /\ OwnMail'
  BY <1>1 DEF IInv, TypeOK, CallInv, OwnMail, nodeVars, historyVars, HolderInv
<1>3. QED BY <1>1, <1>2 DEF Preserved, IInv

LEMMA ResumeStep == ASSUME IInv, Resume PROVE Preserved
BY InnerStep DEF Resume, mine, IInv, CallInv

LEMMA HeaderStep == ASSUME IInv, ~twice, Header PROVE Preserved
<1>1. cur \in Conns /\ mail[cur] # None /\ pc = "header"
  BY DEF Header, IInv, CallInv
<1>2. CASE pc' = "content" /\ Keep /\ UNCHANGED <<isncomplete, cur>>
  BY <1>1, <1>2, InnerStep DEF Header, nodeVars, Keep, historyVars
<1>3. CASE Return(FALSE) /\ (Keep \/ Block)
  BY <1>1, <1>3, ReturnKeeps DEF Header, IInv, TypeOK
<1>4. QED BY <1>2, <1>3 DEF Header

LEMMA ContentStep == ASSUME IInv, ~twice, Content PROVE Preserved
<1>1. cur \in Conns /\ mail[cur] # None /\ pc = "content"
  BY DEF Content, IInv, CallInv
<1>2. PICK way \in Ways(state, type[cur]) :
         /\ state' = way.state
         /\ type' = [type EXCEPT ![cur] = way.type]
         /\ \/ way.do = "log_push" /\ Block
            \/ way.do = "monitor_push" /\ Submit
            \/ way.do = "nothing" /\ Keep
         /\ Return(way.state # "dead")
  BY DEF Content
<1>3. Ends(way)
  BY <1>1, <1>2, WaysEnd DEF IInv, TypeOK
<1>4. state' \in States /\ type' \in [Conns -> Kinds]
  BY <1>1, <1>2, <1>3 DEF Ends, WayType, IInv, TypeOK
<1>5. Keep \/ (way.state = "dead" /\ (Block \/ Submit))
  BY <1>2, <1>3 DEF Ends
<1>6. QED BY <1>1, <1>2, <1>4, <1>5, ReturnKeeps DEF Content

LEMMA PushStep == ASSUME IInv, ~twice, Push PROVE Preserved
<1>1. cur \in Conns /\ pc = "push" /\ UNCHANGED mail
  BY DEF Push, IInv, CallInv
<1>2. /\ isncomplete' \in [Conns -> BOOLEAN] /\ isncomplete'[cur] = FALSE
      /\ \A d \in Conns \ {cur} : isncomplete'[d] = isncomplete[d]
  BY <1>1 DEF Push, IInv, TypeOK
<1>3. /\ HolderInv' /\ twice' \in BOOLEAN
      /\ twice' \/ (OthersKeep(cur) /\ [Life!Next]_Life!vars)
  <2>1. CASE mail[cur] # None /\ Submit
    <3>1. Owns(cur) \/ cur \in reused
      BY <1>1, <2>1 DEF IInv, CallInv, OwnMail
    <3>2. QED BY <1>1, <2>1, <3>1, HandOnStep DEF IInv, Submit
  <2>2. CASE Keep
    <3>1. twice' \in BOOLEAN
      <4>1. twice \in BOOLEAN
        BY TwiceType
      <4>2. twice' = twice
        BY <2>2 DEF Keep
      <4>3. QED BY <4>1, <4>2
    <3>2. HolderInv' /\ UNCHANGED Life!vars /\ OthersKeep(cur)
      BY <1>1, <2>2, IdleKeeps DEF IInv, OthersKeep, Keep
    <3>3. QED BY <3>1, <3>2
  <2>3. QED BY <2>1, <2>2 DEF Push, mine
<1>4. TypeOK' /\ CallInv'
  BY <1>2, <1>3 DEF Push, Drop, IInv, TypeOK, CallInv, HolderInv
<1>5. OwnMail'
  BY <1>1, <1>2, <1>3 DEF OwnMail, OthersKeep, IInv, Push
<1>6. QED BY <1>3, <1>4, <1>5 DEF Preserved, IInv

------------------------------------------------------------------------------
LEMMA DownstreamStep == ASSUME IInv, Downstream PROVE Preserved
<1>1. /\ HolderInv' /\ Life!Next
      /\ \A c \in Conns : mail'[c] = mail[c] /\ (Owns(c) => Owns(c)')
  BY DownstreamKeeps DEF Downstream, IInv
<1>2. UNCHANGED <<isncomplete, type, state, pc, cur, sentNull, reused, twice>>
  BY DEF Downstream, callVars, historyVars
<1>3. TypeOK' /\ CallInv' /\ OwnMail'
  BY <1>1, <1>2 DEF IInv, TypeOK, CallInv, OwnMail, HolderInv, HolderTypeOK
<1>4. QED BY <1>1, <1>3 DEF Preserved, IInv

LEMMA NextStep == IInv /\ [Next]_vars => Preserved
<1> SUFFICES ASSUME IInv, [Next]_vars PROVE Preserved
  OBVIOUS
<1>1. CASE \E c \in Conns : Packet(c)
  BY <1>1, PacketStep
<1>2. CASE ~twice /\ Parse
  BY <1>2, AllocStep, ResumeStep, HeaderStep, ContentStep, PushStep DEF Parse
<1>3. CASE Downstream
  BY <1>3, DownstreamStep
<1>4. CASE UNCHANGED vars
  <2>1. HolderInv' /\ UNCHANGED Life!vars /\ \A d \in Conns : mail'[d] = mail[d] /\ (Owns(d) => Owns(d)')
    BY <1>4, IdleKeeps DEF vars, nodeVars, IInv
  <2>2. TypeOK' /\ CallInv' /\ OwnMail'
    BY <1>4, <2>1 DEF vars, IInv, TypeOK, CallInv, OwnMail, nodeVars, callVars, historyVars, HolderInv
  <2>3. QED BY <2>1, <2>2 DEF Preserved, IInv
<1>5. QED BY <1>1, <1>2, <1>3, <1>4 DEF Next, Ended

------------------------------------------------------------------------------
LEMMA Invariant == Spec => []IInv
<1>1. IInv /\ [Next]_vars => IInv'
  BY NextStep DEF Preserved
<1>2. QED BY IInvInit, <1>1, PTL DEF Spec

\* Types, for any number of connections and mails.
THEOREM TypeCorrect == Spec => []TypeOK
<1>1. IInv => TypeOK
  BY DEF IInv
<1>2. QED BY Invariant, <1>1, PTL

\* Whatever the packets, analy_noweb.c writes into no mail it has handed on,
\* except from a POP3 connection whose "+OK n octets" came while its node still
\* pointed to such a mail.
THEOREM OwnMailAlways == Spec => []OwnMail
<1>1. IInv => OwnMail
  BY DEF IInv
<1>2. QED BY Invariant, <1>1, PTL

\* The analysis thread keeps its half of MailLifecycle: no mail is blocked,
\* submitted or given up twice, or after it left the analysis, before a POP3
\* connection hands on the mail it began in one handed on before.
THEOREM Refinement == Spec => LifecycleKept
<1>1. Init => Life!Init
  BY DEF Init, HolderInit
<1>2. IInv /\ [Next]_vars => [Life!Next \/ twice']_Life!vars
  BY NextStep DEF Preserved
<1>3. QED BY <1>1, <1>2, Invariant, PTL DEF Spec, LifecycleKept
=============================================================================
