--------------------------- MODULE WebmailProofs ---------------------------
(***************************************************************************)
(* Proofs about the webmail analysis thread for any number of connections  *)
(* and mails: its types, that every mail being filled is owned by its      *)
(* connection, that its further packets are looked for in the right        *)
(* direction, that the thread keeps its half of MailLifecycle, and that a  *)
(* form is continued from nowhere only after another one ended.            *)
(***************************************************************************)
EXTENDS Webmail, TLAPS

-----------------------------------------------------------------------------
(* What each step on a mail (MailHolder) does to the relation between nodes  *)
(* and mails, as in NowebProofs: no module can extend both.                  *)

\* A mail in analysis is the one its connection's node points to.
FillerInv ==
    \A n \in Mails :
        /\ stage[n] = "analysis" <=> filler[n] # None
        /\ filler[n] # None => filler[n] \in Conns /\ mail[filler[n]] = n

HolderInv == HolderTypeOK /\ FillerInv

\* The connections other than c keep their mails.
OthersKeep(c) == \A d \in Conns \ {c} : mail'[d] = mail[d] /\ (Owns(d) => Owns(d)')

\* Initially no mail is in analysis.
LEMMA HolderInvInit == HolderInit => HolderInv
BY HolderAssumption
   DEF HolderInit, HolderInv, HolderTypeOK, FillerInv,
       Life!Init, Life!TypeOK, Life!Stages, Life!Records

\* A mail that leaves the hands of its owner.
LEMMA LeaveKeeps ==
    ASSUME HolderInv, NEW c \in Conns, Owns(c),
           NEW to \in {"lost", "monitor", "log"}, NEW records \in SUBSET Life!Records,
           Leave(mail[c], to, records),
           mail' \in [Conns -> Mails \cup {None}],
           \A d \in Conns \ {c} : mail'[d] = mail[d]
    PROVE  HolderInv' /\ OthersKeep(c)
<1> DEFINE n == mail[c]
<1>1. n \in Mails /\ filler[n] = c /\ stage[n] = "analysis"
  BY HolderAssumption DEF HolderInv, HolderTypeOK, Owns
<1>2. HolderTypeOK'
  BY <1>1 DEF HolderInv, HolderTypeOK, Leave, Life!TypeOK, Life!Stages, Life!Records
<1>3. /\ stage'[n] = to /\ filler'[n] = None
      /\ \A k \in Mails \ {n} : stage'[k] = stage[k] /\ filler'[k] = filler[k]
  BY <1>1 DEF HolderInv, HolderTypeOK, Leave, Life!TypeOK
<1>4. \A k \in Mails \ {n} : filler[k] # c
  BY <1>1, HolderAssumption DEF HolderInv, FillerInv
<1>5. FillerInv'
  BY <1>1, <1>3, <1>4 DEF HolderInv, FillerInv
<1>6. OthersKeep(c)
  BY <1>1, <1>3, HolderAssumption DEF HolderInv, HolderTypeOK, OthersKeep, Owns
<1>7. QED BY <1>2, <1>5, <1>6 DEF HolderInv

\* Leaving is a step of MailLifecycle.
LEMMA LeaveIsLifeStep ==
    ASSUME HolderInv, NEW c \in Conns, Owns(c),
           NEW to, NEW records,
           \/ to = "lost" /\ records = {}
           \/ to = "monitor" /\ records = {}
           \/ to = "log" /\ records = {Life!KILL},
           Leave(mail[c], to, records)
    PROVE  Life!Next
<1>1. mail[c] \in Mails /\ stage[mail[c]] = "analysis"
  BY DEF HolderInv, HolderTypeOK, Owns
<1>2. Life!Analysis(mail[c])
  BY <1>1 DEF Leave, Life!Analysis, Life!Lose, Life!Submit, Life!Block, Life!Move
<1>3. QED BY <1>1, <1>2 DEF Life!Next

\* A connection that hands on the mail it owns.
LEMMA HandOnKeeps ==
    ASSUME HolderInv, NEW c \in Conns, Owns(c), LogPush(c) \/ MonitorPush(c), UNCHANGED mail
    PROVE  HolderInv' /\ OthersKeep(c) /\ Life!Next
<1>1. mail' \in [Conns -> Mails \cup {None}]
  BY DEF HolderInv, HolderTypeOK
<1>2. CASE LogPush(c)
  <2>1. Leave(mail[c], "log", {Life!KILL}) /\ {Life!KILL} \in SUBSET Life!Records
    BY <1>2 DEF LogPush, Life!Records
  <2>2. QED BY <1>1, <2>1, LeaveKeeps, LeaveIsLifeStep
<1>3. CASE MonitorPush(c)
  <2>1. PICK to \in {"monitor", "lost"} : Leave(mail[c], to, {})
    BY <1>3 DEF MonitorPush
  <2>2. QED BY <1>1, <2>1, LeaveKeeps, LeaveIsLifeStep
<1>4. QED BY <1>2, <1>3

\* A step that touches no mail.
LEMMA IdleKeeps ==
    ASSUME HolderInv, UNCHANGED <<mail, lifeVars>>
    PROVE  /\ HolderInv' /\ UNCHANGED Life!vars
           /\ \A c \in Conns : mail'[c] = mail[c] /\ (Owns(c) => Owns(c)')
BY DEF lifeVars, Life!vars, HolderInv, HolderTypeOK, FillerInv, Owns, Life!TypeOK

\* A pointer overwritten: its mail, if it owned one, is lost.
LEMMA ForgetKeeps ==
    ASSUME HolderInv, NEW c \in Conns, Forget(c)
    PROVE  HolderInv' /\ OthersKeep(c) /\ mail'[c] = None /\ [Life!Next]_Life!vars
<1>1. /\ mail' \in [Conns -> Mails \cup {None}] /\ mail'[c] = None
      /\ \A d \in Conns \ {c} : mail'[d] = mail[d]
  BY DEF Forget, HolderInv, HolderTypeOK
<1>2. CASE Owns(c) /\ Leave(mail[c], "lost", {})
  <2>1. HolderInv' /\ OthersKeep(c)
    BY <1>1, <1>2, LeaveKeeps
  <2>2. Life!Next
    BY <1>2, LeaveIsLifeStep
  <2>3. QED BY <1>1, <2>1, <2>2
<1>3. CASE ~Owns(c) /\ UNCHANGED lifeVars
  <2>1. \A n \in Mails : filler[n] # c
    <3>1. SUFFICES ASSUME NEW n \in Mails, filler[n] = c PROVE FALSE
      OBVIOUS
    <3>2. mail[c] = n /\ stage[n] = "analysis" /\ n # None
      BY <3>1, HolderAssumption DEF HolderInv, FillerInv
    <3>3. QED BY <3>1, <3>2, <1>3 DEF Owns
  <2>2. FillerInv'
    BY <1>1, <1>3, <2>1, HolderAssumption DEF lifeVars, HolderInv, FillerInv
  <2>3. HolderTypeOK' /\ OthersKeep(c)
    BY <1>1, <1>3 DEF lifeVars, HolderInv, HolderTypeOK, OthersKeep, Owns, Life!TypeOK
  <2>4. UNCHANGED Life!vars
    BY <1>3 DEF lifeVars, Life!vars
  <2>5. QED BY <1>1, <2>2, <2>3, <2>4 DEF HolderInv
<1>4. QED BY <1>2, <1>3 DEF Forget

\* A new mail for a node that pointed to nothing.
LEMMA TakeKeeps ==
    ASSUME HolderInv, NEW c \in Conns, mail[c] = None, NEW n \in Mails, Take(c, n)
    PROVE  HolderInv' /\ OthersKeep(c) /\ mail'[c] = n /\ Owns(c)' /\ Life!Next
<1> USE HolderAssumption DEF Take
<1>1. /\ stage[n] = "free" /\ stage'[n] = "analysis"
      /\ filler'[n] = c /\ mail'[c] = n /\ n # None
      /\ \A k \in Mails \ {n} : stage'[k] = stage[k] /\ filler'[k] = filler[k]
      /\ \A d \in Conns \ {c} : mail'[d] = mail[d]
  BY DEF HolderInv, HolderTypeOK, Life!TypeOK, Life!Alloc, Life!Move
<1>2. HolderTypeOK'
  BY DEF HolderInv, HolderTypeOK, Life!TypeOK, Life!Stages, Life!Records, Life!Alloc, Life!Move
<1>3. filler[n] = None /\ \A k \in Mails : filler[k] # c
  BY <1>1 DEF HolderInv, FillerInv
<1>4. FillerInv'
  BY <1>1, <1>3 DEF HolderInv, FillerInv
<1>5. OthersKeep(c) /\ Owns(c)'
  BY <1>1 DEF OthersKeep, Owns, HolderInv, HolderTypeOK
<1>6. Life!Next
  BY DEF Life!Next, Life!Analysis
<1>7. QED BY <1>1, <1>2, <1>4, <1>5, <1>6 DEF HolderInv

\* The monitor and log threads move only mails that left the analysis.
LEMMA DownstreamKeeps ==
    ASSUME HolderInv, HolderDownstream
    PROVE  /\ HolderInv' /\ Life!Next
           /\ \A c \in Conns : mail'[c] = mail[c] /\ (Owns(c) => Owns(c)')
<1>1. PICK n \in Mails : Life!Downstream(n)
  BY DEF HolderDownstream
<1>2. /\ stage' \in [Mails -> Life!Stages] /\ owed' \in [Mails -> SUBSET Life!Records]
      /\ \A k \in Mails : stage'[k] = "analysis" <=> stage[k] = "analysis"
  <2> USE DEF Life!Move, HolderInv, HolderTypeOK, Life!TypeOK, Life!Stages, Life!Records
  <2>1. CASE Life!Clear(n) \/ Life!Release(n)
    BY <2>1 DEF Life!Clear, Life!Release
  <2>2. CASE \E records \in {{Life!MONITOR}, {Life!SPAM}, {Life!MONITOR, Life!SPAM}} : Life!Log(n, records)
    BY <2>2 DEF Life!Log
  <2>3. CASE \E r \in Life!Records : Life!Record(n, r)
    BY <2>3 DEF Life!Record
  <2>4. QED BY <1>1, <2>1, <2>2, <2>3 DEF Life!Downstream
<1>3. UNCHANGED <<mail, filler>>
  BY DEF HolderDownstream
<1>4. HolderInv'
  BY <1>2, <1>3 DEF HolderInv, HolderTypeOK, FillerInv, Life!TypeOK
<1>5. \A c \in Conns : mail'[c] = mail[c] /\ (Owns(c) => Owns(c)')
  BY <1>2, <1>3 DEF HolderInv, HolderTypeOK, Owns
<1>6. Life!Next
  BY <1>1 DEF Life!Next
<1>7. QED BY <1>4, <1>5, <1>6

-----------------------------------------------------------------------------
(* The thread. *)

USE DEF position, SetFlag

Kinds == Sends \cup Receives

\* What the step of a call entitles the thread to: the kind of the node in hand,
\* and that a call that begins a mail does so in a node without one.
CallInv ==
    /\ pc \in {"alloc", "first", "body"} => type[cur] \in Kinds
    /\ pc \in {"realloc", "gzip"} => type[cur] = "receattach"
    /\ pc \in {"alloc", "first", "realloc"} => ~isncomplete[cur]
    /\ pc \in {"alloc", "realloc"} => mail[cur] = None

IInv == TypeOK /\ CallInv /\ HolderInv /\ OwnMail /\ DirectionKept

Preserved == IInv' /\ [Life!Next]_Life!vars

FlagType == Keys \cup {Complete, Blocked, OutOfMemory}

------------------------------------------------------------------------------
LEMMA IInvInit == Init => IInv
BY HolderInvInit
   DEF Init, HolderInit, HolderInv, IInv, TypeOK, CallInv, OwnMail, DirectionKept, Keys,
       KEY_FROM, KEY_CONTENT, KEY_CONTENT_MID

------------------------------------------------------------------------------
(* The ways a call ends *)

\* A way that hands the mail on ends it, and one that goes on goes on in the
\* direction of kind t.
Proper(way, t) ==
    /\ way.isncomplete \in BOOLEAN /\ way.ishead \in BOOLEAN /\ way.isreceive \in BOOLEAN
    /\ way.do # "nothing" => ~way.isncomplete
    /\ way.isncomplete => (way.isreceive <=> t \in Receives)

LEMMA EndsProper == \A t : Proper(Killed, t) /\ Proper(Pushed, t) /\ Proper(Failed, t)
BY DEF Proper, Killed, Pushed, Failed, Way

LEMMA MoreProper ==
    /\ \A t \in Sends : Proper(MoreHeader, t) /\ Proper(MoreSent, t)
    /\ \A t \in Receives : Proper(MoreReceived, t)
BY DEF Proper, MoreHeader, MoreSent, MoreReceived, Way, Sends, Receives

LEMMA WaysProper ==
    ASSUME NEW t \in Kinds
    PROVE  /\ t # "sendmail" => \A way \in FirstWays(t) : Proper(way, t)
           /\ t \notin {"sendmail", "recemail"} => \A way \in BodyWays(t) : Proper(way, t)
<1> USE DEF SendAttach1First, SendAttach2First, RecvMailFirst, RecvContentFirst, RecvGzipFirst,
            RecvAttachFirst, SendAttach1Body, SendAttach2Body, RecvContentBody, RecvGzipBody,
            RecvAttachBody
<1>1. CASE t \in Sends
  BY <1>1, EndsProper, MoreProper DEF FirstWays, BodyWays, Sends
<1>2. CASE t \in Receives
  BY <1>2, EndsProper, MoreProper DEF FirstWays, BodyWays, Sends, Receives
<1>3. QED BY <1>1, <1>2 DEF Kinds

LEMMA FormWayProper == \A r, isLast : Proper(FormWay(r, isLast), "sendmail")
BY EndsProper, MoreProper DEF FormWay, Sends

\* A connection that owns its mail comes to the end of a call.
LEMMA ReturnKeeps ==
    ASSUME IInv, NEW c \in Conns, c = cur, Owns(c),
           NEW way, Proper(way, type[c]), Return(way),
           UNCHANGED <<type, mail>>, flag' \in FlagType, flagOf' \in Conns \cup {None}
    PROVE  Preserved
<1>1. /\ isncomplete' \in [Conns -> BOOLEAN] /\ ishead' \in [Conns -> BOOLEAN]
      /\ isreceive' \in [Conns -> BOOLEAN]
      /\ isncomplete'[c] = way.isncomplete /\ isreceive'[c] = way.isreceive
      /\ \A d \in Conns \ {c} : isncomplete'[d] = isncomplete[d] /\ isreceive'[d] = isreceive[d]
  BY DEF Return, Proper, IInv, TypeOK
<1>2. pc' = "deq" /\ cur' = None
  BY DEF Return, Drop
<1>3. /\ HolderInv' /\ OthersKeep(c) /\ [Life!Next]_Life!vars
      /\ way.isncomplete => Owns(c)'
  <2>1. CASE way.do = "nothing" /\ UNCHANGED lifeVars
    <3>1. HolderInv' /\ UNCHANGED Life!vars /\ \A d \in Conns : mail'[d] = mail[d] /\ (Owns(d) => Owns(d)')
      BY <2>1, IdleKeeps DEF IInv
    <3>2. QED BY <3>1 DEF OthersKeep
  <2>2. CASE way.do # "nothing" /\ (LogPush(c) \/ MonitorPush(c))
    <3>1. ~way.isncomplete
      BY <2>2 DEF Proper
    <3>2. QED BY <2>2, <3>1, HandOnKeeps DEF IInv
  <2>3. QED BY <2>1, <2>2 DEF Return
<1>4. TypeOK'
  BY <1>1, <1>2, <1>3 DEF IInv, TypeOK, HolderInv, FlagType
<1>5. CallInv'
  BY <1>2 DEF CallInv
<1>6. OwnMail'
  BY <1>1, <1>2, <1>3 DEF OwnMail, OthersKeep, IInv
<1>7. DirectionKept'
  BY <1>1 DEF DirectionKept, Proper, IInv
<1>8. QED BY <1>3, <1>4, <1>5, <1>6, <1>7 DEF Preserved, IInv

------------------------------------------------------------------------------
(* The other steps *)

\* Nothing happens to any mail, and no connection gets into the middle of one.
LEMMA IdleStep ==
    ASSUME IInv, UNCHANGED <<mail, lifeVars, isncomplete>>,
           TypeOK', CallInv', DirectionKept',
           pc' \in {"first", "gzip", "body"} => \E c \in Conns : c = cur' /\ Owns(c)
    PROVE  Preserved
<1>1. HolderInv' /\ UNCHANGED Life!vars /\ \A d \in Conns : mail'[d] = mail[d] /\ (Owns(d) => Owns(d)')
  BY IdleKeeps DEF IInv
<1>2. OwnMail'
  BY <1>1 DEF OwnMail, IInv
<1>3. QED BY <1>1, <1>2 DEF Preserved, IInv

\* The node in hand begins a new mail.
LEMMA BeginStep ==
    ASSUME IInv, NEW c \in Conns, ~isncomplete[c], Forget(c),
           pc' \in {"alloc", "realloc"}, cur' = c,
           type' \in [Conns -> {NONE} \cup Kinds], \A d \in Conns \ {c} : type'[d] = type[d],
           type'[c] \in Kinds, pc' = "realloc" => type'[c] = "receattach",
           UNCHANGED <<modeVars, position>>
    PROVE  Preserved
<1>1. HolderInv' /\ OthersKeep(c) /\ mail'[c] = None /\ [Life!Next]_Life!vars
  BY ForgetKeeps DEF IInv
<1>2. TypeOK'
  BY <1>1, HolderAssumption DEF IInv, TypeOK, HolderInv, modeVars, Kinds
<1>3. CallInv'
  BY <1>1 DEF CallInv, modeVars
<1>4. OwnMail' /\ DirectionKept'
  BY <1>1 DEF OwnMail, DirectionKept, OthersKeep, IInv, modeVars
<1>5. QED BY <1>1, <1>2, <1>3, <1>4 DEF Preserved, IInv

LEMMA PacketStep == ASSUME IInv, NEW c \in Conns, Packet(c) PROVE Preserved
<1> USE DEF Call, Drop
<1>1. CASE SendRequest(c)
  <2>1. PICK t \in Sends : type' = [type EXCEPT ![c] = t]
    BY <1>1 DEF SendRequest
  <2>2. /\ type' \in [Conns -> {NONE} \cup Kinds] /\ type'[c] \in Kinds
        /\ \A d \in Conns \ {c} : type'[d] = type[d]
    BY <2>1 DEF IInv, TypeOK, Kinds
  <2>3. QED BY <1>1, <2>2, BeginStep DEF SendRequest
<1>2. CASE ReceiveRequest(c)
  <2>1. PICK t \in Receives : type' = [type EXCEPT ![c] = t]
    BY <1>2 DEF ReceiveRequest
  <2>2. TypeOK' /\ CallInv'
    BY <1>2, <2>1 DEF ReceiveRequest, IInv, TypeOK, CallInv, HolderTypeOK, lifeVars, Life!TypeOK
  <2>3. DirectionKept'
    BY <1>2, <2>1 DEF ReceiveRequest, IInv, TypeOK, DirectionKept
  <2>4. QED BY <1>2, <2>2, <2>3, IdleStep DEF ReceiveRequest
<1>3. CASE FurtherRequest(c) \/ FurtherResponse(c)
  <2>1. TypeOK' /\ CallInv' /\ DirectionKept' /\ UNCHANGED <<mail, lifeVars, isncomplete>>
    BY <1>3, HolderAssumption
       DEF FurtherRequest, FurtherResponse, IInv, TypeOK, CallInv, DirectionKept, nodeVars, modeVars,
           Kinds, HolderTypeOK, lifeVars, Life!TypeOK
  <2>2. cur' = c /\ Owns(c)
    BY <1>3 DEF FurtherRequest, FurtherResponse, IInv, OwnMail
  <2>3. QED BY <2>1, <2>2, IdleStep
<1>4. CASE FirstResponse(c)
  <2>1. type' \in [Conns -> {NONE} \cup Kinds] /\ type'[c] \in Kinds
    BY <1>4 DEF FirstResponse, IInv, TypeOK, Kinds
  <2>2. QED BY <1>4, <2>1, BeginStep DEF FirstResponse
<1>5. CASE Close(c)
  <2>1. HolderInv' /\ OthersKeep(c) /\ mail'[c] = None /\ [Life!Next]_Life!vars
    BY <1>5, ForgetKeeps DEF Close, IInv
  <2>2. TypeOK'
    BY <1>5, <2>1 DEF Close, IInv, TypeOK, HolderInv
  <2>3. CallInv'
    BY <1>5 DEF Close, CallInv
  <2>4. OwnMail' /\ DirectionKept'
    BY <1>5, <2>1 DEF Close, OwnMail, DirectionKept, OthersKeep, IInv, TypeOK
  <2>5. QED BY <2>1, <2>2, <2>3, <2>4 DEF Preserved, IInv
<1>6. QED BY <1>1, <1>2, <1>3, <1>4, <1>5 DEF Packet

LEMMA AllocStep == ASSUME IInv, Alloc PROVE Preserved
<1>1. PICK c \in Conns : c = cur
  BY DEF Alloc, IInv, TypeOK
<1>2. mail[c] = None /\ ~isncomplete[c] /\ type[c] \in Kinds /\ (pc = "realloc" => type[c] = "receattach")
  BY <1>1 DEF Alloc, IInv, CallInv, Kinds, Receives
<1>3. ASSUME NEW n \in Mails, Take(c, n), Call(c, IF pc = "alloc" THEN "first" ELSE "gzip"),
             UNCHANGED <<type, modeVars, position>>
      PROVE  Preserved
  <2>1. HolderInv' /\ OthersKeep(c) /\ mail'[c] = n /\ Owns(c)' /\ Life!Next
    BY <1>2, <1>3, TakeKeeps DEF IInv
  <2>2. TypeOK'
    BY <1>3, <2>1, HolderAssumption DEF IInv, TypeOK, HolderInv, Call, modeVars
  <2>3. CallInv'
    BY <1>1, <1>2, <1>3 DEF CallInv, Call, modeVars, Alloc
  <2>4. OwnMail' /\ DirectionKept'
    BY <1>2, <1>3, <2>1 DEF OwnMail, DirectionKept, OthersKeep, IInv, Call, modeVars
  <2>5. QED BY <2>1, <2>2, <2>3, <2>4 DEF Preserved, IInv
<1>4. CASE Drop /\ UNCHANGED <<mail, lifeVars, type, modeVars, position>>
  <2>1. TypeOK' /\ CallInv' /\ DirectionKept'
    BY <1>4 DEF Drop, IInv, TypeOK, CallInv, DirectionKept, modeVars, HolderTypeOK, lifeVars, Life!TypeOK
  <2>2. QED BY <1>4, <2>1, IdleStep DEF Drop, modeVars
<1>5. QED BY <1>1, <1>3, <1>4 DEF Alloc

\* The steps that parse a packet of a mail the connection in hand owns.
LEMMA ParseStep ==
    ASSUME IInv, First \/ FirstOfForm \/ FirstOfGzip \/ Gzip \/ FormHeader \/ FormBody
                 \/ UploadHeader \/ Body
    PROVE  Preserved
<1>1. PICK c \in Conns : c = cur /\ pc \in {"first", "gzip", "body"}
  BY DEF First, FirstOfForm, FirstOfGzip, Gzip, FormHeader, FormBody, UploadHeader, Body, IInv, TypeOK
<1>2. Owns(c)
  BY <1>1 DEF IInv, OwnMail
<1>3. /\ pc \in {"first", "body"} => type[c] \in Kinds
      /\ pc = "gzip" => type[c] = "receattach"
      /\ pc = "first" => ~isncomplete[c]
  BY <1>1 DEF IInv, CallInv
<1>4. flagOf \in Conns \cup {None} /\ flag \in FlagType /\ KEY_FROM \in FlagType /\ \A k \in Keys : Xml(k) \subseteq FlagType
  BY DEF IInv, TypeOK, FlagType, Keys, Xml, KEY_FROM, KEY_CONTENT, KEY_CONTENT_MID, Complete
<1>5. CASE First
  BY <1>1, <1>2, <1>3, <1>4, <1>5, WaysProper, ReturnKeeps DEF First
<1>6. CASE FirstOfForm
  <2>1. CASE Return(MoreHeader)
    BY <1>1, <1>2, <1>4, <1>6, <2>1, MoreProper, ReturnKeeps DEF FirstOfForm, Sends
  <2>2. CASE Leaves
    <3>1. TypeOK' /\ CallInv' /\ DirectionKept'
      BY <1>4, <1>6, <2>2
         DEF FirstOfForm, Leaves, Drop, IInv, TypeOK, CallInv, DirectionKept, modeVars, FlagType,
             HolderTypeOK, lifeVars, Life!TypeOK
    <3>2. QED BY <1>6, <2>2, <3>1, IdleStep DEF FirstOfForm, Leaves, Drop, modeVars
  <2>3. QED BY <1>6, <2>1, <2>2 DEF FirstOfForm
<1>7. CASE FirstOfGzip
  <2>1. type' \in [Conns -> {NONE} \cup Kinds] /\ type'[c] = "receattach" /\ "receattach" \in Kinds
    BY <1>1, <1>7 DEF FirstOfGzip, IInv, TypeOK, Kinds, Receives
  <2>2. QED BY <1>1, <1>3, <1>7, <2>1, BeginStep DEF FirstOfGzip, Call
<1>8. CASE Gzip
  <2>1. \A way \in RecvGzipFirst : Proper(way, type[c])
    BY <1>3, <1>8, EndsProper, MoreProper DEF Gzip, Receives, RecvGzipFirst
  <2>2. QED BY <1>1, <1>2, <1>4, <1>8, <2>1, ReturnKeeps DEF Gzip
<1>9. CASE FormHeader
  <2>1. CASE Return(MoreHeader) /\ UNCHANGED position
    BY <1>1, <1>2, <1>4, <1>9, <2>1, MoreProper, ReturnKeeps DEF FormHeader, Sends
  <2>2. CASE \E r \in Xml(KEY_FROM) : SetFlag(r) /\ Return(FormWay(r, FALSE))
    <3>1. KEY_FROM \in Keys
      BY DEF Keys, KEY_FROM, KEY_CONTENT
    <3>2. PICK r \in Xml(KEY_FROM) : SetFlag(r) /\ Return(FormWay(r, FALSE))
      BY <2>2
    <3>3. Proper(FormWay(r, FALSE), type[c])
      BY <1>1, <1>9, FormWayProper DEF FormHeader
    <3>4. QED BY <1>1, <1>2, <1>4, <1>9, <3>1, <3>2, <3>3, ReturnKeeps DEF FormHeader
  <2>3. QED BY <1>9, <2>1, <2>2 DEF FormHeader
<1>10. CASE FormBody
  <2>1. PICK r \in Xml(flag), isLast \in BOOLEAN : SetFlag(r) /\ Return(FormWay(r, isLast))
    BY <1>10 DEF FormBody
  <2>2. Proper(FormWay(r, isLast), type[c])
    BY <1>1, <1>10, FormWayProper DEF FormBody
  <2>3. QED BY <1>1, <1>2, <1>4, <1>10, <2>1, <2>2, ReturnKeeps DEF FormBody
<1>11. CASE UploadHeader
  BY <1>1, <1>2, <1>4, <1>11, MoreProper, ReturnKeeps DEF UploadHeader, Sends
<1>12. CASE Body
  BY <1>1, <1>2, <1>3, <1>4, <1>12, WaysProper, ReturnKeeps DEF Body
<1>13. QED BY <1>5, <1>6, <1>7, <1>8, <1>9, <1>10, <1>11, <1>12

LEMMA DownstreamStep == ASSUME IInv, Downstream PROVE Preserved
<1>1. /\ HolderInv' /\ Life!Next
      /\ \A c \in Conns : mail'[c] = mail[c] /\ (Owns(c) => Owns(c)')
  BY DownstreamKeeps DEF Downstream, IInv
<1>2. TypeOK' /\ CallInv' /\ DirectionKept'
  BY <1>1 DEF Downstream, IInv, TypeOK, CallInv, DirectionKept, HolderInv, HolderDownstream, modeVars
<1>3. OwnMail'
  BY <1>1 DEF Downstream, OwnMail, IInv, TypeOK, modeVars
<1>4. QED BY <1>1, <1>2, <1>3 DEF Preserved, IInv

LEMMA NextStep == IInv /\ [Next]_vars => Preserved
<1> SUFFICES ASSUME IInv, [Next]_vars PROVE Preserved
  OBVIOUS
<1>1. CASE \E c \in Conns : Packet(c)
  BY <1>1, PacketStep
<1>2. CASE Parse
  BY <1>2, AllocStep, ParseStep DEF Parse
<1>3. CASE Downstream
  BY <1>3, DownstreamStep
<1>4. CASE Abort
  <2>1. TypeOK' /\ CallInv' /\ DirectionKept'
    BY <1>4 DEF Abort, IInv, TypeOK, CallInv, DirectionKept, nodeVars, modeVars, HolderTypeOK,
                lifeVars, Life!TypeOK
  <2>2. QED BY <1>4, <2>1, IdleStep DEF Abort, nodeVars, modeVars
<1>5. CASE UNCHANGED vars
  <2>1. TypeOK' /\ CallInv' /\ DirectionKept'
    BY <1>5 DEF vars, IInv, TypeOK, CallInv, DirectionKept, nodeVars, modeVars, HolderTypeOK,
                lifeVars, Life!TypeOK
  <2>2. pc \in {"first", "gzip", "body"} => cur \in Conns /\ Owns(cur)
    BY DEF IInv, TypeOK, OwnMail
  <2>3. QED BY <1>5, <2>1, <2>2, IdleStep DEF vars, nodeVars, modeVars
<1>6. QED BY <1>1, <1>2, <1>3, <1>4, <1>5 DEF Next, Aborted

------------------------------------------------------------------------------
LEMMA Invariant == Spec => []IInv
<1>1. IInv /\ [Next]_vars => IInv'
  BY NextStep DEF Preserved
<1>2. QED BY IInvInit, <1>1, PTL DEF Spec

\* Types, for any number of connections and mails.
THEOREM TypeCorrect == Spec => []TypeOK
<1>1. IInv => TypeOK
  BY DEF IInv
<1>2. QED BY Invariant, <1>1, PTL

\* Whatever the packets, a mail that is still being filled belongs to the
\* connection that fills it: analy_webmail.c writes into no mail it handed on.
THEOREM OwnMailAlways == Spec => []OwnMail
<1>1. IInv => OwnMail
  BY DEF IInv
<1>2. QED BY Invariant, <1>1, PTL

\* Every RETURN leaves the flags of the node such that the rest of an unfinished
\* mail finds its parser.
THEOREM DirectionKeptAlways == Spec => []DirectionKept
<1>1. IInv => DirectionKept
  BY DEF IInv
<1>2. QED BY Invariant, <1>1, PTL

\* The webmail thread keeps its half of MailLifecycle: no mail is blocked,
\* submitted or given up twice, or after it left the analysis.
THEOREM Refinement == Spec => ImplementsLifecycle
<1>1. Init => Life!Init
  BY DEF Init, HolderInit
<1>2. IInv /\ [Next]_vars => [Life!Next]_Life!vars
  BY NextStep DEF Preserved
<1>3. QED BY <1>1, <1>2, Invariant, PTL DEF Spec, ImplementsLifecycle, Life!Spec

------------------------------------------------------------------------------
(* The position in a form *)

\* What is no key was left by a form that ended.
FormInv == IInv /\ (flag \notin Keys => flagOf \in Conns /\ ~InForm(flagOf))

\* A form goes on only with a key.
LEMMA FormGoesOnWithKey ==
    ASSUME NEW k \in Keys, NEW r \in Xml(k), NEW isLast, FormWay(r, isLast).isncomplete
    PROVE  r \in Keys
BY DEF FormWay, Killed, Failed, Pushed, Way, Xml, Keys, KEY_FROM, KEY_CONTENT, KEY_CONTENT_MID

\* Steps that leave the flag alone, and let no form past its header.
LEMMA FlagKept ==
    ASSUME FormInv, UNCHANGED position, IInv',
           \A c \in Conns : isncomplete'[c] /\ type'[c] = "sendmail" /\ ~ishead'[c]
                             => isncomplete[c] /\ type[c] = "sendmail" /\ ~ishead[c]
    PROVE  FormInv'
BY DEF FormInv, InForm, position

\* Steps of a form that set it.
LEMMA FlagSet ==
    ASSUME FormInv, IInv', NEW c \in Conns, flagOf' = c,
           isncomplete'[c] /\ ~ishead'[c] => flag' \in Keys
    PROVE  FormInv'
BY DEF FormInv, InForm

LEMMA FormStep == FormInv /\ [Next]_vars => FormInv'
<1> SUFFICES ASSUME FormInv, [Next]_vars PROVE FormInv'
  OBVIOUS
<1>1. IInv /\ IInv'
  BY NextStep DEF FormInv, Preserved
<1>2. /\ isncomplete \in [Conns -> BOOLEAN] /\ ishead \in [Conns -> BOOLEAN]
      /\ type \in [Conns -> {NONE} \cup Kinds]
      /\ pc \notin {"deq", "aborted"} => cur \in Conns
  BY <1>1 DEF IInv, TypeOK, Kinds
<1>3. CASE \E c \in Conns : Packet(c)
  <2>1. PICK c \in Conns : Packet(c)
    BY <1>3
  <2>2. CASE SendRequest(c)
    BY <1>1, <1>2, <2>2, FlagKept DEF SendRequest, modeVars, FormInv
  <2>3. CASE ReceiveRequest(c)
    <3>1. PICK t \in Receives : type' = [type EXCEPT ![c] = t]
      BY <2>3 DEF ReceiveRequest
    <3>2. t # "sendmail"
      BY DEF Receives
    <3>3. QED BY <1>1, <1>2, <2>3, <3>1, <3>2, FlagKept DEF ReceiveRequest, FormInv
  <2>4. CASE FurtherRequest(c) \/ FurtherResponse(c) \/ FirstResponse(c)
    BY <1>1, <2>4, FlagKept DEF FurtherRequest, FurtherResponse, FirstResponse, nodeVars, modeVars, FormInv
  <2>5. CASE Close(c)
    BY <1>1, <1>2, <2>5, FlagKept DEF Close, FormInv, NONE
  <2>6. QED BY <2>1, <2>2, <2>3, <2>4, <2>5 DEF Packet
<1>4. CASE Alloc \/ FirstOfGzip
  BY <1>1, <1>4, FlagKept DEF Alloc, FirstOfGzip, modeVars, FormInv
<1>5. CASE First \/ Gzip \/ UploadHeader \/ Body
  <2>1. UNCHANGED <<type, position>> /\ \E way : Return(way)
    BY <1>5 DEF First, Gzip, UploadHeader, Body
  <2>2. type[cur] # "sendmail"
    BY <1>1, <1>5 DEF First, Gzip, UploadHeader, Body, IInv, CallInv
  <2>3. \A c \in Conns \ {cur} : isncomplete'[c] = isncomplete[c] /\ ishead'[c] = ishead[c]
    BY <1>2, <2>1 DEF Return
  <2>4. QED BY <1>1, <2>1, <2>2, <2>3, FlagKept DEF FormInv
<1>6. CASE FirstOfForm
  <2>1. flag' \in Keys /\ flagOf' = cur /\ cur \in Conns
    BY <1>2, <1>6 DEF FirstOfForm, SetFlag, Keys, KEY_FROM, KEY_CONTENT
  <2>2. QED BY <1>1, <2>1, FlagSet
<1>7. CASE FormHeader
  <2>1. PICK c \in Conns : c = cur /\ type[c] = "sendmail" /\ UNCHANGED type
    BY <1>2, <1>7 DEF FormHeader
  <2>2. CASE Return(MoreHeader) /\ UNCHANGED position
    <3>1. ishead'[c] /\ \A d \in Conns \ {c} : UNCHANGED <<isncomplete[d], ishead[d]>>
      BY <1>2, <2>1, <2>2 DEF Return, MoreHeader, Way
    <3>2. QED BY <1>1, <2>1, <2>2, <3>1, FlagKept DEF FormInv
  <2>3. CASE \E r \in Xml(KEY_FROM) : SetFlag(r) /\ Return(FormWay(r, FALSE))
    <3>1. PICK r \in Xml(KEY_FROM) : SetFlag(r) /\ Return(FormWay(r, FALSE))
      BY <2>3
    <3>2. isncomplete'[c] = FormWay(r, FALSE).isncomplete
      BY <1>2, <2>1, <3>1 DEF Return
    <3>3. KEY_FROM \in Keys
      BY DEF Keys, KEY_FROM, KEY_CONTENT
    <3>4. flagOf' = c /\ (isncomplete'[c] => flag' \in Keys)
      BY <2>1, <3>1, <3>2, <3>3, FormGoesOnWithKey DEF SetFlag
    <3>5. QED BY <1>1, <2>1, <3>4, FlagSet
  <2>4. QED BY <1>7, <2>2, <2>3 DEF FormHeader
<1>8. CASE FormBody
  <2>1. PICK c \in Conns : c = cur /\ type[c] = "sendmail" /\ UNCHANGED type /\ flag \in Keys
    BY <1>2, <1>8 DEF FormBody
  <2>2. PICK r \in Xml(flag), isLast \in BOOLEAN : SetFlag(r) /\ Return(FormWay(r, isLast))
    BY <1>8 DEF FormBody
  <2>3. isncomplete'[c] = FormWay(r, isLast).isncomplete
    BY <1>2, <2>1, <2>2 DEF Return
  <2>4. flagOf' = c /\ (isncomplete'[c] => flag' \in Keys)
    BY <2>1, <2>2, <2>3, FormGoesOnWithKey DEF SetFlag
  <2>5. QED BY <1>1, <2>1, <2>4, FlagSet
<1>9. CASE Downstream \/ Abort \/ UNCHANGED vars
  BY <1>1, <1>9, FlagKept DEF Downstream, Abort, vars, nodeVars, modeVars, FormInv
<1>10. QED
  BY <1>3, <1>4, <1>5, <1>6, <1>7, <1>8, <1>9 DEF Next, Parse, Aborted

\* However many mails are sent at once, parse_sendmail_xml is asked to continue
\* from nowhere, which aborts the daemon, only in a form that another form has
\* overtaken: one that ended since, and left the static variable at its end.
THEOREM FormPositionAlways == Spec => []FormPosition
<1>1. Init => FormInv
  BY IInvInit DEF Init, FormInv, Keys, KEY_FROM, KEY_CONTENT
<1>2. FormInv /\ [Next]_vars => FormInv'
  BY FormStep
<1>3. FormInv => FormPosition
  BY DEF FormInv, FormPosition
<1>4. QED BY <1>1, <1>2, <1>3, PTL DEF Spec
=============================================================================
