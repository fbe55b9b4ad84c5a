------------------------------ MODULE Webmail ------------------------------
(***************************************************************************)
(* The analysis thread for webmail (analy_webmail.c): it follows the HTTP  *)
(* connections of the web client, recognises by the request line whether   *)
(* a mail or an attachment is sent or read, and collects its parts from    *)
(* the packets that follow.  Requests carry what is sent, answers what is  *)
(* read; an answer is parsed only on a connection that asked for it.       *)
(*                                                                         *)
(* What a packet contains is a choice among the cases the code tells       *)
(* apart.  The position in the XML of a form is a static variable of       *)
(* parse_sendmail, one for all connections; a history variable records     *)
(* whose form set it last.  node->isfilename says only in which packets a  *)
(* name is looked for, so it is not a variable.  The process ends at a     *)
(* failed assertion, and where a header the code relies on is missing.     *)
(***************************************************************************)
EXTENDS MailHolder

\* node->type
NONE == "none"
Sends == {"sendmail", "sendattach_1", "sendattach_2"}
Receives == {"recemail", "rececontent", "receattach"}

\* The results of parse_sendmail_xml: the key to continue with, KEY_CONTENT_MID
\* and its successor for a complete text, and the two failures.
KEY_FROM == 0
KEY_CONTENT == 3
KEY_CONTENT_MID == 7
Complete == KEY_CONTENT_MID + 1
Blocked == -1
OutOfMemory == -2
Keys == KEY_FROM .. KEY_CONTENT \cup {KEY_CONTENT_MID}

VARIABLES
    type, isncomplete, ishead, isreceive,   \* with mail, the node
    flag,                       \* static int flag
    flagOf,                     \* the connection whose form set it
    pc, cur                     \* the packet in hand: its node

modeVars == <<isncomplete, ishead, isreceive>>
nodeVars == <<type, modeVars, mail>>
position == <<flag, flagOf>>
vars == <<nodeVars, position, pc, cur, lifeVars>>

TypeOK ==
    /\ type \in [Conns -> {NONE} \cup Sends \cup Receives]
    /\ isncomplete \in [Conns -> BOOLEAN]
    /\ ishead \in [Conns -> BOOLEAN] /\ isreceive \in [Conns -> BOOLEAN]
    /\ flag \in Keys \cup {Complete, Blocked, OutOfMemory} /\ flagOf \in Conns \cup {None}
    /\ pc \in {"deq", "alloc", "first", "realloc", "gzip", "body", "aborted"}
    /\ cur \in Conns \cup {None} /\ (cur = None <=> pc \in {"deq", "aborted"})
    /\ HolderTypeOK

Init ==
    /\ type = [c \in Conns |-> NONE]
    /\ isncomplete = [c \in Conns |-> FALSE] 
    /\ ishead = isncomplete /\ isreceive = isncomplete
    /\ flag = KEY_FROM /\ flagOf = None
    /\ pc = "deq" /\ cur = None
    /\ HolderInit

------------------------------------------------------------------------------
(* analy_callback and parse *)

Drop == pc' = "deq" /\ cur' = None
Call(c, step) == pc' = step /\ cur' = c

\* A request line that begins a mail or an attachment that is sent.  The node
\* gets a new mail, whatever became of the one before.
SendRequest(c) ==
    /\ pc = "deq" /\ ~isncomplete[c]
    /\ \E t \in Sends : type' = [type EXCEPT ![c] = t]
    /\ Forget(c) /\ Call(c, "alloc")
    /\ UNCHANGED <<modeVars, position>>

\* A request line for a mail, a text or an attachment: the answer counts.
ReceiveRequest(c) ==
    /\ pc = "deq" /\ ~isncomplete[c]
    /\ \E t \in Receives : type' = [type EXCEPT ![c] = t]
    /\ isreceive' = [isreceive EXCEPT ![c] = TRUE]
    /\ Drop
    /\ UNCHANGED <<isncomplete, ishead, mail, position, lifeVars>>

\* More of what is sent.
FurtherRequest(c) ==
    /\ pc = "deq" /\ isncomplete[c] /\ type[c] \in Sends
    /\ Call(c, "body")
    /\ UNCHANGED <<nodeVars, position, lifeVars>>

\* The packet of the answer in which its header ends.
FirstResponse(c) ==
    /\ pc = "deq" /\ isreceive[c] /\ ~isncomplete[c] /\ type[c] \in Receives
    /\ Forget(c) /\ Call(c, "alloc")
    /\ UNCHANGED <<type, modeVars, position>>
FurtherResponse(c) ==
    /\ pc = "deq" /\ isreceive[c] /\ isncomplete[c] /\ type[c] \in Receives
    /\ Call(c, "body")
    /\ UNCHANGED <<nodeVars, position, lifeVars>>

\* MSG_CLOSE: Mhash_del.  The next packet of the connection inserts a new node.
Close(c) ==
    /\ pc = "deq"
    /\ Forget(c) /\ Drop
    /\ type' = [type EXCEPT ![c] = NONE]
    /\ isncomplete' = [isncomplete EXCEPT ![c] = FALSE]
    /\ ishead' = [ishead EXCEPT ![c] = FALSE]
    /\ isreceive' = [isreceive EXCEPT ![c] = FALSE]
    /\ UNCHANGED position

------------------------------------------------------------------------------
(* How a call ends *)

\* The macro RETURN, and what was done with the mail before it.
Way(incomplete, head, receive, do) ==
    [isncomplete |-> incomplete, ishead |-> head, isreceive |-> receive, do |-> do]
\* Faulty: the connection goes on with a mail that was handed on.
KilledGoesOn == Way(TRUE, FALSE, FALSE, "log_push")
Killed == Way(FALSE, FALSE, FALSE, "log_push")
\* Faulty: the same for the monitor.
PushedGoesOn == Way(TRUE, FALSE, FALSE, "monitor_push")
Pushed == Way(FALSE, FALSE, FALSE, "monitor_push")
Failed == Way(FALSE, FALSE, FALSE, "nothing")
MoreHeader == Way(TRUE, TRUE, FALSE, "nothing")
MoreSent == Way(TRUE, FALSE, FALSE, "nothing")
MoreReceived == Way(TRUE, FALSE, TRUE, "nothing")

\* Faulty: the answer that goes on is not waited for.
ReturnUnasked(way) ==
    /\ isncomplete' = [isncomplete EXCEPT ![cur] = way.isncomplete]
    /\ ishead' = [ishead EXCEPT ![cur] = way.ishead]
    /\ isreceive' = [isreceive EXCEPT ![cur] = FALSE]
    /\ \/ way.do = "log_push" /\ LogPush(cur)
       \/ way.do = "monitor_push" /\ MonitorPush(cur)
       \/ way.do = "nothing" /\ UNCHANGED lifeVars
    /\ Drop
Return(way) ==
    /\ isncomplete' = [isncomplete EXCEPT ![cur] = way.isncomplete]
    /\ ishead' = [ishead EXCEPT ![cur] = way.ishead]
    /\ isreceive' = [isreceive EXCEPT ![cur] = way.isreceive]
    /\ \/ way.do = "log_push" /\ LogPush(cur)
       \/ way.do = "monitor_push" /\ MonitorPush(cur)
       \/ way.do = "nothing" /\ UNCHANGED lifeVars
    /\ Drop
\* A return that leaves the node as it is.
Leaves == Drop /\ UNCHANGED <<modeVars, lifeVars>>

SetFlag(value) == flag' = value /\ flagOf' = cur

------------------------------------------------------------------------------
(* The first packet of a mail or attachment *)

\* node->mail = Mpool_alloc(mailpool), which answers NULL without memory.
Alloc ==
    /\ pc \in {"alloc", "realloc"}
    /\ \/ \E n \in Mails : Take(cur, n) /\ Call(cur, IF pc = "alloc" THEN "first" ELSE "gzip")
       \/ NoMemory /\ Drop /\ UNCHANGED <<mail, lifeVars>>
    /\ UNCHANGED <<type, modeVars, position>>

\* A form: its header seldom fits the packet; without a length it is ignored.
FirstOfForm ==
    /\ pc = "first" /\ type[cur] = "sendmail"
    /\ SetFlag(KEY_FROM)
    /\ Return(MoreHeader) \/ Leaves
    /\ UNCHANGED <<type, mail>>

\* The ways of the first packet of everything else, one per parser function.  A
\* mail is killed by a keyword, pushed when it is complete or not a text to be
\* read, and left behind when there is no memory for its text.
SendAttach1First == {Killed, Pushed, Failed, MoreSent}
SendAttach2First == {MoreHeader}
RecvMailFirst == {Killed, Pushed, Failed}
RecvContentFirst == {Killed, Pushed, Failed, MoreReceived}
\* Without memory for its text a compressed one goes to the monitor as it is.
RecvGzipFirst == {Killed, Pushed, MoreReceived}
RecvAttachFirst == {Killed, Pushed, Failed, MoreReceived}
FirstWays(t) ==
    CASE t = "sendattach_1" -> SendAttach1First
      [] t = "sendattach_2" -> SendAttach2First
      [] t = "recemail" -> RecvMailFirst
      [] t = "rececontent" -> RecvContentFirst \cup RecvGzipFirst
      [] t = "receattach" -> RecvAttachFirst
First ==
    /\ pc = "first" /\ type[cur] # "sendmail"
    /\ \E way \in FirstWays(type[cur]) : Return(way)
    /\ UNCHANGED <<type, mail, position>>

\* A compressed attachment is passed on to parse_recvcontent_cg, which takes a
\* mail of its own and forgets the one that has the name of the attachment.
FirstOfGzip ==
    /\ pc = "first" /\ type[cur] = "receattach"
    /\ Forget(cur) /\ Call(cur, "realloc")
    /\ UNCHANGED <<type, modeVars, position>>
Gzip ==
    /\ pc = "gzip"
    /\ \E way \in RecvGzipFirst : Return(way)
    /\ UNCHANGED <<type, mail, position>>

------------------------------------------------------------------------------
(* A further packet *)

\* parse_sendmail_xml from key k: a part that is not found is looked for in the
\* next packet.
Xml(k) == (k .. KEY_CONTENT) \cup {KEY_CONTENT_MID, Complete, Blocked, OutOfMemory}

\* What parse_sendmail makes of the result.  The last packet of a form ends it
\* in any case.
\* Faulty: a mail without memory for its text goes on.
FormWayForgiving(r, isLast) ==
    IF r = Blocked THEN Killed
    ELSE IF r = Complete \/ isLast THEN Pushed
    ELSE MoreSent
FormWay(r, isLast) ==
    IF r = Blocked THEN Killed
    ELSE IF r = OutOfMemory THEN Failed
    ELSE IF r = Complete \/ isLast THEN Pushed
    ELSE MoreSent

FormHeader ==
    /\ pc = "body" /\ type[cur] = "sendmail" /\ ishead[cur]
    /\ \/ Return(MoreHeader) /\ UNCHANGED position
       \/ \E r \in Xml(KEY_FROM) : SetFlag(r) /\ Return(FormWay(r, FALSE))
    /\ UNCHANGED <<type, mail>>
FormBody ==
    /\ pc = "body" /\ type[cur] = "sendmail" /\ ~ishead[cur] /\ flag \in Keys
    /\ \E r \in Xml(flag), isLast \in BOOLEAN : SetFlag(r) /\ Return(FormWay(r, isLast))
    /\ UNCHANGED <<type, mail>>

\* An attachment in a form whose header goes on.
UploadHeader ==
    /\ pc = "body" /\ type[cur] = "sendattach_2" /\ ishead[cur]
    /\ Return(MoreHeader)
    /\ UNCHANGED <<type, mail, position>>

\* Any other packet: a name or data to be matched, the last or not.  Whether an
\* answer is compressed is a static variable again.
SendAttach1Body == {Killed, Pushed, Failed, MoreSent}
SendAttach2Body == {Killed, Pushed, Failed, MoreSent}
RecvContentBody == {Killed, Pushed, Failed, MoreReceived}
RecvGzipBody == {Killed, Pushed, MoreReceived}
RecvAttachBody == {Killed, Pushed, Failed, MoreReceived}
BodyWays(t) ==
    CASE t = "sendattach_1" -> SendAttach1Body
      [] t = "sendattach_2" -> SendAttach2Body
      [] t = "rececontent" -> RecvContentBody \cup RecvGzipBody
      [] t = "receattach" -> RecvAttachBody \cup RecvGzipBody
Body ==
    /\ pc = "body" /\ type[cur] \notin {"sendmail", "recemail"}
    /\ \E way \in BodyWays(type[cur]) : Return(way)
    /\ UNCHANGED <<type, mail, position>>

------------------------------------------------------------------------------
\* The process ends: at a request line without its end, a request while an
\* answer is being read, an answer to no request that was read, a first packet
\* unlike those the authors have seen, a form continued from no key, or a second
\* packet of a list of mails.
Abort ==
    /\ \/ pc = "deq" /\ \E c \in Conns : ~isncomplete[c]
       \/ pc = "deq" /\ \E c \in Conns : isncomplete[c] /\ type[c] \notin Sends
       \/ pc = "deq" /\ \E c \in Conns : isreceive[c] /\ type[c] \notin Receives
       \/ pc = "first" /\ type[cur] # "rececontent"
       \/ pc = "body" /\ type[cur] = "sendmail" /\ ~ishead[cur] /\ flag \notin Keys
       \/ pc = "body" /\ type[cur] = "recemail"
    /\ pc' = "aborted" /\ cur' = None
    /\ UNCHANGED <<nodeVars, position, lifeVars>>
Aborted == pc = "aborted" /\ UNCHANGED vars

Packet(c) ==
    \/ SendRequest(c) \/ ReceiveRequest(c) \/ FurtherRequest(c)
    \/ FirstResponse(c) \/ FurtherResponse(c) \/ Close(c)
Parse ==
    \/ Alloc \/ FirstOfForm \/ First \/ FirstOfGzip \/ Gzip
    \/ FormHeader \/ FormBody \/ UploadHeader \/ Body
Downstream ==
    /\ pc # "aborted"
    /\ HolderDownstream
    /\ UNCHANGED <<type, modeVars, position, pc, cur>>
Next == (\E c \in Conns : Packet(c)) \/ Parse \/ Downstream \/ Abort \/ Aborted
Spec == Init /\ [][Next]_vars

------------------------------------------------------------------------------
\* A connection in the middle of a mail owns it: nothing is written into a mail
\* that is with the monitor or a log thread or that was given back, and no two
\* connections fill the same mail.
OwnMail ==
    /\ \A c \in Conns : isncomplete[c] => Owns(c)
    /\ pc \in {"first", "gzip", "body"} => Owns(cur)

\* While a mail is unfinished its further packets are looked for in the
\* direction in which they come: answers are parsed exactly if it is read.
\* Otherwise its second half would be dropped or the process would abort.
DirectionKept ==
    \A c \in Conns : isncomplete[c] => (isreceive[c] <=> type[c] \in Receives)

\* Form c goes on after its header: its next packet continues from flag.
InForm(c) == isncomplete[c] /\ type[c] = "sendmail" /\ ~ishead[c]

\* A form that goes on leaves one of the keys of parse_sendmail_xml behind, so
\* its assert(0) is reached in one way only: since the last packet of the form,
\* the form of another connection set the static variable, and ended.
FormPosition ==
    \A c \in Conns :
        InForm(c) /\ flag \notin Keys => flagOf \in Conns \ {c} /\ ~InForm(flagOf)
=============================================================================
