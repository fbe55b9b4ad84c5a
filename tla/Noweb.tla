------------------------------- MODULE Noweb -------------------------------
(***************************************************************************)
(* The analysis thread for SMTP, IMAP and POP3 (analy_noweb.c): it takes   *)
(* the packets of all connections from one queue, finds the hash node of   *)
(* the packet's connection, follows the protocol to tell where a mail      *)
(* begins and ends, and parses its MIME structure packet by packet.        *)
(*                                                                         *)
(* What a packet contains is a choice among the cases the code tells       *)
(* apart.  The node of a connection is created by its first packet with    *)
(* the values a closed connection has here, so its presence in the hash    *)
(* table is not a variable.  The parser's position in a mail is a static   *)
(* variable of parse_mime, one for all connections.                        *)
(*                                                                         *)
(* A POP3 client may send one RETR after another: the node then still      *)
(* points to the mail before, and the new one is written into that mail,   *)
(* whoever has it now.  Two history variables record where this happened.  *)
(* When the thread hands on such a mail, two threads or queues have it,    *)
(* and what they do from there is not followed (bound).                    *)
(***************************************************************************)
EXTENDS MailHolder

CONSTANTS Smtp, Imap, Pop3     \* the connections, by node->port

ASSUME ConnsAssumption ==
    /\ Conns = Smtp \cup Imap \cup Pop3
    /\ Smtp \cap Imap = {} /\ Smtp \cap Pop3 = {} /\ Imap \cap Pop3 = {}

\* node->type, which is 0 in a node of a new block of the pool.
Kinds == {"text", "alternative", "mixed"}
\* The static state; "dead" is the -1 of a mail that is finished with.
States == {"start", "nocontent", "contentmid", "attach", "attachmid", "dead"}

VARIABLES
    isncomplete, type,          \* the fields of each connection's node
    state,                      \* static int state
    pc, cur,                    \* the packet in hand: its node
    sentNull,                   \* a null pointer was given to monitor_push
    reused,                     \* the connections that began a mail in one handed on
    twice                       \* such a mail was handed on again

nodeVars == <<isncomplete, mail, type>>
callVars == <<pc, cur>>
historyVars == <<reused, twice>>
vars == <<nodeVars, state, callVars, sentNull, historyVars, lifeVars>>

TypeOK ==
    /\ isncomplete \in [Conns -> BOOLEAN]
    /\ type \in [Conns -> Kinds]
    /\ state \in States
    /\ pc \in {"deq", "mime", "header", "content", "push"}
    /\ cur \in Conns \cup {None} /\ (pc # "deq" => cur # None)
    /\ sentNull \in BOOLEAN
    /\ reused \subseteq Conns /\ twice \in BOOLEAN
    /\ HolderTypeOK

Init ==
    /\ isncomplete = [c \in Conns |-> FALSE]
    /\ type = [c \in Conns |-> "text"]
    /\ state = "start"
    /\ pc = "deq" /\ cur = None
    /\ sentNull = FALSE
    /\ reused = {} /\ twice = FALSE
    /\ HolderInit

------------------------------------------------------------------------------
(* parse: what the three protocols make of a packet.  Each either drops it,  *)
(* or passes it to parse_mime as a further or as the last part of a mail.    *)

Drop == pc' = "deq" /\ cur' = None
\* Passed on only while the node is in the middle of a mail.
Continue(c, incomplete) == IF incomplete THEN pc' = "mime" /\ cur' = c ELSE Drop

\* A packet that begins with DATA; any other client packet.
SmtpData(c) ==
    /\ pc = "deq" /\ c \in Smtp
    /\ isncomplete' = [isncomplete EXCEPT ![c] = TRUE]
    /\ Forget(c) /\ Drop
    /\ UNCHANGED <<type, state, sentNull, historyVars>>
SmtpText(c) ==
    /\ pc = "deq" /\ c \in Smtp
    /\ Continue(c, isncomplete[c])
    /\ UNCHANGED <<nodeVars, state, sentNull, historyVars, lifeVars>>

\* "* n FETCH (... BODY[] {n}"; it may end the mail as well.  When the tag in
\* its last line has more than three characters the closing bracket is missed
\* and nothing is parsed.
ImapFetch(c) ==
    /\ pc = "deq" /\ c \in Imap
    /\ isncomplete' = [isncomplete EXCEPT ![c] = TRUE]
    /\ Forget(c)
    /\ \/ Continue(c, TRUE)
       \/ pc' = "push" /\ cur' = c
    /\ UNCHANGED <<type, state, sentNull, historyVars>>
\* A later packet; the last one may hold too little to be parsed.
ImapText(c) ==
    /\ pc = "deq" /\ c \in Imap
    /\ \/ Continue(c, isncomplete[c])
       \/ isncomplete[c] /\ pc' = "push" /\ cur' = c
    /\ UNCHANGED <<nodeVars, state, sentNull, historyVars, lifeVars>>

\* "+OK n octets" begins a mail, and leaves node->mail as it is: the packets
\* that follow go into the mail before, unless the client sent another command
\* that was answered between the two.
PopOctets(c) ==
    /\ pc = "deq" /\ c \in Pop3
    /\ isncomplete' = [isncomplete EXCEPT ![c] = TRUE]
    /\ reused' = reused \cup {d \in {c} : mail[d] # None /\ ~Owns(d)}
    /\ Drop
    /\ UNCHANGED <<mail, type, state, sentNull, twice, lifeVars>>
\* Any other +OK forgets the mail, and is then read like text.
PopOk(c) ==
    /\ pc = "deq" /\ c \in Pop3
    /\ Forget(c)
    /\ reused' = reused \ {c}
    /\ Continue(c, isncomplete[c])
    /\ UNCHANGED <<isncomplete, type, state, sentNull, twice>>
PopText(c) ==
    /\ pc = "deq" /\ c \in Pop3
    /\ Continue(c, isncomplete[c])
    /\ UNCHANGED <<nodeVars, state, sentNull, historyVars, lifeVars>>

\* MSG_CLOSE: Mhash_del, with the mail the node refers to.  The next node of
\* the connection has the content type some earlier node left in its memory.
Close(c) ==
    /\ pc = "deq"
    /\ Forget(c)
    /\ isncomplete' = [isncomplete EXCEPT ![c] = FALSE]
    /\ \E k \in Kinds : type' = [type EXCEPT ![c] = k]
    /\ reused' = reused \ {c}
    /\ Drop
    /\ UNCHANGED <<state, sentNull, twice>>

------------------------------------------------------------------------------
(* parse_mime and parse_content, called with node cur *)

mine == mail[cur]

\* The mail is given to the log or the monitor thread: the second time when it
\* is one that was handed on before.
Block == LogPush(cur) /\ twice' = (cur \in reused)
Submit == MonitorPush(cur) /\ twice' = (cur \in reused)
Keep == UNCHANGED <<twice, lifeVars>>

\* Faulty: a mail that failed or was blocked is continued.
ReturnGoesOn(ok) ==
    /\ UNCHANGED isncomplete
    /\ \/ ok /\ pc' = "push" /\ UNCHANGED cur
       \/ Drop

\* Back in parse with flag = 0 or flag < 0: a mail that ended well is pushed,
\* one that failed or was blocked is not continued.  Whether the
\* packet ends its mail is chosen here, where it is first asked.
Return(ok) ==
    /\ isncomplete' = [isncomplete EXCEPT ![cur] = @ /\ ok]
    /\ \/ ok /\ pc' = "push" /\ UNCHANGED cur
       \/ Drop

\* if (node->mail == NULL): a new mail.  Without memory the answer is an error.
Alloc ==
    /\ pc = "mime" /\ mine = None
    /\ \/ \E n \in Mails :
            /\ Take(cur, n)
            /\ state' = "start"
            /\ pc' = "header"
            /\ UNCHANGED <<isncomplete, cur>>
       \/ /\ NoMemory
          /\ Return(FALSE)
          /\ UNCHANGED <<mail, state, lifeVars>>
    /\ UNCHANGED <<type, sentNull, historyVars>>

\* Any further packet of the mail goes to parse_content at once.
Resume ==
    /\ pc = "mime" /\ mine # None
    /\ pc' = "content"
    /\ UNCHANGED <<nodeVars, state, cur, sentNull, historyVars, lifeVars>>

\* From, To and Subject: all found, one not found, or one of them blocked.
Header ==
    /\ pc = "header"
    /\ \/ pc' = "content" /\ Keep /\ UNCHANGED <<isncomplete, cur>>
       \/ Return(FALSE) /\ Keep
       \/ Return(FALSE) /\ Block
    /\ UNCHANGED <<mail, type, state, sentNull, reused>>

\* The ways one packet can take parse_content, from each state: the state it
\* answers, the content type it leaves in the node, and what it does with the
\* mail.  A case of the switch falls into the next one unless it leaves.
Way(s, k, do) == [state |-> s, type |-> k, do |-> do]
Killed(k) == Way("dead", k, "log_push")
\* Faulty: the parser goes on after it found the end of the text.
PushedGoesOn(k) == Way("contentmid", k, "monitor_push")
Pushed(k) == Way("dead", k, "monitor_push")
Error(k) == Way("dead", k, "nothing")
Finished(s, k) == Way(s, k, "nothing")

\* A realloc that fails is an error.
FromAttachMid(k) == {Error(k), Killed(k), Pushed(k), Finished("attachmid", k)}
FromAttach(k) == {Finished("attach", k)} \cup FromAttachMid(k)
FromContentMid(k) ==
    {Error(k), Killed(k)} \cup
    CASE k = "text" -> {Finished("contentmid", k)}
      [] k = "alternative" -> {Pushed(k), Finished("contentmid", k)}
      [] k = "mixed" -> FromAttach(k)
FromNoContent(k) ==
    FromContentMid(k) \cup {Finished("nocontent", j) : j \in {k} \ {"text"}}
FromStart(k) ==
    {Finished("start", k)} \cup UNION {FromNoContent(j) : j \in Kinds}
Ways(s, k) ==
    CASE s = "start" -> FromStart(k)
      [] s = "nocontent" -> FromNoContent(k)
      [] s = "contentmid" -> FromContentMid(k)
      [] s = "attach" -> FromAttach(k)
      [] s = "attachmid" -> FromAttachMid(k)
      [] s = "dead" -> {Error(k)}

Content ==
    /\ pc = "content"
    /\ \E way \in Ways(state, type[cur]) :
         /\ state' = way.state
         /\ type' = [type EXCEPT ![cur] = way.type]
         /\ \/ way.do = "log_push" /\ Block
            \/ way.do = "monitor_push" /\ Submit
            \/ way.do = "nothing" /\ Keep
         /\ Return(way.state # "dead")
    /\ UNCHANGED <<mail, sentNull, reused>>

\* monitor_push of the mail that ended, and isncomplete = FALSE; the node keeps
\* pointing to the mail.
Push ==
    /\ pc = "push"
    /\ isncomplete' = [isncomplete EXCEPT ![cur] = FALSE]
    /\ Drop
    /\ \/ mine # None /\ Submit /\ UNCHANGED sentNull
       \/ mine = None /\ sentNull' = TRUE /\ Keep
    /\ UNCHANGED <<mail, type, state, reused>>

Packet(c) ==
    \/ SmtpData(c) \/ SmtpText(c) \/ ImapFetch(c) \/ ImapText(c)
    \/ PopOctets(c) \/ PopOk(c) \/ PopText(c) \/ Close(c)
Parse == Alloc \/ Resume \/ Header \/ Content \/ Push
Downstream ==
    /\ HolderDownstream
    /\ UNCHANGED <<isncomplete, type, state, callVars, sentNull, historyVars>>
\* The assertion of the monitor thread ends the process; a mail handed on twice
\* is not followed.
Ended == (sentNull \/ twice) /\ UNCHANGED vars
Next == \/ ~sentNull /\ ~twice /\ ((\E c \in Conns : Packet(c)) \/ Parse \/ Downstream)
        \/ Ended
Spec == Init /\ [][Next]_vars

------------------------------------------------------------------------------
\* A connection in the middle of a mail owns it: no packet is written into a
\* mail that is with the monitor or a log thread or that was given back, and
\* no two connections fill the same mail.  The one exception is a POP3
\* connection that began its mail in one already handed on.  So neither a lost
\* push, nor a failure, nor the one parser state of all connections can lead
\* there, and other connections own their mails while such a connection goes
\* on, until it hands on what it wrote into.
OwnMail == twice \/ \A c \in Conns \ reused : isncomplete[c] /\ mail[c] # None => Owns(c)

\* A mail is handed on once: blocked, or submitted to the monitor, or neither,
\* and never after it was handed on or given back, up to the first mail that a
\* POP3 connection began in one already handed on and that is handed on again.
LifecycleKept == Life!Init /\ [][Life!Next \/ twice']_Life!vars
=============================================================================
