-------------------------------- MODULE Spam --------------------------------
(***************************************************************************)
(* The spam filter of src/spam.c over one start and stop of the service    *)
(* after another: its words are read from a file and written back to it.   *)
(* Two monitor threads call spam_filter at the same time; they share the   *)
(* one cursor of the table and the buffer filter_word.  The steps of a     *)
(* walk are the accesses to the cursor that the -O1 build makes: a value   *)
(* just stored is not read again, except for *value after *key was stored. *)
(* Accesses take effect in the order they are made.                        *)
(*                                                                         *)
(* Of the verdict only what it is computed from is kept, and only while a  *)
(* filter runs alone: which words of the mail were counted, and whether    *)
(* one was counted twice or with what is known of another.                 *)
(***************************************************************************)
EXTENDS Integers, Sequences, FiniteSets

CONSTANTS Words, Size, Hash, NULL,   \* as in module Shash
          Monitors,    \* the threads that filter
          Mails,       \* the words of each mail that something follows: the
                       \* last one is dropped if it ends the text
          Lessons,     \* the words of each file to train on
          File,        \* the words of the file at first
          MaxLines,    \* bound: a longer file is not loaded
          Mixture      \* what two writers leave in filter_word: no known word

INSTANCE Shash

ASSUME SizeAssumption == Size \in Nat \ {0} /\ Hash \in [Words -> 0..Size - 1]
ASSUME MailAssumption == Mails \cup Lessons \cup {File} \subseteq Seq(Words)
ASSUME MixtureAssumption == Mixture \notin Words \cup {NULL}
ASSUME NullAssumption == NULL \notin Words \cup (Nat \X Nat)   \* no word, no node

VARIABLES
    file, table,
    cur_index, cur_node,   \* the cursor of the table
    filter_word,
    phase,      \* of the service: off, ready after spam_init, running
    mon,        \* each monitor thread, a record:
                \*   pc; mail, and todo, its words that were not looked for yet;
                \*   test, the words inserted into its own table;
                \*   reg, idx, the node and the index it has just read;
                \*   key, what Shash_walk returned;
                \*   counted, wrong: the words counted, was one counted wrongly;
                \*   alone, history: no other filter ran since this one began
    raced       \* history: two filters have run at once

cursor == <<cur_index, cur_node>>
spamVars == <<file, table, cursor, filter_word, phase, mon, raced>>

Nodes == {NULL} \cup Places(table)
Pcs == {"idle", "token", "insert", "rewalk", "reindex", "node", "next", "index",
        "bump", "list", "value", "count", "done", "crashed"}
Found == Words \cup {Mixture}
Filters == [pc : Pcs, mail : Mails \cup {<< >>}, todo : Seq(Words), test : SUBSET Found,
            reg : Nodes, idx : -1..Size, key : Words \cup {NULL},
            counted : SUBSET Words, wrong : BOOLEAN, alone : BOOLEAN]

SpamTypeOK ==
    /\ file \in Seq(Words) /\ table \in [0..Size - 1 -> Seq(Words)]
    /\ cur_index \in -1..Size /\ cur_node \in Nodes
    /\ filter_word \in Found \cup {NULL}
    /\ phase \in {"off", "ready", "running"}
    /\ mon \in [Monitors -> Filters]
    /\ raced \in BOOLEAN

\* A thread that filters the mail text, before its first step.
Starting(text, by_itself) ==
    [pc |-> "token", mail |-> IF by_itself THEN text ELSE << >>, todo |-> text, test |-> {}, reg |-> NULL,
     idx |-> 0, key |-> NULL, counted |-> {}, wrong |-> FALSE, alone |-> by_itself]
Idle == [Starting(<< >>, TRUE) EXCEPT !.pc = "idle"]

SpamInit ==
    /\ file = File /\ table = Shash_new
    /\ cur_index = 0 /\ cur_node = NULL /\ filter_word = NULL
    /\ phase = "off" /\ mon = [m \in Monitors |-> Idle] /\ raced = FALSE

Crashed == \E m \in Monitors : mon[m].pc = "crashed"
Busy(m) == mon[m].pc \notin {"idle", "done", "crashed"}

------------------------------------------------------------------------------
(* The main thread *)

\* Faulty: the words are inserted into the table of the start before.
LoadIntoOld ==
    /\ phase = "off" /\ Len(file) <= MaxLines
    /\ table' = Inserted(table, file, FALSE)
    /\ cur_index' = 0 /\ cur_node' = NULL
    /\ phase' = "ready"
    /\ UNCHANGED <<file, filter_word, mon, raced>>

\* spam_init: a new table, its cursor on bucket 0, and each line of the file.
Load ==
    /\ phase = "off" /\ Len(file) <= MaxLines
    /\ table' = Inserted(Shash_new, file, FALSE)
    /\ cur_index' = 0 /\ cur_node' = NULL
    /\ phase' = "ready"
    /\ UNCHANGED <<file, filter_word, mon, raced>>

\* spam_train, from the test program: words that are not there are inserted.
\* The cursor stays with its node.
Train(lesson) ==
    /\ phase = "ready"
    /\ table' = Inserted(table, lesson, TRUE)
    /\ cur_node' = Moved(table, table', cur_node)
    /\ UNCHANGED <<file, cur_index, filter_word, phase, mon, raced>>

Run ==
    /\ phase = "ready"
    /\ phase' = "running"
    /\ UNCHANGED <<file, table, cursor, filter_word, mon, raced>>

\* The monitor threads are cancelled, wherever they are, and joined.
StopMonitors ==
    /\ phase = "running" /\ ~Crashed
    /\ phase' = "ready" /\ mon' = [m \in Monitors |-> Idle]
    /\ UNCHANGED <<file, table, cursor, filter_word, raced>>

\* spam_close: the words are written from where the cursor is, without
\* Shash_rewalk; then the table is freed.
Save ==
    /\ phase = "ready"
    /\ file' = Remaining(table, cur_index, cur_node)
    /\ phase' = "off"
    /\ UNCHANGED <<table, cursor, filter_word, mon, raced>>

------------------------------------------------------------------------------
(* A monitor thread: spam_filter *)

Goto(m, from, to) == mon[m].pc = from /\ mon' = [mon EXCEPT ![m].pc = to]

\* What it counts is of no interest any more: it does not run alone.
Disturbed(thread) == [thread EXCEPT !.alone = FALSE, !.mail = << >>,
                                    !.counted = {}, !.wrong = FALSE]

BeginFilter(m) ==
    /\ ~Busy(m)
    /\ \E text \in Mails :
         LET others == {o \in Monitors \ {m} : Busy(o)}
         IN  /\ mon' = [o \in Monitors |->
                          IF o = m THEN Starting(text, others = {})
                          ELSE IF o \in others THEN Disturbed(mon[o]) ELSE mon[o]]
             /\ raced' = (raced \/ others # {})
    /\ UNCHANGED <<file, table, cursor, filter_word, phase>>

\* get_token_string writes the next word; a second writer can spoil it.
Token(m) ==
    /\ mon[m].pc = "token" /\ mon[m].todo # << >>
    /\ \/ filter_word' = Head(mon[m].todo)
       \/ (\E o \in Monitors \ {m} : mon[o].pc \in {"token", "insert"})
          /\ filter_word' = Mixture
    /\ mon' = [mon EXCEPT ![m].todo = Tail(@), ![m].pc = "insert"]
    /\ UNCHANGED <<file, table, cursor, phase, raced>>

\* Shash_insert(test, word), where word is filter_word.
Insert(m) ==
    /\ mon[m].pc = "insert"
    /\ mon' = [mon EXCEPT ![m].test = @ \cup {filter_word}, ![m].pc = "token"]
    /\ UNCHANGED <<file, table, cursor, filter_word, phase, raced>>

\* Faulty: the walk goes on from where the last one ended.
TokensEndNoRewalk(m) ==
    /\ mon[m].todo = << >> /\ Goto(m, "token", "node")
    /\ UNCHANGED <<file, table, cursor, filter_word, phase, raced>>

TokensEnd(m) ==
    /\ mon[m].todo = << >> /\ Goto(m, "token", "rewalk")
    /\ UNCHANGED <<file, table, cursor, filter_word, phase, raced>>

\* Shash_rewalk, two stores.
Rewalk(m) ==
    /\ \/ Goto(m, "rewalk", "reindex") /\ cur_node' = NULL /\ UNCHANGED cur_index
       \/ Goto(m, "reindex", "node") /\ cur_index' = -1 /\ UNCHANGED cur_node
    /\ UNCHANGED <<file, table, filter_word, phase, raced>>

\* Shash_walk reads the current node; without one it looks for a bucket.
ReadNode(m) ==
    /\ mon[m].pc = "node"
    /\ mon' = [mon EXCEPT ![m].reg = cur_node,
                          ![m].pc = IF cur_node = NULL THEN "index" ELSE "next"]
    /\ UNCHANGED <<file, table, cursor, filter_word, phase, raced>>

\* A node is stored as the current one: it is returned, or the search goes on.
StoreNode(m, node, otherwise) ==
    /\ cur_node' = node
    /\ mon' = [mon EXCEPT
                 ![m].pc = IF node = NULL THEN otherwise ELSE "value",
                 ![m].key = IF node = NULL THEN NULL ELSE KeyOf(table, node),
                 ![m].reg = NULL, ![m].idx = 0]
    /\ UNCHANGED <<file, table, cur_index, filter_word, phase, raced>>

StoreNext(m) == mon[m].pc = "next" /\ StoreNode(m, NextOf(table, mon[m].reg), "node")

\* Faulty: the first node of a bucket is returned and not made the current one.
StoreListNot(m) ==
    /\ mon[m].pc = "list"
    /\ LET node == ListOf(table, mon[m].idx)
       IN  mon' = [mon EXCEPT
                    ![m].pc = IF node = NULL THEN "index" ELSE "value",
                    ![m].key = IF node = NULL THEN NULL ELSE KeyOf(table, node),
                    ![m].idx = 0]
    /\ UNCHANGED <<file, table, cursor, filter_word, phase, raced>>

StoreList(m) == mon[m].pc = "list" /\ StoreNode(m, ListOf(table, mon[m].idx), "index")

ReadIndex(m) ==
    /\ mon[m].pc = "index"
    /\ mon' = [mon EXCEPT ![m].idx = cur_index, ![m].pc = "bump"]
    /\ UNCHANGED <<file, table, cursor, filter_word, phase, raced>>

\* Its own table is freed.
Ended(thread) == [thread EXCEPT !.pc = "done", !.test = {}, !.idx = 0]

\* Faulty: the index is advanced to the first bucket only.
StoreIndexSame(m) ==
    /\ mon[m].pc = "bump"
    /\ cur_index' = IF mon[m].idx >= 0 THEN mon[m].idx ELSE 0
    /\ mon' = [mon EXCEPT ![m] = IF cur_index' > Size - 1 THEN Ended(@)
                                 ELSE [@ EXCEPT !.idx = cur_index', !.pc = "list"]]
    /\ UNCHANGED <<file, table, cur_node, filter_word, phase, raced>>

\* ++hash->cur_index is stored; behind the last bucket the walk is over, and
\* one index is like another.
StoreIndex(m) ==
    /\ mon[m].pc = "bump"
    /\ cur_index' = IF mon[m].idx = Size THEN Size ELSE mon[m].idx + 1
    /\ mon' = [mon EXCEPT ![m] = IF cur_index' > Size - 1 THEN Ended(@)
                                 ELSE [@ EXCEPT !.idx = cur_index', !.pc = "list"]]
    /\ UNCHANGED <<file, table, cur_node, filter_word, phase, raced>>

\* *value is computed from the current node, read once more.
ReadValue(m) ==
    /\ mon[m].pc = "value"
    /\ mon' = [mon EXCEPT ![m].reg = cur_node, ![m].pc = "count"]
    /\ UNCHANGED <<file, table, cursor, filter_word, phase, raced>>

\* A word of the mail enters into the probability with what value points to.
Count(m) ==
    /\ mon[m].pc = "count"
    /\ LET word == mon[m].key
           node == mon[m].reg
           next == [mon[m] EXCEPT !.pc = "node", !.key = NULL, !.reg = NULL]
       IN  mon' = [mon EXCEPT ![m] =
               IF word \in mon[m].test /\ node = NULL THEN [@ EXCEPT !.pc = "crashed"]
               ELSE IF word \in mon[m].test /\ mon[m].alone
               THEN [next EXCEPT !.counted = @ \cup {word},
                                 !.wrong = \/ @ \/ word \in mon[m].counted
                                           \/ KeyOf(table, node) # word]
               ELSE next]
    /\ UNCHANGED <<file, table, cursor, filter_word, phase, raced>>

Filter(m) ==
    /\ phase = "running" /\ ~Crashed
    /\ \/ Token(m) \/ Insert(m) \/ TokensEnd(m) \/ Rewalk(m) \/ ReadNode(m)
       \/ StoreNext(m) \/ ReadIndex(m) \/ StoreIndex(m) \/ StoreList(m)
       \/ ReadValue(m) \/ Count(m)

SpamNext ==
    \/ Load \/ (\E lesson \in Lessons : Train(lesson)) \/ Run \/ StopMonitors \/ Save
    \/ \E m \in Monitors : \/ phase = "running" /\ ~Crashed /\ BeginFilter(m)
                           \/ Filter(m)

SpamSpec == SpamInit /\ [][SpamNext]_spamVars

\* The threads are run; mails need not come, and the service need not stop.
SpamFairSpec == SpamSpec /\ \A m \in Monitors : WF_spamVars(Filter(m))

------------------------------------------------------------------------------
\* A filter that ran alone has counted each known word of its mail, once and
\* with its own numbers, whatever filters that ran at once did to the cursor
\* before; the table has each word once.
AloneRight ==
    \A m \in Monitors :
        mon[m].pc = "done" /\ mon[m].alone /\ IsInjective(Entries(table)) =>
            /\ ~mon[m].wrong
            /\ mon[m].counted = {w \in Range(mon[m].mail) : Shash_find(table, w)}

\* The program follows a pointer that is none only if two filters ran at once.
CrashOnlyIfRaced == \A m \in Monitors : mon[m].pc = "crashed" => ~mon[m].alone

\* No stop and start makes a word appear twice in the file, where it would count
\* twice from then on, unless two filters have run at once.
SavedOnce == raced \/ IsInjective(file)

\* A filter ends, if only from some time on no other runs.
FilterEnds ==
    \A m \in Monitors :
        []<>(~Busy(m) \/ Crashed \/ \E o \in Monitors \ {m} : Busy(o))
=============================================================================
