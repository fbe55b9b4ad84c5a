----------------------------- MODULE Automaton -----------------------------
(***************************************************************************)
(* The keyword automaton of utils/match.c (Aho and Corasick): the words    *)
(* are added, am_build makes the tree and turns it, node by node from the  *)
(* root down, into a complete table, and am_match walks the table.         *)
(*                                                                         *)
(* The table has a column for each letter that occurs in a word; in every  *)
(* other column it is 0 throughout.  Memory is there.                      *)
(***************************************************************************)
EXTENDS Integers, Sequences, SequencesExt

CONSTANTS Words,       \* the words of the database, each with its GBK form
          MaxWords     \* bound: the words of one automaton

ASSUME WordsAssumption == \A w \in Words : w \in Seq(1..255) /\ w # << >>

VARIABLES
    word_vector,   \* am->word_vector, the words in the order they were added
    chart,         \* am->chart, by node and letter; column END is the word
    queue, fail,   \* of am_build: the nodes to visit, and the failure pointers
    head, tail,    \*   of the nodes, both indexed by the place in the queue
    am             \* adding words, building, or built

amVars == <<word_vector, chart, queue, fail, head, tail, am>>

MAX_CHARS == 256
END == MAX_CHARS
Letters == UNION {ToSet(w) : w \in Words}
\* The loops over i take the letters in their order; 0 is where they begin.
Before(c) == Max({i \in Letters \cup {0} : i < c})
LastLetter == Max(Letters \cup {0})
words_len == LET sum[i \in 0..Len(word_vector)] ==
                   IF i = 0 THEN 0 ELSE sum[i - 1] + Len(word_vector[i])
             IN  sum[Len(word_vector)]
Zeros(n) == [i \in 0..n |-> 0]

AutomatonInit ==
    /\ word_vector = << >> /\ am = "adding"
    /\ chart = << >>
    /\ queue = << >> /\ fail = << >> /\ head = 0 /\ tail = 0

\* am_addword, called by match_build_from_db.
AddWord(w) ==
    /\ am = "adding" /\ Len(word_vector) < MaxWords
    /\ word_vector' = Append(word_vector, w)
    /\ UNCHANGED <<chart, queue, fail, head, tail, am>>

------------------------------------------------------------------------------
(* am_build *)

\* One letter of a word: the tree t, with n, the node reached, and k, the last
\* node in use.
Descend(t, c) ==
    IF t.chart[t.n][c] = 0
    THEN [chart |-> [t.chart EXCEPT ![t.n][c] = t.k + 1], n |-> t.k + 1, k |-> t.k + 1]
    ELSE [t EXCEPT !.n = t.chart[t.n][c]]
\* A word from the root down, and its number at the node where it ends.
Enter(t, i) ==
    LET w == word_vector[i]
        down[j \in 0..Len(w)] == IF j = 0 THEN [t EXCEPT !.n = 0] ELSE Descend(down[j - 1], w[j])
    IN  [down[Len(w)] EXCEPT !.chart[down[Len(w)].n][END] = i]
Tree ==
    LET empty == [node \in 0..words_len |-> [c \in Letters \cup {END} |-> 0]]
        tree[i \in 0..Len(word_vector)] ==
          IF i = 0 THEN [chart |-> empty, n |-> 0, k |-> 0] ELSE Enter(tree[i - 1], i)
    IN  tree[Len(word_vector)].chart

\* A child of the root is put into the queue.
FirstLetter(b, c) ==
    IF b.chart[0][c] # 0
    THEN [b EXCEPT !.queue[b.tail] = b.chart[0][c], !.tail = b.tail + 1]
    ELSE b

\* The children of the root fill the queue from its first place on.  (If every
\* word is one letter and no two are equal, tail is words_len after this, one
\* place behind the end.)
BuildTree ==
    /\ am = "adding" /\ word_vector # << >>
    /\ LET after[c \in Letters \cup {0}] ==
             IF c = 0 THEN [chart |-> Tree, queue |-> Zeros(words_len), tail |-> 0]
             ELSE FirstLetter(after[Before(c)], c)
           b == after[LastLetter]
       IN  chart' = b.chart /\ queue' = b.queue /\ tail' = b.tail
    /\ fail' = Zeros(words_len) /\ head' = 0
    /\ am' = "building"
    /\ UNCHANGED word_vector

\* Faulty: every failure pointer is the root.
LetterToRoot(b, c) ==
    LET node == b.queue[head]
    IN  IF b.chart[node][c] # 0
        THEN [b EXCEPT !.queue[b.tail] = b.chart[node][c],
                       !.fail[b.tail] = 0,
                       !.tail = (b.tail + 1) % words_len]
        ELSE [b EXCEPT !.chart[node][c] = b.chart[0][c]]

\* One letter of the node at the head: a child is put into the queue, and its
\* failure pointer is where that of the node leads; no child, and the entry
\* becomes that of the failure pointer.
Letter(b, c) ==
    LET node == b.queue[head]
        next == b.chart[b.fail[head]][c]
    IN  IF b.chart[node][c] # 0
        THEN [b EXCEPT !.queue[b.tail] = b.chart[node][c],
                       !.fail[b.tail] = next,
                       !.tail = (b.tail + 1) % words_len]
        ELSE [b EXCEPT !.chart[node][c] = next]

VisitNode ==
    LET after[c \in Letters \cup {0}] ==
          IF c = 0 THEN [chart |-> chart, queue |-> queue, fail |-> fail, tail |-> tail]
          ELSE Letter(after[Before(c)], c)
        b == after[LastLetter]
    IN  chart' = b.chart /\ queue' = b.queue /\ fail' = b.fail /\ tail' = b.tail

\* Faulty: the head does not wrap at the end of the queue.
BuildNodeNoWrap ==
    /\ am = "building" /\ head # tail /\ head < words_len
    /\ VisitNode
    /\ head' = head + 1
    /\ UNCHANGED <<word_vector, am>>

BuildNode ==
    /\ am = "building" /\ head # tail
    /\ VisitNode
    /\ head' = (head + 1) % words_len
    /\ UNCHANGED <<word_vector, am>>

BuildReturn ==
    /\ am = "building" /\ head = tail
    /\ am' = "built"
    /\ UNCHANGED <<word_vector, chart, queue, fail, head, tail>>

AutomatonNext == (\E w \in Words : AddWord(w)) \/ BuildTree \/ BuildNode \/ BuildReturn

------------------------------------------------------------------------------
(* am_match *)

\* One character of the string, unless a word was found before it.
Step(w, c) ==
    IF w.found # 0 THEN w
    ELSE LET state == IF c \in Letters THEN chart[w.state][c] ELSE 0
         IN  [state |-> state, found |-> chart[state][END]]

\* The word at which the walk over str stops, 0 if at none.
am_match(str) ==
    LET walk[p \in 0..Len(str)] ==
          IF p = 0 THEN [state |-> 0, found |-> 0] ELSE Step(walk[p - 1], str[p])
    IN  walk[Len(str)].found

(***************************************************************************)
(* What the walk finds, said without the table.  Nodes are the beginnings  *)
(* of words.  A word that ends inside of a longer one, where the walk is   *)
(* in the middle of the longer one, is hidden: the table has a word at a   *)
(* node only if the node is that word itself.                              *)
(***************************************************************************)
Nodes == UNION {Prefixes(word_vector[i]) : i \in DOMAIN word_vector}
Hidden(w) == \E v \in Nodes \ ToSet(word_vector) : IsStrictSuffix(w, v)
EndsAt(str, p) == {w \in ToSet(word_vector) : IsSuffix(w, SubSeq(str, 1, p))}

\* found is the longest word that ends where one does first, hidden ones aside.
FindsFirst(str, found) ==
    LET clear(p) == \A w \in EndsAt(str, p) : Hidden(w)
    IN  IF found = 0
        THEN \A p \in 1..Len(str) : clear(p)
        ELSE LET w == word_vector[found]
             IN  \E p \in 1..Len(str) :
                   /\ w \in EndsAt(str, p)
                   /\ \A v \in EndsAt(str, p) : Len(v) <= Len(w)
                   /\ \A r \in 1..p - 1 : clear(r)

\* am_build ends.
BuildEnds == am = "building" ~> am = "built"
==============================================================================
