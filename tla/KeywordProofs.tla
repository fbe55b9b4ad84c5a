--------------------------- MODULE KeywordProofs ---------------------------
(***************************************************************************)
(* Proof that the keywords of a mail are found, for all keywords, texts    *)
(* and ways to send them: FindsFirstKeyword.                               *)
(*                                                                         *)
(* It is the argument of Aho and Corasick.  The tree of the words has a    *)
(* node for each beginning of a word (Trie).  am_build visits the nodes in *)
(* the order of their length; what Building says is that the row of a node *)
(* that was visited is complete: each entry is the longest node that ends  *)
(* the word read so far (Best), and the failure pointer of a node that     *)
(* waits is the longest node that ends it without being it.  When the      *)
(* queue is empty every row is complete (Built), so that am_match is at    *)
(* the longest node that ends the text read (Walked) and stops at the      *)
(* first word that is not hidden.  What is searched are strings, whatever  *)
(* the decoders are given (the last part).                                 *)
(*                                                                         *)
(* The recursive functions of the model are shown to exist, and to keep    *)
(* what each of their steps keeps, by the least number at which they would *)
(* not.                                                                    *)
(***************************************************************************)
EXTENDS Content, SequenceTheorems, FiniteSetTheorems, WellFoundedInduction, TLAPS

-----------------------------------------------------------------------------
(* Strings and their ends. *)

Str == Seq(Int)
Suf(s, t) == Len(s) <= Len(t) /\ \A i \in 1..Len(s) : s[i] = t[(Len(t) - Len(s)) + i]

LEMMA AppendIs ==
    ASSUME NEW s \in Str, NEW c \in Int, NEW n \in Nat, n = Len(s)
    PROVE  /\ Append(s, c) \in Str /\ Len(Append(s, c)) = n + 1
           /\ \A i \in 1..n : Append(s, c)[i] = s[i]
           /\ Append(s, c)[n + 1] = c
BY AppendProperties DEF Str

LEMMA SufEmpty ==
    ASSUME NEW s \in Str
    PROVE  << >> \in Str /\ Suf(<< >>, s) /\ Suf(s, s) /\ (Suf(s, << >>) => s = << >>)
<1>1. PICK n \in Nat : n = Len(s)
  BY DEF Str
<1>2. << >> \in Str /\ Len(<< >>) = 0
  BY DEF Str
<1>3. Suf(<< >>, s)
  BY <1>1, <1>2 DEF Suf
<1>4. Suf(s, s)
  BY <1>1 DEF Suf
<1>5. ASSUME n = 0 PROVE s = << >>
  BY <1>1, <1>5, EmptySeq DEF Str
<1>6. Suf(s, << >>) => n = 0
  BY <1>1, <1>2 DEF Suf
<1>7. QED BY <1>2, <1>3, <1>4, <1>5, <1>6

LEMMA SufTrans ==
    ASSUME NEW s \in Str, NEW t \in Str, NEW u \in Str, Suf(s, t), Suf(t, u)
    PROVE  Suf(s, u)
<1>1. PICK a \in Nat, b \in Nat, c \in Nat : a = Len(s) /\ b = Len(t) /\ c = Len(u)
  BY DEF Str
<1>2. /\ a <= b /\ \A i \in 1..a : s[i] = t[(b - a) + i]
      /\ b <= c /\ \A i \in 1..b : t[i] = u[(c - b) + i]
  BY <1>1 DEF Suf
<1>3. a <= c /\ \A i \in 1..a : s[i] = u[(c - a) + i]
  <2> SUFFICES ASSUME NEW i \in 1..a PROVE s[i] = u[(c - a) + i]
    BY <1>2
  <2>1. (b - a) + i \in 1..b /\ (c - b) + ((b - a) + i) = (c - a) + i
    BY <1>2
  <2>2. QED BY <1>2, <2>1
<1>4. QED BY <1>1, <1>3 DEF Suf

LEMMA SufSame ==
    ASSUME NEW s \in Str, NEW t \in Str, Suf(s, t), Len(t) <= Len(s)
    PROVE  s = t
<1>1. PICK a \in Nat, b \in Nat : a = Len(s) /\ b = Len(t)
  BY DEF Str
<1>2. a = b /\ \A i \in 1..a : s[i] = t[(b - a) + i]
  BY <1>1 DEF Suf
<1>3. \A i \in 1..a : s[i] = t[i]
  BY <1>2
<1>4. QED BY <1>1, <1>2, <1>3, SeqEqual DEF Str

\* Of two ends of a string, the shorter is an end of the longer.
LEMMA SufOf ==
    ASSUME NEW s \in Str, NEW t \in Str, NEW u \in Str, Suf(s, u), Suf(t, u), Len(s) <= Len(t)
    PROVE  Suf(s, t)
<1>1. PICK a \in Nat, b \in Nat, c \in Nat : a = Len(s) /\ b = Len(t) /\ c = Len(u)
  BY DEF Str
<1>2. /\ a <= b /\ \A i \in 1..a : s[i] = u[(c - a) + i]
      /\ b <= c /\ \A i \in 1..b : t[i] = u[(c - b) + i]
  BY <1>1 DEF Suf
<1>3. ASSUME NEW i \in 1..a PROVE s[i] = t[(b - a) + i]
  <2>1. (b - a) + i \in 1..b /\ (c - b) + ((b - a) + i) = (c - a) + i
    BY <1>2
  <2>2. QED BY <1>2, <2>1
<1>4. QED BY <1>1, <1>2, <1>3 DEF Suf

LEMMA SufAppend ==
    ASSUME NEW s \in Str, NEW t \in Str, NEW c \in Int, NEW d \in Int
    PROVE  Suf(Append(s, c), Append(t, d)) <=> c = d /\ Suf(s, t)
<1>1. PICK a \in Nat, b \in Nat : a = Len(s) /\ b = Len(t)
  BY DEF Str
<1>2. PICK sc \in Str, td \in Str : sc = Append(s, c) /\ td = Append(t, d)
  BY <1>1, AppendIs
<1>3. /\ Len(sc) = a + 1 /\ sc[a + 1] = c /\ \A i \in 1..a : sc[i] = s[i]
      /\ Len(td) = b + 1 /\ td[b + 1] = d /\ \A i \in 1..b : td[i] = t[i]
  BY <1>1, <1>2, AppendIs
<1>4. Suf(sc, td) <=> a <= b /\ \A i \in 1..(a + 1) : sc[i] = td[(b - a) + i]
  <2>1. Suf(sc, td) <=> a + 1 <= b + 1 /\ \A i \in 1..(a + 1) : sc[i] = td[((b + 1) - (a + 1)) + i]
    BY <1>3 DEF Suf
  <2>2. (b + 1) - (a + 1) = b - a /\ (a + 1 <= b + 1 <=> a <= b)
    OBVIOUS
  <2>3. QED BY <2>1, <2>2
<1>5. Suf(s, t) <=> a <= b /\ \A i \in 1..a : s[i] = t[(b - a) + i]
  BY <1>1 DEF Suf
<1>6. ASSUME Suf(sc, td) PROVE c = d /\ Suf(s, t)
  <2>1. a <= b /\ a + 1 \in 1..(a + 1) /\ (b - a) + (a + 1) = b + 1
    BY <1>4, <1>6
  <2>2. c = d
    BY <1>3, <1>4, <1>6, <2>1
  <2>3. ASSUME NEW i \in 1..a PROVE s[i] = t[(b - a) + i]
    <3>1. i \in 1..(a + 1) /\ (b - a) + i \in 1..b
      BY <2>1
    <3>2. QED BY <1>3, <1>4, <1>6, <3>1
  <2>4. QED BY <1>5, <2>1, <2>2, <2>3
<1>7. ASSUME c = d, Suf(s, t) PROVE Suf(sc, td)
  <2>1. a <= b
    BY <1>5, <1>7
  <2>2. ASSUME NEW i \in 1..(a + 1) PROVE sc[i] = td[(b - a) + i]
    <3>1. CASE i = a + 1
      <4>1. (b - a) + i = b + 1
        BY <3>1
      <4>2. QED BY <1>3, <1>7, <3>1, <4>1
    <3>2. CASE i \in 1..a
      <4>1. (b - a) + i \in 1..b
        BY <2>1, <3>2
      <4>2. QED BY <1>3, <1>5, <1>7, <3>2, <4>1
    <3>3. QED BY <3>1, <3>2
  <2>3. QED BY <1>4, <2>1, <2>2
<1>8. QED BY <1>2, <1>6, <1>7

LEMMA SufTail ==
    ASSUME NEW s \in Str, NEW t \in Str, t # << >>
    PROVE  /\ Tail(t) \in Str /\ Len(Tail(t)) = Len(t) - 1 /\ Suf(Tail(t), t)
           /\ Suf(s, Tail(t)) <=> Suf(s, t) /\ s # t
<1>1. PICK a \in Nat, b \in Nat : a = Len(s) /\ b = Len(t)
  BY DEF Str
<1>2. PICK u : u = Tail(t)
  OBVIOUS
<1>3. b # 0
  BY <1>1, EmptySeq DEF Str
<1>4. u \in Str /\ Len(u) = b - 1 /\ \A i \in 1..(b - 1) : u[i] = t[i + 1]
  <2>1. Tail(t) \in Str /\ Len(Tail(t)) = Len(t)-1 /\ \A i \in 1 .. Len(Tail(t)) : Tail(t)[i] = t[i+1]
    BY HeadTailProperties DEF Str
  <2>2. QED BY <1>1, <1>2, <2>1
<1>5. Suf(u, t)
  <2>1. b - 1 <= b /\ \A i \in 1..(b - 1) : u[i] = t[(b - (b - 1)) + i]
    <3>1. b - 1 <= b /\ b - (b - 1) = 1 /\ \A i \in 1..(b - 1) : i + 1 = 1 + i
      OBVIOUS
    <3>2. QED BY <1>4, <3>1
  <2>2. QED BY <1>1, <1>4, <2>1 DEF Suf
<1>6. ASSUME Suf(s, u) PROVE Suf(s, t) /\ s # t
  <2>1. a <= b - 1
    BY <1>1, <1>4, <1>6 DEF Suf
  <2>2. QED BY <1>1, <1>3, <1>4, <1>5, <1>6, <2>1, SufTrans
<1>7. ASSUME Suf(s, t), s # t PROVE Suf(s, u)
  <2>1. a <= b /\ ~(b <= a)
    BY <1>1, <1>7, SufSame DEF Suf
  <2>2. QED BY <1>1, <1>4, <1>5, <1>7, <2>1, SufOf
<1>8. QED BY <1>1, <1>2, <1>4, <1>5, <1>6, <1>7

LEMMA SufIs ==
    ASSUME NEW s \in Str, NEW t \in Str
    PROVE  IsSuffix(s, t) <=> Suf(s, t)
<1>1. PICK a \in Nat, b \in Nat : a = Len(s) /\ b = Len(t)
  BY DEF Str
<1>2. PICK rs, rt : rs = Reverse(s) /\ rt = Reverse(t)
  OBVIOUS
<1>3. /\ rs = [i \in 1..a |-> s[(a - i) + 1]] /\ rt = [i \in 1..b |-> t[(b - i) + 1]]
  BY <1>1, <1>2 DEF Reverse
<1>4. /\ Len(rs) = a /\ rs \in Str /\ Len(rt) = b /\ rt \in Str
  <2>1. /\ \A i \in 1..a : (a - i) + 1 \in 1..a /\ s[(a - i) + 1] \in Int
        /\ \A i \in 1..b : (b - i) + 1 \in 1..b /\ t[(b - i) + 1] \in Int
    <3>1. \A n \in Nat : \A i \in 1..n : (n - i) + 1 \in 1..n
      OBVIOUS
    <3>2. /\ \A i \in 1..a : s[i] \in Int
          /\ \A i \in 1..b : t[i] \in Int
      BY <1>1, ElementOfSeq DEF Str
    <3>3. QED BY <3>1, <3>2
  <2>2. rs \in [1..a -> Int] /\ rt \in [1..b -> Int]
    BY <1>3, <2>1
  <2>3. QED BY <2>2 DEF Str
<1>5. IsPrefix(rs, rt) <=> a <= b /\ \A i \in 1..a : rs[i] = rt[i]
  <2>1. IsPrefix(rs, rt) <=> a <= b /\ SubSeq(rs, 1, a) = SubSeq(rt, 1, a)
    BY <1>4 DEF IsPrefix
  <2>2. ASSUME a <= b PROVE SubSeq(rs, 1, a) = SubSeq(rt, 1, a) <=> \A i \in 1..a : rs[i] = rt[i]
    <3>1. SubSeq(rs, 1, a) = [i \in 1..a |-> rs[i]] /\ SubSeq(rt, 1, a) = [i \in 1..a |-> rt[i]]
      BY <1>4, <2>2 DEF Str
    <3>2. QED BY <3>1
  <2>3. QED BY <2>1, <2>2
<1>6. Suf(s, t) <=> a <= b /\ \A i \in 1..a : s[i] = t[(b - a) + i]
  BY <1>1 DEF Suf
<1>7. ASSUME a <= b, \A i \in 1..a : rs[i] = rt[i], NEW i \in 1..a PROVE s[i] = t[(b - a) + i]
  <2>1. (a - i) + 1 \in 1..a /\ (a - i) + 1 \in 1..b
    BY <1>7
  <2>2. (a - ((a - i) + 1)) + 1 = i /\ (b - ((a - i) + 1)) + 1 = (b - a) + i
    OBVIOUS
  <2>3. rs[(a - i) + 1] = s[(a - ((a - i) + 1)) + 1] /\ rt[(a - i) + 1] = t[(b - ((a - i) + 1)) + 1]
    BY <1>3, <2>1
  <2>4. QED BY <1>7, <2>1, <2>2, <2>3
<1>8. ASSUME a <= b, \A i \in 1..a : s[i] = t[(b - a) + i], NEW i \in 1..a PROVE rs[i] = rt[i]
  <2>1. (a - i) + 1 \in 1..a /\ i \in 1..b /\ (b - a) + ((a - i) + 1) = (b - i) + 1
    BY <1>8
  <2>2. rs[i] = s[(a - i) + 1] /\ rt[i] = t[(b - i) + 1]
    BY <1>3, <2>1
  <2>3. QED BY <1>8, <2>1, <2>2
<1>9. QED BY <1>2, <1>5, <1>6, <1>7, <1>8 DEF IsSuffix

-----------------------------------------------------------------------------
(* Trees of words: P is what leads to each of the nodes 0..K. *)

LEMMA LettersAre == Letters \subseteq 1..255 /\ Letters \subseteq Int /\ END \notin Letters
<1>1. \A w \in Words : ToSet(w) \subseteq 1..255
  <2> TAKE w \in Words
  <2>1. w \in Seq(1..255)
    BY WordsAssumption
  <2>2. \A i \in DOMAIN w : w[i] \in 1..255
    BY <2>1, LenProperties, ElementOfSeq
  <2>3. QED BY <2>2 DEF ToSet
<1>2. Letters \subseteq 1..255
  BY <1>1 DEF Letters
<1>3. QED BY <1>2 DEF END, MAX_CHARS

LEMMA WordIs ==
    ASSUME NEW w \in Words
    PROVE  /\ w \in Str /\ Len(w) \in Nat \ {0}
           /\ \A i \in 1..Len(w) : w[i] \in Letters
<1>1. w \in Seq(1..255) /\ w # << >>
  BY WordsAssumption
<1>2. Len(w) \in Nat \ {0} /\ DOMAIN w = 1..Len(w)
  BY <1>1, EmptySeq, LenProperties
<1>3. \A i \in 1..Len(w) : w[i] \in Letters
  BY <1>2 DEF Letters, ToSet
<1>4. w \in Str
  <2>1. 1..255 \subseteq Int
    OBVIOUS
  <2>2. QED BY <1>1, <2>1, SeqMonotonic DEF Str
<1>5. QED BY <1>2, <1>3, <1>4

Trie(P, K) ==
    /\ K \in Nat /\ P \in [0..K -> Str] /\ P[0] = << >>
    /\ \A m, n \in 0..K : P[m] = P[n] => m = n
    /\ \A n \in 1..K : \E m \in 0..K, c \in Letters : P[n] = Append(P[m], c)

\* The node of the longest end of u that has one.
Best(P, K, u, n) ==
    /\ n \in 0..K /\ Suf(P[n], u)
    /\ \A m \in 0..K : Suf(P[m], u) => Len(P[m]) <= Len(P[n])

LEMMA TrieNode ==
    ASSUME NEW P, NEW K, Trie(P, K), NEW n \in 0..K
    PROVE  P[n] \in Str /\ Len(P[n]) \in Nat /\ (n # 0 <=> P[n] # << >>) /\ 0 \in 0..K
<1>1. P[n] \in Str /\ 0 \in 0..K
  BY DEF Trie
<1>2. Len(P[n]) \in Nat
  BY <1>1 DEF Str
<1>3. n # 0 <=> P[n] # << >>
  BY <1>1 DEF Trie
<1>4. QED BY <1>1, <1>2, <1>3

LEMMA BestUnique ==
    ASSUME NEW P, NEW K, Trie(P, K), NEW u \in Str, NEW m, NEW n, Best(P, K, u, m), Best(P, K, u, n)
    PROVE  m = n
<1>1. /\ m \in 0..K /\ n \in 0..K /\ P[m] \in Str /\ P[n] \in Str
      /\ Suf(P[m], u) /\ Suf(P[n], u) /\ Len(P[m]) <= Len(P[n]) /\ Len(P[n]) <= Len(P[m])
  BY TrieNode DEF Best
<1>2. P[m] = P[n]
  BY <1>1, SufOf, SufSame
<1>3. QED BY <1>1, <1>2 DEF Trie

\* An end of u with c behind it is empty, or an end of u with c behind it.
LEMMA EndOfAppend ==
    ASSUME NEW P, NEW K, Trie(P, K), NEW u \in Str, NEW c \in Int, NEW j \in 0..K,
           Suf(P[j], Append(u, c)), j # 0
    PROVE  c \in Letters /\ \E i \in 0..K : P[j] = Append(P[i], c) /\ Suf(P[i], u)
<1>1. PICK i \in 0..K, d \in Letters : P[j] = Append(P[i], d)
  <2>1. j \in 1..K
    BY DEF Trie
  <2>2. QED BY <2>1 DEF Trie
<1>2. P[i] \in Str /\ d \in Int
  BY TrieNode, LettersAre
<1>3. d = c /\ Suf(P[i], u)
  BY <1>1, <1>2, SufAppend
<1>4. QED BY <1>1, <1>3

LEMMA BestAppend ==
    ASSUME NEW P, NEW K, Trie(P, K), NEW u \in Str, NEW c \in Int, NEW n, NEW m,
           Best(P, K, u, n), Best(P, K, Append(P[n], c), m)
    PROVE  Best(P, K, Append(u, c), m)
<1>1. n \in 0..K /\ P[n] \in Str /\ Suf(P[n], u) /\ m \in 0..K /\ P[m] \in Str
  BY TrieNode DEF Best
<1>2. PICK uc \in Str, nc \in Str : uc = Append(u, c) /\ nc = Append(P[n], c)
  BY <1>1, AppendProperties DEF Str
<1>3. Suf(nc, uc)
  BY <1>1, <1>2, SufAppend
<1>4. Suf(P[m], uc)
  BY <1>1, <1>2, <1>3, SufTrans DEF Best
<1>5. ASSUME NEW j \in 0..K, Suf(P[j], uc) PROVE Len(P[j]) <= Len(P[m])
  <2>1. CASE j = 0
    <3>1. P[j] = << >> /\ Len(<< >>) = 0
      BY <2>1 DEF Trie
    <3>2. QED BY <3>1, <1>1, TrieNode
  <2>2. CASE j # 0
    <3>1. PICK i \in 0..K : P[j] = Append(P[i], c) /\ Suf(P[i], u)
      BY <1>2, <1>5, <2>2, EndOfAppend
    <3>2. Len(P[i]) <= Len(P[n]) /\ P[i] \in Str
      BY <3>1, TrieNode DEF Best
    <3>3. Suf(P[i], P[n])
      BY <1>1, <3>1, <3>2, SufOf
    <3>4. Suf(P[j], nc)
      BY <1>1, <1>2, <3>1, <3>2, <3>3, SufAppend
    <3>5. QED BY <1>2, <3>4 DEF Best
  <2>3. QED BY <2>1, <2>2
<1>6. QED BY <1>1, <1>2, <1>4, <1>5 DEF Best

LEMMA BestSelf ==
    ASSUME NEW P, NEW K, Trie(P, K), NEW j \in 0..K
    PROVE  Best(P, K, P[j], j)
<1>1. P[j] \in Str /\ Suf(P[j], P[j])
  BY TrieNode, SufEmpty
<1>2. \A m \in 0..K : Suf(P[m], P[j]) => Len(P[m]) <= Len(P[j])
  BY DEF Suf
<1>3. QED BY <1>1, <1>2 DEF Best

\* If u has no node, its longest end is that of the string behind its first letter.
LEMMA BestTail ==
    ASSUME NEW P, NEW K, Trie(P, K), NEW u \in Str, u # << >>, \A j \in 0..K : P[j] # u, NEW m,
           Best(P, K, Tail(u), m)
    PROVE  Best(P, K, u, m)
<1>1. \A j \in 0..K : P[j] \in Str /\ (Suf(P[j], Tail(u)) <=> Suf(P[j], u))
  BY TrieNode, SufTail
<1>2. QED BY <1>1 DEF Best

\* The complete row of the node n.
RowOk(P, K, n, row) == \A c \in Letters : Best(P, K, Append(P[n], c), row[c])

\* A node with no child: the entry of the failure pointer, f.
LEMMA NoChild ==
    ASSUME NEW P, NEW K, Trie(P, K), NEW n \in 1..K, NEW f, NEW c \in Letters, NEW m,
           Best(P, K, Tail(P[n]), f), Best(P, K, Append(P[f], c), m),
           \A j \in 0..K : P[j] # Append(P[n], c)
    PROVE  Best(P, K, Append(P[n], c), m)
<1>1. n \in 0..K /\ n # 0
  BY DEF Trie
<1>2. PICK v \in Str, t \in Str : v = P[n] /\ v # << >> /\ t = Tail(v)
  BY <1>1, TrieNode, SufTail
<1>3. c \in Int
  BY LettersAre
<1>4. Append(v, c) \in Str /\ Append(v, c) # << >> /\ Tail(Append(v, c)) = Append(t, c)
  BY <1>2, <1>3, AppendProperties, HeadTailAppend DEF Str
<1>5. Best(P, K, Append(t, c), m)
  BY <1>2, <1>3, BestAppend
<1>6. QED BY <1>2, <1>4, <1>5, BestTail

\* A child: its failure pointer is the entry of the failure pointer, f.
LEMMA ChildFail ==
    ASSUME NEW P, NEW K, Trie(P, K), NEW n \in 1..K, NEW f, NEW c \in Letters, NEW m,
           Best(P, K, Tail(P[n]), f), Best(P, K, Append(P[f], c), m),
           NEW j \in 0..K, P[j] = Append(P[n], c)
    PROVE  Best(P, K, Tail(P[j]), m)
<1>1. n \in 0..K /\ n # 0
  BY DEF Trie
<1>2. PICK v \in Str, t \in Str : v = P[n] /\ v # << >> /\ t = Tail(v)
  BY <1>1, TrieNode, SufTail
<1>3. c \in Int
  BY LettersAre
<1>4. Tail(Append(v, c)) = Append(t, c)
  BY <1>2, <1>3, HeadTailAppend DEF Str
<1>5. QED BY <1>2, <1>3, <1>4, BestAppend

\* The failure pointer of a node is nearer to the root.
LEMMA FailIsShorter ==
    ASSUME NEW P, NEW K, Trie(P, K), NEW n \in 1..K, NEW f, Best(P, K, Tail(P[n]), f)
    PROVE  f \in 0..K /\ Len(P[f]) < Len(P[n])
<1>1. n \in 0..K /\ n # 0 /\ f \in 0..K
  BY DEF Trie, Best
<1>2. P[n] \in Str /\ P[n] # << >> /\ P[f] \in Str /\ Len(P[n]) \in Nat /\ Len(P[f]) \in Nat
  BY <1>1, TrieNode
<1>3. Len(Tail(P[n])) = Len(P[n]) - 1
  BY <1>2, SufTail
<1>4. Len(P[f]) <= Len(Tail(P[n]))
  BY DEF Best, Suf
<1>5. QED BY <1>1, <1>2, <1>3, <1>4

\* The root: its row in the tree is complete.
LEMMA RootRow ==
    ASSUME NEW P, NEW K, Trie(P, K), NEW c \in Int, \A j \in 0..K : P[j] # Append(P[0], c)
    PROVE  Best(P, K, Append(P[0], c), 0)
<1>1. P[0] = << >> /\ << >> \in Str /\ 0 \in 0..K
  BY TrieNode DEF Trie, Str
<1>2. Append(<< >>, c) \in Str /\ Append(<< >>, c) # << >>
  BY <1>1, AppendProperties DEF Str
<1>3. Tail(Append(<< >>, c)) = << >>
  BY <1>1, HeadTailAppend DEF Str
<1>4. Best(P, K, << >>, 0)
  BY <1>1, BestSelf
<1>5. QED BY <1>1, <1>2, <1>3, <1>4, BestTail

\* A character that is in no word leads to the root.
LEMMA NoLetter ==
    ASSUME NEW P, NEW K, Trie(P, K), NEW u \in Str, NEW c \in Int, c \notin Letters
    PROVE  Best(P, K, Append(u, c), 0)
<1>1. P[0] = << >> /\ 0 \in 0..K /\ Append(u, c) \in Str
  BY TrieNode, AppendProperties DEF Trie, Str
<1>2. Suf(P[0], Append(u, c))
  BY <1>1, SufEmpty
<1>3. \A j \in 0..K : Suf(P[j], Append(u, c)) => j = 0
  BY EndOfAppend
<1>4. Len(P[0]) \in Nat
  BY <1>1, TrieNode
<1>5. QED BY <1>1, <1>2, <1>3, <1>4 DEF Best

-----------------------------------------------------------------------------
(* The tree of the words V. *)

LEMMA PrefixIs ==
    ASSUME NEW w \in Str, NEW j \in Nat, j < Len(w)
    PROVE  /\ SubSeq(w, 1, j) \in Str /\ SubSeq(w, 1, 0) = << >>
           /\ SubSeq(w, 1, Len(w)) = w
           /\ w[j + 1] \in Int
           /\ SubSeq(w, 1, j + 1) = Append(SubSeq(w, 1, j), w[j + 1])
<1>1. PICK n \in Nat : n = Len(w)
  BY DEF Str
<1>2. j + 1 \in 1..n /\ 1 \in 1..n /\ j + 1 \in 1..(j + 1) /\ (j + 1) - 1 = j
  BY <1>1
<1>3. \A i \in 1..n : w[i] \in Int
  BY <1>1, ElementOfSeq DEF Str
<1>4. SubSeq(w, 1, j) \in Str
  <2>1. \A i \in 1..j : w[i] \in Int
    BY <1>1, <1>3
  <2>2. QED BY <2>1, SubSeqProperties DEF Str
<1>5. SubSeq(w, 1, 0) = << >>
  BY SubSeqEmpty
<1>6. SubSeq(w, 1, n) = w
  BY <1>1, SubSeqFull DEF Str
<1>7. SubSeq(w, 1, j + 1) = SubSeq(w, 1, j) \o <<w[j + 1]>>
  BY <1>1, <1>2, SubSeqRecursiveSecond DEF Str
<1>8. Append(SubSeq(w, 1, j), w[j + 1]) = SubSeq(w, 1, j) \o <<w[j + 1]>>
  BY <1>2, <1>3, <1>4, AppendIsConcat DEF Str
<1>9. QED BY <1>1, <1>2, <1>3, <1>4, <1>5, <1>6, <1>7, <1>8

LEMMA AppendDiffers ==
    ASSUME NEW s \in Str, NEW t \in Str, NEW c \in Letters, NEW d \in Letters
    PROVE  /\ Append(s, c) = Append(t, d) => s = t /\ c = d
           /\ Append(s, c) # << >> /\ Append(s, c) # s
<1> c \in Int /\ d \in Int
  BY LettersAre
<1>1. PICK len \in Nat : len = Len(s)
  BY DEF Str
<1>2. Len(Append(s, c)) = len + 1
  BY <1>1, AppendIs
<1>3. Append(s, c) # s
  BY <1>1, <1>2
<1>4. Append(s, c) # << >>
  BY <1>2
<1>5. Append(s, c) = Append(t, d) => s = t /\ c = d
  BY AppendInjective DEF Str
<1>6. QED BY <1>3, <1>4, <1>5

Row == [Letters \cup {END} -> Nat]

\* The row of the node n in the tree: its children.
TreeRow(P, K, n, row) ==
    \A c \in Letters :
      /\ row[c] \in 0..K
      /\ row[c] = 0 => \A m \in 0..K : P[m] # Append(P[n], c)
      /\ row[c] # 0 => P[row[c]] = Append(P[n], c)

\* What column END says of the first i words.
EndRow(P, V, i, n, row) ==
    /\ row[END] \in 0..i
    /\ row[END] # 0 => V[row[END]] = P[n]
    /\ row[END] = 0 => \A b \in 1..i : V[b] # P[n]

\* The nodes stand for beginnings of words, each of the first i words has one.
Covers(P, K, V, i) ==
    /\ \A m \in 0..K : \E a \in 1..Len(V) : \E l \in 0..Len(V[a]) : P[m] = SubSeq(V[a], 1, l)
    /\ \A b \in 1..i : \E m \in 0..K : P[m] = V[b]

\* The tree t, of nodes up to L, after the first i words.
TreePart(t, P, V, L, i) ==
    /\ t \in [chart : [0..L -> Row], n : Nat, k : Nat]
    /\ t.n \in 0..t.k /\ t.k <= L /\ Trie(P, t.k) /\ Covers(P, t.k, V, i)
    /\ \A m \in 0..t.k : TreeRow(P, t.k, m, t.chart[m]) /\ EndRow(P, V, i, m, t.chart[m])
    /\ \A m \in (t.k + 1)..L : \A c \in Letters \cup {END} : t.chart[m][c] = 0

\* A new node.
LEMMA TrieGrows ==
    ASSUME NEW P, NEW K, Trie(P, K), NEW n \in 0..K, NEW c \in Letters,
           \A m \in 0..K : P[m] # Append(P[n], c),
           NEW Q, DOMAIN Q = 0..(K + 1), Q = [m \in DOMAIN Q |-> Q[m]],
           Q[K + 1] = Append(P[n], c), \A m \in 0..K : Q[m] = P[m]
    PROVE  Trie(Q, K + 1)
<1>1. K \in Nat /\ P \in [0..K -> Str] /\ P[0] = << >> /\ P[n] \in Str /\ c \in Int
  BY LettersAre DEF Trie
<1>2. /\ K + 1 \in Nat /\ 0 \in 0..K /\ K + 1 \in 0..(K + 1) /\ K + 1 \notin 0..K
      /\ \A m \in 0..K : m \in 0..(K + 1) /\ m # K + 1
      /\ \A m \in 0..(K + 1) : m = K + 1 \/ m \in 0..K
      /\ \A m \in 1..(K + 1) : m = K + 1 \/ m \in 1..K
  <2>1. K \in Nat
    BY <1>1
  <2>2. QED BY ONLY <2>1
<1>3. Append(P[n], c) \in Str
  BY <1>1, AppendProperties DEF Str
<1>4. Q[K + 1] = Append(P[n], c) /\ \A m \in 0..K : Q[m] = P[m]
  OBVIOUS
<1>5. Q \in [0..(K + 1) -> Str]
  <2>1. \A m \in 0..(K + 1) : Q[m] \in Str
    BY <1>1, <1>2, <1>3, <1>4
  <2>2. QED BY <2>1
<1>6. \A m, j \in 0..(K + 1) : Q[m] = Q[j] => m = j
  <2> TAKE m, j \in 0..(K + 1)
  <2>1. CASE m \in 0..K /\ j \in 0..K
    BY <2>1, <1>4 DEF Trie
  <2>2. CASE m = K + 1 /\ j = K + 1
    BY <2>2
  <2>3. CASE m = K + 1 /\ j \in 0..K
    BY <2>3, <1>4
  <2>4. CASE m \in 0..K /\ j = K + 1
    BY <2>4, <1>4
  <2>5. QED BY <1>2, <2>1, <2>2, <2>3, <2>4
<1>7. \A m \in 1..(K + 1) : \E j \in 0..(K + 1), d \in Letters : Q[m] = Append(Q[j], d)
  <2> TAKE m \in 1..(K + 1)
  <2>1. CASE m = K + 1
    <3>1. n \in 0..(K + 1) /\ Q[n] = P[n]
      BY <1>2, <1>4
    <3>2. QED BY <2>1, <3>1, <1>4
  <2>2. CASE m \in 1..K
    <3>1. m \in 0..K
      BY <2>2, <1>1
    <3>2. PICK j \in 0..K, d \in Letters : P[m] = Append(P[j], d)
      BY <2>2 DEF Trie
    <3>3. j \in 0..(K + 1) /\ Q[m] = Append(Q[j], d)
      BY <3>1, <3>2, <1>2, <1>4
    <3>4. QED BY <3>3
  <2>3. QED BY <1>2, <2>1, <2>2
<1>8. Q[0] = << >>
  BY <1>1, <1>2, <1>4
<1>9. QED BY <1>2, <1>4, <1>5, <1>6, <1>7, <1>8 DEF Trie

\* At the tree t the word V[a] is entered up to the letter j.
AtLetter(t, P, V, L, i, a, j) ==
    /\ TreePart(t, P, V, L, i) /\ i \in 0..Len(V) /\ a \in 1..Len(V)
    /\ j \in 0..Len(V[a]) /\ P[t.n] = SubSeq(V[a], 1, j)

\* The next letter.
LEMMA DescendIs ==
    ASSUME NEW V \in Seq(Words), NEW L \in Nat, NEW i, NEW t, NEW P, NEW a, NEW j,
           AtLetter(t, P, V, L, i, a, j), j # Len(V[a]), t.k < L
    PROVE  \E Q : /\ AtLetter(Descend(t, V[a][j + 1]), Q, V, L, i, a, j + 1)
                  /\ Descend(t, V[a][j + 1]).k <= t.k + 1
<1> DEFINE n == t.n
           K == t.k
           w == V[a]
           c == w[j + 1]
           d == Descend(t, c)
<1>0. /\ TreePart(t, P, V, L, i) /\ i \in 0..Len(V) /\ a \in 1..Len(V)
      /\ j \in Nat /\ j < Len(w) /\ P[t.n] = SubSeq(w, 1, j)
  <2>1. PICK len \in Nat : len = Len(w)
    <3>1. a \in 1..Len(V)
      BY DEF AtLetter
    <3>2. w \in Words
      BY <3>1, ElementOfSeq
    <3>3. QED BY <3>2, WordIs
  <2>2. QED BY <2>1 DEF AtLetter
<1>1. /\ w \in Words /\ w \in Str /\ Len(w) \in Nat \ {0} /\ c \in Letters
      /\ SubSeq(w, 1, j + 1) = Append(SubSeq(w, 1, j), c)
      /\ j + 1 \in 0..Len(w)
  <2>1. w \in Words
    BY <1>0, ElementOfSeq
  <2>2. w \in Str /\ Len(w) \in Nat \ {0} /\ \A x \in 1..Len(w) : w[x] \in Letters
    BY <2>1, WordIs
  <2>3. j + 1 \in 1..Len(w)
    BY <1>0, <2>2
  <2>4. SubSeq(w, 1, j + 1) = Append(SubSeq(w, 1, j), c)
    BY <1>0, <2>2, PrefixIs
  <2> HIDE DEF w
  <2>5. c \in Letters /\ j + 1 \in 0..Len(w)
    BY <2>2, <2>3
  <2>6. QED BY <2>1, <2>2, <2>4, <2>5
<1>2. /\ t \in [chart : [0..L -> Row], n : Nat, k : Nat]
      /\ n \in 0..K /\ K \in Nat /\ K < L /\ Trie(P, K) /\ Covers(P, K, V, i)
      /\ \A m \in 0..K : TreeRow(P, K, m, t.chart[m]) /\ EndRow(P, V, i, m, t.chart[m])
      /\ \A m \in (K + 1)..L : \A x \in Letters \cup {END} : t.chart[m][x] = 0
  BY <1>0 DEF TreePart
<1>3. Append(P[n], c) = SubSeq(w, 1, j + 1)
  BY <1>0, <1>1
<1>4. CASE t.chart[n][c] # 0
  <2>1. d = [t EXCEPT !.n = t.chart[n][c]]
    BY <1>4, Zenon DEF Descend
  <2>2. t.chart[n][c] \in 0..K /\ P[t.chart[n][c]] = Append(P[n], c)
    BY <1>1, <1>2, <1>4 DEF TreeRow
  <2>3. /\ d \in [chart : [0..L -> Row], n : Nat, k : Nat]
        /\ d.n = t.chart[n][c] /\ d.k = K /\ d.chart = t.chart
    <3>1. t.chart[n][c] \in Nat
      <4>1. K \in Nat /\ t.chart[n][c] \in 0..K
        BY <1>2, <2>2, Zenon
      <4> HIDE DEF n, K, c
      <4>2. QED BY ONLY <4>1
    <3>2. t = [chart |-> t.chart, n |-> t.n, k |-> t.k]
      BY <1>2
    <3>3. d = [chart |-> t.chart, n |-> t.chart[n][c], k |-> t.k]
      BY <2>1, <3>2
    <3>4. QED BY <1>2, <3>1, <3>3
  <2> HIDE DEF d, n, K, c, w
  <2>4. TreePart(d, P, V, L, i)
    BY <1>2, <2>2, <2>3 DEF TreePart
  <2>5. P[d.n] = SubSeq(w, 1, j + 1) /\ d.k <= K + 1
    BY <1>2, <1>3, <2>2, <2>3
  <2>6. AtLetter(d, P, V, L, i, a, j + 1)
    BY <1>0, <1>1, <2>4, <2>5 DEF AtLetter, w
  <2>7. QED BY <2>5, <2>6 DEF d, K, c, w
<1>5. CASE t.chart[n][c] = 0
  <2> DEFINE Q == [m \in 0..(K + 1) |-> IF m = K + 1 THEN Append(P[n], c) ELSE P[m]]
             C == [t.chart EXCEPT ![n][c] = K + 1]
  <2>1. d = [chart |-> C, n |-> K + 1, k |-> K + 1]
    BY <1>5 DEF Descend
  <2>2. /\ K + 1 \in Nat /\ K + 1 \in 0..L /\ n \in 0..L /\ K + 1 # n
        /\ \A m \in 0..K : m \in 0..L /\ m \in 0..(K + 1) /\ m # K + 1
        /\ \A m \in 0..(K + 1) : m \in 0..K \/ m = K + 1
        /\ \A m \in ((K + 1) + 1)..L : m \in (K + 1)..L /\ m \in 0..L /\ m # n
        /\ K + 1 \in 0..(K + 1) /\ K + 1 \in (K + 1)..L /\ K + 1 # 0
    <3>1. K \in Nat /\ n \in 0..K /\ K < L /\ L \in Nat
      BY <1>2
    <3> HIDE DEF n, K
    <3>2. QED BY ONLY <3>1
  <2>3. /\ C \in [0..L -> Row]
        /\ C[n][c] = K + 1
        /\ \A m \in 0..L : m # n => C[m] = t.chart[m]
        /\ \A x \in Letters \cup {END} : x # c => C[n][x] = t.chart[n][x]
    BY <1>1, <1>2, <2>2 DEF Row
  <2>4. /\ d \in [chart : [0..L -> Row], n : Nat, k : Nat]
        /\ d.n = K + 1 /\ d.k = K + 1 /\ d.chart = C
    BY <2>1, <2>2, <2>3
  <2>5. \A m \in 0..K : P[m] # Append(P[n], c)
    BY <1>1, <1>2, <1>5 DEF TreeRow
  <2>6. Trie(Q, K + 1) /\ Q[K + 1] = Append(P[n], c) /\ \A m \in 0..K : Q[m] = P[m]
    <3> HIDE DEF n, K, c
    <3>1. Q[K + 1] = Append(P[n], c) /\ \A m \in 0..K : Q[m] = P[m]
      BY <2>2
    <3>2. DOMAIN Q = 0..(K + 1) /\ Q = [m \in DOMAIN Q |-> Q[m]]
      OBVIOUS
    <3> HIDE DEF Q
    <3>3. QED BY <1>1, <1>2, <2>5, <3>1, <3>2, TrieGrows
  <2>7. c \in Letters /\ END # c /\ END \in Letters \cup {END}
    BY <1>1, LettersAre
  <2> HIDE DEF d, n, K, c, w, C, Q
  <2>8. Covers(Q, K + 1, V, i)
    <3>1. ASSUME NEW m \in 0..(K + 1)
          PROVE  \E b \in 1..Len(V) : \E l \in 0..Len(V[b]) : Q[m] = SubSeq(V[b], 1, l)
      <4>1. CASE m \in 0..K
        BY <4>1, <1>2, <2>6 DEF Covers
      <4>2. CASE m = K + 1
        <5>1. Q[m] = SubSeq(V[a], 1, j + 1) /\ j + 1 \in 0..Len(V[a])
          BY <4>2, <1>1, <1>3, <2>6 DEF w
        <5>2. QED BY <1>0, <5>1
      <4>3. QED BY <2>2, <4>1, <4>2
    <3>2. \A b \in 1..i : \E m \in 0..(K + 1) : Q[m] = V[b]
      BY <1>2, <2>2, <2>6 DEF Covers
    <3>3. QED BY <3>1, <3>2 DEF Covers
  <2>9. ASSUME NEW m \in 0..(K + 1) PROVE TreeRow(Q, K + 1, m, C[m])
    <3> SUFFICES ASSUME NEW x \in Letters
                 PROVE  /\ C[m][x] \in 0..(K + 1)
                        /\ C[m][x] = 0 => \A q \in 0..(K + 1) : Q[q] # Append(Q[m], x)
                        /\ C[m][x] # 0 => Q[C[m][x]] = Append(Q[m], x)
      BY DEF TreeRow
    <3>0. x \in Letters /\ c \in Letters /\ P[n] \in Str /\ Q[m] \in Str
      BY <1>2, <2>6, <2>7, LettersAre DEF Trie
    <3>1. CASE m = n /\ x = c
      BY <3>1, <1>2, <2>2, <2>3, <2>6
    <3>2. CASE m \in 0..K /\ ~(m = n /\ x = c)
      <4>1. C[m][x] = t.chart[m][x]
        BY <3>2, <2>2, <2>3
      <4>2. /\ t.chart[m][x] \in 0..K
            /\ t.chart[m][x] = 0 => \A q \in 0..K : P[q] # Append(P[m], x)
            /\ t.chart[m][x] # 0 => P[t.chart[m][x]] = Append(P[m], x)
        BY <1>2, <3>2 DEF TreeRow
      <4>3. Q[K + 1] # Append(Q[m], x)
        <5>1. Q[m] = P[m] /\ P[m] = P[n] => m = n
          BY <1>2, <2>6, <3>2 DEF Trie
        <5>2. QED
          <6>1. Q[K + 1] = Append(P[n], c)
            BY <2>6
          <6>2. Append(P[n], c) = Append(Q[m], x) => P[n] = Q[m] /\ c = x
            <7>1. P[n] \in Str /\ Q[m] \in Str /\ x \in Letters /\ c \in Letters
              BY <3>0
            <7>2. QED BY ONLY <7>1, AppendDiffers
          <6>3. QED BY <5>1, <6>1, <6>2, <3>2, <2>6
      <4>4. QED BY <2>2, <2>6, <3>2, <4>1, <4>2, <4>3
    <3>3. CASE m = K + 1
      <4>1. C[m][x] = 0
        <5>1. C[m] = t.chart[m] /\ m \in (K + 1)..L /\ x \in Letters \cup {END}
          BY <2>2, <2>3, <3>3
        <5>2. QED BY <1>2, <5>1
      <4>2. ASSUME NEW q \in 0..(K + 1), Q[q] = Append(Q[m], x) PROVE FALSE
        <5>1. CASE q = K + 1
          <6>1. Append(Q[m], x) # Q[m]
            BY <3>0, AppendDiffers
          <6>2. QED BY <3>3, <4>2, <5>1, <6>1
        <5>2. CASE q \in 0..K
          <6>1. q # 0
            <7>1. Append(Q[m], x) # << >>
              BY <3>0, AppendDiffers
            <7>2. Q[0] = << >>
              BY <2>6 DEF Trie
            <7>3. QED BY <4>2, <7>1, <7>2
          <6>2. q \in 1..K
            BY <5>2, <6>1, <1>2
          <6>3. PICK p \in 0..K, y \in Letters : P[q] = Append(P[p], y)
            BY <1>2, <6>2 DEF Trie
          <6>4. Q[p] = P[p] /\ Q[p] \in Str /\ y \in Letters /\ Q[q] = P[q] /\ p \in 0..(K + 1)
            BY <6>3, <5>2, <2>2, <2>6, LettersAre, Zenon DEF Trie
          <6>5. Q[p] = Q[m]
            <7>1. Append(Q[p], y) = Append(Q[m], x)
              BY <4>2, <6>3, <6>4
            <7>2. Append(Q[p], y) = Append(Q[m], x) => Q[p] = Q[m] /\ y = x
              <8>1. Q[p] \in Str /\ Q[m] \in Str /\ x \in Letters /\ y \in Letters
                BY <3>0, <6>4
              <8>2. QED BY ONLY <8>1, AppendDiffers
            <7>3. QED BY <7>1, <7>2
          <6>6. p = m
            BY <2>6, <6>4, <6>5 DEF Trie
          <6>7. QED BY <2>2, <6>6, <3>3, <6>3
        <5>3. QED BY <2>2, <5>1, <5>2
      <4>3. QED BY <4>1, <4>2, <2>2
    <3>4. QED BY <2>2, <3>1, <3>2, <3>3
  <2>10. ASSUME NEW m \in 0..(K + 1) PROVE EndRow(Q, V, i, m, C[m])
    <3>1. CASE m \in 0..K
      <4>1. C[m][END] = t.chart[m][END]
        BY <3>1, <2>2, <2>3, <2>7
      <4>2. QED BY <4>1, <3>1, <1>2, <2>6 DEF EndRow
    <3>2. CASE m = K + 1
      <4>1. C[m][END] = 0
        BY <1>2, <2>2, <2>3, <2>7, <3>2
      <4>2. \A b \in 1..i : V[b] # Q[m]
        <5>1. \A b \in 1..i : \E q \in 0..K : P[q] = V[b]
          BY <1>2 DEF Covers
        <5>2. QED BY <5>1, <2>5, <2>6, <3>2
      <4>3. 0 \in 0..i
        BY <1>0
      <4>4. QED BY <4>1, <4>2, <4>3 DEF EndRow
    <3>3. QED BY <2>2, <3>1, <3>2
  <2>11. \A m \in ((K + 1) + 1)..L : \A x \in Letters \cup {END} : C[m][x] = 0
    <3> TAKE m \in ((K + 1) + 1)..L
    <3> TAKE x \in Letters \cup {END}
    <3>1. C[m] = t.chart[m] /\ m \in (K + 1)..L
      BY <2>2, <2>3
    <3>2. QED BY <1>2, <3>1
  <2>12. TreePart(d, Q, V, L, i)
    BY <2>2, <2>4, <2>6, <2>8, <2>9, <2>10, <2>11 DEF TreePart
  <2>13. Q[d.n] = SubSeq(w, 1, j + 1) /\ d.k <= K + 1
    BY <1>3, <2>2, <2>4, <2>6
  <2>14. AtLetter(d, Q, V, L, i, a, j + 1)
    BY <1>0, <1>1, <2>12, <2>13 DEF AtLetter, w
  <2>15. QED BY <2>13, <2>14 DEF d, K, c, w
<1>6. QED BY <1>4, <1>5

-----------------------------------------------------------------------------
(* Recursive functions over numbers, by looking at the least number for     *)
(* which the claim would be false.                                          *)

LEMMA LeastNat ==
    ASSUME NEW T \in SUBSET Nat, T # {}
    PROVE  \E n \in T : \A m \in T : n <= m
<1>1. \E x \in T : \A y \in T : ~ (<<y, x>> \in OpToRel(<, Nat))
  BY WFMin, NatLessThanWellFounded
<1>2. PICK x \in T : \A y \in T : ~ (<<y, x>> \in OpToRel(<, Nat))
  BY <1>1
<1>3. ASSUME NEW y \in T PROVE x <= y
  <2>1. ASSUME y < x PROVE <<y, x>> \in OpToRel(<, Nat)
    <3>1. <<y, x>> \in Nat \X Nat /\ <<y, x>>[1] = y /\ <<y, x>>[2] = x
      OBVIOUS
    <3>2. QED BY <2>1, <3>1 DEF OpToRel
  <2>2. ~(y < x)
    BY <1>2, <2>1
  <2>3. x \in Nat /\ y \in Nat
    OBVIOUS
  <2>4. QED BY <2>2, <2>3
<1>4. QED BY <1>3

LEMMA UpTo ==
    ASSUME NEW n \in Nat, NEW T, 0 \in T,
           \A k \in 0..(n - 1) : k \in T => k + 1 \in T
    PROVE  \A k \in 0..n : k \in T
<1> DEFINE Bad == {k \in 0..n : k \notin T}
<1> SUFFICES ASSUME Bad # {} PROVE FALSE
  OBVIOUS
<1>1. PICK k \in Bad : \A j \in Bad : k <= j
  <2>1. Bad \in SUBSET Nat
    OBVIOUS
  <2>2. QED BY <2>1, LeastNat
<1>2. k \in 0..n /\ k # 0 /\ k \notin T
  BY <1>1
<1>3. k - 1 \in 0..(n - 1) /\ ~(k <= k - 1)
  BY <1>2
<1>4. k - 1 \in T
  BY <1>1, <1>3
<1>5. QED BY <1>2, <1>3, <1>4

\* What a loop does step by step: step[k] takes what stage k - 1 may hold to
\* what stage k may hold.
Stages(S, n, step) == \A k \in 1..n : \A y \in S[k - 1] : step[k][y] \in S[k]
Runs(f, S, n, x, step) ==
    /\ f = [k \in 0..n |-> f[k]] /\ f[0] = x
    /\ \A k \in 1..n : f[k] = step[k][f[k - 1]]
    /\ \A k \in 0..n : f[k] \in S[k]

LEMMA StageByStage ==
    ASSUME NEW S, NEW n \in Nat, NEW step, NEW x \in S[0], Stages(S, n, step)
    PROVE  \E f : Runs(f, S, n, x, step)
<1> DEFINE T == {k \in 0..n : \E f : Runs(f, S, k, x, step)}
<1>1. 0 \in T
  <2> DEFINE f == [k \in 0..0 |-> x]
  <2>1. f = [k \in 0..0 |-> f[k]] /\ f[0] = x /\ 1..0 = {} /\ \A k \in 0..0 : k = 0
    OBVIOUS
  <2> HIDE DEF f
  <2>2. Runs(f, S, 0, x, step)
    BY <2>1 DEF Runs
  <2>3. QED BY <2>2
<1>2. ASSUME NEW k \in 0..(n - 1), k \in T PROVE k + 1 \in T
  <2>1. PICK f : Runs(f, S, k, x, step)
    BY <1>2
  <2> DEFINE g == [i \in 0..(k + 1) |-> IF i = k + 1 THEN step[k + 1][f[k]] ELSE f[i]]
  <2>2. /\ k \in Nat /\ 0 \in 0..k /\ k \in 0..k /\ k + 1 \in 1..n /\ k + 1 \in 0..n
        /\ \A i \in 0..(k + 1) : i = k + 1 \/ (i \in 0..k /\ i # k + 1)
        /\ \A i \in 0..k : i \in 0..(k + 1) /\ i # k + 1
        /\ k + 1 \in 0..(k + 1) /\ (k + 1) - 1 = k
        /\ \A i \in 1..(k + 1) : i # k + 1 => i \in 1..k /\ i \in 0..k /\ i - 1 \in 0..k
    OBVIOUS
  <2>3. /\ g[k + 1] = step[k + 1][f[k]]
        /\ \A i \in 0..k : g[i] = f[i]
        /\ g = [i \in 0..(k + 1) |-> g[i]]
    BY <2>2
  <2> HIDE DEF g
  <2>4. \A i \in 1..(k + 1) : g[i] = step[i][g[i - 1]]
    <3> TAKE i \in 1..(k + 1)
    <3>1. CASE i = k + 1
      BY <3>1, <2>2, <2>3
    <3>2. CASE i # k + 1
      <4>1. i \in 1..k /\ i \in 0..k /\ i - 1 \in 0..k
        BY <3>2, <2>2
      <4>2. f[i] = step[i][f[i - 1]]
        BY <4>1, <2>1 DEF Runs
      <4>3. QED BY <4>1, <4>2, <2>3
    <3>3. QED BY <3>1, <3>2
  <2>5. \A i \in 0..(k + 1) : g[i] \in S[i]
    <3> TAKE i \in 0..(k + 1)
    <3>1. CASE i = k + 1
      <4>1. f[k] \in S[k]
        BY <2>1, <2>2 DEF Runs
      <4>2. step[k + 1][f[k]] \in S[k + 1]
        BY <4>1, <2>2 DEF Stages
      <4>3. QED BY <3>1, <4>2, <2>3
    <3>2. CASE i \in 0..k
      <4>1. f[i] \in S[i]
        BY <3>2, <2>1 DEF Runs
      <4>2. QED BY <4>1, <3>2, <2>3
    <3>3. QED BY <3>1, <3>2, <2>2
  <2>6. g[0] = x
    BY <2>1, <2>2, <2>3 DEF Runs
  <2>7. Runs(g, S, k + 1, x, step)
    BY <2>3, <2>4, <2>5, <2>6 DEF Runs
  <2>8. QED BY <2>2, <2>7
<1>3. n \in T
  <2> HIDE DEF T
  <2>1. \A k \in 0..n : k \in T
    BY <1>1, <1>2, UpTo
  <2>2. QED BY <2>1
<1>4. QED BY <1>3

-----------------------------------------------------------------------------
(* The words go into the tree one by one. *)

TreeRecs(L) == [chart : [0..L -> Row], n : Nat, k : Nat]

\* After j letters of the word i.
Reached(V, L, i, k0, j) ==
    {d \in TreeRecs(L) : \E Q : AtLetter(d, Q, V, L, i - 1, i, j) /\ d.k <= k0 + j}

LEMMA WordsAre ==
    ASSUME NEW V \in Seq(Words), NEW a \in 1..Len(V)
    PROVE  /\ V[a] \in Words /\ V[a] \in Str /\ Len(V[a]) \in Nat \ {0} /\ Len(V) \in Nat
           /\ \A x \in 1..Len(V[a]) : V[a][x] \in Letters
BY WordIs, ElementOfSeq

Marked(d, i) == [d EXCEPT !.chart[d.n][END] = i]

LEMMA WordEnds ==
    ASSUME NEW V \in Seq(Words), NEW L \in Nat, NEW i \in 1..Len(V), NEW d, NEW P,
           TreePart(d, P, V, L, i - 1), P[d.n] = V[i]
    PROVE  TreePart(Marked(d, i), P, V, L, i) /\ Marked(d, i).k = d.k
<1>1. PICK len \in Nat : len = Len(V)
  OBVIOUS
<1>2. i \in Nat /\ i # 0 /\ i - 1 \in Nat
  BY <1>1
<1>3. /\ d \in TreeRecs(L) /\ d.n \in 0..d.k /\ d.k <= L /\ Trie(P, d.k) /\ Covers(P, d.k, V, i - 1)
      /\ \A m \in 0..d.k : TreeRow(P, d.k, m, d.chart[m]) /\ EndRow(P, V, i - 1, m, d.chart[m])
      /\ \A m \in (d.k + 1)..L : \A c \in Letters \cup {END} : d.chart[m][c] = 0
  BY DEF TreePart, TreeRecs
<1>4. PICK C, n, K : C = d.chart /\ n = d.n /\ K = d.k /\ d = [chart |-> C, n |-> n, k |-> K]
  BY <1>3 DEF TreeRecs
<1>5. PICK C2 : C2 = [C EXCEPT ![n][END] = i]
  OBVIOUS
<1>6. Marked(d, i) = [chart |-> C2, n |-> n, k |-> K]
  BY <1>4, <1>5 DEF Marked
<1>7. /\ C \in [0..L -> Row] /\ n \in Nat /\ K \in Nat /\ n \in 0..K /\ K <= L /\ n \in 0..L
      /\ \A m \in 0..K : m \in 0..L
      /\ \A m \in (K + 1)..L : m \in 0..L /\ m # n
  BY <1>3, <1>4 DEF TreeRecs
<1>8. END \in Letters \cup {END} /\ \A c \in Letters : c # END
  BY LettersAre
<1>9. /\ C2 \in [0..L -> Row] /\ C2[n][END] = i
      /\ \A m \in 0..L : m # n => C2[m] = C[m]
      /\ \A c \in Letters \cup {END} : c # END => C2[n][c] = C[n][c]
  BY <1>2, <1>5, <1>7, <1>8 DEF Row
<1>10. \A m \in 0..K : TreeRow(P, K, m, C2[m])
  <2> TAKE m \in 0..K
  <2>1. TreeRow(P, K, m, C[m])
    BY <1>3, <1>4
  <2>2. \A c \in Letters : C2[m][c] = C[m][c]
    BY <1>7, <1>8, <1>9
  <2>3. QED BY <2>1, <2>2 DEF TreeRow
<1>11. ASSUME NEW m \in 0..K PROVE EndRow(P, V, i, m, C2[m])
  <2>1. EndRow(P, V, i - 1, m, C[m])
    BY <1>3, <1>4
  <2>2. CASE m = n
    <3>1. C2[m][END] = i /\ P[m] = V[i]
      BY <2>2, <1>4, <1>9
    <3>2. i \in 0..i
      BY <1>2
    <3>3. QED BY <3>1, <3>2, <1>2 DEF EndRow
  <2>3. CASE m # n
    <3>1. C2[m][END] = C[m][END]
      BY <2>3, <1>7, <1>9
    <3>2. V[i] # P[m]
      BY <2>3, <1>3, <1>4, <1>7 DEF Trie
    <3>3. /\ \A x \in 0..(i - 1) : x \in 0..i
          /\ \A b \in 1..i : b = i \/ b \in 1..(i - 1)
      BY <1>2
    <3>4. QED BY <2>1, <3>1, <3>2, <3>3 DEF EndRow
  <2>4. QED BY <2>2, <2>3
<1>12. \A m \in (K + 1)..L : \A c \in Letters \cup {END} : C2[m][c] = 0
  <2> TAKE m \in (K + 1)..L
  <2>1. C2[m] = C[m]
    BY <1>7, <1>9
  <2>2. QED BY <2>1, <1>3, <1>4
<1>13. Covers(P, K, V, i)
  <2>1. \A b \in 1..i : b = i \/ b \in 1..(i - 1)
    BY <1>2
  <2>2. QED BY <2>1, <1>3, <1>4, <1>7 DEF Covers
<1>14. PICK e : e = [chart |-> C2, n |-> n, k |-> K]
  OBVIOUS
<1>15. e.chart = C2 /\ e.n = n /\ e.k = K /\ e \in [chart : [0..L -> Row], n : Nat, k : Nat]
  BY <1>7, <1>9, <1>14
<1>16. Trie(P, K)
  BY <1>3, <1>4
<1>17. TreePart(e, P, V, L, i)
  BY <1>7, <1>10, <1>11, <1>12, <1>13, <1>15, <1>16 DEF TreePart
<1>18. QED BY <1>4, <1>6, <1>14, <1>15, <1>17

DownIs(f, t, w) ==
    f = [j \in 0..Len(w) |-> IF j = 0 THEN [t EXCEPT !.n = 0] ELSE Descend(f[j - 1], w[j])]

LEMMA DownStages ==
    ASSUME NEW V \in Seq(Words), NEW L \in Nat, NEW i \in 1..Len(V), NEW t, NEW P,
           TreePart(t, P, V, L, i - 1), t.k + Len(V[i]) <= L
    PROVE  /\ \E f : DownIs(f, t, V[i])
           /\ \A f : DownIs(f, t, V[i]) =>
                f[Len(V[i])] \in Reached(V, L, i, t.k, Len(V[i]))
<1>1. PICK len \in Nat, w \in Str : len = Len(w) /\ w = V[i] /\ len # 0
  BY WordsAre
<1>2. i - 1 \in 0..Len(V)
  <2>1. Len(V) \in Nat
    OBVIOUS
  <2>2. QED BY <2>1
<1>3. t \in TreeRecs(L) /\ t.k \in Nat
  BY DEF TreePart, TreeRecs
<1>4. PICK t0 : t0 = [t EXCEPT !.n = 0]
  OBVIOUS
<1>5. t0 \in Reached(V, L, i, t.k, 0)
  <2>1. t0 \in TreeRecs(L) /\ t0.n = 0 /\ t0.k = t.k /\ t0.chart = t.chart
    BY <1>3, <1>4 DEF TreeRecs
  <2>2. 0 \in 0..t.k
    BY <1>3
  <2>3. TreePart(t0, P, V, L, i - 1)
    BY <2>1, <2>2 DEF TreePart, TreeRecs
  <2>4. P[0] = SubSeq(V[i], 1, 0)
    BY <1>1, PrefixIs DEF TreePart, Trie
  <2>5. AtLetter(t0, P, V, L, i - 1, i, 0)
    BY <1>1, <1>2, <2>1, <2>3, <2>4 DEF AtLetter
  <2>6. QED BY <1>3, <2>1, <2>5 DEF Reached
<1> DEFINE S == [j \in 0..len |-> Reached(V, L, i, t.k, j)]
           step == [j \in 1..len |-> [d \in S[j - 1] |-> Descend(d, w[j])]]
<1>6. /\ \A j \in 1..len : j - 1 \in 0..len /\ j \in 0..len /\ j # 0 /\ (j - 1) + 1 = j
      /\ 0 \in 0..len /\ len \in 0..len
      /\ \A j \in 0..len : j # 0 => j \in 1..len
      /\ \A j \in 0..(len - 1) : j + 1 \in 1..len /\ (j + 1) - 1 = j /\ j \in 0..len /\ j + 1 \in 0..len
                                /\ j < len /\ j \in Nat
  BY <1>1
<1>7. ASSUME NEW j \in 0..(len - 1), NEW d \in S[j] PROVE Descend(d, w[j + 1]) \in S[j + 1]
  <2>1. PICK Q : AtLetter(d, Q, V, L, i - 1, i, j) /\ d.k <= t.k + j
    BY <1>1, <1>6, <1>7 DEF Reached
  <2>2. d.k \in Nat /\ t.k \in Nat /\ len \in Nat /\ t.k + len <= L
    BY <1>1, <1>3, <2>1 DEF AtLetter, TreePart
  <2>3. d.k < L /\ j # Len(V[i])
    BY <1>1, <1>6, <2>1, <2>2
  <2>4. PICK e : e = Descend(d, V[i][j + 1])
    OBVIOUS
  <2>5. PICK R : AtLetter(e, R, V, L, i - 1, i, j + 1) /\ e.k <= d.k + 1
    BY <2>1, <2>3, <2>4, DescendIs
  <2>6. e \in TreeRecs(L) /\ e.k \in Nat
    BY <2>5 DEF AtLetter, TreePart, TreeRecs
  <2>7. e.k <= t.k + (j + 1)
    <3>1. PICK a \in Nat, b \in Nat, c \in Nat : a = e.k /\ b = d.k /\ c = t.k
      BY ONLY <2>2, <2>6
    <3>2. b <= c + j /\ a <= b + 1
      BY ONLY <2>1, <2>5, <3>1
    <3>3. a <= c + (j + 1)
      BY <3>2
    <3>4. QED BY ONLY <3>1, <3>3
  <2>8. e \in Reached(V, L, i, t.k, j + 1)
    BY <1>1, <2>5, <2>6, <2>7 DEF Reached
  <2>9. QED BY <1>1, <1>6, <2>4, <2>8
<1>8. Stages(S, len, step)
  <2> SUFFICES ASSUME NEW k \in 1..len, NEW y \in S[k - 1] PROVE step[k][y] \in S[k]
    BY DEF Stages
  <2>1. step[k][y] = Descend(y, w[k])
    OBVIOUS
  <2>2. k - 1 \in 0..(len - 1) /\ (k - 1) + 1 = k
    BY <1>1
  <2> HIDE DEF S, step
  <2>3. QED BY <1>7, <2>1, <2>2
<1>9. S[0] = Reached(V, L, i, t.k, 0) /\ S[len] = Reached(V, L, i, t.k, len)
  BY <1>6
<1>10. \A k \in 1..len : \A y \in S[k - 1] : step[k][y] = Descend(y, w[k])
  OBVIOUS
<1> HIDE DEF S, step
<1>11. PICK f : Runs(f, S, len, t0, step)
  BY <1>5, <1>8, <1>9, StageByStage
<1>12. DownIs(f, t, w)
  <2>1. \A k \in 1..len : f[k] = Descend(f[k - 1], w[k])
    BY <1>6, <1>10, <1>11 DEF Runs
  <2>2. \A k \in 0..len : f[k] = IF k = 0 THEN t0 ELSE Descend(f[k - 1], w[k])
    BY <1>6, <1>11, <2>1 DEF Runs
  <2>3. f = [k \in 0..len |-> f[k]]
    BY <1>11 DEF Runs
  <2>4. f = [k \in 0..len |-> IF k = 0 THEN t0 ELSE Descend(f[k - 1], w[k])]
    BY ONLY <2>2, <2>3
  <2>5. QED BY <1>1, <1>4, <2>4 DEF DownIs
<1>13. ASSUME NEW g, DownIs(g, t, w) PROVE g[len] \in S[len]
  <2>1. \A k \in 0..len : g[k] = IF k = 0 THEN t0 ELSE Descend(g[k - 1], w[k])
    BY <1>1, <1>4, <1>13 DEF DownIs
  <2> DEFINE T == {k \in 0..len : g[k] \in S[k]}
  <2>2. 0 \in T
    BY <1>5, <1>6, <1>9, <2>1
  <2>3. ASSUME NEW k \in 0..(len - 1), k \in T PROVE k + 1 \in T
    <3>1. g[k + 1] = Descend(g[k], w[k + 1])
      BY <1>6, <2>1
    <3>2. QED BY <1>6, <1>7, <2>3, <3>1
  <2> HIDE DEF T
  <2>4. \A k \in 0..len : k \in T
    BY <2>2, <2>3, UpTo
  <2>5. QED BY <1>6, <2>4 DEF T
<1>14. QED BY <1>1, <1>9, <1>12, <1>13

-----------------------------------------------------------------------------
(* The length of all words bounds the nodes.                                 *)

\* A word goes into the tree t.
LEMMA EnterIs ==
    ASSUME word_vector \in Seq(Words), NEW L \in Nat, NEW i \in 1..Len(word_vector), NEW t, NEW P,
           TreePart(t, P, word_vector, L, i - 1), t.k + Len(word_vector[i]) <= L
    PROVE  /\ \E Q : TreePart(Enter(t, i), Q, word_vector, L, i)
           /\ Enter(t, i).k <= t.k + Len(word_vector[i])
<1>1. PICK V \in Seq(Words) : V = word_vector
  OBVIOUS
<1>2. PICK len \in Nat : len = Len(V[i])
  BY <1>1, WordsAre
<1>3. /\ \E f : DownIs(f, t, V[i])
      /\ \A f : DownIs(f, t, V[i]) => f[len] \in Reached(V, L, i, t.k, len)
  BY <1>1, <1>2, DownStages
<1>4. PICK f : f = CHOOSE g : DownIs(g, t, V[i])
  OBVIOUS
<1>5. DownIs(f, t, V[i])
  BY <1>3, <1>4, Zenon
<1>6. Enter(t, i) = Marked(f[len], i)
  BY <1>1, <1>2, <1>4 DEF Enter, DownIs, Marked
<1>7. PICK d : d = f[len]
  OBVIOUS
<1>8. PICK Q : AtLetter(d, Q, V, L, i - 1, i, len) /\ d.k <= t.k + len
  BY <1>3, <1>5, <1>7 DEF Reached
<1>9. TreePart(d, Q, V, L, i - 1) /\ Q[d.n] = V[i]
  <2>1. SubSeq(V[i], 1, len) = V[i]
    BY <1>1, <1>2, WordsAre, SubSeqFull DEF Str
  <2>2. QED BY <1>8, <2>1 DEF AtLetter
<1>10. TreePart(Marked(d, i), Q, V, L, i) /\ Marked(d, i).k = d.k
  BY <1>1, <1>9, WordEnds
<1>11. QED BY <1>1, <1>2, <1>6, <1>7, <1>8, <1>10

\* words_len counts the letters of the words.
SumsUp(s, V) ==
    /\ s \in [0..Len(V) -> Nat] /\ s[0] = 0
    /\ \A i \in 1..Len(V) : s[i] = s[i - 1] + Len(V[i])

SumIs(f, V) == f = [i \in 0..Len(V) |-> IF i = 0 THEN 0 ELSE f[i - 1] + Len(V[i])]

LEMMA SumsAre ==
    ASSUME NEW V \in Seq(Words)
    PROVE  (\E f : SumIs(f, V)) /\ \A f : SumIs(f, V) => SumsUp(f, V)
<1>1. PICK len \in Nat : len = Len(V)
  OBVIOUS
<1>2. \A i \in 1..len : Len(V[i]) \in Nat
  BY <1>1, WordsAre
<1> DEFINE S == [i \in 0..len |-> Nat]
           step == [i \in 1..len |-> [x \in Nat |-> x + Len(V[i])]]
<1>3. /\ \A i \in 1..len : i - 1 \in 0..len /\ i \in 0..len /\ i # 0
      /\ 0 \in 0..len /\ len \in 0..len
      /\ \A i \in 0..len : i # 0 => i \in 1..len
      /\ \A i \in 0..(len - 1) : i + 1 \in 1..len /\ (i + 1) - 1 = i /\ i \in 0..len /\ i + 1 \in 0..len
  BY <1>1
<1>4. \A i \in 1..len : \A x \in Nat : step[i][x] = x + Len(V[i]) /\ x + Len(V[i]) \in Nat
  BY <1>2
<1>5. \A i \in 0..len : S[i] = Nat
  OBVIOUS
<1> HIDE DEF S, step
<1>6. Stages(S, len, step)
  <2> SUFFICES ASSUME NEW k \in 1..len, NEW y \in S[k - 1] PROVE step[k][y] \in S[k]
    BY DEF Stages
  <2>1. y \in Nat /\ S[k] = Nat
    BY <1>3, <1>5
  <2>2. QED BY <1>4, <2>1
<1>7. PICK f : Runs(f, S, len, 0, step)
  <2>1. 0 \in S[0]
    BY <1>3, <1>5
  <2>2. QED BY <1>6, <2>1, StageByStage
<1>8. SumIs(f, V)
  <2>1. \A i \in 0..len : f[i] \in Nat
    BY <1>5, <1>7 DEF Runs
  <2>2. \A i \in 1..len : f[i] = f[i - 1] + Len(V[i])
    BY <1>3, <1>4, <1>7, <2>1 DEF Runs
  <2>3. \A i \in 0..len : f[i] = IF i = 0 THEN 0 ELSE f[i - 1] + Len(V[i])
    BY <1>3, <1>7, <2>2 DEF Runs
  <2>4. f = [i \in 0..len |-> f[i]]
    BY <1>7 DEF Runs
  <2>5. f = [i \in 0..len |-> IF i = 0 THEN 0 ELSE f[i - 1] + Len(V[i])]
    BY ONLY <2>3, <2>4
  <2>6. QED BY <1>1, <2>5 DEF SumIs
<1>9. ASSUME NEW g, SumIs(g, V) PROVE SumsUp(g, V)
  <2>1. g = [i \in 0..len |-> IF i = 0 THEN 0 ELSE g[i - 1] + Len(V[i])]
    BY <1>1, <1>9 DEF SumIs
  <2>2. \A i \in 0..len : g[i] = IF i = 0 THEN 0 ELSE g[i - 1] + Len(V[i])
    BY <2>1
  <2> DEFINE T == {i \in 0..len : g[i] \in Nat}
  <2>3. 0 \in T
    BY <1>3, <2>2
  <2>4. ASSUME NEW i \in 0..(len - 1), i \in T PROVE i + 1 \in T
    BY <1>2, <1>3, <2>2, <2>4
  <2> HIDE DEF T
  <2>5. \A i \in 0..len : i \in T
    BY <2>3, <2>4, UpTo
  <2>6. g \in [0..len -> Nat]
    <3>1. \A i \in 0..len : g[i] \in Nat
      BY <2>5 DEF T
    <3>2. g = [i \in 0..len |-> g[i]]
      BY <2>1
    <3>3. QED BY ONLY <3>1, <3>2
  <2>7. \A i \in 1..len : g[i] = g[i - 1] + Len(V[i])
    BY <1>3, <2>2
  <2>8. QED BY <1>1, <1>3, <2>2, <2>6, <2>7 DEF SumsUp
<1>10. QED BY <1>8, <1>9

LEMMA WordsLenIs ==
    ASSUME word_vector \in Seq(Words)
    PROVE  \E s : SumsUp(s, word_vector) /\ words_len = s[Len(word_vector)]
<1>1. PICK V \in Seq(Words) : V = word_vector
  OBVIOUS
<1>2. PICK f : f = CHOOSE g : SumIs(g, V)
  OBVIOUS
<1>3. SumIs(f, V)
  BY <1>2, SumsAre, Zenon
<1>4. words_len = f[Len(V)]
  BY <1>1, <1>2 DEF words_len, SumIs
<1>5. QED BY <1>1, <1>3, <1>4, SumsAre

\* Sums grow.
LEMMA SumsGrow ==
    ASSUME NEW V \in Seq(Words), NEW s, SumsUp(s, V)
    PROVE  \A i \in 0..Len(V) : s[i] <= s[Len(V)] /\ s[Len(V)] \in Nat
<1>1. PICK len \in Nat : len = Len(V)
  OBVIOUS
<1>2. \A i \in 1..len : Len(V[i]) \in Nat
  BY <1>1, WordsAre
<1>3. s \in [0..len -> Nat] /\ \A i \in 1..len : s[i] = s[i - 1] + Len(V[i])
  BY <1>1 DEF SumsUp
<1> DEFINE T == {j \in 0..len : s[len - j] <= s[len]}
<1>4. 0 \in T
  BY <1>3
<1>5. ASSUME NEW j \in 0..(len - 1), j \in T PROVE j + 1 \in T
  <2>1. j \in 0..len /\ j + 1 \in 0..len /\ len - j \in 1..len /\ len - j \in 0..len
        /\ (len - j) - 1 = len - (j + 1) /\ len - (j + 1) \in 0..len /\ len \in 0..len
    BY <1>1
  <2>2. s[len - j] = s[len - (j + 1)] + Len(V[len - j]) /\ s[len - j] <= s[len]
    BY <1>3, <1>5, <2>1
  <2>3. s[len - j] \in Nat /\ s[len - (j + 1)] \in Nat /\ Len(V[len - j]) \in Nat /\ s[len] \in Nat
    BY <1>2, <1>3, <2>1
  <2>4. s[len - (j + 1)] <= s[len]
    BY <2>2, <2>3
  <2>5. QED BY <2>1, <2>4
<1> HIDE DEF T
<1>6. \A j \in 0..len : j \in T
  BY <1>4, <1>5, UpTo
<1>7. ASSUME NEW i \in 0..len PROVE s[i] <= s[len]
  <2>1. len - i \in 0..len /\ len - (len - i) = i
    BY <1>1
  <2>2. len - i \in T
    BY <1>6, <2>1
  <2>3. QED BY <2>1, <2>2 DEF T
<1>8. s[len] \in Nat
  BY <1>1, <1>3
<1>9. QED BY <1>1, <1>7, <1>8

\* Trees of the first i words, with no more nodes than letters.
Trees(V, L, i, b) == {t \in TreeRecs(L) : t.k <= b /\ \E P : TreePart(t, P, V, L, i)}
EmptyTree(L) ==
    [chart |-> [node \in 0..L |-> [c \in Letters \cup {END} |-> 0]], n |-> 0, k |-> 0]
TreeFun(f, V, L) ==
    f = [i \in 0..Len(V) |-> IF i = 0 THEN EmptyTree(L) ELSE Enter(f[i - 1], i)]

LEMMA EmptyTreeIs ==
    ASSUME NEW V \in Seq(Words), V # << >>, NEW L \in Nat
    PROVE  EmptyTree(L) \in Trees(V, L, 0, 0)
<1>1. PICK t : t = EmptyTree(L)
  OBVIOUS
<1>2. /\ t \in TreeRecs(L) /\ t.n = 0 /\ t.k = 0
      /\ \A m \in 0..L : \A c \in Letters \cup {END} : t.chart[m][c] = 0
  BY <1>1 DEF EmptyTree, TreeRecs, Row
<1> DEFINE P == [m \in 0..0 |-> << >>]
<1>3. << >> \in Str /\ P[0] = << >> /\ 0..0 = {0} /\ 1..0 = {} /\ 0 \in 0..L /\ 0 <= L
  BY DEF Str
<1>4. P \in [0..0 -> Str]
  BY <1>3
<1> HIDE DEF P
<1>5. Trie(P, 0)
  <2>1. \A m, n \in 0..0 : P[m] = P[n] => m = n
    BY <1>3
  <2>2. \A n \in 1..0 : \E m \in 0..0, c \in Letters : P[n] = Append(P[m], c)
    BY <1>3
  <2>3. QED BY <1>3, <1>4, <2>1, <2>2 DEF Trie
<1>6. Covers(P, 0, V, 0)
  <2>1. 1 \in 1..Len(V)
    <3>1. Len(V) \in Nat \ {0}
      BY EmptySeq
    <3>2. QED BY <3>1
  <2>2. V[1] \in Str /\ Len(V[1]) \in Nat \ {0}
    BY <2>1, WordsAre
  <2>3. 0 \in 0..Len(V[1]) /\ SubSeq(V[1], 1, 0) = << >>
    BY <2>2, PrefixIs
  <2>4. \A m \in 0..0 : P[m] = << >>
    BY <1>3
  <2>5. QED BY <1>3, <2>1, <2>3, <2>4 DEF Covers
<1>7. \A m \in 0..0 : TreeRow(P, 0, m, t.chart[m]) /\ EndRow(P, V, 0, m, t.chart[m])
  <2> TAKE m \in 0..0
  <2>1. m = 0 /\ \A c \in Letters \cup {END} : t.chart[0][c] = 0
    BY <1>2, <1>3
  <2>2. \A c \in Letters : \A q \in 0..0 : P[q] # Append(P[0], c)
    <3> TAKE c \in Letters
    <3>1. Append(<< >>, c) # << >>
      BY <1>3, AppendDiffers
    <3>2. QED BY <1>3, <3>1
  <2>3. \A c \in Letters : t.chart[m][c] = 0
    BY <2>1
  <2>4. t.chart[m][END] = 0 /\ 0 \in 0..0
    BY <2>1
  <2>5. QED BY <1>3, <2>1, <2>2, <2>3, <2>4 DEF TreeRow, EndRow
<1>8. \A m \in (0 + 1)..L : \A c \in Letters \cup {END} : t.chart[m][c] = 0
  <2>1. \A m \in (0 + 1)..L : m \in 0..L
    OBVIOUS
  <2>2. QED BY <1>2, <2>1
<1>9. TreePart(t, P, V, L, 0)
  BY <1>2, <1>3, <1>5, <1>6, <1>7, <1>8 DEF TreePart, TreeRecs
<1>10. QED BY <1>1, <1>2, <1>9 DEF Trees

LEMMA TreeIs ==
    ASSUME word_vector \in Seq(Words), word_vector # << >>
    PROVE  /\ words_len \in Nat
           /\ \E t, P : /\ TreePart(t, P, word_vector, words_len, Len(word_vector))
                        /\ Tree = t.chart
<1>1. PICK V \in Seq(Words), len \in Nat : V = word_vector /\ len = Len(V)
  OBVIOUS
<1>2. PICK s : SumsUp(s, V) /\ words_len = s[len]
  BY <1>1, WordsLenIs
<1>3. PICK L \in Nat : L = words_len
  <2>1. len \in 0..Len(V)
    BY <1>1
  <2>2. QED BY <1>1, <1>2, <2>1, SumsGrow
<1>4. /\ \A i \in 0..len : s[i] \in Nat /\ s[i] <= L
      /\ s[0] = 0
      /\ \A i \in 1..len : s[i] = s[i - 1] + Len(V[i])
  <2>1. s \in [0..len -> Nat] /\ s[0] = 0 /\ \A i \in 1..len : s[i] = s[i - 1] + Len(V[i])
    BY <1>1, <1>2 DEF SumsUp
  <2>2. \A i \in 0..len : s[i] <= L
    BY <1>1, <1>2, <1>3, SumsGrow
  <2>3. QED BY <2>1, <2>2
<1>5. /\ \A i \in 1..len : i - 1 \in 0..len /\ i \in 0..len /\ i # 0
      /\ 0 \in 0..len /\ len \in 0..len
      /\ \A i \in 0..len : i # 0 => i \in 1..len
      /\ \A i \in 0..(len - 1) : i + 1 \in 1..len /\ (i + 1) - 1 = i /\ i \in 0..len /\ i + 1 \in 0..len
      /\ \A i \in 1..len : i - 1 \in 0..(len - 1) /\ (i - 1) + 1 = i
  BY <1>1
<1> DEFINE S == [i \in 0..len |-> Trees(V, L, i, s[i])]
           step == [i \in 1..len |-> [t \in S[i - 1] |-> Enter(t, i)]]
<1>6. \A i \in 0..len : S[i] = Trees(V, L, i, s[i])
  OBVIOUS
<1>7. \A i \in 1..len : \A t \in S[i - 1] : step[i][t] = Enter(t, i)
  OBVIOUS
<1> HIDE DEF S, step
<1>8. ASSUME NEW i \in 1..len, NEW t \in S[i - 1] PROVE Enter(t, i) \in S[i]
  <2>1. PICK P : TreePart(t, P, V, L, i - 1) /\ t.k <= s[i - 1] /\ t \in TreeRecs(L)
    BY <1>5, <1>6, <1>8 DEF Trees
  <2>2. Len(V[i]) \in Nat /\ t.k \in Nat /\ s[i] \in Nat /\ s[i - 1] \in Nat /\ s[i] <= L
        /\ s[i] = s[i - 1] + Len(V[i])
    BY <1>1, <1>4, <1>5, <2>1, WordsAre DEF TreeRecs
  <2>3. t.k + Len(V[i]) <= L /\ t.k + Len(V[i]) <= s[i]
    BY <2>1, <2>2
  <2>4. (\E Q : TreePart(Enter(t, i), Q, V, L, i)) /\ Enter(t, i).k <= t.k + Len(V[i])
    BY <1>1, <2>1, <2>3, EnterIs
  <2>5. PICK e, Q : e = Enter(t, i) /\ TreePart(e, Q, V, L, i) /\ e.k <= t.k + Len(V[i])
    BY <2>4
  <2>6. e \in TreeRecs(L) /\ e.k \in Nat
    BY <2>5 DEF TreePart, TreeRecs
  <2>7. e.k <= s[i]
    BY <2>2, <2>3, <2>5, <2>6
  <2>8. QED BY <1>5, <1>6, <2>5, <2>6, <2>7 DEF Trees
<1>9. EmptyTree(L) \in S[0]
  BY <1>1, <1>4, <1>5, <1>6, EmptyTreeIs
<1>10. Stages(S, len, step)
  <2> SUFFICES ASSUME NEW k \in 1..len, NEW y \in S[k - 1] PROVE step[k][y] \in S[k]
    BY DEF Stages
  <2>1. QED BY <1>7, <1>8
<1>11. PICK f : Runs(f, S, len, EmptyTree(L), step)
  BY <1>9, <1>10, StageByStage
<1>12. TreeFun(f, V, L)
  <2>1. \A i \in 1..len : f[i] = Enter(f[i - 1], i)
    BY <1>5, <1>7, <1>11 DEF Runs
  <2>2. \A i \in 0..len : f[i] = IF i = 0 THEN EmptyTree(L) ELSE Enter(f[i - 1], i)
    BY <1>5, <1>11, <2>1 DEF Runs
  <2>3. f = [i \in 0..len |-> f[i]]
    BY <1>11 DEF Runs
  <2>4. f = [i \in 0..len |-> IF i = 0 THEN EmptyTree(L) ELSE Enter(f[i - 1], i)]
    BY ONLY <2>2, <2>3
  <2>5. QED BY <1>1, <2>4 DEF TreeFun
<1>13. PICK g : g = CHOOSE h : TreeFun(h, V, L)
  OBVIOUS
<1>14. TreeFun(g, V, L)
  BY <1>12, <1>13, Zenon
<1>15. g[len] \in S[len]
  <2>1. \A i \in 0..len : g[i] = IF i = 0 THEN EmptyTree(L) ELSE Enter(g[i - 1], i)
    BY <1>1, <1>14 DEF TreeFun
  <2> DEFINE T == {i \in 0..len : g[i] \in S[i]}
  <2>2. 0 \in T
    BY <1>5, <1>9, <2>1
  <2>3. ASSUME NEW i \in 0..(len - 1), i \in T PROVE i + 1 \in T
    <3>1. i + 1 \in 1..len /\ (i + 1) - 1 = i /\ i + 1 \in 0..len /\ i + 1 # 0
      BY <1>5
    <3>2. g[i + 1] = Enter(g[i], i + 1)
      BY <2>1, <3>1
    <3>3. g[i] \in S[(i + 1) - 1]
      BY <2>3, <3>1
    <3>4. QED BY <1>8, <3>1, <3>2, <3>3
  <2> HIDE DEF T
  <2>4. \A i \in 0..len : i \in T
    BY <2>2, <2>3, UpTo
  <2>5. QED BY <1>5, <2>4 DEF T
<1>16. Tree = g[len].chart
  BY <1>1, <1>3, <1>13 DEF Tree, TreeFun, EmptyTree
<1>17. PICK t, P : t = g[len] /\ TreePart(t, P, V, L, len)
  BY <1>5, <1>6, <1>15 DEF Trees
<1>18. QED BY <1>1, <1>3, <1>16, <1>17

-----------------------------------------------------------------------------
(* The loops over the letters. *)

Chars == 1..255
Quiet(S) == \A c \in Chars : c \notin Letters => S[c - 1] \subseteq S[c]
\* step[c] takes what may hold before the letter c to what may hold after it.
LetterStages(S, step) == Quiet(S) /\ \A c \in Letters : \A y \in S[c - 1] : step[c][y] \in S[c]
LetterRuns(f, S, x, step) ==
    /\ f = [c \in Letters \cup {0} |-> f[c]] /\ f[0] = x
    /\ \A c \in Letters : f[c] = step[c][f[Before(c)]] /\ f[Before(c)] \in S[c - 1]

LEMMA LargestIs ==
    ASSUME NEW T \in SUBSET (0..255), T # {}
    PROVE  Max(T) \in T /\ \A y \in T : y <= Max(T)
<1> DEFINE U == {i \in 0..255 : 255 - i \in T}
<1>1. PICK t \in T : TRUE
  OBVIOUS
<1>2. /\ \A i \in 0..255 : 255 - i \in 0..255 /\ 255 - (255 - i) = i
      /\ \A i, j \in 0..255 : i <= 255 - j => j <= 255 - i
  OBVIOUS
<1>3. U \in SUBSET Nat /\ U # {}
  <2>1. 255 - t \in U
    BY <1>1, <1>2
  <2>2. U \subseteq 0..255
    OBVIOUS
  <2> HIDE DEF U
  <2>3. QED BY <2>1, <2>2
<1>4. PICK n \in U : \A m \in U : n <= m
  <2> HIDE DEF U
  <2>1. QED BY <1>3, LeastNat
<1>5. 255 - n \in T /\ \A y \in T : y <= 255 - n
  <2>1. \A y \in T : 255 - y \in U
    BY <1>2
  <2>2. \A y \in T : n <= 255 - y
    BY <1>4, <2>1
  <2>3. n \in 0..255 /\ \A y \in T : y \in 0..255
    OBVIOUS
  <2>4. QED BY <1>2, <2>2, <2>3
<1>6. \E x \in T : \A y \in T : x >= y
  <2>1. \A y \in T : y \in Int /\ 255 - n \in Int
    OBVIOUS
  <2>2. QED BY <1>5, <2>1
<1>7. Max(T) \in T /\ \A y \in T : Max(T) >= y
  BY <1>6 DEF Max
<1>8. QED BY <1>7

LEMMA BeforeIs ==
    ASSUME NEW c \in Letters
    PROVE  /\ Before(c) \in Letters \cup {0} /\ Before(c) \in 0..(c - 1) /\ c \in Chars
           /\ \A d \in (Before(c) + 1)..(c - 1) : d \notin Letters
<1> DEFINE T == {i \in Letters \cup {0} : i < c}
<1>1. c \in Chars /\ Letters \subseteq Chars
  BY LettersAre DEF Chars
<1>2. T \in SUBSET (0..255) /\ 0 \in T
  <2>1. c \in 1..255 /\ \A i \in Letters \cup {0} : i \in 0..255
    BY <1>1 DEF Chars
  <2>2. 0 < c
    BY <2>1
  <2>3. QED BY <2>1, <2>2
<1>3. Before(c) = Max(T)
  BY DEF Before
<1>4. Max(T) \in T /\ \A y \in T : y <= Max(T)
  BY <1>2, LargestIs
<1>5. PICK b \in T : b = Before(c)
  BY <1>3, <1>4
<1>6. b \in Letters \cup {0} /\ b \in 0..(c - 1)
  BY <1>1, <1>2 DEF Chars
<1>7. ASSUME NEW d \in (b + 1)..(c - 1), d \in Letters PROVE FALSE
  <2>1. d \in T
    BY <1>1, <1>6, <1>7 DEF Chars
  <2>2. d <= b
    BY <1>3, <1>4, <1>5, <2>1
  <2>3. QED BY <1>6, <1>7, <2>2
<1>8. QED BY <1>1, <1>5, <1>6, <1>7

LEMMA LastIs ==
    /\ LastLetter \in Letters \cup {0} /\ LastLetter \in 0..255
    /\ \A d \in (LastLetter + 1)..255 : d \notin Letters
<1> DEFINE T == Letters \cup {0}
<1>1. T \in SUBSET (0..255) /\ 0 \in T
  BY LettersAre
<1>2. LastLetter = Max(T)
  BY DEF LastLetter
<1>3. Max(T) \in T /\ \A y \in T : y <= Max(T)
  BY <1>1, LargestIs
<1>4. PICK b \in 0..255 : b = LastLetter
  BY <1>1, <1>2, <1>3
<1>5. \A d \in (b + 1)..255 : d \notin Letters
  <2> SUFFICES ASSUME NEW d \in (b + 1)..255, d \in Letters PROVE FALSE
    OBVIOUS
  <2>1. d <= b
    BY <1>2, <1>3, <1>4
  <2>2. QED BY <2>1
<1>6. QED BY <1>2, <1>3, <1>4, <1>5

\* Where there is no letter, what held goes on to hold.
LEMMA QuietGrows ==
    ASSUME NEW S, Quiet(S), NEW b \in 0..255, NEW d \in b..255,
           \A c \in (b + 1)..d : c \notin Letters
    PROVE  S[b] \subseteq S[d]
<1> DEFINE T == {k \in 0..(d - b) : S[b] \subseteq S[b + k]}
<1>1. 0 \in T
  OBVIOUS
<1>2. ASSUME NEW k \in 0..((d - b) - 1), k \in T PROVE k + 1 \in T
  <2>1. /\ b + (k + 1) \in Chars /\ b + (k + 1) \in (b + 1)..d /\ (b + (k + 1)) - 1 = b + k
        /\ k + 1 \in 0..(d - b)
    BY DEF Chars
  <2>2. S[b + k] \subseteq S[b + (k + 1)]
    BY <2>1 DEF Quiet
  <2>3. QED BY <1>2, <2>1, <2>2
<1>3. d - b \in Nat /\ b + (d - b) = d
  OBVIOUS
<1> HIDE DEF T
<1>4. \A k \in 0..(d - b) : k \in T
  BY <1>1, <1>2, <1>3, UpTo
<1>5. d - b \in T
  BY <1>3, <1>4
<1>6. QED BY <1>3, <1>5 DEF T

LEMMA LetterByLetter ==
    ASSUME NEW S, NEW step, NEW x \in S[0], LetterStages(S, step)
    PROVE  \E f : LetterRuns(f, S, x, step)
<1> DEFINE all == [c \in Chars |-> IF c \in Letters THEN step[c] ELSE [y \in S[c - 1] |-> y]]
<1>1. \A c \in Chars : \A y \in S[c - 1] : all[c][y] = IF c \in Letters THEN step[c][y] ELSE y
  OBVIOUS
<1> HIDE DEF all
<1>2. Stages(S, 255, all)
  <2> SUFFICES ASSUME NEW c \in 1..255, NEW y \in S[c - 1] PROVE all[c][y] \in S[c]
    BY DEF Stages
  <2>1. c \in Chars
    BY DEF Chars
  <2>2. QED BY <1>1, <2>1 DEF LetterStages, Quiet
<1>3. PICK g : Runs(g, S, 255, x, all)
  BY <1>2, StageByStage
<1>4. /\ g[0] = x /\ \A c \in 0..255 : g[c] \in S[c]
      /\ \A c \in Chars : g[c] = all[c][g[c - 1]] /\ g[c - 1] \in S[c - 1] /\ c - 1 \in 0..255
  <2>1. \A c \in Chars : c - 1 \in 0..255
    BY DEF Chars
  <2>2. QED BY <1>3, <2>1, Zenon DEF Runs, Chars
<1>5. ASSUME NEW c \in Letters PROVE g[Before(c)] = g[c - 1]
  <2>1. PICK b \in 0..(c - 1) : b = Before(c) /\ c \in Chars /\ \A d \in (b + 1)..(c - 1) : d \notin Letters
    BY BeforeIs
  <2> DEFINE T == {k \in 0..((c - 1) - b) : g[b + k] = g[b]}
  <2>2. 0 \in T
    BY <2>1 DEF Chars
  <2>3. ASSUME NEW k \in 0..(((c - 1) - b) - 1), k \in T PROVE k + 1 \in T
    <3>1. /\ b + (k + 1) \in Chars /\ b + (k + 1) \in (b + 1)..(c - 1) /\ (b + (k + 1)) - 1 = b + k
          /\ k + 1 \in 0..((c - 1) - b)
      <4>1. c \in 1..255 /\ b \in 0..(c - 1) /\ k \in 0..(((c - 1) - b) - 1)
        BY <2>1, <2>3 DEF Chars
      <4>2. QED BY ONLY <4>1 DEF Chars
    <3>2. g[b + (k + 1)] = g[b + k]
      BY <1>1, <1>4, <2>1, <3>1
    <3>3. QED BY <2>3, <3>1, <3>2
  <2>4. (c - 1) - b \in Nat /\ b + ((c - 1) - b) = c - 1
    BY <2>1 DEF Chars
  <2> HIDE DEF T
  <2>5. \A k \in 0..((c - 1) - b) : k \in T
    BY <2>2, <2>3, <2>4, UpTo
  <2>6. (c - 1) - b \in T
    BY <2>4, <2>5
  <2>7. QED BY <2>1, <2>4, <2>6 DEF T
<1> DEFINE f == [c \in Letters \cup {0} |-> g[c]]
<1>6. f = [c \in Letters \cup {0} |-> f[c]] /\ \A c \in Letters \cup {0} : f[c] = g[c]
  OBVIOUS
<1> HIDE DEF f
<1>7. \A c \in Letters : f[c] = step[c][f[Before(c)]] /\ f[Before(c)] \in S[c - 1]
  <2> TAKE c \in Letters
  <2>1. c \in Chars /\ Before(c) \in Letters \cup {0}
    BY BeforeIs
  <2>2. f[Before(c)] = g[c - 1]
    BY <1>5, <1>6, <2>1
  <2>3. g[c] = step[c][g[c - 1]]
    BY <1>1, <1>4, <2>1
  <2>4. QED BY <1>4, <1>6, <2>1, <2>2, <2>3
<1>8. QED BY <1>4, <1>6, <1>7 DEF LetterRuns

LEMMA LettersEnd ==
    ASSUME NEW S, NEW f, Quiet(S), f[0] \in S[0],
           \A c \in Letters : f[Before(c)] \in S[c - 1] => f[c] \in S[c]
    PROVE  f[LastLetter] \in S[255]
<1> DEFINE T == {d \in 0..255 : \A b \in Letters \cup {0} : b <= d => f[b] \in S[b]}
<1>1. 0 \in T
  <2>1. \A b \in Letters \cup {0} : b <= 0 => b = 0
    BY LettersAre
  <2>2. QED BY <2>1
<1>2. ASSUME NEW d \in 0..(255 - 1), d \in T PROVE d + 1 \in T
  <2> SUFFICES ASSUME NEW b \in Letters \cup {0}, b <= d + 1, ~(b <= d) PROVE f[b] \in S[b]
    BY <1>2
  <2>1. b \in Letters /\ b = d + 1
    BY LettersAre
  <2>2. PICK a \in Letters \cup {0} : a = Before(b)
    BY <2>1, BeforeIs
  <2>3. a \in 0..(b - 1) /\ b \in Chars /\ \A e \in (a + 1)..(b - 1) : e \notin Letters
    BY <2>1, <2>2, BeforeIs
  <2>4. a \in 0..255 /\ b - 1 \in a..255 /\ a <= d
    BY <2>1, <2>3 DEF Chars
  <2>5. f[a] \in S[a]
    BY <1>2, <2>4, Zenon
  <2>6. S[a] \subseteq S[b - 1]
    BY <2>3, <2>4, QuietGrows, Zenon
  <2>7. QED BY <2>1, <2>2, <2>5, <2>6
<1> HIDE DEF T
<1>3. \A d \in 0..255 : d \in T
  BY <1>1, <1>2, UpTo
<1>4. f[LastLetter] \in S[LastLetter]
  <2>1. 255 \in T /\ LastLetter \in Letters \cup {0} /\ LastLetter <= 255
    BY <1>3, LastIs
  <2>2. QED BY <2>1 DEF T
<1>5. S[LastLetter] \subseteq S[255]
  <2>1. PICK b \in 0..255 : b = LastLetter
    BY LastIs
  <2>2. 255 \in b..255 /\ \A d \in (b + 1)..255 : d \notin Letters
    BY <2>1, LastIs
  <2>3. PICK d : d = 255
    OBVIOUS
  <2>4. S[b] \subseteq S[d]
    <3>1. d \in b..255 /\ \A c \in (b + 1)..d : c \notin Letters
      BY <2>2, <2>3
    <3>2. QED BY <3>1, QuietGrows, Zenon
  <2>5. QED BY <2>1, <2>3, <2>4
<1>6. QED BY <1>4, <1>5

-----------------------------------------------------------------------------
(* What the loop of VisitNode, and that of BuildTree, leave. *)

Start(C, Q, F, l) == [chart |-> C, queue |-> Q, fail |-> F, tail |-> l]
VisitFun(f, x) == f = [c \in Letters \cup {0} |-> IF c = 0 THEN x ELSE Letter(f[Before(c)], c)]

LEMMA VisitIs ==
    ASSUME NEW S, Quiet(S), Start(chart, queue, fail, tail) \in S[0],
           \A c \in Letters : \A b \in S[c - 1] : Letter(b, c) \in S[c], VisitNode
    PROVE  \E b \in S[255] : chart' = b.chart /\ queue' = b.queue /\ fail' = b.fail /\ tail' = b.tail
<1>1. PICK x : x = Start(chart, queue, fail, tail)
  OBVIOUS
<1> DEFINE step == [c \in Letters |-> [b \in S[c - 1] |-> Letter(b, c)]]
<1>2. \A c \in Letters : \A b \in S[c - 1] : step[c][b] = Letter(b, c)
  OBVIOUS
<1> HIDE DEF step
<1>3. LetterStages(S, step)
  BY <1>2 DEF LetterStages
<1>4. PICK f : LetterRuns(f, S, x, step)
  BY <1>1, <1>3, LetterByLetter
<1>5. 0 \notin Letters
  BY LettersAre
<1>6. VisitFun(f, x)
  <2>1. \A c \in Letters : f[c] = Letter(f[Before(c)], c)
    BY <1>2, <1>4 DEF LetterRuns
  <2>2. \A c \in Letters \cup {0} : f[c] = IF c = 0 THEN x ELSE Letter(f[Before(c)], c)
    BY <1>4, <1>5, <2>1 DEF LetterRuns
  <2>3. f = [c \in Letters \cup {0} |-> f[c]]
    BY <1>4 DEF LetterRuns
  <2>4. QED BY ONLY <2>2, <2>3 DEF VisitFun
<1>7. PICK g : g = CHOOSE h : VisitFun(h, x)
  OBVIOUS
<1>8. VisitFun(g, x)
  BY <1>6, <1>7, Zenon
<1>9. g[LastLetter] \in S[255]
  <2>1. \A c \in Letters \cup {0} : g[c] = IF c = 0 THEN x ELSE Letter(g[Before(c)], c)
    BY <1>8 DEF VisitFun
  <2>2. g[0] \in S[0]
    BY <1>1, <2>1
  <2>3. ASSUME NEW c \in Letters, g[Before(c)] \in S[c - 1] PROVE g[c] \in S[c]
    BY <1>5, <2>1, <2>3
  <2>4. QED BY <2>2, <2>3, LettersEnd
<1>10. LET b == g[LastLetter]
       IN  chart' = b.chart /\ queue' = b.queue /\ fail' = b.fail /\ tail' = b.tail
  BY <1>1, <1>7 DEF VisitNode, VisitFun, Start
<1>11. QED BY <1>9, <1>10

First(C, Q, l) == [chart |-> C, queue |-> Q, tail |-> l]
FirstFun(f, x) == f = [c \in Letters \cup {0} |-> IF c = 0 THEN x ELSE FirstLetter(f[Before(c)], c)]

LEMMA FirstIs ==
    ASSUME NEW S, Quiet(S), First(Tree, Zeros(words_len), 0) \in S[0],
           \A c \in Letters : \A b \in S[c - 1] : FirstLetter(b, c) \in S[c], BuildTree
    PROVE  \E b \in S[255] : chart' = b.chart /\ queue' = b.queue /\ tail' = b.tail
<1>1. PICK x : x = First(Tree, Zeros(words_len), 0)
  OBVIOUS
<1> DEFINE step == [c \in Letters |-> [b \in S[c - 1] |-> FirstLetter(b, c)]]
<1>2. \A c \in Letters : \A b \in S[c - 1] : step[c][b] = FirstLetter(b, c)
  OBVIOUS
<1> HIDE DEF step
<1>3. LetterStages(S, step)
  BY <1>2 DEF LetterStages
<1>4. PICK f : LetterRuns(f, S, x, step)
  BY <1>1, <1>3, LetterByLetter
<1>5. 0 \notin Letters
  BY LettersAre
<1>6. FirstFun(f, x)
  <2>1. \A c \in Letters : f[c] = FirstLetter(f[Before(c)], c)
    BY <1>2, <1>4 DEF LetterRuns
  <2>2. \A c \in Letters \cup {0} : f[c] = IF c = 0 THEN x ELSE FirstLetter(f[Before(c)], c)
    BY <1>4, <1>5, <2>1 DEF LetterRuns
  <2>3. f = [c \in Letters \cup {0} |-> f[c]]
    BY <1>4 DEF LetterRuns
  <2>4. QED BY ONLY <2>2, <2>3 DEF FirstFun
<1>7. PICK g : g = CHOOSE h : FirstFun(h, x)
  OBVIOUS
<1>8. FirstFun(g, x)
  BY <1>6, <1>7, Zenon
<1>9. g[LastLetter] \in S[255]
  <2>1. \A c \in Letters \cup {0} : g[c] = IF c = 0 THEN x ELSE FirstLetter(g[Before(c)], c)
    BY <1>8 DEF FirstFun
  <2>2. g[0] \in S[0]
    BY <1>1, <2>1
  <2>3. ASSUME NEW c \in Letters, g[Before(c)] \in S[c - 1] PROVE g[c] \in S[c]
    BY <1>5, <2>1, <2>3
  <2>4. QED BY <2>2, <2>3, LettersEnd
<1>10. LET b == g[LastLetter]
       IN  chart' = b.chart /\ queue' = b.queue /\ tail' = b.tail
  BY <1>1, <1>7 DEF BuildTree, FirstFun, First
<1>11. QED BY <1>9, <1>10

-----------------------------------------------------------------------------
(* am_build at work: g says how far the row of each node is complete. *)

Entry(P, K, n, c, j) ==
    /\ j \in 0..K
    /\ j = 0 => \A m \in 0..K : P[m] # Append(P[n], c)
    /\ j # 0 => P[j] = Append(P[n], c)
Tree0(V, L, P, K) == /\ L \in Nat \ {0} /\ K \in 0..L /\ Trie(P, K)
                     /\ Covers(P, K, V, Len(V))
Ends(C, V, P, K) == \A m \in 0..K : EndRow(P, V, Len(V), m, C[m])
Tabled(C, L, P, K, g) ==
    /\ C \in [0..L -> Row] /\ g \in [0..K -> 0..255]
    /\ \A m \in 0..K : \A x \in Letters :
         IF x <= g[m] THEN Best(P, K, Append(P[m], x), C[m][x]) ELSE Entry(P, K, m, x, C[m][x])
InQueue(Q, e, j) == \E i \in 0..(e - 1) : Q[i] = j
Queued(Q, F, L, P, K, e, g) ==
    /\ Q \in [0..L -> Nat] /\ F \in [0..L -> Nat] /\ e \in 0..K
    /\ \A i \in 0..(e - 1) : Q[i] \in 1..K /\ Best(P, K, Tail(P[Q[i]]), F[i])
    /\ \A i, k \in 0..(e - 1) : Q[i] = Q[k] => i = k
    /\ \A i, k \in 0..(e - 1) : i <= k => Len(P[Q[i]]) <= Len(P[Q[k]])
    /\ \A m \in 0..K : \A x \in Letters : \A j \in 1..K :
         P[j] = Append(P[m], x) => (InQueue(Q, e, j) <=> x <= g[m])
\* The next letter of the node n, x.
Goes(K, g, n, x, h) ==
    /\ n \in 0..K /\ x \in Chars /\ g[n] = x - 1
    /\ h \in [0..K -> 0..255] /\ h[n] = x /\ \A m \in 0..K : m # n => h[m] = g[m]

LEMMA CanGo ==
    ASSUME NEW K \in Nat, NEW g \in [0..K -> 0..255], NEW n \in 0..K, NEW x \in Chars, g[n] = x - 1
    PROVE  \E h : Goes(K, g, n, x, h)
<1> DEFINE h == [g EXCEPT ![n] = x]
<1>1. h \in [0..K -> 0..255] /\ h[n] = x /\ \A m \in 0..K : m # n => h[m] = g[m]
  BY DEF Chars
<1>2. QED BY <1>1 DEF Goes

LEMMA UpToLetter ==
    ASSUME NEW K, NEW g \in [0..K -> 0..255], NEW n, NEW x, NEW h, Goes(K, g, n, x, h), NEW m \in 0..K,
           NEW y \in Letters, ~(m = n /\ y = x)
    PROVE  y <= h[m] <=> y <= g[m]
<1>1. y \in Int /\ g[m] \in Int /\ h[m] \in Int /\ x \in Int
  <2>1. y \in Int
    BY LettersAre
  <2>2. h \in [0..K -> 0..255] /\ x \in 1..255
    BY DEF Goes, Chars
  <2>3. g[m] \in 0..255 /\ h[m] \in 0..255
    BY <2>2
  <2>4. 0..255 \subseteq Int /\ 1..255 \subseteq Int
    OBVIOUS
  <2>5. QED BY ONLY <2>1, <2>2, <2>3, <2>4
<1>2. CASE m # n
  BY <1>1, <1>2 DEF Goes
<1>3. CASE m = n
  <2>1. h[m] = x /\ g[m] = x - 1 /\ y # x
    BY <1>3 DEF Goes
  <2>2. QED BY <1>1, <2>1
<1>4. QED BY <1>2, <1>3

\* Every node less deep than D is visited, if those in the queue are.
LEMMA Shallow ==
    ASSUME NEW P, NEW K, Trie(P, K), NEW Q, NEW F, NEW L, NEW e, NEW g,
           Queued(Q, F, L, P, K, e, g), g[0] = 255, NEW D \in Nat,
           \A i \in 0..(e - 1) : Len(P[Q[i]]) < D => g[Q[i]] = 255
    PROVE  \A m \in 0..K : Len(P[m]) < D => g[m] = 255
<1> SUFFICES ASSUME NEW m \in 0..K, Len(P[m]) < D, g[m] # 255 PROVE FALSE
  OBVIOUS
<1> DEFINE T == {l \in Nat : \E q \in 0..K : g[q] # 255 /\ l = Len(P[q])}
<1>1. T \in SUBSET Nat /\ T # {}
  <2>1. \A q \in 0..K : Len(P[q]) \in Nat
    BY TrieNode
  <2>2. Len(P[m]) \in T
    OBVIOUS
  <2>3. QED BY <2>1, <2>2, Zenon
<1>2. PICK l \in T : \A k \in T : l <= k
  <2> HIDE DEF T
  <2>1. QED BY <1>1, LeastNat
<1>3. PICK q \in 0..K : l = Len(P[q]) /\ g[q] # 255
  BY <1>2
<1>4. \A k \in 0..K : g[k] # 255 => Len(P[q]) <= Len(P[k])
  BY <1>2, <1>3
<1>5. q \in 1..K
  BY <1>3
<1>6. PICK p \in 0..K, x \in Letters : P[q] = Append(P[p], x)
  <2>1. \A k \in 1..K : \E p \in 0..K, x \in Letters : P[k] = Append(P[p], x)
    BY Zenon DEF Trie
  <2>2. QED BY <1>5, <2>1
<1>7. P[p] \in Str /\ x \in Int /\ Len(P[q]) \in Nat /\ Len(P[m]) \in Nat
  BY TrieNode, LettersAre
<1>8. Len(P[q]) = Len(P[p]) + 1 /\ Len(P[p]) \in Nat
  BY <1>6, <1>7, AppendProperties DEF Str
<1>9. g[p] = 255
  <2>1. g[p] # 255 => Len(P[q]) <= Len(P[p])
    BY <1>4
  <2>2. QED BY <2>1, <1>8
<1>10. x <= 255
  BY LettersAre
<1>11. InQueue(Q, e, q)
  BY <1>5, <1>6, <1>9, <1>10 DEF Queued
<1>12. PICK i \in 0..(e - 1) : Q[i] = q
  BY <1>11 DEF InQueue
<1>13. Len(P[q]) <= Len(P[m])
  BY <1>4
<1>14. QED BY <1>3, <1>7, <1>12, <1>13

\* There is a place for a node that is not in the queue.
LEMMA RoomIs ==
    ASSUME NEW Q, NEW e \in Nat, NEW K \in Nat, \A i \in 0..(e - 1) : Q[i] \in 1..K,
           \A i, k \in 0..(e - 1) : Q[i] = Q[k] => i = k,
           NEW j \in 1..K, ~InQueue(Q, e, j)
    PROVE  e < K
<1> DEFINE f == [i \in 0..e |-> IF i = e THEN j ELSE Q[i]]
<1>1. \A i \in 0..e : i = e \/ i \in 0..(e - 1)
  OBVIOUS
<1>2. f \in [0..e -> 1..K]
  BY <1>1
<1>3. \A a, b \in 0..e : f[a] = f[b] => a = b
  BY <1>1 DEF InQueue
<1>4. ASSUME K < e + 1 PROVE FALSE
  <2>1. IsFiniteSet(1..K) /\ Cardinality(1..K) = K
    <3>1. PICK a \in Int : a = 1
      OBVIOUS
    <3>2. IsFiniteSet(a..K) /\ Cardinality(a..K) = IF a > K THEN 0 ELSE K - a + 1
      BY FS_Interval
    <3>3. QED BY <3>1, <3>2
  <2>2. IsFiniteSet(0..e) /\ Cardinality(0..e) = e + 1
    <3>1. PICK a \in Int : a = 0
      OBVIOUS
    <3>2. IsFiniteSet(a..e) /\ Cardinality(a..e) = IF a > e THEN 0 ELSE e - a + 1
      BY FS_Interval
    <3>3. QED BY <3>1, <3>2
  <2> HIDE DEF f
  <2>3. Cardinality(1..K) < Cardinality(0..e)
    BY <1>4, <2>1, <2>2
  <2>4. PICK S, T : S = 0..e /\ T = 1..K
    OBVIOUS
  <2>5. \E a, b \in S : a # b /\ f[a] = f[b]
    <3>1. IsFiniteSet(S) /\ IsFiniteSet(T) /\ Cardinality(T) < Cardinality(S)
      BY <2>1, <2>2, <2>3, <2>4
    <3>2. f \in [S -> T]
      BY <1>2, <2>4
    <3>3. QED BY ONLY <3>1, <3>2, FS_PigeonHole
  <2>6. QED BY <1>3, <2>4, <2>5
<1>5. QED BY <1>4

-----------------------------------------------------------------------------
(* A child is put into the queue.                                            *)

Changed(C, D, L, K, n, x) ==
    /\ D \in [0..L -> Row]
    /\ \A m \in 0..K : \A y \in Letters \cup {END} : ~(m = n /\ y = x) => D[m][y] = C[m][y]

LEMMA TabledNext ==
    ASSUME NEW P, NEW K, NEW L, NEW C, NEW D, NEW g, NEW h, NEW n, NEW x,
           Tabled(C, L, P, K, g), Goes(K, g, n, x, h), Changed(C, D, L, K, n, x),
           x \in Letters => Best(P, K, Append(P[n], x), D[n][x])
    PROVE  Tabled(D, L, P, K, h)
<1>1. D \in [0..L -> Row] /\ h \in [0..K -> 0..255] /\ h[n] = x /\ g \in [0..K -> 0..255]
  BY DEF Changed, Goes, Tabled
<1>2. ASSUME NEW m \in 0..K, NEW y \in Letters
      PROVE  IF y <= h[m] THEN Best(P, K, Append(P[m], y), D[m][y]) ELSE Entry(P, K, m, y, D[m][y])
  <2>1. CASE m = n /\ y = x
    <3>1. y <= h[m]
      BY <1>1, <2>1, LettersAre
    <3>2. QED BY <2>1, <3>1
  <2>2. CASE ~(m = n /\ y = x)
    <3>1. D[m][y] = C[m][y]
      BY <2>2 DEF Changed
    <3>2. y <= h[m] <=> y <= g[m]
      BY <1>1, <2>2, UpToLetter
    <3>3. IF y <= g[m] THEN Best(P, K, Append(P[m], y), C[m][y]) ELSE Entry(P, K, m, y, C[m][y])
      BY DEF Tabled
    <3>4. QED BY <3>1, <3>2, <3>3
  <2>3. QED BY <2>1, <2>2
<1>3. QED BY <1>1, <1>2 DEF Tabled

LEMMA EndsNext ==
    ASSUME NEW P, NEW K, NEW L, NEW V, NEW C, NEW D, NEW n, NEW x \in Chars,
           Changed(C, D, L, K, n, x), Ends(C, V, P, K)
    PROVE  Ends(D, V, P, K)
<1>1. x # END
  BY DEF Chars, END, MAX_CHARS
<1>2. \A m \in 0..K : D[m][END] = C[m][END]
  BY <1>1 DEF Changed
<1>3. QED BY <1>2 DEF Ends, EndRow

LEMMA QueuedStays ==
    ASSUME NEW P, NEW K, NEW L, NEW Q, NEW F, NEW e, NEW g \in [0..K -> 0..255], NEW h, NEW n, NEW x,
           Queued(Q, F, L, P, K, e, g), Goes(K, g, n, x, h),
           x \in Letters => \A j \in 1..K : P[j] # Append(P[n], x)
    PROVE  Queued(Q, F, L, P, K, e, h)
<1>1. ASSUME NEW m \in 0..K, NEW y \in Letters, NEW j \in 1..K, P[j] = Append(P[m], y)
      PROVE  InQueue(Q, e, j) <=> y <= h[m]
  <2>1. ~(m = n /\ y = x)
    BY <1>1
  <2>2. y <= h[m] <=> y <= g[m]
    BY <2>1, UpToLetter
  <2>3. InQueue(Q, e, j) <=> y <= g[m]
    BY <1>1 DEF Queued
  <2>4. QED BY <2>2, <2>3
<1>2. QED BY <1>1 DEF Queued

Enqueues(Q, F, R, G, L, P, K, e, g, n, x, h, j, v) ==
    /\ Trie(P, K) /\ K \in 0..L /\ L \in Nat /\ g \in [0..K -> 0..255]
    /\ Queued(Q, F, L, P, K, e, g) /\ Goes(K, g, n, x, h) /\ x \in Letters
    /\ j \in 1..K /\ P[j] = Append(P[n], x) /\ v \in Nat /\ Best(P, K, Tail(P[j]), v)
    /\ \A i \in 0..(e - 1) : Len(P[Q[i]]) <= Len(P[n]) + 1
    /\ R \in [0..L -> Nat] /\ G \in [0..L -> Nat] /\ R[e] = j /\ G[e] = v
    /\ \A i \in 0..(e - 1) : R[i] = Q[i] /\ G[i] = F[i]

LEMMA NotYet ==
    ASSUME NEW P, NEW K, NEW L, NEW Q, NEW F, NEW e, NEW g, NEW n, NEW x \in Letters, NEW h,
           K \in Nat, Queued(Q, F, L, P, K, e, g), Goes(K, g, n, x, h),
           NEW j \in 1..K, P[j] = Append(P[n], x)
    PROVE  ~InQueue(Q, e, j) /\ e \in 0..(K - 1)
<1>1. n \in 0..K /\ g[n] = x - 1 /\ x \in Int
  BY LettersAre DEF Goes
<1>2. ~InQueue(Q, e, j)
  <2>1. InQueue(Q, e, j) <=> x <= g[n]
    BY <1>1 DEF Queued
  <2>2. QED BY <1>1, <2>1
<1>3. e \in 0..K /\ (\A i \in 0..(e - 1) : Q[i] \in 1..K) /\ \A i, k \in 0..(e - 1) : Q[i] = Q[k] => i = k
  BY DEF Queued
<1>4. e \in Nat
  BY <1>3
<1>5. e < K
  BY <1>2, <1>3, <1>4, RoomIs
<1>6. QED BY <1>2, <1>3, <1>5

LEMMA Enqueued ==
    ASSUME NEW P, NEW K, NEW L, NEW Q, NEW F, NEW R, NEW G, NEW e, NEW g, NEW n, NEW x, NEW h, NEW j, NEW v,
           Enqueues(Q, F, R, G, L, P, K, e, g, n, x, h, j, v)
    PROVE  Queued(R, G, L, P, K, e + 1, h)
<1>1. /\ Trie(P, K) /\ K \in 0..L /\ L \in Nat /\ g \in [0..K -> 0..255]
      /\ Queued(Q, F, L, P, K, e, g) /\ Goes(K, g, n, x, h) /\ x \in Letters
      /\ j \in 1..K /\ P[j] = Append(P[n], x) /\ v \in Nat /\ Best(P, K, Tail(P[j]), v)
      /\ \A i \in 0..(e - 1) : Len(P[Q[i]]) <= Len(P[n]) + 1
      /\ R \in [0..L -> Nat] /\ G \in [0..L -> Nat] /\ R[e] = j /\ G[e] = v
      /\ \A i \in 0..(e - 1) : R[i] = Q[i] /\ G[i] = F[i]
  BY DEF Enqueues
<1>2. ~InQueue(Q, e, j) /\ e \in 0..(K - 1) /\ n \in 0..K
  <2>1. K \in Nat /\ n \in 0..K
    BY <1>1 DEF Goes
  <2>2. /\ Queued(Q, F, L, P, K, e, g) /\ Goes(K, g, n, x, h) /\ x \in Letters
        /\ j \in 1..K /\ P[j] = Append(P[n], x)
    BY <1>1
  <2>3. QED BY ONLY <2>1, <2>2, NotYet
<1>0. Goes(K, g, n, x, h) /\ g \in [0..K -> 0..255] /\ x \in Letters
  BY <1>1
<1>3. /\ e + 1 \in 0..K /\ \A i \in 0..((e + 1) - 1) : i = e \/ i \in 0..(e - 1)
      /\ e \in 0..((e + 1) - 1) /\ \A i \in 0..(e - 1) : i \in 0..((e + 1) - 1) /\ i # e
      /\ \A i \in 0..((e + 1) - 1) : e <= i => i = e
  BY <1>1, <1>2
<1>4. ASSUME NEW i \in 0..((e + 1) - 1) PROVE R[i] \in 1..K /\ Best(P, K, Tail(P[R[i]]), G[i])
  <2>1. CASE i = e
    BY <1>1, <2>1
  <2>2. CASE i \in 0..(e - 1)
    BY <1>1, <2>2 DEF Queued
  <2>3. QED BY <1>3, <2>1, <2>2
<1>5. ASSUME NEW i \in 0..((e + 1) - 1), NEW k \in 0..((e + 1) - 1), R[i] = R[k] PROVE i = k
  <2>1. CASE i \in 0..(e - 1) /\ k \in 0..(e - 1)
    <3>1. Q[i] = Q[k]
      BY <1>1, <1>5, <2>1
    <3>2. QED BY <1>1, <2>1, <3>1 DEF Queued
  <2>2. CASE i = e \/ k = e
    BY <1>1, <1>2, <1>3, <1>5, <2>2 DEF InQueue
  <2>3. QED BY <1>3, <2>1, <2>2
<1>6. ASSUME NEW i \in 0..((e + 1) - 1), NEW k \in 0..((e + 1) - 1), i <= k
      PROVE  Len(P[R[i]]) <= Len(P[R[k]])
  <2>1. CASE k \in 0..(e - 1)
    <3>1. i \in 0..(e - 1)
      BY <1>2, <1>6, <2>1
    <3>2. QED BY <1>1, <1>6, <2>1, <3>1 DEF Queued
  <2>2. CASE k = e
    <3>1. P[n] \in Str /\ x \in Int
      BY <1>1, <1>2, TrieNode, LettersAre
    <3>2. Len(P[j]) = Len(P[n]) + 1 /\ Len(P[n]) \in Nat
      BY <1>1, <3>1, AppendProperties DEF Str
    <3>3. CASE i = e
      BY <1>1, <2>2, <3>2, <3>3
    <3>4. CASE i \in 0..(e - 1)
      BY <1>1, <2>2, <3>2, <3>4
    <3>5. QED BY <1>3, <3>3, <3>4
  <2>3. QED BY <1>3, <2>1, <2>2
<1>7. \A q : InQueue(R, e + 1, q) <=> InQueue(Q, e, q) \/ q = j
  <2> TAKE q
  <2>1. ASSUME InQueue(R, e + 1, q) PROVE InQueue(Q, e, q) \/ q = j
    <3>1. PICK i \in 0..((e + 1) - 1) : R[i] = q
      BY <2>1 DEF InQueue
    <3>2. QED BY <1>1, <1>3, <3>1 DEF InQueue
  <2>2. ASSUME InQueue(Q, e, q) \/ q = j PROVE InQueue(R, e + 1, q)
    <3>1. CASE q = j
      BY <1>1, <1>3, <3>1 DEF InQueue
    <3>2. CASE InQueue(Q, e, q)
      BY <1>1, <1>3, <3>2 DEF InQueue
    <3>3. QED BY <2>2, <3>1, <3>2
  <2>3. QED BY <2>1, <2>2
<1>8. ASSUME NEW m \in 0..K, NEW y \in Letters, NEW q \in 1..K, P[q] = Append(P[m], y)
      PROVE  InQueue(R, e + 1, q) <=> y <= h[m]
  <2>1. CASE m = n /\ y = x
    <3>1. q = j
      <4>1. q \in 0..K /\ j \in 0..K /\ P[q] = P[j]
        BY <1>1, <1>8, <2>1
      <4>2. QED BY <1>1, <4>1 DEF Trie
    <3>2. y <= h[m]
      BY <1>1, <2>1, LettersAre DEF Goes
    <3>3. QED BY <1>7, <3>1, <3>2
  <2>2. CASE ~(m = n /\ y = x)
    <3>1. q # j
      <4>1. P[m] \in Str /\ P[n] \in Str
        BY <1>1, <1>2, TrieNode
      <4>2. Append(P[m], y) = Append(P[n], x) => P[m] = P[n] /\ y = x
        BY <1>0, <4>1, AppendDiffers
      <4>3. P[m] = P[n] => m = n
        BY <1>1, <1>2 DEF Trie
      <4>4. QED BY <1>1, <1>8, <2>2, <4>2, <4>3
    <3>2. y <= h[m] <=> y <= g[m]
      BY <1>0, <2>2, UpToLetter
    <3>3. InQueue(Q, e, q) <=> y <= g[m]
      BY <1>1, <1>8 DEF Queued
    <3>4. QED BY <1>7, <3>1, <3>2, <3>3
  <2>3. QED BY <2>1, <2>2
<1>9. QED BY <1>1, <1>3, <1>4, <1>5, <1>6, <1>8 DEF Queued

-----------------------------------------------------------------------------
(* The place at which the queue goes on.                                     *)

AtFront(Q, P, K, e, d, g, c) ==
    /\ d \in 0..e /\ g[0] = 255
    /\ \A i \in 0..(e - 1) : g[Q[i]] = IF i < d THEN 255 ELSE IF i = d THEN c ELSE 0
    /\ \A m \in 1..K : ~InQueue(Q, e, m) => g[m] = 0
    /\ d < e => \A i \in 0..(e - 1) : Len(P[Q[i]]) <= Len(P[Q[d]]) + 1
\* The place for the next node; at the end of the queue it wraps, except in BuildTree.
TailIs(l, Q, P, L, e) ==
    \/ l = e /\ (e = L => \A i \in 0..(e - 1) : Len(P[Q[i]]) = 1)
    \/ l = 0 /\ e = L
Loops(L) == [chart : [0..L -> Row], queue : [0..L -> Nat], fail : [0..L -> Nat], tail : Nat]
Working(b, V, L, P, K, d, e, g, c) ==
    /\ Tree0(V, L, P, K) /\ b \in Loops(L)
    /\ Tabled(b.chart, L, P, K, g) /\ Ends(b.chart, V, P, K)
    /\ Queued(b.queue, b.fail, L, P, K, e, g) /\ AtFront(b.queue, P, K, e, d, g, c)
    /\ TailIs(b.tail, b.queue, P, L, e)

LEMMA FrontNext ==
    ASSUME NEW P, NEW K \in Nat, NEW L, NEW Q, NEW F, NEW e, NEW d, NEW g, NEW h, NEW c \in Chars,
           Queued(Q, F, L, P, K, e, g), AtFront(Q, P, K, e, d, g, c - 1), d < e,
           Goes(K, g, Q[d], c, h)
    PROVE  AtFront(Q, P, K, e, d, h, c)
<1>1. d \in 0..(e - 1) /\ e \in Nat /\ Q[d] \in 1..K
  <2>1. e \in 0..K /\ d \in 0..e
    BY DEF Queued, AtFront
  <2>2. d \in 0..(e - 1)
    BY <2>1
  <2>3. QED BY <2>1, <2>2 DEF Queued
<1>2. h[0] = 255
  BY <1>1 DEF AtFront, Goes
<1>3. ASSUME NEW i \in 0..(e - 1) PROVE h[Q[i]] = IF i < d THEN 255 ELSE IF i = d THEN c ELSE 0
  <2>1. CASE i = d
    BY <1>1, <2>1 DEF Goes
  <2>2. CASE i # d
    <3>1. Q[i] # Q[d] /\ Q[i] \in 0..K
      BY <1>1, <2>2 DEF Queued
    <3>2. h[Q[i]] = g[Q[i]]
      BY <3>1 DEF Goes
    <3>3. QED BY <2>2, <3>2 DEF AtFront
  <2>3. QED BY <2>1, <2>2
<1>4. ASSUME NEW m \in 1..K, ~InQueue(Q, e, m) PROVE h[m] = 0
  <2>1. m # Q[d] /\ m \in 0..K
    BY <1>1, <1>4 DEF InQueue
  <2>2. QED BY <1>4, <2>1 DEF Goes, AtFront
<1>5. QED BY <1>2, <1>3, <1>4 DEF AtFront

LEMMA FrontGrows ==
    ASSUME NEW P, NEW K, NEW L, NEW Q, NEW F, NEW R, NEW G, NEW e, NEW d, NEW g, NEW x, NEW h, NEW j, NEW v,
           Enqueues(Q, F, R, G, L, P, K, e, g, Q[d], x, h, j, v), AtFront(Q, P, K, e, d, h, x), d < e,
           AtFront(Q, P, K, e, d, g, x - 1)
    PROVE  AtFront(R, P, K, e + 1, d, h, x)
<1>1. /\ Trie(P, K) /\ K \in 0..L /\ L \in Nat
      /\ Queued(Q, F, L, P, K, e, g) /\ Goes(K, g, Q[d], x, h) /\ x \in Letters
      /\ j \in 1..K /\ P[j] = Append(P[Q[d]], x)
      /\ R[e] = j /\ \A i \in 0..(e - 1) : R[i] = Q[i]
  BY DEF Enqueues
<1>2. K \in Nat /\ e \in 0..K /\ d \in 0..(e - 1) /\ Q[d] \in 1..K
  <2>1. e \in 0..K /\ d \in 0..e /\ K \in Nat
    BY <1>1 DEF Queued, AtFront
  <2>2. d \in 0..(e - 1)
    BY <2>1
  <2>3. QED BY <1>1, <2>1, <2>2 DEF Queued
<1>3. ~InQueue(Q, e, j)
  <2>1. /\ Queued(Q, F, L, P, K, e, g) /\ Goes(K, g, Q[d], x, h) /\ x \in Letters
        /\ j \in 1..K /\ P[j] = Append(P[Q[d]], x)
    BY <1>1
  <2>2. QED BY ONLY <1>2, <2>1, NotYet
<1>4. j # Q[d]
  BY <1>2, <1>3 DEF InQueue
<1>5. h[j] = 0
  BY <1>1, <1>3 DEF AtFront
<1>6. /\ e + 1 \in Nat /\ d \in 0..(e + 1) /\ \A i \in 0..((e + 1) - 1) : i = e \/ i \in 0..(e - 1)
      /\ e \in 0..((e + 1) - 1) /\ \A i \in 0..(e - 1) : i \in 0..((e + 1) - 1) /\ i # e
      /\ ~(e < d) /\ e # d
  BY <1>2
<1>7. ASSUME NEW i \in 0..((e + 1) - 1) PROVE h[R[i]] = IF i < d THEN 255 ELSE IF i = d THEN x ELSE 0
  <2>1. CASE i = e
    BY <1>1, <1>5, <1>6, <2>1
  <2>2. CASE i \in 0..(e - 1)
    BY <1>1, <2>2 DEF AtFront
  <2>3. QED BY <1>6, <2>1, <2>2
<1>8. ASSUME NEW m \in 1..K, ~InQueue(R, e + 1, m) PROVE h[m] = 0
  <2>1. ~InQueue(Q, e, m)
    BY <1>1, <1>6, <1>8 DEF InQueue
  <2>2. QED BY <2>1 DEF AtFront
<1>9. ASSUME NEW i \in 0..((e + 1) - 1) PROVE Len(P[R[i]]) <= Len(P[R[d]]) + 1
  <2>1. R[d] = Q[d]
    BY <1>1, <1>2
  <2>2. CASE i \in 0..(e - 1)
    BY <1>1, <2>1, <2>2 DEF AtFront
  <2>3. CASE i = e
    <3>1. Q[d] \in 0..K
      BY <1>2
    <3>2. P[Q[d]] \in Str /\ x \in Int
      BY <1>1, <3>1, TrieNode, LettersAre
    <3>3. Len(P[j]) = Len(P[Q[d]]) + 1 /\ Len(P[Q[d]]) \in Nat
      BY <1>1, <3>2, AppendProperties DEF Str
    <3>4. QED BY <1>1, <2>1, <2>3, <3>3
  <2>4. QED BY <1>6, <2>2, <2>3
<1>10. h[0] = 255
  BY DEF AtFront
<1>11. QED BY <1>6, <1>7, <1>8, <1>9, <1>10 DEF AtFront

LEMMA WrapsAt ==
    ASSUME NEW L \in Nat \ {0}, NEW e \in 0..(L - 1)
    PROVE  (e + 1) % L = IF e + 1 = L THEN 0 ELSE e + 1
<1>1. CASE e + 1 < L
  BY <1>1, Z3
<1>2. CASE e + 1 = L
  <2>1. L % L = 0
    <3>1. L = 0 + L /\ 0 % L = 0
      BY Z3
    <3>2. (0 + L) % L = 0 % L
      BY Z3
    <3>3. QED BY <3>1, <3>2
  <2>2. QED BY <1>2, <2>1
<1>3. QED BY <1>1, <1>2

-----------------------------------------------------------------------------
(* A letter of the node at the head.                                         *)

\* The failure pointer of the node at the head leads to a row that is complete.
LEMMA NextIs ==
    ASSUME NEW b, NEW V, NEW L, NEW P, NEW K, NEW d, NEW e, NEW g, NEW c \in Letters,
           Working(b, V, L, P, K, d, e, g, c - 1), d < e
    PROVE  /\ b.queue[d] \in 1..K /\ b.fail[d] \in 0..K /\ g[b.queue[d]] = c - 1
           /\ Best(P, K, Tail(P[b.queue[d]]), b.fail[d])
           /\ Best(P, K, Append(P[b.fail[d]], c), b.chart[b.fail[d]][c])
           /\ Entry(P, K, b.queue[d], c, b.chart[b.queue[d]][c])
           /\ \A i \in 0..(e - 1) : Len(P[b.queue[i]]) <= Len(P[b.queue[d]]) + 1
<1> DEFINE Q == b.queue
           F == b.fail
           C == b.chart
<1>1. /\ Trie(P, K) /\ K \in Nat /\ Tabled(C, L, P, K, g) /\ Queued(Q, F, L, P, K, e, g)
      /\ AtFront(Q, P, K, e, d, g, c - 1) /\ c \in 1..255
  BY LettersAre DEF Working, Tree0
<1> HIDE DEF Q, F, C
<1>2. e \in 0..K /\ d \in 0..(e - 1)
  <2>1. e \in 0..K /\ d \in 0..e
    BY <1>1 DEF Queued, AtFront
  <2>2. QED BY <2>1
<1>3. Q[d] \in 1..K /\ Best(P, K, Tail(P[Q[d]]), F[d])
  BY <1>1, <1>2 DEF Queued
<1>4. g[Q[d]] = c - 1 /\ g[0] = 255
  BY <1>1, <1>2 DEF AtFront
<1>5. F[d] \in 0..K /\ Len(P[F[d]]) < Len(P[Q[d]])
  BY <1>1, <1>3, FailIsShorter
<1>6. Q[d] \in 0..K
  BY <1>1, <1>3
<1>7. Len(P[Q[d]]) \in Nat
  BY <1>1, <1>6, TrieNode
<1>8. \A i \in 0..(e - 1) : Len(P[Q[i]]) < Len(P[Q[d]]) => g[Q[i]] = 255
  <2> SUFFICES ASSUME NEW i \in 0..(e - 1), Len(P[Q[i]]) < Len(P[Q[d]]), ~(i < d) PROVE FALSE
    BY <1>1 DEF AtFront
  <2>1. d <= i
    BY <1>2
  <2>2. Len(P[Q[d]]) <= Len(P[Q[i]])
    BY <1>1, <1>2, <2>1 DEF Queued
  <2>3. Q[i] \in 0..K
    BY <1>1 DEF Queued
  <2>4. Len(P[Q[i]]) \in Nat
    BY <1>1, <2>3, TrieNode
  <2>5. QED BY <1>7, <2>2, <2>4
<1>9. PICK D \in Nat : D = Len(P[Q[d]])
  BY <1>7
<1>10. \A m \in 0..K : Len(P[m]) < D => g[m] = 255
  <2>1. \A i \in 0..(e - 1) : Len(P[Q[i]]) < D => g[Q[i]] = 255
    BY <1>8, <1>9
  <2>2. Trie(P, K) /\ Queued(Q, F, L, P, K, e, g)
    BY <1>1
  <2>3. QED BY ONLY <1>4, <1>9, <2>1, <2>2, Shallow
<1>11. g[F[d]] = 255
  BY <1>5, <1>9, <1>10
<1>12. Best(P, K, Append(P[F[d]], c), C[F[d]][c])
  <2>1. c <= g[F[d]]
    BY <1>1, <1>11
  <2>2. QED BY <1>1, <1>5, <2>1 DEF Tabled
<1>13. Entry(P, K, Q[d], c, C[Q[d]][c])
  <2>1. ~(c <= g[Q[d]])
    BY <1>1, <1>4
  <2>2. QED BY <1>1, <1>6, <2>1 DEF Tabled
<1>14. \A i \in 0..(e - 1) : Len(P[Q[i]]) <= Len(P[Q[d]]) + 1
  BY <1>1, <1>2 DEF AtFront
<1>15. QED BY <1>3, <1>4, <1>5, <1>12, <1>13, <1>14 DEF Q, F, C

LEMMA LetterIs ==
    ASSUME NEW b, NEW V, NEW L, NEW P, NEW K, NEW d, NEW e, NEW g, NEW c \in Letters,
           Working(b, V, L, P, K, d, e, g, c - 1), d < e, head = d, words_len = L
    PROVE  \E f, h : Working(Letter(b, c), V, L, P, K, d, f, h, c) /\ d < f
<1> DEFINE Q == b.queue
           F == b.fail
           C == b.chart
           n == Q[d]
           next == C[F[d]][c]
<1>1. /\ Tree0(V, L, P, K) /\ b \in Loops(L)
      /\ Tabled(C, L, P, K, g) /\ Ends(C, V, P, K)
      /\ Queued(Q, F, L, P, K, e, g) /\ AtFront(Q, P, K, e, d, g, c - 1) /\ TailIs(b.tail, Q, P, L, e)
  BY DEF Working
<1>2. /\ n \in 1..K /\ F[d] \in 0..K /\ g[n] = c - 1 /\ Best(P, K, Tail(P[n]), F[d])
      /\ Best(P, K, Append(P[F[d]], c), next) /\ Entry(P, K, n, c, C[n][c])
      /\ \A i \in 0..(e - 1) : Len(P[Q[i]]) <= Len(P[n]) + 1
  BY NextIs
<1>3. L \in Nat \ {0} /\ K \in 0..L /\ K \in Nat /\ Trie(P, K) /\ n \in 0..K /\ n \in 0..L /\ c \in Chars
  <2>1. L \in Nat \ {0} /\ K \in 0..L /\ Trie(P, K) /\ c \in 1..255
    BY <1>1, LettersAre DEF Tree0
  <2>2. QED BY <1>2, <2>1 DEF Chars
<1>4. g \in [0..K -> 0..255] /\ C \in [0..L -> Row] /\ Q \in [0..L -> Nat] /\ F \in [0..L -> Nat]
  BY <1>1 DEF Tabled, Queued
<1>5. PICK h : Goes(K, g, n, c, h)
  BY <1>2, <1>3, <1>4, CanGo
<1>6. next \in 0..K /\ next \in Nat
  BY <1>2, <1>3 DEF Best
<1>7. Letter(b, c) =
        IF C[n][c] # 0
        THEN [chart |-> C, queue |-> [Q EXCEPT ![b.tail] = C[n][c]],
              fail |-> [F EXCEPT ![b.tail] = next], tail |-> (b.tail + 1) % L]
        ELSE [chart |-> [C EXCEPT ![n][c] = next], queue |-> Q, fail |-> F, tail |-> b.tail]
  <2>1. Letter(b, c) =
          IF C[n][c] # 0
          THEN [b EXCEPT !.queue[b.tail] = C[n][c], !.fail[b.tail] = next, !.tail = (b.tail + 1) % L]
          ELSE [b EXCEPT !.chart[n][c] = next]
    BY DEF Letter
  <2>2. PICK l, j, v : l = b.tail /\ j = C[n][c] /\ v = next
    OBVIOUS
  <2>3. b = [chart |-> C, queue |-> Q, fail |-> F, tail |-> l]
    BY <1>1, <2>2 DEF Loops
  <2> HIDE DEF Q, F, C, n, next
  <2>4. Letter(b, c) =
          IF j # 0
          THEN [b EXCEPT !.queue[l] = j, !.fail[l] = v, !.tail = (l + 1) % L]
          ELSE [b EXCEPT !.chart[n][c] = v]
    BY ONLY <2>1, <2>2
  <2>5. PICK k : k = (l + 1) % L
    OBVIOUS
  <2>6. CASE j # 0
    <3>1. PICK x : x = [b EXCEPT !.queue[l] = j, !.fail[l] = v, !.tail = k]
      OBVIOUS
    <3>2. /\ x.chart = C /\ x.queue = [Q EXCEPT ![l] = j]
          /\ x.fail = [F EXCEPT ![l] = v] /\ x.tail = k
      BY ONLY <2>3, <3>1
    <3>3. x = [chart |-> x.chart, queue |-> x.queue, fail |-> x.fail, tail |-> x.tail]
      BY ONLY <2>3, <3>1
    <3>4. x = [chart |-> C, queue |-> [Q EXCEPT ![l] = j], fail |-> [F EXCEPT ![l] = v], tail |-> k]
      BY ONLY <3>2, <3>3
    <3>5. Letter(b, c) = x
      BY <2>4, <2>5, <2>6, <3>1
    <3>6. QED BY <2>2, <2>5, <2>6, <3>4, <3>5
  <2>7. CASE j = 0
    <3>1. [b EXCEPT !.chart[n][c] = v] =
          [chart |-> [C EXCEPT ![n][c] = v], queue |-> Q, fail |-> F, tail |-> l]
      BY ONLY <2>3
    <3>2. QED BY <2>2, <2>4, <2>7, <3>1
  <2>8. QED BY <2>6, <2>7
<1> HIDE DEF Q, F, C, n, next
<1>0. AtFront(Q, P, K, e, d, h, c)
  BY <1>1, <1>3, <1>5, FrontNext DEF n
<1>8. CASE C[n][c] # 0
  <2>1. PICK j \in 1..K : j = C[n][c] /\ P[j] = Append(P[n], c)
    BY <1>2, <1>3, <1>8 DEF Entry
  <2>2. e \in 0..(K - 1)
    <3>1. /\ Queued(Q, F, L, P, K, e, g) /\ Goes(K, g, n, c, h) /\ K \in Nat
      BY <1>1, <1>3, <1>5
    <3>2. QED BY ONLY <2>1, <3>1, NotYet, c \in Letters
  <2>3. e \in 0..(L - 1) /\ e \in 0..L /\ b.tail = e
    <3>1. e \in 0..(L - 1)
      BY <1>3, <2>2
    <3>2. QED BY <1>1, <1>3, <3>1 DEF TailIs
  <2>4. PICK R, G : R = [Q EXCEPT ![e] = j] /\ G = [F EXCEPT ![e] = next]
    OBVIOUS
  <2>5. /\ R \in [0..L -> Nat] /\ G \in [0..L -> Nat] /\ R[e] = j /\ G[e] = next
        /\ \A i \in 0..(e - 1) : R[i] = Q[i] /\ G[i] = F[i]
    <3>1. \A i \in 0..(e - 1) : i # e /\ i \in 0..L
      BY <1>3, <2>3
    <3>2. j \in Nat
      BY <1>3
    <3>3. QED BY <1>4, <1>6, <2>3, <2>4, <3>1, <3>2
  <2>6. Best(P, K, Tail(P[j]), next)
    <3>1. j \in 0..K /\ P[j] = Append(P[n], c)
      BY <1>3, <2>1
    <3>2. PICK f : f = F[d]
      OBVIOUS
    <3>3. Best(P, K, Tail(P[n]), f) /\ Best(P, K, Append(P[f], c), next)
      BY <1>2, <3>2
    <3>4. Trie(P, K) /\ n \in 1..K
      BY <1>2, <1>3
    <3>5. QED BY ONLY <3>1, <3>3, <3>4, c \in Letters, ChildFail
  <2>7. Enqueues(Q, F, R, G, L, P, K, e, g, n, c, h, j, next)
    BY <1>1, <1>2, <1>3, <1>4, <1>5, <1>6, <2>1, <2>5, <2>6 DEF Enqueues
  <2>8. Queued(R, G, L, P, K, e + 1, h)
    BY <2>7, Enqueued
  <2>9. AtFront(R, P, K, e + 1, d, h, c)
    BY <1>1, <1>0, <2>7, FrontGrows DEF n
  <2>10. Tabled(C, L, P, K, h)
    <3>1. Changed(C, C, L, K, n, c)
      BY <1>4 DEF Changed
    <3>2. Best(P, K, Append(P[n], c), C[n][c])
      <4>1. j \in 0..K
        BY <1>3
      <4>2. QED BY <1>3, <2>1, <4>1, BestSelf
    <3>3. QED BY <1>1, <1>5, <3>1, <3>2, TabledNext
  <2>11. /\ (e + 1) % L \in Nat /\ TailIs((e + 1) % L, R, P, L, e + 1)
    <3>1. (e + 1) % L = IF e + 1 = L THEN 0 ELSE e + 1
      BY <1>3, <2>3, WrapsAt
    <3>2. QED BY <2>3, <3>1 DEF TailIs
  <2>12. PICK x : x = Letter(b, c)
    OBVIOUS
  <2>13. x = [chart |-> C, queue |-> R, fail |-> G, tail |-> (e + 1) % L]
    BY <1>7, <1>8, <2>1, <2>3, <2>4, <2>12
  <2>14. Working(x, V, L, P, K, d, e + 1, h, c)
    <3>1. PICK l : l = (e + 1) % L
      OBVIOUS
    <3>2. x = [chart |-> C, queue |-> R, fail |-> G, tail |-> l] /\ l \in Nat
      BY <2>11, <2>13, <3>1
    <3>3. x \in Loops(L) /\ x.chart = C /\ x.queue = R /\ x.fail = G /\ x.tail = l
      BY <1>4, <2>5, <3>2 DEF Loops
    <3>4. TailIs(l, R, P, L, e + 1)
      BY <2>11, <3>1
    <3>5. QED BY <1>1, <2>8, <2>9, <2>10, <3>3, <3>4 DEF Working
  <2>15. d < e + 1
    <3>1. d \in 0..e
      BY <1>1 DEF AtFront
    <3>2. QED BY <2>3, <3>1
  <2>16. QED BY <2>12, <2>14, <2>15
<1>9. CASE C[n][c] = 0
  <2>1. \A j \in 0..K : P[j] # Append(P[n], c)
    BY <1>2, <1>9 DEF Entry
  <2>2. Best(P, K, Append(P[n], c), next)
    BY <1>2, <1>3, <2>1, NoChild DEF next
  <2>3. PICK D : D = [C EXCEPT ![n][c] = next]
    OBVIOUS
  <2>4. D \in [0..L -> Row] /\ D[n][c] = next
        /\ \A m \in 0..L : \A y \in Letters \cup {END} : ~(m = n /\ y = c) => D[m][y] = C[m][y]
    BY <1>3, <1>4, <1>6, <2>3 DEF Row
  <2>5. Changed(C, D, L, K, n, c)
    <3>1. 0..K \subseteq 0..L
      BY <1>3
    <3>2. QED BY <2>4, <3>1 DEF Changed
  <2>6. Tabled(D, L, P, K, h)
    BY <1>1, <1>5, <2>2, <2>4, <2>5, TabledNext
  <2>7. Ends(D, V, P, K)
    BY <1>1, <1>3, <2>5, EndsNext
  <2>8. Queued(Q, F, L, P, K, e, h)
    <3>1. \A j \in 1..K : P[j] # Append(P[n], c)
      <4>1. \A j \in 1..K : j \in 0..K
        BY <1>3
      <4>2. QED BY <2>1, <4>1
    <3>2. QED BY <1>1, <1>4, <1>5, <3>1, QueuedStays
  <2>9. PICK x : x = Letter(b, c)
    OBVIOUS
  <2>10. x = [chart |-> D, queue |-> Q, fail |-> F, tail |-> b.tail]
    BY <1>7, <1>9, <2>3, <2>9
  <2>11. Working(x, V, L, P, K, d, e, h, c)
    <3>1. b.tail \in Nat
      BY <1>1 DEF Loops
    <3>2. x \in Loops(L) /\ x.chart = D /\ x.queue = Q /\ x.fail = F /\ x.tail = b.tail
      BY <1>4, <2>4, <2>10, <3>1 DEF Loops
    <3>3. QED BY <1>1, <1>0, <2>6, <2>7, <2>8, <3>2 DEF Working
  <2>12. QED BY <2>9, <2>11
<1>10. QED BY <1>8, <1>9

-----------------------------------------------------------------------------
(* The whole row of the node at the head.                                    *)

\* A character that is in no word changes nothing.
LEMMA QuietWorks ==
    ASSUME NEW b, NEW V, NEW L, NEW P, NEW K, NEW d, NEW e, NEW g, NEW c \in Chars, c \notin Letters,
           Working(b, V, L, P, K, d, e, g, c - 1), d < e
    PROVE  \E h : Working(b, V, L, P, K, d, e, h, c)
<1> DEFINE Q == b.queue
           F == b.fail
           C == b.chart
<1>1. /\ Trie(P, K) /\ K \in Nat /\ Tabled(C, L, P, K, g) /\ Queued(Q, F, L, P, K, e, g)
      /\ AtFront(Q, P, K, e, d, g, c - 1) /\ Ends(C, V, P, K)
  BY DEF Working, Tree0
<1> HIDE DEF Q, F, C
<1>2. e \in 0..K /\ d \in 0..(e - 1)
  <2>1. e \in 0..K /\ d \in 0..e
    BY <1>1 DEF Queued, AtFront
  <2>2. QED BY <2>1
<1>3. Q[d] \in 0..K /\ g[Q[d]] = c - 1
  BY <1>1, <1>2 DEF Queued, AtFront
<1>4. g \in [0..K -> 0..255] /\ C \in [0..L -> Row]
  BY <1>1 DEF Tabled
<1>5. PICK h : Goes(K, g, Q[d], c, h)
  BY <1>1, <1>3, <1>4, CanGo
<1>6. AtFront(Q, P, K, e, d, h, c)
  BY <1>1, <1>5, FrontNext
<1>7. Changed(C, C, L, K, Q[d], c)
  BY <1>4 DEF Changed
<1>8. Tabled(C, L, P, K, h)
  BY <1>1, <1>5, <1>7, TabledNext
<1>9. Queued(Q, F, L, P, K, e, h)
  BY <1>1, <1>4, <1>5, QueuedStays
<1>10. Working(b, V, L, P, K, d, e, h, c)
  BY <1>6, <1>8, <1>9 DEF Working, Q, F, C
<1>11. QED BY <1>10

Stage(V, L, P, K, d, c) == {b \in Loops(L) : \E e, g : Working(b, V, L, P, K, d, e, g, c) /\ d < e}

\* A visit of the node at place d.
LEMMA VisitWorks ==
    ASSUME NEW V, NEW L, NEW P, NEW K, NEW d, NEW e, NEW g,
           Working(Start(chart, queue, fail, tail), V, L, P, K, d, e, g, 0), d < e,
           head = d, words_len = L, VisitNode
    PROVE  \E b, f, h : /\ Working(b, V, L, P, K, d, f, h, 255) /\ d < f
                        /\ chart' = b.chart /\ queue' = b.queue /\ fail' = b.fail /\ tail' = b.tail
<1> DEFINE S == [c \in 0..255 |-> Stage(V, L, P, K, d, c)]
<1>1. \A c \in 0..255 : S[c] = Stage(V, L, P, K, d, c)
  OBVIOUS
<1> HIDE DEF S
<1>2. \A c \in Chars : c - 1 \in 0..255 /\ c \in 0..255
  BY DEF Chars
<1>3. Quiet(S)
  <2> SUFFICES ASSUME NEW c \in Chars, c \notin Letters, NEW b \in S[c - 1] PROVE b \in S[c]
    BY DEF Quiet
  <2>1. b \in Loops(L) /\ \E f, h : Working(b, V, L, P, K, d, f, h, c - 1) /\ d < f
    BY <1>1, <1>2 DEF Stage
  <2>2. PICK f, h : Working(b, V, L, P, K, d, f, h, c - 1) /\ d < f
    BY <2>1
  <2>3. \E q : Working(b, V, L, P, K, d, f, q, c)
    BY <2>2, QuietWorks
  <2>4. QED BY <1>1, <1>2, <2>1, <2>2, <2>3, Zenon DEF Stage
<1>4. Start(chart, queue, fail, tail) \in S[0]
  <2>1. Start(chart, queue, fail, tail) \in Loops(L)
    BY DEF Working
  <2>2. QED BY <1>1, <2>1 DEF Stage
<1>5. ASSUME NEW c \in Letters, NEW b \in S[c - 1] PROVE Letter(b, c) \in S[c]
  <2>1. c \in Chars
    BY LettersAre DEF Chars
  <2>2. PICK f, h : Working(b, V, L, P, K, d, f, h, c - 1) /\ d < f
    BY <1>1, <1>2, <2>1 DEF Stage
  <2>3. \E k, q : Working(Letter(b, c), V, L, P, K, d, k, q, c) /\ d < k
    BY <2>2, LetterIs
  <2>4. Letter(b, c) \in Loops(L)
    BY <2>3 DEF Working
  <2>5. QED BY <1>1, <1>2, <2>1, <2>3, <2>4 DEF Stage
<1>6. PICK b \in S[255] : chart' = b.chart /\ queue' = b.queue /\ fail' = b.fail /\ tail' = b.tail
  BY <1>3, <1>4, <1>5, VisitIs
<1>7. 255 \in 0..255
  OBVIOUS
<1>8. QED BY <1>1, <1>6, <1>7 DEF Stage

\* The next node is at the front.
LEMMA Forward ==
    ASSUME NEW b, NEW V, NEW L, NEW P, NEW K, NEW d, NEW e, NEW g,
           Working(b, V, L, P, K, d, e, g, 255), d < e
    PROVE  Working(b, V, L, P, K, d + 1, e, g, 0) /\ d \in 0..(L - 1)
<1> DEFINE Q == b.queue
           F == b.fail
<1>1. /\ Tree0(V, L, P, K) /\ Queued(Q, F, L, P, K, e, g)
      /\ AtFront(Q, P, K, e, d, g, 255)
  BY DEF Working
<1> HIDE DEF Q, F
<1>2. e \in 0..K /\ d \in 0..(e - 1) /\ K \in 0..L /\ L \in Nat /\ Trie(P, K)
  <2>1. e \in 0..K /\ d \in 0..e /\ K \in 0..L /\ L \in Nat /\ Trie(P, K)
    BY <1>1 DEF Queued, AtFront, Tree0
  <2>2. QED BY <2>1
<1>3. /\ d + 1 \in 0..e /\ d \in 0..(L - 1)
      /\ \A i \in 0..(e - 1) : i < d + 1 <=> i < d \/ i = d
  BY <1>2
<1>4. \A i \in 0..(e - 1) : g[Q[i]] = IF i < d + 1 THEN 255 ELSE IF i = d + 1 THEN 0 ELSE 0
  BY <1>1, <1>3 DEF AtFront
<1>5. ASSUME d + 1 < e, NEW i \in 0..(e - 1) PROVE Len(P[Q[i]]) <= Len(P[Q[d + 1]]) + 1
  <2>1. d + 1 \in 0..(e - 1) /\ d <= d + 1
    BY <1>2, <1>5
  <2>2. Len(P[Q[d]]) <= Len(P[Q[d + 1]]) /\ Len(P[Q[i]]) <= Len(P[Q[d]]) + 1
    BY <1>1, <1>2, <2>1 DEF Queued, AtFront
  <2>3. \A k \in 0..(e - 1) : Q[k] \in 0..K
    BY <1>1 DEF Queued
  <2>4. \A k \in 0..(e - 1) : Len(P[Q[k]]) \in Nat
    BY <1>2, <2>3, TrieNode
  <2>5. Len(P[Q[d]]) \in Nat /\ Len(P[Q[d + 1]]) \in Nat /\ Len(P[Q[i]]) \in Nat
    BY <1>2, <2>1, <2>4
  <2>6. QED BY <2>2, <2>5
<1>6. AtFront(Q, P, K, e, d + 1, g, 0)
  BY <1>1, <1>3, <1>4, <1>5 DEF AtFront
<1>7. QED BY <1>3, <1>6 DEF Working, Q

Complete(C, V, L, P, K) ==
    /\ Tree0(V, L, P, K) /\ C \in [0..L -> Row] /\ Ends(C, V, P, K)
    /\ \A m \in 0..K : RowOk(P, K, m, C[m])

\* The front is at the end of the queue: every node was visited.
LEMMA AllDone ==
    ASSUME NEW b, NEW V, NEW L, NEW P, NEW K, NEW d, NEW g,
           Working(b, V, L, P, K, d, d, g, 0)
    PROVE  /\ Complete(b.chart, V, L, P, K)
           /\ \A m \in 1..K : InQueue(b.queue, d, m)
<1> DEFINE Q == b.queue
           F == b.fail
           C == b.chart
<1>1. /\ Tree0(V, L, P, K) /\ Queued(Q, F, L, P, K, d, g) /\ Tabled(C, L, P, K, g)
      /\ AtFront(Q, P, K, d, d, g, 0) /\ Ends(C, V, P, K) /\ K \in Nat /\ Trie(P, K)
  BY DEF Working, Tree0
<1> HIDE DEF Q, F, C
<1>2. d \in 0..K
  BY <1>1 DEF Queued
<1>3. g[0] = 255 /\ \A i \in 0..(d - 1) : g[Q[i]] = 255
  <2>1. \A i \in 0..(d - 1) : i < d
    BY <1>2
  <2>2. QED BY <1>1, <2>1 DEF AtFront
<1>4. ASSUME NEW m \in 0..K PROVE g[m] = 255
  <2>1. Len(P[m]) \in Nat
    BY <1>1, TrieNode
  <2>2. PICK D \in Nat : D = Len(P[m]) + 1
    BY <2>1
  <2>3. \A i \in 0..(d - 1) : Len(P[Q[i]]) < D => g[Q[i]] = 255
    BY <1>3
  <2>4. Trie(P, K) /\ Queued(Q, F, L, P, K, d, g)
    BY <1>1
  <2>5. \A k \in 0..K : Len(P[k]) < D => g[k] = 255
    BY ONLY <1>3, <2>2, <2>3, <2>4, Shallow
  <2>6. QED BY <2>1, <2>2, <2>5
<1>5. \A m \in 0..K : RowOk(P, K, m, C[m])
  <2> SUFFICES ASSUME NEW m \in 0..K, NEW c \in Letters PROVE Best(P, K, Append(P[m], c), C[m][c])
    BY DEF RowOk
  <2>1. c <= g[m]
    BY <1>4, LettersAre
  <2>2. QED BY <1>1, <2>1 DEF Tabled
<1>6. ASSUME NEW m \in 1..K PROVE InQueue(Q, d, m)
  <2>1. m \in 0..K
    BY <1>1
  <2>2. g[m] # 0
    BY <1>4, <2>1
  <2>3. QED BY <1>1, <2>2 DEF AtFront
<1>7. QED BY <1>1, <1>5, <1>6 DEF Complete, Q, C, Tabled

(* Every word is one letter, no two are equal: the tail is behind the end of the
   queue, and the nodes are visited again. *)
FlatAt(b, V, L, P, K) ==
    /\ Complete(b.chart, V, L, P, K) /\ b \in Loops(L) /\ b.tail \in 0..L
    /\ \A m \in 0..K : \A c \in Letters : b.chart[m][c] = b.chart[0][c]
    /\ \A i \in 0..(L - 1) : b.queue[i] \in 0..K /\ b.fail[i] \in 0..K

LEMMA FlatRow ==
    ASSUME NEW P, NEW K, Trie(P, K), \A m \in 1..K : Len(P[m]) = 1,
           NEW m \in 0..K, NEW c \in Letters, NEW r, NEW s,
           Best(P, K, Append(P[0], c), r), Best(P, K, Append(P[m], c), s)
    PROVE  s = r
<1>1. /\ P[0] = << >> /\ P[0] \in Str /\ P[m] \in Str /\ c \in Int /\ 0 \in 0..K
      /\ r \in 0..K /\ P[r] \in Str
  <2>1. 0 \in 0..K /\ c \in Int /\ r \in 0..K
    BY TrieNode, LettersAre DEF Best
  <2>2. QED BY <2>1, TrieNode DEF Trie
<1>2. PICK u \in Str, w \in Str : u = Append(P[0], c) /\ w = Append(P[m], c)
  BY <1>1, AppendProperties DEF Str
<1>3. Suf(P[0], P[m])
  BY <1>1, SufEmpty
<1>4. Suf(u, w)
  <2>1. PICK p, q \in Str : p = P[0] /\ q = P[m]
    BY <1>1
  <2>2. Suf(p, q) /\ u = Append(p, c) /\ w = Append(q, c) /\ c \in Int
    BY <1>1, <1>2, <1>3, <2>1
  <2>3. QED BY ONLY <2>1, <2>2, SufAppend
<1>5. Suf(P[r], w)
  <2>1. Suf(P[r], u)
    BY <1>2 DEF Best
  <2>2. QED BY <1>1, <1>2, <1>4, <2>1, SufTrans
<1>6. ASSUME NEW j \in 0..K, Suf(P[j], w) PROVE Len(P[j]) <= Len(P[r])
  <2>1. CASE j = 0
    <3>1. Len(P[0]) = 0 /\ Len(P[r]) \in Nat
      BY <1>1, TrieNode
    <3>2. QED BY <2>1, <3>1
  <2>2. CASE j # 0
    <3>1. Suf(P[j], Append(P[m], c))
      BY <1>2, <1>6
    <3>2. PICK i \in 0..K : P[j] = Append(P[i], c)
      BY <1>1, <2>2, <3>1, EndOfAppend
    <3>3. j \in 1..K /\ P[i] \in Str /\ Len(P[i]) \in Nat
      <4>1. j \in 1..K
        BY <2>2
      <4>2. QED BY <4>1, TrieNode
    <3>4. Len(P[j]) = Len(P[i]) + 1 /\ Len(P[j]) = 1
      BY <1>1, <3>2, <3>3, AppendProperties DEF Str
    <3>5. P[i] = << >>
      <4>0. PICK a \in Nat : a = Len(P[i])
        BY <3>3
      <4>1. Len(P[i]) = 0
        <5>1. a + 1 = 1
          BY <3>4, <4>0
        <5>2. QED BY ONLY <4>0, <5>1
      <4>2. P[i] \in Seq(Int)
        BY <3>3 DEF Str
      <4>3. QED BY ONLY <4>1, <4>2, EmptySeq
    <3>6. P[j] = u
      BY <1>1, <1>2, <3>2, <3>5
    <3>7. Suf(P[j], u)
      BY <1>2, <3>6, SufEmpty
    <3>8. QED BY <1>2, <3>7 DEF Best
  <2>3. QED BY <2>1, <2>2
<1>7. Best(P, K, w, r)
  BY <1>1, <1>5, <1>6 DEF Best
<1>8. Best(P, K, w, s)
  BY <1>2
<1>9. QED BY <1>2, <1>7, <1>8, BestUnique

LEMMA FlatStarts ==
    ASSUME NEW b, NEW V, NEW L, NEW P, NEW K, NEW g,
           Working(b, V, L, P, K, L, L, g, 0), b.tail # 0
    PROVE  FlatAt(b, V, L, P, K)
<1> DEFINE Q == b.queue
           F == b.fail
           C == b.chart
<1>1. /\ Tree0(V, L, P, K) /\ b \in Loops(L) /\ Queued(Q, F, L, P, K, L, g) /\ TailIs(b.tail, Q, P, L, L)
  BY DEF Working
<1>2. Complete(C, V, L, P, K) /\ \A m \in 1..K : InQueue(Q, L, m)
  BY AllDone
<1> HIDE DEF Q, F, C
<1>3. L \in Nat \ {0} /\ Trie(P, K) /\ K \in Nat
  BY <1>1 DEF Tree0
<1>4. b.tail = L /\ \A i \in 0..(L - 1) : Len(P[Q[i]]) = 1
  BY <1>1 DEF TailIs
<1>5. \A m \in 1..K : Len(P[m]) = 1
  BY <1>2, <1>4 DEF InQueue
<1>6. ASSUME NEW m \in 0..K, NEW c \in Letters PROVE C[m][c] = C[0][c]
  <2>1. 0 \in 0..K
    BY <1>3
  <2>2. Best(P, K, Append(P[m], c), C[m][c]) /\ Best(P, K, Append(P[0], c), C[0][c])
    BY <1>2, <2>1 DEF Complete, RowOk
  <2>3. PICK r, s : r = C[0][c] /\ s = C[m][c]
    OBVIOUS
  <2>4. Best(P, K, Append(P[m], c), s) /\ Best(P, K, Append(P[0], c), r)
    BY <2>2, <2>3
  <2>5. s = r
    BY ONLY <1>3, <1>5, <2>4, FlatRow, m \in 0..K, c \in Letters
  <2>6. QED BY <2>3, <2>5
<1>7. \A i \in 0..(L - 1) : Q[i] \in 0..K /\ F[i] \in 0..K
  BY <1>1, <1>3 DEF Queued, Best
<1>8. b.tail \in 0..L
  BY <1>3, <1>4
<1>9. QED BY <1>1, <1>2, <1>6, <1>7, <1>8 DEF FlatAt, Q, F, C

LEMMA FlatLetter ==
    ASSUME NEW b, NEW V, NEW L, NEW P, NEW K, NEW c \in Letters,
           FlatAt(b, V, L, P, K), head \in 0..(L - 1), words_len = L
    PROVE  FlatAt(Letter(b, c), V, L, P, K)
<1>1. PICK C, Q, F, l, n, f :
        /\ C = b.chart /\ Q = b.queue /\ F = b.fail /\ l = b.tail /\ n = Q[head] /\ f = F[head]
  OBVIOUS
<1>2. /\ Complete(C, V, L, P, K) /\ C \in [0..L -> Row] /\ Q \in [0..L -> Nat] /\ F \in [0..L -> Nat]
      /\ l \in 0..L /\ \A m \in 0..K : C[m][c] = C[0][c]
      /\ \A i \in 0..(L - 1) : Q[i] \in 0..K /\ F[i] \in 0..K
      /\ b = [chart |-> C, queue |-> Q, fail |-> F, tail |-> l]
  BY <1>1 DEF FlatAt, Loops
<1>3. L \in Nat \ {0} /\ K \in 0..L /\ n \in 0..K /\ f \in 0..K /\ 0 \in 0..K /\ n \in 0..L
  <2>1. L \in Nat \ {0} /\ K \in 0..L
    BY <1>2 DEF Complete, Tree0
  <2>2. QED BY <1>1, <1>2, <2>1
<1>4. PICK j \in 0..K : j = C[n][c] /\ j = C[f][c]
  <2>1. C[n][c] = C[f][c]
    BY <1>2, <1>3
  <2>2. C[n][c] \in 0..K
    BY <1>2, <1>3 DEF Complete, RowOk, Best
  <2>3. QED BY <2>1, <2>2
<1>5. Letter(b, c) =
        IF C[n][c] # 0
        THEN [b EXCEPT !.queue[l] = C[n][c], !.fail[l] = C[f][c], !.tail = (l + 1) % L]
        ELSE [b EXCEPT !.chart[n][c] = C[f][c]]
  BY <1>1 DEF Letter
<1>6. PICK k : k = (l + 1) % L
  OBVIOUS
<1>7. CASE j # 0
  <2>1. PICK x : x = [b EXCEPT !.queue[l] = j, !.fail[l] = j, !.tail = k]
    OBVIOUS
  <2>2. /\ x.chart = C /\ x.queue = [Q EXCEPT ![l] = j]
        /\ x.fail = [F EXCEPT ![l] = j] /\ x.tail = k
    BY ONLY <1>2, <2>1
  <2>3. x = [chart |-> x.chart, queue |-> x.queue, fail |-> x.fail, tail |-> x.tail]
    BY ONLY <1>2, <2>1
  <2>4. Letter(b, c) = x
    BY <1>4, <1>5, <1>6, <1>7, <2>1
  <2>5. k \in 0..L
    <3>1. l + 1 \in Nat
      BY <1>2, <1>3
    <3>2. PICK y \in Nat : y = l + 1
      BY <3>1
    <3>3. y % L \in 0..(L - 1)
      BY ONLY <1>3, <3>2, Z3
    <3>4. QED BY <1>3, <1>6, <3>2, <3>3
  <2>6. /\ x.queue \in [0..L -> Nat] /\ x.fail \in [0..L -> Nat] /\ j \in Nat
        /\ \A i \in 0..(L - 1) : x.queue[i] \in 0..K /\ x.fail[i] \in 0..K
    <3>1. j \in Nat /\ 0..(L - 1) \subseteq 0..L
      BY <1>3
    <3>2. QED BY <1>2, <2>2, <3>1
  <2>7. x \in Loops(L)
    BY <1>2, <2>2, <2>3, <2>5, <2>6 DEF Loops
  <2>8. FlatAt(x, V, L, P, K)
    BY <1>1, <1>2, <2>2, <2>5, <2>6, <2>7 DEF FlatAt
  <2>9. QED BY <2>4, <2>8
<1>8. CASE j = 0
  <2>1. [C EXCEPT ![n][c] = j] = C
    BY <1>2, <1>3, <1>4 DEF Row
  <2>2. [b EXCEPT !.chart[n][c] = j] = [b EXCEPT !.chart = [C EXCEPT ![n][c] = j]]
    BY ONLY <1>2
  <2>3. [b EXCEPT !.chart = C] = b
    BY ONLY <1>2
  <2>4. Letter(b, c) = b
    BY <1>4, <1>5, <1>8, <2>1, <2>2, <2>3
  <2>5. QED BY <2>4
<1>9. QED BY <1>7, <1>8

LEMMA VisitFlat ==
    ASSUME NEW V, NEW L, NEW P, NEW K,
           FlatAt(Start(chart, queue, fail, tail), V, L, P, K),
           head \in 0..(L - 1), words_len = L, VisitNode
    PROVE  \E b : /\ FlatAt(b, V, L, P, K)
                  /\ chart' = b.chart /\ queue' = b.queue /\ fail' = b.fail /\ tail' = b.tail
<1> DEFINE T == {b \in Loops(L) : FlatAt(b, V, L, P, K)}
           S == [c \in 0..255 |-> T]
<1>1. \A c \in 0..255 : S[c] = T
  OBVIOUS
<1>2. \A b : b \in T <=> FlatAt(b, V, L, P, K)
  BY DEF FlatAt
<1> HIDE DEF S, T
<1>3. \A c \in Chars : c - 1 \in 0..255 /\ c \in 0..255
  BY DEF Chars
<1>4. Quiet(S)
  BY <1>1, <1>3 DEF Quiet
<1>5. Start(chart, queue, fail, tail) \in S[0]
  BY <1>1, <1>2
<1>6. ASSUME NEW c \in Letters, NEW b \in S[c - 1] PROVE Letter(b, c) \in S[c]
  <2>1. c \in Chars
    BY LettersAre DEF Chars
  <2>2. FlatAt(b, V, L, P, K)
    BY <1>1, <1>2, <1>3, <2>1
  <2>3. FlatAt(Letter(b, c), V, L, P, K)
    BY <2>2, FlatLetter
  <2>4. QED BY <1>1, <1>2, <1>3, <2>1, <2>3
<1>7. PICK b \in S[255] : chart' = b.chart /\ queue' = b.queue /\ fail' = b.fail /\ tail' = b.tail
  BY <1>4, <1>5, <1>6, VisitIs
<1>8. 255 \in 0..255
  OBVIOUS
<1>9. QED BY <1>1, <1>2, <1>7, <1>8

(* The children of the root: FirstLetter is a visit of the root. *)
Firsts(L) == [chart : [0..L -> Row], queue : [0..L -> Nat], tail : Nat]
Rooted(b, V, L, P, K, Z, g, c) ==
    /\ Tree0(V, L, P, K) /\ b \in Firsts(L) /\ Z \in [0..L -> {0}]
    /\ Tabled(b.chart, L, P, K, g) /\ Ends(b.chart, V, P, K)
    /\ Queued(b.queue, Z, L, P, K, b.tail, g)
    /\ g[0] = c /\ \A m \in 1..K : g[m] = 0
    /\ \A i \in 0..(b.tail - 1) : Len(P[b.queue[i]]) = 1

LEMMA RootFacts ==
    ASSUME NEW b, NEW V, NEW L, NEW P, NEW K, NEW Z, NEW g, NEW c \in Chars,
           Rooted(b, V, L, P, K, Z, g, c - 1)
    PROVE  /\ L \in Nat \ {0} /\ K \in 0..L /\ K \in Nat /\ Trie(P, K) /\ 0 \in 0..K
           /\ P[0] = << >> /\ Len(P[0]) = 0
           /\ b.chart \in [0..L -> Row] /\ b.queue \in [0..L -> Nat] /\ b.tail \in 0..K
           /\ Z \in [0..L -> Nat] /\ g \in [0..K -> 0..255]
           /\ \E h : Goes(K, g, 0, c, h)
<1>1. L \in Nat \ {0} /\ K \in 0..L /\ K \in Nat /\ Trie(P, K) /\ 0 \in 0..K /\ P[0] = << >>
  <2>1. Tree0(V, L, P, K)
    BY DEF Rooted
  <2>2. L \in Nat \ {0} /\ K \in 0..L /\ Trie(P, K)
    BY <2>1 DEF Tree0
  <2>3. P[0] = << >>
    BY <2>2 DEF Trie
  <2>4. K \in Nat /\ 0 \in 0..K
    BY <2>2
  <2>5. QED BY <2>2, <2>3, <2>4
<1>2. /\ b.chart \in [0..L -> Row] /\ b.queue \in [0..L -> Nat] /\ b.tail \in 0..K
      /\ Z \in [0..L -> Nat] /\ g \in [0..K -> 0..255]
  BY DEF Rooted, Tabled, Queued
<1>3. g[0] = c - 1
  BY DEF Rooted
<1>4. \E h : Goes(K, g, 0, c, h)
  BY <1>1, <1>2, <1>3, CanGo
<1>5. Len(P[0]) = 0
  BY <1>1
<1>6. QED BY <1>1, <1>2, <1>4, <1>5

LEMMA QuietRoot ==
    ASSUME NEW b, NEW V, NEW L, NEW P, NEW K, NEW Z, NEW g, NEW c \in Chars, c \notin Letters,
           Rooted(b, V, L, P, K, Z, g, c - 1)
    PROVE  \E h : Rooted(b, V, L, P, K, Z, h, c)
<1> DEFINE Q == b.queue
           C == b.chart
           e == b.tail
<1>1. /\ C \in [0..L -> Row] /\ g \in [0..K -> 0..255] /\ Tabled(C, L, P, K, g)
      /\ Queued(Q, Z, L, P, K, e, g) /\ K \in Nat
  <2>1. C \in [0..L -> Row] /\ g \in [0..K -> 0..255] /\ K \in Nat
    BY RootFacts
  <2>2. Tabled(C, L, P, K, g) /\ Queued(Q, Z, L, P, K, e, g)
    BY DEF Rooted
  <2>3. QED BY <2>1, <2>2
<1>2. PICK h : Goes(K, g, 0, c, h)
  BY RootFacts
<1> HIDE DEF Q, C, e
<1>3. Changed(C, C, L, K, 0, c)
  BY <1>1 DEF Changed
<1>4. Tabled(C, L, P, K, h)
  BY <1>1, <1>2, <1>3, TabledNext
<1>5. Queued(Q, Z, L, P, K, e, h)
  BY <1>1, <1>2, QueuedStays
<1>6. h[0] = c /\ \A m \in 1..K : h[m] = 0
  <2>1. \A m \in 1..K : m \in 0..K /\ m # 0 /\ g[m] = 0
    BY <1>1 DEF Rooted
  <2>2. QED BY <1>2, <2>1 DEF Goes
<1>7. Rooted(b, V, L, P, K, Z, h, c)
  BY <1>4, <1>5, <1>6 DEF Rooted, Q, C, e
<1>8. QED BY <1>7

LEMMA FirstLetterIs ==
    ASSUME NEW b, NEW V, NEW L, NEW P, NEW K, NEW Z, NEW g, NEW c \in Letters,
           Rooted(b, V, L, P, K, Z, g, c - 1)
    PROVE  \E h : Rooted(FirstLetter(b, c), V, L, P, K, Z, h, c)
<1>1. PICK C, Q, e : C = b.chart /\ Q = b.queue /\ e = b.tail
  OBVIOUS
<1>2. c \in Chars
  BY LettersAre DEF Chars
<1>3. /\ L \in Nat \ {0} /\ K \in 0..L /\ K \in Nat /\ Trie(P, K) /\ 0 \in 0..K /\ P[0] = << >>
      /\ Len(P[0]) = 0 /\ C \in [0..L -> Row] /\ Q \in [0..L -> Nat] /\ e \in 0..K
      /\ Z \in [0..L -> Nat] /\ g \in [0..K -> 0..255]
  BY <1>1, <1>2, RootFacts
<1>4. PICK h : Goes(K, g, 0, c, h)
  BY <1>2, RootFacts
<1>5. /\ Tabled(C, L, P, K, g) /\ Ends(C, V, P, K) /\ Queued(Q, Z, L, P, K, e, g)
      /\ Tree0(V, L, P, K) /\ Z \in [0..L -> {0}]
      /\ g[0] = c - 1 /\ (\A m \in 1..K : g[m] = 0) /\ \A i \in 0..(e - 1) : Len(P[Q[i]]) = 1
      /\ b = [chart |-> C, queue |-> Q, tail |-> e]
  BY <1>1 DEF Rooted, Firsts
<1>6. h[0] = c /\ \A m \in 1..K : h[m] = 0
  <2>1. \A m \in 1..K : m \in 0..K /\ m # 0 /\ g[m] = 0
    BY <1>3, <1>5
  <2>2. QED BY <1>4, <2>1 DEF Goes
<1>7. Entry(P, K, 0, c, C[0][c])
  <2>1. ~(c <= g[0])
    BY <1>2, <1>5 DEF Chars
  <2>2. QED BY <1>3, <1>5, <2>1 DEF Tabled
<1>8. FirstLetter(b, c) = IF C[0][c] # 0 THEN [b EXCEPT !.queue[e] = C[0][c], !.tail = e + 1] ELSE b
  BY <1>1 DEF FirstLetter
<1>9. Changed(C, C, L, K, 0, c)
  BY <1>3 DEF Changed
<1>10. CASE C[0][c] # 0
  <2>1. PICK j \in 1..K : j = C[0][c] /\ P[j] = Append(P[0], c)
    <3>1. PICK j \in 0..K : j = C[0][c] /\ (j # 0 => P[j] = Append(P[0], c))
      BY <1>7 DEF Entry
    <3>2. j \in 1..K
      BY <1>3, <1>10, <3>1
    <3>3. QED BY <1>10, <3>1, <3>2
  <2>2. e \in 0..(K - 1)
    <3>1. K \in Nat /\ Queued(Q, Z, L, P, K, e, g)
      BY <1>3, <1>5
    <3>2. QED BY ONLY <1>4, <2>1, <3>1, NotYet, c \in Letters
  <2>3. e \in 0..L /\ e \in Nat
    BY <1>3, <2>2
  <2>4. PICK R : R = [Q EXCEPT ![e] = j]
    OBVIOUS
  <2>5. R \in [0..L -> Nat] /\ R[e] = j /\ \A i \in 0..(e - 1) : R[i] = Q[i]
    <3>1. j \in Nat /\ \A i \in 0..(e - 1) : i # e /\ i \in 0..L
      BY <1>3, <2>3
    <3>2. QED BY <1>3, <2>3, <2>4, <3>1
  <2>6. Best(P, K, Tail(P[j]), 0)
    <3>1. c \in Int /\ << >> \in Seq(Int)
      BY LettersAre
    <3>2. Tail(P[j]) = << >>
      BY <1>3, <2>1, <3>1, HeadTailAppend
    <3>3. Best(P, K, P[0], 0)
      BY <1>3, BestSelf
    <3>4. QED BY <1>3, <3>2, <3>3
  <2>7. Enqueues(Q, Z, R, Z, L, P, K, e, g, 0, c, h, j, 0)
    <3>1. Z[e] = 0 /\ L \in Nat
      BY <1>3, <1>5, <2>3
    <3>2. \A i \in 0..(e - 1) : Len(P[Q[i]]) <= Len(P[0]) + 1
      <4> TAKE i \in 0..(e - 1)
      <4>1. Len(P[Q[i]]) = 1
        BY <1>5
      <4>2. Len(P[0]) = 0
        BY <1>3
      <4>3. QED BY ONLY <4>1, <4>2
    <3>3. QED BY <1>3, <1>4, <1>5, <2>1, <2>5, <2>6, <3>1, <3>2 DEF Enqueues
  <2>8. Queued(R, Z, L, P, K, e + 1, h)
    BY <2>7, Enqueued
  <2>9. Tabled(C, L, P, K, h)
    <3>1. Best(P, K, Append(P[0], c), C[0][c])
      <4>1. j \in 0..K
        BY <1>3
      <4>2. Best(P, K, P[j], j)
        BY <1>3, <4>1, BestSelf
      <4>3. QED BY <2>1, <4>2
    <3>2. QED BY <1>4, <1>5, <1>9, <3>1, TabledNext
  <2>10. \A i \in 0..((e + 1) - 1) : Len(P[R[i]]) = 1
    <3>1. P[0] \in Seq(Int) /\ c \in Int
      BY <1>3, LettersAre
    <3>2. Len(P[j]) = 1
      BY <1>3, <2>1, <3>1, AppendProperties
    <3>3. \A i \in 0..((e + 1) - 1) : i = e \/ i \in 0..(e - 1)
      BY <2>3
    <3>4. QED BY <1>5, <2>5, <3>2, <3>3
  <2>11. PICK x : x = [b EXCEPT !.queue[e] = j, !.tail = e + 1]
    OBVIOUS
  <2>12. /\ x.chart = C /\ x.queue = R /\ x.tail = e + 1
    BY ONLY <1>5, <2>4, <2>11
  <2>13. x = [chart |-> x.chart, queue |-> x.queue, tail |-> x.tail]
    BY ONLY <1>5, <2>11
  <2>14. x \in Firsts(L)
    BY <1>3, <2>3, <2>5, <2>12, <2>13 DEF Firsts
  <2>15. Rooted(x, V, L, P, K, Z, h, c)
    BY <1>5, <1>6, <2>8, <2>9, <2>10, <2>12, <2>14 DEF Rooted
  <2>16. x = FirstLetter(b, c)
    BY <1>8, <1>10, <2>1, <2>11
  <2>17. QED BY <2>15, <2>16
<1>11. CASE C[0][c] = 0
  <2>1. \A m \in 0..K : P[m] # Append(P[0], c)
    BY <1>7, <1>11 DEF Entry
  <2>2. Best(P, K, Append(P[0], c), 0)
    BY <1>3, <2>1, RootRow, LettersAre
  <2>3. Tabled(C, L, P, K, h)
    BY <1>4, <1>5, <1>9, <1>11, <2>2, TabledNext
  <2>4. Queued(Q, Z, L, P, K, e, h)
    <3>1. \A m \in 1..K : P[m] # Append(P[0], c)
      <4>1. \A m \in 1..K : m \in 0..K
        BY <1>3
      <4>2. QED BY <2>1, <4>1
    <3>2. QED BY <1>3, <1>4, <1>5, <3>1, QueuedStays
  <2>5. Rooted(b, V, L, P, K, Z, h, c)
    BY <1>1, <1>6, <2>3, <2>4 DEF Rooted
  <2>6. QED BY <1>8, <1>11, <2>5
<1>12. QED BY <1>10, <1>11

\* The tree of the words, before its first letter.
LEMMA RootStarts ==
    ASSUME NEW V, V = word_vector, V \in Seq(Words), V # << >>, NEW L, L = words_len
    PROVE  \E P, K, g : Rooted(First(Tree, Zeros(L), 0), V, L, P, K, Zeros(L), g, 0)
<1>1. PICK t, P : TreePart(t, P, V, L, Len(V)) /\ Tree = t.chart /\ L \in Nat
  BY TreeIs
<1>2. PICK K, C : K = t.k /\ C = t.chart
  OBVIOUS
<1>3. /\ C \in [0..L -> Row] /\ K \in Nat /\ K <= L /\ Trie(P, K) /\ Covers(P, K, V, Len(V))
      /\ \A m \in 0..K : TreeRow(P, K, m, C[m]) /\ EndRow(P, V, Len(V), m, C[m])
  BY <1>1, <1>2 DEF TreePart
<1>4. L # 0
  <2>1. 1 \in 1..Len(V)
    <3>1. Len(V) \in Nat \ {0}
      BY EmptySeq
    <3>2. QED BY <3>1
  <2>2. V[1] \in Str /\ Len(V[1]) \in Nat \ {0}
    BY <2>1, WordsAre
  <2>3. PICK m \in 0..K : P[m] = V[1]
    BY <1>3, <2>1 DEF Covers
  <2>4. m # 0
    <3>1. P[m] # << >>
      BY <2>2, <2>3
    <3>2. QED BY <1>3, <3>1 DEF Trie
  <2>5. QED BY <1>1, <1>3, <2>4
<1>5. Tree0(V, L, P, K)
  BY <1>1, <1>3, <1>4 DEF Tree0
<1>6. PICK g, Z : g = [m \in 0..K |-> 0] /\ Z = Zeros(L)
  OBVIOUS
<1>7. g \in [0..K -> 0..255] /\ Z \in [0..L -> {0}] /\ Z \in [0..L -> Nat] /\ \A m \in 0..K : g[m] = 0
  <2>1. 0 \in 0..255
    OBVIOUS
  <2>2. QED BY <1>6, <2>1 DEF Zeros
<1>8. \A x \in Letters : ~(x <= 0)
  BY LettersAre
<1>9. Tabled(C, L, P, K, g)
  <2>1. \A m \in 0..K : \A x \in Letters : Entry(P, K, m, x, C[m][x])
    BY <1>3 DEF TreeRow, Entry
  <2>2. \A m \in 0..K : \A x \in Letters : ~(x <= g[m])
    BY <1>7, <1>8
  <2>3. QED BY <1>3, <1>7, <2>1, <2>2 DEF Tabled
<1>10. Queued(Z, Z, L, P, K, 0, g)
  <2>1. 0..(0 - 1) = {} /\ 0 \in 0..K
    BY <1>3
  <2>2. \A m \in 0..K : \A x \in Letters : ~(x <= g[m])
    BY <1>7, <1>8
  <2>3. \A j : ~InQueue(Z, 0, j)
    BY <2>1 DEF InQueue
  <2>4. QED BY <1>7, <2>1, <2>2, <2>3 DEF Queued
<1>11. PICK b : b = First(Tree, Zeros(L), 0)
  OBVIOUS
<1>12. b \in Firsts(L) /\ b.chart = C /\ b.queue = Z /\ b.tail = 0
  BY <1>1, <1>2, <1>3, <1>6, <1>7, <1>11 DEF First, Firsts
<1>13. Rooted(b, V, L, P, K, Z, g, 0)
  <2>1. 0..(0 - 1) = {} /\ 0 \in 0..K /\ \A m \in 1..K : m \in 0..K
    BY <1>3
  <2>2. QED BY <1>3, <1>5, <1>7, <1>9, <1>10, <1>12, <2>1 DEF Rooted, Ends
<1>14. QED BY <1>6, <1>11, <1>13

-----------------------------------------------------------------------------
(* am_build.                                                                 *)

Phase1(V, L, P, K, d, e, g) ==
    /\ Working(Start(chart, queue, fail, tail), V, L, P, K, d, e, g, 0)
    /\ head = IF d = L THEN 0 ELSE d
    /\ tail = 0 /\ e = L => d > 0
Phase2(V, L, P, K) == FlatAt(Start(chart, queue, fail, tail), V, L, P, K) /\ head \in 0..(L - 1)
Building ==
    \E P, K : \/ \E d, e, g : Phase1(word_vector, words_len, P, K, d, e, g)
              \/ Phase2(word_vector, words_len, P, K)
Built == \E P, K : Complete(chart, word_vector, words_len, P, K)

LEMMA TreeBuilt ==
    ASSUME word_vector \in Seq(Words), BuildTree
    PROVE  Building'
<1>1. PICK V, L : V = word_vector /\ L = words_len
  OBVIOUS
<1>2. V \in Seq(Words) /\ V # << >> /\ word_vector' = V /\ fail' = Zeros(L) /\ head' = 0
  BY <1>1 DEF BuildTree
<1>3. words_len' = L
  BY <1>1, <1>2 DEF words_len
<1>4. PICK P, K, g0 : Rooted(First(Tree, Zeros(L), 0), V, L, P, K, Zeros(L), g0, 0)
  BY <1>1, <1>2, RootStarts
<1>5. PICK Z, x : Z = Zeros(L) /\ x = First(Tree, Zeros(L), 0)
  BY Zenon
<1> DEFINE T(c) == {b \in Firsts(L) : \E g : Rooted(b, V, L, P, K, Z, g, c)}
           S == [c \in 0..255 |-> T(c)]
<1>6. \A c \in 0..255 : \A b : b \in S[c] <=> \E g : Rooted(b, V, L, P, K, Z, g, c)
  <2> TAKE c \in 0..255
  <2> TAKE b
  <2>1. S[c] = T(c)
    OBVIOUS
  <2>2. QED BY <2>1, Zenon DEF Rooted
<1> HIDE DEF S, T
<1>7. \A c \in Chars : c - 1 \in 0..255 /\ c \in 0..255
  BY DEF Chars
<1>8. Quiet(S)
  <2> SUFFICES ASSUME NEW c \in Chars, c \notin Letters, NEW b \in S[c - 1] PROVE b \in S[c]
    BY DEF Quiet
  <2>1. PICK g : Rooted(b, V, L, P, K, Z, g, c - 1)
    BY <1>6, <1>7
  <2>2. \E h : Rooted(b, V, L, P, K, Z, h, c)
    BY <2>1, QuietRoot
  <2>3. QED BY <1>6, <1>7, <2>2
<1>9. x \in S[0]
  BY <1>4, <1>5, <1>6
<1>10. ASSUME NEW c \in Letters, NEW b \in S[c - 1] PROVE FirstLetter(b, c) \in S[c]
  <2>1. c \in Chars
    BY LettersAre DEF Chars
  <2>2. PICK g : Rooted(b, V, L, P, K, Z, g, c - 1)
    BY <1>6, <1>7, <2>1
  <2>3. \E h : Rooted(FirstLetter(b, c), V, L, P, K, Z, h, c)
    BY <2>2, FirstLetterIs
  <2>4. QED BY <1>6, <1>7, <2>1, <2>3
<1>11. PICK b \in S[255] : chart' = b.chart /\ queue' = b.queue /\ tail' = b.tail
  <2>1. First(Tree, Zeros(words_len), 0) \in S[0]
    BY <1>1, <1>5, <1>9
  <2>2. QED BY <1>8, <1>10, <2>1, FirstIs
<1>12. PICK g : Rooted(b, V, L, P, K, Z, g, 255)
  <2>1. 255 \in 0..255
    OBVIOUS
  <2>2. QED BY <1>6, <1>11, <2>1
<1>13. PICK C, Q, e : C = b.chart /\ Q = b.queue /\ e = b.tail
  OBVIOUS
<1>14. /\ Tree0(V, L, P, K) /\ Z \in [0..L -> {0}] /\ C \in [0..L -> Row] /\ Q \in [0..L -> Nat] /\ e \in Nat
       /\ Tabled(C, L, P, K, g) /\ Ends(C, V, P, K) /\ Queued(Q, Z, L, P, K, e, g)
       /\ g[0] = 255 /\ \A m \in 1..K : g[m] = 0
       /\ \A i \in 0..(e - 1) : Len(P[Q[i]]) = 1
  BY <1>12, <1>13 DEF Rooted, Firsts
<1>15. L \in Nat \ {0}
  BY <1>14 DEF Tree0
<1>17. AtFront(Q, P, K, e, 0, g, 0)
  <2>1. \A i \in 0..(e - 1) : Q[i] \in 1..K
    BY <1>14 DEF Queued
  <2>2. \A i \in 0..(e - 1) : g[Q[i]] = 0 /\ ~(i < 0)
    BY <1>14, <2>1
  <2>3. ASSUME 0 < e, NEW i \in 0..(e - 1) PROVE Len(P[Q[i]]) <= Len(P[Q[0]]) + 1
    <3>1. 0 \in 0..(e - 1)
      BY <1>14, <2>3
    <3>2. Len(P[Q[i]]) = 1 /\ Len(P[Q[0]]) = 1
      BY <1>14, <3>1
    <3>3. QED BY ONLY <3>2
  <2>4. 0 \in 0..e
    BY <1>14
  <2>5. QED BY <1>14, <2>2, <2>3, <2>4 DEF AtFront
<1>18. PICK y : y = Start(C, Q, Z, e)
  OBVIOUS
<1>19. y \in Loops(L) /\ y.chart = C /\ y.queue = Q /\ y.fail = Z /\ y.tail = e
  <2>1. Z \in [0..L -> Nat]
    BY <1>14 DEF Queued
  <2>2. QED BY <1>14, <1>18, <2>1 DEF Start, Loops
<1>20. TailIs(e, Q, P, L, e)
  BY <1>14 DEF TailIs
<1>21. Working(y, V, L, P, K, 0, e, g, 0)
  BY <1>14, <1>17, <1>19, <1>20 DEF Working
<1>22. Start(chart', queue', fail', tail') = y
  BY <1>2, <1>5, <1>11, <1>13, <1>18
<1>23. tail' = 0 /\ e = L => FALSE
  BY <1>11, <1>13, <1>15
<1>24. \E d, f, h : /\ Working(Start(chart', queue', fail', tail'), V, L, P, K, d, f, h, 0)
                    /\ head' = IF d = L THEN 0 ELSE d
                    /\ tail' = 0 /\ f = L => d > 0
  BY <1>2, <1>21, <1>22, <1>23
<1>25. PICK d, f, h : /\ Working(Start(chart', queue', fail', tail'), V, L, P, K, d, f, h, 0)
                      /\ head' = IF d = L THEN 0 ELSE d
                      /\ tail' = 0 /\ f = L => d > 0
  BY <1>24
<1>26. Phase1(word_vector, words_len, P, K, d, f, h)'
  BY <1>2, <1>3, <1>25 DEF Phase1
<1>27. QED BY <1>26, Zenon DEF Building

LEMMA NodeBuilt ==
    ASSUME word_vector \in Seq(Words), Building, BuildNode
    PROVE  Building'
<1>1. PICK V, L : V = word_vector /\ L = words_len
  OBVIOUS
<1>2. word_vector' = V /\ head # tail /\ VisitNode /\ head' = (head + 1) % L
  BY <1>1 DEF BuildNode
<1>3. words_len' = L
  BY <1>1, <1>2 DEF words_len
<1>4. PICK P, K : (\E d, e, g : Phase1(V, L, P, K, d, e, g)) \/ Phase2(V, L, P, K)
  BY <1>1 DEF Building
<1>0. PICK s : s = Start(chart, queue, fail, tail)
  OBVIOUS
<1>11. s.tail = tail
  BY <1>0 DEF Start
<1>5. ASSUME NEW d, NEW e, NEW g, Phase1(V, L, P, K, d, e, g), d < e PROVE Building'
  <2>1. /\ Working(Start(chart, queue, fail, tail), V, L, P, K, d, e, g, 0)
        /\ head = IF d = L THEN 0 ELSE d
    BY <1>5 DEF Phase1
  <2>2. L \in Nat \ {0} /\ d # L
    <3>1. L \in Nat \ {0} /\ K \in 0..L /\ e \in 0..K
      BY <2>1 DEF Working, Tree0, Queued
    <3>2. d \in 0..e
      BY <2>1 DEF Working, AtFront
    <3>3. QED BY <1>5, <3>1, <3>2
  <2>3. head = d
    BY <2>1, <2>2
  <2>4. PICK b, f, h : /\ Working(b, V, L, P, K, d, f, h, 255) /\ d < f
                       /\ chart' = b.chart /\ queue' = b.queue /\ fail' = b.fail /\ tail' = b.tail
    BY <1>1, <1>2, <1>5, <2>1, <2>3, VisitWorks
  <2>5. Working(b, V, L, P, K, d + 1, f, h, 0) /\ d \in 0..(L - 1)
    BY <2>4, Forward
  <2>6. head' = IF d + 1 = L THEN 0 ELSE d + 1
    BY <1>2, <2>2, <2>3, <2>5, WrapsAt
  <2>7. Start(chart', queue', fail', tail') = b
    <3>1. b \in Loops(L)
      BY <2>4 DEF Working
    <3>2. b = [chart |-> b.chart, queue |-> b.queue, fail |-> b.fail, tail |-> b.tail]
      BY <3>1 DEF Loops
    <3>3. QED BY <2>4, <3>2 DEF Start
  <2>8. d + 1 > 0
    BY <2>5
  <2>9. PICK k, l, q : /\ Working(Start(chart', queue', fail', tail'), V, L, P, K, k, l, q, 0)
                       /\ head' = IF k = L THEN 0 ELSE k
                       /\ tail' = 0 /\ l = L => k > 0
    BY <2>5, <2>6, <2>7, <2>8
  <2>10. Phase1(word_vector, words_len, P, K, k, l, q)'
    BY <1>2, <1>3, <2>9 DEF Phase1
  <2>11. QED BY <2>10, Zenon DEF Building
<1>6. ASSUME NEW d, NEW e, NEW g, Phase1(V, L, P, K, d, e, g), ~(d < e) PROVE Phase2(V, L, P, K)
  <2>1. /\ Working(s, V, L, P, K, d, e, g, 0)
        /\ head = IF d = L THEN 0 ELSE d
    BY <1>6, <1>0 DEF Phase1
  <2>2. L \in Nat \ {0} /\ K \in 0..L /\ e \in 0..K /\ d \in 0..e
    BY <2>1 DEF Working, Tree0, Queued, AtFront
  <2>3. d = e
    BY <1>6, <2>2
  <2>4. tail = e \/ (tail = 0 /\ e = L)
    BY <1>11, <2>1 DEF Working, TailIs
  <2>5. d = L /\ e = L /\ tail # 0 /\ head = 0
    BY <1>2, <2>1, <2>2, <2>3, <2>4
  <2>6. Working(s, V, L, P, K, L, L, g, 0)
    BY <2>1, <2>5
  <2>7. FlatAt(s, V, L, P, K)
    BY <1>11, <2>5, <2>6, FlatStarts
  <2>8. head \in 0..(L - 1)
    BY <2>2, <2>5
  <2>9. QED BY <1>0, <2>7, <2>8 DEF Phase2
<1>7. ASSUME Phase2(V, L, P, K) PROVE Building'
  <2>1. FlatAt(Start(chart, queue, fail, tail), V, L, P, K) /\ head \in 0..(L - 1)
    BY <1>7 DEF Phase2
  <2>2. PICK b : /\ FlatAt(b, V, L, P, K)
                 /\ chart' = b.chart /\ queue' = b.queue /\ fail' = b.fail /\ tail' = b.tail
    BY <1>1, <1>2, <2>1, VisitFlat
  <2>3. Start(chart', queue', fail', tail') = b
    <3>1. b \in Loops(L)
      BY <2>2 DEF FlatAt
    <3>2. b = [chart |-> b.chart, queue |-> b.queue, fail |-> b.fail, tail |-> b.tail]
      BY <3>1 DEF Loops
    <3>3. QED BY <2>2, <3>2 DEF Start
  <2>4. L \in Nat \ {0}
    BY <2>1 DEF FlatAt, Complete, Tree0
  <2>5. head' \in 0..(L - 1)
    <3>1. head' = IF head + 1 = L THEN 0 ELSE head + 1
      BY <1>2, <2>1, <2>4, WrapsAt
    <3>2. QED BY <2>1, <2>4, <3>1
  <2>6. FlatAt(Start(chart', queue', fail', tail'), V, L, P, K) /\ head' \in 0..(L - 1)
    BY <2>2, <2>3, <2>5
  <2>7. QED BY <1>2, <1>3, <2>6 DEF Building, Phase2
<1>8. QED BY <1>4, <1>5, <1>6, <1>7

LEMMA ReturnBuilt ==
    ASSUME Building, BuildReturn
    PROVE  Built'
<1>1. PICK V, L : V = word_vector /\ L = words_len
  OBVIOUS
<1>2. word_vector' = V /\ head = tail /\ chart' = chart
  BY <1>1 DEF BuildReturn
<1>3. words_len' = L
  BY <1>1, <1>2 DEF words_len
<1>4. PICK P, K : (\E d, e, g : Phase1(V, L, P, K, d, e, g)) \/ Phase2(V, L, P, K)
  BY <1>1 DEF Building
<1>5. PICK s : s = Start(chart, queue, fail, tail)
  OBVIOUS
<1>6. s.tail = tail /\ s.chart = chart
  BY <1>5 DEF Start
<1>7. ASSUME NEW d, NEW e, NEW g, Phase1(V, L, P, K, d, e, g) PROVE Complete(chart, V, L, P, K)
  <2>1. /\ Working(s, V, L, P, K, d, e, g, 0)
        /\ head = IF d = L THEN 0 ELSE d
        /\ tail = 0 /\ e = L => d > 0
    BY <1>5, <1>7 DEF Phase1
  <2>2. L \in Nat \ {0} /\ K \in 0..L /\ e \in 0..K /\ d \in 0..e
    BY <2>1 DEF Working, Tree0, Queued, AtFront
  <2>3. tail = e \/ (tail = 0 /\ e = L)
    BY <1>6, <2>1 DEF Working, TailIs
  <2>4. d = e
    BY <1>2, <2>1, <2>2, <2>3
  <2>5. Working(s, V, L, P, K, d, d, g, 0)
    BY <2>1, <2>4
  <2>6. QED BY <1>6, <2>5, AllDone
<1>8. ASSUME Phase2(V, L, P, K) PROVE Complete(chart, V, L, P, K)
  BY <1>5, <1>6, <1>8 DEF Phase2, FlatAt
<1>9. Complete(chart', V, L, P, K)
  BY <1>2, <1>4, <1>7, <1>8
<1>10. QED BY <1>2, <1>3, <1>9 DEF Built

-----------------------------------------------------------------------------
(* am_match on a complete table. *)

\* No word that the table has ends at place r.
NoEnd(V, P, K, str, r) ==
    \E n : Best(P, K, SubSeq(str, 1, r), n) /\ \A b \in 1..Len(V) : V[b] # P[n]
\* The walk after p characters.
Walked(V, P, K, str, p, w) ==
    /\ w \in [state : Nat, found : 0..Len(V)]
    /\ w.found = 0 => /\ Best(P, K, SubSeq(str, 1, p), w.state)
                      /\ \A r \in 1..p : NoEnd(V, P, K, str, r)
    /\ w.found # 0 => \E r \in 1..p : \E n :
                        /\ Best(P, K, SubSeq(str, 1, r), n) /\ P[n] = V[w.found]
                        /\ \A q \in 1..(r - 1) : NoEnd(V, P, K, str, q)

LEMMA StepIs ==
    ASSUME NEW V, NEW L, NEW P, NEW K, Complete(chart, V, L, P, K), V \in Seq(Words),
           NEW str \in Str, NEW p \in Nat, p < Len(str), NEW w, Walked(V, P, K, str, p, w)
    PROVE  Walked(V, P, K, str, p + 1, Step(w, str[p + 1]))
<1>1. PICK c \in Int : c = str[p + 1]
  BY PrefixIs
<1>2. PICK u \in Str, v \in Str : /\ u = SubSeq(str, 1, p) /\ v = SubSeq(str, 1, p + 1)
                                  /\ v = Append(u, c)
  <2>1. /\ SubSeq(str, 1, p) \in Str
        /\ SubSeq(str, 1, p + 1) = Append(SubSeq(str, 1, p), c)
    BY <1>1, PrefixIs
  <2>2. Append(SubSeq(str, 1, p), c) \in Str
    BY <1>1, <2>1, AppendProperties DEF Str
  <2>3. QED BY <2>1, <2>2
<1>3. /\ \A r \in 1..p : r \in 1..(p + 1)
      /\ \A r \in 1..(p + 1) : r = p + 1 \/ r \in 1..p
      /\ p + 1 \in 1..(p + 1) /\ (p + 1) - 1 = p
  OBVIOUS
<1>4. CASE w.found # 0
  <2>1. Step(w, c) = w
    BY <1>4 DEF Step
  <2>2. QED BY <1>1, <1>3, <1>4, <2>1 DEF Walked
<1>5. CASE w.found = 0
  <2>1. Best(P, K, u, w.state) /\ \A r \in 1..p : NoEnd(V, P, K, str, r)
    BY <1>2, <1>5 DEF Walked
  <2>2. /\ Trie(P, K) /\ K \in Nat /\ K <= L /\ Ends(chart, V, P, K) /\ chart \in [0..L -> Row]
        /\ \A m \in 0..K : RowOk(P, K, m, chart[m])
    BY DEF Complete, Tree0
  <2>3. PICK s : s = IF c \in Letters THEN chart[w.state][c] ELSE 0
    OBVIOUS
  <2>4. Best(P, K, v, s)
    <3>1. CASE c \in Letters
      <4>1. w.state \in 0..K
        BY <2>1 DEF Best
      <4>2. PICK n : n = w.state
        OBVIOUS
      <4>3. Best(P, K, Append(P[n], c), s)
        BY <2>2, <2>3, <3>1, <4>1, <4>2 DEF RowOk
      <4>4. Best(P, K, u, n)
        BY <2>1, <4>2
      <4>5. Trie(P, K)
        BY <2>2
      <4>6. Best(P, K, Append(u, c), s)
        BY ONLY <4>3, <4>4, <4>5, BestAppend, c \in Int, u \in Str
      <4>7. QED BY <1>2, <4>6
    <3>2. CASE c \notin Letters
      BY <1>2, <2>2, <2>3, <3>2, NoLetter
    <3>3. QED BY <3>1, <3>2
  <2>5. s \in 0..K
    BY <2>4 DEF Best
  <2>6. PICK j : j = chart[s][END]
    OBVIOUS
  <2>7. /\ j \in 0..Len(V) /\ (j # 0 => V[j] = P[s])
        /\ (j = 0 => \A b \in 1..Len(V) : V[b] # P[s])
    BY <2>2, <2>5, <2>6 DEF Ends, EndRow
  <2>8. Step(w, c) = [state |-> s, found |-> j]
    BY <1>5, <2>3, <2>6 DEF Step
  <2>9. PICK x : x = Step(w, c)
    OBVIOUS
  <2>10. x \in [state : Nat, found : 0..Len(V)] /\ x.state = s /\ x.found = j
    <3>1. s \in Nat
      BY <2>2, <2>5
    <3>2. QED BY <2>7, <2>8, <2>9, <3>1
  <2>11. CASE j = 0
    <3>1. NoEnd(V, P, K, str, p + 1)
      BY <1>2, <2>4, <2>7, <2>11 DEF NoEnd
    <3>2. \A r \in 1..(p + 1) : NoEnd(V, P, K, str, r)
      BY <1>3, <2>1, <3>1
    <3>3. Walked(V, P, K, str, p + 1, x)
      BY <1>2, <2>4, <2>10, <2>11, <3>2 DEF Walked
    <3>4. QED BY <1>1, <2>9, <3>3
  <2>12. CASE j # 0
    <3>1. \A q \in 1..((p + 1) - 1) : NoEnd(V, P, K, str, q)
      BY <1>3, <2>1
    <3>2. Best(P, K, SubSeq(str, 1, p + 1), s) /\ P[s] = V[x.found]
      BY <1>2, <2>4, <2>7, <2>10, <2>12
    <3>3. Walked(V, P, K, str, p + 1, x)
      BY <1>3, <2>10, <2>12, <3>1, <3>2 DEF Walked
    <3>4. QED BY <1>1, <2>9, <3>3
  <2>13. QED BY <2>11, <2>12
<1>6. QED BY <1>4, <1>5

WalkStart == [state |-> 0, found |-> 0]
WalkFun(f, str) ==
    f = [p \in 0..Len(str) |-> IF p = 0 THEN WalkStart ELSE Step(f[p - 1], str[p])]

LEMMA MatchIs ==
    ASSUME NEW V, NEW L, NEW P, NEW K, Complete(chart, V, L, P, K), V \in Seq(Words), NEW str \in Str
    PROVE  \E w : Walked(V, P, K, str, Len(str), w) /\ am_match(str) = w.found
<1>1. PICK n \in Nat : n = Len(str)
  BY DEF Str
<1> DEFINE S == [p \in 0..n |-> {w \in [state : Nat, found : 0..Len(V)] : Walked(V, P, K, str, p, w)}]
           step == [p \in 1..n |-> [w \in S[p - 1] |-> Step(w, str[p])]]
<1>2. \A p \in 0..n : \A w : w \in S[p] <=> Walked(V, P, K, str, p, w)
  BY DEF Walked
<1>3. \A p \in 1..n : \A w \in S[p - 1] : step[p][w] = Step(w, str[p])
  OBVIOUS
<1> HIDE DEF S, step
<1>4. /\ \A p \in 1..n : p - 1 \in 0..n /\ p \in 0..n /\ p # 0 /\ p - 1 \in Nat /\ p - 1 < n /\ (p - 1) + 1 = p
      /\ 0 \in 0..n /\ n \in 0..n
      /\ \A p \in 0..n : p # 0 => p \in 1..n
      /\ \A p \in 0..(n - 1) : p + 1 \in 1..n /\ (p + 1) - 1 = p /\ p \in 0..n /\ p + 1 \in 0..n
  BY <1>1
<1>5. ASSUME NEW p \in 1..n, NEW w \in S[p - 1] PROVE Step(w, str[p]) \in S[p]
  <2>1. PICK q \in Nat : q = p - 1 /\ q < Len(str) /\ q + 1 = p
    BY <1>1, <1>4
  <2>2. Walked(V, P, K, str, q, w)
    BY <1>2, <1>4, <2>1
  <2>3. Walked(V, P, K, str, q + 1, Step(w, str[q + 1]))
    BY <2>1, <2>2, StepIs
  <2>4. QED BY <1>2, <1>4, <2>1, <2>3
<1>6. WalkStart \in S[0]
  <2>1. Trie(P, K)
    BY DEF Complete, Tree0
  <2>2. 0 \in 0..K /\ P[0] = << >>
    BY <2>1, TrieNode DEF Trie
  <2>3. Best(P, K, << >>, 0)
    BY <2>1, <2>2, BestSelf
  <2>4. SubSeq(str, 1, 0) = << >>
    BY <1>1 DEF Str
  <2>5. Len(V) \in Nat
    OBVIOUS
  <2>6. 1..0 = {} /\ 0 \in 0..Len(V)
    BY <2>5
  <2>7. Walked(V, P, K, str, 0, WalkStart)
    BY <2>3, <2>4, <2>6 DEF Walked, WalkStart
  <2>8. QED BY <1>2, <1>4, <2>7
<1>7. Stages(S, n, step)
  BY <1>3, <1>5 DEF Stages
<1>8. PICK f : Runs(f, S, n, WalkStart, step)
  BY <1>6, <1>7, StageByStage
<1>9. WalkFun(f, str)
  <2>1. \A p \in 1..n : f[p] = Step(f[p - 1], str[p])
    BY <1>3, <1>4, <1>8 DEF Runs
  <2>2. \A p \in 0..n : f[p] = IF p = 0 THEN WalkStart ELSE Step(f[p - 1], str[p])
    BY <1>4, <1>8, <2>1 DEF Runs
  <2>3. f = [p \in 0..n |-> f[p]]
    BY <1>8 DEF Runs
  <2>4. f = [p \in 0..n |-> IF p = 0 THEN WalkStart ELSE Step(f[p - 1], str[p])]
    BY ONLY <2>2, <2>3
  <2>5. QED BY <1>1, <2>4 DEF WalkFun
<1>10. PICK g : g = CHOOSE h : WalkFun(h, str)
  OBVIOUS
<1>11. WalkFun(g, str)
  BY <1>9, <1>10, Zenon
<1>12. g[n] \in S[n]
  <2>1. \A p \in 0..n : g[p] = IF p = 0 THEN WalkStart ELSE Step(g[p - 1], str[p])
    BY <1>1, <1>11 DEF WalkFun
  <2> DEFINE T == {p \in 0..n : g[p] \in S[p]}
  <2>2. 0 \in T
    BY <1>4, <1>6, <2>1
  <2>3. ASSUME NEW p \in 0..(n - 1), p \in T PROVE p + 1 \in T
    <3>1. g[p + 1] = Step(g[p], str[p + 1])
      BY <1>4, <2>1
    <3>2. g[p] \in S[(p + 1) - 1]
      BY <1>4, <2>3
    <3>3. QED BY <1>4, <1>5, <3>1, <3>2
  <2> HIDE DEF T
  <2>4. \A p \in 0..n : p \in T
    BY <2>2, <2>3, UpTo
  <2>5. QED BY <1>4, <2>4 DEF T
<1>13. am_match(str) = g[n].found
  BY <1>1, <1>10 DEF am_match, WalkFun, WalkStart
<1>14. QED BY <1>1, <1>2, <1>4, <1>12, <1>13

LEMMA WordNode ==
    ASSUME NEW V \in Seq(Words), NEW L, NEW P, NEW K, Tree0(V, L, P, K), NEW w \in ToSet(V)
    PROVE  w \in Str /\ Len(w) \in Nat /\ \E m \in 0..K : P[m] = w
<1>1. PICK b \in 1..Len(V) : w = V[b]
  BY DEF ToSet
<1>2. Len(V) \in Nat
  OBVIOUS
<1>3. w \in Str /\ Len(w) \in Nat
  BY <1>1, <1>2, WordsAre
<1>4. \E m \in 0..K : P[m] = w
  BY <1>1 DEF Tree0, Covers
<1>5. QED BY <1>3, <1>4

LEMMA EndsIs ==
    ASSUME NEW str \in Str, NEW p \in 1..Len(str), NEW w, word_vector \in Seq(Words)
    PROVE  /\ SubSeq(str, 1, p) \in Str
           /\ w \in EndsAt(str, p) <=> w \in ToSet(word_vector) /\ Suf(w, SubSeq(str, 1, p))
<1>1. PICK n \in Nat : n = Len(str)
  BY DEF Str
<1>2. PICK u \in Str : u = SubSeq(str, 1, p)
  <2>1. CASE p < n
    <3>1. p \in Nat /\ p < Len(str)
      BY <1>1, <2>1
    <3>2. SubSeq(str, 1, p) \in Str
      BY <3>1, PrefixIs
    <3>3. QED BY <3>2
  <2>2. CASE p = n
    <3>1. SubSeq(str, 1, n) = str
      BY <1>1, SubSeqFull DEF Str
    <3>2. QED BY <2>2, <3>1
  <2>3. p < n \/ p = n
    BY <1>1
  <2>4. QED BY <2>1, <2>2, <2>3
<1>3. ASSUME w \in ToSet(word_vector) PROVE IsSuffix(w, u) <=> Suf(w, u)
  <2>1. w \in Str
    <3>1. PICK b \in 1..Len(word_vector) : w = word_vector[b]
      BY <1>3 DEF ToSet
    <3>2. QED BY <3>1, WordsAre
  <2>2. QED BY <2>1, SufIs
<1>4. QED BY <1>2, <1>3 DEF EndsAt

\* A node that is not a word hides every word that ends there.
LEMMA ClearIs ==
    ASSUME NEW L, NEW P, NEW K, Tree0(word_vector, L, P, K), word_vector \in Seq(Words),
           NEW str \in Str, NEW r \in 1..Len(str), NoEnd(word_vector, P, K, str, r),
           NEW w \in EndsAt(str, r)
    PROVE  Hidden(w)
<1>1. PICK V, u : V = word_vector /\ u = SubSeq(str, 1, r)
  OBVIOUS
<1>2. Trie(P, K) /\ u \in Str /\ Suf(w, u) /\ w \in ToSet(V) /\ V \in Seq(Words)
  BY <1>1, EndsIs DEF Tree0
<1>3. PICK n : Best(P, K, u, n) /\ \A b \in 1..Len(V) : V[b] # P[n]
  BY <1>1 DEF NoEnd
<1>4. PICK m \in 0..K : P[m] = w /\ w \in Str
  BY <1>1, <1>2, WordNode
<1>5. n \in 0..K /\ P[n] \in Str /\ Suf(P[n], u) /\ Len(w) <= Len(P[n])
  BY <1>2, <1>3, <1>4, TrieNode DEF Best
<1>6. Suf(w, P[n])
  BY <1>2, <1>4, <1>5, SufOf
<1>7. IsSuffix(w, P[n])
  BY <1>4, <1>5, <1>6, SufIs
<1>8. P[n] \notin ToSet(V)
  BY <1>2, <1>3 DEF ToSet
<1>9. P[n] \in Nodes
  <2>1. PICK a \in 1..Len(V) : \E l \in 0..Len(V[a]) : P[n] = SubSeq(V[a], 1, l)
    BY <1>1, <1>5 DEF Tree0, Covers
  <2>2. P[n] \in Prefixes(V[a]) /\ a \in DOMAIN V
    BY <1>2, <2>1 DEF Prefixes
  <2>3. QED BY <1>1, <2>2 DEF Nodes
<1>10. IsStrictSuffix(w, P[n])
  BY <1>2, <1>7, <1>8 DEF IsStrictSuffix
<1>11. QED BY <1>1, <1>8, <1>9, <1>10 DEF Hidden

LEMMA MatchFinds ==
    ASSUME Built, word_vector \in Seq(Words), NEW str \in Str
    PROVE  am_match(str) \in 0..Len(word_vector) /\ FindsFirst(str, am_match(str))
<1>1. PICK P, K, L : Complete(chart, word_vector, L, P, K)
  BY DEF Built
<1>2. PICK V : V = word_vector
  OBVIOUS
<1>3. PICK w : Walked(V, P, K, str, Len(str), w) /\ am_match(str) = w.found
  BY <1>1, <1>2, MatchIs
<1>4. Tree0(V, L, P, K) /\ Trie(P, K) /\ V \in Seq(Words)
  BY <1>1, <1>2 DEF Complete, Tree0
<1>5. PICK n \in Nat : n = Len(str)
  BY DEF Str
<1>6. PICK f \in 0..Len(V) : f = w.found
  BY <1>3 DEF Walked
<1>7. CASE f = 0
  <2>1. \A r \in 1..n : NoEnd(V, P, K, str, r)
    BY <1>3, <1>5, <1>6, <1>7 DEF Walked
  <2>2. \A r \in 1..Len(str) : \A v \in EndsAt(str, r) : Hidden(v)
    BY <1>2, <1>4, <1>5, <2>1, ClearIs
  <2>3. FindsFirst(str, f)
    BY <1>7, <2>2 DEF FindsFirst
  <2>4. QED BY <1>2, <1>3, <1>6, <2>3
<1>8. CASE f # 0
  <2>0. PICK r \in 1..n : \E m : /\ Best(P, K, SubSeq(str, 1, r), m) /\ P[m] = V[f]
                                 /\ \A q \in 1..(r - 1) : NoEnd(V, P, K, str, q)
    BY <1>3, <1>5, <1>6, <1>8 DEF Walked
  <2>1. PICK m : /\ Best(P, K, SubSeq(str, 1, r), m) /\ P[m] = V[f]
                 /\ \A q \in 1..(r - 1) : NoEnd(V, P, K, str, q)
    BY <2>0
  <2>2. f \in 1..Len(V) /\ V[f] \in ToSet(V)
    <3>1. Len(V) \in Nat
      BY <1>4
    <3>2. f \in 1..Len(V)
      BY <1>8, <3>1
    <3>3. QED BY <1>4, <3>2 DEF ToSet
  <2>3. V[f] \in EndsAt(str, r)
    BY <1>2, <1>4, <1>5, <2>1, <2>2, EndsIs DEF Best
  <2>4. ASSUME NEW v \in EndsAt(str, r) PROVE Len(v) <= Len(V[f])
    <3>1. v \in ToSet(V) /\ Suf(v, SubSeq(str, 1, r))
      BY <1>2, <1>4, <1>5, EndsIs
    <3>2. PICK k \in 0..K : P[k] = v
      BY <1>4, <3>1, WordNode
    <3>3. QED BY <2>1, <3>1, <3>2 DEF Best
  <2>5. ASSUME NEW q \in 1..(r - 1), NEW v \in EndsAt(str, q) PROVE Hidden(v)
    <3>1. q \in 1..Len(str)
      BY <1>5
    <3>2. NoEnd(V, P, K, str, q)
      BY <2>1
    <3>3. QED BY <1>2, <1>4, <3>1, <3>2, ClearIs
  <2>6. FindsFirst(str, f)
    BY <1>2, <1>5, <1>8, <2>3, <2>4, <2>5 DEF FindsFirst
  <2>7. QED BY <1>2, <1>3, <1>6, <2>6
<1>9. QED BY <1>7, <1>8

-----------------------------------------------------------------------------
(* The decoders give strings. *)

\* A function defined from its end: what it is at i comes from what it is behind i.
Behind(F, i, n) == [j \in (i + 1)..n |-> F[j]]
Backward(body, V, n) == \A i \in 1..n : \A G \in [(i + 1)..n -> V] : body[i][G] \in V

LEMMA BackwardRuns ==
    ASSUME NEW n \in Nat, NEW V, NEW body, Backward(body, V, n)
    PROVE  \E F \in [1..n -> V] : \A i \in 1..n : F[i] = body[i][Behind(F, i, n)]
<1> DEFINE Done(F, k) == /\ F \in [(n + 1 - k)..n -> V]
                         /\ \A i \in (n + 1 - k)..n : F[i] = body[i][Behind(F, i, n)]
           T == {k \in 0..n : \E F : Done(F, k)}
<1>1. 0 \in T
  <2> DEFINE F == [i \in (n + 1)..n |-> i]
  <2>1. (n + 1)..n = {} /\ n + 1 - 0 = n + 1
    OBVIOUS
  <2>2. F \in [(n + 1)..n -> V]
    BY <2>1
  <2> HIDE DEF F
  <2>3. Done(F, 0)
    BY <2>1, <2>2
  <2>4. QED BY <2>3
<1>2. ASSUME NEW k \in 0..(n - 1), k \in T PROVE k + 1 \in T
  <2>1. PICK m \in 1..n : m = n - k
    OBVIOUS
  <2>2. n + 1 - k = m + 1 /\ n + 1 - (k + 1) = m
    BY <2>1
  <2>3. PICK F : F \in [(m + 1)..n -> V] /\ \A i \in (m + 1)..n : F[i] = body[i][Behind(F, i, n)]
    BY <1>2, <2>2
  <2>4. PICK G : G = [i \in m..n |-> IF i = m THEN body[m][F] ELSE F[i]]
    OBVIOUS
  <2>5. /\ \A i \in m..n : i = m \/ i \in (m + 1)..n
        /\ \A i \in (m + 1)..n : i \in m..n /\ i # m
        /\ m \in m..n
        /\ \A i \in m..n : \A j \in (i + 1)..n : j \in (m + 1)..n
    BY <2>1
  <2>6. body[m][F] \in V
    BY <2>1, <2>3 DEF Backward
  <2>7. G \in [m..n -> V] /\ G[m] = body[m][F] /\ \A i \in (m + 1)..n : G[i] = F[i]
    BY <2>3, <2>4, <2>5, <2>6
  <2>8. Behind(G, m, n) = F
    <3>1. \A j \in (m + 1)..n : Behind(G, m, n)[j] = F[j]
      BY <2>7 DEF Behind
    <3>2. Behind(G, m, n) = [j \in (m + 1)..n |-> F[j]]
      BY <2>7 DEF Behind
    <3>3. QED BY <2>3, <3>2
  <2>9. \A i \in (m + 1)..n : Behind(G, i, n) = Behind(F, i, n)
    BY <2>5, <2>7 DEF Behind
  <2>10. \A i \in m..n : G[i] = body[i][Behind(G, i, n)]
    <3> TAKE i \in m..n
    <3>1. CASE i = m
      BY <2>7, <2>8, <3>1
    <3>2. CASE i \in (m + 1)..n
      BY <2>3, <2>7, <2>9, <3>2
    <3>3. QED BY <2>5, <3>1, <3>2
  <2>11. Done(G, k + 1)
    BY <2>2, <2>7, <2>10
  <2>12. QED BY <2>11
<1>3. n \in T
  <2> HIDE DEF T
  <2>1. \A k \in 0..n : k \in T
    BY <1>1, <1>2, UpTo
  <2>2. QED BY <2>1
<1>4. n + 1 - n = 1
  OBVIOUS
<1>5. QED BY <1>3, <1>4

\* A concatenation, from its first part on.
Flattens(g, s, n) == /\ g \in [1..n -> Str] /\ g[1] = s[1] /\ FlattenSeq(s) = g[n]
                     /\ \A i \in 2..n : g[i] = g[i - 1] \o s[i]

LEMMA Concat ==
    ASSUME NEW s \in Str, NEW t \in Str
    PROVE  s \o t \in Str
BY ConcatProperties DEF Str

LEMMA FlattenIs ==
    ASSUME NEW n \in Nat \ {0}, NEW s, s \in [1..n -> Str]
    PROVE  \E g : Flattens(g, s, n)
<1> DEFINE S == [k \in 0..n |-> Str]
           step == [k \in 1..n |-> [x \in Str |-> IF k = 1 THEN s[k] ELSE x \o s[k]]]
           Fl(g) == g = [i \in 1..n |-> IF i = 1 THEN s[i] ELSE g[i - 1] \o s[i]]
<1>1. \A k \in 1..n : \A x \in Str : step[k][x] = IF k = 1 THEN s[k] ELSE x \o s[k]
  OBVIOUS
<1>2. \A k \in 0..n : S[k] = Str
  OBVIOUS
<1> HIDE DEF S, step
<1>3. \A k \in 1..n : \A x \in Str : step[k][x] \in Str
  <2> TAKE k \in 1..n
  <2> TAKE x \in Str
  <2>1. s[k] \in Str /\ x \o s[k] \in Str
    BY Concat
  <2>2. QED BY <1>1, <2>1
<1>4. /\ \A k \in 1..n : k - 1 \in 0..n /\ k \in 0..n /\ 0 \in 0..n /\ (k # 1 => k - 1 \in 1..n /\ k \in 2..n)
      /\ \A k \in 2..n : k \in 1..n /\ k # 1
      /\ \A k \in 1..n : \A j \in 1..k : j \in 1..n
      /\ 1 \in 1..n /\ n \in 1..n /\ 0 \in 0..n
  OBVIOUS
<1>5. << >> \in S[0]
  BY <1>2, <1>4, SufEmpty DEF Str
<1>6. Stages(S, n, step)
  BY <1>2, <1>3, <1>4 DEF Stages
<1>7. PICK f : Runs(f, S, n, << >>, step)
  BY <1>5, <1>6, StageByStage
<1>8. \A k \in 1..n : f[k] \in Str /\ f[k] = IF k = 1 THEN s[k] ELSE f[k - 1] \o s[k]
  BY <1>1, <1>2, <1>4, <1>7 DEF Runs
<1>9. \E g : Fl(g)
  <2>1. PICK g : g = [i \in 1..n |-> f[i]]
    OBVIOUS
  <2>2. \A i \in 1..n : g[i] = f[i] /\ (i # 1 => g[i - 1] = f[i - 1])
    BY <1>4, <2>1
  <2>3. \A i \in 1..n : g[i] = IF i = 1 THEN s[i] ELSE g[i - 1] \o s[i]
    BY <1>8, <2>2
  <2>4. g = [i \in 1..n |-> g[i]]
    BY <2>1
  <2>5. Fl(g)
    BY ONLY <2>3, <2>4
  <2>6. QED BY <2>5
<1>10. PICK g : g = CHOOSE h : Fl(h)
  OBVIOUS
<1>11. Fl(g)
  <2> HIDE DEF Fl
  <2>1. QED BY <1>9, <1>10, Zenon
<1>12. \A i \in 1..n : g[i] = IF i = 1 THEN s[i] ELSE g[i - 1] \o s[i]
  BY <1>11
<1>13. FlattenSeq(s) = g[n]
  <2>1. Len(s) = n
    <3>1. s \in Seq(Str)
      OBVIOUS
    <3>2. DOMAIN s = 1..n
      OBVIOUS
    <3>3. QED BY <3>1, <3>2, LenProperties
  <2>2. QED BY <1>10, <2>1 DEF FlattenSeq
<1>14. g = [i \in 1..n |-> g[i]]
  BY <1>11
<1> HIDE DEF Fl
<1>15. \A i \in 1..n : g[i] \in Str
  <2> DEFINE T == {k \in 0..n : k = 0 \/ g[k] \in Str}
  <2>1. 0 \in T
    BY <1>4
  <2>2. ASSUME NEW k \in 0..(n - 1), k \in T PROVE k + 1 \in T
    <3>1. k + 1 \in 1..n /\ k + 1 \in 0..n /\ (k + 1) - 1 = k /\ s[k + 1] \in Str /\ (k + 1 = 1 <=> k = 0)
      OBVIOUS
    <3>2. CASE k = 0
      BY <1>12, <3>1, <3>2
    <3>3. CASE k # 0
      <4>1. g[k + 1] = g[k] \o s[k + 1] /\ g[k] \in Str
        BY <1>12, <2>2, <3>1, <3>3
      <4>2. QED BY <3>1, <4>1, Concat
    <3>4. QED BY <3>2, <3>3
  <2> HIDE DEF T
  <2>3. \A k \in 0..n : k \in T
    BY <2>1, <2>2, UpTo
  <2>4. QED BY <1>4, <2>3 DEF T
<1>16. g \in [1..n -> Str]
  BY <1>14, <1>15
<1>17. QED BY <1>4, <1>12, <1>13, <1>16 DEF Flattens

-----------------------------------------------------------------------------
(* Escapes.                                                                  *)

LEMMA ConsIs ==
    ASSUME NEW x \in Int, NEW t \in Str
    PROVE  << x >> \in Str /\ << x >> \o t \in Str
<1>1. << x >> \in Seq(Int)
  OBVIOUS
<1>2. QED BY <1>1, Concat DEF Str

LEMMA ByteIs ==
    ASSUME NEW n \in Int
    PROVE  Byte(n) \in 0..255 /\ Byte(n) \in Int
BY Z3 DEF Byte

LEMMA AtIs ==
    ASSUME NEW s \in Str, NEW p
    PROVE  At(s, p) \in Int
<1>1. CASE p \in DOMAIN s
  <2>1. p \in 1..Len(s)
    BY <1>1, LenProperties DEF Str
  <2>2. QED BY <1>1, <2>1, ElementOfSeq DEF Str, At
<1>2. CASE p \notin DOMAIN s
  BY <1>2 DEF At, NUL
<1>3. QED BY <1>1, <1>2

LEMMA DecodeByteIs ==
    ASSUME NEW s \in Str, NEW p
    PROVE  url_decode_byte(s, p) \in Int
<1>1. PICK a \in Int, b \in Int : a = At(s, p) /\ b = At(s, p + 1)
  BY AtIs
<1>2. /\ Byte(IF a >= 65 THEN a - 55 ELSE a - 48) \in Int
      /\ Byte(IF b >= 65 THEN b - 55 ELSE b - 48) \in Int
  <2>1. (IF a >= 65 THEN a - 55 ELSE a - 48) \in Int /\ (IF b >= 65 THEN b - 55 ELSE b - 48) \in Int
    OBVIOUS
  <2>2. QED BY <2>1, ByteIs
<1>3. PICK x \in Int, y \in Int : /\ x = Byte(IF a >= 65 THEN a - 55 ELSE a - 48)
                                  /\ y = Byte(IF b >= 65 THEN b - 55 ELSE b - 48)
  BY <1>2
<1>4. url_decode_byte(s, p) = Byte(x * 16) + (y % 16)
  BY <1>1, <1>3 DEF url_decode_byte
<1>5. Byte(x * 16) \in Int
  BY ByteIs
<1>6. y % 16 \in Int
  BY Z3
<1>7. QED BY <1>4, <1>5, <1>6

Escape(s, slen, escape, plus, short, i, R) ==
    CASE i > slen -> << >>
      [] i <= slen /\ plus /\ s[i] = PLUS -> <<SPACE>> \o R[i + 1]
      [] i <= slen /\ s[i] = escape ->
           IF short /\ i + 2 > slen THEN << >>
           ELSE <<url_decode_byte(s, i + 1)>> \o R[i + 3]
      [] i <= slen /\ s[i] = NUL -> << >>
      [] OTHER -> <<s[i]>> \o R[i + 1]
Unescapes(R, s, slen, escape, plus, short) ==
    R = [i \in 1..slen + 3 |-> Escape(s, slen, escape, plus, short, i, R)]

LEMMA EscapeIs ==
    ASSUME NEW s \in Str, NEW slen \in 0..Len(s), NEW escape \in Int, NEW plus \in BOOLEAN,
           NEW short \in BOOLEAN, NEW i \in 1..(slen + 3), NEW R,
           i <= slen => R[i + 1] \in Str /\ R[i + 3] \in Str
    PROVE  Escape(s, slen, escape, plus, short, i, R) \in Str
<1>1. << >> \in Str /\ SPACE \in Int /\ url_decode_byte(s, i + 1) \in Int
  BY SufEmpty, DecodeByteIs DEF SPACE
<1>2. i \in Int /\ slen \in Int
  BY LenProperties DEF Str
<1>3. CASE i > slen
  BY <1>1, <1>2, <1>3 DEF Escape
<1>4. CASE i <= slen
  <2>1. s[i] \in Int
    <3>1. PICK n \in Nat : n = Len(s)
      BY DEF Str
    <3>2. i \in 1..Len(s)
      BY <1>4, <3>1
    <3>3. QED BY <3>2, ElementOfSeq DEF Str
  <2>2. PICK a \in Str, b \in Str : a = R[i + 1] /\ b = R[i + 3]
    BY <1>4
  <2>3. PICK x \in Int, d \in Int : x = s[i] /\ d = url_decode_byte(s, i + 1)
    BY <1>1, <2>1
  <2>4. <<SPACE>> \o a \in Str /\ <<d>> \o b \in Str /\ <<x>> \o a \in Str
    BY <1>1, ConsIs
  <2>5. Escape(s, slen, escape, plus, short, i, R) \in {<< >>, <<SPACE>> \o a, <<d>> \o b, <<x>> \o a}
    BY <1>2, <1>4, <2>2, <2>3 DEF Escape
  <2>6. QED BY <1>1, <2>4, <2>5
<1>5. QED BY <1>2, <1>3, <1>4

LEMMA UnescapeIs ==
    ASSUME NEW s \in Str, NEW slen \in 0..Len(s), NEW escape \in Int, NEW plus \in BOOLEAN,
           NEW short \in BOOLEAN
    PROVE  \E R : /\ R \in [1..(slen + 3) -> Str] /\ Unescapes(R, s, slen, escape, plus, short)
                  /\ Unescape(s, slen, escape, plus, short) = R[1]
<1>0. PICK m \in Nat : m = slen
  <2>1. PICK n \in Nat : n = Len(s)
    BY DEF Str
  <2>2. QED BY <2>1
<1>1. PICK n \in Nat : n = slen + 3
  BY <1>0
<1> DEFINE B(i, R) == Escape(s, slen, escape, plus, short, i, R)
           body == [i \in 1..n |-> [G \in [(i + 1)..n -> Str] |-> B(i, G)]]
<1>2. \A i \in 1..n : \A G \in [(i + 1)..n -> Str] : body[i][G] = B(i, G)
  OBVIOUS
<1> HIDE DEF body
<1>3. \A i \in 1..n : i <= slen => i + 1 \in (i + 1)..n /\ i + 3 \in (i + 1)..n
  BY <1>0, <1>1
<1>4. Backward(body, Str, n)
  <2> SUFFICES ASSUME NEW i \in 1..n, NEW G \in [(i + 1)..n -> Str] PROVE B(i, G) \in Str
    BY <1>2 DEF Backward
  <2>1. i <= slen => G[i + 1] \in Str /\ G[i + 3] \in Str
    BY <1>3
  <2>2. QED BY <1>1, <2>1, EscapeIs
<1>5. PICK F \in [1..n -> Str] : \A i \in 1..n : F[i] = body[i][Behind(F, i, n)]
  BY <1>4, BackwardRuns
<1>6. \A i \in 1..n : F[i] = B(i, F)
  <2> TAKE i \in 1..n
  <2>1. PICK G : G = Behind(F, i, n)
    OBVIOUS
  <2>2. G \in [(i + 1)..n -> Str] /\ \A j \in (i + 1)..n : G[j] = F[j]
    <3>1. \A j \in (i + 1)..n : j \in 1..n
      OBVIOUS
    <3>2. QED BY <2>1, <3>1 DEF Behind
  <2>3. F[i] = B(i, G)
    BY <1>2, <1>5, <2>1, <2>2
  <2>4. i <= slen => G[i + 1] = F[i + 1] /\ G[i + 3] = F[i + 3]
    BY <1>3, <2>2
  <2>5. B(i, G) = B(i, F)
    <3>1. CASE i <= slen
      BY <2>4, <3>1 DEF Escape
    <3>2. CASE i > slen
      BY <1>0, <1>1, <3>2 DEF Escape
    <3>3. QED BY <1>0, <1>1, <3>1, <3>2
  <2>6. QED BY <2>3, <2>5
<1>7. Unescapes(F, s, slen, escape, plus, short)
  <2>1. F = [i \in 1..n |-> F[i]]
    OBVIOUS
  <2>2. F = [i \in 1..n |-> B(i, F)]
    <3> HIDE DEF B
    <3>1. QED BY ONLY <1>6, <2>1
  <2>3. QED BY <1>1, <2>2 DEF Unescapes
<1>8. PICK R : R = CHOOSE H : Unescapes(H, s, slen, escape, plus, short)
  OBVIOUS
<1>9. Unescapes(R, s, slen, escape, plus, short)
  BY <1>7, <1>8, Zenon
<1>10. \A i \in 1..n : R[i] = B(i, R)
  BY <1>1, <1>9 DEF Unescapes
<1> HIDE DEF B
<1>11. \A i \in 1..n : R[i] \in Str
  <2> DEFINE T == {k \in 0..n : \A i \in (n + 1 - k)..n : i \in 1..n => R[i] \in Str}
  <2>1. 0 \in T
    <3>1. (n + 1 - 0)..n = {}
      OBVIOUS
    <3>2. QED BY <3>1
  <2>2. ASSUME NEW k \in 0..(n - 1), k \in T PROVE k + 1 \in T
    <3>1. PICK i \in 1..n : i = n - k
      OBVIOUS
    <3>2. \A j \in (i + 1)..n : R[j] \in Str
      <4>1. n + 1 - k = i + 1 /\ \A j \in (i + 1)..n : j \in 1..n
        BY <3>1
      <4>2. QED BY <2>2, <4>1
    <3>3. B(i, R) \in Str
      <4>1. i <= slen => R[i + 1] \in Str /\ R[i + 3] \in Str
        BY <1>3, <3>2
      <4>2. QED BY <1>1, <4>1, EscapeIs DEF B
    <3>4. \A j \in i..n : j = i \/ j \in (i + 1)..n
      OBVIOUS
    <3>5. n + 1 - (k + 1) = i /\ k + 1 \in 0..n
      BY <3>1
    <3>6. QED BY <1>10, <3>2, <3>3, <3>4, <3>5
  <2> HIDE DEF T
  <2>3. \A k \in 0..n : k \in T
    BY <2>1, <2>2, UpTo
  <2>4. n \in T /\ n + 1 - n = 1
    BY <2>3
  <2>5. QED BY <2>4 DEF T
<1>12. R = [i \in 1..n |-> R[i]]
  BY <1>1, <1>9 DEF Unescapes
<1>13. R \in [1..n -> Str]
  BY <1>11, <1>12
<1>14. Unescape(s, slen, escape, plus, short) = R[1]
  BY <1>8 DEF Unescape, Unescapes, Escape
<1>15. QED BY <1>1, <1>9, <1>13, <1>14

LEMMA StrchrIs ==
    ASSUME NEW s \in Str, NEW p \in Nat \ {0}, NEW c
    PROVE  \/ strchr(s, p, c) = 0 /\ \A i \in p..Len(s) : s[i] # c
           \/ /\ strchr(s, p, c) \in p..Len(s) /\ s[strchr(s, p, c)] = c
              /\ \A i \in p..(strchr(s, p, c) - 1) : s[i] # c
<1>1. PICK n \in Nat : n = Len(s)
  BY DEF Str
<1> DEFINE I == {i \in p..n : s[i] = c}
<1>2. strchr(s, p, c) = IF I # {} THEN Min(I) ELSE 0
  BY <1>1 DEF strchr, SelectInSubSeq
<1>3. CASE I = {}
  BY <1>1, <1>2, <1>3
<1>4. CASE I # {}
  <2>1. I \in SUBSET Nat
    OBVIOUS
  <2> HIDE DEF I
  <2>2. \E m \in I : \A k \in I : m <= k
    BY <1>4, <2>1, LeastNat
  <2>3. Min(I) \in I /\ \A k \in I : Min(I) <= k
    BY <2>2 DEF Min
  <2>4. PICK m \in I : m = strchr(s, p, c) /\ \A k \in I : m <= k
    BY <1>2, <1>4, <2>3
  <2>5. m \in p..n /\ s[m] = c
    BY <2>4 DEF I
  <2>6. \A i \in p..(m - 1) : s[i] # c
    <3> SUFFICES ASSUME NEW i \in p..(m - 1), s[i] = c PROVE FALSE
      OBVIOUS
    <3>1. i \in I
      BY <2>5 DEF I
    <3>2. m <= i
      BY <2>4, <3>1
    <3>3. QED BY <2>5, <3>2
  <2>7. QED BY <1>1, <2>4, <2>5, <2>6
<1>5. QED BY <1>3, <1>4

LEMMA SubStr ==
    ASSUME NEW s \in Str, NEW a \in Nat \ {0}, NEW b \in Int, b <= Len(s)
    PROVE  /\ SubSeq(s, a, b) \in Str
           /\ Len(SubSeq(s, a, b)) = IF a <= b THEN b - a + 1 ELSE 0
           /\ \A i \in 1..(b - a + 1) : SubSeq(s, a, b)[i] = s[a + i - 1]
<1>1. PICK n \in Nat : n = Len(s)
  BY DEF Str
<1>2. \A i \in a..b : s[i] \in Int
  <2>1. \A i \in a..b : i \in 1..Len(s)
    BY <1>1
  <2>2. QED BY <2>1, ElementOfSeq DEF Str
<1>3. QED BY <1>2, SubSeqProperties DEF Str

LEMMA CStringIs ==
    ASSUME NEW s \in Str
    PROVE  CString(s) \in Str
<1>1. PICK n \in Nat : n = Len(s)
  BY DEF Str
<1>2. PICK z : z = strchr(s, 1, NUL)
  OBVIOUS
<1>3. z = 0 \/ z \in 1..n
  <2>1. PICK p \in Nat \ {0} : p = 1
    OBVIOUS
  <2>2. strchr(s, p, NUL) = 0 \/ strchr(s, p, NUL) \in p..Len(s)
    BY StrchrIs
  <2>3. QED BY <1>1, <1>2, <2>1, <2>2
<1>4. CASE z = 0
  BY <1>2, <1>4 DEF CString
<1>5. CASE z \in 1..n
  <2>1. z # 0 /\ z - 1 \in Int /\ z - 1 <= Len(s)
    BY <1>1, <1>5
  <2>2. SubSeq(s, 1, z - 1) \in Str
    <3>1. PICK a \in Nat \ {0}, b \in Int : a = 1 /\ b = z - 1
      BY <2>1
    <3>2. SubSeq(s, a, b) \in Str
      BY <2>1, <3>1, SubStr
    <3>3. QED BY <3>1, <3>2
  <2>3. QED BY <1>2, <2>1, <2>2 DEF CString
<1>6. QED BY <1>3, <1>4, <1>5

\* The bits of a character, and the bytes of four.
LEMMA EsabIs ==
    ASSUME NEW c \in Int
    PROVE  Esab(c) \in 0..63 /\ Esab(c) \in Int
BY DEF Esab

LEMMA GroupIs ==
    ASSUME NEW data \in Str, NEW p
    PROVE  /\ Group(data, p) \in Str /\ Len(Group(data, p)) = 3
           /\ Group(data, p)[1] \in Int /\ Group(data, p)[2] \in Int
<1>1. PICK a \in Int, b \in Int, c \in Int, d \in Int :
         a = Esab(At(data, p + 0)) /\ b = Esab(At(data, p + 1)) /\ c = Esab(At(data, p + 2))
         /\ d = Esab(At(data, p + 3))
  BY AtIs, EsabIs
<1>2. Group(data, p) = << Byte(a * 4 + b \div 16), Byte(b * 16 + c \div 4), Byte(c * 64 + d) >>
  BY <1>1 DEF Group
<1>3. a * 4 + b \div 16 \in Int /\ b * 16 + c \div 4 \in Int /\ c * 64 + d \in Int
  BY Z3
<1>4. PICK x \in Int, y \in Int, z \in Int :
        x = Byte(a * 4 + b \div 16) /\ y = Byte(b * 16 + c \div 4) /\ z = Byte(c * 64 + d)
  BY <1>3, ByteIs
<1>5. Group(data, p) = << x, y, z >>
  BY <1>2, <1>4
<1>6. << x, y, z >> \in Seq(Int) /\ Len(<< x, y, z >>) = 3
  OBVIOUS
<1>7. QED BY <1>5, <1>6 DEF Str

LEMMA PaddingIs ==
    ASSUME NEW data \in Str, NEW p, NEW moves \in BOOLEAN
    PROVE  Padding(data, p, moves).out \in Str /\ Padding(data, p, moves).groups \in 0..2
<1>1. PICK one \in BOOLEAN : one <=> base64_equal_sign(data, p) = 1
  OBVIOUS
<1>2. PICK p2 : p2 = IF one THEN p + 3 ELSE p
  OBVIOUS
<1>3. PICK two \in BOOLEAN : two <=> base64_equal_sign(data, p2) = 2
  OBVIOUS
<1>4. PICK x \in Int, y \in Int, last \in Int :
        x = Group(data, p)[1] /\ y = Group(data, p)[2] /\ last = Group(data, p2)[1]
  BY GroupIs
<1>5. SubSeq(Group(data, p), 1, 2) = << x, y >>
  <2>1. PICK g \in Str : g = Group(data, p) /\ Len(g) = 3
    BY GroupIs
  <2>2. PICK a \in Nat \ {0}, b \in Int : a = 1 /\ b = 2
    OBVIOUS
  <2>4. PICK h \in Str : h = SubSeq(g, a, b) /\ Len(h) = 2 /\ h[1] = g[1] /\ h[2] = g[2]
    <3>1. b <= Len(g) /\ a <= b /\ b - a + 1 = 2 /\ 1 \in 1..2 /\ 2 \in 1..2
      BY <2>1, <2>2
    <3>2. /\ SubSeq(g, a, b) \in Str /\ Len(SubSeq(g, a, b)) = 2
          /\ \A i \in 1..2 : SubSeq(g, a, b)[i] = g[a + i - 1]
      BY <3>1, SubStr
    <3>3. a + 1 - 1 = 1 /\ a + 2 - 1 = 2
      BY <2>2
    <3>4. QED BY <3>1, <3>2, <3>3
  <2>5. h = << x, y >>
    <3>1. h[1] = x /\ h[2] = y
      BY <1>4, <2>1, <2>4
    <3>2. PICK t : t = << x, y >>
      OBVIOUS
    <3>3. t \in Str /\ Len(t) = 2 /\ t[1] = x /\ t[2] = y
      BY <3>2 DEF Str
    <3>4. \A i \in 1..2 : i = 1 \/ i = 2
      OBVIOUS
    <3>5. \A i \in 1..Len(h) : h[i] = t[i]
      BY <2>4, <3>1, <3>3, <3>4
    <3>6. h = t
      BY <2>4, <3>3, <3>5, SeqEqual DEF Str
    <3>7. QED BY <3>2, <3>6
  <2>3. QED BY <2>1, <2>2, <2>4, <2>5
<1>6. PICK first : first = IF one THEN SubSeq(Group(data, p), 1, 2) ELSE << >>
  OBVIOUS
<1>7. first \in Str /\ << x, y >> \in Str
  <2>1. << x, y >> \in Seq(Int) /\ << >> \in Seq(Int)
    OBVIOUS
  <2>2. QED BY <1>5, <1>6, <2>1 DEF Str
<1>8. Padding(data, p, moves) =
        [out |-> CASE ~two -> first
                   [] two /\ (moves \/ ~one) -> Append(first, last)
                   [] two /\ ~moves /\ one -> <<last, first[2], NUL>>,
         groups |-> (IF one THEN 1 ELSE 0) + (IF two THEN 1 ELSE 0)]
  BY <1>1, <1>2, <1>3, <1>4, <1>6 DEF Padding
<1>9. Padding(data, p, moves).groups \in 0..2
  BY <1>8
<1>10. Append(first, last) \in Str
  BY <1>7, AppendProperties DEF Str
<1>11. one => <<last, first[2], NUL>> \in Str
  <2>1. <<last, y, NUL>> \in Seq(Int)
    BY DEF NUL
  <2>2. one => first[2] = y
    <3>1. one => first = << x, y >>
      BY <1>5, <1>6
    <3>2. << x, y >>[2] = y
      OBVIOUS
    <3>3. QED BY ONLY <3>1, <3>2
  <2>3. QED BY <2>1, <2>2 DEF Str
<1>12. Padding(data, p, moves).out \in Str
  BY <1>7, <1>8, <1>10, <1>11
<1>13. QED BY <1>9, <1>12

-----------------------------------------------------------------------------
(* The encoder.                                                              *)

LEMMA BaseIs ==
    ASSUME NEW n \in 0..63
    PROVE  Base(n) \in 43..122
BY DEF Base

LEMMA SixBits ==
    ASSUME NEW a \in 0..127, NEW b \in 0..127
    PROVE  /\ a \div 4 \in 0..63 /\ (a % 4) * 16 + b \div 16 \in 0..63
           /\ (a % 16) * 4 + b \div 64 \in 0..63 /\ a % 64 \in 0..63
<1>1. /\ a \div 4 \in 0..31 /\ a % 4 \in 0..3 /\ b \div 16 \in 0..7 /\ a % 16 \in 0..15
      /\ b \div 64 \in 0..1 /\ a % 64 \in 0..63
  BY Z3
<1>2. PICK x \in 0..3, y \in 0..7, z \in 0..15, u \in 0..1 :
         x = a % 4 /\ y = b \div 16 /\ z = a % 16 /\ u = b \div 64
  BY <1>1
<1>3. x * 16 + y \in 0..63 /\ z * 4 + u \in 0..63
  BY Z3
<1>4. QED BY <1>1, <1>2, <1>3

LEMMA QuadIs ==
    ASSUME NEW str \in Seq(1..127), NEW i \in Nat \ {0}
    PROVE  \E a \in 43..122, b \in 43..122, c \in 43..122, d \in 43..122 : Quad(str, i) = << a, b, c, d >>
<1>1. PICK n \in Nat : n = Len(str)
  OBVIOUS
<1>2. \A j : At(str, j) \in 0..127
  <2> TAKE j
  <2>1. CASE j \in DOMAIN str
    <3>1. j \in 1..Len(str)
      BY <2>1
    <3>2. str[j] \in 1..127
      BY <3>1, ElementOfSeq, Zenon
    <3>3. QED BY <2>1, <3>2 DEF At
  <2>2. CASE j \notin DOMAIN str
    BY <2>2 DEF At, NUL
  <2>3. QED BY <2>1, <2>2
<1>3. PICK x \in 0..127, y \in 0..127, z \in 0..127 :
         x = At(str, i) /\ y = At(str, i + 1) /\ z = At(str, i + 2)
  BY <1>2, Zenon
<1>4. /\ Base(x \div 4) \in 43..122 /\ Base((x % 4) * 16 + y \div 16) \in 43..122
      /\ Base((y % 16) * 4 + z \div 64) \in 43..122 /\ Base(z % 64) \in 43..122
  <2>1. /\ x \div 4 \in 0..63 /\ (x % 4) * 16 + y \div 16 \in 0..63
        /\ (y % 16) * 4 + z \div 64 \in 0..63 /\ z % 64 \in 0..63
    BY SixBits
  <2>2. QED BY <2>1, BaseIs
<1>5. QED BY <1>3, <1>4, Zenon DEF Quad

Encode(str, i, C) ==
    CASE i > Len(str) -> << >>
      [] Len(str) - i = 0 -> SubSeq(Quad(str, i), 1, 2) \o <<EQUAL, EQUAL>>
      [] Len(str) - i = 1 -> SubSeq(Quad(str, i), 1, 3) \o <<EQUAL>>
      [] OTHER -> Quad(str, i) \o C[i + 3]
Encodes(C, str) == C = [i \in 1..Len(str) + 3 |-> Encode(str, i, C)]

LEMMA EncodePart ==
    ASSUME NEW str \in Seq(1..127), NEW i \in Nat \ {0}, NEW C,
           i + 1 < Len(str) => C[i + 3] \in Str
    PROVE  Encode(str, i, C) \in Str
<1>1. PICK n \in Nat : n = Len(str)
  OBVIOUS
<1>2. PICK q \in Str : q = Quad(str, i) /\ Len(q) = 4
  <2>1. PICK a \in 43..122, b \in 43..122, c \in 43..122, d \in 43..122 : Quad(str, i) = << a, b, c, d >>
    BY QuadIs, Zenon
  <2>2. << a, b, c, d >> \in Seq(Int) /\ Len(<< a, b, c, d >>) = 4
    OBVIOUS
  <2>3. QED BY <2>1, <2>2, Zenon DEF Str
<1>3. SubSeq(q, 1, 2) \in Str /\ SubSeq(q, 1, 3) \in Str
  <2>1. PICK a \in Nat \ {0}, b \in Int, c \in Int : a = 1 /\ b = 2 /\ c = 3
    OBVIOUS
  <2>2. b <= Len(q) /\ c <= Len(q)
    BY <1>2, <2>1
  <2>3. SubSeq(q, a, b) \in Str /\ SubSeq(q, a, c) \in Str
    BY <2>2, SubStr
  <2>4. QED BY <2>1, <2>3
<1>4. <<EQUAL, EQUAL>> \in Str /\ <<EQUAL>> \in Str /\ << >> \in Str
  BY DEF Str, EQUAL
<1>5. /\ SubSeq(q, 1, 2) \o <<EQUAL, EQUAL>> \in Str /\ SubSeq(q, 1, 3) \o <<EQUAL>> \in Str
      /\ (i + 1 < n => q \o C[i + 3] \in Str)
  <2>1. PICK u \in Str, v \in Str, e \in Str, f \in Str :
           u = SubSeq(q, 1, 2) /\ v = SubSeq(q, 1, 3) /\ e = <<EQUAL, EQUAL>> /\ f = <<EQUAL>>
    BY <1>3, <1>4
  <2>2. u \o e \in Str /\ v \o f \in Str
    BY Concat
  <2>3. i + 1 < n => q \o C[i + 3] \in Str
    BY <1>1, Concat
  <2>4. QED BY <2>1, <2>2, <2>3
<1>6. CASE i > n
  BY <1>1, <1>4, <1>6 DEF Encode
<1>7. CASE i = n
  BY <1>1, <1>2, <1>5, <1>7 DEF Encode
<1>8. CASE i + 1 = n
  BY <1>1, <1>2, <1>5, <1>8 DEF Encode
<1>9. CASE i + 1 < n
  BY <1>1, <1>2, <1>5, <1>9 DEF Encode
<1>10. QED BY <1>1, <1>6, <1>7, <1>8, <1>9

LEMMA EncodeIs ==
    ASSUME NEW str \in Seq(1..127)
    PROVE  \E C : /\ C \in [1..(Len(str) + 3) -> Str] /\ Encodes(C, str)
                  /\ base64_encode(str) = C[1]
<1>0. PICK m \in Nat : m = Len(str)
  OBVIOUS
<1>1. PICK n \in Nat : n = Len(str) + 3
  BY <1>0
<1> DEFINE B(i, C) == Encode(str, i, C)
           body == [i \in 1..n |-> [G \in [(i + 1)..n -> Str] |-> B(i, G)]]
<1>2. \A i \in 1..n : \A G \in [(i + 1)..n -> Str] : body[i][G] = B(i, G)
  OBVIOUS
<1> HIDE DEF body
<1>3. \A i \in 1..n : i \in Nat \ {0} /\ (i + 1 < Len(str) => i + 3 \in (i + 1)..n)
  BY <1>0, <1>1
<1>4. Backward(body, Str, n)
  <2> SUFFICES ASSUME NEW i \in 1..n, NEW G \in [(i + 1)..n -> Str] PROVE B(i, G) \in Str
    BY <1>2 DEF Backward
  <2>1. i + 1 < Len(str) => G[i + 3] \in Str
    BY <1>3
  <2>2. QED BY <1>3, <2>1, EncodePart
<1>5. PICK F \in [1..n -> Str] : \A i \in 1..n : F[i] = body[i][Behind(F, i, n)]
  BY <1>4, BackwardRuns
<1>6. \A i \in 1..n : F[i] = B(i, F)
  <2> TAKE i \in 1..n
  <2>1. PICK G : G = Behind(F, i, n)
    OBVIOUS
  <2>2. G \in [(i + 1)..n -> Str] /\ \A j \in (i + 1)..n : G[j] = F[j]
    <3>1. \A j \in (i + 1)..n : j \in 1..n
      OBVIOUS
    <3>2. QED BY <2>1, <3>1 DEF Behind
  <2>3. F[i] = B(i, G)
    BY <1>2, <1>5, <2>1, <2>2
  <2>4. i + 1 < Len(str) => G[i + 3] = F[i + 3]
    BY <1>3, <2>2
  <2>5. B(i, G) = B(i, F)
    <3>1. CASE i + 1 < m
      BY <1>0, <2>4, <3>1 DEF Encode
    <3>2. CASE ~(i + 1 < m)
      <4>1. ~(Len(str) - i > 1)
        BY <1>0, <3>2
      <4>2. Len(str) - i = 1 \/ Len(str) - i = 0 \/ i > Len(str)
        BY <1>0, <3>2
      <4>3. QED BY <4>1, <4>2 DEF Encode
    <3>3. QED BY <3>1, <3>2
  <2>6. QED BY <2>3, <2>5
<1>7. Encodes(F, str)
  <2>1. F = [i \in 1..n |-> F[i]]
    OBVIOUS
  <2>2. F = [i \in 1..n |-> B(i, F)]
    <3> HIDE DEF B
    <3>1. QED BY ONLY <1>6, <2>1
  <2>3. QED BY <1>1, <2>2 DEF Encodes
<1>8. PICK C : C = CHOOSE H : Encodes(H, str)
  OBVIOUS
<1>9. Encodes(C, str)
  BY <1>7, <1>8, Zenon
<1>10. \A i \in 1..n : C[i] = B(i, C)
  BY <1>1, <1>9 DEF Encodes
<1> HIDE DEF B
<1>11. \A i \in 1..n : C[i] \in Str
  <2> DEFINE T == {k \in 0..n : \A i \in (n + 1 - k)..n : i \in 1..n => C[i] \in Str}
  <2>1. 0 \in T
    <3>1. (n + 1 - 0)..n = {}
      OBVIOUS
    <3>2. QED BY <3>1
  <2>2. ASSUME NEW k \in 0..(n - 1), k \in T PROVE k + 1 \in T
    <3>1. PICK i \in 1..n : i = n - k
      OBVIOUS
    <3>2. \A j \in (i + 1)..n : C[j] \in Str
      <4>1. n + 1 - k = i + 1 /\ \A j \in (i + 1)..n : j \in 1..n
        BY <3>1
      <4>2. QED BY <2>2, <4>1
    <3>3. B(i, C) \in Str
      <4>1. i + 1 < Len(str) => C[i + 3] \in Str
        BY <1>3, <3>2
      <4>2. QED BY <1>3, <4>1, EncodePart DEF B
    <3>4. \A j \in i..n : j = i \/ j \in (i + 1)..n
      OBVIOUS
    <3>5. n + 1 - (k + 1) = i /\ k + 1 \in 0..n
      BY <3>1
    <3>6. QED BY <1>10, <3>2, <3>3, <3>4, <3>5
  <2> HIDE DEF T
  <2>3. \A k \in 0..n : k \in T
    BY <2>1, <2>2, UpTo
  <2>4. n \in T /\ n + 1 - n = 1
    BY <2>3
  <2>5. QED BY <2>4 DEF T
<1>12. C = [i \in 1..n |-> C[i]]
  BY <1>1, <1>9 DEF Encodes
<1>13. C \in [1..n -> Str]
  BY <1>11, <1>12
<1>14. base64_encode(str) = C[1]
  BY <1>8 DEF base64_encode, Encodes, Encode
<1>15. QED BY <1>1, <1>9, <1>13, <1>14

-----------------------------------------------------------------------------
(* The loop over the groups of a packet.                                     *)

\* Where the loop of base64_decode_stream ends, and what it writes, from i on.
Progress(l) == [at : 1..(l + 1), out : Str]
Stream1(data, l, i, C) ==
    IF l + 1 - i < 4 \/ base64_equal_sign(data, i) # 0 THEN [at |-> i, out |-> << >>]
    ELSE IF data[i] = CR THEN C[i + 2]
    ELSE [C[i + 4] EXCEPT !.out = Group(data, i) \o C[i + 4].out]
Streams(C, data, l) == C = [i \in 1..l + 1 |-> Stream1(data, l, i, C)]

LEMMA StreamPart ==
    ASSUME NEW data \in Str, NEW l \in Nat, NEW i \in 1..(l + 1), NEW C,
           ~(l + 1 - i < 4) => C[i + 2] \in Progress(l) /\ C[i + 4] \in Progress(l)
    PROVE  Stream1(data, l, i, C) \in Progress(l)
<1>1. << >> \in Str /\ Group(data, i) \in Str
  BY SufEmpty, GroupIs DEF Str
<1>2. [at |-> i, out |-> << >>] \in Progress(l)
  BY <1>1 DEF Progress
<1>3. CASE l + 1 - i < 4
  BY <1>2, <1>3 DEF Stream1
<1>4. CASE ~(l + 1 - i < 4)
  <2>1. PICK x \in Progress(l), y \in Progress(l) : x = C[i + 2] /\ y = C[i + 4]
    BY <1>4
  <2>2. y.at \in 1..(l + 1) /\ y.out \in Str
    BY DEF Progress
  <2>3. PICK o \in Str : o = Group(data, i) \o y.out
    <3>1. PICK g \in Str, u \in Str : g = Group(data, i) /\ u = y.out
      BY <1>1, <2>2
    <3>2. g \o u \in Str
      BY Concat
    <3>3. QED BY <3>1, <3>2
  <2>4. [y EXCEPT !.out = o] \in Progress(l)
    BY DEF Progress
  <2>5. Stream1(data, l, i, C) \in {[at |-> i, out |-> << >>], x, [y EXCEPT !.out = o]}
    BY <2>1, <2>3 DEF Stream1
  <2>6. QED BY <1>2, <2>4, <2>5
<1>5. QED BY <1>3, <1>4

LEMMA StreamLoopIs ==
    ASSUME NEW data \in Str, NEW l \in Nat
    PROVE  \E C : C \in [1..(l + 1) -> Progress(l)] /\ Streams(C, data, l) /\ StreamLoop(data, l) = C[1]
<1>1. PICK n \in Nat : n = l + 1
  OBVIOUS
<1> DEFINE B(i, C) == Stream1(data, l, i, C)
           body == [i \in 1..n |-> [G \in [(i + 1)..n -> Progress(l)] |-> B(i, G)]]
<1>2. \A i \in 1..n : \A G \in [(i + 1)..n -> Progress(l)] : body[i][G] = B(i, G)
  OBVIOUS
<1> HIDE DEF body
<1>3. \A i \in 1..n : i \in 1..(l + 1) /\ (~(l + 1 - i < 4) => i + 2 \in (i + 1)..n /\ i + 4 \in (i + 1)..n)
  BY <1>1
<1>4. Backward(body, Progress(l), n)
  <2> SUFFICES ASSUME NEW i \in 1..n, NEW G \in [(i + 1)..n -> Progress(l)] PROVE B(i, G) \in Progress(l)
    BY <1>2 DEF Backward
  <2>1. ~(l + 1 - i < 4) => G[i + 2] \in Progress(l) /\ G[i + 4] \in Progress(l)
    BY <1>3
  <2>2. QED BY <1>3, <2>1, StreamPart
<1>5. PICK F \in [1..n -> Progress(l)] : \A i \in 1..n : F[i] = body[i][Behind(F, i, n)]
  BY <1>4, BackwardRuns
<1>6. \A i \in 1..n : F[i] = B(i, F)
  <2> TAKE i \in 1..n
  <2>1. PICK G : G = Behind(F, i, n)
    OBVIOUS
  <2>2. G \in [(i + 1)..n -> Progress(l)] /\ \A j \in (i + 1)..n : G[j] = F[j]
    <3>1. \A j \in (i + 1)..n : j \in 1..n
      OBVIOUS
    <3>2. QED BY <2>1, <3>1 DEF Behind
  <2>3. F[i] = B(i, G)
    BY <1>2, <1>5, <2>1, <2>2
  <2>4. ~(l + 1 - i < 4) => G[i + 2] = F[i + 2] /\ G[i + 4] = F[i + 4]
    BY <1>3, <2>2
  <2>5. B(i, G) = B(i, F)
    <3>1. CASE l + 1 - i < 4
      BY <3>1 DEF Stream1
    <3>2. CASE ~(l + 1 - i < 4)
      BY <2>4, <3>2 DEF Stream1
    <3>3. QED BY <3>1, <3>2
  <2>6. QED BY <2>3, <2>5
<1>7. Streams(F, data, l)
  <2>1. F = [i \in 1..n |-> F[i]]
    OBVIOUS
  <2>2. F = [i \in 1..n |-> B(i, F)]
    <3> HIDE DEF B
    <3>1. QED BY ONLY <1>6, <2>1
  <2>3. QED BY <1>1, <2>2 DEF Streams
<1>8. PICK C : C = CHOOSE H : Streams(H, data, l)
  OBVIOUS
<1>9. Streams(C, data, l)
  BY <1>7, <1>8, Zenon
<1>10. \A i \in 1..n : C[i] = B(i, C)
  BY <1>1, <1>9 DEF Streams
<1> HIDE DEF B
<1>11. \A i \in 1..n : C[i] \in Progress(l)
  <2> DEFINE T == {k \in 0..n : \A i \in (n + 1 - k)..n : i \in 1..n => C[i] \in Progress(l)}
  <2>1. 0 \in T
    <3>1. (n + 1 - 0)..n = {}
      OBVIOUS
    <3>2. QED BY <3>1
  <2>2. ASSUME NEW k \in 0..(n - 1), k \in T PROVE k + 1 \in T
    <3>1. PICK i \in 1..n : i = n - k
      OBVIOUS
    <3>2. \A j \in (i + 1)..n : C[j] \in Progress(l)
      <4>1. n + 1 - k = i + 1 /\ \A j \in (i + 1)..n : j \in 1..n
        BY <3>1
      <4>2. QED BY <2>2, <4>1
    <3>3. B(i, C) \in Progress(l)
      <4>1. ~(l + 1 - i < 4) => C[i + 2] \in Progress(l) /\ C[i + 4] \in Progress(l)
        BY <1>3, <3>2
      <4>2. QED BY <1>3, <4>1, StreamPart DEF B
    <3>4. \A j \in i..n : j = i \/ j \in (i + 1)..n
      OBVIOUS
    <3>5. n + 1 - (k + 1) = i /\ k + 1 \in 0..n
      BY <3>1
    <3>6. QED BY <1>10, <3>2, <3>3, <3>4, <3>5
  <2> HIDE DEF T
  <2>3. \A k \in 0..n : k \in T
    BY <2>1, <2>2, UpTo
  <2>4. n \in T /\ n + 1 - n = 1
    BY <2>3
  <2>5. QED BY <2>4 DEF T
<1>12. C = [i \in 1..n |-> C[i]]
  BY <1>1, <1>9 DEF Streams
<1>13. C \in [1..n -> Progress(l)]
  BY <1>11, <1>12
<1>14. StreamLoop(data, l) = C[1]
  BY <1>8 DEF StreamLoop, Streams, Stream1
<1>15. QED BY <1>1, <1>9, <1>13, <1>14

-----------------------------------------------------------------------------
(* The decoders of a field.                                                  *)

LEMMA FlattenStr ==
    ASSUME NEW n \in Nat, NEW s, s \in [1..n -> Str]
    PROVE  FlattenSeq(s) \in Str
<1>1. CASE n = 0
  <2>1. s \in Seq(Str) /\ Len(s) = 0 /\ s = << >>
    <3>1. s \in [1..0 -> Str] /\ 1..0 = {}
      BY <1>1
    <3>2. s \in Seq(Str) /\ DOMAIN s = 1..0
      BY <3>1
    <3>3. Len(s) = 0
      BY <3>2, LenProperties
    <3>4. QED BY <3>2, <3>3
  <2>2. FlattenSeq(s) = << >>
    BY <2>1 DEF FlattenSeq
  <2>3. QED BY <2>2, SufEmpty DEF Str
<1>2. CASE n # 0
  <2>1. n \in Nat \ {0}
    BY <1>2
  <2>2. PICK g : Flattens(g, s, n)
    BY <2>1, FlattenIs
  <2>3. FlattenSeq(s) = g[n] /\ g \in [1..n -> Str] /\ n \in 1..n
    BY <2>1, <2>2 DEF Flattens
  <2>4. QED BY <2>3
<1>3. QED BY <1>1, <1>2

LEMMA UnescapeStr ==
    ASSUME NEW s \in Str, NEW slen \in 0..Len(s), NEW escape \in Int, NEW plus \in BOOLEAN,
           NEW short \in BOOLEAN
    PROVE  Unescape(s, slen, escape, plus, short) \in Str
<1>1. PICK R : /\ R \in [1..(slen + 3) -> Str] /\ Unescapes(R, s, slen, escape, plus, short)
               /\ Unescape(s, slen, escape, plus, short) = R[1]
  BY UnescapeIs, Zenon
<1>2. slen \in Nat
  BY LenProperties DEF Str
<1>3. 1 \in 1..(slen + 3)
  BY <1>2
<1>4. QED BY <1>1, <1>3

LEMMA DecodersAre ==
    ASSUME NEW s \in Str, NEW slen \in 0..Len(s)
    PROVE  /\ url_decode(s, slen) \in Str /\ url_decode_replace(s, slen) \in Str
           /\ quote_decode(s, slen) \in Str
<1>0. PICK t \in BOOLEAN, f \in BOOLEAN : t = TRUE /\ f = FALSE
  OBVIOUS
<1>1. PICK p \in Int, e \in Int : p = PERCENT /\ e = EQUAL
  BY DEF PERCENT, EQUAL
<1>2. /\ Unescape(s, slen, p, t, f) \in Str /\ Unescape(s, slen, p, t, t) \in Str
      /\ Unescape(s, slen, e, f, f) \in Str
  BY UnescapeStr
<1>3. QED BY <1>0, <1>1, <1>2 DEF url_decode, url_decode_replace, quote_decode

LEMMA EncoderIs ==
    ASSUME NEW str \in Seq(1..127)
    PROVE  base64_encode(str) \in Str
<1>1. PICK C : C \in [1..(Len(str) + 3) -> Str] /\ base64_encode(str) = C[1]
  BY EncodeIs
<1>2. 1 \in 1..(Len(str) + 3)
  OBVIOUS
<1>3. QED BY <1>1, <1>2

\* Fewer characters wait than were there.
LEMMA StreamIs ==
    ASSUME NEW data \in Str, NEW n \in Nat
    PROVE  /\ base64_decode_stream(data, n).out \in Str
           /\ base64_decode_stream(data, n).clen \in Int
           /\ base64_decode_stream(data, n).clen <= n
<1>1. PICK loop \in Progress(n) : loop = StreamLoop(data, n)
  <2>1. PICK C : C \in [1..(n + 1) -> Progress(n)] /\ StreamLoop(data, n) = C[1]
    BY StreamLoopIs
  <2>2. 1 \in 1..(n + 1)
    OBVIOUS
  <2>3. QED BY <2>1, <2>2
<1>2. PICK at \in 1..(n + 1), out \in Str : at = loop.at /\ out = loop.out
  BY DEF Progress
<1>3. PICK f \in BOOLEAN : f = FALSE
  OBVIOUS
<1>4. PICK o \in Str, groups \in 0..2 : o = Padding(data, at, f).out /\ groups = Padding(data, at, f).groups
  BY PaddingIs
<1>5. out \o o \in Str
  BY Concat
<1>6. base64_decode_stream(data, n) =
        IF n + 1 - at < 4 THEN [out |-> out, clen |-> n + 1 - at]
        ELSE [out |-> out \o o, clen |-> (n + 1 - at) - 4 * groups]
  <2>1. o = Padding(data, loop.at, FALSE).out /\ groups = Padding(data, loop.at, FALSE).groups
    BY <1>2, <1>3, <1>4
  <2>2. base64_decode_stream(data, n) =
          IF n + 1 - loop.at < 4 THEN [out |-> loop.out, clen |-> n + 1 - loop.at]
          ELSE [out |-> loop.out \o Padding(data, loop.at, FALSE).out,
                clen |-> (n + 1 - loop.at) - 4 * Padding(data, loop.at, FALSE).groups]
    <3>1. base64_decode_stream(data, n) =
            IF n + 1 - StreamLoop(data, n).at < 4
            THEN [out |-> StreamLoop(data, n).out, clen |-> n + 1 - StreamLoop(data, n).at]
            ELSE [out |-> StreamLoop(data, n).out \o Padding(data, StreamLoop(data, n).at, FALSE).out,
                  clen |-> (n + 1 - StreamLoop(data, n).at) - 4 * Padding(data, StreamLoop(data, n).at, FALSE).groups]
      BY DEF base64_decode_stream
    <3>2. QED BY ONLY <1>1, <3>1
  <2>3. QED BY <1>2, <2>1, <2>2
<1>7. n + 1 - at \in Int /\ n + 1 - at <= n /\ (n + 1 - at) - 4 * groups \in Int /\ (n + 1 - at) - 4 * groups <= n
  OBVIOUS
<1>8. QED BY <1>5, <1>6, <1>7

LEMMA DecodeIs ==
    ASSUME NEW data \in Str, NEW p \in Nat, NEW n \in Nat
    PROVE  base64_decode(data, p, n) \in Str
<1> DEFINE full == {k \in 0..n \div 4 : \A i \in 0..k - 1 : base64_equal_sign(data, p + 4 * i) = 0}
           k == CHOOSE k \in full : \A j \in full : j <= k
           text(m) == FlattenSeq([i \in 1..m |-> Group(data, p + 4 * (i - 1))])
<1>1. CASE n = 0 \/ n % 4 # 0
  <2>1. base64_decode(data, p, n) = << >>
    BY <1>1 DEF base64_decode
  <2>2. QED BY <2>1, SufEmpty DEF Str
<1>2. CASE n # 0 /\ n % 4 = 0
  <2>1. PICK m \in Nat : m = n \div 4
    BY <1>2, Z3
  <2>2. k \in full
    <3>1. 0 \in full
      BY <2>1
    <3>2. full \subseteq 0..m
      BY <2>1
    <3> HIDE DEF full
    <3> DEFINE R == {r \in 0..m : m - r \in full}
    <3>3. m \in R /\ R \subseteq Nat
      BY <3>1
    <3>4. \E r \in R : \A s \in R : r <= s
      <4> HIDE DEF R
      <4>1. R # {} /\ R \in SUBSET Nat
        BY <3>3
      <4>2. QED BY <4>1, LeastNat
    <3>5. PICK r \in R : \A s \in R : r <= s
      BY <3>4
    <3>6. m - r \in full /\ \A j \in full : j <= m - r
      <4>1. \A j \in full : m - j \in 0..m /\ m - (m - j) = j
        BY <3>2
      <4>2. \A j \in full : m - j \in R
        BY <4>1
      <4>3. \A j \in full : r <= m - j
        BY <3>5, <4>2
      <4>4. QED BY <3>2, <3>5, <4>3
    <3>7. \E l \in full : \A j \in full : j <= l
      BY <3>6
    <3>8. QED BY <3>7
  <2> HIDE DEF k
  <2>3. PICK l \in Nat : l = k
    BY <2>1, <2>2
  <2>4. PICK s : s = [i \in 1..l |-> Group(data, p + 4 * (i - 1))]
    OBVIOUS
  <2>5. s \in [1..l -> Str]
    BY <2>4, GroupIs
  <2>6. PICK t \in Str : t = text(l)
    BY <2>4, <2>5, FlattenStr
  <2>7. PICK o \in Str : o = Padding(data, p + 4 * l, TRUE).out
    <3>1. PICK b \in BOOLEAN : b = TRUE
      OBVIOUS
    <3>2. QED BY <3>1, PaddingIs
  <2>8. t \o o \in Str
    BY Concat
  <2>9. base64_decode(data, p, n) \in {t, t \o o}
    BY <1>2, <2>3, <2>6, <2>7 DEF base64_decode, k
  <2>10. QED BY <2>8, <2>9
<1>3. QED BY <1>1, <1>2

LEMMA StrDecodeIs ==
    ASSUME NEW raw \in Str
    PROVE  str_decode(raw) \in Str
<1>1. PICK n \in Nat : n = Len(raw)
  BY DEF Str
<1>2. PICK start \in Nat \ {0} : start = IF At(raw, 1) = EQUAL THEN 3 ELSE 4
  OBVIOUS
<1>3. PICK p \in Nat : p = strchr(raw, start, QUESTION)
  <2>1. strchr(raw, start, QUESTION) = 0 \/ strchr(raw, start, QUESTION) \in start..Len(raw)
    BY StrchrIs
  <2>2. QED BY <1>1, <2>1
<1>4. PICK from \in Nat \ {0} : from = p + 3
  OBVIOUS
<1>5. PICK q \in Nat : q = strchr(raw, from, QUESTION) /\ (q = 0 \/ q \in from..n)
  <2>1. strchr(raw, from, QUESTION) = 0 \/ strchr(raw, from, QUESTION) \in from..Len(raw)
    BY StrchrIs
  <2>2. QED BY <1>1, <2>1
<1>6. PICK word \in Str : word = SubSeq(raw, from, n) /\ (from <= n => Len(word) = n - from + 1)
  <2>1. n \in Int /\ n <= Len(raw)
    BY <1>1
  <2>2. SubSeq(raw, from, n) \in Str /\ Len(SubSeq(raw, from, n)) = IF from <= n THEN n - from + 1 ELSE 0
    BY <2>1, SubStr
  <2>3. QED BY <2>2
<1>7. PICK after \in Str : after = SubSeq(raw, q + 2, n)
  <2>1. PICK a \in Nat \ {0} : a = q + 2
    OBVIOUS
  <2>2. SubSeq(raw, a, n) \in Str
    BY <1>1, SubStr
  <2>3. QED BY <2>1, <2>2
<1>8. PICK plain \in Str : plain = url_decode_replace(raw, n)
  <2>1. n \in 0..Len(raw)
    BY <1>1
  <2>2. QED BY <2>1, DecodersAre
<1>9. PICK crash \in Str : crash = CRASH
  <2>1. <<-1>> \in Seq(Int)
    OBVIOUS
  <2>2. QED BY <2>1 DEF CRASH, Str
<1>10. q # 0 => quote_decode(word, q - p - 3) \o after \in Str
  <2> SUFFICES ASSUME q # 0 PROVE quote_decode(word, q - p - 3) \o after \in Str
    OBVIOUS
  <2>1. PICK l \in 0..Len(word) : l = q - p - 3
    BY <1>4, <1>5, <1>6
  <2>2. PICK d \in Str : d = quote_decode(word, l)
    BY DecodersAre
  <2>3. d \o after \in Str
    BY Concat
  <2>4. QED BY <2>1, <2>2, <2>3
<1>11. q # 0 => base64_decode(raw, from, q - p - 3) \o after \in Str
  <2> SUFFICES ASSUME q # 0 PROVE base64_decode(raw, from, q - p - 3) \o after \in Str
    OBVIOUS
  <2>1. PICK l \in Nat : l = q - p - 3
    BY <1>4, <1>5
  <2>2. PICK d \in Str : d = base64_decode(raw, from, l)
    BY DecodeIs
  <2>3. d \o after \in Str
    BY Concat
  <2>4. QED BY <2>1, <2>2, <2>3
<1>12. q # 0 => quote_decode(SubSeq(raw, p + 3, Len(raw)), q - p - 3) \o SubSeq(raw, q + 2, Len(raw)) \in Str
  BY <1>1, <1>4, <1>6, <1>7, <1>10
<1>13. q # 0 => base64_decode(raw, p + 3, q - p - 3) \o SubSeq(raw, q + 2, Len(raw)) \in Str
  BY <1>1, <1>4, <1>7, <1>11
<1>14. url_decode_replace(raw, Len(raw)) \in Str
  BY <1>1, <1>8
<1>15. p = strchr(raw, IF At(raw, 1) = EQUAL THEN 3 ELSE 4, QUESTION) /\ q = strchr(raw, p + 3, QUESTION)
  BY <1>2, <1>3, <1>4, <1>5
<1>16. CRASH \in Str
  BY <1>9
<1>17. \/ str_decode(raw) \in {CRASH, raw, url_decode_replace(raw, Len(raw))}
       \/ q # 0 /\ str_decode(raw) = quote_decode(SubSeq(raw, p + 3, Len(raw)), q - p - 3)
                                       \o SubSeq(raw, q + 2, Len(raw))
       \/ q # 0 /\ str_decode(raw) = base64_decode(raw, p + 3, q - p - 3)
                                       \o SubSeq(raw, q + 2, Len(raw))
  BY ONLY <1>15 DEF str_decode
<1>18. QED BY ONLY <1>12, <1>13, <1>14, <1>16, <1>17, raw \in Str

-----------------------------------------------------------------------------
(* What is sent, and what is searched of it, are strings. *)

LEMMA EscapedIs ==
    ASSUME NEW name \in Seq(1..127), NEW escape \in Int, NEW ten \in Int
    PROVE  Escaped(name, escape, ten) \in Str
<1>1. PICK n \in Nat : n = Len(name)
  OBVIOUS
<1>2. \A k \in Int : Digit(k, ten) \in Int
  BY DEF Digit
<1>3. PICK s : s = [i \in DOMAIN name |->
                      <<escape, Digit(name[i] \div 16, ten), Digit(name[i] % 16, ten)>>]
  OBVIOUS
<1>4. DOMAIN name = 1..n
  BY <1>1
<1>5. \A i \in 1..n : <<escape, Digit(name[i] \div 16, ten), Digit(name[i] % 16, ten)>> \in Str
  <2> TAKE i \in 1..n
  <2>1. PICK c \in 1..127 : c = name[i]
    BY <1>1, ElementOfSeq
  <2>2. c \div 16 \in Int /\ c % 16 \in Int
    BY Z3
  <2>3. PICK a \in Int, b \in Int : a = Digit(c \div 16, ten) /\ b = Digit(c % 16, ten)
    BY <1>2, <2>2
  <2>4. << escape, a, b >> \in Seq(Int)
    OBVIOUS
  <2>5. QED BY <2>1, <2>3, <2>4 DEF Str
<1>6. s \in [1..n -> Str]
  BY ONLY <1>3, <1>4, <1>5
<1>7. FlattenSeq(s) \in Str
  BY <1>6, FlattenStr
<1>8. QED BY <1>3, <1>7 DEF Escaped

LEMMA LinesAre ==
    ASSUME NEW code \in Str
    PROVE  Lines(code) \in Str
<1>1. PICK n \in Nat : n = Len(code)
  BY DEF Str
<1>2. PICK s : s = [i \in DOMAIN code |->
                      IF i % LineLen = 0 /\ i < Len(code) THEN <<code[i], CR, LF>> ELSE <<code[i]>>]
  OBVIOUS
<1>3. DOMAIN code = 1..n
  BY <1>1, LenProperties DEF Str
<1>4. \A i \in 1..n : <<code[i], CR, LF>> \in Str /\ <<code[i]>> \in Str
  <2> TAKE i \in 1..n
  <2>1. PICK c \in Int : c = code[i]
    BY <1>1, ElementOfSeq DEF Str
  <2>2. <<c, CR, LF>> \in Seq(Int) /\ <<c>> \in Seq(Int)
    BY DEF CR, LF
  <2>3. QED BY <2>1, <2>2 DEF Str
<1>5. s \in [1..n -> Str]
  BY ONLY <1>2, <1>3, <1>4
<1>6. FlattenSeq(s) \in Str
  BY <1>5, FlattenStr
<1>7. QED BY <1>2, <1>6 DEF Lines

LEMMA WordStr ==
    ASSUME NEW letter \in Int, NEW word \in Str
    PROVE  EncodedWord(letter, word) \in Str
<1>1. <<EQUAL, QUESTION, 117, QUESTION, letter, QUESTION>> \in Str /\ <<QUESTION, EQUAL>> \in Str
  BY DEF Str, EQUAL, QUESTION
<1>2. PICK a \in Str, b \in Str : a = <<EQUAL, QUESTION, 117, QUESTION, letter, QUESTION>> /\ b = <<QUESTION, EQUAL>>
  BY <1>1
<1>3. PICK c \in Str : c = a \o word
  BY Concat
<1>4. c \o b \in Str
  BY Concat
<1>5. QED BY <1>2, <1>3, <1>4 DEF EncodedWord

LEMMA TextStr ==
    ASSUME NEW t \in Seq(1..127)
    PROVE  t \in Str
<1>1. \A i \in 1..Len(t) : t[i] \in Int
  <2> TAKE i \in 1..Len(t)
  <2>1. PICK c \in 1..127 : c = t[i]
    BY ElementOfSeq
  <2>2. QED BY <2>1
<1>2. QED BY <1>1 DEF Str

LEMMA RawIs ==
    ASSUME NEW way \in Ways, NEW name \in Seq(1..127)
    PROVE  Raw(way, name) \in Str
<1>1. PICK p \in Int, e \in Int, A \in Int, a \in Int, q \in Int, b \in Int :
         p = PERCENT /\ e = EQUAL /\ A = 65 /\ a = 97 /\ q = Letter_Q /\ b = Letter_B
  BY DEF PERCENT, EQUAL, Letter_Q, Letter_B
<1>2. name \in Str
  BY TextStr
<1>3. PICK s \in Str, t \in Str, u \in Str, v \in Str :
         s = Escaped(name, p, A) /\ t = Escaped(name, e, a) /\ u = Escaped(name, e, A)
         /\ v = base64_encode(name)
  BY EscapedIs, EncoderIs
<1>4. EncodedWord(q, t) \in Str /\ EncodedWord(q, u) \in Str /\ EncodedWord(b, v) \in Str
  BY WordStr
<1>5. CASE way = "plain"
  BY <1>2, <1>5 DEF Raw
<1>6. CASE way \in {"url", "form"}
  BY <1>1, <1>3, <1>6 DEF Raw
<1>7. CASE way = "quoted"
  BY <1>1, <1>3, <1>4, <1>7 DEF Raw
<1>8. CASE way = "QUOTED"
  BY <1>1, <1>3, <1>4, <1>8 DEF Raw
<1>9. CASE way = "base64"
  BY <1>1, <1>3, <1>4, <1>9 DEF Raw
<1>10. QED BY <1>5, <1>6, <1>7, <1>8, <1>9 DEF Ways

\* What is searched of a field.
LEMMA FieldStr ==
    ASSUME NEW way \in Ways, NEW name \in Names, NEW after \in Afters, NEW line, NEW raw, NEW str,
           line = Raw(way, name) \o after \o <<CR, LF>>,
           raw = strcpychr(line, 1, CR),
           str = IF way = "form" THEN url_decode(raw, Len(raw)) ELSE str_decode(raw)
    PROVE  CString(str) \in Str
<1>1. name \in Seq(1..127) /\ after \in Str
  BY TextsAssumption, TextStr
<1>2. PICK r \in Str : r = Raw(way, name)
  BY <1>1, RawIs
<1>3. line \in Str
  <2>1. PICK e \in Str : e = <<CR, LF>>
    <3>1. <<CR, LF>> \in Seq(Int)
      BY DEF CR, LF
    <3>2. QED BY <3>1 DEF Str
  <2>2. PICK x \in Str : x = r \o after
    BY <1>1, Concat
  <2>3. x \o e \in Str
    BY Concat
  <2>4. QED BY <1>2, <2>1, <2>2, <2>3
<1>4. raw \in Str
  <2>1. PICK n \in Nat : n = Len(line)
    BY <1>3 DEF Str
  <2>2. PICK p \in Nat \ {0} : p = 1
    OBVIOUS
  <2>3. strchr(line, p, CR) = 0 \/ strchr(line, p, CR) \in p..Len(line)
    BY <1>3, StrchrIs
  <2>4. PICK b \in Int : b = strchr(line, p, CR) - 1
    BY <2>1, <2>2, <2>3
  <2>5. b <= Len(line)
    BY <2>1, <2>2, <2>3, <2>4
  <2>6. SubSeq(line, p, b) \in Str
    BY <1>3, <2>5, SubStr
  <2>7. QED BY <2>2, <2>4, <2>6 DEF strcpychr
<1>5. str \in Str
  <2>1. PICK l \in 0..Len(raw) : l = Len(raw)
    BY <1>4 DEF Str
  <2>2. url_decode(raw, l) \in Str /\ str_decode(raw) \in Str
    BY <1>4, DecodersAre, StrDecodeIs
  <2>3. QED BY <2>1, <2>2
<1>6. QED BY <1>5, CStringIs

LEMMA MailIs ==
    ASSUME NEW m \in Mails
    PROVE  /\ m.content \in Seq(1..127) /\ m.attach \in Seq(1..127)
           /\ m.encoding \in {"base64", "url", "none"} /\ m.attach_encoding \in {"base64", "url", "none"}
<1>1. \A t \in Texts \cup Attachments \cup {<< >>} : t \in Seq(1..127)
  <2>1. << >> \in Seq(1..127)
    OBVIOUS
  <2>2. QED BY <2>1, TextsAssumption
<1>2. QED BY <1>1 DEF Mails, Encodings

LEMMA StreamStr ==
    ASSUME mail \in Mails, NEW part \in {"content", "attach"}
    PROVE  Stream(part) \in Str
<1>1. mail[part] \in Seq(1..127) /\ EncodingOf(part) \in {"base64", "url", "none"}
  BY MailIs DEF EncodingOf
<1>2. PICK t \in Seq(1..127) : t = mail[part]
  BY <1>1
<1>3. Lines(base64_encode(t)) \in Str
  BY EncoderIs, LinesAre
<1>4. Escaped(t, PERCENT, 65) \in Str
  <2>1. PICK p \in Int, A \in Int : p = PERCENT /\ A = 65
    BY DEF PERCENT
  <2>2. Escaped(t, p, A) \in Str
    BY EscapedIs
  <2>3. QED BY <2>1, <2>2
<1>5. t \in Str
  BY TextStr
<1>6. CASE EncodingOf(part) = "base64"
  BY <1>2, <1>3, <1>6 DEF Stream
<1>7. CASE EncodingOf(part) = "url"
  BY <1>2, <1>4, <1>7 DEF Stream
<1>8. CASE EncodingOf(part) = "none"
  BY <1>2, <1>5, <1>8 DEF Stream
<1>9. QED BY <1>1, <1>6, <1>7, <1>8

\* Where a string is in another one.
LEMMA StrstrIs ==
    ASSUME NEW s \in Str, NEW w \in Str
    PROVE  \/ /\ strstr(s, w) = 0
              /\ \A p \in 1..(Len(s) - Len(w) + 1) : SubSeq(s, p, p + Len(w) - 1) # w
           \/ /\ strstr(s, w) \in 1..(Len(s) - Len(w) + 1)
              /\ SubSeq(s, strstr(s, w), strstr(s, w) + Len(w) - 1) = w
<1>1. PICK n \in Nat, l \in Nat : n = Len(s) /\ l = Len(w)
  BY DEF Str
<1> DEFINE I == {p \in 1..(n - l + 1) : SubSeq(s, p, p + l - 1) = w}
<1>2. strstr(s, w) = IF I = {} THEN 0 ELSE Min(I)
  BY <1>1 DEF strstr
<1>3. CASE I = {}
  BY <1>1, <1>2, <1>3
<1>4. CASE I # {}
  <2>1. I \in SUBSET Nat
    OBVIOUS
  <2> HIDE DEF I
  <2>2. \E m \in I : \A k \in I : m <= k
    BY <1>4, <2>1, LeastNat
  <2>3. Min(I) \in I
    BY <2>2 DEF Min
  <2>4. PICK m \in I : m = strstr(s, w)
    BY <1>2, <1>4, <2>3
  <2>5. m \in 1..(n - l + 1) /\ SubSeq(s, m, m + l - 1) = w
    BY <2>4 DEF I
  <2>6. QED BY <1>1, <2>4, <2>5
<1>5. QED BY <1>3, <1>4

LEMMA MarkersAre ==
    /\ Boundary \in Str /\ Len(Boundary) = 4
    /\ Boundary[1] = 13 /\ Boundary[2] = 10 /\ Boundary[3] = 45 /\ Boundary[4] = 45
    /\ StringEnd \in Str /\ Len(StringEnd) = 12
    /\ StringEnd[1] = 37 /\ StringEnd[2] = 51 /\ StringEnd[3] = 67 /\ StringEnd[4] = 37
    /\ StringEnd[5] = 50 /\ StringEnd[6] = 70 /\ StringEnd[7] = 115 /\ StringEnd[8] = 116
    /\ StringEnd[9] = 114 /\ StringEnd[10] = 105 /\ StringEnd[11] = 110 /\ StringEnd[12] = 103
<1>1. Boundary = << 13, 10, 45, 45 >>
  BY DEF Boundary, CR, LF
<1>2. << 13, 10, 45, 45 >> \in Seq(Int)
  OBVIOUS
<1>3. StringEnd = << 37, 51, 67, 37, 50, 70, 115, 116, 114, 105, 110, 103 >>
  BY DEF StringEnd, PERCENT
<1>4. << 37, 51, 67, 37, 50, 70, 115, 116, 114, 105, 110, 103 >> \in Seq(Int)
  OBVIOUS
<1>5. QED BY <1>1, <1>2, <1>3, <1>4 DEF Str

LEMMA MarkerStr ==
    Marker \in Str
BY MarkersAre DEF Marker

LEMMA WireStr ==
    ASSUME mail \in Mails, NEW part \in {"content", "attach"}
    PROVE  Wire(part) \in Str
<1>1. Stream(part) \in Str
  BY StreamStr
<1>2. Stream(part) \o Marker \in Str
  BY <1>1, MarkerStr, Concat
<1>3. QED BY <1>1, <1>2 DEF Wire

\* The text of a packet is its beginning.
LEMMA TextInIs ==
    ASSUME NEW raw \in Str
    PROVE  /\ TextIn(raw) \in Str /\ EndIn(raw) \in Nat
           /\ EndIn(raw) = 0 => TextIn(raw) = raw
           /\ EndIn(raw) # 0 => /\ EndIn(raw) \in 1..(Len(raw) - Len(Marker) + 1)
                                /\ SubSeq(raw, EndIn(raw), EndIn(raw) + Len(Marker) - 1) = Marker
                                /\ TextIn(raw) = SubSeq(raw, 1, EndIn(raw) - 1)
                                /\ Len(TextIn(raw)) = EndIn(raw) - 1
<1>1. CASE EndIn(raw) = 0
  BY <1>1 DEF TextIn
<1>2. CASE EndIn(raw) # 0
  <2>1. PICK n \in Nat, l \in Nat : n = Len(raw) /\ l = Len(Marker)
    BY MarkerStr DEF Str
  <2>2. PICK q \in 1..(n - l + 1) : q = EndIn(raw) /\ SubSeq(raw, q, q + l - 1) = Marker
    <3>1. EndIn(raw) = strstr(raw, Marker)
      BY <1>2 DEF EndIn
    <3>2. EndIn(raw) \in 1..(n - l + 1) /\ SubSeq(raw, EndIn(raw), EndIn(raw) + l - 1) = Marker
      BY <1>2, <2>1, <3>1, MarkerStr, StrstrIs
    <3>3. QED BY <3>2
  <2>3. TextIn(raw) = SubSeq(raw, 1, q - 1)
    BY <1>2, <2>2 DEF TextIn
  <2>4. PICK a \in Nat \ {0}, b \in Int : a = 1 /\ b = q - 1 /\ b <= Len(raw)
    BY <2>1, <2>2
  <2>5. SubSeq(raw, a, b) \in Str /\ Len(SubSeq(raw, a, b)) = IF a <= b THEN b - a + 1 ELSE 0
    BY <2>4, SubStr
  <2>6. (IF a <= b THEN b - a + 1 ELSE 0) = q - 1
    BY <2>2, <2>4
  <2>7. TextIn(raw) \in Str /\ Len(TextIn(raw)) = EndIn(raw) - 1
    <3>1. TextIn(raw) = SubSeq(raw, a, b)
      BY <2>3, <2>4
    <3>2. QED BY ONLY <2>2, <2>5, <2>6, <3>1
  <2>8. EndIn(raw) \in Nat /\ EndIn(raw) \in 1..(Len(raw) - Len(Marker) + 1)
    BY ONLY <2>1, <2>2
  <2>9. /\ SubSeq(raw, EndIn(raw), EndIn(raw) + Len(Marker) - 1) = Marker
        /\ TextIn(raw) = SubSeq(raw, 1, EndIn(raw) - 1)
    BY ONLY <2>1, <2>2, <2>3
  <2>10. QED BY ONLY <1>2, <2>7, <2>8, <2>9
<1>3. QED BY <1>1, <1>2

-----------------------------------------------------------------------------
(* The packets, and the invariant.                                           *)

LEMMA MaxOf ==
    ASSUME NEW a \in Int, NEW b \in Int
    PROVE  Max({a, b}) = IF a >= b THEN a ELSE b
<1>1. \A x \in {a, b} : (\A y \in {a, b} : x >= y) <=> x = IF a >= b THEN a ELSE b
  OBVIOUS
<1>2. \E x \in {a, b} : \A y \in {a, b} : x >= y
  OBVIOUS
<1>3. QED BY <1>1, <1>2 DEF Max

\* What waits is a beginning of the buffer.
Waits == buf \in Str /\ dlen \in Nat /\ dlen <= Len(buf)

LEMMA FilledIs ==
    ASSUME Waits, NEW raw \in Str
    PROVE  Filled(raw) \in Str /\ dlen + Len(raw) <= Len(Filled(raw))
<1>1. PICK m \in Nat : m = Len(buf)
  BY DEF Waits, Str
<1>2. PICK n \in Nat : n = Len(raw)
  BY DEF Str
<1>3. PICK l \in Nat : l = dlen /\ l <= m
  BY <1>1 DEF Waits
<1>4. PICK k \in Nat : k = Max({Len(buf), dlen + Len(raw)}) /\ k = (IF m >= l + n THEN m ELSE l + n)
  <2>1. PICK b \in Int : b = l + n
    OBVIOUS
  <2>2. Max({m, b}) = IF m >= b THEN m ELSE b
    BY MaxOf
  <2>3. QED BY <1>1, <1>2, <1>3, <2>1, <2>2
<1>5. PICK f : f = [i \in 1..k |-> IF i \in l + 1 .. l + n THEN raw[i - l] ELSE buf[i]]
  OBVIOUS
<1>6. f = Filled(raw)
  BY <1>1, <1>2, <1>3, <1>4, <1>5 DEF Filled
<1>7. \A i \in 1..k : f[i] \in Int
  <2> TAKE i \in 1..k
  <2>1. CASE i \in l + 1 .. l + n
    <3>1. i - l \in 1..Len(raw)
      BY <1>2, <2>1
    <3>2. raw[i - l] \in Int
      BY <3>1, ElementOfSeq DEF Str
    <3>3. QED BY <1>5, <2>1, <3>2
  <2>2. CASE i \notin l + 1 .. l + n
    <3>1. i \in 1..Len(buf)
      BY <1>1, <1>3, <1>4, <2>2
    <3>2. buf[i] \in Int
      BY <3>1, ElementOfSeq DEF Str, Waits
    <3>3. QED BY <1>5, <2>2, <3>2
  <2>3. QED BY <2>1, <2>2
<1>8. f \in [1..k -> Int]
  BY <1>5, <1>7
<1>9. f \in Str /\ Len(f) = k
  BY <1>8 DEF Str
<1>10. QED BY <1>2, <1>3, <1>4, <1>6, <1>9

LEMMA MovedUpIs ==
    ASSUME NEW f \in Str, NEW zlen \in Nat, zlen <= Len(f), NEW left \in Int, left <= zlen
    PROVE  MovedUp(f, zlen, left) \in Str /\ Len(MovedUp(f, zlen, left)) = Len(f)
<1>1. PICK n \in Nat : n = Len(f)
  BY DEF Str
<1>2. DOMAIN f = 1..n
  BY <1>1, LenProperties DEF Str
<1>3. PICK g : g = [i \in 1..n |-> IF i <= left THEN f[i + zlen - left] ELSE f[i]]
  OBVIOUS
<1>4. g = MovedUp(f, zlen, left)
  BY <1>2, <1>3 DEF MovedUp
<1>5. \A i \in 1..n : g[i] \in Int
  <2> TAKE i \in 1..n
  <2>1. i \in 1..Len(f) /\ (i <= left => i + zlen - left \in 1..Len(f))
    BY <1>1
  <2>2. f[i] \in Int /\ (i <= left => f[i + zlen - left] \in Int)
    BY <2>1, ElementOfSeq DEF Str
  <2>3. QED BY <1>3, <2>2
<1>6. g \in [1..n -> Int]
  BY <1>3, <1>5
<1>7. g \in Str /\ Len(g) = n
  BY <1>6 DEF Str
<1>8. QED BY <1>1, <1>4, <1>7

LEMMA DecodedIs ==
    ASSUME Waits, mail \in Mails, pc \in {"content", "attach"}, NEW text \in Str, NEW raw \in Str,
           NEW d, d = Decoded(text, raw)
    PROVE  d.bufp \in Str /\ d.buf \in Str /\ d.dlen \in Int /\ d.dlen <= Len(d.buf)
<1>1. EncodingOf(pc) \in {"base64", "url", "none"}
  BY MailIs DEF EncodingOf
<1>2. CASE EncodingOf(pc) = "base64"
  <2>1. PICK f \in Str : f = Filled(text) /\ dlen + Len(text) <= Len(f)
    BY FilledIs
  <2>2. PICK zlen \in Nat : zlen = dlen + Len(text)
    <3>1. PICK n \in Nat : n = Len(text)
      BY DEF Str
    <3>2. QED BY <3>1 DEF Waits
  <2>3. PICK code : code = base64_decode_stream(f, zlen)
    OBVIOUS
  <2>4. PICK left \in Int : left = code.clen /\ left <= zlen
    BY <2>3, StreamIs
  <2>5. code.out \in Str
    BY <2>3, StreamIs
  <2>6. MovedUp(f, zlen, left) \in Str /\ Len(MovedUp(f, zlen, left)) = Len(f)
    BY <2>1, <2>2, <2>4, MovedUpIs
  <2>7. d.bufp = code.out /\ d.buf = MovedUp(f, zlen, left) /\ d.dlen = left
    BY <1>2, <2>1, <2>2, <2>3, <2>4 DEF Decoded
  <2>8. left <= Len(f)
    <3>1. PICK n \in Nat : n = Len(f)
      BY DEF Str
    <3>2. QED BY <2>1, <2>2, <2>4, <3>1
  <2>9. QED BY <2>4, <2>5, <2>6, <2>7, <2>8
<1>3. CASE EncodingOf(pc) = "url"
  <2>1. FormText(text) \in Str
    <3>1. PICK l \in 0..Len(text) : l = Len(text)
      BY DEF Str
    <3>2. url_decode_replace(text, l) \in Str
      BY DecodersAre
    <3>3. QED BY <3>1, <3>2 DEF FormText
  <2>2. d.bufp \in {raw, FormText(text)} /\ d.buf = buf /\ d.dlen = dlen
    BY <1>3 DEF Decoded
  <2>3. QED BY <2>1, <2>2 DEF Waits
<1>4. CASE EncodingOf(pc) = "none"
  <2>1. d.bufp = raw /\ d.buf = buf /\ d.dlen = dlen
    BY <1>4 DEF Decoded
  <2>2. QED BY <2>1 DEF Waits
<1>5. QED BY <1>1, <1>2, <1>3, <1>4

-----------------------------------------------------------------------------
\* Once the automaton is built, what is found in the string searched last is what
\* FindsFirst says; while it is not built, nothing was searched.
AutomatonInv ==
    /\ word_vector \in Seq(Words)
    /\ am \in {"adding", "building", "built"}
    /\ am = "building" => Building
    /\ am = "built" => Built /\ FindsFirst(bufp, found)
    /\ am # "built" => bufp = << >> /\ found = 0
TextInv ==
    /\ pc \in {"content", "attach"} => am = "built" /\ mail \in Mails
    /\ sent \in Nat
    /\ Waits
KeywordInv == AutomatonInv /\ TextInv

LEMMA KeywordInit ==
    Init => KeywordInv
<1> SUFFICES ASSUME Init PROVE KeywordInv
  OBVIOUS
<1>1. << >> \in Str /\ << >> \in Seq(Words) /\ Len(<< >>) = 0
  BY SufEmpty DEF Str
<1>2. AutomatonInv
  BY <1>1 DEF Init, AutomatonInit, AutomatonInv
<1>3. TextInv
  BY <1>1 DEF Init, TextInv, Waits
<1>4. QED BY <1>2, <1>3 DEF KeywordInv

\* A search in the automaton that is built.
LEMMA SearchFinds ==
    ASSUME Built, word_vector \in Seq(Words), UNCHANGED amVars, NEW str, CString(str) \in Str, Search(str)
    PROVE  Built' /\ FindsFirst(bufp, found)'
<1>1. PICK s \in Str : s = CString(str)
  OBVIOUS
<1>2. PICK f : f = am_match(s)
  OBVIOUS
<1>3. FindsFirst(s, f)
  BY <1>2, MatchFinds
<1>4. bufp' = s /\ found' = f
  BY <1>1, <1>2 DEF Search
<1>5. word_vector' = word_vector
  BY DEF amVars
<1>6. FindsFirst(s, f)'
  BY <1>3, <1>5 DEF FindsFirst, EndsAt, Hidden, Nodes
<1>7. FindsFirst(bufp, found)'
  BY <1>4, <1>6 DEF FindsFirst
<1>8. Built'
  <2>1. words_len' = words_len
    BY <1>5 DEF words_len
  <2>2. QED BY <2>1 DEF Built, amVars
<1>9. QED BY <1>7, <1>8

\* The building of the automaton.
LEMMA KeywordBuild ==
    ASSUME KeywordInv, AutomatonNext, UNCHANGED <<pc, mailVars, seen>>
    PROVE  KeywordInv'
<1>1. AutomatonInv /\ TextInv
  BY DEF KeywordInv
<1>2. am # "built" /\ bufp' = << >> /\ found' = 0 /\ pc \notin {"content", "attach"}
  <2>1. am # "built"
    BY DEF AutomatonNext, AddWord, BuildTree, BuildNode, BuildReturn
  <2>2. QED BY <1>1, <2>1 DEF AutomatonInv, TextInv, seen
<1>3. TextInv'
  BY <1>1, <1>2 DEF TextInv, Waits, mailVars
<1>4. FindsFirst(bufp, found)'
  <2>1. FindsFirst(<< >>, 0)'
    BY DEF FindsFirst
  <2>2. QED BY <1>2, <2>1 DEF FindsFirst
<1>5. CASE \E w \in Words : AddWord(w)
  <2>1. PICK w \in Words : AddWord(w)
    BY <1>5
  <2>2. word_vector' \in Seq(Words) /\ am' = "adding"
    BY <1>1, <2>1, AppendProperties DEF AddWord, AutomatonInv
  <2>3. AutomatonInv'
    BY <1>2, <2>2 DEF AutomatonInv
  <2>4. QED BY <1>3, <2>3 DEF KeywordInv
<1>6. CASE BuildTree
  <2>1. Building'
    BY <1>1, <1>6, TreeBuilt DEF AutomatonInv
  <2>2. am' = "building" /\ word_vector' = word_vector
    BY <1>6 DEF BuildTree
  <2>3. AutomatonInv'
    BY <1>1, <1>2, <2>1, <2>2 DEF AutomatonInv
  <2>4. QED BY <1>3, <2>3 DEF KeywordInv
<1>7. CASE BuildNode
  <2>1. Building /\ am' = "building" /\ word_vector' = word_vector
    BY <1>1, <1>7 DEF BuildNode, AutomatonInv
  <2>2. Building'
    BY <1>1, <1>7, <2>1, NodeBuilt DEF AutomatonInv
  <2>3. AutomatonInv'
    BY <1>1, <1>2, <2>1, <2>2 DEF AutomatonInv
  <2>4. QED BY <1>3, <2>3 DEF KeywordInv
<1>8. CASE BuildReturn
  <2>1. Building /\ am' = "built" /\ word_vector' = word_vector
    BY <1>1, <1>8 DEF BuildReturn, AutomatonInv
  <2>2. Built'
    BY <1>8, <2>1, ReturnBuilt
  <2>3. AutomatonInv'
    BY <1>1, <1>4, <2>1, <2>2 DEF AutomatonInv
  <2>4. QED BY <1>3, <2>3 DEF KeywordInv
<1>9. QED BY <1>5, <1>6, <1>7, <1>8 DEF AutomatonNext

\* A header field is searched when the automaton is there.
LEMMA KeywordField ==
    ASSUME KeywordInv, NEW way \in Ways, NEW name \in Names, NEW after \in Afters,
           Field(way, name, after)
    PROVE  KeywordInv'
<1>1. AutomatonInv /\ TextInv
  BY DEF KeywordInv
<1>2. am = "built" /\ UNCHANGED amVars
  BY DEF Field
<1>3. PICK line, raw, str :
        /\ line = Raw(way, name) \o after \o <<CR, LF>>
        /\ raw = strcpychr(line, 1, CR)
        /\ str = IF way = "form" THEN url_decode(raw, Len(raw)) ELSE str_decode(raw)
  OBVIOUS
<1>4. Search(str)
  BY <1>3 DEF Field
<1>5. CString(str) \in Str
  BY <1>3, FieldStr
<1>6. Built' /\ FindsFirst(bufp, found)'
  BY <1>1, <1>2, <1>4, <1>5, SearchFinds DEF AutomatonInv
<1>7. AutomatonInv'
  BY <1>1, <1>2, <1>6 DEF AutomatonInv, amVars
<1>8. TextInv'
  <2>1. pc' \notin {"content", "attach"}
    BY DEF Field
  <2>2. UNCHANGED <<sent, buf, dlen>>
    BY DEF Field
  <2>3. QED BY <1>1, <2>1, <2>2 DEF TextInv, Waits
<1>9. QED BY <1>7, <1>8 DEF KeywordInv

LEMMA BuiltStays ==
    ASSUME UNCHANGED amVars, UNCHANGED <<bufp, found>>, AutomatonInv
    PROVE  AutomatonInv'
<1>1. /\ UNCHANGED <<word_vector, chart, queue, fail, head, tail, am>>
      /\ words_len' = words_len
  BY DEF amVars, words_len
<1>2. (Building <=> Building') /\ (Built <=> Built')
  BY <1>1 DEF Building, Built, Phase1, Phase2
<1>3. FindsFirst(bufp, found) <=> FindsFirst(bufp, found)'
  BY <1>1 DEF FindsFirst, EndsAt, Hidden, Nodes
<1>4. QED BY <1>1, <1>2, <1>3 DEF AutomatonInv

LEMMA KeywordStart ==
    ASSUME KeywordInv, NEW m \in Mails, StartContent(m)
    PROVE  KeywordInv'
<1>1. AutomatonInv /\ TextInv
  BY DEF KeywordInv
<1>2. AutomatonInv'
  <2>1. UNCHANGED amVars /\ UNCHANGED <<bufp, found>>
    BY DEF StartContent, seen
  <2>2. QED BY <1>1, <2>1, BuiltStays
<1>3. TextInv'
  <2>1. am' = "built" /\ mail' \in Mails /\ sent' = 0 /\ buf' = << >> /\ dlen' = 0
    BY DEF StartContent, amVars
  <2>2. << >> \in Str /\ Len(<< >>) = 0
    BY SufEmpty DEF Str
  <2>3. QED BY <2>1, <2>2 DEF TextInv, Waits
<1>4. QED BY <1>2, <1>3 DEF KeywordInv

\* A packet of the text or of the attachment.
LEMMA KeywordPacket ==
    ASSUME KeywordInv, NEW n, Packet(n)
    PROVE  KeywordInv'
<1>1. AutomatonInv /\ TextInv
  BY DEF KeywordInv
<1>2. pc \in {"content", "attach"} /\ am = "built" /\ mail \in Mails /\ UNCHANGED amVars /\ mail' = mail
  BY <1>1 DEF Packet, TextInv
<1>3. PICK stream \in Str : stream = Wire(pc)
  BY <1>2, WireStr
<1>4. n \in 1..Len(stream) - sent
  BY <1>3 DEF Packet
<1>5. PICK l \in Nat, s \in Nat : l = Len(stream) /\ s = sent
  BY <1>1 DEF Str, TextInv
<1>6. n \in Nat /\ s + n \in Nat /\ s + n <= l
  BY <1>4, <1>5
<1>7. PICK raw \in Str : raw = SubSeq(stream, s + 1, s + n)
  <2>1. PICK a \in Nat \ {0}, b \in Int : a = s + 1 /\ b = s + n
    BY <1>6
  <2>2. b <= Len(stream)
    BY <1>5, <1>6, <2>1
  <2>3. SubSeq(stream, a, b) \in Str
    BY <2>2, SubStr
  <2>4. QED BY <2>1, <2>3
<1>8. PICK text \in Str : text = TextIn(raw)
  BY TextInIs
<1>9. PICK d : d = Decoded(text, raw)
  OBVIOUS
<1>10. d.bufp \in Str /\ d.buf \in Str /\ d.dlen \in Int /\ d.dlen <= Len(d.buf)
  BY <1>1, <1>2, <1>9, DecodedIs DEF TextInv
<1>11. \/ /\ d.dlen < 0 /\ pc' = "crashed" /\ UNCHANGED <<sent, buf, dlen, content, seen>>
       \/ /\ ~(d.dlen < 0) /\ Search(d.bufp) /\ buf' = d.buf
          /\ \/ sent' = 0 /\ dlen' = 0
             \/ sent' = sent + n /\ dlen' = d.dlen
  <2> DEFINE r == SubSeq(Wire(pc), sent + 1, sent + n)
             e == Decoded(TextIn(r), r)
  <2>1. r = raw /\ e = d
    BY <1>3, <1>5, <1>7, <1>8, <1>9
  <2>2. \/ /\ e.dlen < 0 /\ pc' = "crashed" /\ UNCHANGED <<sent, buf, dlen, content, seen>>
        \/ /\ ~(e.dlen < 0) /\ Search(e.bufp) /\ buf' = e.buf
           /\ \/ sent' = 0 /\ dlen' = 0
              \/ sent' = sent + n /\ dlen' = e.dlen
    BY DEF Packet
  <2>3. QED BY ONLY <2>1, <2>2
<1>12. CASE d.dlen < 0
  <2>1. pc' = "crashed" /\ UNCHANGED <<sent, buf, dlen, content, seen>>
    BY <1>11, <1>12
  <2>2. AutomatonInv'
    BY <1>1, <1>2, <2>1, BuiltStays DEF seen
  <2>3. TextInv'
    BY <1>1, <2>1 DEF TextInv, Waits
  <2>4. QED BY <2>2, <2>3 DEF KeywordInv
<1>13. CASE ~(d.dlen < 0)
  <2>1. Search(d.bufp) /\ buf' = d.buf
    BY <1>11, <1>13
  <2>2. CString(d.bufp) \in Str
    BY <1>10, CStringIs
  <2>3. Built' /\ FindsFirst(bufp, found)'
    BY <1>1, <1>2, <2>1, <2>2, SearchFinds DEF AutomatonInv
  <2>4. AutomatonInv'
    BY <1>1, <1>2, <2>3 DEF AutomatonInv, amVars
  <2>5. Waits' /\ sent' \in Nat
    <3>1. PICK k \in Nat : k = Len(d.buf)
      BY <1>10 DEF Str
    <3>2. QED BY <1>5, <1>6, <1>10, <1>11, <1>13, <2>1, <3>1 DEF Waits
  <2>6. TextInv'
    BY <1>2, <2>5 DEF TextInv, amVars
  <2>7. QED BY <2>4, <2>6 DEF KeywordInv
<1>14. QED BY <1>12, <1>13

LEMMA KeywordStep ==
    KeywordInv /\ [Next]_vars => KeywordInv'
<1> SUFFICES ASSUME KeywordInv, [Next]_vars PROVE KeywordInv'
  OBVIOUS
<1>1. CASE AutomatonNext /\ UNCHANGED <<pc, mailVars, seen>>
  BY <1>1, KeywordBuild
<1>2. CASE \E way \in Ways, name \in Names, after \in Afters : Field(way, name, after)
  BY <1>2, KeywordField
<1>3. CASE \E m \in Mails : StartContent(m)
  BY <1>3, KeywordStart
<1>4. CASE \E n \in 1..Len(Wire(Part)) : Packet(n)
  BY <1>4, KeywordPacket
<1>5. CASE UNCHANGED vars
  <2>1. UNCHANGED amVars /\ UNCHANGED <<bufp, found>> /\ UNCHANGED <<pc, mail, sent, buf, dlen, am>>
    BY <1>5 DEF vars, mailVars, seen, amVars
  <2>2. AutomatonInv'
    BY <2>1, BuiltStays DEF KeywordInv
  <2>3. TextInv'
    BY <2>1 DEF KeywordInv, TextInv, Waits
  <2>4. QED BY <2>2, <2>3 DEF KeywordInv
<1>6. QED BY <1>1, <1>2, <1>3, <1>4, <1>5 DEF Next

THEOREM FirstKeyword == Spec => []FindsFirstKeyword
<1>1. KeywordInv => FindsFirstKeyword
  BY DEF KeywordInv, AutomatonInv, FindsFirstKeyword
<1>2. QED BY <1>1, KeywordInit, KeywordStep, PTL DEF Spec
=============================================================================
